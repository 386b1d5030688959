----------------------------- MODULE QueueProofs -----------------------------
(***************************************************************************)
(* Theorems about the two slots of a request, for every set of tenants and *)
(* requests, every cap, queue and set of buckets, and both disciplines.    *)
(***************************************************************************)
EXTENDS TenantQueue, FiniteSetTheorems, TLAPS

\* The admission controller of TenantQueue, with the theorems about it.
AP == INSTANCE AdmissionProofs WITH
          Priorities <- {Priority(n, bucket) : n \in 1 .. TenantCap, bucket \in Buckets}

\* What AdmissionProofs assumes of its constants holds of these.
LEMMA Assumptions ==
    AP!RequestsAssumption /\ AP!SizesAssumption /\ AP!PrioritiesAssumption /\ AP!RuntimeAssumption
BY AdmissionAssumption, TenantsAssumption, BucketsAssumption
   DEF AP!RequestsAssumption, AP!SizesAssumption, AP!PrioritiesAssumption,
       AP!RuntimeAssumption, AP!IsFiniteSet, IsFiniteSet, Priority

(* The inductive invariant of the controller is one of these admissions. *)
LEMMA ControllerInit == AP!Init => AP!IInv
BY AP!InvInit, Assumptions
   DEF AP!RequestsAssumption, AP!SizesAssumption, AP!PrioritiesAssumption, AP!RuntimeAssumption

(* A step of the controller, as AdmissionProofs shows.                     *)
LEMMA ControllerStep == AP!IInv /\ [AP!Next]_(AP!vars) => AP!IInv'
BY AP!InvStep, Assumptions
   DEF AP!RequestsAssumption, AP!SizesAssumption, AP!PrioritiesAssumption, AP!RuntimeAssumption

\* The requests that hold a slot of tenant t, forgotten ones included.
Counted == InProgress \cup Forgotten
CountedOf(t) == RequestsOf(t) \cap Counted

ActiveType == active \in [Tenants -> 0 .. TenantCap]
\* A request that failed between the slots has not called acquire().
LostInv == lost \subseteq Requests /\ \A r \in lost : pc[r] = "new"
SlotsInv == \A t \in Tenants : active[t] = Cardinality(CountedOf(t))

\* Under "drr", at most n live entries of a tenant have the priority of its n-th
\* active request or a higher one.
Ahead(t, n) == {u \in A!Live \cap RequestsOf(t) :
                   rank[u].priority < (n * 10 + BasePriority) * 100 + 4}
LineInv == Scheduling = "drr" =>
               \A t \in Tenants, n \in 1 .. TenantCap : Cardinality(Ahead(t, n)) <= n

IInv == AP!IInv /\ ActiveType /\ LostInv /\ SlotsInv /\ LineInv

(* A controller step of this module is one of the controller that           *)
(* AdmissionProofs is about: the two are instances of one module.          *)
LEMMA SameController ==
    /\ A!Init <=> AP!Init
    /\ A!Live = AP!Live
    /\ admVars = AP!vars /\ A!vars = AP!vars
    /\ A!HandOver <=> AP!HandOver
    /\ A!FreeSlot <=> AP!FreeSlot
    /\ \A r \in Requests :
          /\ A!AdmitFast(r) <=> AP!AdmitFast(r)
          /\ A!RejectFull(r) <=> AP!RejectFull(r)
          /\ A!TimerFires(r) <=> AP!TimerFires(r)
          /\ A!ReturnAdmitted(r) <=> AP!ReturnAdmitted(r)
          /\ A!ReturnTimedOut(r) <=> AP!ReturnTimedOut(r)
          /\ A!TaskCancelled(r) <=> AP!TaskCancelled(r)
          /\ \A p : A!Enqueue(r, p) <=> AP!Enqueue(r, p)
<1>1. A!Init <=> AP!Init BY DEF A!Init, AP!Init
<1>2. A!Live = AP!Live BY DEF A!Live, AP!Live
<1>3. admVars = AP!vars /\ A!vars = AP!vars BY DEF admVars, AP!vars, A!vars
<1>4. A!HandOver <=> AP!HandOver
  BY <1>2 DEF A!HandOver, AP!HandOver, A!IsNext, AP!IsNext, A!Before, AP!Before
<1>5. A!FreeSlot <=> AP!FreeSlot
  BY <1>2 DEF A!FreeSlot, AP!FreeSlot
<1>6. /\ A!HasRoom <=> AP!HasRoom
      /\ A!QueueFull <=> AP!QueueFull
  BY DEF A!HasRoom, AP!HasRoom, A!QueueFull, AP!QueueFull, A!Cardinality, AP!Cardinality
<1>7. \A r \in Requests :
         /\ A!AdmitFast(r) <=> AP!AdmitFast(r)
         /\ A!RejectFull(r) <=> AP!RejectFull(r)
         /\ \A p : A!Enqueue(r, p) <=> AP!Enqueue(r, p)
  BY <1>6 DEF A!AdmitFast, AP!AdmitFast, A!RejectFull, AP!RejectFull, A!Enqueue, AP!Enqueue
<1>8. \A r \in Requests :
         /\ A!TimerFires(r) <=> AP!TimerFires(r)
         /\ A!ReturnAdmitted(r) <=> AP!ReturnAdmitted(r)
         /\ A!ReturnTimedOut(r) <=> AP!ReturnTimedOut(r)
         /\ A!TaskCancelled(r) <=> AP!TaskCancelled(r)
  BY DEF A!TimerFires, AP!TimerFires, A!ReturnAdmitted, AP!ReturnAdmitted,
         A!ReturnTimedOut, AP!ReturnTimedOut, A!TaskCancelled, AP!TaskCancelled
<1>9. QED BY <1>1, <1>2, <1>3, <1>4, <1>5, <1>7, <1>8

(* While a tenant is below its cap, the priority of its next request is one *)
(* of those the controller is instantiated with.                           *)
LEMMA NextPriority ==
    ASSUME ActiveType, NEW r \in Requests, active[TenantOf[r]] < TenantCap,
           NEW bucket \in Buckets
    PROVE  Priority(active[TenantOf[r]] + 1, bucket)
              \in {Priority(n, b) : n \in 1 .. TenantCap, b \in Buckets}
<1>1. active[TenantOf[r]] + 1 \in 1 .. TenantCap
  BY TenantsAssumption DEF ActiveType
<1>2. QED BY <1>1

(* Every step of a request on its two slots is, of the admission slot, a     *)
(* step of the controller or none.                                         *)
LEMMA StepIsAdmission == ActiveType /\ [Next]_vars => [AP!Next]_(AP!vars)
<1> SUFFICES ASSUME ActiveType, [Next]_vars PROVE [AP!Next]_(AP!vars)
  OBVIOUS
<1>1. ASSUME NEW r \in Requests,
             \/ AdmitAtOnce(r) \/ RejectOverload(r)
             \/ AdmissionTimer(r) \/ AdmitParked(r) \/ TimeoutParked(r) \/ CancelParked(r)
      PROVE  AP!Next
  <2>1. \/ AP!AdmitFast(r) \/ AP!RejectFull(r) \/ AP!TimerFires(r)
        \/ AP!ReturnAdmitted(r) \/ AP!ReturnTimedOut(r) \/ AP!TaskCancelled(r)
    BY <1>1, SameController
       DEF AdmitAtOnce, RejectOverload, AdmissionTimer, AdmitParked, TimeoutParked, CancelParked
  <2>2. QED BY <2>1 DEF AP!Next
<1>2. ASSUME NEW r \in Requests, Park(r) PROVE AP!Next
  <2>1. PICK bucket \in Buckets : A!Enqueue(r, Priority(active[TenantOf[r]] + 1, bucket))
    BY <1>2 DEF Park
  <2>2. AP!Enqueue(r, Priority(active[TenantOf[r]] + 1, bucket))
    BY <2>1, SameController
  <2>3. Priority(active[TenantOf[r]] + 1, bucket)
           \in {Priority(n, b) : n \in 1 .. TenantCap, b \in Buckets}
    BY <1>2, NextPriority DEF Park, HasBudget
  <2>4. QED BY <2>2, <2>3 DEF AP!Next
<1>3. ASSUME NEW r \in Requests, Finish(r) PROVE AP!Next
  <2>1. AP!Release(r)
    BY <1>3, SameController DEF Finish, GiveBack, AP!Release
  <2>2. QED BY <2>1 DEF AP!Next
<1>4. CASE Idle \/ UNCHANGED vars \/ \E r \in Requests : FailMalformed(r)
  BY <1>4 DEF Idle, FailMalformed, vars, admVars, AP!vars
<1>5. QED BY <1>1, <1>2, <1>3, <1>4 DEF Next

------------------------------------------------------------------------------
(* The tenants' slots *)

(* The sets counted are finite: only finitely many requests are made.     *)
LEMMA CountedFinite == \A t : IsFiniteSet(CountedOf(t)) /\ Cardinality(CountedOf(t)) \in Nat
<1> SUFFICES ASSUME NEW t PROVE IsFiniteSet(CountedOf(t)) /\ Cardinality(CountedOf(t)) \in Nat
  OBVIOUS
<1>1. CountedOf(t) \in SUBSET Requests
  BY DEF CountedOf, RequestsOf
<1>2. QED BY <1>1, AdmissionAssumption, FS_Subset, FS_CardinalityType

(* A request that takes its tenant's slot is counted from then on. *)
LEMMA SlotTaken ==
    ASSUME ActiveType, SlotsInv, NEW r \in Requests, r \notin Counted,
           Counted' = Counted \cup {r}, TakeTenantSlot(r), active[TenantOf[r]] < TenantCap
    PROVE  ActiveType' /\ SlotsInv'
<1> USE TenantsAssumption
<1>1. ActiveType'
  BY DEF ActiveType, TakeTenantSlot
<1>2. ASSUME NEW t \in Tenants PROVE active'[t] = Cardinality(CountedOf(t)')
  <2>1. CASE t = TenantOf[r]
    <3>1. r \notin CountedOf(t) /\ CountedOf(t)' = CountedOf(t) \cup {r}
      BY <2>1 DEF CountedOf, RequestsOf
    <3>2. Cardinality(CountedOf(t)') = Cardinality(CountedOf(t)) + 1
      BY <3>1, CountedFinite, FS_AddElement
    <3>3. active'[t] = active[t] + 1
      BY <2>1 DEF ActiveType, TakeTenantSlot
    <3>4. QED BY <3>2, <3>3 DEF SlotsInv
  <2>2. CASE t # TenantOf[r]
    <3>1. CountedOf(t)' = CountedOf(t)
      BY <2>2 DEF CountedOf, RequestsOf
    <3>2. QED BY <2>2, <3>1 DEF ActiveType, TakeTenantSlot, SlotsInv
  <2>3. QED BY <2>1, <2>2
<1>3. QED BY <1>1, <1>2 DEF SlotsInv

(* One that gives it back is no longer counted; the counter was not 0. *)
LEMMA SlotFreed ==
    ASSUME ActiveType, SlotsInv, NEW r \in Requests, r \in Counted,
           Counted' = Counted \ {r}, FreeTenantSlot(r)
    PROVE  ActiveType' /\ SlotsInv'
<1> USE TenantsAssumption
<1>1. ActiveType'
  BY DEF ActiveType, FreeTenantSlot
<1>2. ASSUME NEW t \in Tenants PROVE active'[t] = Cardinality(CountedOf(t)')
  <2>1. CASE t = TenantOf[r]
    <3>1. r \in CountedOf(t) /\ CountedOf(t)' = CountedOf(t) \ {r}
      BY <2>1 DEF CountedOf, RequestsOf
    <3>2. /\ Cardinality(CountedOf(t)') = Cardinality(CountedOf(t)) - 1
          /\ Cardinality(CountedOf(t)') \in Nat /\ Cardinality(CountedOf(t)) \in Nat
      BY <3>1, CountedFinite, FS_RemoveElement, FS_CardinalityType
    <3>3. active[t] > 0
      BY <3>2 DEF SlotsInv
    <3>4. active'[t] = active[t] - 1
      BY <2>1, <3>3 DEF ActiveType, FreeTenantSlot
    <3>5. QED BY <3>2, <3>4 DEF SlotsInv
  <2>2. CASE t # TenantOf[r]
    <3>1. CountedOf(t)' = CountedOf(t)
      BY <2>2 DEF CountedOf, RequestsOf
    <3>2. QED BY <2>2, <3>1 DEF ActiveType, FreeTenantSlot, SlotsInv
  <2>3. QED BY <2>1, <2>2
<1>3. QED BY <1>1, <1>2 DEF SlotsInv

(* Nothing changes for the tenants while the same requests are counted. *)
LEMMA SlotsKept ==
    ASSUME ActiveType, SlotsInv, Counted' = Counted, UNCHANGED active
    PROVE  ActiveType' /\ SlotsInv'
BY DEF ActiveType, SlotsInv, CountedOf, RequestsOf

(* Which requests are counted after each step, and which had failed before. *)
LEMMA SlotsStep ==
    AP!IInv /\ ActiveType /\ LostInv /\ SlotsInv /\ [Next]_vars
        => ActiveType' /\ LostInv' /\ SlotsInv'
<1> SUFFICES ASSUME AP!IInv, ActiveType, LostInv, SlotsInv, [Next]_vars
             PROVE  ActiveType' /\ LostInv' /\ SlotsInv'
  OBVIOUS
<1>0. pc \in [Requests -> AP!States]
  BY DEF AP!IInv, AP!StateTypes
<1> USE DEF Counted, InProgress, Forgotten
<1>1. ASSUME NEW r \in Requests, FailMalformed(r) PROVE ActiveType' /\ LostInv' /\ SlotsInv'
  <2>1. r \notin Counted /\ Counted' = Counted \cup {r}
    BY <1>1 DEF FailMalformed, HasBudget, admVars
  <2>2. LostInv'
    BY <1>1 DEF FailMalformed, HasBudget, admVars, LostInv
  <2>3. QED BY <1>1, <2>1, <2>2, SlotTaken DEF FailMalformed, HasBudget
<1>2. ASSUME NEW r \in Requests, AdmitAtOnce(r) \/ Park(r)
      PROVE  ActiveType' /\ LostInv' /\ SlotsInv'
  <2>1. /\ HasBudget(r) /\ TakeTenantSlot(r) /\ UNCHANGED lost
        /\ \E s \in {"waiting", "holding"} : pc' = [pc EXCEPT ![r] = s]
    BY <1>2 DEF AdmitAtOnce, Park, A!AdmitFast, A!Enqueue
  <2>2. r \notin Counted /\ Counted' = Counted \cup {r}
    BY <1>0, <2>1 DEF HasBudget
  <2>3. LostInv'
    BY <1>0, <2>1 DEF HasBudget, LostInv
  <2>4. QED BY <2>1, <2>2, <2>3, SlotTaken DEF HasBudget
<1>3. ASSUME NEW r \in Requests, TimeoutParked(r) \/ Finish(r)
      PROVE  ActiveType' /\ LostInv' /\ SlotsInv'
  <2>1. /\ pc[r] \in {"waiting", "holding"} /\ FreeTenantSlot(r) /\ UNCHANGED lost
        /\ \E s \in {"timedout", "released"} : pc' = [pc EXCEPT ![r] = s]
    BY <1>3 DEF TimeoutParked, Finish, GiveBack, A!ReturnTimedOut
  <2>2. r \in Counted /\ r \notin lost /\ Counted' = Counted \ {r}
    BY <1>0, <2>1 DEF LostInv
  <2>3. LostInv'
    BY <1>0, <2>1, <2>2 DEF LostInv
  <2>4. QED BY <2>1, <2>2, <2>3, SlotFreed
<1>4. ASSUME NEW r \in Requests,
             RejectOverload(r) \/ AdmissionTimer(r) \/ AdmitParked(r) \/ CancelParked(r)
      PROVE  ActiveType' /\ LostInv' /\ SlotsInv'
  <2>1. /\ UNCHANGED <<active, lost>> /\ (r \notin lost \/ UNCHANGED pc)
        /\ \/ UNCHANGED pc
           \/ pc[r] = "new" /\ pc' = [pc EXCEPT ![r] = "rejected"]
           \/ pc[r] = "waiting" /\ \E s \in {"holding", "cancelled"} : pc' = [pc EXCEPT ![r] = s]
    BY <1>4 DEF RejectOverload, AdmissionTimer, AdmitParked, CancelParked, HasBudget, LostInv,
                A!RejectFull, A!TimerFires, A!ReturnAdmitted, A!TaskCancelled
  <2>2. Counted' = Counted /\ LostInv' /\ UNCHANGED active
    BY <1>0, <1>4, <2>1
       DEF LostInv, RejectOverload, AdmissionTimer, AdmitParked, CancelParked
  <2>3. QED BY <2>2, SlotsKept
<1>5. CASE Idle \/ UNCHANGED vars
  <2>1. Counted' = Counted /\ LostInv' /\ UNCHANGED active
    BY <1>5 DEF Idle, vars, admVars, LostInv
  <2>2. QED BY <2>1, SlotsKept
<1>6. QED BY <1>1, <1>2, <1>3, <1>4, <1>5 DEF Next

------------------------------------------------------------------------------
(* The line under "drr" *)

(* So are the parts of the line.                                          *)
LEMMA AheadFinite ==
    \A t, n : IsFiniteSet(Ahead(t, n)) /\ Cardinality(Ahead(t, n)) \in Nat
<1> SUFFICES ASSUME NEW t, NEW n
             PROVE  IsFiniteSet(Ahead(t, n)) /\ Cardinality(Ahead(t, n)) \in Nat
  OBVIOUS
<1>1. Ahead(t, n) \in SUBSET Requests
  BY DEF Ahead, RequestsOf
<1>2. QED BY <1>1, AdmissionAssumption, FS_Subset, FS_CardinalityType

(* Entries that leave the line make nobody's place worse. *)
LEMMA LineShrinks ==
    ASSUME LineInv, A!Live' \subseteq A!Live, UNCHANGED rank
    PROVE  LineInv'
<1> SUFFICES ASSUME Scheduling = "drr", NEW t \in Tenants, NEW n \in 1 .. TenantCap
             PROVE  Cardinality(Ahead(t, n)') <= n
  BY DEF LineInv
<1>1. Ahead(t, n)' \subseteq Ahead(t, n)
  BY DEF Ahead
<1>2. /\ Cardinality(Ahead(t, n)') <= Cardinality(Ahead(t, n))
      /\ Cardinality(Ahead(t, n)') \in Nat /\ Cardinality(Ahead(t, n)) \in Nat
  BY <1>1, AheadFinite, FS_Subset, FS_CardinalityType
<1>3. Cardinality(Ahead(t, n)) <= n
  BY DEF LineInv
<1>4. QED BY <1>2, <1>3, TenantsAssumption

(* A live entry is one of a request that is counted for its tenant. *)
LEMMA LiveIsCounted ==
    ASSUME AP!IInv, NEW t PROVE A!Live \cap RequestsOf(t) \subseteq CountedOf(t)
<1>1. ASSUME NEW u \in A!Live, u \in RequestsOf(t) PROVE u \in Counted
  <2>1. u \in Requests /\ u \in waiters /\ u \notin cancelled
    BY <1>1 DEF A!Live, RequestsOf
  <2>2. pc[u] \in {"waiting", "cancelled"}
    BY <2>1 DEF AP!IInv, AP!ParkedIffQueued
  <2>3. QED BY <2>1, <2>2 DEF Counted, InProgress, Forgotten
<1>2. QED BY <1>1 DEF CountedOf

(* The priority of the n-th request, bucket by bucket, under "drr". *)
LEMMA PriorityRange ==
    ASSUME Scheduling = "drr", NEW n \in Nat, NEW bucket \in Buckets
    PROVE  /\ Priority(n, bucket) \in Int
           /\ (n * 10 + BasePriority) * 100 <= Priority(n, bucket)
           /\ Priority(n, bucket) < (n * 10 + BasePriority) * 100 + 4
BY TenantsAssumption, BucketsAssumption DEF Priority

(* A request that parks as the n-th of its tenant comes behind everything that *)
(* is due with fewer, and finds at most n - 1 of its tenant in line.           *)
LEMMA LineGrows ==
    ASSUME AP!IInv, ActiveType, SlotsInv, LineInv, NEW r \in Requests, Park(r)
    PROVE  LineInv'
<1> SUFFICES ASSUME Scheduling = "drr", NEW t \in Tenants, NEW n \in 1 .. TenantCap
             PROVE  Cardinality(Ahead(t, n)') <= n
  BY DEF LineInv
<1> DEFINE m == active[TenantOf[r]] + 1
<1>1. PICK bucket \in Buckets : A!Enqueue(r, Priority(m, bucket))
  BY DEF Park
<1>2. m \in 1 .. TenantCap /\ n \in Nat /\ TenantOf[r] \in Tenants
  BY TenantsAssumption DEF Park, HasBudget, ActiveType
<1> HIDE DEF m
<1>3. /\ rank' = [rank EXCEPT ![r] = [priority |-> Priority(m, bucket), sequence |-> sequence]]
      /\ waiters' = waiters \cup {r} /\ UNCHANGED cancelled
      /\ r \notin waiters /\ r \notin cancelled /\ pc[r] = "new"
  BY <1>1 DEF A!Enqueue, AP!IInv, AP!ParkedIffQueued
<1>4. /\ A!Live' = A!Live \cup {r} /\ r \notin A!Live
      /\ rank \in [Requests -> AP!Ranks]
      /\ rank'[r].priority = Priority(m, bucket)
      /\ \A u \in A!Live : rank'[u] = rank[u]
  BY <1>3 DEF A!Live, AP!IInv, AP!StateTypes
<1>5. (m * 10 + BasePriority) * 100 <= Priority(m, bucket) /\ Priority(m, bucket) \in Int
  BY <1>2, PriorityRange
<1>6. CASE t # TenantOf[r] \/ n < m
  <2>1. r \notin Ahead(t, n)'
    <3>1. CASE t # TenantOf[r] BY <3>1 DEF Ahead, RequestsOf
    <3>2. CASE n < m
      <4>1. (n * 10 + BasePriority) * 100 + 4 <= (m * 10 + BasePriority) * 100
        BY <1>2, <3>2, TenantsAssumption
      <4>2. ~(rank'[r].priority < (n * 10 + BasePriority) * 100 + 4)
        BY <1>2, <1>4, <1>5, <4>1, TenantsAssumption
      <4>3. QED BY <4>2 DEF Ahead
    <3>3. QED BY <1>6, <3>1, <3>2
  <2>2. Ahead(t, n)' = Ahead(t, n)
    BY <1>4, <2>1 DEF Ahead
  <2>3. QED BY <2>2 DEF LineInv
<1>7. CASE t = TenantOf[r] /\ m <= n
  <2>1. r \notin CountedOf(t)
    BY <1>3 DEF CountedOf, Counted, InProgress, Forgotten, Park, HasBudget
  <2>2. Ahead(t, n)' \subseteq CountedOf(t) \cup {r}
    BY <1>4, LiveIsCounted DEF Ahead
  <2>3. /\ IsFiniteSet(CountedOf(t) \cup {r})
        /\ Cardinality(CountedOf(t) \cup {r}) = Cardinality(CountedOf(t)) + 1
    BY <2>1, CountedFinite, FS_AddElement
  <2>4. /\ Cardinality(Ahead(t, n)') <= Cardinality(CountedOf(t)) + 1
        /\ Cardinality(Ahead(t, n)') \in Nat
    BY <2>2, <2>3, FS_Subset, FS_CardinalityType
  <2>5. Cardinality(CountedOf(t)) + 1 = m
    BY <1>7 DEF SlotsInv, m
  <2>6. QED BY <1>2, <1>7, <2>4, <2>5
<1>8. QED BY <1>2, <1>6, <1>7

(* No step of a request makes the line in front of another longer than LineInv says. *)
LEMMA LineStep ==
    AP!IInv /\ ActiveType /\ SlotsInv /\ LineInv /\ [Next]_vars => LineInv'
<1> SUFFICES ASSUME AP!IInv, ActiveType, SlotsInv, LineInv, [Next]_vars PROVE LineInv'
  OBVIOUS
<1>1. ASSUME NEW r \in Requests, TimeoutParked(r) \/ Finish(r) PROVE LineInv'
  <2>1. UNCHANGED rank /\ waiters' \subseteq waiters /\ cancelled \subseteq cancelled'
    BY <1>1 DEF TimeoutParked, Finish, GiveBack, A!ReturnTimedOut, A!HandOver, A!FreeSlot
  <2>2. QED BY <2>1, LineShrinks DEF A!Live
<1>2. ASSUME NEW r \in Requests,
             \/ FailMalformed(r) \/ AdmitAtOnce(r) \/ RejectOverload(r)
             \/ AdmissionTimer(r) \/ AdmitParked(r) \/ CancelParked(r)
      PROVE  LineInv'
  <2>1. UNCHANGED <<rank, waiters, cancelled>>
    BY <1>2 DEF FailMalformed, AdmitAtOnce, RejectOverload, AdmissionTimer, AdmitParked,
                CancelParked, admVars, A!AdmitFast, A!RejectFull, A!TimerFires,
                A!ReturnAdmitted, A!TaskCancelled
  <2>2. QED BY <2>1, LineShrinks DEF A!Live
<1>3. CASE Idle \/ UNCHANGED vars
  BY <1>3, LineShrinks DEF Idle, vars, admVars, A!Live
<1>4. QED BY <1>1, <1>2, <1>3, LineGrows DEF Next

------------------------------------------------------------------------------
(* The invariant holds at first.                                          *)
LEMMA InvInit == Init => IInv
<1> SUFFICES ASSUME Init PROVE IInv
  OBVIOUS
<1>1. AP!IInv
  BY SameController, ControllerInit DEF Init
<1>2. \A r \in Requests : pc[r] = "new" /\ r \notin lost
  BY DEF Init, A!Init
<1>3. \A t : CountedOf(t) = {}
  BY <1>2 DEF Init, CountedOf, RequestsOf, Counted, InProgress, Forgotten
<1>4. \A t, n : Ahead(t, n) = {}
  BY DEF Init, A!Init, Ahead, A!Live
<1>5. LineInv
  BY <1>4, FS_EmptySet, TenantsAssumption DEF LineInv
<1>6. ActiveType /\ SlotsInv
  BY <1>3, FS_EmptySet, TenantsAssumption DEF Init, ActiveType, SlotsInv
<1>7. QED BY <1>1, <1>5, <1>6 DEF IInv, Init, LostInv

(* Every step preserves it: the controller's part by AdmissionProofs.     *)
LEMMA InvStep == IInv /\ [Next]_vars => IInv'
<1> SUFFICES ASSUME IInv, [Next]_vars PROVE IInv'
  OBVIOUS
<1>1. AP!IInv'
  BY StepIsAdmission, ControllerStep DEF IInv
<1>2. QED BY <1>1, SlotsStep, LineStep DEF IInv

(* It holds throughout.                                                   *)
LEMMA Inductive == Spec => []IInv
BY InvInit, InvStep, PTL DEF Spec

------------------------------------------------------------------------------
(* The invariant gives the types of the controller.                       *)
LEMMA CounterTypes == IInv => A!TypeOK
<1> SUFFICES ASSUME IInv PROVE A!TypeOK
  OBVIOUS
<1>1. AP!Occupied \in SUBSET Requests
  BY DEF AP!Occupied, AP!Holders, AP!Granted, AP!Leaked
<1>2. AP!Cardinality(AP!Occupied) \in Nat
  BY <1>1, AdmissionAssumption, FS_Subset, FS_CardinalityType DEF AP!Cardinality, Cardinality
<1>3. QED
  BY <1>2 DEF IInv, AP!IInv, AP!StateTypes, AP!SlotAccounting, A!TypeOK, AP!Ranks, A!Ranks,
              AP!States, A!States, AP!Final, A!Final, AP!Totals, A!Totals

(* A tenant's active_requests counts its parked and admitted requests and  *)
(* the ones that lost their slot, after any sequence of arrivals,          *)
(* hand-overs, timeouts, cancellations and releases.                       *)
THEOREM TenantSlotsHold == Spec => []TenantSlotsAccounted
<1>1. IInv => TenantSlotsAccounted
  BY CounterTypes
     DEF IInv, TenantSlotsAccounted, TypeOK, ActiveType, LostInv, SlotsInv, CountedOf, Counted
<1>2. QED BY <1>1, Inductive, PTL

(* Deficit round-robin: at most n requests of any other tenant are in line *)
(* before the n-th active request of a tenant.                             *)
THEOREM DeficitHolds == Spec => []DeficitBound
<1>1. IInv => DeficitBound
  <2> SUFFICES ASSUME IInv, Scheduling = "drr",
                      NEW v \in A!Live \cap InProgress, NEW t \in Tenants,
                      NEW n \in 1 .. TenantCap, NEW bucket \in Buckets,
                      rank[v].priority = Priority(n, bucket)
               PROVE  Cardinality({w \in A!Live \cap RequestsOf(t) : A!Before(w, v)}) <= n
    BY DEF DeficitBound
  <2> DEFINE InFront == {w \in A!Live \cap RequestsOf(t) : A!Before(w, v)}
  <2>0. n \in Nat
    BY TenantsAssumption
  <2>1. rank[v].priority \in Int /\ rank[v].priority < (n * 10 + BasePriority) * 100 + 4
    BY <2>0, PriorityRange
  <2>2. ASSUME NEW w \in InFront PROVE rank[w].priority < (n * 10 + BasePriority) * 100 + 4
    <3>1. w \in Requests /\ A!Before(w, v)
      BY DEF RequestsOf
    <3>2. rank[w].priority \in Int
      BY <3>1 DEF IInv, AP!IInv, AP!StateTypes, AP!Ranks
    <3>3. rank[w].priority <= rank[v].priority
      BY <2>1, <3>1, <3>2 DEF A!Before
    <3>4. QED BY <2>0, <2>1, <3>2, <3>3, TenantsAssumption
  <2>3. InFront \subseteq Ahead(t, n)
    BY <2>2 DEF Ahead
  <2>4. /\ Cardinality(InFront) <= Cardinality(Ahead(t, n))
        /\ Cardinality(InFront) \in Nat /\ Cardinality(Ahead(t, n)) \in Nat
    BY <2>3, AheadFinite, FS_Subset, FS_CardinalityType
  <2>5. Cardinality(Ahead(t, n)) <= n
    BY DEF IInv, LineInv
  <2>6. QED BY <2>0, <2>4, <2>5
<1>2. QED BY <1>1, Inductive, PTL

------------------------------------------------------------------------------
(* What is proved of the controller alone holds of it here. *)

(* A behaviour of the two slots is one of the controller AdmissionProofs is about. *)
LEMMA SpecIsAdmission == Spec => AP!Spec
<1>1. Init => AP!Init
  BY SameController DEF Init
<1>2. IInv /\ [Next]_vars => [AP!Next]_(AP!vars)
  BY StepIsAdmission DEF IInv
<1>3. QED BY <1>1, <1>2, Inductive, PTL DEF Spec, AP!Spec

(* However the two slots of a request are paired, the admission slot is    *)
(* taken and given back as AdmissionController says.                       *)
THEOREM QueueIsAdmission == Spec => A!Spec
<1>1. AP!Init => A!Init
  BY SameController
<1>2. [AP!Next]_(AP!vars) => [A!Next]_(A!vars)
  <2> SUFFICES ASSUME AP!Next PROVE A!Next
    BY DEF AP!vars, A!vars
  <2>1. ASSUME AP!Quiescent PROVE A!Quiescent
    BY <2>1 DEF AP!Quiescent, A!Quiescent, AP!Final, A!Final, AP!vars, A!vars
  <2>2. ASSUME NEW r \in Requests, AP!Release(r) PROVE A!Release(r)
    BY <2>2, SameController DEF AP!Release, A!Release
  <2>3. QED BY <2>1, <2>2, SameController DEF AP!Next, A!Next
<1>3. QED BY <1>1, <1>2, SpecIsAdmission, PTL DEF AP!Spec, A!Spec

(* Never more than max_concurrent requests at the engine, both slots considered. *)
THEOREM QueueCap == Spec => []A!ConcurrencyCap
<1>1. AP!Spec => []AP!ConcurrencyCap
  BY AP!CapHolds, Assumptions
     DEF AP!RequestsAssumption, AP!SizesAssumption, AP!PrioritiesAssumption, AP!RuntimeAssumption
<1>2. AP!ConcurrencyCap => A!ConcurrencyCap
  BY DEF AP!ConcurrencyCap, A!ConcurrencyCap, AP!Holders, A!Holders, AP!Granted, A!Granted,
         AP!Cardinality, A!Cardinality
<1>3. QED BY <1>1, <1>2, SpecIsAdmission, PTL

==============================================================================
