--------------------------- MODULE AdmissionProofs ---------------------------
(***************************************************************************)
(* Theorems about AdmissionController for every number of requests, slots  *)
(* and queue places, every set of priorities, and both asyncio timeouts.   *)
(***************************************************************************)
EXTENDS Admission, FiniteSetTheorems, TLAPS

\* TypeOK but for inFlight >= 0, which only SlotAccounting gives.
StateTypes ==
    /\ inFlight \in Int
    /\ sequence \in Nat
    /\ waiters \subseteq Requests
    /\ rank \in [Requests -> Ranks]
    /\ signalled \subseteq Requests
    /\ cancelled \subseteq Requests
    /\ timer \in [Requests -> {"off", "armed", "fired"}]
    /\ pc \in [Requests -> States]
    /\ total \in Totals

\* Queued entries have distinct sequence numbers, all of them issued.
TicketInv ==
    \A v \in waiters :
        /\ rank[v].sequence < sequence
        /\ \A w \in waiters : v # w => rank[v].sequence # rank[w].sequence

\* The inductive invariant.
IInv ==
    /\ StateTypes
    /\ ParkedIffQueued
    /\ TicketInv
    /\ SlotAccounting
    /\ inFlight <= MaxConcurrent
    /\ NoBarging

(* The occupants of a state form a finite set. *)
LEMMA OccupiedFinite == IsFiniteSet(Occupied)
<1>1. Occupied \subseteq Requests
  BY DEF Occupied, Holders, Granted, Leaked
<1>2. QED BY <1>1, FS_Subset, RequestsAssumption

(* Adding an occupant and removing one, on cardinalities. *)
LEMMA CardinalityOfChange ==
    ASSUME NEW S, IsFiniteSet(S), NEW x
    PROVE  /\ Cardinality(S) \in Nat
           /\ x \notin S => Cardinality(S \cup {x}) = Cardinality(S) + 1
           /\ x \in S => Cardinality(S \ {x}) = Cardinality(S) - 1
BY FS_CardinalityType, FS_AddElement, FS_RemoveElement

(* A hand-over replaces one occupant by another. *)
LEMMA CardinalityOfSwap ==
    ASSUME NEW S, NEW x, NEW y, IsFiniteSet(S), x \in S, y \notin S
    PROVE  Cardinality((S \ {x}) \cup {y}) = Cardinality(S)
<1>1. IsFiniteSet(S \ {x}) /\ Cardinality(S \ {x}) = Cardinality(S) - 1
  BY FS_RemoveElement
<1>2. Cardinality((S \ {x}) \cup {y}) = Cardinality(S \ {x}) + 1
  BY <1>1, FS_AddElement
<1>3. QED BY <1>1, <1>2, FS_CardinalityType

(* The types are preserved by every step of the controller. *)
LEMMA TypeStep == StateTypes /\ [Next]_vars => StateTypes'
<1> SUFFICES ASSUME StateTypes, [Next]_vars PROVE StateTypes'
  OBVIOUS
<1> USE DEF StateTypes, Ranks, Totals, States, Final
<1>1. ASSUME NEW r \in Requests, AdmitFast(r) PROVE StateTypes'
  BY <1>1 DEF AdmitFast
<1>2. ASSUME NEW r \in Requests, RejectFull(r) PROVE StateTypes'
  BY <1>2 DEF RejectFull
<1>3. ASSUME NEW r \in Requests, NEW p \in Priorities, Enqueue(r, p) PROVE StateTypes'
  BY <1>3, PrioritiesAssumption DEF Enqueue
<1>4. ASSUME NEW r \in Requests, TimerFires(r) PROVE StateTypes'
  BY <1>4 DEF TimerFires
<1>5. ASSUME NEW r \in Requests, ReturnAdmitted(r) PROVE StateTypes'
  BY <1>5 DEF ReturnAdmitted
<1>6. ASSUME NEW r \in Requests, ReturnTimedOut(r) PROVE StateTypes'
  BY <1>6 DEF ReturnTimedOut
<1>7. ASSUME NEW r \in Requests, TaskCancelled(r) PROVE StateTypes'
  BY <1>7 DEF TaskCancelled
<1>8. ASSUME NEW r \in Requests, Release(r) PROVE StateTypes'
  <2>1. CASE HandOver
    BY <1>8, <2>1 DEF Release, HandOver, Live
  <2>2. CASE FreeSlot
    BY <1>8, <2>2 DEF Release, FreeSlot
  <2>3. QED BY <1>8, <2>1, <2>2 DEF Release
<1>9. CASE UNCHANGED vars
  BY <1>9 DEF vars
<1>10. QED
  BY <1>1, <1>2, <1>3, <1>4, <1>5, <1>6, <1>7, <1>8, <1>9 DEF Next, Quiescent

(* The queue after a hand-over to w keeps exactly the entries behind w, so *)
(* no live waiter but w leaves it: sequence numbers make the order total.  *)
LEMMA HandOverKeepsLive ==
    ASSUME StateTypes, TicketInv, NEW w \in Live, IsNext(w)
    PROVE  /\ ~Before(w, w)
           /\ \A v \in Live : v # w => Before(w, v)
<1>1. ASSUME NEW v \in Live, v # w PROVE Before(w, v)
  <2>1. v \in waiters /\ w \in waiters /\ v \in Requests /\ w \in Requests
    BY <1>1 DEF Live, StateTypes
  <2>2. rank[v].sequence # rank[w].sequence
    BY <1>1, <2>1 DEF TicketInv
  <2>3. /\ rank[v].sequence \in Nat /\ rank[w].sequence \in Nat
        /\ rank[v].priority \in Int /\ rank[w].priority \in Int
    BY <2>1 DEF StateTypes, Ranks
  <2>4. ~Before(v, w)
    BY <1>1 DEF IsNext
  <2>5. QED BY <2>2, <2>3, <2>4 DEF Before
<1>2. ~Before(w, w)
  BY DEF IsNext
<1>3. QED BY <1>1, <1>2

(* The inductive step of the invariant. *)
LEMMA InvStep == IInv /\ [Next]_vars => IInv'
<1> SUFFICES ASSUME IInv, [Next]_vars PROVE IInv'
  OBVIOUS
<1> USE SizesAssumption
<1>0. StateTypes /\ StateTypes'
  BY TypeStep DEF IInv
<1>1. ASSUME NEW r \in Requests, AdmitFast(r) PROVE IInv'
  <2>1. ParkedIffQueued'
    BY <1>0, <1>1 DEF IInv, ParkedIffQueued, AdmitFast, StateTypes
  <2>2. TicketInv'
    BY <1>1 DEF IInv, TicketInv, AdmitFast
  <2>3. r \notin Occupied /\ Occupied' = Occupied \cup {r}
    BY <1>0, <1>1 DEF AdmitFast, Occupied, Holders, Granted, Leaked, StateTypes
  <2>4. SlotAccounting'
    BY <1>1, <2>3, OccupiedFinite, CardinalityOfChange
       DEF IInv, SlotAccounting, AdmitFast
  <2>5. (inFlight <= MaxConcurrent)' /\ NoBarging'
    BY <1>0, <1>1 DEF IInv, AdmitFast, HasRoom, NoBarging, StateTypes
  <2>6. QED BY <1>0, <2>1, <2>2, <2>4, <2>5 DEF IInv
<1>2. ASSUME NEW r \in Requests, RejectFull(r) PROVE IInv'
  <2>1. ParkedIffQueued' /\ TicketInv'
    BY <1>0, <1>2 DEF IInv, ParkedIffQueued, TicketInv, RejectFull, StateTypes
  <2>2. Occupied' = Occupied
    BY <1>0, <1>2 DEF RejectFull, Occupied, Holders, Granted, Leaked, StateTypes
  <2>3. QED
    BY <1>0, <1>2, <2>1, <2>2 DEF IInv, SlotAccounting, NoBarging, RejectFull
<1>3. ASSUME NEW r \in Requests, NEW p \in Priorities, Enqueue(r, p) PROVE IInv'
  <2>1. ParkedIffQueued'
    BY <1>0, <1>3 DEF IInv, ParkedIffQueued, Enqueue, StateTypes
  <2>2. TicketInv'
    BY <1>0, <1>3 DEF IInv, TicketInv, Enqueue, StateTypes, Ranks
  <2>3. Occupied' = Occupied
    BY <1>0, <1>3 DEF IInv, ParkedIffQueued, Enqueue, Occupied, Holders,
                      Granted, Leaked, StateTypes
  <2>4. SlotAccounting'
    BY <1>3, <2>3 DEF IInv, SlotAccounting, Enqueue
  <2>5. (inFlight <= MaxConcurrent)' /\ NoBarging'
    BY <1>0, <1>3 DEF IInv, Enqueue, HasRoom, NoBarging, StateTypes
  <2>6. QED BY <1>0, <2>1, <2>2, <2>4, <2>5 DEF IInv
<1>4. ASSUME NEW r \in Requests, TimerFires(r) PROVE IInv'
  BY <1>0, <1>4 DEF IInv, TimerFires, ParkedIffQueued, TicketInv,
                    SlotAccounting, Occupied, Holders, Granted, Leaked, NoBarging
<1>5. ASSUME NEW r \in Requests, ReturnAdmitted(r) PROVE IInv'
  <2>1. ParkedIffQueued' /\ TicketInv'
    BY <1>0, <1>5 DEF IInv, ParkedIffQueued, TicketInv, ReturnAdmitted, StateTypes
  <2>2. Occupied' = Occupied
    BY <1>0, <1>5 DEF ReturnAdmitted, Occupied, Holders, Granted, Leaked, StateTypes
  <2>3. QED
    BY <1>0, <1>5, <2>1, <2>2 DEF IInv, SlotAccounting, NoBarging, ReturnAdmitted
<1>6. ASSUME NEW r \in Requests, ReturnTimedOut(r) PROVE IInv'
  <2>1. ParkedIffQueued' /\ TicketInv'
    BY <1>0, <1>6 DEF IInv, ParkedIffQueued, TicketInv, ReturnTimedOut, StateTypes
  <2>2. Occupied' = Occupied
    BY <1>0, <1>6 DEF ReturnTimedOut, Occupied, Holders, Granted, Leaked, StateTypes
  <2>3. QED
    BY <1>0, <1>6, <2>1, <2>2 DEF IInv, SlotAccounting, NoBarging, ReturnTimedOut
<1>7. ASSUME NEW r \in Requests, TaskCancelled(r) PROVE IInv'
  <2>1. ParkedIffQueued' /\ TicketInv'
    BY <1>0, <1>7 DEF IInv, ParkedIffQueued, TicketInv, TaskCancelled, StateTypes
  <2>2. Occupied' = Occupied
    BY <1>0, <1>7 DEF TaskCancelled, Occupied, Holders, Granted, Leaked, StateTypes
  <2>3. QED
    BY <1>0, <1>7, <2>1, <2>2 DEF IInv, SlotAccounting, NoBarging, TaskCancelled
<1>8. ASSUME NEW r \in Requests, Release(r) PROVE IInv'
  <2>1. CASE HandOver
    <3>1. PICK w \in Live : /\ IsNext(w)
                            /\ waiters' = {v \in waiters : Before(w, v)}
                            /\ signalled' = signalled \cup {w}
                            /\ UNCHANGED inFlight
      BY <2>1 DEF HandOver
    <3>2. /\ w \in waiters /\ w \in Requests /\ w \notin signalled
          /\ pc[w] \in {"waiting", "cancelled"} /\ w # r
      BY <1>0, <1>8, <3>1 DEF Live, IInv, ParkedIffQueued, Release, StateTypes
    <3>3. ~Before(w, w) /\ \A v \in Live : v # w => Before(w, v)
      BY <1>0, <3>1, HandOverKeepsLive DEF IInv
    <3>4. ParkedIffQueued'
      BY <1>0, <1>8, <3>1, <3>2, <3>3
         DEF IInv, ParkedIffQueued, Release, Live, StateTypes
    <3>5. TicketInv'
      BY <1>8, <3>1 DEF IInv, TicketInv, Release
    <3>6. /\ r \in Occupied /\ w \notin Occupied
          /\ Occupied' = (Occupied \ {r}) \cup {w}
      BY <1>0, <1>8, <3>1, <3>2
         DEF Release, Occupied, Holders, Granted, Leaked, StateTypes
    <3>7. SlotAccounting'
      <4>1. Cardinality((Occupied \ {r}) \cup {w}) = Cardinality(Occupied)
        BY <3>6, OccupiedFinite, CardinalityOfSwap
      <4>2. QED BY <3>1, <3>6, <4>1 DEF IInv, SlotAccounting
    <3>8. (inFlight <= MaxConcurrent)' /\ NoBarging'
      BY <3>1, <3>2 DEF IInv, NoBarging
    <3>9. QED BY <1>0, <3>4, <3>5, <3>7, <3>8 DEF IInv
  <2>2. CASE FreeSlot
    <3>1. ParkedIffQueued' /\ TicketInv'
      <4>1. \A v \in Requests : pc[v] = "waiting" => v \in signalled
        BY <2>2 DEF IInv, ParkedIffQueued, FreeSlot, Live
      <4>2. ParkedIffQueued'
        BY <1>0, <1>8, <2>2, <4>1
           DEF IInv, ParkedIffQueued, Release, FreeSlot, StateTypes
      <4>3. TicketInv'
        BY <2>2 DEF TicketInv, FreeSlot
      <4>4. QED BY <4>2, <4>3
    <3>2. r \in Occupied /\ Occupied' = Occupied \ {r}
      BY <1>0, <1>8, <2>2
         DEF Release, FreeSlot, Occupied, Holders, Granted, Leaked, StateTypes
    <3>3. SlotAccounting'
      BY <2>2, <3>2, OccupiedFinite, CardinalityOfChange
         DEF IInv, SlotAccounting, FreeSlot
    <3>4. (inFlight <= MaxConcurrent)' /\ NoBarging'
      BY <1>0, <2>2 DEF IInv, NoBarging, FreeSlot, StateTypes
    <3>5. QED BY <1>0, <3>1, <3>3, <3>4 DEF IInv
  <2>3. QED BY <1>8, <2>1, <2>2 DEF Release
<1>9. CASE UNCHANGED vars
  BY <1>0, <1>9 DEF vars, IInv, ParkedIffQueued, TicketInv, SlotAccounting,
                    Occupied, Holders, Granted, Leaked, NoBarging
<1>10. QED
  BY <1>1, <1>2, <1>3, <1>4, <1>5, <1>6, <1>7, <1>8, <1>9 DEF Next, Quiescent

(* No call has started and no slot is taken.                               *)
LEMMA InvInit == Init => IInv
<1> SUFFICES ASSUME Init PROVE IInv
  OBVIOUS
<1>1. StateTypes
  BY DEF Init, StateTypes, Ranks, Totals, States
<1>2. Occupied = {}
  BY DEF Init, Occupied, Holders, Granted, Leaked
<1>3. SlotAccounting
  BY <1>2, FS_EmptySet DEF Init, SlotAccounting
<1>4. QED
  BY <1>1, <1>3, SizesAssumption
     DEF Init, IInv, ParkedIffQueued, TicketInv, NoBarging

(* The inductive invariant holds for good.                                 *)
LEMMA Inductive == Spec => []IInv
BY InvInit, InvStep, PTL DEF Spec

(* _in_flight is the number of occupied slots. *)
THEOREM SlotsAccounted == Spec => []SlotAccounting
<1>1. IInv => SlotAccounting
  BY DEF IInv
<1>2. QED BY <1>1, Inductive, PTL

(* No grant is lost in the queue and no waiter is drained from it. *)
THEOREM ParkedIsQueued == Spec => []ParkedIffQueued
<1>1. IInv => ParkedIffQueued
  BY DEF IInv
<1>2. QED BY <1>1, Inductive, PTL

\* How many calls are in one of the states S.
Tally(f, S) == Cardinality({q \in Requests : f[q] \in S})

(* A call that moves changes the tally of the states it enters. *)
LEMMA TallyOfMove ==
    ASSUME NEW f \in [Requests -> States], NEW r \in Requests, NEW s \in States, NEW S
    PROVE  /\ Tally(f, S) \in Nat
           /\ (f[r] \in S <=> s \in S) => Tally([f EXCEPT ![r] = s], S) = Tally(f, S)
           /\ f[r] \notin S /\ s \in S => Tally([f EXCEPT ![r] = s], S) = Tally(f, S) + 1
<1> DEFINE before == {q \in Requests : f[q] \in S}
           after == {q \in Requests : [f EXCEPT ![r] = s][q] \in S}
<1>1. IsFiniteSet(before)
  BY FS_Subset, RequestsAssumption
<1>2. Cardinality(before) \in Nat
  BY <1>1, FS_CardinalityType
<1>3. (f[r] \in S <=> s \in S) => after = before
  OBVIOUS
<1>4. ASSUME f[r] \notin S, s \in S PROVE Cardinality(after) = Cardinality(before) + 1
  <2>1. after = before \cup {r} /\ r \notin before
    BY <1>4
  <2>2. QED BY <1>1, <2>1, FS_AddElement
<1>5. QED BY <1>2, <1>3, <1>4 DEF Tally

(* Every call that ended is counted in exactly one total. *)
THEOREM OutcomesCounted == Spec => []OutcomesCountedOnce
<1> DEFINE Adm == {"holding", "released"}
           Rej == {"rejected"}
           Out == {"timedout"}
           Counted(f, t) == /\ t.admitted = Tally(f, Adm)
                            /\ t.rejected = Tally(f, Rej)
                            /\ t.timedOut = Tally(f, Out)
<1>0. OutcomesCountedOnce <=> Counted(pc, total)
  BY DEF OutcomesCountedOnce, Tally
<1>1. Init => OutcomesCountedOnce
  <2> SUFFICES ASSUME Init PROVE Counted(pc, total)
    BY <1>0
  <2>1. /\ {q \in Requests : pc[q] \in Adm} = {}
        /\ {q \in Requests : pc[q] \in Rej} = {}
        /\ {q \in Requests : pc[q] \in Out} = {}
    BY DEF Init
  <2>2. QED BY <2>1, FS_EmptySet DEF Init, Tally
<1>2. StateTypes /\ OutcomesCountedOnce /\ [Next]_vars => OutcomesCountedOnce'
  <2> SUFFICES ASSUME StateTypes, Counted(pc, total), [Next]_vars
               PROVE  Counted(pc', total')
    BY <1>0 DEF OutcomesCountedOnce, Tally
  <2>0. pc \in [Requests -> States] /\ total \in Totals
    BY DEF StateTypes
  <2>s. /\ \A x : x \in Adm <=> x = "holding" \/ x = "released"
        /\ \A x : x \in Rej <=> x = "rejected"
        /\ \A x : x \in Out <=> x = "timedout"
    OBVIOUS
  <2> HIDE DEF Adm, Rej, Out
  <2>m. ASSUME NEW r \in Requests, NEW s \in States, pc' = [pc EXCEPT ![r] = s],
               pc[r] \notin Adm \/ s \in Adm,
               pc[r] \notin Rej, pc[r] \notin Out
        PROVE  /\ Tally(pc, Adm) \in Nat /\ Tally(pc, Rej) \in Nat /\ Tally(pc, Out) \in Nat
               /\ Tally(pc', Adm) = IF pc[r] \notin Adm /\ s \in Adm
                                      THEN Tally(pc, Adm) + 1 ELSE Tally(pc, Adm)
               /\ Tally(pc', Rej) = IF s \in Rej THEN Tally(pc, Rej) + 1 ELSE Tally(pc, Rej)
               /\ Tally(pc', Out) = IF s \in Out THEN Tally(pc, Out) + 1 ELSE Tally(pc, Out)
    <3>1. /\ Tally(pc, Adm) \in Nat
          /\ Tally(pc', Adm) = IF pc[r] \notin Adm /\ s \in Adm
                                 THEN Tally(pc, Adm) + 1 ELSE Tally(pc, Adm)
      BY <2>0, <2>m, TallyOfMove
    <3>2. /\ Tally(pc, Rej) \in Nat
          /\ Tally(pc', Rej) = IF s \in Rej THEN Tally(pc, Rej) + 1 ELSE Tally(pc, Rej)
      BY <2>0, <2>m, TallyOfMove
    <3>3. /\ Tally(pc, Out) \in Nat
          /\ Tally(pc', Out) = IF s \in Out THEN Tally(pc, Out) + 1 ELSE Tally(pc, Out)
      BY <2>0, <2>m, TallyOfMove
    <3>4. QED BY <3>1, <3>2, <3>3
  <2> USE DEF States, Final, Totals
  <2>1. ASSUME NEW r \in Requests, AdmitFast(r) PROVE Counted(pc', total')
    <3>1. /\ pc' = [pc EXCEPT ![r] = "holding"]
          /\ pc[r] \notin Adm /\ pc[r] \notin Rej /\ pc[r] \notin Out
      BY <2>s, <2>1 DEF AdmitFast
    <3>2. /\ Tally(pc, Adm) \in Nat
          /\ Tally(pc', Adm) = Tally(pc, Adm) + 1
          /\ Tally(pc', Rej) = Tally(pc, Rej)
          /\ Tally(pc', Out) = Tally(pc, Out)
      BY <2>s, <3>1, <2>m
    <3>3. QED BY <2>0, <2>1, <3>2 DEF AdmitFast
  <2>2. ASSUME NEW r \in Requests, RejectFull(r) PROVE Counted(pc', total')
    BY <2>0, <2>s, <2>2, <2>m DEF RejectFull
  <2>3. ASSUME NEW r \in Requests, NEW p \in Priorities, Enqueue(r, p)
        PROVE  Counted(pc', total')
    <3>1. /\ pc' = [pc EXCEPT ![r] = "waiting"]
          /\ "waiting" \in States
          /\ "waiting" \notin Adm /\ "waiting" \notin Rej /\ "waiting" \notin Out
          /\ pc[r] \notin Adm /\ pc[r] \notin Rej /\ pc[r] \notin Out
      BY <2>s, <2>3 DEF Enqueue
    <3>2. /\ Tally(pc, Adm) \in Nat
          /\ Tally(pc', Adm) = Tally(pc, Adm)
          /\ Tally(pc', Rej) = Tally(pc, Rej)
          /\ Tally(pc', Out) = Tally(pc, Out)
      BY <2>s, <3>1, <2>m
    <3>3. QED BY <2>0, <2>3, <3>2 DEF Enqueue
  <2>4. ASSUME NEW r \in Requests, TimerFires(r) PROVE Counted(pc', total')
    BY <2>0, <2>4 DEF TimerFires
  <2>5. ASSUME NEW r \in Requests, ReturnAdmitted(r) PROVE Counted(pc', total')
    <3>1. /\ pc' = [pc EXCEPT ![r] = "holding"]
          /\ pc[r] \notin Adm /\ pc[r] \notin Rej /\ pc[r] \notin Out
      BY <2>s, <2>5 DEF ReturnAdmitted
    <3>2. /\ Tally(pc, Adm) \in Nat
          /\ Tally(pc', Adm) = Tally(pc, Adm) + 1
          /\ Tally(pc', Rej) = Tally(pc, Rej)
          /\ Tally(pc', Out) = Tally(pc, Out)
      BY <2>s, <3>1, <2>m
    <3>3. QED BY <2>0, <2>5, <3>2 DEF ReturnAdmitted
  <2>6. ASSUME NEW r \in Requests, ReturnTimedOut(r) PROVE Counted(pc', total')
    BY <2>0, <2>s, <2>6, <2>m DEF ReturnTimedOut
  <2>7. ASSUME NEW r \in Requests, TaskCancelled(r) PROVE Counted(pc', total')
    BY <2>0, <2>s, <2>7, <2>m DEF TaskCancelled
  <2>8. ASSUME NEW r \in Requests, Release(r) PROVE Counted(pc', total')
    BY <2>0, <2>s, <2>8, <2>m DEF Release
  <2>9. CASE UNCHANGED vars
    BY <2>9 DEF vars
  <2>10. QED
    BY <2>1, <2>2, <2>3, <2>4, <2>5, <2>6, <2>7, <2>8, <2>9 DEF Next, Quiescent
<1>3. IInv => StateTypes
  BY DEF IInv
<1>4. QED BY <1>1, <1>2, <1>3, Inductive, PTL DEF Spec

(* Never more than max_concurrent requests at the engine. *)
THEOREM CapHolds == Spec => []ConcurrencyCap
<1>1. IInv => ConcurrencyCap
  <2> SUFFICES ASSUME IInv PROVE ConcurrencyCap
    OBVIOUS
  <2>1. /\ Holders \cup Granted \subseteq Occupied
        /\ IsFiniteSet(Occupied)
    BY OccupiedFinite DEF Occupied
  <2>2. /\ Cardinality(Holders \cup Granted) \in Nat
        /\ Cardinality(Occupied) \in Nat
        /\ Cardinality(Holders \cup Granted) <= Cardinality(Occupied)
    BY <2>1, FS_Subset, FS_CardinalityType
  <2>3. QED
    BY <2>2, SizesAssumption DEF IInv, SlotAccounting, ConcurrencyCap
<1>2. QED BY <1>1, Inductive, PTL

(* Type correctness of AdmissionController; _in_flight is never negative. *)
THEOREM TypeCorrect == Spec => []TypeOK
<1>1. IInv => TypeOK
  BY OccupiedFinite, FS_CardinalityType
     DEF IInv, StateTypes, SlotAccounting, TypeOK
<1>2. QED BY <1>1, Inductive, PTL

(* While anything is queued, every slot is taken. *)
THEOREM NoBargingHolds == Spec => []NoBarging
<1>1. IInv => NoBarging
  BY DEF IInv
<1>2. QED BY <1>1, Inductive, PTL

(* A parked call is never overtaken by one that is due after it. *)
THEOREM NoOvertakingHolds == Spec => NoOvertaking
<1> DEFINE Ordered ==
      \A v, w \in Requests :
          (/\ pc[v] = "waiting" /\ v \notin signalled
           /\ w \in waiters /\ w \in signalled' \ signalled)
             => \/ rank[w].priority < rank[v].priority
                \/ /\ rank[w].priority = rank[v].priority
                   /\ rank[w].sequence <= rank[v].sequence
<1>1. IInv /\ [Next]_vars => [Ordered]_vars
  <2> SUFFICES ASSUME IInv, Next,
                      NEW v \in Requests, NEW w \in Requests,
                      pc[v] = "waiting", v \notin signalled,
                      w \in waiters, w \in signalled' \ signalled
               PROVE  \/ rank[w].priority < rank[v].priority
                      \/ /\ rank[w].priority = rank[v].priority
                         /\ rank[w].sequence <= rank[v].sequence
    OBVIOUS
  <2>1. PICK r \in Requests : Release(r) /\ HandOver
    BY DEF Next, AdmitFast, RejectFull, Enqueue, TimerFires, ReturnAdmitted,
           ReturnTimedOut, TaskCancelled, Release, FreeSlot, Quiescent, vars
  <2>2. IsNext(w)
    BY <2>1 DEF HandOver
  <2>3. v \in Live
    BY DEF IInv, ParkedIffQueued, Live
  <2>4. ~Before(v, w)
    BY <2>2, <2>3 DEF IsNext
  <2>5. /\ rank[v].sequence \in Nat /\ rank[w].sequence \in Nat
        /\ rank[v].priority \in Int /\ rank[w].priority \in Int
    BY DEF IInv, StateTypes, Ranks
  <2>6. QED BY <2>4, <2>5 DEF Before
<1>2. QED BY <1>1, Inductive, PTL DEF Spec, NoOvertaking

(***************************************************************************)
(* Refinement: every step of the controller is a step of the priority      *)
(* semaphore or leaves it alone.                                           *)
(***************************************************************************)
LEMMA SemInit == Init => Sem!Init
<1>1. Init => Occupied = {} /\ Live = {}
  BY DEF Init, Occupied, Holders, Granted, Leaked, Live
<1>2. QED BY <1>1 DEF Init, Sem!Init

(* Every step of the controller is one of the semaphore, or none.          *)
LEMMA SemStep == IInv /\ [Next]_vars => [Sem!Next]_(Sem!vars)
<1> SUFFICES ASSUME IInv, [Next]_vars PROVE [Sem!Next]_(Sem!vars)
  OBVIOUS
<1> USE DEF Sem!vars
<1>0. StateTypes /\ Sem!Cardinality(Occupied) = inFlight /\ inFlight \in Int
  BY DEF IInv, SlotAccounting, StateTypes, Cardinality, Sem!Cardinality
<1>1. ASSUME NEW r \in Requests, AdmitFast(r) PROVE Sem!Enter(r)
  <2>1. r \notin Occupied /\ Occupied' = Occupied \cup {r}
    BY <1>0, <1>1 DEF AdmitFast, Occupied, Holders, Granted, Leaked, StateTypes
  <2>2. Live = {} /\ Live' = {}
    BY <1>0, <1>1, SizesAssumption DEF IInv, NoBarging, AdmitFast, HasRoom, Live
  <2>3. QED BY <1>0, <1>1, <2>1, <2>2 DEF Sem!Enter, AdmitFast, HasRoom
<1>2. ASSUME NEW r \in Requests, NEW p \in Priorities, Enqueue(r, p)
      PROVE  Sem!Join(r, p)
  <2>1. Occupied' = Occupied /\ r \notin Occupied
    BY <1>0, <1>2 DEF IInv, ParkedIffQueued, Enqueue, Occupied, Holders,
                      Granted, Leaked, StateTypes
  <2>2. r \notin Live /\ Live' = Live \cup {r}
    BY <1>0, <1>2 DEF IInv, ParkedIffQueued, Enqueue, Live, StateTypes
  <2>3. inFlight = MaxConcurrent
    BY <1>0, <1>2, SizesAssumption DEF IInv, Enqueue, HasRoom
  <2>4. QED BY <1>0, <1>2, <2>1, <2>2, <2>3 DEF Sem!Join, Enqueue
<1>3. ASSUME NEW r \in Requests, ReturnTimedOut(r)
      PROVE  Sem!Withdraw(r) \/ UNCHANGED Sem!vars
  <2>1. Occupied' = Occupied
    BY <1>0, <1>3 DEF ReturnTimedOut, Occupied, Holders, Granted, Leaked, StateTypes
  <2>2. Live' = Live \ {r}
    BY <1>3 DEF ReturnTimedOut, Live
  <2>3. QED BY <1>3, <2>1, <2>2 DEF Sem!Withdraw, ReturnTimedOut
<1>4. ASSUME NEW r \in Requests, Release(r), HandOver
      PROVE  \E w \in Requests : Sem!LeaveTo(r, w)
  <2>1. PICK w \in Live : /\ IsNext(w)
                          /\ waiters' = {v \in waiters : Before(w, v)}
                          /\ signalled' = signalled \cup {w}
                          /\ UNCHANGED inFlight
    BY <1>4 DEF HandOver
  <2>2. /\ w \in waiters /\ w \in Requests /\ w \notin signalled
        /\ pc[w] \in {"waiting", "cancelled"} /\ w # r
    BY <1>0, <1>4, <2>1 DEF Live, IInv, ParkedIffQueued, Release, StateTypes
  <2>3. r \in Occupied /\ Occupied' = (Occupied \ {r}) \cup {w}
    BY <1>0, <1>4, <2>1, <2>2
       DEF Release, Occupied, Holders, Granted, Leaked, StateTypes
  <2>4. ~Before(w, w) /\ \A v \in Live : v # w => Before(w, v)
    BY <1>0, <2>1, HandOverKeepsLive DEF IInv
  <2>5. Live' = Live \ {w}
    BY <1>4, <2>1, <2>4 DEF Live, Release
  <2>6. \A v \in Live : ~Sem!Ahead(v, w)
    BY <2>1 DEF IsNext, Before, Sem!Ahead
  <2>7. Sem!LeaveTo(r, w)
    BY <1>4, <2>1, <2>3, <2>5, <2>6 DEF Sem!LeaveTo, Release
  <2>8. QED BY <2>2, <2>7
<1>5. ASSUME NEW r \in Requests, Release(r), FreeSlot PROVE Sem!LeaveEmpty(r)
  <2>1. r \in Occupied /\ Occupied' = Occupied \ {r}
    BY <1>0, <1>5
       DEF Release, FreeSlot, Occupied, Holders, Granted, Leaked, StateTypes
  <2>2. Live = {} /\ Live' = {}
    BY <1>5 DEF FreeSlot, Live
  <2>3. QED BY <1>5, <2>1, <2>2 DEF Sem!LeaveEmpty, Release
<1>6. ASSUME NEW r \in Requests,
             RejectFull(r) \/ TimerFires(r) \/ ReturnAdmitted(r) \/ TaskCancelled(r)
      PROVE  UNCHANGED Sem!vars
  <2>1. Occupied' = Occupied
    BY <1>0, <1>6 DEF RejectFull, TimerFires, ReturnAdmitted, TaskCancelled,
                      Occupied, Holders, Granted, Leaked, StateTypes
  <2>2. QED
    BY <1>6, <2>1 DEF RejectFull, TimerFires, ReturnAdmitted, TaskCancelled, Live
<1>7. CASE UNCHANGED vars
  BY <1>7 DEF vars, Occupied, Holders, Granted, Leaked, Live
<1>8. QED
  BY <1>1, <1>2, <1>3, <1>4, <1>5, <1>6, <1>7
     DEF Next, Sem!Next, Release, Quiescent

(* AdmissionController implements the priority semaphore, the leaked slots *)
(* counted as occupied.                                                    *)
THEOREM Refinement == Spec => ImplementsSemaphore
BY SemInit, SemStep, Inductive, PTL DEF Spec, ImplementsSemaphore, Sem!Spec
==============================================================================
