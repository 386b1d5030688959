---------------------------- MODULE TenantProofs ----------------------------
(***************************************************************************)
(* Theorems about a tenant's record for every number of calls, every set   *)
(* of budgets (zero rates, bursts and caps included) and every clock.      *)
(***************************************************************************)
EXTENDS TenantRecord, FiniteSetTheorems, TLAPS

USE CallsAssumption, BudgetsAssumption, NoneAssumption, MaxTimeAssumption

\* Until the tenant is registered, its record is the default one, untouched.
FreshInv ==
    ~registered => /\ admittedAt = <<>>
                   /\ tokens = Capacity(created)
                   /\ active = 0
                   /\ pc = [c \in Calls |-> "new"]

\* RateWindow for the windows that end now: what was admitted since the i-th
\* admission, plus what is left in the bucket.
OpenWindow ==
    \A i \in 1 .. Len(admittedAt) :
        /\ admittedAt[i] <= now
        /\ (Len(admittedAt) - i + 1) * TokenUnit + Refilled
             <= Capacity(created)
                + created.rate_limit_rpm * (now - admittedAt[i])

\* The inductive invariant.
IInv == TypeOK /\ FreshInv /\ SlotsAccounted /\ OpenWindow /\ RateWindow

(* Arithmetic of the refill. *)
LEMMA Product ==
    ASSUME NEW d \in Nat, NEW r \in Nat
    PROVE  /\ d * r \in Nat /\ r * d \in Nat
           /\ (d + 1) * r = d * r + r
           /\ r * (d + 1) = r * d + r
           /\ d = 0 => d * r = 0 /\ r * d = 0
OBVIOUS

(* The capacity of a bucket in token units.                                *)
LEMMA CapacityType == ASSUME NEW b \in TenantBudget PROVE Capacity(b) \in Nat
BY DEF TenantBudget, Capacity, TokenUnit

(* The refilled level lies between empty and the capacity. *)
LEMMA RefilledType == TypeOK => Refilled \in 0 .. Capacity(created)
<1> SUFFICES ASSUME TypeOK PROVE Refilled \in 0 .. Capacity(created)
  OBVIOUS
<1>1. created.rate_limit_rpm \in Nat /\ Capacity(created) \in Nat
  BY CapacityType DEF TypeOK, TenantBudget
<1>2. now - lastRefill \in Nat /\ tokens \in Nat
  BY <1>1 DEF TypeOK
<1>3. (now - lastRefill) * created.rate_limit_rpm \in Nat
  BY <1>1, <1>2, Product
<1>4. QED BY <1>1, <1>2, <1>3 DEF Refilled

(* Right after a refill the level is the number of tokens stored. *)
LEMMA RefilledNow == TypeOK /\ lastRefill = now => Refilled = tokens
<1> SUFFICES ASSUME TypeOK, lastRefill = now PROVE Refilled = tokens
  OBVIOUS
<1>1. created.rate_limit_rpm \in Nat /\ Capacity(created) \in Nat
  BY CapacityType DEF TypeOK, TenantBudget
<1>2. (now - lastRefill) * created.rate_limit_rpm = 0
  BY <1>1, Product DEF TypeOK
<1>3. QED BY <1>1, <1>2 DEF Refilled, TypeOK

(* One tick adds the rate, up to the capacity. *)
LEMMA RefilledTick ==
    ASSUME TypeOK, Tick
    PROVE  Refilled' = IF Refilled + created.rate_limit_rpm > Capacity(created)
                         THEN Capacity(created)
                         ELSE Refilled + created.rate_limit_rpm
<1>1. created.rate_limit_rpm \in Nat /\ Capacity(created) \in Nat
  BY CapacityType DEF TypeOK, TenantBudget
<1>2. now - lastRefill \in Nat /\ tokens \in Nat
  BY <1>1 DEF TypeOK
<1> DEFINE gain == (now - lastRefill) * created.rate_limit_rpm
<1>3. gain \in Nat /\ (now - lastRefill + 1) * created.rate_limit_rpm
                        = gain + created.rate_limit_rpm
  BY <1>1, <1>2, Product
<1>4. now' - lastRefill' = now - lastRefill + 1
  BY <1>2 DEF Tick, TypeOK
<1>5. (now' - lastRefill') * created'.rate_limit_rpm = gain + created.rate_limit_rpm
  BY <1>3, <1>4 DEF Tick
<1>6. QED
  BY <1>1, <1>2, <1>3, <1>5 DEF Refilled, Tick

(* The types are preserved by every step. *)
LEMMA TypeStep == TypeOK /\ SlotsAccounted /\ [Next]_vars => TypeOK'
<1> SUFFICES ASSUME TypeOK, SlotsAccounted, [Next]_vars PROVE TypeOK'
  OBVIOUS
<1>0. Refilled \in 0 .. Capacity(created)
  BY RefilledType
<1>1. ASSUME Tick PROVE TypeOK'
  BY <1>1 DEF TypeOK, Tick
<1>2. ASSUME NEW b \in Budgets, RegisterNew(b) PROVE TypeOK'
  <2>1. b \in TenantBudget /\ b.max_concurrent_requests \in Nat
    BY DEF TenantBudget
  <2>2. Capacity(b) \in Nat
    BY <2>1, CapacityType
  <2>3. tokens' \in 0 .. Capacity(created)' /\ lastRefill' \in 0 .. now'
    BY <1>2, <2>2 DEF RegisterNew, TypeOK
  <2>4. QED BY <1>2, <2>1, <2>3 DEF TypeOK, RegisterNew
<1>3. ASSUME NEW b \in Budgets, UpdateBudget(b) PROVE TypeOK'
  BY <1>3 DEF TypeOK, UpdateBudget
<1>4. ASSUME NEW c \in Calls, Grant(c) PROVE TypeOK'
  <2>1. tokens' \in 0 .. Capacity(created)'
    BY <1>0, <1>4, CapacityType DEF TypeOK, Grant, TokenUnit
  <2>2. available' \in Nat /\ semaphore' \in Nat /\ active' \in Nat
    BY <1>4 DEF TypeOK, Grant, SlotsAccounted
  <2>3. lastRefill' \in 0 .. now' /\ admittedAt' \in Seq(Nat)
    BY <1>4 DEF TypeOK, Grant
  <2>4. QED BY <1>4, <2>1, <2>2, <2>3 DEF TypeOK, Grant
<1>5. ASSUME NEW c \in Calls, Refuse(c) PROVE TypeOK'
  BY <1>0, <1>5 DEF TypeOK, Refuse
<1>6. ASSUME NEW c \in Calls, Release(c) PROVE TypeOK'
  BY <1>6 DEF TypeOK, Release
<1>7. CASE UNCHANGED vars
  BY <1>7 DEF vars, TypeOK
<1>8. QED
  BY <1>1, <1>2, <1>3, <1>4, <1>5, <1>6, <1>7 DEF Next, Quiescent

(* The record is the default one, its bucket full.                         *)
LEMMA InvInit == Init => IInv
<1> SUFFICES ASSUME Init PROVE IInv
  OBVIOUS
<1>1. Capacity(DefaultBudget) \in Nat
  BY CapacityType
<1>2. TypeOK
  <2>1. DefaultBudget.max_concurrent_requests \in Nat /\ <<>> \in Seq(Nat)
    BY DEF TenantBudget
  <2>2. tokens \in 0 .. Capacity(created) /\ lastRefill \in 0 .. now
    BY <1>1 DEF Init
  <2>3. pc \in [Calls -> {"new", "holding", "refused", "released"}]
    BY DEF Init
  <2>4. QED BY <2>1, <2>2, <2>3 DEF Init, TypeOK
<1>3. Holders = {} /\ Cardinality(Holders) = 0
  BY FS_EmptySet DEF Init, Holders
<1>4. SlotsAccounted
  BY <1>2, <1>3 DEF Init, SlotsAccounted, TypeOK
<1>5. OpenWindow /\ RateWindow
  BY DEF Init, OpenWindow, RateWindow
<1>6. QED BY <1>2, <1>4, <1>5 DEF Init, IInv, FreshInv

(* The slot counters are preserved. *)
LEMMA SlotsStep == TypeOK /\ FreshInv /\ SlotsAccounted /\ [Next]_vars => SlotsAccounted'
<1> SUFFICES ASSUME TypeOK, FreshInv, SlotsAccounted, [Next]_vars PROVE SlotsAccounted'
  OBVIOUS
<1>0. IsFiniteSet(Holders) /\ Cardinality(Holders) \in Nat
  <2>1. Holders \subseteq Calls
    BY DEF Holders
  <2>2. QED BY <2>1, FS_Subset, FS_CardinalityType
<1>1. ASSUME NEW b \in Budgets, RegisterNew(b) PROVE SlotsAccounted'
  <2>1. active = 0 /\ Holders' = Holders
    BY <1>1 DEF RegisterNew, FreshInv, Holders
  <2>2. b.max_concurrent_requests \in Nat
    BY DEF TenantBudget
  <2>3. SlotsAccounted' <=> /\ semaphore' = available'
                           /\ active' = Cardinality(Holders')
                           /\ available' + active' = b.max_concurrent_requests
    BY <1>1 DEF RegisterNew, SlotsAccounted
  <2>4. active' = Cardinality(Holders') /\ active' = 0
    BY <1>1, <2>1 DEF RegisterNew, SlotsAccounted
  <2>5. semaphore' = available' /\ available' + active' = b.max_concurrent_requests
    BY <1>1, <2>2, <2>4 DEF RegisterNew
  <2>6. QED BY <2>3, <2>4, <2>5
<1>2. ASSUME NEW c \in Calls, Grant(c) PROVE SlotsAccounted'
  <2>1. c \notin Holders /\ Holders' = Holders \cup {c}
    BY <1>2 DEF Grant, Holders, TypeOK
  <2>2. Cardinality(Holders') = Cardinality(Holders) + 1
    BY <1>0, <2>1, FS_AddElement
  <2>3. QED BY <1>0, <1>2, <2>2 DEF Grant, SlotsAccounted, TypeOK, TenantBudget
<1>3. ASSUME NEW c \in Calls, Release(c) PROVE SlotsAccounted'
  <2>1. c \in Holders /\ Holders' = Holders \ {c}
    BY <1>3 DEF Release, Holders, TypeOK
  <2>2. Cardinality(Holders') = Cardinality(Holders) - 1 /\ Cardinality(Holders') \in Nat
    <3>1. IsFiniteSet(Holders \ {c}) /\ Cardinality(Holders \ {c}) = Cardinality(Holders) - 1
      BY <1>0, <2>1, FS_RemoveElement
    <3>2. QED BY <2>1, <3>1, FS_CardinalityType
  <2>3. active > 0 /\ active' = active - 1
    BY <1>0, <1>3, <2>2 DEF Release, SlotsAccounted, TypeOK
  <2>4. available' + active' = available + active
    BY <1>3, <2>3 DEF Release, TypeOK
  <2>5. active' = Cardinality(Holders')
    BY <2>2, <2>3 DEF SlotsAccounted
  <2>6. QED BY <1>3, <2>4, <2>5 DEF Release, SlotsAccounted
<1>4. ASSUME Holders' = Holders, UNCHANGED <<created, available, semaphore, active>>
      PROVE  SlotsAccounted'
  BY <1>4 DEF SlotsAccounted
<1>5. ASSUME NEW c \in Calls, Refuse(c) PROVE SlotsAccounted'
  BY <1>4, <1>5 DEF Refuse, Holders, TypeOK
<1>6. CASE Tick \/ (\E b \in Budgets : UpdateBudget(b)) \/ UNCHANGED vars
  BY <1>4, <1>6 DEF Tick, UpdateBudget, vars, Holders
<1>7. QED
  BY <1>1, <1>2, <1>3, <1>5, <1>6 DEF Next, Quiescent

(* The windows are preserved. *)
LEMMA WindowStep ==
    TypeOK /\ TypeOK' /\ FreshInv /\ OpenWindow /\ RateWindow /\ [Next]_vars
      => OpenWindow' /\ RateWindow'
<1> SUFFICES ASSUME TypeOK, TypeOK', FreshInv, OpenWindow, RateWindow, [Next]_vars
             PROVE  OpenWindow' /\ RateWindow'
  OBVIOUS
<1> DEFINE n == Len(admittedAt)
           rate == created.rate_limit_rpm
           cap == Capacity(created)
<1>0. /\ n \in Nat /\ rate \in Nat /\ cap \in Nat /\ Refilled \in 0 .. cap
      /\ \A i \in 1 .. n : admittedAt[i] \in Nat
  <2>1. created \in TenantBudget /\ admittedAt \in Seq(Nat)
    BY DEF TypeOK
  <2>2. rate \in Nat /\ cap \in Nat
    BY <2>1, CapacityType DEF TenantBudget
  <2>3. QED BY <2>1, <2>2, RefilledType
<1>00. lastRefill' = now' => Refilled' = tokens'
  <2>1. (TypeOK /\ lastRefill = now => Refilled = tokens)'
    BY RefilledNow, PTL
  <2>2. QED BY <2>1
<1>1. ASSUME Tick PROVE OpenWindow' /\ RateWindow'
  <2>1. RateWindow'
    BY <1>1 DEF Tick, RateWindow
  <2>2. Refilled' \in Int /\ Refilled' <= Refilled + rate
    BY <1>0, <1>1, RefilledTick
  <2>3. ASSUME NEW i \in 1 .. n
        PROVE  /\ admittedAt[i] <= now'
               /\ (n - i + 1) * TokenUnit + Refilled' <= cap + rate * (now' - admittedAt[i])
    <3>1. now' = now + 1 /\ now \in Nat /\ admittedAt[i] \in Nat /\ admittedAt[i] <= now
      BY <1>0, <1>1 DEF Tick, TypeOK, OpenWindow
    <3>2. rate * (now - admittedAt[i]) \in Nat
      BY <1>0, <3>1, Product
    <3>3. rate * (now' - admittedAt[i]) = rate * (now - admittedAt[i]) + rate
      <4>1. now - admittedAt[i] \in Nat /\ now' - admittedAt[i] = (now - admittedAt[i]) + 1
        BY <3>1
      <4>2. rate * ((now - admittedAt[i]) + 1) = rate * (now - admittedAt[i]) + rate
        BY <1>0, <4>1, Product
      <4>3. QED BY <4>1, <4>2
    <3>4. (n - i + 1) * TokenUnit + Refilled <= cap + rate * (now - admittedAt[i])
      BY DEF OpenWindow
    <3> DEFINE gain == rate * (now - admittedAt[i])
               used == (n - i + 1) * TokenUnit
    <3>5. used \in Int
      BY <1>0 DEF TokenUnit
    <3>6. gain \in Nat /\ used + Refilled <= cap + gain
      BY <3>2, <3>4
    <3> HIDE DEF gain, used
    <3>7. used + Refilled' <= cap + (gain + rate)
      BY <1>0, <2>2, <3>5, <3>6, SMTT(40)
    <3>8. QED BY <3>1, <3>3, <3>7 DEF gain, used
  <2>4. OpenWindow'
    BY <1>1, <2>3 DEF Tick, OpenWindow
  <2>5. QED BY <2>1, <2>4
<1>2. ASSUME NEW b \in Budgets, RegisterNew(b) PROVE OpenWindow' /\ RateWindow'
  <2>1. Len(admittedAt') = 0
    BY <1>2 DEF RegisterNew, FreshInv
  <2>2. QED BY <2>1 DEF OpenWindow, RateWindow
<1>3. ASSUME NEW c \in Calls, Grant(c) PROVE OpenWindow' /\ RateWindow'
  <2>1. /\ Len(admittedAt') = n + 1
        /\ admittedAt'[n + 1] = now
        /\ \A i \in 1 .. n : admittedAt'[i] = admittedAt[i]
    BY <1>3 DEF Grant, TypeOK
  <2>2. /\ Refilled' = Refilled - TokenUnit /\ Refilled >= TokenUnit
        /\ cap' = cap /\ rate' = rate /\ now' = now
    <3>1. Refilled' = tokens'
      BY <1>3, <1>00 DEF Grant
    <3>2. QED BY <1>3, <3>1 DEF Grant
  <2>3. \A i \in 1 .. n :
           /\ admittedAt[i] <= now
           /\ (n - i + 1) * TokenUnit + Refilled <= cap + rate * (now - admittedAt[i])
    BY DEF OpenWindow
  <2>4. rate * (now - now) = 0 /\ now \in Nat
    BY <1>0, Product, SMTT(40) DEF TypeOK
  <2>5. ASSUME NEW i \in 1 .. n + 1
        PROVE  /\ admittedAt'[i] <= now
               /\ ((n + 1) - i + 1) * TokenUnit + Refilled'
                     <= cap + rate * (now - admittedAt'[i])
    <3>1. CASE i = n + 1
      BY <1>0, <2>1, <2>2, <2>4, <3>1 DEF TokenUnit
    <3>2. CASE i \in 1 .. n
      <4>1. now - admittedAt[i] \in Nat /\ rate * (now - admittedAt[i]) \in Nat
        BY <1>0, <2>3, <2>4, <3>2, Product
      <4>2. QED BY <1>0, <2>1, <2>2, <2>3, <3>2, <4>1 DEF TokenUnit
    <3>3. QED BY <1>0, <3>1, <3>2
  <2>6. OpenWindow'
    BY <2>1, <2>2, <2>5 DEF OpenWindow
  <2>8. \A i \in 1 .. n + 1 : rate * (now - admittedAt'[i]) \in Int
    <3>1. ASSUME NEW i \in 1 .. n + 1 PROVE now - admittedAt'[i] \in Nat
      <4>1. CASE i = n + 1
        BY <2>1, <2>4, <4>1
      <4>2. CASE i \in 1 .. n
        BY <1>0, <2>1, <2>3, <2>4, <4>2, SMTT(40)
      <4>3. QED BY <1>0, <4>1, <4>2
    <3>2. QED BY <1>0, <3>1, Product
  <2>7. ASSUME NEW i \in 1 .. n + 1, NEW j \in i .. n + 1
        PROVE  (j - i + 1) * TokenUnit
                 <= cap + rate * (admittedAt'[j] - admittedAt'[i])
    <3>1. CASE j = n + 1
      <4>1. /\ admittedAt'[j] = now
            /\ (j - i + 1) * TokenUnit + Refilled' <= cap + rate * (now - admittedAt'[i])
        BY <2>1, <2>5, <3>1
      <4>2. Refilled' \in Nat /\ rate * (now - admittedAt'[i]) \in Int
            /\ (j - i + 1) * TokenUnit \in Int
        BY <1>0, <2>2, <2>8, <3>1 DEF TokenUnit
      <4>3. QED BY <1>0, <4>1, <4>2
    <3>2. CASE j \in 1 .. n
      BY <1>0, <2>1, <3>2 DEF RateWindow
    <3>3. QED BY <1>0, <3>1, <3>2, SMTT(40)
  <2>9. RateWindow'
    BY <2>1, <2>2, <2>7 DEF RateWindow
  <2>10. QED BY <2>6, <2>9
<1>4. ASSUME NEW c \in Calls, Refuse(c) PROVE OpenWindow' /\ RateWindow'
  <2>1. Refilled' = Refilled
    <3>1. Refilled' = tokens'
      BY <1>4, <1>00 DEF Refuse
    <3>2. QED BY <1>4, <3>1 DEF Refuse
  <2>2. QED BY <1>4, <2>1 DEF Refuse, OpenWindow, RateWindow
<1>5. ASSUME UNCHANGED <<now, created, tokens, lastRefill, admittedAt>>
      PROVE  OpenWindow' /\ RateWindow'
  BY <1>5 DEF OpenWindow, RateWindow, Refilled, Capacity
<1>6. QED
  BY <1>1, <1>2, <1>3, <1>4, <1>5
     DEF Next, UpdateBudget, Release, Quiescent, vars

(* Every call on the record keeps its counts, its level and its window.    *)
LEMMA InvStep == IInv /\ [Next]_vars => IInv'
<1> SUFFICES ASSUME IInv, [Next]_vars PROVE IInv'
  OBVIOUS
<1>1. TypeOK' /\ SlotsAccounted'
  BY TypeStep, SlotsStep DEF IInv
<1>2. OpenWindow' /\ RateWindow'
  BY <1>1, WindowStep DEF IInv
<1>3. FreshInv'
  BY DEF IInv, FreshInv, Next, Tick, RegisterNew, UpdateBudget, Grant, Refuse,
         Release, Quiescent, vars, Capacity
<1>4. QED BY <1>1, <1>2, <1>3 DEF IInv

(* The inductive invariant holds for good.                                 *)
LEMMA Inductive == Spec => []IInv
BY InvInit, InvStep, PTL DEF Spec

(* Type correctness of a tenant's record. *)
THEOREM TypeCorrect == Spec => []TypeOK
<1>1. IInv => TypeOK
  BY DEF IInv
<1>2. QED BY <1>1, Inductive, PTL

(* The concurrency counters agree, and the cap of creation time holds. *)
THEOREM SlotsAccountedHolds == Spec => []SlotsAccounted
<1>1. IInv => SlotsAccounted
  BY DEF IInv
<1>2. QED BY <1>1, Inductive, PTL

(* No window admits more than a burst plus what the rate supplied. *)
THEOREM RateWindowHolds == Spec => []RateWindow
<1>1. IInv => RateWindow
  BY DEF IInv
<1>2. QED BY <1>1, Inductive, PTL

(***************************************************************************)
(* Refinement: the lazy refill implements the eager bucket.                *)
(***************************************************************************)
LEMMA BucketInit == Init => Bucket!Init
<1> SUFFICES ASSUME Init PROVE Bucket!Init
  OBVIOUS
<1>1. TypeOK
  BY InvInit DEF IInv
<1>2. Refilled = Capacity(created)
  BY <1>1, RefilledNow DEF Init
<1>3. Capacity(created) \in Nat /\ created.rate_limit_rpm \in Nat
  BY <1>1, CapacityType DEF TypeOK, TenantBudget
<1>4. Len(admittedAt) = 0
  BY DEF Init
<1>5. QED BY <1>2, <1>3, <1>4 DEF Init, Bucket!Init

(* A refill on demand is the refills of the time passed, at once.          *)
LEMMA BucketStep == IInv /\ [Next]_vars => [Bucket!Next]_(Bucket!vars)
<1> SUFFICES ASSUME IInv, [Next]_vars PROVE [Bucket!Next]_(Bucket!vars)
  OBVIOUS
<1> USE DEF Bucket!vars
<1>1. TypeOK /\ IInv'
  BY InvStep DEF IInv
<1>2. lastRefill' = now' => Refilled' = tokens'
  <2>1. (TypeOK /\ lastRefill = now => Refilled = tokens)'
    BY RefilledNow, PTL
  <2>2. QED BY <1>1, <2>1 DEF IInv
<1>3. /\ Capacity(created) \in Nat /\ Capacity(created') \in Nat
      /\ created.rate_limit_rpm \in Nat /\ created'.rate_limit_rpm \in Nat
  <2>1. created \in TenantBudget /\ created' \in TenantBudget
    BY <1>1 DEF IInv, TypeOK
  <2>2. QED BY <2>1, CapacityType DEF TenantBudget
<1>4. ASSUME Tick PROVE Bucket!Fill
  BY <1>1, <1>4, RefilledTick DEF Bucket!Fill, Tick, Capacity
<1>5. ASSUME NEW b \in Budgets, RegisterNew(b) PROVE Bucket!Settle
  <2>1. Refilled' = Capacity(created') /\ Capacity(created)' = Capacity(created')
    BY <1>2, <1>5 DEF RegisterNew, Capacity
  <2>2. QED BY <1>3, <1>5, <2>1 DEF Bucket!Settle, RegisterNew
<1>6. ASSUME NEW c \in Calls, Grant(c) PROVE Bucket!Take
  <2>1. Refilled' = Refilled - TokenUnit
    BY <1>2, <1>6 DEF Grant
  <2>2. Len(admittedAt)' = Len(admittedAt) + 1
    BY <1>1, <1>6 DEF Grant, TypeOK
  <2>3. QED BY <1>6, <2>1, <2>2 DEF Bucket!Take, Grant, Capacity
<1>7. ASSUME NEW c \in Calls, Refuse(c) PROVE Bucket!Settle \/ UNCHANGED Bucket!vars
  <2>1. Refilled' = Refilled /\ Capacity(created)' = Capacity(created)
    BY <1>2, <1>7 DEF Refuse, Capacity
  <2>2. CASE registered
    BY <1>7, <2>1, <2>2 DEF Refuse
  <2>3. CASE ~registered
    <3>1. tokens = Capacity(created) /\ (now - lastRefill) * created.rate_limit_rpm \in Nat
      <4>1. now - lastRefill \in Nat
        BY <1>1 DEF TypeOK
      <4>2. QED BY <1>3, <2>3, <4>1, Product DEF IInv, FreshInv
    <3>2. Refilled = Capacity(created)
      BY <1>3, <3>1 DEF Refilled
    <3>3. QED BY <1>3, <1>7, <2>1, <2>3, <3>2 DEF Bucket!Settle, Refuse
  <2>4. QED BY <1>1, <2>2, <2>3 DEF TypeOK
<1>8. ASSUME UNCHANGED <<now, registered, created, tokens, lastRefill, admittedAt>>
      PROVE  UNCHANGED Bucket!vars
  BY <1>8 DEF Refilled, Capacity
<1>9. QED
  BY <1>4, <1>5, <1>6, <1>7, <1>8
     DEF Next, Bucket!Next, UpdateBudget, Release, Quiescent, vars

(* A tenant's record implements the eager token bucket. *)
THEOREM Refinement == Spec => ImplementsTokenBucket
BY BucketInit, BucketStep, Inductive, PTL DEF Spec, ImplementsTokenBucket, Bucket!Spec
==============================================================================
