-------------------------- MODULE EngineCacheProofs --------------------------
(***************************************************************************)
(* What the lifecycle of a model relies on below it: the circuit breaker   *)
(* of EngineAdapter, for every number of concurrent calls, every threshold *)
(* and every cooldown; and the ledger of CacheManager, for every finite    *)
(* set of blocks, their sizes and the capacities of the tiers.             *)
(***************************************************************************)
EXTENDS EngineAdapter, CacheManager, FiniteSetTheorems, TLAPS

------------------------------------------------------------------------------
(* The circuit breaker *)

Results == {"success", "timeout"}

\* TypeOK, and the flags it only uses.
StateTypes == TypeOK /\ owned \in BOOLEAN /\ dev \in BOOLEAN

\* _consecutive_timeouts counts timeouts at the end of the history, and the
\* circuit is open only while the count is at the threshold.
Streak ==
    /\ outcomes \in Seq(Results) /\ Len(outcomes) <= Threshold
    /\ timeouts <= Len(outcomes)
    /\ \A i \in 1..Len(outcomes) : i > Len(outcomes) - timeouts => outcomes[i] = "timeout"
    /\ openFor > 0 => timeouts = Threshold

AdapterInv == StateTypes /\ Streak

(* The adapter starts with a closed circuit and no history. *)
LEMMA InitStreak == Init => AdapterInv
<1> SUFFICES ASSUME Init PROVE AdapterInv OBVIOUS
<1>1. StateTypes
  <2>1. /\ phase = "new" /\ polls = MaxPolls /\ owned = FALSE /\ dev \in BOOLEAN
        /\ engine = IF dev THEN "loading" ELSE "none"
        /\ healthy = FALSE /\ session = FALSE /\ timeouts = 0 /\ openFor = 0
    BY DEF Init
  <2>2. call \in [Calls -> {"idle", "generator", "posted", "refused"}]
    BY DEF Init
  <2>3. engine \in {"none", "loading", "serving", "hung", "exited"} BY <2>1
  <2>4. healthy \in BOOLEAN /\ session \in BOOLEAN /\ owned \in BOOLEAN BY <2>1
  <2>5. polls \in 0..MaxPolls /\ timeouts \in 0..Threshold /\ openFor \in 0..Cooldown
    BY <2>1, ParametersAssumption
  <2>6. ~owned BY <2>1
  <2>7. QED BY <2>1, <2>2, <2>3, <2>4, <2>5, <2>6 DEF StateTypes, TypeOK
<1>2. outcomes = <<>> /\ timeouts = 0 /\ openFor = 0 BY DEF Init
<1>3. outcomes \in Seq(Results) /\ Len(outcomes) = 0 BY <1>2
<1>4. Streak BY <1>2, <1>3, ParametersAssumption DEF Streak
<1>5. QED BY <1>1, <1>4 DEF AdapterInv

(* The history after one more result: it is cut to Threshold entries, and    *)
(* the entries that stay keep their distance from the end.                 *)
LEMMA RecordedLast ==
    ASSUME outcomes \in Seq(Results), Len(outcomes) <= Threshold,
           NEW o \in Results, Record(o)
    PROVE  /\ outcomes' \in Seq(Results)
           /\ Len(outcomes') = IF Len(outcomes) = Threshold THEN Threshold
                                                            ELSE Len(outcomes) + 1
           /\ outcomes'[Len(outcomes')] = o
           /\ \A i \in 1..Len(outcomes') - 1 :
                 outcomes'[i] = outcomes[i + Len(outcomes) + 1 - Len(outcomes')]
<1> DEFINE all == Append(outcomes, o)
<1>1. /\ all \in Seq(Results) /\ Len(all) = Len(outcomes) + 1 /\ all[Len(all)] = o
      /\ \A i \in 1..Len(outcomes) : all[i] = outcomes[i]
  OBVIOUS
<1>2. outcomes' = IF Len(all) > Threshold THEN Tail(all) ELSE all
  BY DEF Record
<1> HIDE DEF all
<1>3. CASE Len(all) > Threshold
  <2>1. /\ Len(outcomes) = Threshold /\ Len(outcomes) \in Nat
    BY <1>1, <1>3, ParametersAssumption
  <2>2. /\ outcomes' \in Seq(Results) /\ Len(outcomes') = Len(all) - 1
        /\ \A i \in 1..Len(all) - 1 : outcomes'[i] = all[i + 1]
    BY <1>1, <1>2, <1>3, <2>1
  <2>3. QED BY <1>1, <2>1, <2>2, ParametersAssumption
<1>4. CASE ~(Len(all) > Threshold)
  BY <1>1, <1>2, <1>4, ParametersAssumption
<1>5. QED BY <1>3, <1>4

(* A success ends the streak and closes the circuit. *)
LEMMA SucceedStreak ==
    ASSUME AdapterInv, NEW c \in Calls, Succeed(c)
    PROVE  Streak'
<1>1. Record("success") /\ timeouts' = 0 /\ openFor' = 0
  BY DEF Succeed
<1>2. /\ outcomes' \in Seq(Results) /\ Len(outcomes') \in Nat
      /\ Len(outcomes') <= Threshold
  BY <1>1, RecordedLast, ParametersAssumption DEF AdapterInv, Streak, Results
<1>3. QED BY <1>1, <1>2 DEF Streak

(* A timeout prolongs the streak; at the threshold it opens the circuit. *)
LEMMA TimeOutStreak ==
    ASSUME AdapterInv, NEW c \in Calls, TimeOut(c)
    PROVE  Streak'
<1>1. /\ Record("timeout")
      /\ timeouts' = IF timeouts < Threshold THEN timeouts + 1 ELSE Threshold
      /\ timeouts' = Threshold \/ openFor' = openFor
  BY DEF TimeOut
<1>2. /\ timeouts \in 0..Threshold /\ Threshold \in Nat \ {0} /\ openFor \in Int
      /\ Len(outcomes) \in Nat /\ Len(outcomes) <= Threshold /\ timeouts <= Len(outcomes)
  BY ParametersAssumption DEF AdapterInv, StateTypes, TypeOK, Streak
<1>3. /\ outcomes' \in Seq(Results)
      /\ Len(outcomes') = IF Len(outcomes) = Threshold THEN Threshold ELSE Len(outcomes) + 1
      /\ outcomes'[Len(outcomes')] = "timeout"
      /\ \A i \in 1..Len(outcomes') - 1 :
            outcomes'[i] = outcomes[i + Len(outcomes) + 1 - Len(outcomes')]
  BY <1>1, RecordedLast DEF AdapterInv, Streak, Results
<1>4. Len(outcomes') <= Threshold /\ timeouts' <= Len(outcomes')
  BY <1>1, <1>2, <1>3
<1>5. ASSUME NEW i \in 1..Len(outcomes'), i > Len(outcomes') - timeouts'
      PROVE  outcomes'[i] = "timeout"
  <2>1. CASE i = Len(outcomes') BY <1>3, <2>1
  <2>2. CASE i # Len(outcomes')
    <3> DEFINE n == Len(outcomes)
               m == Len(outcomes')
               j == i + n + 1 - m
    <3>1. /\ n \in Nat /\ n <= Threshold /\ timeouts <= n
          /\ m = IF n = Threshold THEN Threshold ELSE n + 1
          /\ i \in 1..m /\ i # m /\ i > m - timeouts'
          /\ \A k \in 1..m - 1 : outcomes'[k] = outcomes[k + n + 1 - m]
      BY <1>2, <1>3, <1>5, <2>2
    <3>2. \A k \in 1..n : k > n - timeouts => outcomes[k] = "timeout"
      BY DEF AdapterInv, Streak
    <3> HIDE DEF n, m
    <3>3. i \in 1..m - 1 BY <3>1, <1>2
    <3>4. outcomes'[i] = outcomes[j] BY <3>1, <3>3
    <3>5. j \in 1..n /\ j > n - timeouts BY <1>1, <1>2, <3>1, <3>3
    <3>6. QED BY <3>2, <3>4, <3>5
  <2>3. QED BY <2>1, <2>2
<1>6. openFor' > 0 => timeouts' = Threshold
  BY <1>1, <1>2 DEF AdapterInv, Streak
<1>7. QED BY <1>3, <1>4, <1>5, <1>6 DEF Streak

(* Nothing but the end of a call and the clock touches the breaker. *)
LEMMA StepStreak == AdapterInv /\ [Next]_vars => Streak'
<1> SUFFICES ASSUME AdapterInv, [Next]_vars PROVE Streak' OBVIOUS
<1>1. ASSUME NEW c \in Calls, Succeed(c) PROVE Streak' BY <1>1, SucceedStreak
<1>2. ASSUME NEW c \in Calls, TimeOut(c) PROVE Streak' BY <1>2, TimeOutStreak
<1>3. CASE Tick
  <2>1. openFor' = openFor - 1 /\ openFor \in Int /\ UNCHANGED <<timeouts, outcomes>>
    BY <1>3 DEF Tick, AdapterInv, StateTypes, TypeOK
  <2>2. QED BY <2>1 DEF AdapterInv, Streak
<1>4. CASE UNCHANGED breaker
  BY <1>4 DEF breaker, AdapterInv, Streak
<1>5. ASSUME NEW c \in Calls,
             \/ Refuse(c) \/ Answered503(c) \/ Iterate(c) \/ Fail(c)
             \/ \E stream \in BOOLEAN : Forward(c, stream)
      PROVE  UNCHANGED breaker
  BY <1>5 DEF Refuse, Answered503, Iterate, Fail, Forward
<1>6. ASSUME \/ ServesHttp \/ Hangs \/ Exits \/ Launch \/ StartFails \/ Poll
             \/ StartTimesOut \/ Stop \/ Kill \/ Reap \/ Cancel \/ Done \/ UNCHANGED vars
      PROVE  UNCHANGED breaker
  BY <1>6 DEF ServesHttp, Hangs, Exits, EngineStep, Launch, StartFails, Poll,
              StartTimesOut, Stop, Kill, Reap, Cancel, Done, vars, breaker
<1>7. QED BY <1>1, <1>2, <1>3, <1>4, <1>5, <1>6 DEF Next

(* The types are kept by every step. *)
LEMMA StepTypes == AdapterInv /\ [Next]_vars => StateTypes'
<1> SUFFICES ASSUME AdapterInv, [Next]_vars PROVE StateTypes' OBVIOUS
<1> USE ParametersAssumption DEF AdapterInv, StateTypes, TypeOK, process, breaker
<1>1. CASE ServesHttp \/ Hangs \/ Exits
  BY <1>1 DEF ServesHttp, Hangs, Exits, EngineStep
<1>2. CASE Launch BY <1>2 DEF Launch
<1>3. CASE StartFails BY <1>3 DEF StartFails
<1>4. CASE Poll BY <1>4 DEF Poll
<1>5. CASE StartTimesOut BY <1>5 DEF StartTimesOut
<1>6. CASE Stop BY <1>6 DEF Stop
<1>7. CASE Kill BY <1>7 DEF Kill
<1>8. CASE Reap BY <1>8 DEF Reap
<1>9. CASE Cancel BY <1>9 DEF Cancel
<1>10. ASSUME NEW c \in Calls,
              \/ Refuse(c) \/ Answered503(c) \/ Iterate(c) \/ Fail(c)
              \/ \E stream \in BOOLEAN : Forward(c, stream)
       PROVE  StateTypes'
  <2>1. UNCHANGED <<process, engine, healthy, breaker>> /\ session' \in BOOLEAN
    BY <1>10 DEF Refuse, Answered503, Iterate, Fail, Forward
  <2>2. \E to \in {"idle", "generator", "posted", "refused"} : Goto(c, to)
    BY <1>10 DEF Refuse, Answered503, Iterate, Fail, Forward
  <2>3. call' \in [Calls -> {"idle", "generator", "posted", "refused"}]
    BY <2>2 DEF Goto
  <2>4. QED BY <2>1, <2>3
<1>11. ASSUME NEW c \in Calls, Succeed(c) PROVE StateTypes'
  BY <1>11 DEF Succeed, Goto
<1>12. ASSUME NEW c \in Calls, TimeOut(c) PROVE StateTypes'
  <2>1. UNCHANGED <<process, engine, session>> /\ Goto(c, "idle")
    BY <1>12 DEF TimeOut
  <2>2. timeouts' \in 0..Threshold BY <1>12 DEF TimeOut
  <2>3. openFor' \in 0..Cooldown /\ healthy' \in BOOLEAN
    <3>1. CASE openFor' = Cooldown /\ healthy' = FALSE
      <4>1. openFor' \in 0..Cooldown BY <3>1
      <4>2. healthy' \in BOOLEAN BY <3>1, Zenon
      <4>3. QED BY <4>1, <4>2
    <3>2. CASE UNCHANGED <<openFor, healthy>> BY <3>2
    <3>3. QED BY <1>12, <3>1, <3>2 DEF TimeOut
  <2>4. call' \in [Calls -> {"idle", "generator", "posted", "refused"}]
    BY <2>1 DEF Goto
  <2>5. QED BY <2>1, <2>2, <2>3, <2>4
<1>13. CASE Tick BY <1>13 DEF Tick
<1>14. CASE Done \/ UNCHANGED vars BY <1>14 DEF Done, vars
<1>15. QED
  BY <1>1, <1>2, <1>3, <1>4, <1>5, <1>6, <1>7, <1>8, <1>9, <1>10, <1>11, <1>12, <1>13, <1>14
     DEF Next

(* Base.py's circuit breaker: whatever calls overlap and in whatever order  *)
(* they end, the circuit is open only after Threshold timeouts in a row.    *)
THEOREM OpenOnlyAfterStreak == Spec => []OpenAfterStreak
<1>1. Init => AdapterInv BY InitStreak
<1>2. AdapterInv /\ [Next]_vars => AdapterInv' BY StepStreak, StepTypes DEF AdapterInv
<1>3. AdapterInv => OpenAfterStreak
  <2> SUFFICES ASSUME AdapterInv, CircuitOpen
               PROVE  Len(outcomes) = Threshold /\ ToSet(outcomes) = {"timeout"}
    BY DEF AdapterInv, StateTypes, OpenAfterStreak
  <2>1. /\ timeouts = Threshold /\ Threshold \in Nat \ {0} /\ Len(outcomes) \in Nat
        /\ timeouts <= Len(outcomes) /\ Len(outcomes) <= Threshold
    BY ParametersAssumption DEF AdapterInv, Streak, CircuitOpen
  <2>2. \A i \in 1..Len(outcomes) : outcomes[i] = "timeout"
    BY <2>1 DEF AdapterInv, Streak
  <2>3. DOMAIN outcomes = 1..Len(outcomes) BY DEF AdapterInv, Streak
  <2>4. 1 \in DOMAIN outcomes BY <2>1, <2>3
  <2>5. ToSet(outcomes) = {outcomes[i] : i \in DOMAIN outcomes} BY DEF ToSet
  <2>6. ToSet(outcomes) = {"timeout"} BY <2>2, <2>3, <2>4, <2>5
  <2>7. QED BY <2>1, <2>6
<1>4. QED BY <1>1, <1>2, <1>3, PTL DEF Spec

(* The contract of the process.  Until start() or stop() is over, the      *)
(* adapter owns the process it launched; without the process it is in dev  *)
(* mode.  When either is over, nothing of its own runs.                    *)

OwnerInv ==
    /\ dev \in BOOLEAN /\ owned \in BOOLEAN
    /\ phase \in {"new", "polling", "up", "giving_up", "stopping", "failed", "stopped", "cancelled"}
    /\ phase \in {"polling", "up", "giving_up", "stopping"} => dev \/ owned
    /\ phase \in {"failed", "stopped"} => NoProcess

(* No adapter has been started. *)
LEMMA InitOwner == Init => OwnerInv /\ ProcessState = "none"
<1> SUFFICES ASSUME Init PROVE OwnerInv /\ ProcessState = "none" OBVIOUS
<1>1. phase = "new" BY DEF Init
<1>2. dev \in BOOLEAN /\ owned \in BOOLEAN BY Zenon DEF Init
<1>3. QED BY <1>1, <1>2 DEF OwnerInv, ProcessState

(* A process that exited stays so, and the others are no concern of the    *)
(* calls: only start(), stop() and their cancellation change the phase.    *)
LEMMA PhaseStays ==
    ASSUME OwnerInv, UNCHANGED process, engine = "exited" => engine' = "exited"
    PROVE  OwnerInv' /\ ProcessState' = ProcessState
<1>1. dev' = dev /\ owned' = owned /\ phase' = phase BY DEF process
<1>2. NoProcess => NoProcess' BY <1>1 DEF NoProcess
<1>3. OwnerInv' BY <1>1, <1>2 DEF OwnerInv
<1>4. phase \in {"failed", "stopped"} => ProcessState = "dead" /\ ProcessState' = "dead"
  BY <1>1, <1>2, <1>3 DEF OwnerInv, ProcessState
<1>5. phase \notin {"failed", "stopped"} => ProcessState' = ProcessState
  BY <1>1 DEF OwnerInv, ProcessState
<1>6. QED BY <1>3, <1>4, <1>5

(* Each step of start() and stop() is one of the process, or none.         *)
LEMMA ProcessStep ==
    ASSUME OwnerInv, [Next]_vars
    PROVE  OwnerInv' /\ (Process!Next \/ ProcessState' = ProcessState)
<1> USE DEF Process!Next, Process!Start, Process!Ready, Process!Fail, Process!Stop,
            Process!Stopped, Process!Abandon
<1>1. CASE Launch
  <2>1. phase = "new" /\ phase' = "polling" /\ dev' = dev
        /\ (dev \/ owned') /\ owned' \in BOOLEAN
    BY <1>1 DEF Launch, OwnerInv
  <2>2. QED BY <2>1 DEF OwnerInv, ProcessState
<1>2. CASE StartFails
  <2>1. /\ phase = "polling" /\ phase' = "failed" /\ UNCHANGED <<dev, owned>>
        /\ engine' = "exited"
    BY <1>2 DEF StartFails
  <2>2. NoProcess' BY <2>1 DEF NoProcess
  <2>3. QED BY <2>1, <2>2 DEF OwnerInv, ProcessState
<1>3. CASE Poll
  <2>1. phase = "polling" /\ phase' \in {"polling", "up"} /\ UNCHANGED <<dev, owned>>
    BY <1>3 DEF Poll
  <2>2. QED BY <2>1 DEF OwnerInv, ProcessState
<1>4. CASE StartTimesOut
  <2>1. phase = "polling" /\ UNCHANGED <<dev, owned, engine>>
        /\ phase' = (IF owned THEN "giving_up" ELSE "failed")
    BY <1>4 DEF StartTimesOut
  <2>2. ~owned => NoProcess' BY <2>1 DEF OwnerInv, NoProcess
  <2>3. QED BY <2>1, <2>2 DEF OwnerInv, ProcessState
<1>5. CASE Stop
  <2>1. phase = "up" /\ phase' = "stopping" /\ UNCHANGED <<dev, owned>>
    BY <1>5 DEF Stop
  <2>2. QED BY <2>1 DEF OwnerInv, ProcessState
<1>6. CASE Reap
  <2>1. /\ phase \in {"giving_up", "stopping"} /\ UNCHANGED <<dev, engine>>
        /\ phase' = (IF phase = "giving_up" THEN "failed" ELSE "stopped")
        /\ owned => engine = "exited"
    BY <1>6 DEF Reap, InStop
  <2>2. owned' \in BOOLEAN BY <1>6, Zenon DEF Reap
  <2>3. NoProcess' BY <2>1 DEF OwnerInv, NoProcess
  <2>4. QED BY <2>1, <2>2, <2>3 DEF OwnerInv, ProcessState
<1>7. CASE Cancel
  <2>1. /\ phase \in {"polling", "giving_up", "stopping"} /\ phase' = "cancelled"
        /\ UNCHANGED <<dev, owned>>
    BY <1>7 DEF Cancel
  <2>2. QED BY <2>1 DEF OwnerInv, ProcessState
<1>8. CASE ServesHttp \/ Hangs \/ Exits \/ Kill \/ Tick \/ Done \/ UNCHANGED vars
  <2>1. UNCHANGED process /\ (engine = "exited" => engine' = "exited")
    BY <1>8 DEF ServesHttp, Hangs, Exits, EngineStep, Kill, Tick, Done, vars
  <2>2. QED BY <2>1, PhaseStays
<1>9. ASSUME NEW c \in Calls,
             \/ Refuse(c) \/ Answered503(c) \/ Iterate(c)
             \/ (\E stream \in BOOLEAN : Forward(c, stream))
             \/ Succeed(c) \/ TimeOut(c) \/ Fail(c)
      PROVE  OwnerInv' /\ ProcessState' = ProcessState
  <2>1. UNCHANGED <<process, engine>>
    BY <1>9 DEF Refuse, Answered503, Iterate, Forward, Succeed, TimeOut, Fail
  <2>2. QED BY <2>1, PhaseStays
<1>10. QED BY <1>1, <1>2, <1>3, <1>4, <1>5, <1>6, <1>7, <1>8, <1>9 DEF Next

(* start() ends with a ready engine or with no process of its own, and     *)
(* stop() with none, unless they are cancelled (start() and stop() of      *)
(* engines/base.py): the safety part of ImplementsEngineProcess.         *)
THEOREM ProcessAsPromised == Spec => Process!Init /\ [][Process!Next]_ProcessState
<1>1. Init => OwnerInv /\ Process!Init BY InitOwner DEF Process!Init
<1>2. OwnerInv /\ [Next]_vars => OwnerInv' /\ [Process!Next]_ProcessState
  BY ProcessStep
<1>3. QED BY <1>1, <1>2, PTL DEF Spec

------------------------------------------------------------------------------
(* The ledger *)

(* Induction: a set of finite sets has a minimal one, and one of naturals  *)
(* a least one.  The theorems of the library about folds and induction     *)
(* take operators, so the ones below are about functions.                  *)

Minimal(U, T) == \A V \in T : V \subseteq U => V = U
(* Of a set of subsets of a finite set, one is minimal.                    *)
LEMMA MinimalSubset ==
    ASSUME NEW S, IsFiniteSet(S), NEW T, T \subseteq SUBSET S, T # {}
    PROVE  \E U \in T : Minimal(U, T)
<1>1. T \subseteq FiniteSubsetsOf(S)
  BY FS_Subset DEF FiniteSubsetsOf
<1>2. PICK U \in T : \A V \in T : <<V, U>> \notin StrictSubsetOrdering(S)
  BY <1>1, FS_StrictSubsetOrderingWellFounded, WFMin
<1>3. QED BY <1>2 DEF StrictSubsetOrdering, Minimal

(* By way of the initial segments.                                         *)
LEMMA LeastNumber ==
    ASSUME NEW N \in Nat, NEW T \in SUBSET (0 .. N), T # {}
    PROVE  \E m \in T : \A k \in T : m <= k
<1> DEFINE I == {1 .. k : k \in T}
<1>1. I \subseteq SUBSET (1 .. N) /\ I # {}
  <2>1. \A k \in T : 1 .. k \in SUBSET (1 .. N)
    OBVIOUS
  <2>2. QED BY <2>1
<1> HIDE DEF I
<1>2. PICK U \in I : Minimal(U, I)
  <2>1. IsFiniteSet(1 .. N)
    BY FS_Interval
  <2>2. QED BY <1>1, <2>1, MinimalSubset
<1>3. PICK m \in T : U = 1 .. m
  BY <1>2 DEF I
<1>4. ASSUME NEW k \in T, ~ m <= k PROVE FALSE
  <2>1. 1 .. k \subseteq U /\ m \in U /\ m \notin 1 .. k
    BY <1>3, <1>4
  <2>2. QED BY <1>2, <2>1 DEF I, Minimal
<1>5. QED BY <1>4

\* The recursion of a fold over a set, its steps as functions.
FoldStep(h, s, base, pick, step) ==
    IF s = {} THEN base ELSE step[pick[s]][h[s \ {pick[s]}]]
Folds(h, S, base, pick, step) == \A s \in SUBSET S : h[s] = FoldStep(h, s, base, pick, step)

(* A fold of typed steps over a finite set: its recursion has a solution.  *)
LEMMA FoldExists ==
    ASSUME NEW S, IsFiniteSet(S), NEW A, NEW base \in A,
           NEW pick \in [SUBSET S -> S \cup {S}], \A s \in SUBSET S : s # {} => pick[s] \in s,
           NEW step \in [S -> [A -> A]]
    PROVE  \E h \in [SUBSET S -> A] : Folds(h, S, base, pick, step)
<1> DEFINE Rest(s) == s \ {pick[s]}
           Solves(h, s) == h[s] = IF s = {} THEN base ELSE step[pick[s]][h[Rest(s)]]
           SolvesTo(h, n) == \A s \in SUBSET S : Cardinality(s) <= n => Solves(h, s)
           N == Cardinality(S)
           Bad == {n \in 0 .. N : ~ \E h \in [SUBSET S -> A] : SolvesTo(h, n)}
<1>1. N \in Nat /\ \A s \in SUBSET S : IsFiniteSet(s) /\ Cardinality(s) \in 0 .. N
  BY FS_Subset, FS_CardinalityType
<1>2. \A s \in SUBSET S : s # {} =>
         /\ Rest(s) \in SUBSET S /\ Cardinality(Rest(s)) = Cardinality(s) - 1
         /\ pick[s] \in S
  BY <1>1, FS_RemoveElement
<1> HIDE DEF N, Rest
<1>3. ASSUME Bad # {} PROVE FALSE
  <2>1. PICK n \in Bad : \A k \in Bad : n <= k
    <3>1. Bad \in SUBSET (0 .. N) OBVIOUS
    <3> HIDE DEF Bad
    <3>2. QED BY <1>1, <1>3, <3>1, LeastNumber
  <2>2. CASE n = 0
    <3> DEFINE h == [s \in SUBSET S |-> base]
    <3>1. SolvesTo(h, 0)
      <4>1. \A s \in SUBSET S : Cardinality(s) <= 0 => s = {}
        BY <1>1, FS_EmptySet
      <4>2. QED BY <4>1
    <3>2. h \in [SUBSET S -> A] OBVIOUS
    <3> HIDE DEF h, SolvesTo
    <3>3. QED BY <2>1, <2>2, <3>1, <3>2
  <2>3. CASE n # 0
    <3>1. n - 1 \in 0 .. N /\ n - 1 \notin Bad /\ n \in 0 .. N
      <4>1. n \in 0 .. N BY <2>1
      <4> HIDE DEF Bad
      <4>2. QED BY <1>1, <2>1, <2>3, <4>1
    <3>2. PICK g \in [SUBSET S -> A] : SolvesTo(g, n - 1)
      BY <3>1
    <3> DEFINE h == [s \in SUBSET S |-> IF s = {} THEN base ELSE step[pick[s]][g[Rest(s)]]]
    <3>3. h \in [SUBSET S -> A]
      BY <1>2
    <3>4. \A s \in SUBSET S : Cardinality(s) <= n - 1 => h[s] = g[s]
      BY <3>2
    <3>5. ASSUME NEW s \in SUBSET S, Cardinality(s) <= n PROVE Solves(h, s)
      <4>1. CASE s = {} BY <4>1
      <4>2. CASE s # {}
        <5>1. Rest(s) \in SUBSET S /\ Cardinality(Rest(s)) <= n - 1
          BY <1>1, <1>2, <3>1, <3>5, <4>2
        <5>2. h[Rest(s)] = g[Rest(s)]
          BY <3>4, <5>1
        <5>3. QED BY <4>2, <5>2
      <4>3. QED BY <4>1, <4>2
    <3>6. SolvesTo(h, n)
      BY <3>5
    <3> HIDE DEF h, SolvesTo
    <3>7. QED BY <2>1, <3>3, <3>6
  <2>4. QED BY <2>2, <2>3
<1>4. PICK h \in [SUBSET S -> A] : SolvesTo(h, N)
  <2> HIDE DEF SolvesTo
  <2>1. N \in 0 .. N
    BY <1>1
  <2>2. N \notin Bad
    <3> HIDE DEF Bad
    <3>1. QED BY <1>3
  <2>3. QED BY <2>1, <2>2
<1>5. \A s \in SUBSET S : Solves(h, s)
  BY <1>1, <1>4
<1>6. QED BY <1>5 DEF Rest, Folds, FoldStep

(* The size of a set of blocks                                             *)

Weight(S) == MapThenSumSet(LAMBDA b : Size[b], S)
First(s) == CHOOSE x \in s : TRUE
SumStep(h, s) == IF s = {} THEN 0 ELSE Size[First(s)] + h[s \ {First(s)}]
Sums(h, S) == \A s \in SUBSET S : h[s] = SumStep(h, s)

(* The sum takes one block after the other.                                *)
LEMMA WeightSolves ==
    ASSUME NEW S \in SUBSET Blocks
    PROVE  \E h \in [SUBSET S -> Nat] : Weight(S) = h[S] /\ Sums(h, S)
<1> DEFINE pick == [s \in SUBSET S |-> IF s = {} THEN S ELSE First(s)]
           step == [x \in S |-> [v \in Nat |-> Size[x] + v]]
           f == CHOOSE h : h = [s \in SUBSET S |-> SumStep(h, s)]
<1>1. Weight(S) = f[S]
  BY Zenon DEF Weight, MapThenSumSet, MapThenFoldSet, First, SumStep
<1>2. \A s \in SUBSET S : s # {} => First(s) \in s
  BY DEF First
<1>3. /\ IsFiniteSet(S) /\ 0 \in Nat
      /\ pick \in [SUBSET S -> S \cup {S}] /\ \A s \in SUBSET S : s # {} => pick[s] \in s
      /\ step \in [S -> [Nat -> Nat]]
  BY <1>2, BlocksAssumption, FS_Subset
<1> HIDE DEF pick, step
<1>4. PICK g \in [SUBSET S -> Nat] : Folds(g, S, 0, pick, step)
  BY <1>3, FoldExists
<1>5. \A s \in SUBSET S : g[s] = SumStep(g, s)
  BY <1>2, <1>4 DEF pick, step, Folds, FoldStep, SumStep
<1>6. g = [s \in SUBSET S |-> SumStep(g, s)]
  BY <1>5
<1>7. f = [s \in SUBSET S |-> SumStep(f, s)]
  BY <1>6
<1> HIDE DEF f
<1>8. \A s \in SUBSET S : f[s] = SumStep(f, s)
  BY <1>7
<1> DEFINE Bad == {s \in SUBSET S : f[s] # g[s]}
<1>9. ASSUME Bad # {} PROVE FALSE
  <2>1. PICK s \in Bad : Minimal(s, Bad)
    <3>1. Bad \subseteq SUBSET S OBVIOUS
    <3> HIDE DEF Bad
    <3>2. QED BY <1>3, <1>9, <3>1, MinimalSubset
  <2>2. CASE s = {} BY <1>5, <1>8, <2>2 DEF SumStep
  <2>3. CASE s # {}
    <3>1. s \in SUBSET S /\ s \ {First(s)} \in SUBSET S /\ First(s) \in s
      BY <1>2, <2>3
    <3>2. f[s \ {First(s)}] = g[s \ {First(s)}]
      BY <2>1, <3>1 DEF Minimal
    <3>3. QED BY <1>5, <1>8, <2>3, <3>1, <3>2 DEF SumStep
  <2>4. QED BY <2>2, <2>3
<1>10. f = g
  BY <1>7, <1>9
<1>11. QED BY <1>1, <1>5, <1>10 DEF Sums

(* One solution serves for all sets of blocks.                             *)
LEMMA WeightRecursion ==
    /\ \A S \in SUBSET Blocks : Weight(S) \in Nat
    /\ Weight({}) = 0
    /\ \A S \in SUBSET Blocks :
          S # {} => First(S) \in S /\ Weight(S) = Size[First(S)] + Weight(S \ {First(S)})
<1> USE DEF Sums, SumStep
<1>1. PICK h \in [SUBSET Blocks -> Nat] : Sums(h, Blocks)
  <2> HIDE DEF Sums
  <2>1. QED BY WeightSolves
<1>2. ASSUME NEW S \in SUBSET Blocks PROVE Weight(S) = h[S]
  <2>1. PICK g \in [SUBSET S -> Nat] : Weight(S) = g[S] /\ Sums(g, S)
    <3> HIDE DEF Sums
    <3>1. QED BY WeightSolves
  <2> DEFINE Bad == {s \in SUBSET S : h[s] # g[s]}
  <2>2. ASSUME Bad # {} PROVE FALSE
    <3>1. PICK s \in Bad : Minimal(s, Bad)
      <4>1. Bad \subseteq SUBSET S OBVIOUS
      <4>2. IsFiniteSet(S) BY BlocksAssumption, FS_Subset
      <4> HIDE DEF Bad
      <4>3. QED BY <2>2, <4>1, <4>2, MinimalSubset
    <3>2. s \in SUBSET S /\ s \in SUBSET Blocks /\ h[s] # g[s]
      OBVIOUS
    <3>3. s # {}
      BY <1>1, <2>1, <3>2
    <3>4. First(s) \in s /\ s \ {First(s)} \in SUBSET S
      BY <3>2, <3>3 DEF First
    <3>5. h[s \ {First(s)}] = g[s \ {First(s)}]
      BY <3>1, <3>4 DEF Minimal
    <3>6. QED BY <1>1, <2>1, <3>2, <3>3, <3>5
  <2>3. QED BY <2>1, <2>2
<1>3. \A s \in SUBSET Blocks : s # {} => First(s) \in s /\ s \ {First(s)} \in SUBSET Blocks
  BY DEF First
<1>4. QED BY <1>1, <1>2, <1>3

(* The order of the sum does not matter.                                   *)
LEMMA WeightAdd ==
    ASSUME NEW S \in SUBSET Blocks, NEW b \in S
    PROVE  Weight(S) = Size[b] + Weight(S \ {b})
<1> DEFINE Splits(s) == \A x \in s : Weight(s) = Size[x] + Weight(s \ {x})
           Bad == {s \in SUBSET Blocks : ~Splits(s)}
<1>1. \A s \in SUBSET Blocks : Weight(s) \in Nat
  BY WeightRecursion
<1>2. \A x \in Blocks : Size[x] \in Nat
  BY BlocksAssumption
<1>3. ASSUME Bad # {} PROVE FALSE
  <2>1. PICK s \in Bad : Minimal(s, Bad)
    <3>1. Bad \subseteq SUBSET Blocks OBVIOUS
    <3> HIDE DEF Bad
    <3>2. QED BY <1>3, <3>1, BlocksAssumption, MinimalSubset
  <2>2. PICK x \in s : Weight(s) # Size[x] + Weight(s \ {x})
    OBVIOUS
  <2> DEFINE c == First(s)
  <2>3. s \in SUBSET Blocks /\ c \in s /\ Weight(s) = Size[c] + Weight(s \ {c})
    BY <2>2, WeightRecursion
  <2> HIDE DEF c, Splits
  <2>4. x # c BY <2>2, <2>3
  <2>5. s \ {x} \notin Bad /\ s \ {c} \notin Bad
    <3>1. s \ {x} # s /\ s \ {x} \subseteq s /\ s \ {c} # s /\ s \ {c} \subseteq s
      BY <2>2, <2>3
    <3> HIDE DEF Bad
    <3>2. QED BY <2>1, <3>1 DEF Minimal
  <2>6. Splits(s \ {x}) /\ Splits(s \ {c})
    BY <2>3, <2>5
  <2>7. /\ Weight(s \ {c}) = Size[x] + Weight((s \ {c}) \ {x})
        /\ Weight(s \ {x}) = Size[c] + Weight((s \ {x}) \ {c})
    BY <2>2, <2>3, <2>4, <2>6 DEF Splits
  <2>8. (s \ {c}) \ {x} = (s \ {x}) \ {c} OBVIOUS
  <2>9. /\ Weight((s \ {x}) \ {c}) \in Nat /\ Weight(s \ {x}) \in Nat /\ Weight(s \ {c}) \in Nat
        /\ Size[x] \in Nat /\ Size[c] \in Nat
    BY <1>1, <1>2, <2>3
  <2>10. QED BY <2>2, <2>3, <2>7, <2>8, <2>9
<1>4. QED BY <1>3

(* Fewer blocks do not weigh more.                                         *)
LEMMA WeightMonotonic ==
    ASSUME NEW S \in SUBSET Blocks, NEW T \in SUBSET S
    PROVE  Weight(T) <= Weight(S)
<1> DEFINE Bad == {U \in SUBSET S : T \subseteq U /\ ~ Weight(T) <= Weight(U)}
<1>1. \A U \in SUBSET S : Weight(U) \in Nat
  BY WeightRecursion
<1>2. ASSUME Bad # {} PROVE FALSE
  <2>1. PICK U \in Bad : Minimal(U, Bad)
    <3>1. Bad \subseteq SUBSET S /\ IsFiniteSet(S) BY BlocksAssumption, FS_Subset
    <3> HIDE DEF Bad
    <3>2. QED BY <1>2, <3>1, MinimalSubset
  <2>2. PICK x \in U : x \notin T
    BY <1>1
  <2>3. U \ {x} \in SUBSET S /\ T \subseteq U \ {x} /\ U \ {x} # U /\ U \in SUBSET Blocks
    BY <2>2
  <2>4. Weight(T) <= Weight(U \ {x})
    BY <2>1, <2>3 DEF Minimal
  <2>5. Weight(U) = Size[x] + Weight(U \ {x})
    BY <2>3, WeightAdd
  <2>6. Size[x] \in Nat
    BY <2>2, BlocksAssumption
  <2>7. QED BY <1>1, <2>3, <2>4, <2>5, <2>6
<1>3. QED BY <1>2

------------------------------------------------------------------------------
(* The ledger *)

Ledgers == [tier : [Blocks -> {0} \cup Tiers], members : [Tiers -> SUBSET Blocks]]
Agrees(s) == \A b \in Blocks, t \in Tiers : b \in s.members[t] <=> s.tier[b] = t
Consistent(s) == s \in Ledgers /\ Agrees(s)
Sound(s) == Consistent(s) /\ \A t \in Tiers : Used(s, t) <= Capacity[t]

In(s, t) == {b \in Blocks : s.tier[b] = t}

(* What a tier uses is the size of the blocks that name it.                *)
LEMMA UsedIsWeight ==
    ASSUME NEW s, Consistent(s), NEW t \in Tiers
    PROVE  /\ s.members[t] = In(s, t) /\ In(s, t) \in SUBSET Blocks
           /\ Used(s, t) = Weight(In(s, t)) /\ Used(s, t) \in Nat
<1>1. s.members[t] = In(s, t) /\ In(s, t) \in SUBSET Blocks
  BY DEF Consistent, Ledgers, Agrees, In
<1>2. {b \in s.members[t] : s.tier[b] # 0} = In(s, t)
  BY <1>1 DEF In, Tiers
<1>3. Used(s, t) = Weight(In(s, t))
  BY <1>2, Zenon DEF Used, Weight
<1>4. QED BY <1>1, <1>3, WeightRecursion

(* Freeing blocks.                                                         *)
LEMMA FreedIs ==
    ASSUME NEW s \in Ledgers, NEW S \in SUBSET Blocks
    PROVE  /\ Freed(s, S) \in Ledgers
           /\ Freed(s, S).tier = [b \in Blocks |-> IF b \in S THEN 0 ELSE s.tier[b]]
           /\ \A t \in Tiers : In(Freed(s, S), t) = In(s, t) \ S
           /\ Agrees(s) => Agrees(Freed(s, S))
<1>1. /\ Freed(s, S).tier = [b \in Blocks |-> IF b \in S THEN 0 ELSE s.tier[b]]
      /\ Freed(s, S).members = [t \in Tiers |-> s.members[t] \ {b \in S : s.tier[b] = t}]
      /\ Freed(s, S) \in Ledgers
  BY DEF Freed, Ledgers
<1>2. \A t \in Tiers : In(Freed(s, S), t) = In(s, t) \ S
  BY <1>1 DEF In, Tiers
<1>3. Agrees(s) => Agrees(Freed(s, S))
  BY <1>1 DEF Agrees, Tiers, Ledgers
<1>4. QED BY <1>1, <1>2, <1>3

(* Placing a block that is in no tier.                                     *)
LEMMA PlacedIs ==
    ASSUME NEW s \in Ledgers, NEW b \in Blocks, NEW t \in Tiers
    PROVE  /\ Placed(s, b, t) \in Ledgers
           /\ Placed(s, b, t).tier = [s.tier EXCEPT ![b] = t]
           /\ s.tier[b] = 0 =>
                 \A u \in Tiers : In(Placed(s, b, t), u) =
                                     IF u = t THEN In(s, u) \cup {b} ELSE In(s, u)
           /\ s.tier[b] = 0 /\ Agrees(s) => Agrees(Placed(s, b, t))
<1>1. /\ Placed(s, b, t).tier = [s.tier EXCEPT ![b] = t]
      /\ Placed(s, b, t).members = [s.members EXCEPT ![t] = @ \cup {b}]
      /\ Placed(s, b, t) \in Ledgers
  BY DEF Placed, Ledgers
<1>2. s.tier \in [Blocks -> {0} \cup Tiers] /\ s.members \in [Tiers -> SUBSET Blocks]
  BY DEF Ledgers
<1>3. s.tier[b] = 0 => \A u \in Tiers : In(Placed(s, b, t), u) =
                          IF u = t THEN In(s, u) \cup {b} ELSE In(s, u)
  BY <1>1, <1>2 DEF In, Tiers
<1>4. s.tier[b] = 0 /\ Agrees(s) => Agrees(Placed(s, b, t))
  BY <1>1, <1>2 DEF Agrees, Tiers
<1>5. QED BY <1>1, <1>3, <1>4

(* Moving a block is both.                                                 *)
LEMMA MovedIs ==
    ASSUME NEW s \in Ledgers, NEW b \in Blocks, NEW t \in Tiers
    PROVE  /\ Moved(s, b, t) \in Ledgers
           /\ Moved(s, b, t).tier = [s.tier EXCEPT ![b] = t]
           /\ \A u \in Tiers : In(Moved(s, b, t), u) =
                                  IF u = t THEN In(s, u) \cup {b} ELSE In(s, u) \ {b}
           /\ Agrees(s) => Agrees(Moved(s, b, t))
<1> DEFINE f == Freed(s, {b})
<1>1. /\ f \in Ledgers /\ f.tier = [x \in Blocks |-> IF x \in {b} THEN 0 ELSE s.tier[x]]
      /\ \A u \in Tiers : In(f, u) = In(s, u) \ {b}
      /\ Agrees(s) => Agrees(f)
  BY FreedIs
<1>2. f.tier[b] = 0 /\ Moved(s, b, t) = Placed(f, b, t)
  BY <1>1 DEF Moved
<1> HIDE DEF f
<1>3. /\ Placed(f, b, t) \in Ledgers
      /\ Placed(f, b, t).tier = [f.tier EXCEPT ![b] = t]
      /\ \A u \in Tiers : In(Placed(f, b, t), u) = IF u = t THEN In(f, u) \cup {b} ELSE In(f, u)
      /\ Agrees(f) => Agrees(Placed(f, b, t))
  BY <1>1, <1>2, PlacedIs
<1>4. Moved(s, b, t).tier = [s.tier EXCEPT ![b] = t]
  BY <1>1, <1>2, <1>3 DEF Ledgers
<1>5. \A u \in Tiers : In(Moved(s, b, t), u) =
                          IF u = t THEN In(s, u) \cup {b} ELSE In(s, u) \ {b}
  BY <1>1, <1>2, <1>3
<1>6. QED BY <1>1, <1>2, <1>3, <1>4, <1>5

(* Freed blocks use no space.                                              *)
LEMMA FreedSound ==
    ASSUME NEW s, Sound(s), NEW S \in SUBSET Blocks
    PROVE  Sound(Freed(s, S))
<1> DEFINE f == Freed(s, S)
<1>1. Consistent(s) /\ Consistent(f) /\ \A t \in Tiers : In(f, t) = In(s, t) \ S
  BY FreedIs DEF Sound, Consistent
<1> HIDE DEF f
<1>2. ASSUME NEW t \in Tiers PROVE Used(f, t) <= Capacity[t]
  <2>1. Used(s, t) <= Capacity[t] /\ Capacity[t] \in Nat
    BY CapacityAssumption DEF Sound
  <2>2. /\ Used(s, t) = Weight(In(s, t)) /\ Used(f, t) = Weight(In(s, t) \ S)
        /\ Used(s, t) \in Nat /\ Used(f, t) \in Nat /\ In(s, t) \in SUBSET Blocks
    BY <1>1, UsedIsWeight
  <2>3. Weight(In(s, t) \ S) <= Weight(In(s, t))
    BY <2>2, WeightMonotonic
  <2>4. QED BY <2>1, <2>2, <2>3
<1>3. QED BY <1>1, <1>2 DEF Sound, f

(* A new block takes its size, where there is room for it.                 *)
LEMMA PlacedSound ==
    ASSUME NEW s, Sound(s), NEW b \in Blocks, NEW t \in Tiers, s.tier[b] = 0, Fits(s, b, t)
    PROVE  Sound(Placed(s, b, t))
<1> DEFINE p == Placed(s, b, t)
<1>1. /\ Consistent(s) /\ Consistent(p)
      /\ \A u \in Tiers : In(p, u) = IF u = t THEN In(s, u) \cup {b} ELSE In(s, u)
  BY PlacedIs DEF Sound, Consistent
<1> HIDE DEF p
<1>2. ASSUME NEW u \in Tiers PROVE Used(p, u) <= Capacity[u]
  <2>1. Used(s, u) <= Capacity[u]
    BY DEF Sound
  <2>2. /\ Used(s, u) = Weight(In(s, u)) /\ Used(p, u) = Weight(In(p, u))
        /\ In(s, u) \in SUBSET Blocks /\ In(p, u) \in SUBSET Blocks
    BY <1>1, UsedIsWeight
  <2>3. CASE u # t BY <1>1, <2>1, <2>2, <2>3
  <2>4. CASE u = t
    <3>1. b \in In(p, t) /\ In(p, t) \ {b} = In(s, t)
      BY <1>1 DEF In, Tiers
    <3>2. Used(p, t) = Size[b] + Used(s, t)
      BY <2>2, <2>4, <3>1, WeightAdd
    <3>3. Size[b] \in Nat /\ Used(s, t) \in Nat
      BY <1>1, UsedIsWeight, BlocksAssumption
    <3>4. QED BY <2>4, <3>2, <3>3 DEF Fits
  <2>5. QED BY <2>3, <2>4
<1>3. QED BY <1>1, <1>2 DEF Sound, p

(* And so does one that moves: what it leaves had it counted.              *)
LEMMA MovedSound ==
    ASSUME NEW s, Sound(s), NEW b \in Blocks, NEW t \in Tiers, Fits(s, b, t)
    PROVE  Sound(Moved(s, b, t))
<1> DEFINE f == Freed(s, {b})
<1>1. Sound(f) /\ Consistent(s) /\ Consistent(f) /\ In(f, t) = In(s, t) \ {b}
  BY FreedSound, FreedIs DEF Sound, Consistent
<1>2. f.tier[b] = 0
  <2>1. f.tier = [x \in Blocks |-> IF x \in {b} THEN 0 ELSE s.tier[x]]
    BY <1>1, FreedIs DEF Consistent
  <2> HIDE DEF f
  <2>2. QED BY <2>1
<1>3. Moved(s, b, t) = Placed(f, b, t)
  BY DEF Moved
<1> HIDE DEF f
<1>4. Fits(f, b, t)
  <2>1. /\ Used(s, t) = Weight(In(s, t)) /\ Used(f, t) = Weight(In(s, t) \ {b})
        /\ Used(s, t) \in Nat /\ Used(f, t) \in Nat /\ In(s, t) \in SUBSET Blocks
    BY <1>1, UsedIsWeight
  <2>2. Weight(In(s, t) \ {b}) <= Weight(In(s, t))
    BY <2>1, WeightMonotonic
  <2>3. Size[b] \in Nat /\ Capacity[t] \in Nat
    BY BlocksAssumption, CapacityAssumption
  <2>4. QED BY <2>1, <2>2, <2>3 DEF Fits
<1>5. QED BY <1>1, <1>2, <1>3, <1>4, PlacedSound

------------------------------------------------------------------------------
(* Eviction *)

(* A non-empty set of positions has a last one.                            *)
LEMMA MaxIsLast ==
    ASSUME NEW n \in Nat, NEW s \in SUBSET (1 .. n), s # {}
    PROVE  Max(s) \in s /\ \A y \in s : y <= Max(s)
<1> DEFINE U == {m \in 0 .. n : \A y \in s : y <= m}
<1>1. U \in SUBSET (0 .. n) /\ n \in U
  OBVIOUS
<1> HIDE DEF U
<1>2. PICK m \in U : \A k \in U : m <= k
  BY <1>1, LeastNumber
<1>3. m \in 0 .. n /\ \A y \in s : y <= m
  BY DEF U
<1>4. m \in s
  <2> SUFFICES ASSUME m \notin s PROVE FALSE OBVIOUS
  <2>1. \A y \in s : y <= m - 1 /\ y \in 1 .. n
    BY <1>3
  <2>2. m # 0
    <3>1. PICK y \in s : TRUE
      OBVIOUS
    <3>2. QED BY <1>3, <2>1, <3>1
  <2>3. m - 1 \in U
    BY <1>3, <2>1, <2>2 DEF U
  <2>4. QED BY <1>2, <1>3, <2>3
<1>5. \E x \in s : \A y \in s : x >= y
  BY <1>3, <1>4
<1>6. QED BY <1>5 DEF Max

(* Nothing comes after the last of the first k.                            *)
LEMMA MaxOfSegment ==
    ASSUME NEW k \in Nat, k # 0
    PROVE  Max(1 .. k) = k /\ (1 .. k) \ {k} = 1 .. k - 1
<1> DEFINE s == 1 .. k
<1>1. s \in SUBSET (1 .. k) /\ k \in s
  OBVIOUS
<1>2. Max(s) \in s /\ \A y \in s : y <= Max(s)
  <2> HIDE DEF s
  <2>1. QED BY <1>1, MaxIsLast
<1>3. QED BY <1>1, <1>2

Evicted == [freed : Nat, ledger : Ledgers]
EvictStep(acc, b, t, needed) ==
    IF acc.freed >= needed THEN acc
    ELSE [freed  |-> acc.freed + Size[b],
          ledger |-> IF t + 1 \in Tiers /\ Fits(acc.ledger, b, t + 1)
                       THEN Moved(acc.ledger, b, t + 1)
                       ELSE Freed(acc.ledger, {b})]

\* The states of the loop of an eviction, one block of the ranking after the other.
EvictionRun(c, s, t, needed, order, n) ==
    /\ c[0] = [freed |-> 0, ledger |-> s]
    /\ \A k \in 1 .. n : c[k] = EvictStep(c[k - 1], order[k], t, needed)

(* The loop is well typed.                                                 *)
LEMMA EvictStepType ==
    ASSUME NEW acc \in Evicted, NEW b \in Blocks, NEW t \in Tiers, NEW needed \in Nat
    PROVE  EvictStep(acc, b, t, needed) \in Evicted
<1>1. acc.freed \in Nat /\ acc.ledger \in Ledgers /\ Size[b] \in Nat
  BY BlocksAssumption DEF Evicted
<1>2. t + 1 \in Tiers => Moved(acc.ledger, b, t + 1) \in Ledgers
  BY <1>1, MovedIs
<1>3. Freed(acc.ledger, {b}) \in Ledgers
  BY <1>1, FreedIs
<1>4. CASE acc.freed >= needed BY <1>4 DEF EvictStep
<1>5. CASE ~ acc.freed >= needed
  <2> DEFINE l == IF t + 1 \in Tiers /\ Fits(acc.ledger, b, t + 1)
                    THEN Moved(acc.ledger, b, t + 1) ELSE Freed(acc.ledger, {b})
  <2>1. l \in Ledgers
    BY <1>2, <1>3
  <2>2. EvictStep(acc, b, t, needed) = [freed |-> acc.freed + Size[b], ledger |-> l]
    BY <1>5 DEF EvictStep
  <2> HIDE DEF l
  <2>3. QED BY <1>1, <2>1, <2>2 DEF Evicted
<1>6. QED BY <1>4, <1>5

(* And the fold computes its last state.                                   *)
LEMMA EvictRuns ==
    ASSUME NEW s \in Ledgers, NEW t \in Tiers, NEW needed \in Nat, NEW n \in Nat,
           NEW order \in [1 .. n -> Blocks]
    PROVE  \E c \in [0 .. n -> Evicted] :
              /\ EvictUntil(s, t, needed, order) = c[n]
              /\ EvictionRun(c, s, t, needed, order, n)
<1> DEFINE S == 1 .. n
           base == [freed |-> 0, ledger |-> s]
           Next1(h, u) == IF u = {} THEN base
                          ELSE EvictStep(h[u \ {Max(u)}], order[Max(u)], t, needed)
           f == CHOOSE h : h = [u \in SUBSET (DOMAIN order) |-> Next1(h, u)]
           pick == [u \in SUBSET S |-> IF u = {} THEN S ELSE Max(u)]
           step == [k \in S |-> [v \in Evicted |-> EvictStep(v, order[k], t, needed)]]
<1>1. EvictUntil(s, t, needed, order) = f[DOMAIN order]
  BY Zenon DEF EvictUntil, FoldLeft, MapThenFoldSet, EvictStep
<1>2. \A u \in SUBSET S : u # {} => Max(u) \in u
  BY MaxIsLast
<1>3. /\ IsFiniteSet(S) /\ base \in Evicted /\ pick \in [SUBSET S -> S \cup {S}]
      /\ \A u \in SUBSET S : u # {} => pick[u] \in u
      /\ step \in [S -> [Evicted -> Evicted]]
  <2>1. IsFiniteSet(S) BY FS_Interval
  <2>2. base \in Evicted BY DEF Evicted
  <2>3. \A k \in S : order[k] \in Blocks OBVIOUS
  <2>4. step \in [S -> [Evicted -> Evicted]]
    BY <2>3, EvictStepType
  <2>5. QED BY <1>2, <2>1, <2>2, <2>4
<1>4. DOMAIN order = S OBVIOUS
<1> HIDE DEF pick, step, S, base
<1>5. PICK g \in [SUBSET S -> Evicted] : Folds(g, S, base, pick, step)
  BY <1>3, FoldExists
<1>6. \A u \in SUBSET S : g[u] = Next1(g, u)
  BY <1>2, <1>5 DEF pick, step, Folds, FoldStep
<1> HIDE DEF Next1
<1>7. g = [u \in SUBSET (DOMAIN order) |-> Next1(g, u)]
  BY <1>4, <1>6
<1>8. f = [u \in SUBSET (DOMAIN order) |-> Next1(f, u)]
  BY <1>7
<1> HIDE DEF f
<1>9. \A u \in SUBSET S : f[u] = Next1(f, u)
  BY <1>4, <1>8
<1> DEFINE Bad == {u \in SUBSET S : f[u] # g[u]}
<1>10. ASSUME Bad # {} PROVE FALSE
  <2>1. PICK u \in Bad : Minimal(u, Bad)
    <3>1. Bad \subseteq SUBSET S OBVIOUS
    <3> HIDE DEF Bad
    <3>2. QED BY <1>3, <1>10, <3>1, MinimalSubset
  <2>2. CASE u = {} BY <1>6, <1>9, <2>2 DEF Next1
  <2>3. CASE u # {}
    <3>1. u \in SUBSET S /\ u \ {Max(u)} \in SUBSET S /\ Max(u) \in u
      BY <1>2, <2>3
    <3>2. f[u \ {Max(u)}] = g[u \ {Max(u)}]
      BY <2>1, <3>1 DEF Minimal
    <3>3. QED BY <1>6, <1>9, <2>3, <3>1, <3>2 DEF Next1
  <2>4. QED BY <2>2, <2>3
<1>11. EvictUntil(s, t, needed, order) = g[1 .. n]
  BY <1>1, <1>4, <1>10 DEF S
<1> DEFINE c == [k \in 0 .. n |-> g[1 .. k]]
<1>12. c \in [0 .. n -> Evicted] /\ c[n] = g[1 .. n]
  <2>1. \A k \in 0 .. n : 1 .. k \in SUBSET S
    BY DEF S
  <2>2. QED BY <2>1
<1>13. c[0] = base
  <2>1. 1 .. 0 = {} /\ {} \in SUBSET S OBVIOUS
  <2>2. g[{}] = base
    BY <1>6, <2>1 DEF Next1
  <2>3. QED BY <2>1, <2>2
<1>14. ASSUME NEW k \in 1 .. n PROVE c[k] = EvictStep(c[k - 1], order[k], t, needed)
  <2>1. 1 .. k \in SUBSET S /\ 1 .. k # {} /\ Max(1 .. k) = k /\ (1 .. k) \ {k} = 1 .. k - 1
    <3>1. k \in Nat /\ k # 0 /\ k \in 1 .. k /\ \A x \in 1 .. k : x \in 1 .. n
      OBVIOUS
    <3>2. Max(1 .. k) = k /\ (1 .. k) \ {k} = 1 .. k - 1
      BY <3>1, MaxOfSegment
    <3>3. QED BY <3>1, <3>2 DEF S
  <2>2. g[1 .. k] = EvictStep(g[1 .. k - 1], order[k], t, needed)
    BY <1>6, <2>1 DEF Next1
  <2>3. QED BY <2>2
<1> HIDE DEF c
<1>15. QED BY <1>11, <1>12, <1>13, <1>14 DEF base, EvictionRun

(* A block that moves to another tier leaves its own.                      *)
LEMMA MovedLeaves ==
    ASSUME NEW s \in Ledgers, Sound(s), NEW b \in Blocks, NEW t \in Tiers, NEW u \in Tiers,
           u # t, Fits(s, b, u), NEW l, l = Moved(s, b, u)
    PROVE  /\ Sound(l) /\ l.tier[b] = u
           /\ \A x \in Blocks : x # b => l.tier[x] = s.tier[x]
           /\ In(l, t) = In(s, t) \ {b}
<1>1. /\ l.tier = [s.tier EXCEPT ![b] = u]
      /\ \A v \in Tiers : In(l, v) = IF v = u THEN In(s, v) \cup {b} ELSE In(s, v) \ {b}
  BY MovedIs
<1>2. In(l, t) = In(s, t) \ {b}
  BY <1>1
<1>3. Sound(l)
  BY MovedSound
<1>4. s.tier \in [Blocks -> {0} \cup Tiers]
  BY DEF Ledgers
<1>5. QED BY <1>1, <1>2, <1>3, <1>4

(* A block that is evicted leaves as much room as it is said to free.      *)
LEMMA EvictStepKeeps ==
    ASSUME NEW acc \in Evicted, Sound(acc.ledger), NEW t \in Tiers, NEW needed \in Nat,
           NEW b \in Blocks, acc.ledger.tier[b] = t, ~ acc.freed >= needed,
           NEW e, e = EvictStep(acc, b, t, needed)
    PROVE  /\ Sound(e.ledger)
           /\ Used(e.ledger, t) + e.freed = Used(acc.ledger, t) + acc.freed
           /\ e.ledger.tier[b] \in {0, t + 1}
           /\ \A x \in Blocks : x # b => e.ledger.tier[x] = acc.ledger.tier[x]
<1> DEFINE l == IF t + 1 \in Tiers /\ Fits(acc.ledger, b, t + 1)
                  THEN Moved(acc.ledger, b, t + 1) ELSE Freed(acc.ledger, {b})
<1>1. /\ e = [freed |-> acc.freed + Size[b], ledger |-> l]
      /\ acc.freed \in Nat /\ acc.ledger \in Ledgers /\ Size[b] \in Nat
  BY BlocksAssumption DEF EvictStep, Evicted
<1>2. /\ Sound(l) /\ l.tier[b] \in {0, t + 1}
      /\ \A x \in Blocks : x # b => l.tier[x] = acc.ledger.tier[x]
      /\ In(l, t) = In(acc.ledger, t) \ {b}
  <2>1. acc.ledger.tier \in [Blocks -> {0} \cup Tiers]
    BY <1>1 DEF Ledgers
  <2>2. CASE t + 1 \in Tiers /\ Fits(acc.ledger, b, t + 1)
    <3>1. l = Moved(acc.ledger, b, t + 1)
      BY <2>2
    <3>2. t + 1 # t
      BY DEF Tiers
    <3> HIDE DEF l
    <3> DEFINE u == t + 1
    <3>3. u \in Tiers /\ u # t /\ Fits(acc.ledger, b, u) /\ l = Moved(acc.ledger, b, u)
      BY <2>2, <3>1, <3>2
    <3>4. u = t + 1
      OBVIOUS
    <3> HIDE DEF u
    <3>5. /\ Sound(l) /\ l.tier[b] = u
          /\ \A x \in Blocks : x # b => l.tier[x] = acc.ledger.tier[x]
          /\ In(l, t) = In(acc.ledger, t) \ {b}
      BY <1>1, <3>3, MovedLeaves
    <3>6. QED BY <3>4, <3>5
  <2>3. CASE ~ (t + 1 \in Tiers /\ Fits(acc.ledger, b, t + 1))
    <3>1. /\ Freed(acc.ledger, {b}).tier =
                [x \in Blocks |-> IF x \in {b} THEN 0 ELSE acc.ledger.tier[x]]
          /\ In(Freed(acc.ledger, {b}), t) = In(acc.ledger, t) \ {b}
      BY <1>1, FreedIs
    <3>2. Sound(Freed(acc.ledger, {b}))
      BY FreedSound
    <3>3. l = Freed(acc.ledger, {b})
      BY <2>3
    <3> HIDE DEF l
    <3>4. QED BY <2>1, <3>1, <3>2, <3>3
  <2>4. QED BY <2>2, <2>3
<1> HIDE DEF l
<1>3. /\ Used(acc.ledger, t) = Weight(In(acc.ledger, t)) /\ Used(acc.ledger, t) \in Nat
      /\ Used(l, t) = Weight(In(l, t)) /\ Used(l, t) \in Nat
      /\ In(acc.ledger, t) \in SUBSET Blocks /\ b \in In(acc.ledger, t)
  <2>1. Consistent(acc.ledger) /\ Consistent(l)
    BY <1>2 DEF Sound
  <2>2. b \in In(acc.ledger, t)
    BY DEF In
  <2>3. QED BY <2>1, <2>2, UsedIsWeight
<1>4. Used(acc.ledger, t) = Size[b] + Used(l, t)
  BY <1>2, <1>3, WeightAdd
<1>5. QED BY <1>1, <1>2, <1>3, <1>4

\* After k blocks of the ranking: so many of them as were needed, the first
\* ones, have left the tier; all else is where it was.
EvictionInv(acc, s, t, needed, order, k) ==
    /\ Sound(acc.ledger)
    /\ Used(acc.ledger, t) + acc.freed = Used(s, t)
    /\ \A b \in Blocks : (\A i \in 1 .. k : order[i] # b) => acc.ledger.tier[b] = s.tier[b]
    /\ \E j \in 0 .. k :
          /\ j < k => acc.freed >= needed
          /\ \A i \in 1 .. k : acc.ledger.tier[order[i]] \in (IF i <= j THEN {0, t + 1} ELSE {t})

(* One more block.                                                         *)
LEMMA EvictionInvStep ==
    ASSUME NEW s, Sound(s), NEW t \in Tiers, NEW needed \in Nat, NEW n \in Nat,
           NEW order \in [1 .. n -> In(s, t)],
           \A i, j \in 1 .. n : i # j => order[i] # order[j],
           NEW k \in 1 .. n, NEW acc \in Evicted, EvictionInv(acc, s, t, needed, order, k - 1),
           NEW e, e = EvictStep(acc, order[k], t, needed)
    PROVE  EvictionInv(e, s, t, needed, order, k)
<1> DEFINE b == order[k]
<1>1. b \in Blocks /\ s.tier[b] = t /\ \A i \in 1 .. k - 1 : i \in 1 .. n /\ order[i] # b
  BY DEF In
<1>2. acc.ledger.tier[b] = t
  BY <1>1 DEF EvictionInv
<1>3. PICK j \in 0 .. k - 1 :
         /\ j < k - 1 => acc.freed >= needed
         /\ \A i \in 1 .. k - 1 :
               acc.ledger.tier[order[i]] \in (IF i <= j THEN {0, t + 1} ELSE {t})
  BY DEF EvictionInv
<1>4. CASE acc.freed >= needed
  <2>1. e = acc
    BY <1>4 DEF EvictStep
  <2>2. \A i \in 1 .. k : acc.ledger.tier[order[i]] \in (IF i <= j THEN {0, t + 1} ELSE {t})
    <3> SUFFICES ASSUME NEW i \in 1 .. k
                 PROVE  acc.ledger.tier[order[i]] \in (IF i <= j THEN {0, t + 1} ELSE {t})
      OBVIOUS
    <3>1. CASE i = k BY <1>2, <3>1
    <3>2. CASE i # k
      <4>1. i \in 1 .. k - 1 BY <3>2
      <4>2. QED BY <1>3, <4>1
    <3>3. QED BY <3>1, <3>2
  <2>3. j \in 0 .. k /\ \A x \in Blocks :
           (\A i \in 1 .. k : order[i] # x) => \A i \in 1 .. k - 1 : order[i] # x
    OBVIOUS
  <2>4. QED BY <1>4, <2>1, <2>2, <2>3 DEF EvictionInv
<1>5. CASE ~ acc.freed >= needed
  <2>1. j = k - 1
    BY <1>3, <1>5
  <2>2. /\ Sound(acc.ledger) /\ Used(acc.ledger, t) + acc.freed = Used(s, t)
        /\ \A x \in Blocks : (\A i \in 1 .. k - 1 : order[i] # x) => acc.ledger.tier[x] = s.tier[x]
    BY DEF EvictionInv
  <2>3. /\ Sound(e.ledger) /\ e.ledger.tier[b] \in {0, t + 1}
        /\ Used(e.ledger, t) + e.freed = Used(acc.ledger, t) + acc.freed
        /\ \A x \in Blocks : x # b => e.ledger.tier[x] = acc.ledger.tier[x]
    BY <1>1, <1>2, <1>5, <2>2, EvictStepKeeps
  <2>4. \A i \in 1 .. k : e.ledger.tier[order[i]] \in {0, t + 1}
    <3> SUFFICES ASSUME NEW i \in 1 .. k PROVE e.ledger.tier[order[i]] \in {0, t + 1}
      OBVIOUS
    <3>1. CASE i = k BY <2>3, <3>1
    <3>2. CASE i # k
      <4>1. i \in 1 .. k - 1 /\ order[i] \in Blocks BY <3>2 DEF In
      <4>2. QED BY <1>1, <1>3, <2>1, <2>3, <4>1
    <3>3. QED BY <3>1, <3>2
  <2>5. \A x \in Blocks : (\A i \in 1 .. k : order[i] # x) => e.ledger.tier[x] = s.tier[x]
    BY <2>2, <2>3
  <2>6. \E m \in 0 .. k :
           /\ m < k => e.freed >= needed
           /\ \A i \in 1 .. k : e.ledger.tier[order[i]] \in (IF i <= m THEN {0, t + 1} ELSE {t})
    <3>1. k \in 0 .. k /\ ~ k < k /\ \A i \in 1 .. k : i <= k
      OBVIOUS
    <3>2. QED BY <2>4, <3>1
  <2>7. QED BY <2>2, <2>3, <2>5, <2>6 DEF EvictionInv
<1>6. QED BY <1>4, <1>5

\* What an eviction does: what it says to have freed is free, only blocks of its
\* tier leave, downwards or for good, and none of them outscores one that stays.
EvictedFrom(e, s, t) ==
    /\ Sound(e.ledger) /\ e.freed \in Nat
    /\ Used(e.ledger, t) + e.freed = Used(s, t)
    /\ \A b \in Blocks : /\ s.tier[b] # t => e.ledger.tier[b] = s.tier[b]
                         /\ s.tier[b] = t => e.ledger.tier[b] \in {0, t, t + 1}
    /\ \A a, b \in In(s, t) :
          e.ledger.tier[a] # t /\ e.ledger.tier[b] = t => ~Outscores(a, b)

(* The ranking names every block of the tier, once.                        *)
LEMMA RankingIs ==
    ASSUME NEW S \in SUBSET Blocks, NEW q \in Rankings(S)
    PROVE  /\ Cardinality(S) \in Nat /\ q \in [1 .. Cardinality(S) -> S]
           /\ \A i, j \in 1 .. Cardinality(S) : i # j => q[i] # q[j]
           /\ \A x \in S : \E i \in 1 .. Cardinality(S) : q[i] = x
           /\ \A i, j \in 1 .. Cardinality(S) : i < j => ~Outscores(q[i], q[j])
<1> DEFINE D == 1 .. Cardinality(S)
<1>1. /\ q \in [D -> S] /\ \A i, j \in D : i # j => q[i] # q[j]
      /\ \A i, j \in D : i < j => ~Outscores(q[i], q[j])
  BY DEF Rankings, SetToSeqs
<1>2. IsFiniteSet(S) /\ Cardinality(S) \in Nat
  BY BlocksAssumption, FS_Subset, FS_CardinalityType
<1>3. IsFiniteSet(D) /\ Cardinality(D) = Cardinality(S)
  <2>1. 1 \in Int /\ Cardinality(S) \in Int BY <1>2
  <2>2. QED BY <1>2, <2>1, FS_Interval
<1>4. q \in Injection(D, S)
  BY <1>1 DEF Injection, IsInjective
<1> HIDE DEF D
<1>5. q \in Surjection(D, S)
  BY <1>2, <1>3, <1>4, FS_Injection
<1>6. QED BY <1>1, <1>2, <1>5 DEF Surjection, D

(* What an eviction does to the ledger, whichever order the sort gave.      *)
LEMMA EvictionIs ==
    ASSUME NEW s, Sound(s), NEW t \in Tiers, NEW needed \in Nat,
           NEW e \in Evictions(s, t, needed)
    PROVE  EvictedFrom(e, s, t)
<1> DEFINE n == Cardinality(In(s, t))
<1>1. s \in Ledgers /\ s.members[t] = In(s, t) /\ In(s, t) \in SUBSET Blocks /\ Used(s, t) \in Nat
  BY UsedIsWeight DEF Sound, Consistent
<1>2. PICK q \in Rankings(In(s, t)) : e = EvictUntil(s, t, needed, q)
  BY <1>1 DEF Evictions
<1>3. /\ n \in Nat /\ q \in [1 .. n -> In(s, t)]
      /\ \A i, j \in 1 .. n : i # j => q[i] # q[j]
      /\ \A x \in In(s, t) : \E i \in 1 .. n : q[i] = x
      /\ \A i, j \in 1 .. n : i < j => ~Outscores(q[i], q[j])
  BY <1>1, <1>2, RankingIs
<1> HIDE DEF n
<1>4. q \in [1 .. n -> Blocks]
  BY <1>1, <1>3
<1>5. PICK c \in [0 .. n -> Evicted] : e = c[n] /\ EvictionRun(c, s, t, needed, q, n)
  BY <1>1, <1>2, <1>3, <1>4, EvictRuns
<1>6. EvictionInv(c[0], s, t, needed, q, 0)
  <2>1. c[0] = [freed |-> 0, ledger |-> s]
    BY <1>5 DEF EvictionRun
  <2>2. QED BY <1>1, <2>1 DEF EvictionInv
<1> DEFINE Bad == {k \in 0 .. n : ~EvictionInv(c[k], s, t, needed, q, k)}
<1>7. ASSUME Bad # {} PROVE FALSE
  <2>1. PICK k \in Bad : \A m \in Bad : k <= m
    <3>1. Bad \in SUBSET (0 .. n) OBVIOUS
    <3> HIDE DEF Bad
    <3>2. QED BY <1>3, <1>7, <3>1, LeastNumber
  <2>2. k \in 0 .. n /\ ~EvictionInv(c[k], s, t, needed, q, k)
    OBVIOUS
  <2>3. k \in 1 .. n /\ k - 1 \in 0 .. n
    BY <1>3, <1>6, <2>2
  <2>4. k - 1 \notin Bad
    <3> HIDE DEF Bad
    <3>1. QED BY <2>1, <2>3
  <2>5. EvictionInv(c[k - 1], s, t, needed, q, k - 1)
    BY <2>3, <2>4
  <2>6. c[k] = EvictStep(c[k - 1], q[k], t, needed) /\ c[k - 1] \in Evicted
    BY <1>5, <2>3 DEF EvictionRun
  <2>7. EvictionInv(c[k], s, t, needed, q, k)
    BY <1>3, <2>3, <2>5, <2>6, EvictionInvStep
  <2>8. QED BY <2>2, <2>7
<1>8. EvictionInv(e, s, t, needed, q, n) /\ e \in Evicted
  <2>1. n \in 0 .. n BY <1>3
  <2>2. QED BY <1>5, <1>7, <2>1
<1>9. PICK j \in 0 .. n :
         \A i \in 1 .. n : e.ledger.tier[q[i]] \in (IF i <= j THEN {0, t + 1} ELSE {t})
  BY <1>8 DEF EvictionInv
<1>10. ASSUME NEW a \in In(s, t), NEW b \in In(s, t),
              e.ledger.tier[a] # t, e.ledger.tier[b] = t
       PROVE  ~Outscores(a, b)
  <2>1. PICK i \in 1 .. n : q[i] = a BY <1>3
  <2>2. PICK k \in 1 .. n : q[k] = b BY <1>3
  <2>3. i <= j BY <1>9, <1>10, <2>1
  <2>4. ~ k <= j BY <1>9, <1>10, <2>2 DEF Tiers
  <2>5. i < k BY <1>3, <2>3, <2>4
  <2>6. QED BY <1>3, <2>1, <2>2, <2>5
<1>11. ASSUME NEW b \in Blocks, s.tier[b] # t PROVE e.ledger.tier[b] = s.tier[b]
  <2>1. \A i \in 1 .. n : q[i] # b
    BY <1>3, <1>11 DEF In
  <2>2. QED BY <1>8, <2>1 DEF EvictionInv
<1>12. ASSUME NEW b \in Blocks, s.tier[b] = t PROVE e.ledger.tier[b] \in {0, t, t + 1}
  <2>1. PICK i \in 1 .. n : q[i] = b
    BY <1>3, <1>12 DEF In
  <2>2. QED BY <1>9, <2>1
<1>13. QED BY <1>8, <1>10, <1>11, <1>12 DEF EvictionInv, EvictedFrom, Evicted

------------------------------------------------------------------------------
(* Allocation *)

\* What a try at tier u has done to the other blocks of the ledger s.
Disturbs(o, s, b, u) ==
    /\ \A x \in Blocks \ {b} : /\ s.tier[x] # u => o.ledger.tier[x] = s.tier[x]
                               /\ s.tier[x] = u => o.ledger.tier[x] \in {0, u, u + 1}
    /\ \A x, y \in In(s, u) :
          o.ledger.tier[x] # u /\ o.ledger.tier[y] = u => ~Outscores(x, y)

(* One turn of the loop: what was freed is enough for the block, or it is  *)
(* not placed.                                                             *)
LEMMA TryTierIs ==
    ASSUME NEW s, Sound(s), NEW b \in Blocks, s.tier[b] = 0, NEW u \in Tiers,
           NEW o \in TryTier(s, b, u)
    PROVE  Sound(o.ledger) /\ (o.ok \/ o.ledger.tier[b] = 0) /\ Disturbs(o, s, b, u)
<1> USE DEF Disturbs
<1>1. /\ s \in Ledgers /\ Size[b] \in Nat /\ Capacity[u] \in Nat /\ Used(s, u) \in Nat
      /\ Used(s, u) <= Capacity[u] /\ u # 0 /\ b \notin In(s, u)
  <2>1. Consistent(s) /\ Used(s, u) <= Capacity[u]
    BY DEF Sound
  <2>2. Used(s, u) \in Nat
    BY <2>1, UsedIsWeight
  <2>3. QED BY <2>1, <2>2, BlocksAssumption, CapacityAssumption DEF Consistent, Tiers, In
<1>2. CASE Fits(s, b, u)
  <2>1. o = [ok |-> TRUE, ledger |-> Placed(s, b, u)]
    BY <1>2 DEF TryTier
  <2>2. Sound(Placed(s, b, u))
    BY <1>2, PlacedSound
  <2>3. Placed(s, b, u).tier = [s.tier EXCEPT ![b] = u]
    BY <1>1, PlacedIs
  <2>4. \A x \in Blocks \ {b} : Placed(s, b, u).tier[x] = s.tier[x]
    BY <1>1, <2>3 DEF Ledgers
  <2>5. QED BY <1>1, <2>1, <2>2, <2>4 DEF In
<1>3. CASE ~Fits(s, b, u)
  <2>1. PICK e \in Evictions(s, u, Size[b]) :
           o = [ok |-> Enough(e, b),
                ledger |-> IF Enough(e, b) THEN Placed(e.ledger, b, u) ELSE e.ledger]
    BY <1>3 DEF TryTier
  <2>2. EvictedFrom(e, s, u)
    BY <1>1, <2>1, EvictionIs
  <2>3. Sound(e.ledger) /\ e.ledger.tier[b] = 0 /\ e.ledger \in Ledgers /\ Disturbs(e, s, b, u)
    BY <1>1, <2>2 DEF EvictedFrom, Sound, Consistent
  <2>4. CASE ~Enough(e, b)
    <3>1. o.ledger = e.ledger
      BY <2>1, <2>4
    <3>2. QED BY <2>3, <3>1
  <2>5. CASE Enough(e, b)
    <3>1. o.ledger = Placed(e.ledger, b, u) /\ o.ok
      BY <2>1, <2>5
    <3>2. Fits(e.ledger, b, u)
      <4>1. Used(e.ledger, u) \in Nat
        BY <2>3, UsedIsWeight DEF Sound
      <4>2. QED BY <1>1, <2>2, <2>5, <4>1 DEF Fits, Enough, EvictedFrom
    <3>3. Sound(Placed(e.ledger, b, u))
      BY <2>3, <3>2, PlacedSound
    <3>4. Placed(e.ledger, b, u).tier = [e.ledger.tier EXCEPT ![b] = u]
      BY <2>3, PlacedIs
    <3>5. \A x \in Blocks \ {b} : Placed(e.ledger, b, u).tier[x] = e.ledger.tier[x]
      BY <2>3, <3>4 DEF Ledgers
    <3>6. QED BY <1>1, <2>3, <3>1, <3>3, <3>5 DEF In
  <2>6. QED BY <2>4, <2>5
<1>4. QED BY <1>2, <1>3

\* After the tries up to tier u, from the ledger s: blocks in the tiers below are
\* where they were, others went down or out, the worst of their tier first.
TriedUpTo(o, s, b, u) ==
    /\ Sound(o.ledger) /\ (o.ok \/ o.ledger.tier[b] = 0)
    /\ \A x \in Blocks \ {b} :
          /\ s.tier[x] = 0 \/ s.tier[x] > u => o.ledger.tier[x] = s.tier[x]
          /\ o.ledger.tier[x] = 0 \/ o.ledger.tier[x] >= s.tier[x]
    /\ \A v \in Tiers : \A x, y \in In(s, v) :
          (o.ledger.tier[x] = 0 \/ o.ledger.tier[x] > v) /\ o.ledger.tier[y] = v
              => ~Outscores(x, y)

(* One more tier.                                                          *)
LEMMA TriedOneMore ==
    ASSUME NEW s \in Ledgers, NEW b \in Blocks, s.tier[b] = 0, NEW u \in Tiers,
           NEW p, TriedUpTo(p, s, b, u - 1), NEW o, o \in (IF p.ok THEN {p} ELSE TryTier(p.ledger, b, u))
    PROVE  TriedUpTo(o, s, b, u)
<1>1. s.tier \in [Blocks -> {0, 1, 2, 3}] /\ p.ledger.tier \in [Blocks -> {0, 1, 2, 3}] /\ u \in {1, 2, 3}
  BY DEF TriedUpTo, Sound, Consistent, Ledgers, Tiers
<1>2. CASE p.ok
  <2>1. o = p BY <1>2
  <2>2. \A x \in Blocks : s.tier[x] > u => s.tier[x] > u - 1
    BY <1>1
  <2>3. QED BY <2>1, <2>2 DEF TriedUpTo
<1>3. CASE ~p.ok
  <2>1. o \in TryTier(p.ledger, b, u) /\ Sound(p.ledger) /\ p.ledger.tier[b] = 0
    BY <1>3 DEF TriedUpTo
  <2>2. Sound(o.ledger) /\ (o.ok \/ o.ledger.tier[b] = 0) /\ Disturbs(o, p.ledger, b, u)
    BY <2>1, TryTierIs
  <2>3. o.ledger.tier \in [Blocks -> {0, 1, 2, 3}]
    BY <2>2 DEF Sound, Consistent, Ledgers, Tiers
  <2>4. ASSUME NEW x \in Blocks \ {b}
        PROVE  /\ s.tier[x] = 0 \/ s.tier[x] > u => o.ledger.tier[x] = s.tier[x]
               /\ o.ledger.tier[x] = 0 \/ o.ledger.tier[x] >= s.tier[x]
    BY <1>1, <2>2, <2>3 DEF TriedUpTo, Disturbs
  <2>5. ASSUME NEW v \in Tiers, NEW x \in In(s, v), NEW y \in In(s, v),
               o.ledger.tier[x] = 0 \/ o.ledger.tier[x] > v, o.ledger.tier[y] = v
        PROVE  ~Outscores(x, y)
    <3>1. v \in {1, 2, 3} /\ x \in Blocks \ {b} /\ y \in Blocks \ {b} /\ s.tier[x] = v /\ s.tier[y] = v
      BY DEF In, Tiers
    <3>2. CASE v = u
      <4>1. p.ledger.tier[x] = u /\ p.ledger.tier[y] = u
        BY <1>1, <3>1, <3>2 DEF TriedUpTo
      <4>2. x \in In(p.ledger, u) /\ y \in In(p.ledger, u) /\ o.ledger.tier[x] # u
        BY <1>1, <2>5, <3>1, <3>2, <4>1 DEF In
      <4>3. QED BY <2>2, <2>5, <3>2, <4>2 DEF Disturbs
    <3>3. CASE v # u
      <4>1. p.ledger.tier[y] = v
        BY <1>1, <2>2, <2>5, <3>1, <3>3 DEF TriedUpTo, Disturbs
      <4>2. p.ledger.tier[x] = 0 \/ p.ledger.tier[x] > v
        BY <1>1, <2>2, <2>3, <2>5, <3>1, <3>3 DEF TriedUpTo, Disturbs
      <4>3. QED BY <4>1, <4>2 DEF TriedUpTo
    <3>4. QED BY <3>2, <3>3
  <2>6. QED BY <2>2, <2>4, <2>5 DEF TriedUpTo
<1>4. QED BY <1>2, <1>3

(* All tries, from the tier that is asked for.                             *)
LEMMA AllocationIs ==
    ASSUME NEW s, Sound(s), NEW b \in Blocks, s.tier[b] = 0, NEW t \in Tiers,
           NEW o \in Allocations(s, b, t)
    PROVE  TriedUpTo(o, s, b, 3)
<1> DEFINE Start == {[ok |-> FALSE, ledger |-> s]}
           Try(O, u) == UNION {IF p.ok THEN {p} ELSE TryTier(p.ledger, b, u) : p \in O}
           At(h, u) == IF u = t - 1 THEN Start ELSE Try(h[u - 1], u)
           D == (t - 1) .. 3
           f == CHOOSE h : h = [u \in D |-> At(h, u)]
<1>1. Allocations(s, b, t) = f[3]
  BY Zenon DEF Allocations
<1> HIDE DEF Try, Start
<1>2. \A u \in D : f[u] = At(f, u)
  <2> DEFINE g == [u \in D |-> IF u = t - 1 THEN Start
                               ELSE IF u = t THEN Try(Start, t)
                               ELSE IF u = t + 1 THEN Try(Try(Start, t), t + 1)
                               ELSE Try(Try(Try(Start, t), t + 1), t + 2)]
  <2>1. ASSUME NEW u \in D PROVE g[u] = At(g, u)
    <3>0. t \in {1, 2, 3} BY DEF Tiers
    <3>1. CASE u = t - 1 BY <3>0, <3>1
    <3>2. CASE u = t BY <3>0, <3>2
    <3>3. CASE u = t + 1 BY <3>0, <3>3
    <3>4. CASE u = t + 2 BY <3>0, <3>4
    <3>5. QED BY <3>0, <3>1, <3>2, <3>3, <3>4
  <2>2. g = [u \in D |-> At(g, u)]
    BY <2>1
  <2> HIDE DEF g, At
  <2>3. f = [u \in D |-> At(f, u)]
    BY <2>2
  <2> HIDE DEF f
  <2>4. QED BY <2>3
<1> HIDE DEF f
<1> DEFINE P(u) == \A p \in f[u] : TriedUpTo(p, s, b, u)
<1>3. P(t - 1)
  <2>1. t - 1 \in D /\ t - 1 >= 0 BY DEF Tiers
  <2>2. f[t - 1] = {[ok |-> FALSE, ledger |-> s]}
    BY <1>2, <2>1 DEF Start
  <2>3. s.tier \in [Blocks -> {0, 1, 2, 3}]
    BY DEF Sound, Consistent, Ledgers, Tiers
  <2>4. TriedUpTo([ok |-> FALSE, ledger |-> s], s, b, t - 1)
    BY <2>3 DEF TriedUpTo, In, Tiers
  <2>5. QED BY <2>2, <2>4
<1>4. ASSUME NEW u \in Tiers, u >= t, P(u - 1) PROVE P(u)
  <2>1. f[u] = Try(f[u - 1], u)
    BY <1>2, <1>4 DEF Tiers
  <2>2. ASSUME NEW p \in f[u] PROVE TriedUpTo(p, s, b, u)
    <3>1. PICK q \in f[u - 1] : p \in (IF q.ok THEN {q} ELSE TryTier(q.ledger, b, u))
      BY <2>1 DEF Try
    <3>2. TriedUpTo(q, s, b, u - 1)
      BY <1>4, <3>1
    <3>3. QED BY <3>1, <3>2, TriedOneMore DEF Sound, Consistent
  <2>3. QED BY <2>2
<1> HIDE DEF P
<1>5. P(3)
  <2>1. CASE t = 1
    <3>1. P(1) BY <1>3, <1>4, <2>1 DEF Tiers
    <3>2. P(2) BY <1>4, <2>1, <3>1 DEF Tiers
    <3>3. QED BY <1>4, <2>1, <3>2 DEF Tiers
  <2>2. CASE t = 2
    <3>1. P(2) BY <1>3, <1>4, <2>2 DEF Tiers
    <3>2. QED BY <1>4, <2>2, <3>1 DEF Tiers
  <2>3. CASE t = 3
    <3>1. QED BY <1>3, <1>4, <2>3 DEF Tiers
  <2>4. QED BY <2>1, <2>2, <2>3 DEF Tiers
<1>6. QED BY <1>1, <1>5 DEF P

------------------------------------------------------------------------------
(* The order of the last accesses *)

Orders(F, P) ==
    /\ F \subseteq P \X P
    /\ \A a, b \in P : <<a, b>> \in F <=> a # b /\ <<b, a>> \notin F
    /\ \A a, b, c \in P : {<<a, b>>, <<b, c>>} \subseteq F => <<a, c>> \in F

(* Some of the blocks are forgotten.                                       *)
LEMMA OrdersRestrict ==
    ASSUME NEW F, NEW P, Orders(F, P), NEW Q \in SUBSET P
    PROVE  Orders(F \cap (Q \X Q), Q)
BY DEF Orders

(* A new block is the latest.                                              *)
LEMMA OrdersExtend ==
    ASSUME NEW F, NEW P, Orders(F, P), NEW b, b \notin P
    PROVE  Orders(F \cup ({b} \X P), P \cup {b})
<1> DEFINE G == F \cup ({b} \X P)
<1>1. \A x, y : <<x, y>> \in G <=> <<x, y>> \in F \/ (x = b /\ y \in P)
  OBVIOUS
<1>2. \A x, y : <<x, y>> \in F => x \in P /\ y \in P
  BY DEF Orders
<1>3. G \subseteq (P \cup {b}) \X (P \cup {b})
  BY DEF Orders
<1> HIDE DEF G
<1>4. \A x, y \in P \cup {b} : <<x, y>> \in G <=> x # y /\ <<y, x>> \notin G
  BY <1>1, <1>2 DEF Orders
<1>5. \A x, y, z \in P \cup {b} : <<x, y>> \in G /\ <<y, z>> \in G => <<x, z>> \in G
  BY <1>1, <1>2 DEF Orders
<1>6. QED BY <1>3, <1>4, <1>5 DEF Orders, G

(* And so is one that is accessed.                                         *)
LEMMA OrdersTouch ==
    ASSUME NEW F, NEW P, Orders(F, P), NEW b \in P
    PROVE  Orders((F \ (P \X {b})) \cup ({b} \X (P \ {b})), P)
<1> DEFINE G == (F \ (P \X {b})) \cup ({b} \X (P \ {b}))
<1>1. \A x, y \in P : <<x, y>> \in G <=>
         \/ <<x, y>> \in F /\ y # b
         \/ x = b /\ y # b
  OBVIOUS
<1>2. G \subseteq P \X P
  BY DEF Orders
<1> HIDE DEF G
<1>3. \A x, y \in P : <<x, y>> \in G <=> x # y /\ <<y, x>> \notin G
  BY <1>1 DEF Orders
<1>4. \A x, y, z \in P : <<x, y>> \in G /\ <<y, z>> \in G => <<x, z>> \in G
  BY <1>1 DEF Orders
<1>5. QED BY <1>2, <1>3, <1>4 DEF Orders, G

------------------------------------------------------------------------------
(* The inductive invariant: a sound ledger, uses within the lookups made,  *)
(* and the order of the blocks in it.                                      *)

Counters ==
    /\ uses \in [Blocks -> Nat] /\ hits \in [Tiers -> Nat] /\ misses \in Nat
    /\ Lookups <= MaxLookups
    /\ \A b \in Blocks : uses[b] <= Lookups + 1 /\ (uses[b] > 0 <=> b \in Present)

CacheInv == Sound(ledger) /\ Counters /\ Orders(fresher, Present)

(* No block is allocated.                                                  *)
LEMMA CacheInvInit == CacheInit => CacheInv
<1> SUFFICES ASSUME CacheInit PROVE CacheInv OBVIOUS
<1> DEFINE l == [tier |-> [b \in Blocks |-> 0], members |-> [t \in Tiers |-> {}]]
<1>1. l \in Ledgers /\ Agrees(l) /\ \A t \in Tiers : In(l, t) = {}
  BY DEF Ledgers, Agrees, In, Tiers
<1>2. ledger = l /\ l.tier = [b \in Blocks |-> 0]
  BY DEF CacheInit
<1> HIDE DEF l
<1>3. Sound(l)
  BY <1>1, UsedIsWeight, WeightRecursion, CapacityAssumption DEF Sound, Consistent
<1>4. Present = {}
  BY <1>2 DEF Present, Known
<1>5. Counters
  BY <1>4, LookupsAssumption DEF CacheInit, Counters, Lookups, Tiers
<1>6. Orders(fresher, Present)
  BY <1>4 DEF CacheInit, Orders
<1>7. QED BY <1>2, <1>3, <1>5, <1>6 DEF CacheInv

(* Blocks are moved or dropped, and the metadata of the dropped with them. *)
LEMMA KeepStep ==
    ASSUME CacheInv, NEW s, Sound(s), Known(s) \subseteq Present, Keep(s)
    PROVE  CacheInv'
<1>1. /\ ledger' = s /\ UNCHANGED <<hits, misses>>
      /\ uses' = [b \in Blocks |-> IF s.tier[b] = 0 THEN 0 ELSE uses[b]]
      /\ fresher' = fresher \cap (Known(s) \X Known(s))
  BY DEF Keep
<1>2. Sound(ledger)'
  BY <1>1
<1>3. Present' = Known(s)
  BY <1>1 DEF Present, Known
<1>4. Orders(fresher, Present)'
  <2>1. Orders(fresher', Known(s))
    BY <1>1, OrdersRestrict DEF CacheInv
  <2>2. QED BY <1>3, <2>1 DEF Orders
<1>5. Counters'
  <2>1. Lookups' = Lookups /\ Lookups \in Nat
    BY <1>1 DEF Lookups, CacheInv, Counters, Tiers
  <2>2. ASSUME NEW b \in Blocks
        PROVE  uses'[b] \in Nat /\ uses'[b] <= Lookups + 1 /\ (uses'[b] > 0 <=> b \in Present')
    <3>1. b \in Present' <=> s.tier[b] # 0
      BY <1>3 DEF Known
    <3>2. b \in Present' => b \in Present
      BY <1>3
    <3>3. QED BY <1>1, <2>1, <3>1, <3>2 DEF CacheInv, Counters
  <2>3. QED BY <1>1, <2>1, <2>2 DEF CacheInv, Counters
<1>6. QED BY <1>2, <1>4, <1>5 DEF CacheInv

(* free_block() and its loops.                                             *)
LEMMA FreeStep ==
    ASSUME CacheInv, NEW S \in SUBSET Present, FreeAll(S)
    PROVE  CacheInv'
<1>1. S \in SUBSET Blocks /\ Sound(ledger) /\ ledger \in Ledgers
  BY DEF CacheInv, Present, Known, Sound, Consistent
<1>2. Sound(Freed(ledger, S)) /\ Freed(ledger, S).tier =
         [b \in Blocks |-> IF b \in S THEN 0 ELSE ledger.tier[b]]
  BY <1>1, FreedSound, FreedIs
<1>3. Known(Freed(ledger, S)) \subseteq Present
  BY <1>2 DEF Present, Known
<1>4. QED BY <1>2, <1>3, KeepStep DEF FreeAll

(* access_block().                                                         *)
LEMMA AccessStep ==
    ASSUME CacheInv, NEW b \in Blocks, Access(b)
    PROVE  CacheInv'
<1>1. Lookups < MaxLookups /\ ledger' = ledger /\ Present' = Present /\ MaxLookups \in Nat
  BY LookupsAssumption DEF Access, Present, Known
<1>2. Sound(ledger')
  BY <1>1 DEF CacheInv
<1>3. /\ uses \in [Blocks -> Nat] /\ hits \in [Tiers -> Nat] /\ misses \in Nat
      /\ \A x \in Blocks : uses[x] <= Lookups + 1 /\ (uses[x] > 0 <=> x \in Present)
      /\ hits[1] \in Nat /\ hits[2] \in Nat /\ hits[3] \in Nat /\ Lookups \in Nat
  BY DEF CacheInv, Counters, Lookups, Tiers
<1>4. CASE b \in Present
  <2>1. /\ uses' = [uses EXCEPT ![b] = @ + 1] /\ misses' = misses
        /\ fresher' = (fresher \ (Present \X {b})) \cup ({b} \X (Present \ {b}))
        /\ hits' = [hits EXCEPT ![ledger.tier[b]] = @ + 1]
    BY <1>4 DEF Access
  <2>2. ledger.tier[b] \in {1, 2, 3}
    BY <1>4 DEF CacheInv, Sound, Consistent, Ledgers, Tiers, Present, Known
  <2>3. hits' \in [Tiers -> Nat]
    BY <1>3, <2>1, <2>2 DEF Tiers
  <2>4. Lookups' = Lookups + 1
    BY <1>3, <2>1, <2>2 DEF Lookups, Tiers
  <2>5. Counters'
    <3>1. ASSUME NEW x \in Blocks
          PROVE  uses'[x] \in Nat /\ uses'[x] <= Lookups + 2 /\ (uses'[x] > 0 <=> x \in Present)
      BY <1>3, <1>4, <2>1
    <3>2. uses' \in [Blocks -> Nat]
      BY <1>3, <2>1
    <3>3. QED BY <1>1, <1>3, <2>1, <2>3, <2>4, <3>1, <3>2 DEF Counters
  <2>6. Orders(fresher', Present)
    BY <1>4, <2>1, OrdersTouch DEF CacheInv
  <2>7. QED BY <1>1, <1>2, <2>5, <2>6 DEF CacheInv
<1>5. CASE b \notin Present
  <2>1. misses' = misses + 1 /\ uses' = uses /\ fresher' = fresher /\ hits' = hits
    BY <1>5 DEF Access
  <2>2. Lookups' = Lookups + 1
    BY <1>3, <2>1 DEF Lookups
  <2>3. Counters'
    BY <1>1, <1>3, <2>1, <2>2 DEF Counters
  <2>4. QED BY <1>1, <1>2, <2>1, <2>3 DEF CacheInv
<1>6. QED BY <1>4, <1>5

(* allocate_block().                                                       *)
LEMMA AllocateStep ==
    ASSUME CacheInv, NEW b \in Blocks, NEW t \in Tiers, Allocate(b, t)
    PROVE  /\ CacheInv'
           /\ \A v \in Tiers : \A x, y \in Blocks :
                 Pushed(x, v) /\ Stayed(y, v) => ~Outscores(x, y)
<1>1. PICK o \in Allocations(ledger, b, t) :
         /\ ledger' = o.ledger
         /\ uses' = [x \in Blocks |-> IF o.ledger.tier[x] = 0 THEN 0
                                      ELSE IF x = b THEN 1 ELSE uses[x]]
         /\ fresher' = (fresher \cup ({b} \X Present)) \cap (Known(o.ledger) \X Known(o.ledger))
  BY DEF Allocate
<1>2. ledger.tier[b] = 0 /\ UNCHANGED <<hits, misses>>
  BY DEF Allocate
<1>3. TriedUpTo(o, ledger, b, 3)
  BY <1>1, <1>2, AllocationIs DEF CacheInv
<1>4. Sound(ledger')
  BY <1>1, <1>3 DEF TriedUpTo
<1>5. Known(o.ledger) \subseteq Present \cup {b} /\ b \notin Present
  BY <1>2, <1>3 DEF TriedUpTo, Known, Present
<1>6. Present' = Known(o.ledger)
  BY <1>1 DEF Present, Known
<1>7. Orders(fresher', Present')
  <2>1. Orders(fresher \cup ({b} \X Present), Present \cup {b})
    BY <1>5, OrdersExtend DEF CacheInv
  <2>2. QED BY <1>1, <1>5, <1>6, <2>1, OrdersRestrict
<1>8. Counters'
  <2>1. Lookups' = Lookups /\ Lookups \in Nat
    BY <1>2 DEF Lookups, CacheInv, Counters, Tiers
  <2>2. ASSUME NEW x \in Blocks
        PROVE  uses'[x] \in Nat /\ uses'[x] <= Lookups + 1 /\ (uses'[x] > 0 <=> x \in Present')
    <3>1. x \in Present' <=> o.ledger.tier[x] # 0
      BY <1>6 DEF Known
    <3>2. x \in Present' => x \in Present \/ x = b
      BY <1>5, <1>6
    <3>3. QED BY <1>1, <2>1, <3>1, <3>2 DEF CacheInv, Counters
  <2>3. uses' \in [Blocks -> Nat]
    BY <1>1, <2>2
  <2>4. QED BY <1>2, <2>1, <2>2, <2>3 DEF CacheInv, Counters
<1>9. \A v \in Tiers : \A x, y \in Blocks : Pushed(x, v) /\ Stayed(y, v) => ~Outscores(x, y)
  BY <1>1, <1>3 DEF TriedUpTo, Pushed, Stayed, In
<1>10. QED BY <1>4, <1>7, <1>8, <1>9 DEF CacheInv

(* promote_block(), which evicts first if it must.                         *)
LEMMA PromoteStep ==
    ASSUME CacheInv, NEW b \in Blocks, NEW t \in Tiers, Promote(b, t)
    PROVE  /\ CacheInv'
           /\ \A v \in Tiers : \A x, y \in Blocks :
                 Pushed(x, v) /\ Stayed(y, v) => ~Outscores(x, y)
<1>1. Sound(ledger) /\ ledger \in Ledgers /\ b \in Present /\ t < ledger.tier[b]
      /\ ledger.tier \in [Blocks -> {0, 1, 2, 3}] /\ t \in {1, 2, 3}
  BY DEF Promote, CacheInv, Sound, Consistent, Ledgers, Tiers
<1>2. PICK s : /\ Sound(s) /\ Known(s) \subseteq Present
               /\ \A v \in Tiers : \A x, y \in In(ledger, v) :
                     s.tier[x] # v /\ s.tier[y] = v => ~Outscores(x, y)
               /\ Keep(IF Fits(s, b, t) THEN Moved(s, b, t) ELSE s)
  <2>1. CASE Fits(ledger, b, t)
    <3>1. Keep(Moved(ledger, b, t))
      BY <2>1 DEF Promote
    <3>2. QED BY <1>1, <2>1, <3>1 DEF Present, In
  <2>2. CASE ~Fits(ledger, b, t)
    <3>1. PICK e \in Evictions(ledger, t, Size[b]) :
             Keep(IF Fits(e.ledger, b, t) THEN Moved(e.ledger, b, t) ELSE e.ledger)
      BY <2>2 DEF Promote
    <3>2. EvictedFrom(e, ledger, t)
      <4>1. Size[b] \in Nat BY BlocksAssumption
      <4>2. QED BY <1>1, <3>1, <4>1, EvictionIs
    <3>3. Known(e.ledger) \subseteq Present
      BY <1>1, <3>2 DEF EvictedFrom, Known, Present
    <3>4. ASSUME NEW v \in Tiers, NEW x \in In(ledger, v), NEW y \in In(ledger, v),
                 e.ledger.tier[x] # v, e.ledger.tier[y] = v
          PROVE  ~Outscores(x, y)
      <4>1. v = t
        BY <3>2, <3>4 DEF EvictedFrom, In
      <4>2. QED BY <3>2, <3>4, <4>1 DEF EvictedFrom
    <3>5. Sound(e.ledger)
      BY <3>2 DEF EvictedFrom
    <3>6. QED BY <3>1, <3>3, <3>4, <3>5
  <2>3. QED BY <2>1, <2>2
<1> DEFINE l == IF Fits(s, b, t) THEN Moved(s, b, t) ELSE s
<1>3. Sound(l)
  BY <1>2, MovedSound
<1>4. \A x \in Blocks : l.tier[x] = s.tier[x] \/ (x = b /\ l.tier[x] = t)
  <2>1. s \in Ledgers /\ s.tier \in [Blocks -> {0} \cup Tiers]
    BY <1>2 DEF Sound, Consistent, Ledgers
  <2>2. Moved(s, b, t).tier = [s.tier EXCEPT ![b] = t]
    BY <2>1, MovedIs
  <2>3. QED BY <2>1, <2>2
<1>5. Keep(l) BY <1>2
<1> HIDE DEF l
<1>6. Known(l) \subseteq Present
  BY <1>1, <1>2, <1>4 DEF Known, Present
<1>7. CacheInv'
  BY <1>3, <1>5, <1>6, KeepStep
<1>8. ASSUME NEW v \in Tiers, NEW x \in Blocks, NEW y \in Blocks, Pushed(x, v), Stayed(y, v)
      PROVE  ~Outscores(x, y)
  <2>1. /\ ledger' = l /\ ledger.tier[x] = v /\ ledger.tier[y] = v /\ l.tier[y] = v
        /\ l.tier[x] = 0 \/ l.tier[x] > v
    BY <1>5, <1>8 DEF Keep, Pushed, Stayed
  <2>2. s.tier[x] # v
    BY <1>1, <1>4, <2>1 DEF Tiers
  <2>3. s.tier[y] = v
    BY <1>1, <1>4, <2>1
  <2>4. QED BY <1>2, <2>1, <2>2, <2>3 DEF In
<1>9. QED BY <1>7, <1>8

(* demote_block().                                                         *)
LEMMA DemoteStep ==
    ASSUME CacheInv, NEW b \in Blocks, NEW t \in Tiers, Demote(b, t)
    PROVE  CacheInv'
<1>1. Sound(ledger) /\ ledger \in Ledgers /\ b \in Present /\ Fits(ledger, b, t)
      /\ Keep(Moved(ledger, b, t))
  BY DEF Demote, CacheInv, Sound, Consistent
<1>2. Sound(Moved(ledger, b, t)) /\ Moved(ledger, b, t).tier = [ledger.tier EXCEPT ![b] = t]
  BY <1>1, MovedSound, MovedIs
<1>3. Known(Moved(ledger, b, t)) \subseteq Present
  BY <1>1, <1>2 DEF Known, Present, Ledgers
<1>4. QED BY <1>1, <1>2, <1>3, KeepStep

(* Every call keeps the ledger sound.                                      *)
LEMMA CacheInvStep == CacheInv /\ [CacheNext]_cacheVars => CacheInv'
<1> SUFFICES ASSUME CacheInv, [CacheNext]_cacheVars PROVE CacheInv' OBVIOUS
<1>1. ASSUME NEW b \in Blocks, Access(b) \/ Free(b) PROVE CacheInv'
  BY <1>1, AccessStep, FreeStep DEF Free
<1>2. ASSUME NEW b \in Blocks, NEW t \in Tiers, Allocate(b, t) \/ Promote(b, t) \/ Demote(b, t)
      PROVE  CacheInv'
  BY <1>2, AllocateStep, PromoteStep, DemoteStep
<1>3. ASSUME NEW b \in Blocks, FreeForRequest(RequestOf[b]) \/ FreeForModel(ModelOf[b])
      PROVE  CacheInv'
  BY <1>3, FreeStep DEF FreeForRequest, FreeForModel
<1>4. CASE UNCHANGED cacheVars
  <2>1. ledger' = ledger /\ Present' = Present /\ Lookups' = Lookups
        /\ UNCHANGED <<uses, fresher, hits, misses>>
    BY <1>4 DEF cacheVars, Present, Known, Lookups
  <2>2. Sound(ledger') /\ Orders(fresher', Present') /\ Counters'
    BY <2>1 DEF CacheInv, Counters
  <2>3. QED BY <2>2 DEF CacheInv
<1>5. QED BY <1>1, <1>2, <1>3, <1>4 DEF CacheNext

(* The inductive invariant holds for good.                                 *)
LEMMA CacheInvHolds == CacheSpec => []CacheInv
BY CacheInvInit, CacheInvStep, PTL DEF CacheSpec

\* The two indexes of the ledger, _blocks and _tier_blocks, agree after every
\* call, whatever it evicted on its way.
THEOREM LedgerAgreesHolds == CacheSpec => []LedgerAgrees
<1>1. CacheInv => LedgerAgrees
  <2> SUFFICES ASSUME CacheInv PROVE LedgerAgrees OBVIOUS
  <2>1. ledger.tier \in [Blocks -> {0} \cup Tiers] /\ ledger.members \in [Tiers -> SUBSET Blocks]
        /\ \A b \in Blocks, t \in Tiers : b \in ledger.members[t] <=> ledger.tier[b] = t
    BY DEF CacheInv, Sound, Consistent, Ledgers, Agrees
  <2>2. hits[1] \in Nat /\ hits[2] \in Nat /\ hits[3] \in Nat /\ misses \in Nat
        /\ Lookups \in 0 .. MaxLookups
    BY LookupsAssumption DEF CacheInv, Counters, Lookups, Tiers
  <2>3. hits \in [Tiers -> 0 .. MaxLookups] /\ misses \in 0 .. MaxLookups
    BY <2>2, LookupsAssumption DEF CacheInv, Counters, Lookups, Tiers
  <2>4. uses \in [Blocks -> 0 .. MaxLookups + 1]
    BY <2>2, LookupsAssumption DEF CacheInv, Counters
  <2>5. Present = {b \in Blocks : uses[b] > 0}
    BY DEF CacheInv, Counters, Present, Known
  <2>6. QED BY <2>1, <2>3, <2>4, <2>5 DEF LedgerAgrees, CacheTypeOK, CacheInv, Orders
<1>2. QED BY <1>1, CacheInvHolds, PTL

\* No tier holds more than its capacity after any call: what _evict_from_tier()
\* says it freed is free when the block is placed.
THEOREM CapacityHolds == CacheSpec => []CapacityRespected
<1>1. CacheInv => CapacityRespected
  BY DEF CacheInv, Sound, CapacityRespected
<1>2. QED BY <1>1, CacheInvHolds, PTL

\* An allocation or a promotion never pushes a block out of a tier, through any
\* cascade, and leaves there one whose reuse_score() is lower whatever the clock
\* says (Outscores), for any weights and however the sorts order the rest.
THEOREM TheBestAreKept == CacheSpec => EvictionKeepsTheBest
<1>1. CacheInv /\ [CacheNext]_cacheVars =>
         [(\E x \in Blocks, t \in Tiers : Allocate(x, t) \/ Promote(x, t)) =>
             \A t \in Tiers, a, b \in Blocks :
                Pushed(a, t) /\ Stayed(b, t) => ~Outscores(a, b)]_cacheVars
  BY AllocateStep, PromoteStep
<1>2. QED BY <1>1, CacheInvHolds, PTL DEF CacheSpec, EvictionKeepsTheBest
==============================================================================
