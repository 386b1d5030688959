--------------------------- MODULE TelemetryProofs ---------------------------
(***************************************************************************)
(* Theorems about telemetry, for every number of invocations, every limit  *)
(* and retention: consent and opt-out however the invocations interleave   *)
(* on the config file, and the daily limit however the events interleave   *)
(* on their counter.                                                       *)
(***************************************************************************)
EXTENDS Telemetry, FiniteSetTheorems, TLAPS

(* The client *)

\* An invocation that acts on its record, or has.
Acts(i) == pc[i] \in Saving \cup {"decided"} \/ i \in posted

\* What is enabled was consented to, in the file and in every record.
ConsentInv ==
    /\ file \in Records /\ file.enabled => file.id \in consented
    /\ \A i \in Invocations :
          Acts(i) => cfg[i] \in Records /\ (cfg[i].enabled => cfg[i].id \in consented)
    /\ \A i \in posted : pc[i] = "done" /\ cfg[i].enabled

\* From an undisturbed `telemetry off` to the next yes, neither the file nor a
\* record on its way to it is enabled.
OptOutInv ==
    /\ \A i \in Invocations :
          pc[i] \in {"turning_off", "truncated_off"} => ~cfg[i].enabled
    /\ optedOut => /\ file \in Records => ~file.enabled
                   /\ \A i \in Invocations : pc[i] \in Saving => ~cfg[i].enabled

\* So what began since then and is enabled has said yes itself.
AfterInv ==
    \A i \in afterOptOut :
        /\ pc[i] # "new"
        /\ pc[i] \in {"saving", "truncated", "decided"} \/ i \in posted =>
              (cfg[i].enabled => cfg[i].id = i)

ClientInv == ClientTypeOK /\ ConsentInv /\ OptOutInv /\ AfterInv

(* Nothing has run, and there is no file.                                  *)
LEMMA InitClient == ClientInit => ClientInv
<1> SUFFICES ASSUME ClientInit PROVE ClientInv
  OBVIOUS
<1>1. optedOut \in BOOLEAN
  BY Zenon DEF ClientInit
<1>2. ClientTypeOK
  BY <1>1 DEF ClientInit, ClientTypeOK
<1>3. QED
  BY <1>2, NamesAssumption
     DEF ClientInit, ClientInv, ConsentInv, OptOutInv, AfterInv, Acts, Saving, ToSave, Truncated

(* A run of a command that is not telemetry, up to its decision.           *)
LEMMA BeginStep ==
    ASSUME ClientInv, NEW i \in Invocations,
           BeginIgnored(i) \/ BeginConfigured(i) \/ BeginPrompt(i) \/ BeginUnattended(i)
    PROVE  ClientInv'
<1> USE NamesAssumption
    DEF ClientInv, ClientTypeOK, ConsentInv, OptOutInv, AfterInv, Acts,
        Saving, ToSave, Truncated, Records, Begins, Goto, Decide, SaysNothing
<1>1. CASE BeginIgnored(i) BY <1>1 DEF BeginIgnored
<1>2. CASE BeginConfigured(i) BY <1>2 DEF BeginConfigured, Configured
<1>3. CASE BeginPrompt(i) BY <1>3 DEF BeginPrompt
<1>4. CASE BeginUnattended(i) BY <1>4 DEF BeginUnattended
<1>5. QED BY <1>1, <1>2, <1>3, <1>4

(* What the user says: at the prompt, or with telemetry on or off.         *)
LEMMA SayStep ==
    ASSUME ClientInv, NEW i \in Invocations, NEW b \in BOOLEAN, Answer(i, b) \/ Command(i, b)
    PROVE  ClientInv'
<1> USE NamesAssumption
    DEF ClientInv, ClientTypeOK, ConsentInv, OptOutInv, AfterInv, Acts,
        Saving, ToSave, Truncated, Records, Begins, Goto, Decide, SaysNothing, SaysYes
<1>1. ASSUME Answer(i, b) PROVE ClientInv'
  <2>1. CASE b = TRUE
    <3>1. /\ pc[i] = "prompting" /\ Decide(i, TRUE, i) /\ SaysYes(i) /\ Goto(i, "saving")
          /\ UNCHANGED <<file, posted, afterOptOut>>
      BY <1>1, <2>1 DEF Answer
    <3>2. optedOut' = FALSE /\ optedOut' \in BOOLEAN
      BY <3>1, Zenon DEF SaysYes
    <3>3. ClientTypeOK'
      BY <3>1, <3>2
    <3>4. ConsentInv' /\ OptOutInv' /\ AfterInv'
      BY <3>1, <3>2
    <3>5. QED BY <3>3, <3>4
  <2>2. CASE b = FALSE BY <1>1, <2>2 DEF Answer
  <2>3. QED BY <2>1, <2>2
<1>2. ASSUME Command(i, b) PROVE ClientInv'
  <2> DEFINE id == IF Configured THEN file.id ELSE i
  <2>1. id \in Invocations
    BY DEF Configured
  <2> HIDE DEF id
  <2>2. CASE b = TRUE
    <3>1. /\ Begins(i) /\ Decide(i, TRUE, id) /\ SaysYes(id) /\ Goto(i, "turning_on")
          /\ UNCHANGED <<file, posted>>
      BY <1>2, <2>2 DEF Command, id
    <3>2. optedOut' = FALSE /\ optedOut' \in BOOLEAN
      BY <3>1, Zenon DEF SaysYes
    <3>3. ClientTypeOK'
      BY <2>1, <3>1, <3>2
    <3>4. ConsentInv' /\ OptOutInv' /\ AfterInv'
      BY <2>1, <3>1, <3>2
    <3>5. QED BY <3>3, <3>4
  <2>3. CASE b = FALSE
    <3>1. /\ Begins(i) /\ Decide(i, FALSE, id) /\ SaysNothing /\ Goto(i, "turning_off")
          /\ UNCHANGED <<file, posted>>
      BY <1>2, <2>3 DEF Command, id
    <3>2. QED BY <2>1, <3>1
  <2>4. QED BY <2>2, <2>3
<1>3. QED BY <1>1, <1>2

(* A save, with others on the same file before, during and after it.       *)
LEMMA SaveStep ==
    ASSUME ClientInv, NEW i \in Invocations,
           Open(i) \/ Write(i) \/ SaveFails(i) \/ Killed(i)
    PROVE  ClientInv'
<1> USE NamesAssumption
    DEF ClientInv, ClientTypeOK, ConsentInv, OptOutInv, AfterInv, Acts,
        Saving, ToSave, Truncated, Records, Goto, Saved, SaysNothing
<1>1. CASE Open(i) BY <1>1 DEF Open
<1>2. CASE Write(i) BY <1>2 DEF Write, Configured
<1>3. CASE SaveFails(i) BY <1>3 DEF SaveFails
<1>4. CASE Killed(i) BY <1>4 DEF Killed
<1>5. QED BY <1>1, <1>2, <1>3, <1>4

(* The thread sends what the record of its invocation allows, or nothing.  *)
LEMMA SendStep ==
    ASSUME ClientInv, NEW i \in Invocations, Send(i) \/ StaySilent(i)
    PROVE  ClientInv'
<1> USE NamesAssumption
    DEF ClientInv, ClientTypeOK, ConsentInv, OptOutInv, AfterInv, Acts,
        Saving, ToSave, Truncated, Records, Goto, SaysNothing
<1>1. CASE Send(i) BY <1>1 DEF Send
<1>2. CASE StaySilent(i) BY <1>2 DEF StaySilent
<1>3. QED BY <1>1, <1>2

(* Whatever invocation makes the step.                                     *)
LEMMA ClientStep == ClientInv /\ (ClientNext \/ UNCHANGED clientVars) => ClientInv'
<1> SUFFICES ASSUME ClientInv, ClientNext \/ UNCHANGED clientVars PROVE ClientInv'
  OBVIOUS
<1>1. CASE ClientNext
  BY <1>1, BeginStep, SayStep, SaveStep, SendStep DEF ClientNext
<1>2. CASE UNCHANGED clientVars
  BY <1>2 DEF clientVars, ClientInv, ClientTypeOK, ConsentInv, OptOutInv, AfterInv, Acts
<1>3. QED BY <1>1, <1>2

------------------------------------------------------------------------------
(* The receiver *)

\* How many events of an install id were counted.
Count(id) == Cardinality(AdmittedOf(id))

\* A counter, or a count read from it and not yet put back, is never more than
\* the events that were counted.
CounterInv ==
    /\ DOMAIN counter = Invocations
    /\ \A id \in Invocations : counter[id] <= Count(id)
    /\ \A e \in Events : request[e] \in {"limiting", "counted"} => installId[e] \in Invocations
    /\ \A e \in Events : request[e] = "counted" => seen[e] <= Count(installId[e])

WorkerInv == WorkerTypeOK /\ CounterInv
              /\ installId \in [Events -> Invocations \cup {None}]

(* The counted events are finitely many.                                   *)
LEMMA CountType == \A id : IsFiniteSet(AdmittedOf(id)) /\ Count(id) \in Nat
<1> SUFFICES ASSUME NEW id PROVE IsFiniteSet(AdmittedOf(id)) /\ Count(id) \in Nat
  OBVIOUS
<1>1. AdmittedOf(id) \in SUBSET Events
  BY DEF AdmittedOf, Admitted
<1>2. QED BY <1>1, WorkerAssumption, FS_Subset, FS_CardinalityType DEF Count

(* Nothing is counted, and no counter above zero.                          *)
LEMMA InitWorker == WorkerInit(Invocations, None) => WorkerInv
<1> SUFFICES ASSUME WorkerInit(Invocations, None) PROVE WorkerInv
  OBVIOUS
<1> USE WorkerAssumption DEF WorkerInit
<1>1. WorkerTypeOK
  BY DEF WorkerTypeOK, NoRow
<1>2. CounterInv
  BY CountType DEF CounterInv
<1>3. QED BY <1>1, <1>2 DEF WorkerInv

(* Steps that count no event: no counter grows, and what is read is what   *)
(* the counter holds.                                                      *)
LEMMA CountsKept ==
    ASSUME WorkerInv, WorkerTypeOK', Admitted' = Admitted,
           installId' \in [Events -> Invocations \cup {None}],
           \A f \in Admitted : installId'[f] = installId[f],
           DOMAIN counter' = Invocations,
           \A id \in Invocations : counter'[id] = counter[id] \/ counter'[id] = 0,
           \A e \in Events :
              /\ request'[e] \in {"limiting", "counted"} => installId'[e] \in Invocations
              /\ request'[e] = "counted" =>
                    \/ request[e] = "counted" /\ seen'[e] = seen[e] /\ installId'[e] = installId[e]
                    \/ seen'[e] = counter[installId'[e]]
    PROVE  WorkerInv'
<1> DEFINE CountNext(id) == Cardinality({f \in Admitted' : installId'[f] = id})
<1>1. \A id : CountNext(id) = Count(id)
  <2> SUFFICES ASSUME NEW id PROVE {f \in Admitted' : installId'[f] = id} = AdmittedOf(id)
    BY DEF Count
  <2>1. QED BY DEF AdmittedOf
<1>2. \A id : Count(id) \in Nat
  BY CountType
<1>3. \A id \in Invocations : counter[id] \in Nat /\ counter[id] <= Count(id)
  BY WorkerAssumption DEF WorkerInv, WorkerTypeOK, CounterInv
<1>4. ASSUME NEW id \in Invocations PROVE counter'[id] <= CountNext(id)
  <2>1. counter'[id] <= Count(id)
    BY <1>2, <1>3
  <2>2. QED BY <1>1, <2>1
<1>5. ASSUME NEW e \in Events, request'[e] = "counted" PROVE seen'[e] <= CountNext(installId'[e])
  <2>1. seen'[e] <= Count(installId'[e])
    BY <1>3, <1>5 DEF WorkerInv, CounterInv
  <2>2. QED BY <1>1, <2>1
<1>6. CounterInv'
  BY <1>4, <1>5 DEF CounterInv, Count, AdmittedOf
<1>7. QED BY <1>6 DEF WorkerInv

(* An event that is received, lost, dropped or read: none is counted.      *)
LEMMA ArriveStep ==
    ASSUME WorkerInv, NEW e \in Events, NEW id \in Invocations,
           Receive(e, id) \/ Lose(e) \/ Drop(e) \/ Get(e) \/ StoreFails(e)
    PROVE  WorkerInv'
<1> USE WorkerAssumption DEF WorkerInv, WorkerTypeOK, CounterInv, At, Admitted
<1>1. CASE Receive(e, id)
  <2>1. WorkerTypeOK' BY <1>1 DEF Receive
  <2>2. QED BY <1>1, <2>1, CountsKept DEF Receive
<1>2. CASE Lose(e)
  <2>1. WorkerTypeOK' BY <1>2 DEF Lose
  <2>2. QED BY <1>2, <2>1, CountsKept DEF Lose
<1>3. CASE Drop(e)
  <2>1. WorkerTypeOK' BY <1>3 DEF Drop
  <2>2. QED BY <1>3, <2>1, CountsKept DEF Drop
<1>4. CASE Get(e)
  <2>1. /\ installId[e] \in Invocations /\ counter[installId[e]] \in 0..Limit - 1
        /\ seen' = [seen EXCEPT ![e] = counter[installId[e]]]
    BY <1>4 DEF Get, OverLimit, Key
  <2>2. WorkerTypeOK' BY <1>4, <2>1 DEF Get
  <2>3. QED BY <1>4, <2>1, <2>2, CountsKept DEF Get
<1>5. CASE StoreFails(e)
  <2>1. WorkerTypeOK' BY <1>5 DEF StoreFails
  <2>2. QED BY <1>5, <2>1, CountsKept DEF StoreFails
<1>6. QED BY <1>1, <1>2, <1>3, <1>4, <1>5

(* A counted event on its way to the database; a day's end; a sweep.       *)
LEMMA StoreStep ==
    ASSUME WorkerInv,
           \/ \E e \in Events : Insert(e) \/ InsertFails(e)
           \/ Midnight \/ Sweep \/ \E id \in DOMAIN counter : Expire(id)
           \/ UNCHANGED workerVars
    PROVE  WorkerInv'
<1> USE WorkerAssumption DEF WorkerInv, WorkerTypeOK, CounterInv, At, Admitted, NoRow
<1>1. CASE \E e \in Events : Insert(e)
  <2>1. WorkerTypeOK' BY <1>1 DEF Insert
  <2>2. QED BY <1>1, <2>1, CountsKept DEF Insert
<1>2. CASE \E e \in Events : InsertFails(e)
  <2>1. WorkerTypeOK' BY <1>2 DEF InsertFails
  <2>2. QED BY <1>2, <2>1, CountsKept DEF InsertFails
<1>3. CASE Midnight
  <2>1. WorkerTypeOK' BY <1>3 DEF Midnight
  <2>2. QED BY <1>3, <2>1, CountsKept DEF Midnight
<1>4. CASE Sweep
  <2>1. WorkerTypeOK' BY <1>4 DEF Sweep
  <2>2. QED BY <1>4, <2>1, CountsKept DEF Sweep
<1>5. CASE \E id \in DOMAIN counter : Expire(id)
  <2>1. WorkerTypeOK' BY <1>5 DEF Expire
  <2>2. QED BY <1>5, <2>1, CountsKept DEF Expire
<1>6. CASE UNCHANGED workerVars
  <2>1. WorkerTypeOK' BY <1>6 DEF workerVars
  <2>2. QED BY <1>6, <2>1, CountsKept DEF workerVars
<1>7. QED BY <1>1, <1>2, <1>3, <1>4, <1>5, <1>6

(* The put of an event: its counter becomes what the event had read plus   *)
(* one, which other puts may have passed meanwhile, and the event itself   *)
(* makes the counted events one more.                                      *)
LEMMA PutStep == ASSUME WorkerInv, NEW e \in Events, Put(e) PROVE WorkerInv'
<1> DEFINE CountNext(id) == Cardinality({f \in Admitted' : installId'[f] = id})
<1> USE WorkerAssumption
<1>1. /\ request[e] = "counted" /\ request' = [request EXCEPT ![e] = "inserting"]
      /\ counter' = [counter EXCEPT ![installId[e]] = seen[e] + 1]
      /\ dayOld' = dayOld \ {installId[e]} /\ putAge' = [putAge EXCEPT ![e] = 0]
      /\ UNCHANGED <<installId, seen, age>>
  BY DEF Put, At, Key
<1>2. /\ installId[e] \in Invocations /\ DOMAIN counter = Invocations
      /\ seen[e] \in 0..Limit - 1 /\ seen[e] <= Count(installId[e])
  BY <1>1 DEF WorkerInv, CounterInv, WorkerTypeOK
<1>3. WorkerTypeOK'
  BY <1>1, <1>2 DEF WorkerInv, WorkerTypeOK
<1>4. Admitted' = Admitted \cup {e} /\ e \notin Admitted
  BY <1>1 DEF Admitted, WorkerInv, WorkerTypeOK
<1>5. CountNext(installId[e]) = Count(installId[e]) + 1
  <2>1. {f \in Admitted' : installId'[f] = installId[e]} = AdmittedOf(installId[e]) \cup {e}
    BY <1>1, <1>4 DEF AdmittedOf
  <2>2. e \notin AdmittedOf(installId[e])
    BY <1>4 DEF AdmittedOf
  <2>3. QED BY <2>1, <2>2, CountType, FS_AddElement DEF Count
<1>6. ASSUME NEW id, id # installId[e] PROVE CountNext(id) = Count(id)
  <2>1. {f \in Admitted' : installId'[f] = id} = AdmittedOf(id)
    BY <1>1, <1>4, <1>6 DEF AdmittedOf
  <2>2. QED BY <2>1 DEF Count
<1> HIDE DEF CountNext
<1>7. ASSUME NEW id
      PROVE  Count(id) \in Nat /\ CountNext(id) \in Nat /\ Count(id) <= CountNext(id)
  <2>1. Count(id) \in Nat /\ Count(installId[e]) \in Nat
    BY CountType
  <2>2. CASE id = installId[e] BY <1>5, <2>1, <2>2
  <2>3. CASE id # installId[e] BY <1>6, <2>1, <2>3
  <2>4. QED BY <2>2, <2>3
<1>8. \A id \in Invocations : counter'[id] <= CountNext(id)
  <2>1. \A id \in Invocations : counter[id] <= CountNext(id)
    BY <1>2, <1>7 DEF WorkerInv, CounterInv, WorkerTypeOK
  <2>2. QED BY <1>1, <1>2, <1>5, <1>7, <2>1
<1>9. ASSUME NEW f \in Events, request'[f] = "counted"
      PROVE  seen'[f] <= CountNext(installId'[f])
  <2>1. seen[f] <= Count(installId[f]) /\ seen[f] \in Int
    BY <1>1, <1>9 DEF WorkerInv, CounterInv, WorkerTypeOK
  <2>2. QED BY <1>1, <1>7, <2>1
<1>10. \A f \in Events : request'[f] \in {"limiting", "counted"} => installId'[f] \in Invocations
  BY <1>1 DEF WorkerInv, CounterInv, WorkerTypeOK
<1>11. CounterInv'
  BY <1>1, <1>2, <1>8, <1>9, <1>10 DEF CounterInv, Count, AdmittedOf, CountNext
<1>12. QED BY <1>1, <1>3, <1>11 DEF WorkerInv

(* The receiver gets an event with an id of the client's: the record of an *)
(* invocation that posted has one.                                         *)
LEMMA WorkerStep == WorkerInv /\ ClientInv /\ (WorkerNext(Sent) \/ UNCHANGED workerVars) => WorkerInv'
<1> SUFFICES ASSUME WorkerInv, ClientInv, WorkerNext(Sent) \/ UNCHANGED workerVars
             PROVE  WorkerInv'
  OBVIOUS
<1>1. ASSUME NEW e \in DOMAIN Sent, Receive(e, Sent[e]) \/ Lose(e) PROVE WorkerInv'
  <2>1. e \in Events /\ Sent[e] \in Invocations
    BY EventsAssumption DEF Sent, ClientInv, ClientTypeOK, ConsentInv, Acts, Records
  <2>2. QED BY <1>1, <2>1, ArriveStep
<1>2. ASSUME NEW e \in Events, Drop(e) \/ Get(e) \/ StoreFails(e) PROVE WorkerInv'
  BY <1>2, EventsAssumption, ArriveStep
<1>3. ASSUME NEW e \in Events, Put(e) PROVE WorkerInv'
  BY <1>3, PutStep
<1>4. QED
  BY <1>1, <1>2, <1>3, StoreStep DEF WorkerNext

\* A counter that has not expired was last put by an event of its id, today or,
\* if it is a day old, yesterday.
LastPut ==
    \A id \in Invocations : counter[id] # 0 =>
       \E f \in AdmittedOf(id) : putAge[f] = IF id \in dayOld THEN 1 ELSE 0

(* Steps that put no counter.                                              *)
LEMMA LastPutKept ==
    ASSUME LastPut, dayOld' = dayOld,
           \A f \in Admitted : f \in Admitted' /\ installId'[f] = installId[f]
                                               /\ putAge'[f] = putAge[f],
           \A id \in Invocations : counter'[id] = counter[id] \/ counter'[id] = 0
    PROVE  LastPut'
<1> SUFFICES ASSUME NEW id \in Invocations, counter'[id] # 0
             PROVE  \E f \in AdmittedOf(id)' : putAge'[f] = IF id \in dayOld' THEN 1 ELSE 0
  BY DEF LastPut
<1>1. PICK f \in AdmittedOf(id) : putAge[f] = IF id \in dayOld THEN 1 ELSE 0
  BY DEF LastPut
<1>2. f \in AdmittedOf(id)'
  BY <1>1 DEF AdmittedOf
<1>3. putAge'[f] = putAge[f]
  BY <1>1 DEF AdmittedOf
<1>4. QED BY <1>1, <1>2, <1>3

(* At midnight a counter of the day before ends, and one of today, with the *)
(* event that put it, is a day old.                                        *)
LEMMA LastPutMidnight == ASSUME WorkerInv, LastPut, Midnight PROVE LastPut'
<1> SUFFICES ASSUME NEW id \in Invocations, counter'[id] # 0
             PROVE  \E f \in AdmittedOf(id)' : putAge'[f] = IF id \in dayOld' THEN 1 ELSE 0
  BY DEF LastPut
<1>1. id \in DOMAIN counter
  BY DEF WorkerInv, CounterInv
<1>2. id \notin dayOld /\ counter[id] # 0 /\ id \in dayOld'
  BY <1>1 DEF Midnight
<1>3. PICK f \in AdmittedOf(id) : putAge[f] = 0
  BY <1>2 DEF LastPut
<1>4. f \in Events /\ f \in Admitted /\ f \in AdmittedOf(id)'
  BY <1>3 DEF AdmittedOf, Admitted, Midnight
<1>5. putAge'[f] = 1
  BY <1>3, <1>4 DEF Midnight
<1>6. QED BY <1>2, <1>4, <1>5

(* The event that puts a counter is its last one.                          *)
LEMMA LastPutPut == ASSUME WorkerInv, LastPut, NEW e \in Events, Put(e) PROVE LastPut'
<1>1. /\ request[e] = "counted" /\ request' = [request EXCEPT ![e] = "inserting"]
      /\ counter' = [counter EXCEPT ![installId[e]] = seen[e] + 1]
      /\ dayOld' = dayOld \ {installId[e]}
      /\ putAge' = [putAge EXCEPT ![e] = 0]
      /\ installId' = installId
  BY DEF Put, At, Key
<1>2. request \in [Events -> {"none", "lost", "limiting", "dropped", "counted", "failed",
                              "inserting", "stored", "uncounted"}]
      /\ putAge \in [Events -> 0..2]
  BY DEF WorkerInv, WorkerTypeOK
<1>3. e \in Admitted' /\ e \notin Admitted /\ Admitted \subseteq Admitted' /\ putAge'[e] = 0
  BY <1>1, <1>2 DEF Admitted
<1> SUFFICES ASSUME NEW id \in Invocations, counter'[id] # 0
             PROVE  \E f \in AdmittedOf(id)' : putAge'[f] = IF id \in dayOld' THEN 1 ELSE 0
  BY DEF LastPut
<1>4. CASE id = installId[e]
  <2>1. e \in AdmittedOf(id)' /\ id \notin dayOld'
    BY <1>1, <1>3, <1>4 DEF AdmittedOf
  <2>2. QED BY <1>3, <2>1
<1>5. CASE id # installId[e]
  <2>1. counter[id] # 0 /\ (id \in dayOld' <=> id \in dayOld)
    BY <1>1, <1>5 DEF WorkerInv, CounterInv
  <2>2. PICK f \in AdmittedOf(id) : putAge[f] = IF id \in dayOld THEN 1 ELSE 0
    BY <2>1 DEF LastPut
  <2>3. f \in Events /\ f # e /\ f \in AdmittedOf(id)'
    BY <1>1, <1>3, <1>5, <2>2 DEF AdmittedOf, Admitted
  <2>4. putAge'[f] = putAge[f]
    BY <1>1, <1>2, <2>3
  <2>5. QED BY <2>1, <2>2, <2>3, <2>4
<1>6. QED BY <1>4, <1>5

(* Whatever the receiver and the stores do.                                *)
LEMMA LastPutStep ==
    ASSUME WorkerInv, LastPut, WorkerNext(Sent) \/ UNCHANGED workerVars
    PROVE  LastPut'
<1>1. CASE \E e \in DOMAIN Sent : Receive(e, Sent[e]) \/ Lose(e)
  BY <1>1, LastPutKept DEF Receive, Lose, At, Admitted, WorkerInv, WorkerTypeOK
<1>2. CASE \E e \in Events : Drop(e) \/ Get(e) \/ StoreFails(e) \/ Insert(e) \/ InsertFails(e)
  BY <1>2, LastPutKept
     DEF Drop, Get, StoreFails, Insert, InsertFails, At, Admitted, WorkerInv, WorkerTypeOK
<1>3. CASE \E e \in Events : Put(e)
  BY <1>3, LastPutPut
<1>4. CASE Midnight
  BY <1>4, LastPutMidnight
<1>5. CASE Sweep
  BY <1>5, LastPutKept DEF Sweep, Admitted
<1>6. CASE \E id \in DOMAIN counter : Expire(id)
  BY <1>6, LastPutKept DEF Expire, Admitted, WorkerInv, CounterInv
<1>7. CASE UNCHANGED workerVars
  BY <1>7, LastPutKept DEF workerVars, Admitted
<1>8. QED BY <1>1, <1>2, <1>3, <1>4, <1>5, <1>6, <1>7 DEF WorkerNext

------------------------------------------------------------------------------
(* They hold for good: the steps of the client and of the receiver leave    *)
(* each other alone, or do nothing at all.                                 *)
LEMMA Inductive == Spec => [](ClientInv /\ WorkerInv /\ LastPut)
<1>1. Init => ClientInv /\ WorkerInv /\ LastPut
  <2>1. WorkerInit(Invocations, None) => LastPut
    BY DEF WorkerInit, LastPut
  <2>2. QED BY <2>1, InitClient, InitWorker DEF Init
<1>2. ClientInv /\ WorkerInv /\ LastPut /\ [Next]_vars => (ClientInv /\ WorkerInv /\ LastPut)'
  <2> SUFFICES ASSUME ClientInv, WorkerInv, LastPut, [Next]_vars
               PROVE  ClientInv' /\ WorkerInv' /\ LastPut'
    OBVIOUS
  <2>1. ClientNext \/ UNCHANGED clientVars
    BY DEF Next, Idle, vars
  <2>2. WorkerNext(Sent) \/ UNCHANGED workerVars
    BY DEF Next, Idle, vars
  <2>3. QED BY <2>1, <2>2, ClientStep, WorkerStep, LastPutStep
<1>3. QED BY <1>1, <1>2, PTL DEF Spec

\* Every event that is sent carries an install id the user said yes to
\* (_telemetry.py: record_event() after maybe_prompt_and_record_event()),
\* whatever invocations save over each other, fail or are killed half-way.
THEOREM ConsentHolds == Spec => []ConsentRespected
<1>1. ClientInv => ConsentRespected
  <2> SUFFICES ASSUME ClientInv, NEW i \in posted PROVE cfg[i].id \in consented
    BY DEF ClientInv, ConsentRespected
  <2>1. i \in Invocations /\ Acts(i)
    BY DEF ClientInv, ClientTypeOK, Acts
  <2>2. QED BY <2>1 DEF ClientInv, ConsentInv
<1>2. QED BY <1>1, Inductive, PTL

\* After an undisturbed `telemetry off`, an invocation that begins before the
\* user says yes again sends nothing, but for a yes to its own prompt.
THEOREM OptOutStays == Spec => []OptOutHolds
<1>1. ClientInv => OptOutHolds
  BY DEF ClientInv, ConsentInv, AfterInv, OptOutHolds
<1>2. QED BY <1>1, Inductive, PTL

\* The receiver drops an event only when Limit events of its install id were
\* admitted, the last of them today or yesterday: concurrent gets and puts of
\* underRateLimit() may lose counts, and so admit too many, but never make one
\* up, and a counter does not outlive its last put by more than a day.
THEOREM DropsAreDue == Spec => NoUndueDrop
<1>1. WorkerInv => WorkerTypeOK
  BY DEF WorkerInv
<1>2. WorkerInv /\ LastPut /\ [Next]_vars =>
         [\A e \in Events : Dropped(e) =>
             /\ Cardinality(AdmittedOf(installId[e])) >= Limit
             /\ RecentOf(installId[e]) # {}]_workerVars
  <2> SUFFICES ASSUME WorkerInv, LastPut, [Next]_vars, NEW e \in Events, Dropped(e)
               PROVE  /\ Cardinality(AdmittedOf(installId[e])) >= Limit
                      /\ RecentOf(installId[e]) # {}
    OBVIOUS
  <2>1. Drop(e)
    BY DEF Dropped, Next, Idle, vars, workerVars, WorkerNext, At, Receive, Lose, Drop, Get, Put,
           StoreFails, Insert, InsertFails, Midnight, Expire, Sweep, WorkerInv, WorkerTypeOK
  <2> DEFINE id == installId[e]
  <2>2. id \in Invocations /\ counter[id] >= Limit
    BY <2>1 DEF Drop, At, OverLimit, Key, WorkerInv, CounterInv
  <2>3. counter[id] \in Nat /\ counter[id] # 0 /\ counter[id] <= Count(id) /\ Count(id) \in Nat
    BY <2>2, CountType, WorkerAssumption DEF WorkerInv, WorkerTypeOK, CounterInv
  <2>4. Cardinality(AdmittedOf(id)) >= Limit
    BY <2>2, <2>3, WorkerAssumption DEF Count
  <2>5. PICK f \in AdmittedOf(id) : putAge[f] = IF id \in dayOld THEN 1 ELSE 0
    BY <2>2, <2>3 DEF LastPut
  <2>6. putAge[f] < 2
    BY <2>5
  <2>7. f \in RecentOf(id)
    BY <2>5, <2>6 DEF RecentOf
  <2>8. QED BY <2>4, <2>7
<1>3. QED BY <1>1, <1>2, Inductive, PTL DEF NoUndueDrop, Spec

==============================================================================
