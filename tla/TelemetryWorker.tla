--------------------------- MODULE TelemetryWorker ---------------------------
(***************************************************************************)
(* The receiver of telemetry events (src/telemetry-worker/src/index.ts):   *)
(* fetch() counts an event in the key-value store RL, then inserts it in   *)
(* the database; scheduled() deletes old rows once a day.  Requests run    *)
(* concurrently and interleave at every await.  The stores are external.   *)
(***************************************************************************)
EXTENDS Integers, FiniteSets

CONSTANTS
    Events,         \* requests with a body that passes validate()
    Limit,          \* RATE_LIMIT_PER_DAY
    Retention       \* days a row is kept

ASSUME WorkerAssumption ==
    IsFiniteSet(Events) /\ Limit \in Nat \ {0} /\ Retention \in Nat \ {0}

VARIABLES
    request,        \* where each request is
    installId,      \* its install_id, once received
    seen,           \* n: the count underRateLimit() read
    counter,        \* RL: the count of each install id, 0 if absent
    dayOld,         \* the ids whose counter was put before today
    age,            \* the rows of the database: their age in days
    putAge          \* history: days since the put of each event, 2 for more

workerVars == <<request, installId, seen, counter, dayOld, age, putAge>>

NoRow == -1
Rows == {e \in Events : age[e] # NoRow}

\* The events that were counted: their put is done.
Admitted == {e \in Events : request[e] \in {"inserting", "stored", "uncounted"}}

WorkerInit(Ids, NoId) ==
    /\ request = [e \in Events |-> "none"]
    /\ installId = [e \in Events |-> NoId]
    /\ seen = [e \in Events |-> 0]
    /\ counter = [i \in Ids |-> 0]
    /\ dayOld = {}
    /\ age = [e \in Events |-> NoRow]
    /\ putAge = [e \in Events |-> 0]

------------------------------------------------------------------------------
At(e, from, to) == request[e] = from /\ request' = [request EXCEPT ![e] = to]

Receive(e, id) ==
    /\ At(e, "none", "limiting")
    /\ installId' = [installId EXCEPT ![e] = id]
    /\ UNCHANGED <<seen, counter, dayOld, age, putAge>>

\* It never arrives, or validate() refuses it (a client clock a day ahead, or
\* two years behind): 400.
Lose(e) ==
    /\ At(e, "none", "lost")
    /\ UNCHANGED <<installId, seen, counter, dayOld, age, putAge>>

\* underRateLimit(): a get and a put, with an await after each.
SharedKey(e) == CHOOSE i \in DOMAIN counter : TRUE
Key(e) == installId[e]
OverLimit(e) == counter[Key(e)] >= Limit
Drop(e) ==
    /\ At(e, "limiting", "dropped") /\ OverLimit(e)
    /\ UNCHANGED <<installId, seen, counter, dayOld, age, putAge>>
Get(e) ==
    /\ At(e, "limiting", "counted") /\ ~OverLimit(e)
    /\ seen' = [seen EXCEPT ![e] = counter[Key(e)]]
    /\ UNCHANGED <<installId, counter, dayOld, age, putAge>>

\* Each put renews the 24 h the key has to live.
Put(e) ==
    /\ At(e, "counted", "inserting")
    /\ counter' = [counter EXCEPT ![Key(e)] = seen[e] + 1]
    /\ dayOld' = dayOld \ {Key(e)}
    /\ putAge' = [putAge EXCEPT ![e] = 0]
    /\ UNCHANGED <<installId, seen, age>>

\* A get or put that throws is not caught (500); the event is not stored.
StoreFails(e) ==
    /\ request[e] \in {"limiting", "counted"}
    /\ request' = [request EXCEPT ![e] = "failed"]
    /\ UNCHANGED <<installId, seen, counter, dayOld, age, putAge>>

Insert(e) ==
    /\ At(e, "inserting", "stored")
    /\ age' = [age EXCEPT ![e] = 0]
    /\ UNCHANGED <<installId, seen, counter, dayOld, putAge>>
InsertFails(e) ==
    /\ At(e, "inserting", "uncounted")
    /\ UNCHANGED <<installId, seen, counter, dayOld, age, putAge>>

------------------------------------------------------------------------------
\* A day ends; a row's age is not told apart once it is past retention.
Midnight ==
    /\ Rows # {} \/ \E i \in DOMAIN counter : counter[i] > 0
    /\ age' = [e \in Events |-> IF age[e] \in 0..Retention THEN age[e] + 1 ELSE age[e]]
    /\ counter' = [i \in DOMAIN counter |-> IF i \in dayOld THEN 0 ELSE counter[i]]
    /\ dayOld' = DOMAIN counter
    /\ putAge' = [e \in Events |-> IF e \in Admitted /\ putAge[e] < 2 THEN putAge[e] + 1
                                                                     ELSE putAge[e]]
    /\ UNCHANGED <<request, installId, seen>>

Expire(id) ==
    /\ id \in dayOld /\ counter[id] > 0
    /\ counter' = [counter EXCEPT ![id] = 0]
    /\ UNCHANGED <<request, installId, seen, dayOld, age, putAge>>

\* scheduled(): DELETE FROM events WHERE server_ts < cutoff.
DeletesNothing(e) == age[e] > Retention + 1
Expired(e) == age[e] > Retention
Sweep ==
    /\ \E e \in Events : Expired(e)
    /\ age' = [e \in Events |-> IF Expired(e) THEN NoRow ELSE age[e]]
    /\ UNCHANGED <<request, installId, seen, counter, dayOld, putAge>>

\* sent gives the id in the body of each event that was posted.
WorkerNext(sent) ==
    \/ \E e \in DOMAIN sent : Receive(e, sent[e]) \/ Lose(e)
    \/ \E e \in Events :
          \/ Drop(e) \/ Get(e) \/ Put(e) \/ StoreFails(e)
          \/ Insert(e) \/ InsertFails(e)
    \/ Midnight \/ Sweep
    \/ \E id \in DOMAIN counter : Expire(id)

------------------------------------------------------------------------------
(* Properties *)

WorkerTypeOK ==
    /\ request \in [Events -> {"none", "lost", "limiting", "dropped", "counted", "failed",
                               "inserting", "stored", "uncounted"}]
    /\ seen \in [Events -> 0..Limit - 1]
    /\ \A i \in DOMAIN counter : counter[i] \in 0..Limit
    /\ dayOld \subseteq DOMAIN counter
    /\ age \in [Events -> {NoRow} \cup 0..Retention + 1]
    /\ putAge \in [Events -> 0..2]

\* underRateLimit(), whose counter lives 24 h from its last put (index.ts:127):
\* an event is dropped only when Limit events of its own install id were
\* admitted, and the last of them today or yesterday, however the gets and puts
\* of concurrent events and the expiries interleave.  All but the last may be
\* older than 24 h.
Dropped(e) == request[e] # "dropped" /\ request'[e] = "dropped"
AdmittedOf(id) == {f \in Admitted : installId[f] = id}
RecentOf(id) == {f \in AdmittedOf(id) : putAge[f] < 2}
NoUndueDrop ==
    /\ []WorkerTypeOK
    /\ [][\A e \in Events : Dropped(e) =>
             /\ Cardinality(AdmittedOf(installId[e])) >= Limit
             /\ RecentOf(installId[e]) # {}]_workerVars

\* index.ts:38 "a single install_id may send at most 100 events in 24h. Beyond
\* that we silently drop": what is dropped is beyond Limit events of the last 24
\* hours, which are all of today or yesterday.  The code violates it: each put
\* renews the 24 h of the whole count.
DropsBeyondTheDay ==
    [][\A e \in Events : Dropped(e) =>
          Cardinality(RecentOf(installId[e])) >= Limit]_workerVars

\* Retention: rows do not pile up past their age.  Whatever sweeps failed, there is
\* again and again no row older than Retention days, so each row goes in the end.
RowsAreDeleted == []<>(\A e \in Events : age[e] <= Retention)
==============================================================================
