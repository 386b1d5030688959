--------------------------- MODULE BenchmarkClient ---------------------------
(***************************************************************************)
(* One run of AsyncBenchmarkClient                                         *)
(* (src/profiling/scripts/profiling_utils.py): its requests, the semaphore *)
(* that admits them to the server, the tokenizer that count_tokens() loads *)
(* at the first answer, and the sampling thread of its                     *)
(* GPUMetricsCollector.  The program that owns the client says when the    *)
(* event loop runs: every action but the server's and the thread's is one  *)
(* of the loop.                                                            *)
(***************************************************************************)
EXTENDS Integers, FiniteSets

CONSTANT N              \* requests of a run

ASSUME NAssumption == N \in Nat \ {0}

VARIABLES
    limit,          \* concurrency_level of the client, 0 if there is none
    req,            \* what became of the requests of the run
    tokenizer,      \* count_tokens._tokenizer is loaded
    sampler         \* the thread of the run's collector

clientVars == <<limit, req, tokenizer, sampler>>

Requests == 1..N
Pending == {"waiting", "sent", "answered", "broken"}
Over == {"ok", "failed", "dropped"}

In(S) == {i \in Requests : req[i] \in S}
Permits == In({"sent", "answered", "broken"})   \* inside "async with semaphore"

ClientInit ==
    /\ limit = 0
    /\ req = [i \in Requests |-> "ok"]
    /\ tokenizer = FALSE
    /\ sampler = "none"

\* run() up to gather(): the thread of a given collector samples, or returns
\* at once where NVML is not available.
Begin(c, collector) ==
    /\ limit' = c
    /\ req' = [i \in Requests |-> "waiting"]
    /\ sampler' \in IF collector THEN {"on", "over"} ELSE {"none"}
    /\ UNCHANGED tokenizer

\* The semaphore is first come, first served, and the tasks start in order.
SendUnlimited(i) ==
    /\ i \in In({"waiting"}) /\ \A j \in In({"waiting"}) : i <= j
    /\ req' = [req EXCEPT ![i] = "sent"]
    /\ UNCHANGED <<limit, tokenizer, sampler>>
Send(i) ==
    /\ i \in In({"waiting"}) /\ \A j \in In({"waiting"}) : i <= j
    /\ Cardinality(Permits) < limit
    /\ req' = [req EXCEPT ![i] = "sent"]
    /\ UNCHANGED <<limit, tokenizer, sampler>>

\* The server: a whole stream, or an error status or a broken connection.
Serve(i) ==
    /\ req[i] = "sent"
    /\ req' \in {[req EXCEPT ![i] = s] : s \in {"answered", "broken"}}
    /\ UNCHANGED <<limit, tokenizer, sampler>>

\* Every metric counts the tokens of its prompt; the first count loads the
\* tokenizer, and an error in that is not an ImportError.
Record(i, outcome) ==
    /\ req' = [req EXCEPT ![i] = outcome]
    /\ tokenizer' = TRUE
    /\ UNCHANGED <<limit, sampler>>
Read(i) ==
    \/ req[i] = "answered" /\ Record(i, "ok")
    \/ req[i] = "broken" /\ Record(i, "failed")
\* ClientTimeout(total=timeout_s)
TimeOutNever(i) == FALSE /\ UNCHANGED clientVars
TimeOut(i) == req[i] \in {"sent", "answered"} /\ Record(i, "failed")

\* gather() raises what one request raised, and the session closes under the others.
Raise(i) ==
    /\ i \in Permits /\ ~tokenizer
    /\ req' = [j \in Requests |-> IF req[j] \in Pending THEN "dropped" ELSE req[j]]
    /\ UNCHANGED <<limit, tokenizer, sampler>>
Raised == In({"dropped"}) # {}
Gathered == In({"ok", "failed"}) = Requests

\* After gather(): collector.stop() sets the event and joins for 5 seconds; a
\* thread in a slow NVML call outlives the join, and samples no further.
End(collector) ==
    /\ Gathered
    /\ sampler' \in IF collector /\ sampler = "on" THEN {"over", "late"} ELSE {sampler}
    /\ UNCHANGED <<limit, req, tokenizer>>

ClientStep(i) == Send(i) \/ Read(i) \/ TimeOut(i) \/ Raise(i)

ClientTypeOK ==
    /\ limit \in Nat
    /\ req \in [Requests -> Pending \cup Over]
    /\ tokenizer \in BOOLEAN
    /\ sampler \in {"none", "on", "over", "late"}
==============================================================================
