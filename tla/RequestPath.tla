----------------------------- MODULE RequestPath -----------------------------
(***************************************************************************)
(* The life of a request: WorkloadRouter.handle_request, route_request and *)
(* _stream_with_admission (src/src/kvwarden/router/router.py) around the   *)
(* AdmissionController and the tenants' concurrency counters.              *)
(*                                                                         *)
(* A request takes a tenant slot, then an admission slot; it gives both    *)
(* back in route_request's finally or, for a stream, in the finally of the *)
(* generator that the HTTP handler drives.  An action runs from one        *)
(* suspension of the request's task to the next.  The token bucket is a    *)
(* budget refusal that may happen to any request (see TenantRecord); the   *)
(* engine may answer, fail, hang until its timeout, or stream any number   *)
(* of chunks.                                                              *)
(***************************************************************************)
EXTENDS Integers, FiniteSets, Sequences

CONSTANTS
    Requests, MaxConcurrent, QueueSize, Cancellable, LateTimerCancels,
    Tenants, TenantOf, TenantCap, BasePriority, Buckets, Scheduling
                    \* as in TenantQueue

ASSUME AdmissionAssumption ==
    /\ IsFiniteSet(Requests) /\ Cancellable \subseteq Requests
    /\ MaxConcurrent \in Nat \ {0} /\ QueueSize \in Nat
    /\ LateTimerCancels \in BOOLEAN
ASSUME TenantsAssumption ==
    /\ TenantOf \in [Requests -> Tenants] /\ TenantCap \in Nat /\ BasePriority \in Int
    /\ Buckets \subseteq 0 .. 3 /\ Scheduling \in {"fifo", "drr"}

VARIABLES
    inFlight, sequence, waiters, rank, signalled, cancelled, timer, pc, total,
                    \* the AdmissionController, see Admission
    active,         \* usage.active_requests of each tenant
    stage,          \* where each request's task, or its generator, is
    status,         \* what handle_request answered
    committed,      \* requests whose 200 headers are sent (response is not None)
    recorded,       \* metrics.record_request: the statuses recorded
    disconnects,    \* metrics.record_sse_disconnect: the reasons recorded
    clientGone      \* requests whose client closed the connection

admVars == <<inFlight, sequence, waiters, rank, signalled, cancelled, timer, pc, total>>
httpVars == <<status, committed, disconnects, clientGone>>
vars == <<admVars, active, stage, recorded, httpVars>>

(***************************************************************************)
(* "queued": parked in acquire(); "loading": in the try of route_request   *)
(* (ensure_model_loaded, forward_request); "pulling": the handler waits    *)
(* for the generator's next chunk; "writing": it writes one to the client; *)
(* "orphan": the handler is gone, the generator suspended at its yield;    *)
(* "finishing", "breaking", "leaving": the generator is finished and the   *)
(* handler awaits write_eof(), after the whole stream, after a timeout in  *)
(* the middle of it, or after a lost connection;                           *)
(* "failed", "dropped": the handler raised, or was cancelled, between the  *)
(* two slots, without giving its tenant's back.                            *)
(***************************************************************************)
Streaming == {"pulling", "writing", "orphan"}
Admitted == {"loading"} \cup Streaming
Closing == {"finishing", "breaking", "leaving"}
Ended == {"done", "failed", "dropped"}
Stages == {"new", "queued"} \cup Admitted \cup Closing \cup Ended
Statuses ==
    {"none", "200", "200_partial", "404", "429", "499", "500", "503", "504", "aborted"}

\* The two slots of a request, and how they are taken and given back.
Q == INSTANCE TenantQueue WITH
         lost <- {r \in Requests : stage[r] = "failed"}

Init ==
    /\ stage = [r \in Requests |-> "new"]
    /\ status = [r \in Requests |-> "none"]
    /\ committed = {}
    /\ recorded = [r \in Requests |-> <<>>]
    /\ disconnects = [r \in Requests |-> {}]
    /\ clientGone = {}
    /\ Q!Init

------------------------------------------------------------------------------
(* Steps shared by several actions *)

Move(r, to) == stage' = [stage EXCEPT ![r] = to]
Answer(r, code) == status' = [status EXCEPT ![r] = code]
Record(r, how) == recorded' = [recorded EXCEPT ![r] = Append(@, how)]
CountDisconnects(r, reasons) == disconnects' = [disconnects EXCEPT ![r] = @ \cup reasons]

\* The end of route_request's finally, or of the generator's when no handler
\* goes on after it.
LeaveEngine(r) == Move(r, "done") /\ Q!GiveBack(r)

\* The slots and the request metrics are left alone.
OnlyHttp == UNCHANGED <<admVars, active, recorded>>

------------------------------------------------------------------------------
(* handle_request up to its first suspension *)

RefuseBudget(r) ==
    /\ stage[r] = "new"
    /\ Move(r, "done") /\ Answer(r, "429")
    /\ OnlyHttp /\ UNCHANGED <<committed, disconnects, clientGone>>

\* A refused request never calls acquire(): its pc stays "new".
Arrives(r) == stage[r] = "new" /\ UNCHANGED <<recorded, committed, disconnects, clientGone>>

FailMalformed(r) ==
    /\ Arrives(r)
    /\ Move(r, "failed") /\ Answer(r, "500")
    /\ Q!FailMalformed(r)

AdmitAtOnce(r) ==
    /\ Arrives(r)
    /\ Move(r, "loading") /\ UNCHANGED status
    /\ Q!AdmitAtOnce(r)

RejectOverload(r) ==
    /\ Arrives(r)
    /\ Move(r, "done") /\ Answer(r, "503")
    /\ Q!RejectOverload(r)

Park(r) ==
    /\ Arrives(r)
    /\ Move(r, "queued") /\ UNCHANGED status
    /\ Q!Park(r)

(* Parked in acquire() *)

AdmissionTimer(r) ==
    /\ UNCHANGED <<stage, recorded, httpVars>>
    /\ Q!AdmissionTimer(r)

Parked(r) ==
    /\ stage[r] = "queued"
    /\ UNCHANGED <<recorded, committed, disconnects, clientGone>>

AdmitParked(r) ==
    /\ Parked(r)
    /\ Move(r, "loading") /\ UNCHANGED status
    /\ Q!AdmitParked(r)

TimeoutParked(r) ==
    /\ Parked(r)
    /\ Move(r, "done") /\ Answer(r, "503")
    /\ Q!TimeoutParked(r)

CancelParked(r) ==
    /\ Parked(r)
    /\ Move(r, "dropped") /\ Answer(r, "aborted")
    /\ Q!CancelParked(r)

------------------------------------------------------------------------------
(* The try of route_request *)

AnswerJson(r) ==
    /\ stage[r] = "loading"
    /\ Record(r, "ok")
    /\ LeaveEngine(r) /\ Answer(r, "200")
    /\ UNCHANGED <<committed, disconnects, clientGone>>

\* Unknown model, failed load, open circuit, engine error or timeout.
FailBeforeStream(r) ==
    /\ stage[r] = "loading"
    /\ Record(r, "error")
    /\ LeaveEngine(r)
    /\ \E code \in {"404", "500", "503"} : Answer(r, code)
    /\ UNCHANGED <<committed, disconnects, clientGone>>

\* CancelledError passes `except Exception`, not the finally.
CancelLoading(r) ==
    /\ stage[r] = "loading" /\ r \in Cancellable
    /\ LeaveEngine(r) /\ Answer(r, "aborted")
    /\ UNCHANGED <<recorded, committed, disconnects, clientGone>>

StartStreamReleases(r) ==
    /\ stage[r] = "loading"
    /\ Move(r, "pulling")
    /\ Q!GiveBack(r)
    /\ UNCHANGED <<recorded, httpVars>>
StartStreamRecords(r) ==
    /\ stage[r] = "loading"
    /\ Record(r, "ok")
    /\ Move(r, "pulling")
    /\ UNCHANGED <<admVars, active, httpVars>>
\* released = True: the slots and the accounting now belong to the generator.
StartStream(r) ==
    /\ stage[r] = "loading"
    /\ Move(r, "pulling")
    /\ OnlyHttp /\ UNCHANGED httpVars

------------------------------------------------------------------------------
(* The generator and the handler's loop over it *)

Chunk(r) ==
    /\ stage[r] = "pulling"
    /\ committed' = committed \cup {r}
    /\ Move(r, "writing")
    /\ OnlyHttp /\ UNCHANGED <<status, disconnects, clientGone>>

Written(r) ==
    /\ stage[r] = "writing" /\ r \notin clientGone
    /\ Move(r, "pulling")
    /\ OnlyHttp /\ UNCHANGED <<status, committed, disconnects, clientGone>>

ClientCloses(r) ==
    /\ stage[r] \in {"pulling", "writing"} \cup Closing /\ r \notin clientGone
    /\ clientGone' = clientGone \cup {r}
    /\ OnlyHttp /\ UNCHANGED <<stage, status, committed, disconnects>>

(***************************************************************************)
(* The inner iterator is exhausted ("ok"); it raises a timeout, or the     *)
(* max-duration fence expires while it is awaited ("timeout"); it raises   *)
(* aiohttp.ClientConnectionError ("connection") or anything else ("error").*)
(* It is finished, so aclose() does not suspend: the generator's finally   *)
(* follows in the same run, and the handler up to its answer or to         *)
(* write_eof(), which drains the connection.                               *)
(***************************************************************************)
CleanAnswer == [timeout |-> "504", connection |-> "499", error |-> "500"]
AnswersClean(r, how) ==
    Move(r, "done") /\ Answer(r, CleanAnswer[how]) /\ UNCHANGED committed
HandlerGoesOnCommittedBlind(r, how) ==
    \/ /\ how = "ok"
       /\ committed' = committed \cup {r} /\ Move(r, "finishing") /\ UNCHANGED status
    \/ how # "ok" /\ AnswersClean(r, how)
HandlerGoesOn(r, how) ==
    \/ /\ how = "ok"      \* a stream of nothing is a 200 as well
       /\ committed' = committed \cup {r} /\ Move(r, "finishing") /\ UNCHANGED status
    \/ /\ how \in {"timeout", "connection"} /\ r \in committed
       /\ Move(r, IF how = "timeout" THEN "breaking" ELSE "leaving")
       /\ UNCHANGED <<status, committed>>
    \/ (how = "error" \/ (how # "ok" /\ r \notin committed)) /\ AnswersClean(r, how)

EndStream(r, how) ==
    /\ stage[r] = "pulling"
    /\ Record(r, IF how \in {"ok", "timeout"} THEN how ELSE "error")
    /\ HandlerGoesOn(r, how)
    /\ Q!GiveBack(r)
    /\ CountDisconnects(r, CASE how = "timeout" -> {"timeout", "upstream_error"}
                             [] how = "connection" -> {"client_disconnect"}
                             [] OTHER -> {})
    /\ UNCHANGED clientGone

(***************************************************************************)
(* write_eof() returns once the client has read enough; it raises when the *)
(* connection is lost, which is ignored after a lost connection and is a   *)
(* 500 otherwise.  The fence ended with the generator: no timer is left.   *)
(***************************************************************************)
AfterEof(r, code) ==
    /\ stage[r] \in Closing
    /\ Move(r, "done") /\ Answer(r, code)
    /\ OnlyHttp /\ UNCHANGED <<committed, disconnects, clientGone>>
EofWritten(r) == AfterEof(r, IF stage[r] = "finishing" THEN "200" ELSE "200_partial")
EofFails(r) ==
    /\ r \in clientGone
    /\ AfterEof(r, IF stage[r] = "leaving" THEN "200_partial" ELSE "500")

\* write() raises; the handler answers and leaves the generator suspended.
WriteFailsReleases(r) ==
    /\ stage[r] = "writing" /\ r \in clientGone
    /\ CountDisconnects(r, {"client_disconnect"})
    /\ Move(r, "orphan") /\ Answer(r, "200_partial")
    /\ Q!GiveBack(r)
    /\ UNCHANGED <<recorded, committed, clientGone>>
WriteFails(r) ==
    /\ stage[r] = "writing" /\ r \in clientGone
    /\ CountDisconnects(r, {"client_disconnect"})
    /\ Move(r, "orphan") /\ Answer(r, "200_partial")
    /\ OnlyHttp /\ UNCHANGED <<committed, clientGone>>

(***************************************************************************)
(* The fence expires during a blocked write: asyncio.timeout cancels the   *)
(* handler's task, and the CancelledError is raised in write(), not in the *)
(* generator that owns the timeout.                                        *)
(***************************************************************************)
FenceWaitsForWrite(r) ==
    /\ stage[r] = "writing" /\ r \in clientGone
    /\ Move(r, "orphan") /\ Answer(r, "aborted")
    /\ OnlyHttp /\ UNCHANGED <<committed, disconnects, clientGone>>
FenceDuringWrite(r) ==
    /\ stage[r] = "writing"
    /\ Move(r, "orphan") /\ Answer(r, "aborted")
    /\ OnlyHttp /\ UNCHANGED <<committed, disconnects, clientGone>>

(***************************************************************************)
(* The asyncgen finalizer hook closes a generator whose handler is gone:   *)
(* GeneratorExit at the yield, inner.aclose(), the rest of the finally.    *)
(***************************************************************************)
Finalize(r) ==
    /\ stage[r] = "orphan"
    /\ Record(r, "error")
    /\ LeaveEngine(r)
    /\ UNCHANGED httpVars

\* Cancelled while pulling, the CancelledError passes through the generator;
\* while writing, it does not reach it.
CancelPulling(r) ==
    /\ stage[r] = "pulling" /\ r \in Cancellable
    /\ Record(r, "error")
    /\ LeaveEngine(r) /\ Answer(r, "aborted")
    /\ UNCHANGED <<committed, disconnects, clientGone>>
CancelWriting(r) ==
    /\ stage[r] = "writing" /\ r \in Cancellable
    /\ Move(r, "orphan") /\ Answer(r, "aborted")
    /\ OnlyHttp /\ UNCHANGED <<committed, disconnects, clientGone>>
\* The stream is recorded, but the client does not get the end of it.
CancelClosing(r) == r \in Cancellable /\ AfterEof(r, "aborted")

------------------------------------------------------------------------------
Quiescent == (\A r \in Requests : stage[r] \in Ended) /\ UNCHANGED vars

Arrive(r) ==
    RefuseBudget(r) \/ FailMalformed(r) \/ AdmitAtOnce(r) \/ RejectOverload(r) \/ Park(r)
Wake(r) == AdmitParked(r) \/ TimeoutParked(r)
Body(r) == AnswerJson(r) \/ FailBeforeStream(r) \/ StartStream(r)
Fence(r) == EndStream(r, "timeout") \/ FenceDuringWrite(r)
Stream(r) ==
    \/ Chunk(r) \/ Written(r) \/ WriteFails(r) \/ Fence(r) \/ Finalize(r)
    \/ EofWritten(r) \/ EofFails(r)
    \/ \E how \in {"ok", "connection", "error"} : EndStream(r, how)
Cancel(r) ==
    \/ CancelParked(r) \/ CancelLoading(r) \/ CancelPulling(r) \/ CancelWriting(r)
    \/ CancelClosing(r)

Next ==
    \/ \E r \in Requests :
          \/ Arrive(r) \/ AdmissionTimer(r) \/ Wake(r) \/ Body(r) \/ Stream(r)
          \/ ClientCloses(r) \/ Cancel(r)
    \/ Quiescent

Spec == Init /\ [][Next]_vars

(***************************************************************************)
(* The loop runs ready tasks and due timers: the 30 s admission timer, the *)
(* engine's own timeouts (every await of the try is bounded by one), the   *)
(* stream fence, the asyncgen finalizer; it raises what waits for a        *)
(* connection that is lost.  No client ever has to read, and no engine to  *)
(* answer.                                                                 *)
(***************************************************************************)
Fairness ==
    \A r \in Requests :
        /\ WF_vars(AdmissionTimer(r)) /\ WF_vars(Wake(r)) /\ WF_vars(Body(r))
        /\ WF_vars(Fence(r)) /\ WF_vars(Finalize(r)) /\ WF_vars(EofFails(r))
FairSpec == Spec /\ Fairness

------------------------------------------------------------------------------
(***************************************************************************)
(* Properties                                                              *)
(***************************************************************************)

(* Types of the state. *)
TypeOK ==
    /\ Q!TypeOK
    /\ stage \in [Requests -> Stages]
    /\ status \in [Requests -> Statuses]
    /\ committed \subseteq Requests /\ clientGone \subseteq Requests
    /\ recorded \in [Requests -> Seq({"ok", "error", "timeout"})]
    /\ disconnects \in [Requests -> SUBSET {"timeout", "upstream_error", "client_disconnect"}]

(* The router keeps acquire()'s contract ("Must be called exactly once for *)
(* each successful acquire()") and pairs it with the tenant's slot: over   *)
(* every order of ends, errors, disconnects, fences and cancellations the  *)
(* two slots behave as TenantQueue says, so its properties, and those of   *)
(* Admission, hold of the whole path.                                      *)
ImplementsTenantQueue == Q!Spec

(* A request occupies the engine exactly while its task is in the try or   *)
(* its generator is unfinished: the slot is not given back while the       *)
(* engine may still be generating for it, nor kept after.                  *)
SlotSpansService ==
    /\ TypeOK
    /\ \A r \in Requests :
        /\ pc[r] = "holding" <=> stage[r] \in Admitted
        /\ pc[r] = "waiting" <=> stage[r] = "queued"

(* The request metrics: each admitted request is recorded once, when it    *)
(* leaves the engine (unless it is cancelled while loading, which is never *)
(* recorded), and no other request is.                                     *)
RecordedOnce ==
    \A r \in Requests :
        /\ Len(recorded[r]) <= 1
        /\ recorded[r] # <<>> => pc[r] = "released"
        /\ pc[r] = "released" /\ status[r] # "aborted" => recorded[r] # <<>>

(* What the metrics and what the client were told agree: a full 200 is an  *)
(* "ok"; an "ok" is a full 200, unless the client goes or the server stops *)
(* before the end of the stream is written; a 504 is a timeout before any  *)
(* byte.                                                                   *)
AnsweredAsRecorded ==
    \A r \in Requests :
        /\ status[r] = "200" => recorded[r] = <<"ok">>
        /\ recorded[r] = <<"ok">> =>
              \/ status[r] = "200" \/ r \in clientGone
              \/ status[r] = "none" /\ stage[r] = "finishing"
              \/ status[r] = "aborted" /\ r \in Cancellable
        /\ status[r] = "504" => recorded[r] = <<"timeout">> /\ r \notin committed
        /\ status[r] = "200_partial" => r \in committed

(* A client that stops reading, an engine that stops sending and a lost    *)
(* admission slot delay a request only up to a timer: for good it has      *)
(* ended, or all that is left of it is the end of its stream, which waits  *)
(* for its client alone, and no longer than the client is there.           *)
EveryRequestEnds ==
    \A r \in Requests :
        <>[](\/ stage[r] \in {"new"} \cup Ended
             \/ stage[r] \in Closing /\ r \notin clientGone)

(* router.py:36 "Hard ceiling for any single streaming response": a stream *)
(* that has begun ends.  The code violates it: write_eof() is outside the  *)
(* fence.                                                                  *)
StreamCeiling == \A r \in Requests : r \in committed ~> stage[r] \in Ended

(* metrics.py:108 "SSE streams that terminated abnormally, by reason": a   *)
(* stream that terminates is counted under one reason.  The code violates  *)
(* it.                                                                     *)
OneReasonPerStream == \A r \in Requests : Cardinality(disconnects[r]) <= 1

(* router.py:851 "Client went away mid-stream": what is reported as a      *)
(* client disconnect is one.  The code violates it.                        *)
DisconnectsAreTheClients ==
    \A r \in Requests : "client_disconnect" \in disconnects[r] => r \in clientGone
==============================================================================
