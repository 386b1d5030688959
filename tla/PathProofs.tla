----------------------------- MODULE PathProofs ------------------------------
(***************************************************************************)
(* Theorems about the request path, for every number of requests, tenants, *)
(* slots and queue places: it implements TenantQueue, a slot is held       *)
(* exactly while the engine works, and the metrics agree with the answers. *)
(***************************************************************************)
EXTENDS RequestPath, FiniteSetTheorems, TLAPS

\* The two slots of the requests, with the theorems about them.
QP == INSTANCE QueueProofs WITH
          lost <- {r \in Requests : stage[r] = "failed"}

\* What QueueProofs assumes of its constants holds of these.
LEMMA Assumptions ==
    /\ QP!AdmissionAssumption /\ QP!TenantsAssumption
    /\ QP!BucketsAssumption /\ QP!SchedulingAssumption
BY AdmissionAssumption, TenantsAssumption
   DEF QP!AdmissionAssumption, QP!TenantsAssumption, QP!BucketsAssumption,
       QP!SchedulingAssumption, QP!IsFiniteSet, IsFiniteSet

(* The inductive invariant of the two slots is preserved. *)
LEMMA QueueInit == QP!Init => QP!IInv
BY QP!InvInit, Assumptions
   DEF QP!AdmissionAssumption, QP!TenantsAssumption, QP!BucketsAssumption, QP!SchedulingAssumption

(* The controller and the tenants keep theirs, as QueueProofs shows.       *)
LEMMA QueueStep == QP!IInv /\ [QP!Next]_(QP!vars) => QP!IInv'
BY QP!InvStep, Assumptions
   DEF QP!AdmissionAssumption, QP!TenantsAssumption, QP!BucketsAssumption, QP!SchedulingAssumption

(* The queue of RequestPath is that of QueueProofs: instances of one module. *)
LEMMA SameQueue ==
    /\ Q!Init <=> QP!Init
    /\ [Q!Next]_(Q!vars) <=> [QP!Next]_(QP!vars)
<1> USE DEF Q!admVars, QP!admVars, Q!vars, QP!vars
<1>1. Q!Init <=> QP!Init
  BY DEF Q!Init, QP!Init, Q!A!Init, QP!A!Init
<1>2. Q!Idle <=> QP!Idle
  BY DEF Q!Idle, QP!Idle
<1>3. Q!A!HasRoom <=> QP!A!HasRoom
  BY DEF Q!A!HasRoom, QP!A!HasRoom
<1>4. Q!A!QueueFull <=> QP!A!QueueFull
  BY DEF Q!A!QueueFull, QP!A!QueueFull, Q!A!Cardinality, QP!A!Cardinality
<1>5. ASSUME NEW r \in Requests
      PROVE  /\ Q!HasBudget(r) <=> QP!HasBudget(r)
             /\ Q!TakeTenantSlot(r) <=> QP!TakeTenantSlot(r)
             /\ Q!FreeTenantSlot(r) <=> QP!FreeTenantSlot(r)
  BY DEF Q!HasBudget, QP!HasBudget, Q!TakeTenantSlot, QP!TakeTenantSlot,
         Q!FreeTenantSlot, QP!FreeTenantSlot
<1>6. ASSUME NEW r \in Requests
      PROVE  /\ Q!FailMalformed(r) <=> QP!FailMalformed(r)
             /\ Q!AdmitAtOnce(r) <=> QP!AdmitAtOnce(r)
             /\ Q!RejectOverload(r) <=> QP!RejectOverload(r)
  BY <1>3, <1>4, <1>5
     DEF Q!FailMalformed, QP!FailMalformed, Q!AdmitAtOnce, QP!AdmitAtOnce,
         Q!RejectOverload, QP!RejectOverload, Q!A!AdmitFast, QP!A!AdmitFast,
         Q!A!RejectFull, QP!A!RejectFull
<1>7. ASSUME NEW r \in Requests PROVE Q!Park(r) <=> QP!Park(r)
  <2>1. ASSUME NEW p PROVE Q!A!Enqueue(r, p) <=> QP!A!Enqueue(r, p)
    BY <1>3, <1>4 DEF Q!A!Enqueue, QP!A!Enqueue
  <2>2. ASSUME NEW n, NEW bucket PROVE Q!Priority(n, bucket) = QP!Priority(n, bucket)
    BY DEF Q!Priority, QP!Priority
  <2>3. QED BY <1>5, <2>1, <2>2 DEF Q!Park, QP!Park
<1>8. ASSUME NEW r \in Requests
      PROVE  /\ Q!AdmissionTimer(r) <=> QP!AdmissionTimer(r)
             /\ Q!AdmitParked(r) <=> QP!AdmitParked(r)
             /\ Q!TimeoutParked(r) <=> QP!TimeoutParked(r)
             /\ Q!CancelParked(r) <=> QP!CancelParked(r)
  BY <1>5 DEF Q!AdmissionTimer, QP!AdmissionTimer, Q!AdmitParked, QP!AdmitParked,
              Q!TimeoutParked, QP!TimeoutParked, Q!CancelParked, QP!CancelParked,
              Q!A!TimerFires, QP!A!TimerFires, Q!A!ReturnAdmitted, QP!A!ReturnAdmitted,
              Q!A!ReturnTimedOut, QP!A!ReturnTimedOut, Q!A!TaskCancelled, QP!A!TaskCancelled
<1>9. ASSUME NEW r \in Requests PROVE Q!Finish(r) <=> QP!Finish(r)
  <2>1. /\ Q!A!HandOver <=> QP!A!HandOver
        /\ Q!A!FreeSlot <=> QP!A!FreeSlot
    BY DEF Q!A!HandOver, QP!A!HandOver, Q!A!FreeSlot, QP!A!FreeSlot, Q!A!Live, QP!A!Live,
           Q!A!IsNext, QP!A!IsNext, Q!A!Before, QP!A!Before
  <2>2. QED BY <1>5, <2>1 DEF Q!Finish, QP!Finish, Q!GiveBack, QP!GiveBack
<1>10. Q!Next <=> QP!Next
  BY <1>2, <1>6, <1>7, <1>8, <1>9 DEF Q!Next, QP!Next
<1>11. QED BY <1>1, <1>10

------------------------------------------------------------------------------
(* The inductive invariant: that of the two slots, and what holds of each request. *)

PathTypes ==
    /\ stage \in [Requests -> Stages]
    /\ status \in [Requests -> Statuses]
    /\ committed \subseteq Requests /\ clientGone \subseteq Requests
    /\ recorded \in [Requests -> {<<>>, <<"ok">>, <<"error">>, <<"timeout">>}]
    /\ disconnects \in [Requests -> SUBSET {"timeout", "upstream_error", "client_disconnect"}]

\* The task of r and its two slots.
Slots(r) ==
    /\ pc[r] = "holding" <=> stage[r] \in Admitted
    /\ pc[r] = "waiting" <=> stage[r] = "queued"
    /\ pc[r] = "released" => stage[r] \in {"done"} \cup Closing
    /\ stage[r] \in Closing => pc[r] = "released"

\* What r has been answered, and what has been recorded of it, on its way.
Progress(r) ==
    /\ stage[r] \in {"new", "queued", "loading", "pulling", "writing"} \cup Closing
          => status[r] = "none"
    /\ stage[r] \in {"writing", "orphan"} \cup Closing => r \in committed
    /\ stage[r] = "orphan" => status[r] \in {"200_partial", "aborted"}
    /\ stage[r] \notin {"done"} \cup Closing => recorded[r] = <<>>
    /\ stage[r] \in Closing => (stage[r] = "finishing" <=> recorded[r] = <<"ok">>)

\* The conjuncts of RecordedOnce and AnsweredAsRecorded for r.
Accounted(r) ==
    /\ recorded[r] # <<>> => pc[r] = "released"
    /\ pc[r] = "released" /\ status[r] # "aborted" => recorded[r] # <<>>
    /\ status[r] = "200" => recorded[r] = <<"ok">>
    /\ recorded[r] = <<"ok">> =>
          \/ status[r] = "200" \/ r \in clientGone
          \/ status[r] = "none" /\ stage[r] = "finishing"
          \/ status[r] = "aborted" /\ r \in Cancellable
    /\ status[r] = "504" => recorded[r] = <<"timeout">> /\ r \notin committed
    /\ status[r] = "200_partial" => r \in committed

Good(r) == Slots(r) /\ Progress(r) /\ Accounted(r)
IInv == QP!IInv /\ PathTypes /\ \A r \in Requests : Good(r)

(* What the steps of the two slots do to pc. *)
LEMMA QueueMoves ==
    ASSUME NEW r \in Requests
    PROVE  /\ Q!FailMalformed(r) => UNCHANGED pc
           /\ Q!AdmitAtOnce(r) => pc[r] = "new" /\ pc' = [pc EXCEPT ![r] = "holding"]
           /\ Q!RejectOverload(r) => pc[r] = "new" /\ pc' = [pc EXCEPT ![r] = "rejected"]
           /\ Q!Park(r) => pc[r] = "new" /\ pc' = [pc EXCEPT ![r] = "waiting"]
           /\ Q!AdmissionTimer(r) => UNCHANGED pc
           /\ Q!AdmitParked(r) => pc' = [pc EXCEPT ![r] = "holding"]
           /\ Q!TimeoutParked(r) => pc' = [pc EXCEPT ![r] = "timedout"]
           /\ Q!CancelParked(r) => pc' = [pc EXCEPT ![r] = "cancelled"]
           /\ Q!GiveBack(r) => pc' = [pc EXCEPT ![r] = "released"]
BY DEF Q!FailMalformed, Q!AdmitAtOnce, Q!RejectOverload, Q!Park, Q!AdmissionTimer,
       Q!AdmitParked, Q!TimeoutParked, Q!CancelParked, Q!GiveBack, Q!admVars,
       Q!A!AdmitFast, Q!A!RejectFull, Q!A!Enqueue, Q!A!TimerFires, Q!A!ReturnAdmitted,
       Q!A!ReturnTimedOut, Q!A!TaskCancelled

PcType == pc \in [Requests -> QP!AP!States]

\* A step of r leaves every other request where it was.
Alone(r) ==
    \A q \in Requests \ {r} :
        /\ pc'[q] = pc[q] /\ stage'[q] = stage[q] /\ status'[q] = status[q]
        /\ recorded'[q] = recorded[q]
        /\ q \in committed' <=> q \in committed
        /\ q \in clientGone' <=> q \in clientGone

(* Then it leaves the others good. *)
LEMMA OthersStayGood ==
    ASSUME NEW r \in Requests, \A q \in Requests : Good(q), Alone(r), Good(r)'
    PROVE  \A q \in Requests : Good(q)'
<1>1. ASSUME NEW q \in Requests \ {r} PROVE Good(q)'
  BY DEF Alone, Good, Slots, Progress, Accounted
<1>2. QED BY <1>1

\* What one step of r has to show.
Preserved(r) == PathTypes' /\ Alone(r) /\ Good(r)'

(* Arrival: refused, failed between the slots, admitted, rejected or parked. *)
LEMMA ArriveGood ==
    ASSUME PcType, PathTypes, NEW r \in Requests, Good(r), Arrive(r)
    PROVE  Preserved(r)
<1> USE DEF Preserved, PathTypes, Alone, Good, Slots, Progress, Accounted,
            PcType, QP!AP!States, QP!AP!Final, Stages, Admitted, Streaming, Closing, Ended, Statuses,
            Move, Answer, Arrives
<1>1. CASE RefuseBudget(r)
  BY <1>1 DEF RefuseBudget, OnlyHttp, admVars
<1>2. CASE FailMalformed(r)
  BY <1>2, QueueMoves DEF FailMalformed
<1>3. CASE AdmitAtOnce(r)
  BY <1>3, QueueMoves DEF AdmitAtOnce
<1>4. CASE RejectOverload(r)
  BY <1>4, QueueMoves DEF RejectOverload
<1>5. CASE Park(r)
  BY <1>5, QueueMoves DEF Park
<1>6. QED BY <1>1, <1>2, <1>3, <1>4, <1>5 DEF Arrive

(* A parked request: admitted, timed out or cancelled. *)
LEMMA ParkedGood ==
    ASSUME PcType, PathTypes, NEW r \in Requests, Good(r), Wake(r) \/ CancelParked(r)
    PROVE  Preserved(r)
<1> USE DEF Preserved, PathTypes, Alone, Good, Slots, Progress, Accounted,
            PcType, QP!AP!States, QP!AP!Final, Stages, Admitted, Streaming, Closing, Ended, Statuses,
            Move, Answer, Parked
<1>1. CASE AdmitParked(r)
  BY <1>1, QueueMoves DEF AdmitParked
<1>2. CASE TimeoutParked(r)
  BY <1>2, QueueMoves DEF TimeoutParked
<1>3. CASE CancelParked(r)
  BY <1>3, QueueMoves DEF CancelParked
<1>4. QED BY <1>1, <1>2, <1>3 DEF Wake

(* The try of route_request. *)
LEMMA BodyGood ==
    ASSUME PcType, PathTypes, NEW r \in Requests, Good(r), Body(r) \/ CancelLoading(r)
    PROVE  Preserved(r)
<1> USE DEF Preserved, PathTypes, Alone, Good, Slots, Progress, Accounted,
            PcType, QP!AP!States, QP!AP!Final, Stages, Admitted, Streaming, Closing, Ended, Statuses,
            Move, Answer, Record, LeaveEngine
<1>1. CASE AnswerJson(r)
  BY <1>1, QueueMoves DEF AnswerJson
<1>2. CASE FailBeforeStream(r)
  BY <1>2, QueueMoves DEF FailBeforeStream
<1>3. CASE CancelLoading(r)
  BY <1>3, QueueMoves DEF CancelLoading
<1>4. CASE StartStream(r)
  BY <1>4 DEF StartStream, OnlyHttp, httpVars, admVars
<1>5. QED BY <1>1, <1>2, <1>3, <1>4 DEF Body

(* The handler's loop over the stream, the client and the fence. *)
LEMMA LoopGood ==
    ASSUME PcType, PathTypes, NEW r \in Requests, Good(r),
           \/ Chunk(r) \/ Written(r) \/ WriteFails(r) \/ FenceDuringWrite(r)
           \/ ClientCloses(r) \/ CancelWriting(r)
    PROVE  Preserved(r)
<1> USE DEF Preserved, PathTypes, Alone, Good, Slots, Progress, Accounted,
            PcType, QP!AP!States, QP!AP!Final, Stages, Admitted, Streaming, Closing, Ended, Statuses,
            Move, Answer, CountDisconnects, OnlyHttp, admVars
<1>1. CASE Chunk(r)
  BY <1>1 DEF Chunk
<1>2. CASE Written(r)
  BY <1>2 DEF Written
<1>3. CASE WriteFails(r)
  BY <1>3 DEF WriteFails
<1>4. CASE FenceDuringWrite(r) \/ CancelWriting(r)
  BY <1>4 DEF FenceDuringWrite, CancelWriting
<1>5. CASE ClientCloses(r)
  BY <1>5 DEF ClientCloses
<1>6. QED BY <1>1, <1>2, <1>3, <1>4, <1>5

(* The ends of a stream: its slots are given back and it is recorded. *)
LEMMA EndGood ==
    ASSUME PcType, PathTypes, NEW r \in Requests, Good(r),
           \/ \E how \in {"ok", "timeout", "connection", "error"} : EndStream(r, how)
           \/ Finalize(r) \/ CancelPulling(r)
    PROVE  Preserved(r)
<1> USE DEF Preserved, PathTypes, Alone, Good, Slots, Progress, Accounted,
            PcType, QP!AP!States, QP!AP!Final, Stages, Admitted, Streaming, Closing, Ended, Statuses,
            Move, Answer, Record, LeaveEngine, CountDisconnects
<1>1. ASSUME NEW how \in {"ok", "timeout", "connection", "error"}, EndStream(r, how)
      PROVE  Preserved(r)
  <2>1. CASE how = "ok"
    BY <1>1, <2>1, QueueMoves DEF EndStream, HandlerGoesOn, AnswersClean, CleanAnswer
  <2>2. CASE how = "timeout"
    <3>1. CASE r \in committed
      BY <1>1, <2>2, <3>1, QueueMoves DEF EndStream, HandlerGoesOn
    <3>2. CASE r \notin committed
      <4>1. AnswersClean(r, how) /\ CleanAnswer[how] = "504"
        BY <1>1, <2>2, <3>2 DEF EndStream, HandlerGoesOn, CleanAnswer
      <4>2. QED BY <1>1, <2>2, <3>2, <4>1, QueueMoves DEF EndStream, AnswersClean
    <3>3. QED BY <3>1, <3>2
  <2>3. CASE how = "connection"
    BY <1>1, <2>3, QueueMoves DEF EndStream, HandlerGoesOn, AnswersClean, CleanAnswer
  <2>4. CASE how = "error"
    BY <1>1, <2>4, QueueMoves DEF EndStream, HandlerGoesOn, AnswersClean, CleanAnswer
  <2>5. QED BY <2>1, <2>2, <2>3, <2>4
<1>2. CASE Finalize(r)
  BY <1>2, QueueMoves DEF Finalize, httpVars
<1>3. CASE CancelPulling(r)
  BY <1>3, QueueMoves DEF CancelPulling
<1>4. QED BY <1>1, <1>2, <1>3

(* The end of the stream is written, or not.                               *)
LEMMA ClosingGood ==
    ASSUME PcType, PathTypes, NEW r \in Requests, Good(r),
           EofWritten(r) \/ EofFails(r) \/ CancelClosing(r)
    PROVE  Preserved(r)
<1> USE DEF Preserved, PathTypes, Alone, Good, Slots, Progress, Accounted,
            PcType, QP!AP!States, QP!AP!Final, Stages, Admitted, Streaming, Closing, Ended, Statuses,
            Move, Answer, AfterEof, OnlyHttp, admVars
<1>1. CASE EofWritten(r)
  BY <1>1 DEF EofWritten
<1>2. CASE EofFails(r)
  BY <1>2 DEF EofFails
<1>3. CASE CancelClosing(r)
  BY <1>3 DEF CancelClosing
<1>4. QED BY <1>1, <1>2, <1>3

(* The timer of a parked request changes nothing that Good is about. *)
LEMMA TimerGood ==
    ASSUME PathTypes, NEW r \in Requests, Good(r), AdmissionTimer(r)
    PROVE  Preserved(r)
BY QueueMoves DEF AdmissionTimer, httpVars, Preserved, PathTypes, Alone, Good, Slots,
                  Progress, Accounted

------------------------------------------------------------------------------
(* A step that is HTTP only leaves the slots alone: no request fails in it. *)
LEMMA HttpOnly ==
    ASSUME PathTypes, NEW r \in Requests, UNCHANGED <<admVars, active>>,
           \/ UNCHANGED stage
           \/ /\ stage[r] # "failed"
              /\ \E to \in Stages \ {"failed"} : Move(r, to)
    PROVE  UNCHANGED Q!vars
<1>1. {q \in Requests : stage'[q] = "failed"} = {q \in Requests : stage[q] = "failed"}
  BY DEF PathTypes, Move
<1>2. QED BY <1>1 DEF admVars, Q!vars, Q!admVars

(* Every step of a request is one of its two slots or leaves them alone. *)
LEMMA StepIsQueue ==
    PathTypes /\ (\A r \in Requests : Good(r)) /\ [Next]_vars => [Q!Next]_(Q!vars)
<1> SUFFICES ASSUME PathTypes, \A r \in Requests : Good(r), [Next]_vars
             PROVE  [Q!Next]_(Q!vars)
  OBVIOUS
<1>1. ASSUME NEW r \in Requests, Q!GiveBack(r), stage[r] \in Admitted PROVE Q!Next
  <2>1. Q!Finish(r)
    BY <1>1 DEF Good, Slots, Q!Finish
  <2>2. QED BY <2>1 DEF Q!Next
<1>2. ASSUME NEW r \in Requests,
             \/ AnswerJson(r) \/ FailBeforeStream(r) \/ CancelLoading(r)
             \/ \E how \in {"ok", "timeout", "connection", "error"} : EndStream(r, how)
             \/ Finalize(r) \/ CancelPulling(r)
      PROVE  Q!Next
  <2>1. Q!GiveBack(r) /\ stage[r] \in Admitted
    BY <1>2 DEF AnswerJson, FailBeforeStream, CancelLoading, EndStream, Finalize,
                CancelPulling, LeaveEngine, Admitted, Streaming
  <2>2. QED BY <1>1, <2>1
<1>3. ASSUME NEW r \in Requests,
             \/ FailMalformed(r) \/ AdmitAtOnce(r) \/ RejectOverload(r) \/ Park(r)
             \/ AdmissionTimer(r) \/ AdmitParked(r) \/ TimeoutParked(r) \/ CancelParked(r)
      PROVE  Q!Next
  <2>1. \/ Q!FailMalformed(r) \/ Q!AdmitAtOnce(r) \/ Q!RejectOverload(r) \/ Q!Park(r)
        \/ Q!AdmissionTimer(r) \/ Q!AdmitParked(r) \/ Q!TimeoutParked(r) \/ Q!CancelParked(r)
    BY <1>3 DEF FailMalformed, AdmitAtOnce, RejectOverload, Park, AdmissionTimer,
                AdmitParked, TimeoutParked, CancelParked
  <2>2. QED BY <2>1 DEF Q!Next
<1>4. ASSUME NEW r \in Requests,
             \/ RefuseBudget(r) \/ StartStream(r) \/ Chunk(r) \/ Written(r) \/ WriteFails(r)
             \/ FenceDuringWrite(r) \/ ClientCloses(r) \/ CancelWriting(r)
             \/ EofWritten(r) \/ EofFails(r) \/ CancelClosing(r)
      PROVE  UNCHANGED Q!vars
  <2>1. /\ UNCHANGED <<admVars, active>>
        /\ \/ UNCHANGED stage
           \/ /\ stage[r] # "failed"
              /\ \E to \in Stages \ {"failed"} : Move(r, to)
    BY <1>4 DEF RefuseBudget, StartStream, Chunk, Written, WriteFails, FenceDuringWrite,
                ClientCloses, CancelWriting, EofWritten, EofFails, CancelClosing,
                AfterEof, OnlyHttp, Stages, Admitted, Streaming, Closing, Ended
  <2>2. QED BY <2>1, HttpOnly
<1>5. CASE UNCHANGED vars
  BY <1>5 DEF vars, admVars, Q!vars, Q!admVars
<1>6. QED
  BY <1>2, <1>3, <1>4, <1>5 DEF Next, Arrive, Wake, Body, Stream, Fence, Cancel, Quiescent

(* The invariant holds at first, and every step preserves it. *)
LEMMA InvInit == Init => IInv
<1> SUFFICES ASSUME Init PROVE IInv
  OBVIOUS
<1>1. QP!IInv
  BY SameQueue, QueueInit DEF Init
<1>2. PathTypes
  BY DEF Init, PathTypes, Stages, Statuses
<1>3. ASSUME NEW r \in Requests PROVE Good(r)
  <2>1. /\ stage[r] = "new" /\ status[r] = "none" /\ recorded[r] = <<>> /\ pc[r] = "new"
        /\ "new" \notin Admitted \cup Closing
    BY DEF Init, Q!Init, Q!A!Init, Admitted, Streaming, Closing
  <2>2. QED BY <2>1 DEF Good, Slots, Progress, Accounted
<1>4. QED BY <1>1, <1>2, <1>3 DEF IInv

(* Every step of a request keeps its slot, its progress and its accounts.  *)
LEMMA InvStep == IInv /\ [Next]_vars => IInv'
<1> SUFFICES ASSUME IInv, [Next]_vars PROVE IInv'
  OBVIOUS
<1>1. QP!IInv'
  BY StepIsQueue, SameQueue, QueueStep DEF IInv
<1>2. PathTypes /\ PcType /\ \A r \in Requests : Good(r)
  BY DEF IInv, PcType, QP!IInv, QP!AP!IInv, QP!AP!StateTypes
<1>3. ASSUME NEW r \in Requests,
             \/ Arrive(r) \/ AdmissionTimer(r) \/ Wake(r) \/ Body(r) \/ Stream(r)
             \/ ClientCloses(r) \/ Cancel(r)
      PROVE  PathTypes' /\ \A q \in Requests : Good(q)'
  <2>1. Preserved(r)
    BY <1>2, <1>3, ArriveGood, ParkedGood, BodyGood, LoopGood, EndGood,
       ClosingGood, TimerGood
       DEF Stream, Fence, Cancel
  <2>2. QED BY <1>2, <2>1, OthersStayGood DEF Preserved
<1>4. ASSUME UNCHANGED vars PROVE PathTypes' /\ \A r \in Requests : Good(r)'
  <2>1. PathTypes'
    BY <1>2, <1>4 DEF vars, httpVars, PathTypes
  <2>2. ASSUME NEW r \in Requests PROVE Good(r)'
    BY <1>2, <1>4 DEF vars, admVars, httpVars, Good, Slots, Progress, Accounted
  <2>3. QED BY <2>1, <2>2
<1>5. PathTypes' /\ \A r \in Requests : Good(r)'
  BY <1>3, <1>4 DEF Next, Quiescent
<1>6. QED BY <1>1, <1>5 DEF IInv

(* The inductive invariant holds for good.                                 *)
LEMMA Inductive == Spec => []IInv
BY InvInit, InvStep, PTL DEF Spec

------------------------------------------------------------------------------
(* Over every order of ends, errors, disconnects, fences and cancellations *)
(* the two slots of the requests behave as TenantQueue says.               *)
THEOREM Refinement == Spec => ImplementsTenantQueue
<1>1. Init => Q!Init
  BY DEF Init
<1>2. IInv /\ [Next]_vars => [Q!Next]_(Q!vars)
  BY StepIsQueue DEF IInv
<1>3. QED BY <1>1, <1>2, Inductive, PTL DEF Spec, ImplementsTenantQueue, Q!Spec

\* The same for the instance QueueProofs is about.
LEMMA SpecIsQueue == Spec => QP!Spec
BY Refinement, SameQueue, PTL DEF ImplementsTenantQueue, Q!Spec, QP!Spec

(* The counters of a tenant count its requests that are parked or at the   *)
(* engine, or that failed between the slots, on the whole path.            *)
THEOREM TenantSlotsOnPath == Spec => []Q!TenantSlotsAccounted
<1>1. QP!Spec => []QP!TenantSlotsAccounted
  BY QP!TenantSlotsHold, Assumptions
     DEF QP!AdmissionAssumption, QP!TenantsAssumption, QP!BucketsAssumption,
         QP!SchedulingAssumption
<1>2. QP!TypeOK => Q!TypeOK
  BY DEF QP!TypeOK, Q!TypeOK, QP!A!TypeOK, Q!A!TypeOK, QP!A!Ranks, Q!A!Ranks,
         QP!A!States, Q!A!States, QP!A!Final, Q!A!Final, QP!A!Totals, Q!A!Totals
<1>3. QP!TenantSlotsAccounted => Q!TenantSlotsAccounted
  BY <1>2 DEF QP!TenantSlotsAccounted, Q!TenantSlotsAccounted, QP!RequestsOf, Q!RequestsOf,
              QP!InProgress, Q!InProgress, QP!Forgotten, Q!Forgotten,
              QP!Cardinality, Q!Cardinality
<1>4. QED BY <1>1, <1>3, SpecIsQueue, PTL

(* Deficit round-robin holds on the whole path.                            *)
THEOREM DeficitOnPath == Spec => []Q!DeficitBound
<1>1. QP!Spec => []QP!DeficitBound
  BY QP!DeficitHolds, Assumptions
     DEF QP!AdmissionAssumption, QP!TenantsAssumption, QP!BucketsAssumption,
         QP!SchedulingAssumption
<1>2. QP!DeficitBound => Q!DeficitBound
  BY DEF QP!DeficitBound, Q!DeficitBound, QP!RequestsOf, Q!RequestsOf, QP!InProgress,
         Q!InProgress, QP!A!Live, Q!A!Live, QP!A!Before, Q!A!Before, QP!Priority, Q!Priority,
         QP!Cardinality, Q!Cardinality
<1>3. QED BY <1>1, <1>2, SpecIsQueue, PTL

(* Never more than max_concurrent requests are between the model load and  *)
(* the end of their answer or stream.                                      *)
THEOREM EngineCap ==
    Spec => [](Cardinality({r \in Requests : stage[r] \in Admitted}) <= MaxConcurrent)
<1>1. QP!Spec => []QP!A!ConcurrencyCap
  BY QP!QueueCap, Assumptions
     DEF QP!AdmissionAssumption, QP!TenantsAssumption, QP!BucketsAssumption,
         QP!SchedulingAssumption
<1>2. IInv /\ QP!A!ConcurrencyCap
         => Cardinality({r \in Requests : stage[r] \in Admitted}) <= MaxConcurrent
  <2> SUFFICES ASSUME IInv, QP!A!ConcurrencyCap
               PROVE  Cardinality({r \in Requests : stage[r] \in Admitted}) <= MaxConcurrent
    OBVIOUS
  <2>1. {r \in Requests : stage[r] \in Admitted} = QP!A!Holders
    BY DEF IInv, Good, Slots, QP!A!Holders
  <2>2. IsFiniteSet(QP!A!Holders \cup QP!A!Granted)
    <3>1. QP!A!Holders \cup QP!A!Granted \subseteq Requests
      BY DEF QP!A!Holders, QP!A!Granted
    <3>2. QED BY <3>1, AdmissionAssumption, FS_Subset
  <2>3. /\ Cardinality(QP!A!Holders) <= Cardinality(QP!A!Holders \cup QP!A!Granted)
        /\ Cardinality(QP!A!Holders) \in Nat
        /\ Cardinality(QP!A!Holders \cup QP!A!Granted) \in Nat
    BY <2>2, FS_Subset, FS_CardinalityType
  <2>4. Cardinality(QP!A!Holders \cup QP!A!Granted) <= MaxConcurrent
    BY DEF QP!A!ConcurrencyCap, QP!A!Cardinality, Cardinality
  <2>5. QED BY <2>1, <2>3, <2>4, AdmissionAssumption
<1>3. QED BY <1>1, <1>2, SpecIsQueue, Inductive, PTL

------------------------------------------------------------------------------
(* A request holds its admission slot exactly while its task is in the try *)
(* or its generator is unfinished, and is parked exactly while queued.     *)
THEOREM SlotSpansServiceHolds == Spec => []SlotSpansService
<1>1. Q!TenantSlotsAccounted => Q!TypeOK
  BY DEF Q!TenantSlotsAccounted
<1>2. IInv /\ Q!TypeOK => SlotSpansService
  <2> SUFFICES ASSUME IInv, Q!TypeOK PROVE SlotSpansService
    OBVIOUS
  <2>1. {<<>>, <<"ok">>, <<"error">>, <<"timeout">>} \subseteq Seq({"ok", "error", "timeout"})
    OBVIOUS
  <2>2. TypeOK
    BY <2>1 DEF IInv, PathTypes, TypeOK
  <2>3. QED BY <2>2 DEF IInv, Good, Slots, SlotSpansService
<1>3. QED BY <1>1, <1>2, TenantSlotsOnPath, Inductive, PTL

(* An admitted request is recorded in the metrics once, when it leaves the *)
(* engine, unless it was cancelled while loading; no other request is.     *)
THEOREM RecordedOnceHolds == Spec => []RecordedOnce
<1>1. IInv => RecordedOnce
  <2> SUFFICES ASSUME IInv, NEW r \in Requests
               PROVE  /\ Len(recorded[r]) <= 1
                      /\ recorded[r] # <<>> => pc[r] = "released"
                      /\ pc[r] = "released" /\ status[r] # "aborted" => recorded[r] # <<>>
    BY DEF RecordedOnce
  <2>1. recorded[r] \in {<<>>, <<"ok">>, <<"error">>, <<"timeout">>}
    BY DEF IInv, PathTypes
  <2>2. Len(recorded[r]) <= 1
    <3>1. Len(<<>>) = 0 /\ Len(<<"ok">>) = 1 /\ Len(<<"error">>) = 1 /\ Len(<<"timeout">>) = 1
      OBVIOUS
    <3>2. Len(recorded[r]) \in {0, 1}
      BY <2>1, <3>1
    <3>3. \A n \in {0, 1} : n <= 1
      OBVIOUS
    <3>4. QED BY <3>2, <3>3, Zenon
  <2>3. QED BY <2>2 DEF IInv, Good, Accounted
<1>2. QED BY <1>1, Inductive, PTL

(* What the metrics and what the client were told agree.                   *)
THEOREM AnsweredAsRecordedHolds == Spec => []AnsweredAsRecorded
<1>1. IInv => AnsweredAsRecorded
  BY DEF IInv, Good, Accounted, AnsweredAsRecorded
<1>2. QED BY <1>1, Inductive, PTL

==============================================================================
