------------------------ MODULE PreflightOrchestrator ------------------------
(***************************************************************************)
(* src/scripts/p1_preflight_orchestrator.py: main() rents a spot pod once, *)
(* waits for ssh and for the engine, runs two checks and gives it back.    *)
(* Its API calls are plain: a transport error or timeout is their answer.  *)
(***************************************************************************)
EXTENDS RunPod

Preflight == program = "preflight" /\ pc # "ended"
PStay == UNCHANGED <<program, signals, cutShort, pool>>

PStart ==
    /\ Preflight /\ pc = "start"
    /\ pc' = "creating"
    /\ UNCHANGED <<pod, podId, rc, received, tried>> /\ PStay

\* --reuse-pod: a pod of the user's, found or not.
PReuse(p) ==
    /\ Preflight /\ pc = "start" /\ p \in Fresh
    /\ Given(p)
    /\ \/ Created(p) /\ pc' = "connecting" /\ rc' = rc
       \/ pod' = pod /\ pc' = "cleanup" /\ rc' = 1
    /\ UNCHANGED tried /\ PStay

PCreateOk(p) ==
    /\ Preflight /\ pc = "creating" /\ p \in Fresh
    /\ Created(p) /\ Given(p)
    /\ pc' = "starting"
    /\ UNCHANGED <<rc, tried>> /\ PStay
PCreateFails ==
    /\ Preflight /\ pc = "creating"
    /\ MaybeCreated
    /\ pc' = "cleanup" /\ rc' = 1
    /\ UNCHANGED <<podId, received, tried>> /\ PStay

\* wait_for_running(): until the pod has an address, or 600 s.
PRunning ==
    /\ Preflight /\ pc = "starting" /\ pod[podId] = "up"
    /\ pc' = "connecting"
    /\ UNCHANGED <<pod, podId, rc, received, tried>> /\ PStay
\* wait_for_ssh()
PConnected ==
    /\ Preflight /\ pc = "connecting"
    /\ pc' = "warming"
    /\ UNCHANGED <<pod, podId, rc, received, tried>> /\ PStay
\* wait_for_vllm_health(), then the one look at the cost.
PWarm ==
    /\ Preflight /\ pc = "warming"
    /\ \/ pc' = "gauge" /\ rc' = rc
       \/ pc' = "cleanup" /\ rc' = 1
    /\ UNCHANGED <<pod, podId, received, tried>> /\ PStay
\* Check 1 and check 2: exit statuses on the pod are logged only.
PGauge ==
    /\ Preflight /\ pc = "gauge"
    /\ pc' = "harness"
    /\ UNCHANGED <<pod, podId, rc, received, tried>> /\ PStay
PHarness ==
    /\ Preflight /\ pc = "harness"
    /\ pc' = "cleanup"
    /\ UNCHANGED <<pod, podId, rc, received, tried>> /\ PStay

\* A deadline of a wait, or the timeout of a subprocess.
PWaiting == {"creating", "starting", "connecting", "warming", "gauge", "harness"}
PRaises ==
    /\ Preflight /\ pc \in PWaiting \ {"creating"}
    /\ pc' = "cleanup" /\ rc' = 1
    /\ UNCHANGED <<pod, podId, received, tried>> /\ PStay

\* SIGALRM raises TimeoutError, SIGINT KeyboardInterrupt: both reach finally.
PInterrupted(s, status) ==
    /\ Preflight /\ Signal(s) /\ pc \in PWaiting
    /\ IF pc = "creating" THEN MaybeCreated ELSE UNCHANGED pod
    /\ pc' = "cleanup" /\ rc' = status
    /\ UNCHANGED <<program, podId, history, pool>>
PKilled ==
    /\ Preflight /\ Signal("TERM") /\ pc # "start"
    /\ Dies
    /\ UNCHANGED <<pod, program, podId, rc, received, tried, pool>>

\* finally: delete_pod() and one look whether it is gone.
PCleanup ==
    /\ Preflight /\ pc = "cleanup"
    /\ DeleteSent(podId) /\ MaybeDeleted(podId)
    /\ pc' = "ended"
    /\ UNCHANGED <<podId, rc, received>> /\ PStay

PreflightSteps ==
    \/ PStart \/ PCreateFails \/ PRunning \/ PConnected \/ PWarm \/ PGauge \/ PHarness
    \/ PRaises \/ PCleanup
    \/ \E p \in Pods : PReuse(p) \/ PCreateOk(p)
PreflightNext ==
    \/ PreflightSteps
    \/ PInterrupted("ALRM", 1) \/ PInterrupted("INT", 130) \/ PKilled
==============================================================================
