-------------------------- MODULE PathCOrchestrator --------------------------
(***************************************************************************)
(* src/scripts/m4_path_c_orchestrator.py: main() rents a pod in up to      *)
(* three attempts and runs the cells on it, one after the other; probe()   *)
(* rents one and gives it back.  Every API call runs in a pool of four     *)
(* threads and is given up 5 s after its own timeout: the thread stays     *)
(* busy with it, and calls queue up once all of them are.                  *)
(***************************************************************************)
EXTENDS RunPod

CONSTANTS
    MaxCreates,     \* MAX_POD_CREATE_FAILS
    Cells           \* number of (arm, seed) pairs

ASSUME PathCAssumption == MaxCreates \in Nat \ {0} /\ Cells \in Nat

VARIABLES
    attempts,       \* failed attempts to get a pod
    results,        \* cell_results: the status of each cell
    overBudget,     \* elapsed_cost() >= COST_ABORT_USD
    strays          \* the cells whose bootstrap runs on the pod: external

pathVars == <<attempts, results, overBudget, strays>>

PathInit == attempts = 0 /\ results = <<>> /\ overBudget = FALSE /\ strays = {}

------------------------------------------------------------------------------
(* api() *)

Main == program = "path_c"
Running == program \in {"path_c", "probe"} /\ pc # "ended"
InPool(call) == leaked' = Append(leaked, call)

WorkerFree == Len(leaked) < PoolSize
Answered == WorkerFree /\ UNCHANGED pool

\* The call returns -1: it hangs in a worker, or no worker takes it.
Unanswered(call) ==
    \/ /\ WorkerFree /\ hangs < MaxHangs
       /\ hangs' = hangs + 1 /\ InPool(call)
    \/ /\ ~WorkerFree
       /\ UNCHANGED hangs /\ InPool(call)

\* A call given up on ends at last, or fails; a worker takes the next one.
\* At exit the interpreter waits for the workers and for what is queued.
Effect(call) ==
    CASE call.method = "POST" -> MaybeCreated
      [] call.method = "DELETE" -> MaybeDeleted(call.id)
      [] call.method = "GET" -> UNCHANGED pod
LateCall(k) ==
    /\ k \in 1..PoolSize /\ k \in DOMAIN leaked
    /\ Effect(leaked[k])
    /\ leaked' = RemoveAt(leaked, k)
    /\ UNCHANGED <<program, pc, podId, rc, signals, history, hangs, pathVars>>

Call(method, id) == [method |-> method, id |-> id]

------------------------------------------------------------------------------
(* Getting a pod *)

Start ==
    /\ Running /\ pc = "start"
    /\ pc' = "creating"
    /\ UNCHANGED <<pod, program, podId, rc, signals, history, pool, pathVars>>

\* --reuse-pod: a pod of the user's, found or not.
Reuse(p) ==
    /\ Main /\ pc = "start" /\ p \in Fresh
    /\ Given(p)
    /\ \/ Created(p) /\ pc' = "connecting" /\ rc' = rc
       \/ pod' = pod /\ pc' = "cleanup" /\ rc' = 1
    /\ Answered
    /\ UNCHANGED <<program, signals, tried, cutShort, pathVars>>

CreateOk(p) ==
    /\ Running /\ pc = "creating" /\ p \in Fresh
    /\ Answered
    /\ Created(p) /\ Given(p)
    /\ pc' = "starting"
    /\ UNCHANGED <<program, rc, signals, tried, cutShort, pathVars>>

\* create_pod() raises: an error status, a transport error, or api() gave up.
AfterFailure == IF Main THEN "failing" ELSE "cleanup"
CreateFails ==
    /\ Running /\ pc = "creating"
    /\ \/ MaybeCreated /\ Answered
       \/ pod' = pod /\ Unanswered(Call("POST", NoPod))
    /\ pc' = AfterFailure /\ rc' = 1
    /\ UNCHANGED <<program, podId, signals, history, pathVars>>

\* wait_for_running(): the pod is up, a poll hangs, or the deadline passes.
PollReady ==
    /\ Running /\ pc = "starting" /\ pod[podId] = "up"
    /\ Answered
    /\ pc' = IF Main THEN "connecting" ELSE "cleanup"
    /\ rc' = 0
    /\ UNCHANGED <<pod, program, podId, signals, history, pathVars>>
PollHangs ==
    /\ Running /\ pc = "starting" /\ WorkerFree
    /\ Unanswered(Call("GET", podId))
    /\ UNCHANGED <<pod, program, pc, podId, rc, signals, history, pathVars>>
NotRunning ==
    /\ Running /\ pc = "starting"
    /\ pc' = AfterFailure /\ rc' = 1
    /\ UNCHANGED <<pod, program, podId, signals, history, pool, pathVars>>

(* delete_pod(): the DELETE is not repeated, and its failure only logged. *)

SendDelete ==
    \/ podId = NoPod /\ UNCHANGED <<pod, tried, pool>>
    \/ /\ podId # NoPod /\ DeleteSent(podId)
       /\ \/ Answered /\ MaybeDeleted(podId)
          \/ pod' = pod /\ Unanswered(Call("DELETE", podId))

\* The except clause of an attempt forgets the id, deleted or not.
NextAttemptUncounted ==
    /\ podId' = NoPod
    /\ pc' = "pausing"
    /\ UNCHANGED attempts
NextAttempt ==
    /\ attempts' = attempts + 1
    /\ podId' = NoPod
    /\ pc' = IF attempts' >= MaxCreates THEN "cleanup" ELSE "pausing"
AttemptFailsUndeleted ==
    /\ Main /\ pc = "failing"
    /\ NextAttempt
    /\ UNCHANGED <<pod, program, rc, signals, history, pool, results, overBudget, strays>>
AttemptFails ==
    /\ Main /\ pc = "failing"
    /\ SendDelete
    /\ NextAttempt
    /\ UNCHANGED <<program, rc, signals, received, cutShort, results, overBudget, strays>>
Retry ==
    /\ Main /\ pc = "pausing"
    /\ pc' = "creating"
    /\ UNCHANGED <<pod, program, podId, rc, signals, history, pool, pathVars>>

------------------------------------------------------------------------------
(* The cells *)

\* wait_for_ssh(), scp of the bootstrap, the environment: each may raise.
Raises ==
    /\ Main /\ pc \in {"connecting", "setup", "launching", "polling", "pulling", "killing"}
    /\ pc' = "cleanup" /\ rc' = 1
    /\ UNCHANGED <<pod, program, podId, signals, history, pool, pathVars>>
Connect ==
    /\ Main /\ pc \in {"connecting", "setup"}
    /\ pc' = IF pc = "connecting" THEN "setup" ELSE "launching"
    /\ UNCHANGED <<pod, program, podId, rc, signals, history, pool, pathVars>>

Cell == Len(results) + 1
MoreCells == Cell <= Cells
Result(status) == results' = Append(results, status)

Spend ==
    /\ Main /\ pc # "ended" /\ ~overBudget
    /\ overBudget' = TRUE
    /\ UNCHANGED <<podVars, attempts, results, strays>>

\* The budget is looked at before each cell, and only then.
SkipStops ==
    /\ Main /\ pc = "launching" /\ MoreCells /\ overBudget
    /\ Result("SKIPPED_COST")
    /\ pc' = "cleanup"
    /\ UNCHANGED <<pod, program, podId, rc, signals, history, pool, attempts, overBudget, strays>>
Skip ==
    /\ Main /\ pc = "launching" /\ MoreCells /\ overBudget
    /\ Result("SKIPPED_COST")
    /\ UNCHANGED <<podVars, attempts, overBudget, strays>>

\* run_cell(): the launch may fail after it reached the pod.
LaunchFails ==
    /\ Main /\ pc = "launching" /\ MoreCells /\ ~overBudget
    /\ Result("LAUNCH_FAIL")
    /\ strays' \in {strays, strays \cup {Cell}}
    /\ UNCHANGED <<podVars, attempts, overBudget>>
Launch ==
    /\ Main /\ pc = "launching" /\ MoreCells /\ ~overBudget
    /\ pc' = "polling"
    /\ strays' = strays \cup {Cell}
    /\ UNCHANGED <<pod, program, podId, rc, signals, history, pool, attempts, results, overBudget>>

\* The bootstrap ends and leaves its marker; its trap has stopped the server.
BootstrapEnds(c) ==
    /\ c \in strays
    /\ strays' = strays \ {c}
    /\ UNCHANGED <<podVars, attempts, results, overBudget>>

MarkerSeen ==
    /\ Main /\ pc = "polling" /\ Cell \notin strays
    /\ pc' = "pulling"
    /\ UNCHANGED <<pod, program, podId, rc, signals, history, pool, pathVars>>
CellTimesOut ==
    /\ Main /\ pc = "polling"
    /\ pc' = "killing"
    /\ UNCHANGED <<pod, program, podId, rc, signals, history, pool, pathVars>>
Pull ==
    /\ Main /\ pc = "pulling"
    /\ \E status \in {"DONE", "FAILED"} : Result(status)
    /\ pc' = "launching"
    /\ UNCHANGED <<pod, program, podId, rc, signals, history, pool, attempts, overBudget, strays>>

\* The outcome of the kill command is not looked at.
KillStrays ==
    /\ Main /\ pc = "killing"
    /\ Result("TIMEOUT")
    /\ strays' \in {strays, {}}
    /\ pc' = "launching"
    /\ UNCHANGED <<pod, program, podId, rc, signals, history, pool, attempts, overBudget>>

AllCells ==
    /\ Main /\ pc = "launching" /\ ~MoreCells
    /\ pc' = "cleanup"
    /\ UNCHANGED <<pod, program, podId, rc, signals, history, pool, pathVars>>

------------------------------------------------------------------------------
(* The end *)

\* finally: delete_pod(), which then waits for the 404.
Cleanup ==
    /\ Running /\ pc = "cleanup"
    /\ SendDelete
    /\ pc' = "exiting"
    /\ UNCHANGED <<program, podId, rc, signals, received, cutShort, pathVars>>
Exit ==
    /\ Running /\ pc = "exiting" /\ leaked = <<>>
    /\ pc' = "ended"
    /\ UNCHANGED <<pod, program, podId, rc, signals, history, pool, pathVars>>

(* Signals.  SIGALRM raises TimeoutError, once: an attempt in progress     *)
(* swallows it as its own failure.  KeyboardInterrupt is no Exception: it  *)
(* goes to finally from anywhere.  SIGTERM is not handled.                 *)

Waiting == {"creating", "starting", "failing", "pausing", "connecting", "setup",
            "launching", "polling", "pulling", "killing"}
PostInFlight ==
    IF pc = "creating"
      THEN \/ MaybeCreated /\ UNCHANGED pool
           \/ pod' = pod /\ UNCHANGED hangs /\ InPool(Call("POST", NoPod))
      ELSE UNCHANGED <<pod, pool>>
WallCap ==
    /\ Main /\ Signal("ALRM") /\ pc \in Waiting \ {"failing"}
    /\ PostInFlight
    /\ rc' = 1
    /\ pc' = IF pc \in {"creating", "starting"} THEN "failing" ELSE "cleanup"
    /\ UNCHANGED <<program, podId, history, pathVars>>
\* While api() waits it takes the alarm for the timeout of the call.
WallCapDuringPoll ==
    /\ Main /\ Signal("ALRM") /\ pc = "starting"
    /\ UNCHANGED hangs /\ InPool(Call("GET", podId))
    /\ UNCHANGED <<pod, program, pc, podId, rc, history, pathVars>>
WallCapDuringDelete ==
    /\ Main /\ Signal("ALRM") /\ pc = "failing" /\ podId # NoPod
    /\ DeleteSent(podId)
    /\ \/ MaybeDeleted(podId) /\ UNCHANGED pool
       \/ pod' = pod /\ UNCHANGED hangs /\ InPool(Call("DELETE", podId))
    /\ NextAttempt
    /\ UNCHANGED <<program, rc, received, cutShort, results, overBudget, strays>>
CtrlC ==
    /\ Running /\ Signal("INT") /\ pc \in Waiting
    /\ PostInFlight
    /\ pc' = "cleanup" /\ rc' = 130
    /\ UNCHANGED <<program, podId, history, pathVars>>
CtrlCInCleanup ==
    /\ Running /\ Signal("INT") /\ pc = "cleanup" /\ podId # NoPod
    /\ SendDelete
    /\ pc' = "exiting" /\ rc' = 130
    /\ UNCHANGED <<program, podId, received, cutShort, pathVars>>
Killed ==
    /\ Running /\ Signal("TERM") /\ pc # "start"
    /\ Dies
    /\ leaked' = <<>>
    /\ UNCHANGED <<pod, program, podId, rc, received, tried, hangs, pathVars>>

PathSteps ==
    \/ Start \/ CreateFails \/ PollReady \/ NotRunning \/ AttemptFails \/ Retry
    \/ Raises \/ Connect \/ Skip \/ LaunchFails \/ Launch \/ MarkerSeen
    \/ CellTimesOut \/ Pull \/ KillStrays \/ AllCells \/ Cleanup \/ Exit
    \/ \E p \in Pods : Reuse(p) \/ CreateOk(p)
PathNext ==
    \/ PathSteps
    \/ PollHangs \/ Spend \/ (\E c \in 1..Cells : BootstrapEnds(c))
    \/ (\E k \in 1..PoolSize : LateCall(k))
    \/ WallCap \/ WallCapDuringPoll \/ WallCapDuringDelete \/ CtrlC \/ CtrlCInCleanup \/ Killed
==============================================================================
