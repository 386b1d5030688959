------------------------------- MODULE RunPod -------------------------------
(***************************************************************************)
(* What the programs that rent a GPU pod share: the provider's pods        *)
(* (external), the pod id and the progress of the one program that runs,   *)
(* and the API calls it gave up waiting for.                               *)
(*                                                                         *)
(* A signal is delivered while the program waits: in an API call, a sleep  *)
(* or a subprocess.                                                        *)
(***************************************************************************)
EXTENDS Integers, FiniteSets, SequencesExt

CONSTANTS
    Pods,           \* the pods the provider can create
    NoPod,          \* pod_id = ""
    PoolSize,       \* workers of _API_TIMEOUT_POOL
    MaxHangs        \* bound: API calls that hang

ASSUME PodsAssumption == NoPod \notin Pods
ASSUME PoolAssumption == PoolSize \in Nat \ {0} /\ MaxHangs \in Nat

VARIABLES
    pod,            \* each pod: "none", "up" (and billed) or "deleted"
    program,        \* which program runs
    pc,             \* where it is
    podId,          \* its pod_id, or that of its PodContext
    rc,             \* its exit status, once decided
    signals,        \* the signals still to come: "INT", "TERM", "ALRM"
    received,       \* history: the ids it was given
    tried,          \* history: the pods it sent a DELETE for
    cutShort,       \* history: a signal ended it without its cleanup
    leaked,         \* api() calls of the pool that hang, or are queued behind one
    hangs           \* how many calls have hung

history == <<received, tried, cutShort>>
pool == <<leaked, hangs>>
podVars == <<pod, program, pc, podId, rc, signals, history, pool>>

PodInit(programs) ==
    /\ pod = [p \in Pods |-> "none"]
    /\ program \in programs
    /\ pc = "start"
    /\ podId = NoPod
    /\ rc = 0
    /\ signals = {"INT", "TERM", "ALRM"}
    /\ received = {} /\ tried = {} /\ cutShort = FALSE
    /\ leaked = <<>> /\ hangs = 0

------------------------------------------------------------------------------
Fresh == {p \in Pods : pod[p] = "none"}
Created(p) == pod' = [pod EXCEPT ![p] = "up"]
Given(p) == podId' = p /\ received' = received \cup {p}
DeleteSent(p) == tried' = tried \cup ({p} \ {NoPod})
Deleted(p) == pod' = [pod EXCEPT ![p] = "deleted"]

\* A create whose answer is lost may have created a pod.
MaybeCreated == pod' = pod \/ \E p \in Fresh : Created(p)
\* A DELETE may fail, or be answered with an error.
MaybeDeleted(p) == pod' = pod \/ (p \in Pods /\ Deleted(p))

Signal(s) == s \in signals /\ signals' = signals \ {s}
Dies == pc' = "ended" /\ cutShort' = TRUE
==============================================================================
