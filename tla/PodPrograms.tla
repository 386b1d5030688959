----------------------------- MODULE PodPrograms -----------------------------
(***************************************************************************)
(* The programs that rent a pod, one of which runs: the Path C bench or    *)
(* its probe, the preflight, or reproduce-hero.                            *)
(***************************************************************************)
EXTENDS PathCOrchestrator, PreflightOrchestrator, ReproduceHero

vars == <<podVars, pathVars, heroVars>>

Init == PodInit({"path_c", "probe", "preflight", "hero"}) /\ PathInit /\ HeroInit

Ended == pc = "ended" /\ UNCHANGED vars
Next ==
    \/ PathNext /\ UNCHANGED heroVars
    \/ PreflightNext /\ UNCHANGED <<pathVars, heroVars>>
    \/ HeroNext /\ UNCHANGED pathVars
    \/ Ended

Spec == Init /\ [][Next]_vars

\* The program goes on: every wait has a deadline, and a call that hangs ends
\* some time (with or without effect).  No signal has to come.
FairSpec ==
    /\ Spec
    /\ WF_vars(PathSteps /\ UNCHANGED heroVars)
    /\ WF_vars(PreflightSteps /\ UNCHANGED <<pathVars, heroVars>>)
    /\ WF_vars(HeroSteps /\ UNCHANGED pathVars)
    /\ WF_vars((\E k \in 1..PoolSize : LateCall(k)) /\ UNCHANGED heroVars)

------------------------------------------------------------------------------
(* Properties *)

\* Types; a program knows a pod's id only if it was given it.
TypeOK ==
    /\ pod \in [Pods -> {"none", "up", "deleted"}]
    /\ podId \in received \cup {NoPod}
    /\ received \cup tried \subseteq Pods
    /\ rc \in {0, 1, 2, 130}
    /\ attempts \in 0..MaxCreates
    /\ Len(results) <= Cells /\ strays \subseteq 1..Cells
    /\ \A k \in DOMAIN leaked : leaked[k].id \in Pods \cup {NoPod}

\* However attempts fail, waits time out, calls hang and signals fall, a
\* program that ends by itself has sent a DELETE for every pod whose id it was
\* given, unless it was told to keep it.
EveryPodIsGivenBack ==
    /\ TypeOK
    /\ pc = "ended" /\ ~cutShort /\ ~(program = "hero" /\ noDelete) => received \subseteq tried

\* The Path C bench returns 0 only with a result for each cell, the skipped
\* ones last: over budget, no further cell has run.
CellsAccounted ==
    program = "path_c" /\ pc = "ended" /\ rc = 0 /\ ~cutShort =>
        /\ Len(results) = Cells
        /\ \A i, j \in DOMAIN results :
              i < j /\ results[i] = "SKIPPED_COST" => results[j] = "SKIPPED_COST"

\* Every program ends: retries are counted, and a pool whose workers all hang
\* delays the exit of the interpreter, but not for ever.
ProgramEnds == <>(pc = "ended")

\* hero.py:427 "Register the SIGINT handler BEFORE the bench starts so Ctrl-C
\* always reaches the cleanup path": no pod is left behind by Ctrl-C.  The code
\* violates it while ensure_pod() waits for the pod.
CtrlCReachesCleanup ==
    program = "hero" /\ pc = "ended" /\ rc = 130 /\ ~noDelete => received \subseteq tried
==============================================================================
