---------------------------- MODULE ReproduceHero ----------------------------
(***************************************************************************)
(* `kvwarden bench reproduce-hero --pod`: run_reproduce_hero() of          *)
(* src/src/kvwarden/_bench/hero.py with ensure_pod(), PodContext and       *)
(* pod_signal_handler() of _bench/pod.py.  The signal handlers are         *)
(* installed when ensure_pod() has returned; what runs before them dies of *)
(* a signal as Python does.                                                *)
(***************************************************************************)
EXTENDS RunPod

VARIABLES
    noDelete,       \* --no-delete
    tornDown        \* PodContext._torn_down

heroVars == <<noDelete, tornDown>>
HeroInit == noDelete \in BOOLEAN /\ tornDown = FALSE

Hero == program = "hero" /\ pc # "ended"
HStay == UNCHANGED <<program, signals, cutShort, pool, noDelete>>
HGoto(to) ==
    pc' = to /\ UNCHANGED <<pod, podId, rc, received, tried, tornDown>> /\ HStay
HExit(to, status) ==
    pc' = to /\ rc' = status /\ UNCHANGED <<pod, podId, received, tried, tornDown>> /\ HStay

------------------------------------------------------------------------------
(* ensure_pod() *)

HPrerequisites == Hero /\ pc = "start" /\ (HGoto("creating") \/ HExit("ended", 2))

HCreateOk(p) ==
    /\ Hero /\ pc = "creating" /\ p \in Fresh
    /\ Created(p) /\ Given(p)
    /\ pc' = "waiting"
    /\ UNCHANGED <<rc, tried, tornDown>> /\ HStay
\* It raises, or the answer names no pod.
HCreateFails ==
    /\ Hero /\ pc = "creating"
    /\ MaybeCreated
    /\ pc' = "ended" /\ rc' = 2
    /\ UNCHANGED <<podId, received, tried, tornDown>> /\ HStay

\* _wait_for_proxy(); when it raises the pod is terminated, then it bails.
HProxyUp == Hero /\ pc = "waiting" /\ pod[podId] = "up" /\ HGoto("probing")
HNoProxy ==
    /\ Hero /\ pc = "waiting"
    /\ DeleteSent(podId) /\ MaybeDeleted(podId)
    /\ pc' = "ended" /\ rc' = 2
    /\ UNCHANGED <<podId, received, tornDown>> /\ HStay

------------------------------------------------------------------------------
(* The bench: under the handlers, and in the try *)

HNotListening == Hero /\ pc = "probing" /\ HExit("finally", 2)
HListening == Hero /\ pc = "probing" /\ HGoto("preflight")

\* _import_bench_module() and _preflight_server()
HServerNotReady == Hero /\ pc = "preflight" /\ (\E s \in {1, 2} : HExit("finally", s))
HServerReady == Hero /\ pc = "preflight" /\ HGoto("bench")

\* _run_bench_with_progress(): raises, or a status other than 0.
HBenchFails == Hero /\ pc = "bench" /\ HExit("finally", 1)
HBenchDone == Hero /\ pc = "bench" /\ HGoto("reporting")

\* _load_summary(), _flooder_rate(), _build_report(), report.json
HNoSummary == Hero /\ pc = "reporting" /\ HExit("finally", 1)
HReported == Hero /\ pc = "reporting" /\ HGoto("finally")

\* teardown(): once; a failure is printed and counts as done.
Teardown ==
    /\ tornDown' = TRUE
    /\ IF tornDown \/ noDelete
         THEN UNCHANGED <<pod, tried>>
         ELSE DeleteSent(podId) /\ MaybeDeleted(podId)

HFinally ==
    /\ Hero /\ pc = "finally"
    /\ IF noDelete THEN UNCHANGED <<pod, tried, tornDown>> ELSE Teardown
    /\ pc' = "ended"
    /\ UNCHANGED <<podId, rc, received>> /\ HStay

\* _handler(): teardown(), then SystemExit(130) unwinds through finally.
Handled == {"probing", "preflight", "bench", "reporting", "finally"}
HHandler(s) ==
    /\ Hero /\ Signal(s) /\ pc \in Handled
    /\ Teardown
    /\ pc' = "finally" /\ rc' = 130
    /\ UNCHANGED <<program, podId, received, cutShort, pool, noDelete>>

\* A signal while the pod is created or waited for: no clause catches it.
HDies(s) ==
    /\ Hero /\ Signal(s) /\ pc \in {"creating", "waiting"}
    /\ IF pc = "creating" THEN MaybeCreated ELSE UNCHANGED pod
    /\ Dies /\ rc' = 130
    /\ UNCHANGED <<program, podId, received, tried, pool, heroVars>>

HeroSteps ==
    \/ HPrerequisites \/ HCreateFails \/ HProxyUp \/ HNoProxy
    \/ HNotListening \/ HListening \/ HServerNotReady \/ HServerReady
    \/ HBenchFails \/ HBenchDone \/ HNoSummary \/ HReported \/ HFinally
    \/ \E p \in Pods : HCreateOk(p)
HeroNext == HeroSteps \/ \E s \in {"INT", "TERM"} : HHandler(s) \/ HDies(s)
==============================================================================
