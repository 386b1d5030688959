-------------------------- MODULE SchedulerProfile --------------------------
(***************************************************************************)
(* profile_vllm_scheduler.py and profile_sglang_scheduler.py               *)
(* (src/profiling/scripts): the connectivity check, the sweep over the     *)
(* concurrency levels with its repeats, and the internal profiling that    *)
(* records the server with py-spy while a background task loads it.        *)
(***************************************************************************)
EXTENDS BenchmarkClient, Sequences

CONSTANTS
    Levels,         \* --concurrency, a sequence
    Repeats,        \* --repeats
    LoadLevel       \* the concurrency of the background load

ASSUME LevelsAssumption ==
    Levels \in Seq(Nat \ {0}) /\ Repeats \in Nat \ {0} /\ LoadLevel \in Nat \ {0}

VARIABLES
    mainPc,         \* where main() is
    runs,           \* the summaries of the runs of the sweep, in order
    target          \* what py-spy is attached to

profileVars == <<clientVars, mainPc, runs, target>>

ProfileInit ==
    /\ ClientInit
    /\ mainPc = "health" /\ runs = <<>> /\ target = "none"

Go(from, to) == mainPc = from /\ mainPc' = to

\* check_engine_health(), else sys.exit(1)
CheckHealth ==
    /\ mainPc = "health" /\ mainPc' \in {"sweep", "exited"}
    /\ UNCHANGED <<clientVars, runs, target>>

\* run_external_profiling(): one client and one collector for each run
Sweep == Len(Levels) * Repeats
LevelOf(k) == Levels[((k - 1) \div Repeats) + 1]
StartRun ==
    /\ Len(runs) < Sweep
    /\ Go("sweep", "running") /\ Begin(LevelOf(Len(runs) + 1), TRUE)
    /\ UNCHANGED <<runs, target>>
\* summary(): the counts, or an error and no counts if no request succeeded.
NoCounts == [error |-> "no successful requests"]
Counts == [ok : 1..N, failed : 0..N]
Summary ==
    IF In({"ok"}) = {} THEN NoCounts
    ELSE [ok |-> Cardinality(In({"ok"})), failed |-> Cardinality(In({"failed"}))]
EndRun ==
    /\ Go("running", "sweep") /\ End(TRUE)
    /\ runs' = Append(runs, Summary)
    /\ UNCHANGED target

\* The summaries are saved; main() goes on if --profile-internal was given, as
\* phase 4 of run_all_baselines.sh does (line 586).
EndSweep ==
    /\ Len(runs) = Sweep
    /\ \E internal \in BOOLEAN : Go("sweep", IF internal THEN "find" ELSE "done")
    /\ UNCHANGED <<clientVars, runs, target>>

\* find_*_server_pid() finds a server that is a local process; the last pattern
\* of the SGLang script, "python.*sglang", also matches the command line of the
\* script itself.
FindServer ==
    /\ mainPc = "find"
    /\ \E local \in BOOLEAN, engine \in {"vllm", "sglang"} :
         target' = IF local THEN "server" ELSE IF engine = "sglang" THEN "self" ELSE "none"
    /\ mainPc' = IF target' = "none" THEN "cprofile" ELSE "load"
    /\ UNCHANGED <<clientVars, runs>>

\* The background load starts and has two seconds of the event loop.
StartLoad == Go("load", "warm") /\ Begin(LoadLevel, FALSE) /\ UNCHANGED <<runs, target>>

\* run_pyspy_profiling() holds the event loop until py-spy is done, if there
\* is a py-spy; a failed recording is logged.
StartRecording == Go("warm", "recording") /\ UNCHANGED <<clientVars, runs, target>>
EndRecording == Go("recording", "await") /\ UNCHANGED <<clientVars, runs, target>>

\* await load_task
EndLoad == Go("await", "cprofile") /\ End(FALSE) /\ UNCHANGED <<runs, target>>

\* run_cprofile_analysis() of the vLLM script patches the scheduler and puts
\* it back in one go; the SGLang script has none, and returns without a PID.
Finish == Go("cprofile", "done") /\ UNCHANGED <<clientVars, runs, target>>

\* What a request raised ends the program at the await of its run.
Traceback ==
    /\ mainPc \in {"running", "await"} /\ Raised
    /\ mainPc' = "exited"
    /\ sampler' = "none"    \* a daemon thread
    /\ UNCHANGED <<limit, req, tokenizer, runs, target>>

\* A task of the event loop runs while main() awaits.
LoopFree == mainPc \in {"running", "warm", "await"}
Client(i) == LoopFree /\ ClientStep(i) /\ UNCHANGED <<mainPc, runs, target>>
Server(i) == Serve(i) /\ UNCHANGED <<mainPc, runs, target>>

ScriptMain ==
    \/ CheckHealth \/ StartRun \/ EndRun \/ EndSweep \/ FindServer \/ StartLoad
    \/ StartRecording \/ EndRecording \/ EndLoad \/ Finish \/ Traceback
ProfileNext == ScriptMain \/ \E i \in Requests : Client(i) \/ Server(i)

\* What the event loop runs by itself: ready tasks and timers.
LoopTurn(i) == LoopFree /\ (Send(i) \/ Read(i) \/ TimeOut(i)) /\ UNCHANGED <<mainPc, runs, target>>

ProfileTypeOK ==
    /\ ClientTypeOK
    /\ mainPc \in {"health", "sweep", "running", "find", "load", "warm", "recording",
               "await", "cprofile", "done", "exited"}
    /\ runs \in Seq(Counts \cup {NoCounts}) /\ Len(runs) <= Sweep
    /\ target \in {"none", "server", "self"}
==============================================================================
