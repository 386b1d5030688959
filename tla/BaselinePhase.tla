---------------------------- MODULE BaselinePhase ----------------------------
(***************************************************************************)
(* A profiling phase of src/scripts/run_all_baselines.sh (lines 448-462):  *)
(* the GPU monitor is started in the background, the profiling script runs *)
(* in the foreground, the monitor is told to stop.  Under "set -e" a       *)
(* script that fails ends the shell there, and nobody stops the monitor.   *)
(* Phase 4, which records with py-spy, is the same without a monitor: the  *)
(* script's choice to go on after the sweep stands for it.                 *)
(***************************************************************************)
EXTENDS SchedulerProfile, GpuMonitor

VARIABLE shell      \* where the phase is

phaseVars == <<profileVars, monitorVars, shell>>

PhaseInit == ProfileInit /\ MonitorInit /\ shell = "start"

StartMonitor == shell = "start" /\ shell' = "profile" /\ Spawn /\ UNCHANGED profileVars

\* The script in the foreground
Profile == shell = "profile" /\ ProfileNext /\ UNCHANGED <<monitorVars, shell>>
Monitor == (MonitorStep \/ Kill) /\ UNCHANGED <<profileVars, shell>>

\* stop_gpu_monitor(): "kill -0" finds no process if the monitor has ended.
StopMonitor ==
    /\ shell = "profile" /\ mainPc = "done" /\ shell' = "wait"
    /\ (MonitorEnded /\ UNCHANGED monitorVars) \/ SigTerm
    /\ UNCHANGED profileVars
EndPhase == shell = "wait" /\ MonitorEnded /\ shell' = "done" /\ UNCHANGED <<profileVars, monitorVars>>
ShellFails ==
    /\ shell = "profile" /\ mainPc = "exited" /\ shell' = "failed"
    /\ UNCHANGED <<profileVars, monitorVars>>

PhaseNext == StartMonitor \/ Profile \/ Monitor \/ StopMonitor \/ EndPhase \/ ShellFails

\* The shell and the monitor are processes that are scheduled; the event loop
\* runs its ready tasks and its timers, and py-spy records for a given time.
\* The server owes nothing, and the monitor need not begin a turn; a turn it
\* has begun goes on to its end.
Script(A) == shell = "profile" /\ A /\ UNCHANGED <<monitorVars, shell>>
MonitorRuns == Ready \/ (taken > 0 /\ SampleRow) \/ EndTurn \/ Stop
Fairness ==
    /\ WF_phaseVars(StartMonitor \/ StopMonitor \/ EndPhase \/ ShellFails)
    /\ WF_phaseVars(MonitorRuns /\ UNCHANGED <<profileVars, shell>>)
    /\ WF_phaseVars(Script(ScriptMain))
    /\ \A i \in Requests : WF_phaseVars(Script(LoopTurn(i)))
PhaseSpec == PhaseInit /\ [][PhaseNext]_phaseVars /\ Fairness

------------------------------------------------------------------------------
(* Properties *)

\* The types of the two programs; where the shell is.
PhaseTypeOK ==
    /\ ProfileTypeOK /\ MonitorTypeOK
    /\ shell \in {"start", "profile", "wait", "done", "failed"}

\* The runs of a sweep do not disturb each other: a run never has more requests
\* with the server than its concurrency level; in the summary of a run with a
\* successful request each request is counted once, as successful or failed (a
\* run without one has no counts); and when main() goes on no request is still
\* out and the collector has stopped, whatever the server did, in any order.
RunsAreWhole ==
    /\ PhaseTypeOK
    /\ Cardinality(Permits) <= limit
    /\ \A k \in DOMAIN runs : runs[k] # NoCounts => runs[k].ok + runs[k].failed = N
    /\ mainPc \in {"sweep", "find", "load", "cprofile", "done"} => In(Pending) = {}
    /\ sampler = "on" => mainPc = "running"

\* gpu_monitor.py "writes incrementally to CSV": when it stops on a signal
\* every sampled row is in the file; when it is killed, in the middle of a turn
\* too, less than a buffer and the rows of one turn are lost.
RowsKept ==
    /\ monitor = "over" => written = sampled
    /\ sampled - written < FlushInterval + Rows

\* A phase ends, even when the server never answers a request: the timeouts
\* end the runs, and stop_gpu_monitor() ends the monitor it waits for.
PhaseEnds == <>(shell \in {"done", "failed"})

\* "Generate load while py-spy is recording": as long as the background load
\* has requests to send, the recorded server has one to work on.  The code
\* violates it: the recording blocks the event loop that would send them.
LoadWhileRecording ==
    mainPc = "recording" /\ In({"waiting"}) # {} => In({"sent"}) # {}
==============================================================================
