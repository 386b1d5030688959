----------------------------- MODULE GpuMonitor -----------------------------
(***************************************************************************)
(* src/scripts/gpu_monitor.py: a process that samples the GPUs into a      *)
(* buffer, writes the buffer to a CSV file when it is long enough, and     *)
(* writes the rest when SIGTERM or SIGINT told it to stop.                 *)
(***************************************************************************)
EXTENDS Integers

CONSTANTS
    Gpus,           \* number of valid handles; 0: NVML or the GPUs are missing
    FlushInterval,  \* _flush_interval
    MaxRows         \* bound: rows sampled

ASSUME MonitorAssumption == Gpus \in Nat /\ FlushInterval \in Nat \ {0} /\ MaxRows \in Nat

VARIABLES
    monitor,        \* what the process is doing
    shutdown,       \* _shutdown_requested
    taken,          \* rows appended in the current turn of the loop
    buffer,         \* rows in _buffer
    written,        \* rows flushed to the file
    sampled         \* sample_count

rowVars == <<taken, buffer, written, sampled>>
monitorVars == <<monitor, shutdown, rowVars>>

MonitorInit ==
    /\ monitor = "off" /\ shutdown = FALSE
    /\ taken = 0 /\ buffer = 0 /\ written = 0 /\ sampled = 0

Spawn == monitor = "off" /\ monitor' = "starting" /\ UNCHANGED <<shutdown, rowVars>>

\* main() installs the handlers and finds the GPUs.
Ready ==
    /\ monitor = "starting"
    /\ monitor' = IF Gpus = 0 THEN "over" ELSE "loop"
    /\ UNCHANGED <<shutdown, rowVars>>

\* A turn of the loop: a row for each GPU, with the calls of NVML between them,
\* and one for all GPUs if there are several; only then the length of the
\* buffer is tested.  The flag is read when a turn begins.
Rows == IF Gpus > 1 THEN Gpus + 1 ELSE Gpus
SampleRow ==
    /\ monitor = "loop" /\ taken < Rows
    /\ taken = 0 => ~shutdown /\ sampled + Rows <= MaxRows
    /\ taken' = taken + 1 /\ buffer' = buffer + 1 /\ sampled' = sampled + 1
    /\ UNCHANGED <<monitor, shutdown, written>>
EndTurn ==
    /\ monitor = "loop" /\ taken > 0 /\ taken = Rows
    /\ taken' = 0
    /\ IF buffer >= FlushInterval
         THEN buffer' = 0 /\ written' = written + buffer
         ELSE UNCHANGED <<buffer, written>>
    /\ UNCHANGED <<monitor, shutdown, sampled>>

\* After the loop: the final flush, and the file is closed.
StopUnflushed ==
    /\ monitor = "loop" /\ shutdown /\ taken = 0
    /\ monitor' = "over"
    /\ UNCHANGED <<shutdown, rowVars>>
Stop ==
    /\ monitor = "loop" /\ shutdown /\ taken = 0
    /\ monitor' = "over" /\ written' = written + buffer /\ buffer' = 0
    /\ UNCHANGED <<shutdown, taken, sampled>>

\* SIGTERM: before the handlers are installed it ends the process.
SigTerm ==
    /\ \/ monitor = "starting" /\ monitor' = "killed" /\ UNCHANGED shutdown
       \/ monitor = "loop" /\ ~shutdown /\ shutdown' = TRUE /\ UNCHANGED monitor
    /\ UNCHANGED rowVars
\* SIGKILL, or the end of the machine
Kill ==
    /\ monitor \in {"starting", "loop"} /\ monitor' = "killed"
    /\ UNCHANGED <<shutdown, rowVars>>

MonitorStep == Ready \/ SampleRow \/ EndTurn \/ Stop
MonitorEnded == monitor \in {"over", "killed"}

MonitorTypeOK ==
    /\ monitor \in {"off", "starting", "loop", "over", "killed"}
    /\ shutdown \in BOOLEAN
    /\ taken \in 0..Rows
    /\ {buffer, written, sampled} \subseteq 0..MaxRows
==============================================================================
