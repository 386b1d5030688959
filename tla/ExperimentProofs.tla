-------------------------- MODULE ExperimentProofs ---------------------------
(***************************************************************************)
(* The programs around the experiments.  A profiling phase: the rows of    *)
(* the GPU monitor and the runs of the sweep, for every number of GPUs,    *)
(* requests, levels and repeats, every flush interval and whatever the     *)
(* server does.  And the programs that rent a pod, for every number of     *)
(* pods, attempts, cells and API calls that hang.                          *)
(***************************************************************************)
EXTENDS BaselinePhase, PodPrograms, FiniteSetTheorems, TLAPS

------------------------------------------------------------------------------
(* A profiling phase *)

\* Every sampled row is in the buffer or in the file.  The buffer is longer than
\* a flush allows only by rows of the current turn; it is empty until the loop
\* begins and once the monitor has ended by itself.
RowsInv ==
    /\ buffer \in Nat /\ written \in Nat
    /\ taken \in 0..Rows
    /\ sampled = written + buffer
    /\ buffer < FlushInterval + taken
    /\ monitor \in {"off", "starting", "over"} => buffer = 0 /\ taken = 0

(* A turn of the loop has a row for each GPU, and perhaps one for all.      *)
LEMMA RowsType == Rows \in Nat
BY MonitorAssumption DEF Rows

(* The monitor starts with an empty buffer. *)
LEMMA InitRows == PhaseInit => RowsInv
BY RowsType, MonitorAssumption DEF PhaseInit, MonitorInit, RowsInv

(* A turn of the loop adds a row to the buffer; when it ends the buffer is  *)
(* flushed, or shorter than a flush needs.                                  *)
LEMMA TurnRows == RowsInv /\ (SampleRow \/ EndTurn) => RowsInv'
<1> SUFFICES ASSUME RowsInv, SampleRow \/ EndTurn PROVE RowsInv' OBVIOUS
<1>1. CASE SampleRow
  <2>1. /\ taken' = taken + 1 /\ buffer' = buffer + 1 /\ sampled' = sampled + 1
        /\ written' = written /\ monitor' = "loop" /\ taken < Rows
    BY <1>1 DEF SampleRow
  <2>2. Rows' = Rows BY DEF Rows
  <2>3. QED BY <2>1, <2>2, RowsType, MonitorAssumption DEF RowsInv
<1>2. CASE EndTurn
  <2>1. taken' = 0 /\ sampled' = sampled /\ monitor' = "loop"
    BY <1>2 DEF EndTurn
  <2>2. CASE buffer >= FlushInterval
    BY <1>2, <2>1, <2>2, RowsType, MonitorAssumption DEF RowsInv, EndTurn, Rows
  <2>3. CASE ~(buffer >= FlushInterval)
    BY <1>2, <2>1, <2>3, RowsType, MonitorAssumption DEF RowsInv, EndTurn, Rows
  <2>4. QED BY <2>2, <2>3
<1>3. QED BY <1>1, <1>2

(* No step of the monitor, of the shell or of the script loses a row. *)
LEMMA StepRows == RowsInv /\ [PhaseNext]_phaseVars => RowsInv'
<1> SUFFICES ASSUME RowsInv, [PhaseNext]_phaseVars PROVE RowsInv' OBVIOUS
<1> USE MonitorAssumption, RowsType DEF rowVars
<1>0. Rows' = Rows BY DEF Rows
<1>1. CASE StartMonitor BY <1>0, <1>1 DEF StartMonitor, Spawn, RowsInv
<1>2. CASE Monitor
  <2>1. CASE Ready BY <1>0, <2>1 DEF Ready, RowsInv
  <2>2. CASE SampleRow \/ EndTurn BY <2>2, TurnRows
  <2>3. CASE Stop BY <1>0, <2>3 DEF Stop, RowsInv
  <2>4. CASE Kill BY <1>0, <2>4 DEF Kill, RowsInv
  <2>5. QED BY <1>2, <2>1, <2>2, <2>3, <2>4 DEF Monitor, MonitorStep
<1>3. CASE StopMonitor
  <2>1. CASE SigTerm BY <1>0, <2>1 DEF SigTerm, RowsInv
  <2>2. CASE UNCHANGED monitorVars BY <1>0, <2>2 DEF monitorVars, RowsInv
  <2>3. QED BY <1>3, <2>1, <2>2 DEF StopMonitor
<1>4. CASE Profile \/ EndPhase \/ ShellFails \/ UNCHANGED phaseVars
  BY <1>0, <1>4 DEF Profile, EndPhase, ShellFails, phaseVars, monitorVars, RowsInv
<1>5. QED BY <1>1, <1>2, <1>3, <1>4 DEF PhaseNext

(* gpu_monitor.py's incremental writing: when it ends on a signal every row *)
(* is in the file; a kill at any moment, between two rows of a turn or      *)
(* before its flush too, loses less than a buffer and the rows of one turn. *)
THEOREM RowsAreKept == PhaseSpec => []RowsKept
<1>1. RowsInv => RowsKept BY RowsType, MonitorAssumption DEF RowsInv, RowsKept
<1>2. QED BY <1>1, InitRows, StepRows, PTL DEF PhaseSpec
------------------------------------------------------------------------------
(* The runs of the sweep *)

(* The k-th run of the sweep has a level: (k - 1) / Repeats is below the   *)
(* number of levels.                                                       *)
LEMMA QuotientBound ==
    ASSUME NEW x \in Nat, NEW n \in Nat, NEW d \in Nat \ {0}, x < n * d
    PROVE  x \div d \in 0 .. n - 1
<1>1. x \div d \in Nat /\ d * (x \div d) <= x
  OBVIOUS
<1>2. ASSUME x \div d >= n PROVE FALSE
  <2>1. d * (x \div d) >= d * n
    BY <1>1, <1>2
  <2>2. QED BY <1>1, <2>1
<1>3. QED BY <1>1, <1>2

(* Every run has a concurrency level.                                      *)
LEMMA LevelOfRun == ASSUME NEW k \in 1 .. Sweep PROVE LevelOf(k) \in Nat \ {0}
<1>1. k - 1 \in Nat /\ k - 1 < Len(Levels) * Repeats /\ Len(Levels) \in Nat
  BY LevelsAssumption DEF Sweep
<1>2. (k - 1) \div Repeats \in 0 .. Len(Levels) - 1
  BY <1>1, QuotientBound, LevelsAssumption
<1>3. ((k - 1) \div Repeats) + 1 \in 1 .. Len(Levels)
  BY <1>1, <1>2
<1>4. QED BY <1>3, LevelsAssumption DEF LevelOf

(* The requests of a run are finitely many: each set of them has a size.   *)
LEMMA InFinite == \A S : IsFiniteSet(In(S)) /\ Cardinality(In(S)) \in 0 .. N
<1> SUFFICES ASSUME NEW S PROVE IsFiniteSet(In(S)) /\ Cardinality(In(S)) \in 0 .. N
  OBVIOUS
<1>1. IsFiniteSet(Requests) /\ Cardinality(Requests) = N
  BY NAssumption, FS_Interval DEF Requests
<1>2. In(S) \in SUBSET Requests
  BY DEF In
<1>3. /\ IsFiniteSet(In(S)) /\ Cardinality(In(S)) <= Cardinality(Requests)
      /\ Cardinality(In(S)) \in Nat
  BY <1>1, <1>2, FS_Subset, FS_CardinalityType
<1>4. QED BY <1>1, <1>3, NAssumption

(* A gathered run with a successful request has counted each request once. *)
LEMMA GatheredSum ==
    ASSUME Gathered
    PROVE  /\ Summary \in Counts \cup {NoCounts}
           /\ Summary # NoCounts => Summary.ok + Summary.failed = N
<1>1. In({"ok"}) \cup In({"failed"}) = Requests /\ In({"ok"}) \cap In({"failed"}) = {}
  BY DEF Gathered, In
<1>2. Cardinality(Requests) = N
  BY NAssumption, FS_Interval DEF Requests
<1>3. Cardinality(In({"ok"}) \cup In({"failed"}))
         = Cardinality(In({"ok"})) + Cardinality(In({"failed"}))
              - Cardinality(In({"ok"}) \cap In({"failed"}))
  BY InFinite, FS_Union
<1>4. Cardinality(In({"ok"})) \in Int /\ Cardinality(In({"failed"})) \in Int
  BY InFinite
<1>5. Cardinality({}) = 0
  BY FS_EmptySet
<1>6. Cardinality(In({"ok"})) + Cardinality(In({"failed"})) = N
  <2>1. /\ Cardinality(In({"ok"}) \cup In({"failed"})) = N
        /\ Cardinality(In({"ok"}) \cap In({"failed"})) = 0
    BY <1>1, <1>2, <1>5, Zenon
  <2>2. QED BY <1>3, <1>4, <2>1, NAssumption
<1>7. CASE In({"ok"}) = {} BY <1>7 DEF Summary
<1>8. CASE In({"ok"}) # {}
  <2>1. Cardinality(In({"ok"})) # 0
    BY <1>8, InFinite, FS_EmptySet
  <2>2. Cardinality(In({"ok"})) \in 1..N /\ Cardinality(In({"failed"})) \in 0..N
    BY <2>1, InFinite, NAssumption
  <2>3. Summary = [ok |-> Cardinality(In({"ok"})), failed |-> Cardinality(In({"failed"}))]
    BY <1>8 DEF Summary
  <2>4. QED BY <1>6, <2>2, <2>3 DEF Counts
<1>9. QED BY <1>7, <1>8

\* The run in progress, the sweep so far, and what is left over between runs.
RunInv == ProfileTypeOK /\ Cardinality(Permits) <= limit
SweepInv ==
    /\ \A k \in DOMAIN runs : runs[k] # NoCounts => runs[k].ok + runs[k].failed = N
    /\ mainPc = "running" => Len(runs) < Sweep
BetweenInv ==
    /\ mainPc \in {"health", "sweep", "find", "load", "cprofile", "done"} => In(Pending) = {}
    /\ sampler = "on" => mainPc = "running"
ScriptInv == RunInv /\ SweepInv /\ BetweenInv

(* The script has made no run.                                             *)
LEMMA InitScript == ProfileInit => ScriptInv
<1> SUFFICES ASSUME ProfileInit PROVE ScriptInv
  OBVIOUS
<1> USE DEF ProfileInit, ClientInit
<1>1. In(Pending) = {} /\ Permits = {}
  BY DEF In, Pending, Permits
<1>2. runs \in Seq(Counts \cup {NoCounts}) /\ Len(runs) = 0 /\ DOMAIN runs = {}
  OBVIOUS
<1>3. Sweep \in Nat
  BY LevelsAssumption DEF Sweep
<1>4. ProfileTypeOK
  <2>1. ClientTypeOK
    BY DEF ClientTypeOK, Pending, Over
  <2>2. Len(runs) <= Sweep
    BY <1>2, <1>3
  <2>3. QED BY <1>2, <2>1, <2>2 DEF ProfileTypeOK
<1>5. QED BY <1>1, <1>2, <1>4, FS_EmptySet DEF ScriptInv, RunInv, SweepInv, BetweenInv

(* While requests only leave the server, the limit is respected.           *)
LEMMA FewerPermits ==
    ASSUME RunInv, Permits' \subseteq Permits, UNCHANGED limit
    PROVE  Cardinality(Permits') <= limit'
<1>1. IsFiniteSet(Permits) /\ Cardinality(Permits) \in 0 .. N
  BY InFinite DEF Permits
<1>2. Cardinality(Permits') <= Cardinality(Permits) /\ Cardinality(Permits') \in Nat
  BY <1>1, FS_Subset, FS_CardinalityType
<1>3. limit \in Nat /\ Cardinality(Permits) <= limit
  BY DEF RunInv, ProfileTypeOK, ClientTypeOK
<1>4. QED BY <1>1, <1>2, <1>3

(* A task of the run, or the server, takes a step: Send is the only one    *)
(* that brings a request to the server.                                    *)
LEMMA RequestSteps ==
    ASSUME RunInv, NEW i \in Requests, ClientStep(i) \/ Serve(i)
    PROVE  /\ ClientTypeOK' /\ Cardinality(Permits') <= limit'
           /\ UNCHANGED sampler
<1> USE DEF ClientTypeOK, In, Permits, Pending, Over
<1>0. ClientTypeOK
  BY DEF RunInv, ProfileTypeOK
<1>1. CASE Send(i)
  <2>1. i \notin Permits /\ Permits' = Permits \cup {i} /\ Cardinality(Permits) < limit
    BY <1>0, <1>1 DEF Send
  <2>2. IsFiniteSet(Permits) /\ Cardinality(Permits) \in 0 .. N
    BY InFinite
  <2> HIDE DEF In, Permits
  <2>3. Cardinality(Permits') = Cardinality(Permits) + 1
    BY <2>1, <2>2, FS_AddElement
  <2>4. limit \in Nat /\ limit' = limit
    BY <1>0, <1>1 DEF Send
  <2>5. ClientTypeOK' /\ UNCHANGED sampler
    BY <1>0, <1>1 DEF Send
  <2>6. QED BY <2>1, <2>2, <2>3, <2>4, <2>5
<1>2. ASSUME Permits' \subseteq Permits, UNCHANGED <<limit, sampler>>, ClientTypeOK'
      PROVE  /\ ClientTypeOK' /\ Cardinality(Permits') <= limit'
             /\ UNCHANGED sampler
  BY <1>2, FewerPermits
<1>3. CASE Serve(i)
  BY <1>0, <1>2, <1>3 DEF Serve
<1>4. CASE Read(i) \/ TimeOut(i)
  BY <1>0, <1>2, <1>4 DEF Read, TimeOut, Record
<1>5. CASE Raise(i)
  BY <1>0, <1>2, <1>5 DEF Raise
<1>6. QED BY <1>1, <1>3, <1>4, <1>5 DEF ClientStep

(* A run begins with all its requests waiting.                             *)
LEMMA BeginRun ==
    ASSUME ClientTypeOK, NEW c \in Nat \ {0}, NEW collector \in BOOLEAN, Begin(c, collector)
    PROVE  ClientTypeOK' /\ Cardinality(Permits') <= limit'
<1>1. ClientTypeOK'
  BY DEF Begin, ClientTypeOK, Pending, Over
<1>2. Permits' = {}
  BY DEF Begin, Permits, In
<1>3. QED BY <1>1, <1>2, FS_EmptySet DEF Begin

(* It ends with none of them out.                                          *)
LEMMA EndOfRun ==
    ASSUME RunInv, NEW collector \in BOOLEAN, End(collector)
    PROVE  /\ ClientTypeOK' /\ Cardinality(Permits') <= limit'
           /\ In(Pending)' = {} /\ Gathered
           /\ collector \/ sampler # "on" => sampler' # "on"
<1>1. Permits' \subseteq Permits /\ UNCHANGED limit
  BY DEF End, Permits, In
<1>2. ClientTypeOK'
  BY DEF End, RunInv, ProfileTypeOK, ClientTypeOK
<1>3. In(Pending)' = {}
  BY DEF End, Gathered, In, Pending
<1>4. QED BY <1>1, <1>2, <1>3, FewerPermits DEF End

(* main() goes from one run to the next.                                   *)
LEMMA MainStep == ScriptInv /\ ScriptMain => ScriptInv'
<1> SUFFICES ASSUME ScriptInv, ScriptMain PROVE ScriptInv'
  OBVIOUS
<1> DEFINE Places == {"health", "sweep", "running", "find", "load", "warm", "recording",
                      "await", "cprofile", "done", "exited"}
           Quiet == {"health", "sweep", "find", "load", "cprofile", "done"}
           Kept == ClientTypeOK' /\ Cardinality(Permits') <= limit'
<1>0. /\ ClientTypeOK /\ Cardinality(Permits) <= limit
      /\ mainPc \in Places /\ target \in {"none", "server", "self"}
      /\ runs \in Seq(Counts \cup {NoCounts}) /\ Len(runs) <= Sweep
      /\ \A k \in DOMAIN runs : runs[k] # NoCounts => runs[k].ok + runs[k].failed = N
      /\ mainPc \in Quiet => In(Pending) = {}
      /\ sampler = "on" => mainPc = "running"
      /\ mainPc = "running" => Len(runs) < Sweep
  BY DEF ScriptInv, RunInv, ProfileTypeOK, SweepInv, BetweenInv
<1>c. UNCHANGED clientVars => Kept /\ In(Pending)' = In(Pending)
  BY <1>0 DEF clientVars, ClientTypeOK, Permits, In
<1>s. ASSUME Kept, UNCHANGED runs, mainPc' \in Places, target' \in {"none", "server", "self"},
             mainPc' \in Quiet => In(Pending)' = {},
             sampler' = "on" => mainPc' = "running",
             mainPc' = "running" => Len(runs) < Sweep
      PROVE  ScriptInv'
  <2>1. ProfileTypeOK' /\ SweepInv'
    BY <1>0, <1>s DEF ProfileTypeOK, SweepInv, Sweep
  <2>2. QED BY <1>s, <2>1 DEF ScriptInv, RunInv, BetweenInv
<1>1. CASE CheckHealth \/ FindServer \/ StartRecording \/ EndRecording \/ Finish
  <2>1. UNCHANGED <<clientVars, runs>> /\ sampler' = sampler
    BY <1>1 DEF CheckHealth, FindServer, StartRecording, EndRecording, Finish, clientVars
  <2>2. /\ mainPc # "running" /\ mainPc' # "running" /\ mainPc' \in Places /\ target' \in {"none", "server", "self"}
        /\ mainPc' \in Quiet => mainPc \in Quiet
    BY <1>0, <1>1 DEF CheckHealth, FindServer, StartRecording, EndRecording, Finish, Go
  <2>3. QED BY <1>0, <1>c, <1>s, <2>1, <2>2
<1>2. CASE EndSweep
  <2>1. /\ UNCHANGED <<clientVars, runs, target>> /\ sampler' = sampler
        /\ mainPc = "sweep" /\ mainPc' \in {"find", "done"}
    BY <1>2 DEF EndSweep, Go, clientVars
  <2>2. QED BY <1>0, <1>c, <1>s, <2>1
<1>3. CASE StartRun
  <2>1. Len(runs) + 1 \in 1 .. Sweep
    BY <1>0, <1>3, LevelsAssumption DEF StartRun, Sweep
  <2>2. Kept
    BY <1>0, <1>3, <2>1, LevelOfRun, BeginRun DEF StartRun
  <2>3. mainPc' = "running" /\ Len(runs) < Sweep /\ UNCHANGED <<runs, target>>
    BY <1>3 DEF StartRun, Go
  <2>4. QED BY <1>0, <1>s, <2>2, <2>3
<1>4. CASE StartLoad
  <2>1. Kept
    BY <1>0, <1>4, BeginRun, LevelsAssumption DEF StartLoad
  <2>2. mainPc' = "warm" /\ sampler' = "none" /\ UNCHANGED <<runs, target>>
    BY <1>4 DEF StartLoad, Go, Begin
  <2>3. QED BY <1>0, <1>s, <2>1, <2>2
<1>5. CASE EndLoad
  <2>1. Kept /\ In(Pending)' = {}
    BY <1>5, EndOfRun DEF EndLoad, ScriptInv
  <2>2. mainPc = "await" /\ mainPc' = "cprofile" /\ sampler' = sampler /\ UNCHANGED <<runs, target>>
    BY <1>5 DEF EndLoad, Go, End
  <2>3. QED BY <1>0, <1>s, <2>1, <2>2
<1>6. CASE EndRun
  <2>1. Kept /\ In(Pending)' = {} /\ Gathered /\ sampler' # "on"
    BY <1>6, EndOfRun DEF EndRun, ScriptInv
  <2>2. mainPc' = "sweep" /\ target' = target /\ runs' = Append(runs, Summary) /\ Len(runs) < Sweep
    BY <1>0, <1>6 DEF EndRun, Go
  <2>3. /\ Summary \in Counts \cup {NoCounts}
        /\ Summary # NoCounts => Summary.ok + Summary.failed = N
    BY <2>1, GatheredSum
  <2>4. /\ runs' \in Seq(Counts \cup {NoCounts}) /\ Len(runs') = Len(runs) + 1
        /\ \A k \in DOMAIN runs' : (k \in DOMAIN runs /\ runs'[k] = runs[k]) \/ runs'[k] = Summary
    BY <1>0, <2>2, <2>3
  <2>5. Len(runs') <= Sweep
    BY <1>0, <2>2, <2>4, LevelsAssumption DEF Sweep
  <2>6. SweepInv'
    BY <1>0, <2>2, <2>3, <2>4 DEF SweepInv
  <2>7. ProfileTypeOK'
    BY <1>0, <2>1, <2>2, <2>4, <2>5 DEF ProfileTypeOK, Sweep
  <2>8. QED BY <2>1, <2>2, <2>6, <2>7 DEF ScriptInv, RunInv, BetweenInv
<1>7. CASE Traceback
  <2>1. /\ mainPc' = "exited" /\ sampler' = "none" /\ UNCHANGED <<limit, req, tokenizer, runs, target>>
    BY <1>7 DEF Traceback
  <2>2. Kept
    BY <1>0, <2>1 DEF ClientTypeOK, Permits, In
  <2>3. QED BY <1>0, <1>s, <2>1, <2>2
<1>8. QED BY <1>1, <1>2, <1>3, <1>4, <1>5, <1>6, <1>7 DEF ScriptMain

(* A task of the event loop, or the server, moves one request of the run in *)
(* progress: none is out at any other time.                                *)
LEMMA RequestStep ==
    ASSUME ScriptInv, NEW i \in Requests, Client(i) \/ Server(i)
    PROVE  ScriptInv'
<1>1. ClientStep(i) \/ Serve(i)
  BY DEF Client, Server
<1>2. UNCHANGED <<mainPc, runs, target>>
  BY DEF Client, Server
<1>3. ClientTypeOK' /\ Cardinality(Permits') <= limit' /\ UNCHANGED sampler
  BY <1>1, RequestSteps DEF ScriptInv
<1>4. mainPc \notin {"health", "sweep", "find", "load", "cprofile", "done"}
  <2>1. CASE Client(i)
    BY <2>1 DEF Client, LoopFree
  <2>2. CASE Server(i)
    <3>1. In(Pending) # {}
      BY <2>2 DEF Server, Serve, In, Pending
    <3>2. QED BY <3>1 DEF ScriptInv, BetweenInv
  <2>3. QED BY <2>1, <2>2
<1>5. ProfileTypeOK' /\ SweepInv'
  BY <1>2, <1>3 DEF ScriptInv, RunInv, ProfileTypeOK, SweepInv, Sweep
<1>6. BetweenInv'
  BY <1>2, <1>3, <1>4 DEF ScriptInv, BetweenInv
<1>7. QED BY <1>3, <1>5, <1>6 DEF ScriptInv, RunInv

(* The monitor and the shell do not touch the script.                      *)
LEMMA ScriptStep == ScriptInv /\ [PhaseNext]_phaseVars => ScriptInv'
<1> SUFFICES ASSUME ScriptInv, [PhaseNext]_phaseVars PROVE ScriptInv'
  OBVIOUS
<1>1. CASE Profile
  BY <1>1, MainStep, RequestStep DEF Profile, ProfileNext
<1>2. CASE UNCHANGED profileVars
  <2>1. UNCHANGED <<limit, req, tokenizer, sampler, mainPc, runs, target>>
    BY <1>2 DEF profileVars, clientVars
  <2>2. In(Pending)' = In(Pending) /\ Permits' = Permits
    BY <2>1 DEF In, Permits
  <2>3. ProfileTypeOK'
    BY <2>1 DEF ScriptInv, RunInv, ProfileTypeOK, ClientTypeOK, Sweep
  <2>4. QED
    BY <2>1, <2>2, <2>3 DEF ScriptInv, RunInv, SweepInv, BetweenInv, Sweep
<1>3. QED
  BY <1>1, <1>2 DEF PhaseNext, StartMonitor, Monitor, StopMonitor, EndPhase, ShellFails, phaseVars

\* The types of the monitor and of the shell.
PhaseTypes ==
    /\ monitor \in {"off", "starting", "loop", "over", "killed"} /\ shutdown \in BOOLEAN
    /\ sampled \in 0 .. MaxRows
    /\ taken > 0 => sampled + (Rows - taken) <= MaxRows
    /\ shell \in {"start", "profile", "wait", "done", "failed"}

(* Types are kept, the phase's and the ones of its parts.                  *)
LEMMA PhaseTypesStep == RowsInv /\ PhaseTypes /\ [PhaseNext]_phaseVars => PhaseTypes'
<1> SUFFICES ASSUME RowsInv, PhaseTypes, [PhaseNext]_phaseVars PROVE PhaseTypes'
  OBVIOUS
<1> USE DEF PhaseTypes
<1> USE RowsType, MonitorAssumption DEF rowVars
<1>1. Rows' = Rows /\ taken \in 0..Rows
  BY DEF Rows, RowsInv
<1>2. CASE StartMonitor
  BY <1>1, <1>2 DEF StartMonitor, Spawn
<1>3. CASE Monitor
  <2>1. CASE Ready BY <1>1, <1>3, <2>1 DEF Monitor, Ready
  <2>2. CASE SampleRow
    <3>1. taken' = taken + 1 /\ sampled' = sampled + 1 /\ taken < Rows
      BY <2>2 DEF SampleRow
    <3>2. sampled + (Rows - taken) <= MaxRows
      BY <1>1, <2>2 DEF SampleRow
    <3>3. QED BY <1>1, <1>3, <2>2, <3>1, <3>2 DEF Monitor, SampleRow
  <2>3. CASE EndTurn BY <1>1, <1>3, <2>3 DEF Monitor, EndTurn
  <2>4. CASE Stop BY <1>1, <1>3, <2>4 DEF Monitor, Stop
  <2>5. CASE Kill BY <1>1, <1>3, <2>5 DEF Monitor, Kill
  <2>6. QED BY <1>3, <2>1, <2>2, <2>3, <2>4, <2>5 DEF Monitor, MonitorStep
<1>4. CASE StopMonitor
  BY <1>1, <1>4 DEF StopMonitor, SigTerm, monitorVars
<1>5. CASE Profile \/ EndPhase \/ ShellFails \/ UNCHANGED phaseVars
  BY <1>1, <1>5 DEF Profile, EndPhase, ShellFails, phaseVars, monitorVars
<1>6. QED BY <1>2, <1>3, <1>4, <1>5 DEF PhaseNext

(* The runs of a sweep do not disturb each other: never more requests with *)
(* the server than the level of the run; in a summary with counts each is  *)
(* counted once; and none is still out, nor the collector on, when main()  *)
(* goes on.                                                                *)
THEOREM RunsHold == PhaseSpec => []RunsAreWhole
<1> DEFINE IInv == RowsInv /\ PhaseTypes /\ ScriptInv
<1>1. PhaseInit => IInv
  <2> SUFFICES ASSUME PhaseInit PROVE IInv
    OBVIOUS
  <2>1. /\ monitor = "off" /\ shutdown = FALSE /\ sampled = 0 /\ taken = 0 /\ shell = "start"
    BY DEF PhaseInit, MonitorInit
  <2>2. shutdown \in BOOLEAN
    BY <2>1, Zenon
  <2>3. sampled \in 0 .. MaxRows /\ ~(taken > 0)
    BY <2>1, MonitorAssumption
  <2>4. PhaseTypes
    BY <2>1, <2>2, <2>3, Zenon DEF PhaseTypes
  <2>5. QED BY <2>4, InitRows, InitScript DEF PhaseInit
<1>2. IInv /\ [PhaseNext]_phaseVars => IInv'
  BY StepRows, PhaseTypesStep, ScriptStep
<1>3. IInv => RunsAreWhole
  <2> SUFFICES ASSUME IInv PROVE RunsAreWhole
    OBVIOUS
  <2>1. {buffer, written, sampled} \subseteq 0 .. MaxRows
    BY MonitorAssumption DEF RowsInv, PhaseTypes
  <2>2. PhaseTypeOK
    BY <2>1 DEF PhaseTypeOK, MonitorTypeOK, PhaseTypes, RowsInv, ScriptInv, RunInv
  <2>3. QED BY <2>2 DEF RunsAreWhole, ScriptInv, RunInv, SweepInv, BetweenInv
<1> HIDE DEF IInv
<1>4. QED BY <1>1, <1>2, <1>3, PTL DEF PhaseSpec

------------------------------------------------------------------------------
(* The pods *)

(* A program owes a DELETE for the pods whose ids it was given.  It holds  *)
(* at most one of them, and none where it asks for a pod.                  *)

Paid == received \subseteq tried
Gives ==
    /\ received \subseteq tried \cup {podId}
    /\ pc \in {"start", "creating", "pausing"} => podId = NoPod
    /\ pc = "exiting" => Paid
    /\ pc = "ended" /\ ~cutShort /\ ~(program = "hero" /\ noDelete) => Paid
    /\ tornDown => pc \in {"finally", "ended"} /\ (noDelete \/ Paid)

ApiCalls == [method : {"POST", "GET", "DELETE"}, id : Pods \cup {NoPod}]
PodTypes ==
    /\ pod \in [Pods -> {"none", "up", "deleted"}]
    /\ podId \in received \cup {NoPod}
    /\ received \subseteq Pods /\ tried \subseteq Pods
    /\ rc \in {0, 1, 2, 130}
    /\ leaked \in Seq(ApiCalls)

(* What an API call can do to the pods. *)
LEMMA PodsKept ==
    ASSUME pod \in [Pods -> {"none", "up", "deleted"}], NEW p,
           pod' = pod \/ MaybeCreated \/ MaybeDeleted(p) \/ (p \in Pods /\ Created(p))
    PROVE  pod' \in [Pods -> {"none", "up", "deleted"}]
BY DEF MaybeCreated, MaybeDeleted, Created, Deleted, Fresh

(* What is left in the pool is an API call. *)
LEMMA PoolKept ==
    ASSUME leaked \in Seq(ApiCalls), NEW c \in ApiCalls,
           UNCHANGED pool \/ Answered \/ Unanswered(c) \/ InPool(c)
    PROVE  leaked' \in Seq(ApiCalls)
BY DEF Answered, Unanswered, InPool, pool

(* The calls that are made are API calls. *)
LEMMA CallsAre ==
    ASSUME PodTypes, NEW m \in {"POST", "GET", "DELETE"}, NEW i \in {podId, NoPod}
    PROVE  Call(m, i) \in ApiCalls
BY DEF PodTypes, Call, ApiCalls

(* The programs start without a pod. *)
LEMMA InitGives == Init => PodTypes /\ Gives
BY DEF Init, PodInit, PathInit, HeroInit, PodTypes, Gives, Paid

(* A DELETE for the pod that is held pays for all that was received.       *)
LEMMA DeleteSentPays ==
    ASSUME PodTypes, Gives, DeleteSent(podId), received' = received
    PROVE  Paid' /\ tried \subseteq tried' /\ tried' \subseteq Pods
<1>1. NoPod \notin received BY PodsAssumption DEF PodTypes
<1>2. tried' = tried \cup ({podId} \ {NoPod}) BY DEF DeleteSent
<1>3. \A p \in received : p \in tried'
  BY <1>1, <1>2 DEF Gives
<1>4. tried' \subseteq Pods BY <1>2 DEF PodTypes
<1>5. tried \subseteq tried' BY <1>2
<1>6. QED BY <1>3, <1>4, <1>5 DEF Paid

(* delete_pod() sends a DELETE for the pod that is held. *)
LEMMA SendDeletePays ==
    ASSUME PodTypes, Gives, SendDelete, received' = received
    PROVE  /\ Paid' /\ tried \subseteq tried' /\ tried' \subseteq Pods
           /\ pod' \in [Pods -> {"none", "up", "deleted"}]
           /\ leaked' \in Seq(ApiCalls)
<1>1. CASE podId = NoPod
  BY <1>1, PodsAssumption DEF SendDelete, PodTypes, Gives, Paid, pool
<1>2. CASE podId # NoPod
  <2>1. podId \in Pods /\ tried' = tried \cup {podId}
    BY <1>2 DEF SendDelete, DeleteSent, PodTypes
  <2>2. Call("DELETE", podId) \in ApiCalls BY CallsAre
  <2>3. CASE Answered /\ MaybeDeleted(podId)
    BY <2>1, <2>2, <2>3, PodsKept, PoolKept DEF PodTypes, Gives, Paid
  <2>4. CASE pod' = pod /\ Unanswered(Call("DELETE", podId))
    BY <2>1, <2>2, <2>4, PoolKept DEF PodTypes, Gives, Paid
  <2>5. QED BY <1>2, <2>3, <2>4 DEF SendDelete
<1>3. QED BY <1>1, <1>2

Owes == PodTypes /\ Gives

(* Steps of the Path C bench and of the probe that leave the pods alone.   *)
LEMMA PathMoves ==
    ASSUME Owes, UNCHANGED heroVars,
           \/ Start \/ NotRunning \/ Retry \/ Raises \/ Connect \/ Spend \/ Skip
           \/ LaunchFails \/ Launch \/ MarkerSeen \/ CellTimesOut \/ Pull \/ KillStrays
           \/ AllCells \/ Exit \/ Killed \/ \E c \in 1..Cells : BootstrapEnds(c)
    PROVE  Owes'
<1> USE DEF Owes, PodTypes, Gives, Paid, heroVars, history, pool, Running, Main, AfterFailure
<1>1. CASE Start \/ NotRunning \/ Retry \/ Raises \/ Connect
  BY <1>1, PodsAssumption DEF Start, NotRunning, Retry, Raises, Connect
<1>2. CASE Spend \/ Skip \/ LaunchFails \/ Launch \/ \E c \in 1..Cells : BootstrapEnds(c)
  BY <1>2 DEF Spend, Skip, LaunchFails, Launch, BootstrapEnds, podVars
<1>3. CASE MarkerSeen \/ CellTimesOut \/ Pull \/ KillStrays \/ AllCells
  BY <1>3 DEF MarkerSeen, CellTimesOut, Pull, KillStrays, AllCells
<1>4. CASE Exit BY <1>4 DEF Exit
<1>5. CASE Killed
  <2>1. pc # "ended" /\ pc' = "ended" /\ cutShort'
    BY <1>5, Zenon DEF Killed, Dies
  <2>2. /\ UNCHANGED <<pod, podId, received, tried, program, rc>> /\ leaked' = <<>>
        /\ UNCHANGED <<noDelete, tornDown>>
    BY <1>5 DEF Killed
  <2>3. tornDown => noDelete \/ Paid
    BY Zenon DEF Owes, Gives
  <2>4. QED BY <2>1, <2>2, <2>3
<1>6. QED BY <1>1, <1>2, <1>3, <1>4, <1>5


(* A pod is created or found, or the request for it fails. *)
LEMMA PathGets ==
    ASSUME Owes, UNCHANGED heroVars,
           \/ CreateFails \/ PollReady \/ PollHangs
           \/ \E p \in Pods : Reuse(p) \/ CreateOk(p)
    PROVE  Owes'
<1> USE DEF Owes
<1>1. CASE CreateFails
  <2>1. Call("POST", NoPod) \in ApiCalls BY CallsAre
  <2>2. leaked' \in Seq(ApiCalls) /\ pod' \in [Pods -> {"none", "up", "deleted"}]
    BY <1>1, <2>1, PoolKept, PodsKept DEF CreateFails, PodTypes
  <2>3. QED BY <1>1, <2>2 DEF CreateFails, PodTypes, Gives, Paid, heroVars, history, Running, Main, AfterFailure
<1>2. CASE PollReady \/ PollHangs
  <2>1. Call("GET", podId) \in ApiCalls BY CallsAre
  <2>2. leaked' \in Seq(ApiCalls)
    BY <1>2, <2>1, PoolKept DEF PollReady, PollHangs, PodTypes
  <2>3. QED BY <1>2, <2>2 DEF PollReady, PollHangs, PodTypes, Gives, Paid, heroVars, history, Running, Main
<1>3. ASSUME NEW p \in Pods, Reuse(p) \/ CreateOk(p) PROVE Owes'
  <2>1. leaked' \in Seq(ApiCalls) /\ pod' \in [Pods -> {"none", "up", "deleted"}]
    BY <1>3, PodsKept, PoolKept DEF Reuse, CreateOk, PodTypes, Answered, pool
  <2>2. podId = NoPod BY <1>3 DEF Reuse, CreateOk, Gives
  <2>3. Paid BY <2>2, PodsAssumption DEF PodTypes, Gives, Paid
  <2>4. podId' = p /\ received' = received \cup {p} /\ tried' = tried /\ rc' \in {0, 1, 2, 130}
    BY <1>3 DEF Reuse, CreateOk, Given, PodTypes
  <2>5. pc \in {"start", "creating"} /\ pc' \in {"connecting", "cleanup", "starting"}
    BY <1>3 DEF Reuse, CreateOk
  <2>6. QED BY <1>3, <2>1, <2>3, <2>4, <2>5 DEF PodTypes, Gives, Paid, heroVars
<1>4. QED BY <1>1, <1>2, <1>3

(* delete_pod(), at the end of an attempt and in finally. *)
LEMMA PathPays ==
    ASSUME Owes, UNCHANGED heroVars,
           AttemptFails \/ WallCapDuringDelete \/ Cleanup \/ CtrlCInCleanup
    PROVE  Owes'
<1> USE DEF Owes
<1>1. received' = received /\ rc' \in {0, 1, 2, 130} /\ program' = program /\ cutShort' = cutShort
  BY DEF AttemptFails, WallCapDuringDelete, Cleanup, CtrlCInCleanup, PodTypes
<1>2. pc \notin {"finally", "ended"} /\ pc' \in {"exiting", "cleanup", "pausing"}
      /\ podId' \in {podId, NoPod} /\ (pc' = "pausing" => podId' = NoPod)
  BY DEF AttemptFails, WallCapDuringDelete, Cleanup, CtrlCInCleanup, Running, NextAttempt
<1>3. /\ Paid' /\ tried \subseteq tried' /\ tried' \subseteq Pods
      /\ pod' \in [Pods -> {"none", "up", "deleted"}]
      /\ leaked' \in Seq(ApiCalls)
  <2>1. CASE AttemptFails \/ Cleanup \/ CtrlCInCleanup
    BY <1>1, <2>1, SendDeletePays DEF AttemptFails, Cleanup, CtrlCInCleanup
  <2>2. CASE WallCapDuringDelete
    <3>1. podId \in Pods /\ tried' = tried \cup {podId}
      BY <2>2 DEF WallCapDuringDelete, DeleteSent, PodTypes
    <3>2. Call("DELETE", podId) \in ApiCalls BY CallsAre
    <3>3. \/ MaybeDeleted(podId) /\ UNCHANGED pool
          \/ pod' = pod /\ InPool(Call("DELETE", podId))
      BY <2>2 DEF WallCapDuringDelete
    <3>4. QED BY <1>1, <3>1, <3>2, <3>3, PodsKept, PoolKept DEF PodTypes, Gives, Paid
  <2>3. QED BY <2>1, <2>2
<1>4. QED BY <1>1, <1>2, <1>3 DEF PodTypes, Gives, Paid, heroVars

(* Signals that do not end the program, and calls that end late. *)
LEMMA PathInterrupted ==
    ASSUME Owes, UNCHANGED heroVars,
           WallCap \/ WallCapDuringPoll \/ CtrlC \/ \E k \in 1..PoolSize : LateCall(k)
    PROVE  Owes'
<1> USE DEF Owes
<1>1. CASE WallCap \/ CtrlC
  <2>1. PostInFlight BY <1>1 DEF WallCap, CtrlC
  <2>2. Call("POST", NoPod) \in ApiCalls BY CallsAre
  <2>3. leaked' \in Seq(ApiCalls) /\ pod' \in [Pods -> {"none", "up", "deleted"}]
    BY <2>1, <2>2, PoolKept, PodsKept DEF PostInFlight, PodTypes
  <2>4. /\ UNCHANGED <<program, podId, received, tried, cutShort>> /\ rc' \in {0, 1, 2, 130}
        /\ pc \notin {"finally", "ended"} /\ pc' \in {"failing", "cleanup"}
    BY <1>1 DEF WallCap, CtrlC, history, Waiting
  <2>5. QED BY <2>3, <2>4 DEF PodTypes, Gives, Paid, heroVars
<1>2. CASE WallCapDuringPoll
  <2>1. Call("GET", podId) \in ApiCalls BY CallsAre
  <2>2. leaked' \in Seq(ApiCalls) BY <1>2, <2>1, PoolKept DEF WallCapDuringPoll, PodTypes
  <2>3. QED BY <1>2, <2>2 DEF WallCapDuringPoll, history, PodTypes, Gives, Paid, heroVars
<1>3. ASSUME NEW k \in 1..PoolSize, LateCall(k) PROVE Owes'
  <2>1. k \in DOMAIN leaked /\ leaked[k] \in ApiCalls
    BY <1>3 DEF LateCall, PodTypes
  <2>2. leaked' \in Seq(ApiCalls)
    BY <1>3, <2>1 DEF LateCall, RemoveAt, PodTypes
  <2>3. MaybeCreated \/ MaybeDeleted(leaked[k].id) \/ pod' = pod
    BY <1>3, <2>1 DEF LateCall, Effect, ApiCalls
  <2>4. pod' \in [Pods -> {"none", "up", "deleted"}]
    BY <2>3, PodsKept DEF PodTypes
  <2>5. QED BY <1>3, <2>2, <2>4 DEF LateCall, history, PodTypes, Gives, Paid, heroVars
<1>4. QED BY <1>1, <1>2, <1>3


(* The preflight holds one pod, and gives it back in finally. *)
LEMMA PreflightOwes ==
    ASSUME Owes, PreflightNext, UNCHANGED heroVars
    PROVE  Owes'
<1> USE DEF Owes
<1> USE DEF PodTypes, Gives, Paid, heroVars, PStay, Preflight, pool, history
<1>1. CASE PStart \/ PRunning \/ PConnected \/ PWarm \/ PGauge \/ PHarness \/ PRaises
  BY <1>1 DEF PStart, PRunning, PConnected, PWarm, PGauge, PHarness, PRaises, PWaiting
<1>2. ASSUME NEW p \in Pods, PReuse(p) \/ PCreateOk(p) PROVE Owes'
  <2>1. pod' \in [Pods -> {"none", "up", "deleted"}]
    BY <1>2, PodsKept DEF PReuse, PCreateOk
  <2>2. podId = NoPod BY <1>2 DEF PReuse, PCreateOk
  <2>3. Paid BY <2>2, PodsAssumption
  <2>4. podId' = p /\ received' = received \cup {p}
        /\ UNCHANGED <<program, tried, cutShort, leaked>> /\ rc' \in {0, 1, 2, 130}
    BY <1>2 DEF PReuse, PCreateOk, Given
  <2>5. pc \in {"start", "creating"} /\ pc' \in {"connecting", "cleanup", "starting"}
    BY <1>2 DEF PReuse, PCreateOk
  <2>6. QED BY <1>2, <2>1, <2>3, <2>4, <2>5
<1>3. CASE PCreateFails
  <2>1. pod' \in [Pods -> {"none", "up", "deleted"}] BY <1>3, PodsKept DEF PCreateFails
  <2>2. QED BY <1>3, <2>1 DEF PCreateFails
<1>4. ASSUME PInterrupted("ALRM", 1) \/ PInterrupted("INT", 130) PROVE Owes'
  <2>1. pod' \in [Pods -> {"none", "up", "deleted"}] BY <1>4, PodsKept DEF PInterrupted
  <2>2. QED BY <1>4, <2>1 DEF PInterrupted, PWaiting
<1>5. CASE PKilled
  <2>1. pc # "ended" /\ pc' = "ended" /\ cutShort'
    BY <1>5, Zenon DEF PKilled, Dies
  <2>2. QED BY <1>5, <2>1 DEF PKilled
<1>6. CASE PCleanup
  <2>1. pod' \in [Pods -> {"none", "up", "deleted"}] BY <1>6, PodsKept DEF PCleanup
  <2>2. Paid' /\ tried' \subseteq Pods BY <1>6, DeleteSentPays DEF PCleanup
  <2>3. QED BY <1>6, <2>1, <2>2 DEF PCleanup
<1>7. QED BY <1>1, <1>2, <1>3, <1>4, <1>5, <1>6 DEF PreflightNext, PreflightSteps

(* reproduce-hero holds one pod, and its teardown is done once. *)
LEMMA HeroOwes ==
    ASSUME Owes, HeroNext, UNCHANGED pathVars
    PROVE  Owes'
<1> USE DEF Owes
<1> USE DEF PodTypes, Gives, Paid, HStay, Hero, HGoto, HExit, pool, history
<1>1. CASE \/ HPrerequisites \/ HProxyUp \/ HNotListening \/ HListening \/ HServerNotReady
           \/ HServerReady \/ HBenchFails \/ HBenchDone \/ HNoSummary \/ HReported
  <2>1. CASE HPrerequisites BY <2>1, PodsAssumption DEF HPrerequisites
  <2>2. CASE HProxyUp \/ HNotListening \/ HListening \/ HServerNotReady \/ HServerReady
    BY <2>2 DEF HProxyUp, HNotListening, HListening, HServerNotReady, HServerReady
  <2>3. CASE HBenchFails \/ HBenchDone \/ HNoSummary \/ HReported
    BY <2>3 DEF HBenchFails, HBenchDone, HNoSummary, HReported
  <2>4. QED BY <1>1, <2>1, <2>2, <2>3
<1>2. ASSUME NEW p \in Pods, HCreateOk(p) PROVE Owes'
  <2>1. pod' \in [Pods -> {"none", "up", "deleted"}]
    BY <1>2, PodsKept DEF HCreateOk
  <2>2. podId = NoPod BY <1>2 DEF HCreateOk
  <2>3. Paid BY <2>2, PodsAssumption
  <2>4. podId' = p /\ received' = received \cup {p} /\ UNCHANGED <<rc, leaked, tried, tornDown>>
        /\ pc = "creating" /\ pc' = "waiting"
    BY <1>2 DEF HCreateOk, Given
  <2>5. ~tornDown BY <2>4
  <2>6. QED BY <2>1, <2>3, <2>4, <2>5
<1>3. CASE HCreateFails
  <2>1. pod' \in [Pods -> {"none", "up", "deleted"}] BY <1>3, PodsKept DEF HCreateFails
  <2>2. Paid BY <1>3, PodsAssumption DEF HCreateFails
  <2>3. QED BY <1>3, <2>1, <2>2 DEF HCreateFails
<1>4. CASE HNoProxy
  <2>1. pod' \in [Pods -> {"none", "up", "deleted"}] BY <1>4, PodsKept DEF HNoProxy
  <2>2. Paid' /\ tried' \subseteq Pods BY <1>4, DeleteSentPays DEF HNoProxy
  <2>3. QED BY <1>4, <2>1, <2>2 DEF HNoProxy
<1>5. ASSUME Teardown, received' = received
      PROVE  /\ tornDown' /\ tried \subseteq tried' /\ tried' \subseteq Pods
             /\ noDelete \/ Paid'
             /\ pod' \in [Pods -> {"none", "up", "deleted"}]
  <2>1. tornDown' BY <1>5, Zenon DEF Teardown
  <2>2. CASE tornDown \/ noDelete BY <1>5, <2>1, <2>2 DEF Teardown
  <2>3. CASE ~(tornDown \/ noDelete)
    <3>1. DeleteSent(podId) /\ MaybeDeleted(podId) BY <1>5, <2>3 DEF Teardown
    <3>2. pod' \in [Pods -> {"none", "up", "deleted"}] BY <3>1, PodsKept
    <3>3. Paid' /\ tried \subseteq tried' /\ tried' \subseteq Pods
      BY <1>5, <3>1, DeleteSentPays
    <3>4. QED BY <2>1, <3>2, <3>3
  <2>4. QED BY <2>2, <2>3
<1>6. CASE HFinally
  <2>1. CASE noDelete BY <1>6, <2>1 DEF HFinally
  <2>2. CASE ~noDelete
    <3>1. Teardown BY <1>6, <2>2 DEF HFinally
    <3>2. UNCHANGED <<podId, rc, received, leaked, noDelete>> /\ pc' = "ended" BY <1>6 DEF HFinally
    <3>3. QED BY <1>5, <2>2, <3>1, <3>2
  <2>3. QED BY <2>1, <2>2
<1>7. ASSUME NEW s \in {"INT", "TERM"}, HHandler(s) PROVE Owes'
  <2>1. /\ Teardown /\ pc' = "finally" /\ rc' = 130 /\ pc # "ended"
        /\ UNCHANGED <<program, podId, received, cutShort, leaked, noDelete>>
    BY <1>7 DEF HHandler
  <2>2. QED BY <1>5, <2>1
<1>8. ASSUME NEW s \in {"INT", "TERM"}, HDies(s) PROVE Owes'
  <2>1. pod' \in [Pods -> {"none", "up", "deleted"}] BY <1>8, PodsKept DEF HDies
  <2>2. pc \in {"creating", "waiting"} /\ pc' = "ended" /\ cutShort'
    BY <1>8, Zenon DEF HDies, Dies
  <2>3. UNCHANGED <<podId, received, tried, tornDown, leaked>> /\ rc' = 130
    BY <1>8 DEF HDies, heroVars
  <2>4. ~tornDown BY <2>2
  <2>5. QED BY <2>1, <2>2, <2>3, <2>4
<1>9. QED BY <1>1, <1>2, <1>3, <1>4, <1>6, <1>7, <1>8 DEF HeroNext, HeroSteps

(* No step of any program leaves a pod unpaid for. *)
LEMMA OwesStep == Owes /\ [Next]_vars => Owes'
<1> SUFFICES ASSUME Owes, [Next]_vars PROVE Owes' OBVIOUS
<1>1. CASE PathNext /\ UNCHANGED heroVars
  BY <1>1, PathMoves, PathGets, PathPays, PathInterrupted DEF PathNext, PathSteps
<1>2. CASE PreflightNext /\ UNCHANGED <<pathVars, heroVars>>
  BY <1>2, PreflightOwes
<1>3. CASE HeroNext /\ UNCHANGED pathVars
  BY <1>3, HeroOwes
<1>4. CASE Ended \/ UNCHANGED vars
  BY <1>4 DEF Ended, vars, podVars, heroVars, pathVars, history, pool, Owes, PodTypes, Gives, Paid
<1>5. QED BY <1>1, <1>2, <1>3, <1>4 DEF Next

(* The results of the bench: one for each cell it came to, and from the    *)
(* first skipped one on only skipped ones, for the budget does not return. *)

Statuses == {"SKIPPED_COST", "LAUNCH_FAIL", "DONE", "FAILED", "TIMEOUT"}
InCell == pc \in {"polling", "pulling", "killing"}
Attempting == pc \in {"start", "creating", "starting", "failing", "pausing"}
Closing == pc \in {"cleanup", "exiting", "ended"}
NoSkip == \A i \in 1..Len(results) : results[i] # "SKIPPED_COST"
SkipsLast ==
    \A i, j \in 1..Len(results) :
       i < j /\ results[i] = "SKIPPED_COST" => results[j] = "SKIPPED_COST"
Listed == results \in Seq(Statuses) /\ Len(results) <= Cells /\ SkipsLast
Complete == program = "path_c" /\ Closing /\ rc = 0 /\ ~cutShort => Len(results) = Cells

Tally ==
    /\ attempts \in 0..MaxCreates
    /\ program = "path_c" /\ Attempting => attempts < MaxCreates
    /\ strays \subseteq 1..Cells
    /\ Listed
    /\ InCell => Len(results) < Cells /\ NoSkip
    /\ overBudget \/ NoSkip
    /\ pc = "failing" => rc # 0
    /\ Complete

(* Before the first attempt there is nothing to count. *)
LEMMA InitTally == Init => Tally
BY PathCAssumption DEF Init, PodInit, PathInit, HeroInit, Tally, Attempting, Listed, SkipsLast,
   NoSkip, InCell, Complete, Closing

(* One more result: a skipped cell, or one that ran before any was skipped. *)
LEMMA OneMoreResult ==
    ASSUME Listed, Len(results) < Cells, NEW s \in Statuses, Result(s),
           s = "SKIPPED_COST" \/ NoSkip
    PROVE  Listed' /\ (s # "SKIPPED_COST" => NoSkip')
<1>1. /\ results \in Seq(Statuses) /\ Len(results) \in Nat /\ results' = Append(results, s)
  BY DEF Listed, Result
<1>2. /\ results' \in Seq(Statuses) /\ Len(results') = Len(results) + 1
      /\ results'[Len(results) + 1] = s
      /\ \A i \in 1..Len(results) : results'[i] = results[i]
  BY <1>1
<1>3. SkipsLast'
  BY <1>1, <1>2 DEF Listed, SkipsLast, NoSkip
<1>4. s # "SKIPPED_COST" => NoSkip'
  BY <1>1, <1>2 DEF NoSkip
<1>5. QED BY <1>1, <1>2, <1>3, <1>4, PathCAssumption DEF Listed

(* A step of another program, or one that changes neither the lists nor    *)
(* what the end says.                                                      *)
LEMMA TallyStays ==
    ASSUME Tally, UNCHANGED pathVars, program' = program,
           InCell' => InCell, pc' = "failing" => rc' # 0,
           program = "path_c" /\ Attempting' => Attempting,
           Complete'
    PROVE  Tally'
<1>1. Listed' /\ (NoSkip' <=> NoSkip)
  BY DEF Tally, Listed, SkipsLast, NoSkip, pathVars
<1>2. QED BY <1>1 DEF Tally, pathVars


(* The steps of the bench and the probe that leave the lists alone.        *)
LEMMA PathTallyStays ==
    ASSUME Tally,
           \/ Start \/ CreateFails \/ PollReady \/ NotRunning \/ Retry \/ Raises \/ Connect
           \/ MarkerSeen \/ CellTimesOut \/ AllCells \/ Cleanup \/ Exit \/ PollHangs
           \/ WallCap \/ WallCapDuringPoll \/ CtrlC \/ CtrlCInCleanup \/ Killed
           \/ (\E p \in Pods : Reuse(p) \/ CreateOk(p))
           \/ (\E k \in 1..PoolSize : LateCall(k))
    PROVE  Tally'
<1> USE DEF Running, Main, AfterFailure, InCell, Attempting, Closing, history
<1>1. CASE \/ Start \/ Retry \/ Connect \/ MarkerSeen \/ CellTimesOut \/ PollHangs
           \/ WallCapDuringPoll \/ PollReady
  <2>1. /\ UNCHANGED pathVars /\ program' = program
        /\ InCell' => InCell
        /\ program = "path_c" /\ Attempting' => Attempting
    BY <1>1 DEF Start, Retry, Connect, MarkerSeen, CellTimesOut, PollHangs, WallCapDuringPoll, PollReady
  <2>2. pc' # "failing" /\ ~(program = "path_c" /\ Closing')
    BY <1>1 DEF Start, Retry, Connect, MarkerSeen, CellTimesOut, PollHangs, WallCapDuringPoll, PollReady
  <2>3. Complete' BY <2>1, <2>2 DEF Complete
  <2>4. QED BY <2>1, <2>2, <2>3, TallyStays
<1>2. CASE CreateFails \/ NotRunning \/ Raises \/ WallCap \/ CtrlC \/ CtrlCInCleanup
  <2>1. /\ UNCHANGED pathVars /\ program' = program /\ ~InCell' /\ rc' # 0
        /\ program = "path_c" /\ Attempting' => Attempting
    BY <1>2 DEF CreateFails, NotRunning, Raises, WallCap, CtrlC, CtrlCInCleanup
  <2>2. Complete' BY <2>1 DEF Complete
  <2>3. QED BY <2>1, <2>2, TallyStays
<1>3. CASE AllCells \/ Cleanup \/ Exit
  <2>1. /\ UNCHANGED pathVars /\ program' = program /\ rc' = rc /\ cutShort' = cutShort
        /\ Closing' /\ ~InCell' /\ ~Attempting' /\ pc' # "failing"
        /\ Closing \/ Len(results) >= Cells
    BY <1>3, PathCAssumption DEF AllCells, Cleanup, Exit, MoreCells, Cell, Tally, Listed
  <2>2. Len(results) >= Cells => Len(results) = Cells
    BY PathCAssumption DEF Tally, Listed
  <2>3. Complete' BY <2>1, <2>2 DEF Complete, Tally, pathVars
  <2>4. QED BY <2>1, <2>3, TallyStays
<1>4. CASE Killed
  <2>1. UNCHANGED pathVars /\ program' = program /\ pc' = "ended"
    BY <1>4 DEF Killed, Dies
  <2>2. cutShort' BY <1>4, Zenon DEF Killed, Dies
  <2>3. Complete' BY <2>2 DEF Complete
  <2>4. QED BY <2>1, <2>3, TallyStays
<1>5. ASSUME NEW p \in Pods, Reuse(p) \/ CreateOk(p) PROVE Tally'
  <2>1. /\ UNCHANGED pathVars /\ program' = program /\ ~InCell' /\ pc' # "failing"
        /\ program = "path_c" /\ Attempting' => Attempting
        /\ (pc' = "cleanup" /\ rc' = 1) \/ pc' \in {"connecting", "starting"}
    BY <1>5 DEF Reuse, CreateOk
  <2>2. Complete' BY <2>1 DEF Complete
  <2>3. QED BY <2>1, <2>2, TallyStays
<1>6. ASSUME NEW k \in 1..PoolSize, LateCall(k) PROVE Tally'
  <2>1. UNCHANGED <<pathVars, program, pc, rc, cutShort>>
    BY <1>6 DEF LateCall
  <2>2. Complete' BY <2>1 DEF Complete, Tally, pathVars
  <2>3. QED BY <2>1, <2>2, TallyStays DEF Tally
<1>7. QED BY <1>1, <1>2, <1>3, <1>4, <1>5, <1>6

(* A failed attempt is counted, and the last one ends the program.         *)
LEMMA AttemptTally ==
    ASSUME Tally, AttemptFails \/ WallCapDuringDelete
    PROVE  Tally'
<1>1. /\ program = "path_c" /\ pc = "failing" /\ program' = program
      /\ rc' = rc /\ UNCHANGED <<results, overBudget, strays>>
      /\ attempts' = attempts + 1
      /\ pc' = IF attempts' >= MaxCreates THEN "cleanup" ELSE "pausing"
  BY DEF AttemptFails, WallCapDuringDelete, NextAttempt, Main
<1>2. attempts \in 0..MaxCreates /\ attempts < MaxCreates /\ rc # 0
  BY <1>1 DEF Tally, Attempting
<1>3. Listed' /\ (NoSkip' <=> NoSkip)
  BY <1>1 DEF Tally, Listed, SkipsLast, NoSkip
<1>4. overBudget' \/ NoSkip' BY <1>1, <1>3 DEF Tally
<1>5. Complete' BY <1>1, <1>2 DEF Complete
<1>6. QED
  BY <1>1, <1>2, <1>3, <1>4, <1>5, PathCAssumption DEF Tally, Attempting, InCell

(* While there are more cells, Cell is one of them.                        *)
LEMMA CellIsNext ==
    ASSUME Tally, MoreCells
    PROVE  Cell \in 1..Cells
BY PathCAssumption DEF MoreCells, Cell, Tally, Listed

(* A cell that gets its result: skipped, failed, timed out or pulled.      *)
LEMMA CellTally ==
    ASSUME Tally, Skip \/ LaunchFails \/ Pull \/ KillStrays
    PROVE  Tally'
<1>1. /\ program = "path_c" /\ program' = program /\ pc' = "launching"
      /\ UNCHANGED <<attempts, overBudget>> /\ strays' \subseteq 1..Cells
  <2>1. CASE Skip BY <2>1 DEF Skip, Main, podVars, Tally
  <2>2. CASE LaunchFails
    <3>1. Cell \in 1..Cells BY <2>2, CellIsNext DEF LaunchFails
    <3>2. QED BY <2>2, <3>1 DEF LaunchFails, Main, podVars, Tally
  <2>3. CASE Pull \/ KillStrays BY <2>3 DEF Pull, KillStrays, Main, Tally
  <2>4. QED BY <2>1, <2>2, <2>3
<1>2. PICK s \in Statuses : Result(s) /\ (s = "SKIPPED_COST" => overBudget)
                            /\ (s = "SKIPPED_COST" \/ NoSkip)
  <2>1. CASE Skip BY <2>1 DEF Skip, Statuses
  <2>2. CASE LaunchFails BY <2>2 DEF LaunchFails, Statuses, Tally
  <2>3. CASE Pull BY <2>3 DEF Pull, Statuses, Tally, InCell
  <2>4. CASE KillStrays BY <2>4 DEF KillStrays, Statuses, Tally, InCell
  <2>5. QED BY <2>1, <2>2, <2>3, <2>4
<1>3. Listed /\ Len(results) < Cells
  BY PathCAssumption DEF Skip, LaunchFails, Pull, KillStrays, MoreCells, Cell, Tally, Listed, InCell
<1>4. Listed' /\ (s # "SKIPPED_COST" => NoSkip')
  BY <1>2, <1>3, OneMoreResult
<1>5. overBudget' \/ NoSkip' BY <1>1, <1>2, <1>4
<1>6. Complete' BY <1>1 DEF Complete, Closing
<1>7. QED BY <1>1, <1>4, <1>5, <1>6 DEF Tally, Attempting, InCell

(* The budget runs out, a cell is launched, or one ends on the pod.        *)
LEMMA PodTally ==
    ASSUME Tally, Spend \/ Launch \/ \E c \in 1..Cells : BootstrapEnds(c)
    PROVE  Tally'
<1>1. UNCHANGED <<program, attempts, results>> /\ strays' \subseteq 1..Cells
  <2>1. CASE Spend \/ \E c \in 1..Cells : BootstrapEnds(c)
    BY <2>1 DEF Spend, BootstrapEnds, podVars, Tally
  <2>2. CASE Launch
    <3>1. Cell \in 1..Cells BY <2>2, CellIsNext DEF Launch
    <3>2. QED BY <2>2, <3>1 DEF Launch, Tally
  <2>3. QED BY <2>1, <2>2
<1>2. Listed' /\ (NoSkip' <=> NoSkip)
  BY <1>1 DEF Tally, Listed, SkipsLast, NoSkip
<1>3. overBudget' \/ NoSkip'
  <2>1. CASE Spend BY <2>1, Zenon DEF Spend
  <2>2. CASE Launch \/ \E c \in 1..Cells : BootstrapEnds(c)
    BY <1>2, <2>2 DEF Launch, BootstrapEnds, Tally
  <2>3. QED BY <2>1, <2>2
<1>4. CASE Launch
  <2>1. program = "path_c" /\ pc' = "polling" /\ Len(results) < Cells /\ NoSkip
    BY <1>4, PathCAssumption DEF Launch, Main, MoreCells, Cell, Tally, Listed
  <2>2. QED BY <1>1, <1>2, <1>3, <2>1 DEF Tally, Attempting, InCell, Complete, Closing
<1>5. CASE Spend \/ \E c \in 1..Cells : BootstrapEnds(c)
  <2>1. UNCHANGED <<pc, rc, cutShort>> BY <1>5 DEF Spend, BootstrapEnds, podVars, history
  <2>2. QED BY <1>1, <1>2, <1>3, <2>1 DEF Tally, Attempting, InCell, Complete, Closing
<1>6. QED BY <1>4, <1>5

(* No step of any program miscounts the cells.                             *)
LEMMA TallyStep == Tally /\ [Next]_vars => Tally'
<1> SUFFICES ASSUME Tally, [Next]_vars PROVE Tally' OBVIOUS
<1>1. CASE PathNext
  BY <1>1, PathTallyStays, AttemptTally, CellTally, PodTally DEF PathNext, PathSteps
<1>2. CASE PreflightNext /\ UNCHANGED pathVars
  <2>1. /\ program = "preflight" /\ program' = program /\ ~InCell'
        /\ pc' # "failing"
    BY <1>2 DEF PreflightNext, PreflightSteps, PStart, PCreateFails, PRunning, PConnected, PWarm,
       PGauge, PHarness, PRaises, PCleanup, PReuse, PCreateOk, PInterrupted, PKilled, Preflight,
       PStay, Dies, InCell
  <2>2. Complete' BY <2>1 DEF Complete
  <2>3. QED BY <1>2, <2>1, <2>2, TallyStays
<1>3. CASE HeroNext /\ UNCHANGED pathVars
  <2>1. /\ program = "hero" /\ program' = program /\ ~InCell'
        /\ pc' # "failing"
    BY <1>3 DEF HeroNext, HeroSteps, HPrerequisites, HCreateOk, HCreateFails, HProxyUp, HNoProxy,
       HNotListening, HListening, HServerNotReady, HServerReady, HBenchFails, HBenchDone,
       HNoSummary, HReported, HFinally, HHandler, HDies, Hero, HStay, HGoto, HExit, Dies, InCell
  <2>2. Complete' BY <2>1 DEF Complete
  <2>3. QED BY <1>3, <2>1, <2>2, TallyStays
<1>4. CASE Ended \/ UNCHANGED vars
  <2>1. UNCHANGED <<pathVars, program, pc, rc, cutShort>>
    BY <1>4 DEF Ended, vars, podVars, history
  <2>2. Complete' BY <2>1 DEF Complete, Tally, pathVars, Closing
  <2>3. QED BY <2>1, <2>2, TallyStays DEF InCell, Tally, Attempting
<1>5. QED BY <1>1, <1>2, <1>3, <1>4 DEF Next

(* TypeOK is a part of the two invariants.                                 *)
LEMMA PodTypesHold == Owes /\ Tally => TypeOK
<1> SUFFICES ASSUME Owes, Tally PROVE TypeOK OBVIOUS
<1>1. \A k \in DOMAIN leaked : leaked[k].id \in Pods \cup {NoPod}
  <2>1. leaked \in Seq(ApiCalls) BY DEF Owes, PodTypes
  <2>2. \A k \in DOMAIN leaked : leaked[k] \in ApiCalls BY <2>1
  <2>3. QED BY <2>2 DEF ApiCalls
<1>2. QED BY <1>1 DEF Owes, PodTypes, Tally, Listed, TypeOK

(* Both are invariants of the programs.                                    *)
LEMMA PodsInvariant == Spec => [](Owes /\ Tally)
<1>1. Init => Owes /\ Tally BY InitGives, InitTally DEF Owes
<1>2. Owes /\ Tally /\ [Next]_vars => (Owes /\ Tally)' BY OwesStep, TallyStep
<1>3. QED BY <1>1, <1>2, PTL DEF Spec

(* A program that ends by itself has sent a DELETE for every pod whose id  *)
(* it was given, unless it was told to keep it (the finally clauses of the *)
(* orchestrators, PodContext.teardown() of reproduce-hero), for any number *)
(* of pods, attempts, cells, workers and hanging calls.                    *)
THEOREM PodsAreGivenBack == Spec => []EveryPodIsGivenBack
<1>1. Owes /\ Tally => EveryPodIsGivenBack
  BY PodTypesHold DEF Owes, Gives, Paid, EveryPodIsGivenBack
<1>2. QED BY <1>1, PodsInvariant, PTL

(* The Path C bench returns 0 only with a result for each cell, and no     *)
(* cell runs after one that was skipped for the budget (main() of          *)
(* m4_path_c_orchestrator.py).                                             *)
THEOREM CellsAreAccounted == Spec => []CellsAccounted
<1>1. Tally => CellsAccounted
  <2> SUFFICES ASSUME Tally PROVE CellsAccounted OBVIOUS
  <2>1. DOMAIN results = 1..Len(results) BY DEF Tally, Listed
  <2>2. QED BY <2>1 DEF Tally, Listed, SkipsLast, Complete, Closing, CellsAccounted
<1>2. QED BY <1>1, PodsInvariant, PTL
==============================================================================
