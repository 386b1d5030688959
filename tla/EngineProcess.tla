---------------------------- MODULE EngineProcess ----------------------------
(***************************************************************************)
(* What the router relies on about the process behind an EngineAdapter     *)
(* (ModelLifecycle's variable process, for one adapter): start() ends with *)
(* an engine that was ready or with no process, stop() ends with none.     *)
(* Only a cancelled call may leave a process behind.                       *)
(***************************************************************************)
VARIABLE process

Init == process = "none"

Start == process = "none" /\ process' = "starting"
Ready == process = "starting" /\ process' = "up"
Fail == process = "starting" /\ process' = "dead"
Stop == process = "up" /\ process' = "stopping"
Stopped == process = "stopping" /\ process' = "dead"
Abandon == process \in {"starting", "stopping"} /\ process' = "abandoned"

Next == Start \/ Ready \/ Fail \/ Stop \/ Stopped \/ Abandon
Spec ==
    /\ Init /\ [][Next]_process
    /\ WF_process(Ready \/ Fail \/ Abandon) /\ WF_process(Stopped \/ Abandon)
==============================================================================
