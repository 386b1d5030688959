------------------------------ MODULE Telemetry ------------------------------
(***************************************************************************)
(* The invocations of TelemetryClient and the receiver of TelemetryWorker: *)
(* the event an invocation posts is the request of that name.              *)
(***************************************************************************)
EXTENDS TelemetryClient, TelemetryWorker

ASSUME EventsAssumption == Events = Invocations

vars == <<clientVars, workerVars>>

Init == ClientInit /\ WorkerInit(Invocations, None)

Sent == [i \in posted |-> cfg[i].id]
Idle ==
    /\ \A i \in Invocations : pc[i] = "done" /\ request[i] \notin {"limiting", "counted", "inserting"}
    /\ posted = {i \in Invocations : request[i] # "none"}
    /\ UNCHANGED vars
Next ==
    \/ ClientNext /\ UNCHANGED workerVars
    \/ WorkerNext(Sent) /\ UNCHANGED clientVars
    \/ Idle

Spec == Init /\ [][Next]_vars

\* Days pass and the cron job runs; it may fail on any day, not on all of them.
FairSpec == Spec /\ WF_vars(Midnight /\ UNCHANGED clientVars)
                 /\ WF_vars(Sweep /\ UNCHANGED clientVars)

==============================================================================
