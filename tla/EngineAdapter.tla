---------------------------- MODULE EngineAdapter ----------------------------
(***************************************************************************)
(* One EngineAdapter (src/src/kvwarden/engines/base.py): its process, its  *)
(* session, and the circuit breaker that the calls of forward_request()    *)
(* share.  An action runs from one await to the next.                      *)
(*                                                                         *)
(* The process and its HTTP server are the environment: the server comes   *)
(* up late or never, hangs, comes back, exits without anyone noticing, and *)
(* may ignore SIGTERM.  A call slot is reused, so the calls are unbounded. *)
(* start() has been called under KVWARDEN_DEV_SKIP_ENGINE_LAUNCH if dev.   *)
(***************************************************************************)
EXTENDS Integers, SequencesExt

CONSTANTS
    Calls,          \* slots of concurrent forward_request() calls
    Threshold,      \* _CIRCUIT_THRESHOLD
    Cooldown,       \* _CIRCUIT_COOLDOWN_S, in ticks
    MaxPolls        \* health polls of start() before its deadline

ASSUME ParametersAssumption ==
    Threshold \in Nat \ {0} /\ Cooldown \in Nat \ {0} /\ MaxPolls \in Nat

VARIABLES
    dev,            \* the environment variable is set: no process is launched
    phase,          \* where start() or stop() of the adapter is
    polls,          \* polls left to start()
    owned,          \* _process is set
    engine,         \* the engine process: external
    healthy,        \* _healthy
    session,        \* _session is open
    timeouts,       \* _consecutive_timeouts
    openFor,        \* time left to _circuit_open_until
    call,           \* where each call is
    outcomes        \* history: the latest successes and timeouts, latest last

process == <<dev, phase, polls, owned>>
breaker == <<timeouts, openFor, outcomes>>
vars == <<process, engine, healthy, session, breaker, call>>

Init ==
    /\ dev \in BOOLEAN
    /\ phase = "new"
    /\ polls = MaxPolls
    /\ owned = FALSE
    /\ engine = IF dev THEN "loading" ELSE "none"
    /\ healthy = FALSE
    /\ session = FALSE
    /\ timeouts = 0
    /\ openFor = 0
    /\ call = [c \in Calls |-> "idle"]
    /\ outcomes = <<>>

------------------------------------------------------------------------------
(* The engine *)

EngineStep(from, to) ==
    /\ engine \in from
    /\ engine' = to
    /\ UNCHANGED <<process, healthy, session, breaker, call>>
ServesHttp == EngineStep({"loading", "hung"}, "serving")
Hangs == EngineStep({"serving"}, "hung")
Exits == EngineStep({"loading", "serving", "hung"}, "exited")

------------------------------------------------------------------------------
(* start() *)

Launch ==
    /\ phase = "new"
    /\ phase' = "polling"
    /\ IF dev THEN UNCHANGED <<owned, engine>> ELSE owned' = TRUE /\ engine' = "loading"
    /\ UNCHANGED <<dev, polls, healthy, session, breaker, call>>

\* RuntimeError: the process exited.  _process stays set.
StartFails ==
    /\ phase = "polling" /\ polls > 0 /\ owned /\ engine = "exited"
    /\ phase' = "failed"
    /\ UNCHANGED <<dev, polls, owned, engine, healthy, session, breaker, call>>

\* One turn of the loop: health_check() sets _healthy either way.
Poll ==
    /\ phase = "polling" /\ polls > 0 /\ ~(owned /\ engine = "exited")
    /\ polls' = polls - 1
    /\ healthy' = (engine = "serving")
    /\ phase' = IF healthy' THEN "up" ELSE "polling"
    /\ UNCHANGED <<dev, owned, engine, session, breaker, call>>

\* After the deadline start() stops the process; in dev mode it only raises.
StartTimesOut ==
    /\ phase = "polling" /\ polls = 0
    /\ phase' = IF owned THEN "giving_up" ELSE "failed"
    /\ UNCHANGED <<dev, polls, owned, engine, healthy, session, breaker, call>>

(* stop(): the session is closed, then the process is terminated, after    *)
(* 10 s killed.  Without a process it returns early.                       *)

Stop ==
    /\ phase = "up"
    /\ phase' = "stopping"
    /\ session' = FALSE
    /\ UNCHANGED <<dev, polls, owned, engine, healthy, breaker, call>>

InStop == phase \in {"giving_up", "stopping"}
Kill ==
    /\ InStop /\ owned /\ engine # "exited"
    /\ engine' = "exited"
    /\ UNCHANGED <<process, healthy, session, breaker, call>>
ReapUnwaited ==
    /\ InStop
    /\ owned' = FALSE /\ healthy' = (healthy /\ ~owned)
    /\ phase' = IF phase = "giving_up" THEN "failed" ELSE "stopped"
    /\ UNCHANGED <<dev, polls, engine, session, breaker, call>>
Reap ==
    /\ InStop /\ (owned => engine = "exited")
    /\ owned' = FALSE /\ healthy' = (healthy /\ ~owned)
    /\ phase' = IF phase = "giving_up" THEN "failed" ELSE "stopped"
    /\ UNCHANGED <<dev, polls, engine, session, breaker, call>>

\* CancelledError at an await of start() or stop().
Cancel ==
    /\ phase \in {"polling", "giving_up", "stopping"}
    /\ phase' = "cancelled"
    /\ UNCHANGED <<dev, polls, owned, engine, healthy, session, breaker, call>>

------------------------------------------------------------------------------
(* forward_request(): the router calls it on a registered adapter only *)

Goto(c, to) == call' = [call EXCEPT ![c] = to]

CircuitOpen == openFor > 0

\* EngineCircuitOpenError; handle_request() answers 503.
RefuseAsTimeout(c) ==
    /\ phase = "up" /\ call[c] = "idle" /\ CircuitOpen
    /\ Goto(c, "refused")
    /\ openFor' = Cooldown
    /\ UNCHANGED <<process, engine, healthy, session, timeouts, outcomes>>
Refuse(c) ==
    /\ phase = "up" /\ call[c] = "idle" /\ CircuitOpen
    /\ Goto(c, "refused")
    /\ UNCHANGED <<process, engine, healthy, session, breaker>>

\* A plain call posts at once; a streaming one returns a generator, which posts
\* when it is first iterated and does not look at the circuit again.
Forward(c, stream) ==
    /\ phase = "up" /\ call[c] = "idle" /\ ~CircuitOpen
    /\ session' = TRUE
    /\ Goto(c, IF stream THEN "generator" ELSE "posted")
    /\ UNCHANGED <<process, engine, healthy, breaker>>
Iterate(c) ==
    /\ call[c] = "generator" /\ session
    /\ Goto(c, "posted")
    /\ UNCHANGED <<process, engine, healthy, session, breaker>>

Record(o) == outcomes' =
    LET all == Append(outcomes, o)
    IN  IF Len(all) > Threshold THEN Tail(all) ELSE all

\* _note_success(), at the end of the response.
SucceedKeepsCount(c) ==
    /\ call[c] = "posted" /\ session /\ engine = "serving"
    /\ openFor' = 0
    /\ Record("success")
    /\ Goto(c, "idle")
    /\ UNCHANGED <<process, engine, healthy, session, timeouts>>
Succeed(c) ==
    /\ call[c] = "posted" /\ session /\ engine = "serving"
    /\ timeouts' = 0 /\ openFor' = 0
    /\ Record("success")
    /\ Goto(c, "idle")
    /\ UNCHANGED <<process, engine, healthy, session>>

\* _note_timeout(): connect, idle or total timeout, of a hung or of a slow
\* engine.  The count is not told apart beyond the threshold.
TimeOut(c) ==
    /\ call[c] = "posted" /\ session /\ engine \in {"serving", "hung"}
    /\ timeouts' = IF timeouts < Threshold THEN timeouts + 1 ELSE Threshold
    /\ IF timeouts' = Threshold THEN openFor' = Cooldown /\ healthy' = FALSE
                                ELSE UNCHANGED <<openFor, healthy>>
    /\ Record("timeout")
    /\ Goto(c, "idle")
    /\ UNCHANGED <<process, engine, session>>

\* A connection error, a closed session, a client that left, a cancelled
\* handler, the router's own fence: nothing is noted.
Fail(c) ==
    /\ call[c] \in {"generator", "posted"}
    /\ Goto(c, "idle")
    /\ UNCHANGED <<process, engine, healthy, session, breaker>>

Answered503(c) ==
    /\ call[c] = "refused"
    /\ Goto(c, "idle")
    /\ UNCHANGED <<process, engine, healthy, session, breaker>>

Tick ==
    /\ openFor > 0
    /\ openFor' = openFor - 1
    /\ UNCHANGED <<process, engine, healthy, session, timeouts, outcomes, call>>

Done ==
    /\ phase \in {"failed", "stopped", "cancelled"}
    /\ \A c \in Calls : call[c] = "idle"
    /\ UNCHANGED vars

Next ==
    \/ ServesHttp \/ Hangs \/ Exits
    \/ Launch \/ StartFails \/ Poll \/ StartTimesOut
    \/ Stop \/ Kill \/ Reap \/ Cancel
    \/ \E c \in Calls :
          \/ Refuse(c) \/ Answered503(c) \/ Iterate(c)
          \/ (\E stream \in BOOLEAN : Forward(c, stream))
          \/ Succeed(c) \/ TimeOut(c) \/ Fail(c)
    \/ Tick \/ Done

Spec == Init /\ [][Next]_vars

\* Time passes: the clock ticks, start() polls on to its deadline, the 10 s of
\* stop() end.  Nothing is asked of the engine.
Fairness ==
    /\ WF_vars(Tick)
    /\ WF_vars(StartFails \/ Poll \/ StartTimesOut)
    /\ WF_vars(Kill) /\ WF_vars(Reap)
FairSpec == Spec /\ Fairness

------------------------------------------------------------------------------
(* Properties *)

\* Types, and: only a launched process is owned.
TypeOK ==
    /\ phase \in {"new", "polling", "up", "giving_up", "stopping", "failed", "stopped", "cancelled"}
    /\ polls \in 0..MaxPolls
    /\ owned => ~dev /\ engine # "none"
    /\ engine \in {"none", "loading", "serving", "hung", "exited"}
    /\ healthy \in BOOLEAN /\ session \in BOOLEAN
    /\ timeouts \in 0..Threshold /\ openFor \in 0..Cooldown
    /\ call \in [Calls -> {"idle", "generator", "posted", "refused"}]

\* The circuit is open only after Threshold timeouts in a row, in the order in
\* which the calls ended: concurrent calls that overlap the cooldown, and end
\* in any order, never leave it open after a success.
OpenAfterStreak ==
    /\ TypeOK
    /\ CircuitOpen => /\ Len(outcomes) = Threshold
                      /\ ToSet(outcomes) = {"timeout"}

\* However many calls are refused and however late the calls in flight time
\* out, an open circuit lets calls through again.
CircuitRecovers == CircuitOpen ~> ~CircuitOpen

\* The adapter keeps what ModelLifecycle assumes about its process, "dead"
\* meaning that no process runs: also when the server never comes up, ignores
\* SIGTERM, or exits while it is polled or stopped.
NoProcess == dev \/ engine = "exited"
ProcessState ==
    CASE phase = "new" -> "none"
      [] phase \in {"polling", "giving_up"} -> "starting"
      [] phase = "up" -> "up"
      [] phase = "stopping" -> "stopping"
      [] phase \in {"failed", "stopped"} -> IF NoProcess THEN "dead" ELSE "running"
      [] phase = "cancelled" -> "abandoned"
Process == INSTANCE EngineProcess WITH process <- ProcessState
ImplementsEngineProcess == Process!Spec
==============================================================================
