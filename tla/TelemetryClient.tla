--------------------------- MODULE TelemetryClient ---------------------------
(***************************************************************************)
(* The opt-in telemetry of the command line (src/src/kvwarden/             *)
(* _telemetry.py, called by main() and _cmd_telemetry() of cli.py).        *)
(*                                                                         *)
(* Every run of `kvwarden` is a process of its own, and nothing orders     *)
(* them but the config file they share.  _save_config() opens the file,    *)
(* which truncates it, and then writes it; the process may be killed at    *)
(* any point.  A uuid is named by the invocation that minted it.           *)
(***************************************************************************)
EXTENDS Integers, FiniteSets

CONSTANTS
    Invocations,    \* runs of kvwarden
    None,           \* no record yet
    Absent, Torn,   \* the file is missing; it is truncated
    Garbled         \* it holds one text and the end of a longer one

VARIABLES
    file,           \* telemetry.json: one of the above, or its record
    pc,             \* where each invocation is
    cfg,            \* the record each invocation saves or acts on
    posted,         \* the invocations that sent their event
    consented,      \* history: the install ids the user has said yes to
    optedOut,       \* history: `telemetry off` is the user's last word
    afterOptOut     \* history: the invocations that began then

clientVars == <<file, pc, cfg, posted, consented, optedOut, afterOptOut>>

Records == [enabled : BOOLEAN, id : Invocations]
ASSUME NamesAssumption == {None, Absent, Torn, Garbled} \cap Records = {}

ClientInit ==
    /\ file = Absent
    /\ pc = [i \in Invocations |-> "new"]
    /\ cfg = [i \in Invocations |-> None]
    /\ posted = {}
    /\ consented = {}
    /\ optedOut = FALSE
    /\ afterOptOut = {}

------------------------------------------------------------------------------
Goto(i, to) == pc' = [pc EXCEPT ![i] = to]
Decide(i, enabled, id) == cfg' = [cfg EXCEPT ![i] = [enabled |-> enabled, id |-> id]]

SaysYes(id) == consented' = consented \cup {id} /\ optedOut' = FALSE
SaysNothing == UNCHANGED <<consented, optedOut>>

Begins(i) ==
    /\ pc[i] = "new"
    /\ afterOptOut' = IF optedOut THEN afterOptOut \cup {i} ELSE afterOptOut

\* An event main() maps to but _ALLOWED_EVENTS lacks (bench), or
\* KVWARDEN_TELEMETRY=0: nothing is read.
BeginIgnored(i) ==
    /\ Begins(i)
    /\ Goto(i, "done")
    /\ UNCHANGED <<file, cfg, posted>> /\ SaysNothing

\* maybe_prompt_and_record_event(): a file that is missing or corrupt makes it
\* a first run; without a terminal the answer is No.
Configured == file \in Records
BeginConfigured(i) ==
    /\ Begins(i) /\ Configured
    /\ cfg' = [cfg EXCEPT ![i] = file]
    /\ Goto(i, "decided")
    /\ UNCHANGED <<file, posted>> /\ SaysNothing
BeginPrompt(i) ==
    /\ Begins(i) /\ ~Configured
    /\ Goto(i, "prompting")
    /\ UNCHANGED <<file, cfg, posted>> /\ SaysNothing
BeginUnattendedAccepts(i) ==
    /\ Begins(i) /\ ~Configured
    /\ Decide(i, TRUE, i)
    /\ Goto(i, "saving")
    /\ UNCHANGED <<file, posted>> /\ SaysNothing
BeginUnattended(i) ==
    /\ Begins(i) /\ ~Configured
    /\ Decide(i, FALSE, i)
    /\ Goto(i, "saving")
    /\ UNCHANGED <<file, posted>> /\ SaysNothing

Answer(i, yes) ==
    /\ pc[i] = "prompting"
    /\ Decide(i, yes, i)
    /\ IF yes THEN SaysYes(i) ELSE SaysNothing
    /\ Goto(i, "saving")
    /\ UNCHANGED <<file, posted, afterOptOut>>

\* set_enabled(), under `kvwarden telemetry on|off`.
CommandKeepsOn(i, on) ==
    /\ Begins(i)
    /\ LET id == IF Configured THEN file.id ELSE i
       IN  /\ Decide(i, on \/ (Configured /\ file.enabled), id)
           /\ IF on THEN SaysYes(id) ELSE SaysNothing
    /\ Goto(i, IF on THEN "turning_on" ELSE "turning_off")
    /\ UNCHANGED <<file, posted>>
Command(i, on) ==
    /\ Begins(i)
    /\ LET id == IF Configured THEN file.id ELSE i
       IN  /\ Decide(i, on, id)
           /\ IF on THEN SaysYes(id) ELSE SaysNothing
    /\ Goto(i, IF on THEN "turning_on" ELSE "turning_off")
    /\ UNCHANGED <<file, posted>>

(* _save_config() *)

ToSave == {"saving", "turning_on", "turning_off"}
Truncated == {"truncated", "truncated_on", "truncated_off"}
Saving == ToSave \cup Truncated

Open(i) ==
    /\ pc[i] \in ToSave
    /\ file' = Torn
    /\ Goto(i, CASE pc[i] = "saving" -> "truncated"
                 [] pc[i] = "turning_on" -> "truncated_on"
                 [] pc[i] = "turning_off" -> "truncated_off")
    /\ UNCHANGED <<cfg, posted, afterOptOut>> /\ SaysNothing

Saved(i) == IF pc[i] \in {"saving", "truncated"} THEN "decided" ELSE "done"

\* The write starts at the beginning: the text with "true" is the shorter one,
\* and leaves the end of one with "false" that a concurrent save wrote.
Write(i) ==
    /\ pc[i] \in Truncated
    /\ file' = IF cfg[i].enabled /\ (file = Garbled \/ (Configured /\ ~file.enabled))
                 THEN Garbled ELSE cfg[i]
    /\ Goto(i, Saved(i))
    /\ optedOut' = \/ optedOut
                   \/ /\ pc[i] = "truncated_off"
                      /\ \A j \in Invocations \ {i} : pc[j] \notin Saving
    /\ UNCHANGED <<cfg, posted, consented, afterOptOut>>

\* Every failure is swallowed; the invocation goes on as if it had saved.
SaveFails(i) ==
    /\ pc[i] \in Saving
    /\ Goto(i, Saved(i))
    /\ UNCHANGED <<file, cfg, posted, afterOptOut>> /\ SaysNothing

Killed(i) ==
    /\ pc[i] \in {"prompting"} \cup Saving
    /\ Goto(i, "done")
    /\ UNCHANGED <<file, cfg, posted, afterOptOut>> /\ SaysNothing

(* The daemon thread posts once, unless the process ends first. *)

Send(i) ==
    /\ pc[i] = "decided" /\ cfg[i].enabled
    /\ posted' = posted \cup {i}
    /\ Goto(i, "done")
    /\ UNCHANGED <<file, cfg, afterOptOut>> /\ SaysNothing
StaySilent(i) ==
    /\ pc[i] = "decided"
    /\ Goto(i, "done")
    /\ UNCHANGED <<file, cfg, posted, afterOptOut>> /\ SaysNothing

ClientNext ==
    \E i \in Invocations :
        \/ BeginIgnored(i) \/ BeginConfigured(i) \/ BeginPrompt(i) \/ BeginUnattended(i)
        \/ (\E b \in BOOLEAN : Answer(i, b) \/ Command(i, b))
        \/ Open(i) \/ Write(i) \/ SaveFails(i) \/ Killed(i)
        \/ Send(i) \/ StaySilent(i)

------------------------------------------------------------------------------
(* Properties *)

ClientTypeOK ==
    /\ file \in Records \cup {Absent, Torn, Garbled}
    /\ pc \in [Invocations -> {"new", "prompting", "decided", "done"} \cup Saving]
    /\ cfg \in [Invocations -> Records \cup {None}]
    /\ posted \cup afterOptOut \subseteq Invocations
    /\ consented \subseteq Invocations
    /\ optedOut \in BOOLEAN

\* docs/privacy/telemetry.md "If and only if you explicitly type y at the
\* first-run prompt (or later run kvwarden telemetry on)": every event sent
\* carries an id the user said yes to, whatever runs overlap, save over each
\* other, fail or are killed half-way.
ConsentRespected ==
    /\ ClientTypeOK
    /\ \A i \in posted : cfg[i].id \in consented

\* Once `kvwarden telemetry off` has written the file, with no other save under
\* way, an invocation that begins before the user says yes again sends nothing,
\* unless the user says yes to that invocation's own prompt.
OptOutHolds == \A i \in posted \cap afterOptOut : cfg[i].id = i
==============================================================================
