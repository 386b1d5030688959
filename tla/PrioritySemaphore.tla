-------------------------- MODULE PrioritySemaphore --------------------------
(***************************************************************************)
(* What AdmissionController promises, without timers, events, counters or  *)
(* cancelled entries: at most Slots occupants; nobody enters past a        *)
(* non-empty line; a freed slot goes at once to the first in line, by      *)
(* priority and then by arrival; a place in the line can be given up, a    *)
(* slot is given up only by Leave.                                         *)
(***************************************************************************)
EXTENDS Integers, FiniteSets

CONSTANTS Requests, Slots, Priorities

VARIABLES
    occupied,   \* the requests that occupy a slot
    line,       \* the requests in line for one
    rank,       \* priority and arrival number of each request that ever joined
    arrivals    \* arrivals numbered so far

vars == <<occupied, line, rank, arrivals>>

Init ==
    /\ occupied = {}
    /\ line = {}
    /\ rank = [r \in Requests |-> [priority |-> 0, sequence |-> 0]]
    /\ arrivals = 0

Ahead(v, w) ==
    \/ rank[v].priority < rank[w].priority
    \/ rank[v].priority = rank[w].priority /\ rank[v].sequence < rank[w].sequence

Enter(r) ==
    /\ r \notin occupied
    /\ line = {}
    /\ Cardinality(occupied) < Slots
    /\ occupied' = occupied \cup {r}
    /\ UNCHANGED <<line, rank, arrivals>>

Join(r, p) ==
    /\ r \notin occupied \cup line
    /\ Cardinality(occupied) = Slots
    /\ line' = line \cup {r}
    /\ rank' = [rank EXCEPT ![r] = [priority |-> p, sequence |-> arrivals]]
    /\ arrivals' = arrivals + 1
    /\ UNCHANGED occupied

Withdraw(r) ==
    /\ r \in line
    /\ line' = line \ {r}
    /\ UNCHANGED <<occupied, rank, arrivals>>

LeaveEmpty(r) ==
    /\ r \in occupied
    /\ line = {}
    /\ occupied' = occupied \ {r}
    /\ UNCHANGED <<line, rank, arrivals>>

LeaveTo(r, w) ==
    /\ r \in occupied
    /\ w \in line
    /\ \A v \in line : ~Ahead(v, w)
    /\ occupied' = (occupied \ {r}) \cup {w}
    /\ line' = line \ {w}
    /\ UNCHANGED <<rank, arrivals>>

Next ==
    \E r \in Requests :
        \/ Enter(r)
        \/ \E p \in Priorities : Join(r, p)
        \/ Withdraw(r)
        \/ LeaveEmpty(r)
        \/ \E w \in Requests : LeaveTo(r, w)

Spec == Init /\ [][Next]_vars
==============================================================================
