------------------------------ MODULE Admission ------------------------------
(***************************************************************************)
(* AdmissionController (src/src/kvwarden/router/admission.py): a counter   *)
(* of admitted requests in front of the engine and a priority queue of     *)
(* parked acquire() calls.                                                 *)
(*                                                                         *)
(* asyncio runs one callback at a time, and inside acquire() nothing       *)
(* suspends before wait_for (the lock is never contended and the queue is  *)
(* unbounded), so each action below is one uninterrupted run of the event  *)
(* loop.  What is NOT atomic is waking up: the 30 s timer fires, release() *)
(* sets the event, and the parked task resumes in three separate loop      *)
(* callbacks, in any order.                                                *)
(***************************************************************************)
EXTENDS Integers, FiniteSets

CONSTANTS
    Requests,           \* every acquire() call of a behaviour, one id per call
    MaxConcurrent,      \* max_concurrent
    QueueSize,          \* queue_size
    Priorities,         \* the priorities acquire() may be called with
    Cancellable,        \* the calls whose task may be cancelled while parked
    LateTimerCancels    \* a timer firing after the grant still raises
                        \* TimeoutError: FALSE on Python 3.11, TRUE from 3.12

ASSUME RequestsAssumption == IsFiniteSet(Requests) /\ Cancellable \subseteq Requests
ASSUME SizesAssumption == MaxConcurrent \in Nat \ {0} /\ QueueSize \in Nat
ASSUME PrioritiesAssumption == Priorities \subseteq Int
ASSUME RuntimeAssumption == LateTimerCancels \in BOOLEAN

VARIABLES
    inFlight,   \* _in_flight
    sequence,   \* _sequence
    waiters,    \* _waiters: the calls whose entry is in the priority queue
    rank,       \* priority and sequence of the _QueueEntry of each call
    signalled,  \* the calls whose entry's event is set
    cancelled,  \* the calls whose entry is marked cancelled
    timer,      \* the wait_for timer of each call
    pc,         \* where each call is
    total       \* _total_admitted, _total_rejected, _total_timed_out

vars == <<inFlight, sequence, waiters, rank, signalled, cancelled, timer, pc, total>>

(***************************************************************************)
(* "new": not called yet; "waiting": parked in wait_for; "holding":        *)
(* acquire() returned True and release() is still due; "released": it has  *)
(* been called; the rest are calls that ended without a slot.              *)
(***************************************************************************)
Final == {"released", "rejected", "timedout", "cancelled"}
States == {"new", "waiting", "holding"} \cup Final

Ranks == [priority : Int, sequence : Nat]
Totals == [admitted : Nat, rejected : Nat, timedOut : Nat]

Init ==
    /\ inFlight = 0
    /\ sequence = 0
    /\ waiters = {}
    /\ rank = [r \in Requests |-> [priority |-> 0, sequence |-> 0]]
    /\ signalled = {}
    /\ cancelled = {}
    /\ timer = [r \in Requests |-> "off"]
    /\ pc = [r \in Requests |-> "new"]
    /\ total = [admitted |-> 0, rejected |-> 0, timedOut |-> 0]

HasRoomOffByOne == inFlight <= MaxConcurrent
HasRoom == inFlight < MaxConcurrent

QueueFull == Cardinality(waiters) >= QueueSize

\* _QueueEntry orders by (priority, sequence).
BeforeLIFO(v, w) ==
    \/ rank[v].priority < rank[w].priority
    \/ rank[v].priority = rank[w].priority /\ rank[v].sequence > rank[w].sequence
Before(v, w) ==
    \/ rank[v].priority < rank[w].priority
    \/ rank[v].priority = rank[w].priority /\ rank[v].sequence < rank[w].sequence

Live == waiters \ cancelled
IsNext(w) == w \in Live /\ \A v \in Live : ~Before(v, w)

------------------------------------------------------------------------------
(* acquire() up to the point where it returns or parks. *)

AdmitFast(r) ==
    /\ pc[r] = "new"
    /\ HasRoom
    /\ inFlight' = inFlight + 1
    /\ total' = [total EXCEPT !.admitted = @ + 1]
    /\ pc' = [pc EXCEPT ![r] = "holding"]
    /\ UNCHANGED <<sequence, waiters, rank, signalled, cancelled, timer>>

RejectFull(r) ==
    /\ pc[r] = "new"
    /\ ~HasRoom
    /\ QueueFull
    /\ total' = [total EXCEPT !.rejected = @ + 1]
    /\ pc' = [pc EXCEPT ![r] = "rejected"]
    /\ UNCHANGED <<inFlight, sequence, waiters, rank, signalled, cancelled, timer>>

Enqueue(r, p) ==
    /\ pc[r] = "new"
    /\ ~HasRoom
    /\ ~QueueFull
    /\ rank' = [rank EXCEPT ![r] = [priority |-> p, sequence |-> sequence]]
    /\ sequence' = sequence + 1
    /\ waiters' = waiters \cup {r}
    /\ timer' = [timer EXCEPT ![r] = "armed"]
    /\ pc' = [pc EXCEPT ![r] = "waiting"]
    /\ UNCHANGED <<inFlight, signalled, cancelled, total>>

(***************************************************************************)
(* The loop runs the timer callback of a parked call.  On Python 3.11 a    *)
(* timer that finds the call already granted does nothing; from 3.12 it    *)
(* cancels the task, which asyncio.timeout turns into TimeoutError.        *)
(***************************************************************************)
TimerFires(r) ==
    /\ pc[r] = "waiting"
    /\ timer[r] = "armed"
    /\ r \in signalled => LateTimerCancels
    /\ timer' = [timer EXCEPT ![r] = "fired"]
    /\ UNCHANGED <<inFlight, sequence, waiters, rank, signalled, cancelled, pc, total>>

(* The parked task resumes. *)

ReturnAdmittedTwice(r) ==
    /\ pc[r] = "waiting"
    /\ r \in signalled
    /\ timer[r] = "armed"
    /\ inFlight' = inFlight + 1
    /\ timer' = [timer EXCEPT ![r] = "off"]
    /\ total' = [total EXCEPT !.admitted = @ + 1]
    /\ pc' = [pc EXCEPT ![r] = "holding"]
    /\ UNCHANGED <<sequence, waiters, rank, signalled, cancelled>>
ReturnAdmitted(r) ==
    /\ pc[r] = "waiting"
    /\ r \in signalled
    /\ timer[r] = "armed"
    /\ timer' = [timer EXCEPT ![r] = "off"]
    /\ total' = [total EXCEPT !.admitted = @ + 1]
    /\ pc' = [pc EXCEPT ![r] = "holding"]
    /\ UNCHANGED <<inFlight, sequence, waiters, rank, signalled, cancelled>>

ReturnTimedOut(r) ==
    /\ pc[r] = "waiting"
    /\ timer[r] = "fired"
    /\ cancelled' = cancelled \cup {r}
    /\ timer' = [timer EXCEPT ![r] = "off"]
    /\ total' = [total EXCEPT !.timedOut = @ + 1]
    /\ pc' = [pc EXCEPT ![r] = "timedout"]
    /\ UNCHANGED <<inFlight, sequence, waiters, rank, signalled>>

(***************************************************************************)
(* CancelledError reaches the parked call (the queue workers of            *)
(* router.stop(), aiohttp's shutdown).  acquire() catches TimeoutError     *)
(* only: the entry stays in the queue, unmarked.                           *)
(***************************************************************************)
TaskCancelled(r) ==
    /\ pc[r] = "waiting"
    /\ r \in Cancellable
    /\ timer' = [timer EXCEPT ![r] = "off"]
    /\ pc' = [pc EXCEPT ![r] = "cancelled"]
    /\ UNCHANGED <<inFlight, sequence, waiters, rank, signalled, cancelled, total>>

(***************************************************************************)
(* release(): pop entries in order, drop the cancelled ones, give the slot *)
(* to the first live one; give it back if none is left.                    *)
(***************************************************************************)
HandOverForgetsRest ==
    \E w \in Live :
        /\ IsNext(w)
        /\ waiters' = {}
        /\ signalled' = signalled \cup {w}
        /\ UNCHANGED inFlight
HandOver ==
    \E w \in Live :
        /\ IsNext(w)
        /\ waiters' = {v \in waiters : Before(w, v)}
        /\ signalled' = signalled \cup {w}
        /\ UNCHANGED inFlight

FreeSlotKeepsCancelled ==
    /\ Live = {}
    /\ waiters' = waiters
    /\ inFlight' = inFlight - 1
    /\ UNCHANGED signalled
FreeSlot ==
    /\ Live = {}
    /\ waiters' = {}
    /\ inFlight' = inFlight - 1
    /\ UNCHANGED signalled

ReleaseRejected(r) ==
    /\ pc[r] \in {"holding", "rejected"}
    /\ HandOver \/ FreeSlot
    /\ pc' = [pc EXCEPT ![r] = "released"]
    /\ UNCHANGED <<sequence, rank, cancelled, timer, total>>
Release(r) ==
    /\ pc[r] = "holding"
    /\ HandOver \/ FreeSlot
    /\ pc' = [pc EXCEPT ![r] = "released"]
    /\ UNCHANGED <<sequence, rank, cancelled, timer, total>>

\* Every call of the behaviour has ended.
Quiescent == (\A r \in Requests : pc[r] \in Final) /\ UNCHANGED vars

Resume(r) == ReturnAdmitted(r) \/ ReturnTimedOut(r)

Next ==
    \/ \E r \in Requests :
          \/ AdmitFast(r)
          \/ RejectFull(r)
          \/ \E p \in Priorities : Enqueue(r, p)
          \/ TimerFires(r)
          \/ ReturnAdmitted(r)
          \/ ReturnTimedOut(r)
          \/ TaskCancelled(r)
          \/ Release(r)
    \/ Quiescent

Spec == Init /\ [][Next]_vars

(***************************************************************************)
(* The loop runs every ready task, and the router calls release() in a     *)
(* finally.  Timers are not assumed to fire.                               *)
(***************************************************************************)
Fairness == \A r \in Requests : WF_vars(Resume(r)) /\ WF_vars(Release(r))
FairSpec == Spec /\ Fairness

------------------------------------------------------------------------------
(* Who occupies a slot *)

Holders == {r \in Requests : pc[r] = "holding"}
Granted == {r \in Requests : pc[r] = "waiting" /\ r \in signalled}
\* acquire() returned False or raised although release() had handed it the
\* slot: nobody will ever call release() for it.
Leaked == {r \in Requests : pc[r] \in {"timedout", "cancelled"} /\ r \in signalled}
Occupied == Holders \cup Granted \cup Leaked

(***************************************************************************)
(* Properties                                                              *)
(***************************************************************************)

(* Types of the state. *)
TypeOK ==
    /\ inFlight \in Nat
    /\ sequence \in Nat
    /\ waiters \subseteq Requests
    /\ rank \in [Requests -> Ranks]
    /\ signalled \subseteq Requests
    /\ cancelled \subseteq Requests
    /\ timer \in [Requests -> {"off", "armed", "fired"}]
    /\ pc \in [Requests -> States]
    /\ total \in Totals

(* _in_flight counts every occupied slot exactly once, over every order of *)
(* fast admissions, hand-overs (which do not touch it), late resumptions,  *)
(* timeouts and releases.                                                  *)
SlotAccounting == inFlight = Cardinality(Occupied)

(* The cap: never more than max_concurrent requests at the engine, those   *)
(* whose grant they have not seen yet included.                            *)
ConcurrencyCap == Cardinality(Holders \cup Granted) <= MaxConcurrent

(* No barging and no idle slot: while any entry is queued, even one whose  *)
(* caller is gone, every slot is taken, so acquire()'s fast path cannot    *)
(* overtake the queue and a phantom entry never outlives the saturation.   *)
NoBarging == waiters # {} => inFlight = MaxConcurrent

(* A parked call is never overtaken by one that is due after it: release() *)
(* gives a slot to w only if no live entry precedes w by (priority, FIFO). *)
NoOvertaking ==
    [][\A v, w \in Requests :
          (/\ pc[v] = "waiting" /\ v \notin signalled
           /\ w \in waiters /\ w \in signalled' \ signalled)
             => \/ rank[w].priority < rank[v].priority
                \/ /\ rank[w].priority = rank[v].priority
                   /\ rank[w].sequence <= rank[v].sequence]_vars

(* The totals count every finished call in exactly one column; a leaked    *)
(* grant counts as timed out and not as admitted.                          *)
OutcomesCountedOnce ==
    LET InStates(S) == Cardinality({r \in Requests : pc[r] \in S})
    IN  /\ total.admitted = InStates({"holding", "released"})
        /\ total.rejected = InStates({"rejected"})
        /\ total.timedOut = InStates({"timedout"})

(* The queue stays a queue: a queued entry is not granted, a parked call   *)
(* that was not granted is queued, and only a call that timed out is       *)
(* marked.  No grant is lost in the queue and no waiter is dropped from it *)
(* by the lazy draining of release().                                      *)
ParkedIffQueued ==
    \A r \in Requests :
        /\ r \in waiters => r \notin signalled /\ pc[r] \in {"waiting", "timedout", "cancelled"}
        /\ pc[r] = "waiting" /\ r \notin signalled => r \in waiters
        /\ pc[r] = "new" => r \notin signalled
        /\ r \in cancelled <=> pc[r] = "timedout"

(* Refinement: with the leaked slots counted as occupied, the controller   *)
(* is the priority semaphore above it.                                     *)
Sem == INSTANCE PrioritySemaphore WITH
           Slots <- MaxConcurrent,
           occupied <- Occupied,
           line <- Live,
           arrivals <- sequence
ImplementsSemaphore == Sem!Spec

(* If every holder releases, only a leaked slot can keep a call parked: no *)
(* wake-up is lost, even with timers that never fire.                      *)
WaiterServed ==
    \A r \in Requests : pc[r] = "waiting" ~> (pc[r] # "waiting" \/ Leaked # {})

(* Entries of timed-out calls, which count against queue_size, are drained *)
(* by the releases of the calls ahead of them.                             *)
PhantomsDrain ==
    \A r \in Requests :
        (r \in waiters /\ r \in cancelled) ~> (r \notin waiters \/ Leaked # {})

(* admission.py:161 "Current number of in-flight requests.": in_flight is  *)
(* the number of requests that have, or are about to learn they have, the  *)
(* engine.  The code violates it.                                          *)
InFlightIsHonest == inFlight = Cardinality(Holders \cup Granted)
==============================================================================
