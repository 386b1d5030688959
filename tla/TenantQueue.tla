----------------------------- MODULE TenantQueue -----------------------------
(***************************************************************************)
(* How route_request (src/src/kvwarden/router/router.py) pairs the two     *)
(* slots of a request: the tenant's concurrency slot (TenantRecord), taken *)
(* first and counted in the priority under "drr", and the admission slot   *)
(* (AdmissionController).  What happens while both are held, from the      *)
(* model load to the end of a stream, is left to RequestPath, which        *)
(* implements this specification.                                          *)
(***************************************************************************)
EXTENDS Integers, FiniteSets

CONSTANTS
    Requests, MaxConcurrent, QueueSize, Cancellable, LateTimerCancels,
                    \* as in Admission
    Tenants,        \* tenant ids
    TenantOf,       \* the X-Tenant-ID of each request
    TenantCap,      \* max_concurrent_requests of the default budget
    BasePriority,   \* priority of the default budget
    Buckets,        \* BUCKET_PRIORITY of the lengths in use
    Scheduling      \* tenant_defaults.scheduling

ASSUME AdmissionAssumption ==
    /\ IsFiniteSet(Requests) /\ Cancellable \subseteq Requests
    /\ MaxConcurrent \in Nat \ {0} /\ QueueSize \in Nat
    /\ LateTimerCancels \in BOOLEAN
ASSUME TenantsAssumption ==
    /\ TenantOf \in [Requests -> Tenants]
    /\ TenantCap \in Nat
    /\ BasePriority \in Int
ASSUME BucketsAssumption == Buckets \subseteq 0 .. 3
ASSUME SchedulingAssumption == Scheduling \in {"fifo", "drr"}

VARIABLES
    inFlight, sequence, waiters, rank, signalled, cancelled, timer, pc, total,
                    \* the AdmissionController, see Admission
    active,         \* usage.active_requests of each tenant
    lost            \* requests that failed between the two slots

admVars == <<inFlight, sequence, waiters, rank, signalled, cancelled, timer, pc, total>>
vars == <<admVars, active, lost>>

(***************************************************************************)
(* The priority passed to acquire() by a request whose tenant has n active *)
(* requests, itself included: priority_score() * 100 + bucket under "drr". *)
(***************************************************************************)
PriorityBucketFirst(n, bucket) ==
    IF Scheduling = "drr" THEN bucket * 100 + n * 10 + BasePriority ELSE bucket
Priority(n, bucket) ==
    IF Scheduling = "drr" THEN (n * 10 + BasePriority) * 100 + bucket ELSE bucket

A == INSTANCE Admission WITH
         Priorities <- {Priority(n, bucket) : n \in 1 .. TenantCap, bucket \in Buckets}

Init ==
    /\ A!Init
    /\ active = [t \in Tenants |-> 0]
    /\ lost = {}

TakeTenantSlot(r) == active' = [active EXCEPT ![TenantOf[r]] = @ + 1]
FreeTenantSlot(r) ==
    active' = [active EXCEPT ![TenantOf[r]] = IF @ > 0 THEN @ - 1 ELSE 0]

\* A new request that try_acquire_for_tenant lets through.
HasBudget(r) ==
    /\ pc[r] = "new" /\ r \notin lost
    /\ active[TenantOf[r]] < TenantCap

\* max_tokens is not a number: classify_request_length raises, before
\* route_request's try.
FailMalformed(r) ==
    /\ HasBudget(r)
    /\ TakeTenantSlot(r)
    /\ lost' = lost \cup {r}
    /\ UNCHANGED admVars

AdmitAtOnce(r) ==
    /\ HasBudget(r)
    /\ A!AdmitFast(r)
    /\ TakeTenantSlot(r)
    /\ UNCHANGED lost

\* Queue full: the tenant slot is taken and given back in one run.
RejectOverload(r) ==
    /\ HasBudget(r)
    /\ A!RejectFull(r)
    /\ UNCHANGED <<active, lost>>

Park(r) ==
    /\ HasBudget(r)
    /\ \E bucket \in Buckets : A!Enqueue(r, Priority(active[TenantOf[r]] + 1, bucket))
    /\ TakeTenantSlot(r)
    /\ UNCHANGED lost

AdmissionTimer(r) == A!TimerFires(r) /\ UNCHANGED <<active, lost>>

AdmitParked(r) == A!ReturnAdmitted(r) /\ UNCHANGED <<active, lost>>

TimeoutKeepsTenantSlot(r) == A!ReturnTimedOut(r) /\ UNCHANGED <<active, lost>>
TimeoutParked(r) ==
    /\ A!ReturnTimedOut(r)
    /\ FreeTenantSlot(r)
    /\ UNCHANGED lost

\* CancelledError leaves acquire(), which is called before route_request's try.
CancelParked(r) == A!TaskCancelled(r) /\ UNCHANGED <<active, lost>>

\* The end of both finally blocks.  Nothing in release() checks that the
\* caller holds a slot.
GiveBack(r) ==
    /\ A!HandOver \/ A!FreeSlot
    /\ pc' = [pc EXCEPT ![r] = "released"]
    /\ FreeTenantSlot(r)
    /\ UNCHANGED <<sequence, rank, cancelled, timer, total, lost>>

Finish(r) == pc[r] = "holding" /\ GiveBack(r)

\* No request is parked or at the engine.
Idle == (\A r \in Requests : pc[r] \notin {"waiting", "holding"}) /\ UNCHANGED vars

Next ==
    \/ \E r \in Requests :
          \/ FailMalformed(r) \/ AdmitAtOnce(r) \/ RejectOverload(r) \/ Park(r)
          \/ AdmissionTimer(r) \/ AdmitParked(r) \/ TimeoutParked(r)
          \/ CancelParked(r) \/ Finish(r)
    \/ Idle

Spec == Init /\ [][Next]_vars

------------------------------------------------------------------------------
(***************************************************************************)
(* Properties                                                              *)
(***************************************************************************)

RequestsOf(t) == {r \in Requests : TenantOf[r] = t}
InProgress == {r \in Requests : pc[r] \in {"waiting", "holding"}}
\* Their tenant slot is never given back.
Forgotten == lost \cup {r \in Requests : pc[r] = "cancelled"}

(* Types of the state. *)
TypeOK ==
    /\ A!TypeOK
    /\ active \in [Tenants -> 0 .. TenantCap]
    /\ lost \subseteq Requests

(* A tenant's active_requests counts its requests that are parked or at    *)
(* the engine, and the ones that lost their slot, over every order of      *)
(* hand-overs, timeouts, cancellations and releases.                       *)
TenantSlotsAccounted ==
    /\ TypeOK
    /\ \A t \in Tenants :
        active[t] = Cardinality(RequestsOf(t) \cap (InProgress \cup Forgotten))

(* Deficit round-robin: a parked request whose tenant had n requests when  *)
(* it arrived finds at most n requests of any other tenant in line before  *)
(* it, however many that tenant has sent and however long ago.             *)
DeficitBound ==
    Scheduling = "drr" =>
        \A v \in A!Live \cap InProgress, t \in Tenants, n \in 1 .. TenantCap :
            (/\ t # TenantOf[v]
             /\ \E bucket \in Buckets : rank[v].priority = Priority(n, bucket))
              => Cardinality({w \in A!Live \cap RequestsOf(t) : A!Before(w, v)}) <= n

(* manager.py:33 "Live usage counters for a single tenant.": a tenant's    *)
(* active_requests are requests in progress.  The code violates it.        *)
ActiveRequestsAreLive ==
    \A t \in Tenants : active[t] <= Cardinality(RequestsOf(t) \cap InProgress)

(* tuning_guide.md:30 "tenants with more in-flight requests wait behind    *)
(* quieter tenants": a hand-over never passes over a tenant with fewer     *)
(* active requests.  The code violates it.                                 *)
BusierTenantWaits ==
    [][\A v, w \in A!Live \cap InProgress :
          w \in signalled' \ signalled
             => active'[TenantOf[w]] <= active'[TenantOf[v]]]_vars
==============================================================================
