---------------------------- MODULE TenantRecord ----------------------------
(***************************************************************************)
(* The record TenantManager keeps for one tenant                           *)
(* (src/src/kvwarden/tenant/manager.py): a token-bucket rate limit, a cap  *)
(* on concurrent requests, and the usage counter the "drr" scheduling      *)
(* reads.  Records of different tenants share nothing.                     *)
(*                                                                         *)
(* No coroutine here suspends (its lock is uncontended, and SlotsAccounted *)
(* shows the semaphore is never empty when it is taken), so each method is *)
(* one action.  Time is an integer number of ticks, and the float bucket   *)
(* is counted in units of 1/60 token: rate_limit_rpm/60 tokens per second  *)
(* are rate_limit_rpm units per tick.                                      *)
(***************************************************************************)
EXTENDS Integers, FiniteSets, Sequences

CONSTANTS
    Calls,          \* every try_acquire() of a behaviour, one id per call
    Budgets,        \* the TenantBudgets register_tenant() may be given
    DefaultBudget,  \* the manager's default budget
    None,           \* Python's None
    MaxTime         \* the clock stops here (bound of the model)

TokenUnit == 60

TenantBudget ==
    [max_concurrent_requests : Nat, rate_limit_rpm : Nat,
     rate_limit_burst : Nat \cup {None}, priority : Int]

ASSUME CallsAssumption == IsFiniteSet(Calls)
ASSUME BudgetsAssumption ==
    Budgets \subseteq TenantBudget /\ DefaultBudget \in TenantBudget
ASSUME NoneAssumption == None \notin Nat
ASSUME MaxTimeAssumption == MaxTime \in Nat

VARIABLES
    now,        \* time.monotonic()
    registered, \* the manager holds a record for the tenant
    created,    \* the budget the record was (or, until it is registered, will
                \* be) created with; __init__ derives _token_capacity,
                \* _refill_per_sec and both concurrency counters from it
    budget,     \* the field budget
    tokens,     \* _tokens, in units
    lastRefill, \* _last_refill_t
    available,  \* _available
    semaphore,  \* the value of _semaphore
    active,     \* usage.active_requests
    pc,         \* where each call is
    admittedAt  \* history: when each token was taken

vars == <<now, registered, created, budget, tokens, lastRefill, available,
          semaphore, active, pc, admittedAt>>

Capacity(b) ==
    TokenUnit * (IF b.rate_limit_burst = None THEN b.rate_limit_rpm
                                              ELSE b.rate_limit_burst)

Init ==
    /\ now = 0
    /\ registered = FALSE
    /\ created = DefaultBudget
    /\ budget = DefaultBudget
    /\ tokens = Capacity(DefaultBudget)
    /\ lastRefill = 0
    /\ available = DefaultBudget.max_concurrent_requests
    /\ semaphore = DefaultBudget.max_concurrent_requests
    /\ active = 0
    /\ pc = [c \in Calls |-> "new"]
    /\ admittedAt = <<>>

RefilledUncapped == tokens + (now - lastRefill) * created.rate_limit_rpm
Refilled ==
    LET level == tokens + (now - lastRefill) * created.rate_limit_rpm
    IN  IF level > Capacity(created) THEN Capacity(created) ELSE level

\* "drr": lower is served first.
PriorityScore == active * 10 + budget.priority

------------------------------------------------------------------------------
Tick ==
    /\ now < MaxTime
    /\ now' = now + 1
    /\ UNCHANGED <<registered, created, budget, tokens, lastRefill, available,
                   semaphore, active, pc, admittedAt>>

(* register_tenant(), for a new and for a known tenant. *)

RegisterNew(b) ==
    /\ ~registered
    /\ registered' = TRUE
    /\ created' = b
    /\ budget' = b
    /\ tokens' = Capacity(b)
    /\ lastRefill' = now
    /\ available' = b.max_concurrent_requests
    /\ semaphore' = b.max_concurrent_requests
    /\ UNCHANGED <<now, active, pc, admittedAt>>

UpdateBudget(b) ==
    /\ registered
    /\ budget' = b
    /\ UNCHANGED <<now, registered, created, tokens, lastRefill, available,
                   semaphore, active, pc, admittedAt>>

(* try_acquire_for_tenant(): registers an unknown tenant with the default  *)
(* budget, refills the bucket, then takes a token and a slot or neither.   *)

Grant(c) ==
    /\ pc[c] = "new"
    /\ Refilled >= TokenUnit
    /\ available > 0
    /\ registered' = TRUE
    /\ tokens' = Refilled - TokenUnit
    /\ lastRefill' = now
    /\ available' = available - 1
    /\ semaphore' = semaphore - 1
    /\ active' = active + 1
    /\ pc' = [pc EXCEPT ![c] = "holding"]
    /\ admittedAt' = Append(admittedAt, now)
    /\ UNCHANGED <<now, created, budget>>

RefuseTakesToken(c) ==
    /\ pc[c] = "new"
    /\ Refilled < TokenUnit \/ available <= 0
    /\ registered' = TRUE
    /\ tokens' = IF Refilled < TokenUnit THEN Refilled ELSE Refilled - TokenUnit
    /\ lastRefill' = now
    /\ pc' = [pc EXCEPT ![c] = "refused"]
    /\ UNCHANGED <<now, created, budget, available, semaphore, active, admittedAt>>
RefuseRewindsClock(c) ==
    /\ pc[c] = "new"
    /\ Refilled < TokenUnit \/ available <= 0
    /\ registered' = TRUE
    /\ tokens' = Refilled
    /\ UNCHANGED lastRefill
    /\ pc' = [pc EXCEPT ![c] = "refused"]
    /\ UNCHANGED <<now, created, budget, available, semaphore, active, admittedAt>>
Refuse(c) ==
    /\ pc[c] = "new"
    /\ Refilled < TokenUnit \/ available <= 0
    /\ registered' = TRUE
    /\ tokens' = Refilled
    /\ lastRefill' = now
    /\ pc' = [pc EXCEPT ![c] = "refused"]
    /\ UNCHANGED <<now, created, budget, available, semaphore, active, admittedAt>>

ReleaseForgetsActive(c) ==
    /\ pc[c] = "holding"
    /\ semaphore' = semaphore + 1
    /\ available' = available + 1
    /\ pc' = [pc EXCEPT ![c] = "released"]
    /\ UNCHANGED <<now, registered, created, budget, tokens, lastRefill, active, admittedAt>>
Release(c) ==
    /\ pc[c] = "holding"
    /\ semaphore' = semaphore + 1
    /\ available' = available + 1
    /\ active' = IF active > 0 THEN active - 1 ELSE 0
    /\ pc' = [pc EXCEPT ![c] = "released"]
    /\ UNCHANGED <<now, registered, created, budget, tokens, lastRefill, admittedAt>>

Quiescent ==
    /\ now = MaxTime
    /\ \A c \in Calls : pc[c] \in {"refused", "released"}
    /\ UNCHANGED vars

Next ==
    \/ Tick
    \/ \E b \in Budgets : RegisterNew(b) \/ UpdateBudget(b)
    \/ \E c \in Calls : Grant(c) \/ Refuse(c) \/ Release(c)
    \/ Quiescent

Spec == Init /\ [][Next]_vars

------------------------------------------------------------------------------
(***************************************************************************)
(* Properties                                                              *)
(***************************************************************************)

Holders == {c \in Calls : pc[c] = "holding"}

(* Types; the bucket never goes below empty or above its capacity. *)
TypeOK ==
    /\ now \in Nat
    /\ registered \in BOOLEAN
    /\ created \in TenantBudget
    /\ budget \in TenantBudget
    /\ tokens \in 0 .. Capacity(created)
    /\ lastRefill \in 0 .. now
    /\ available \in Nat
    /\ semaphore \in Nat
    /\ active \in Nat
    /\ pc \in [Calls -> {"new", "holding", "refused", "released"}]
    /\ admittedAt \in Seq(Nat)

(* The three concurrency counters agree with each other and with the calls *)
(* that hold a slot: _semaphore.acquire() never blocks although it is      *)
(* taken outside the lock (manager.py:102-103), active_requests neither    *)
(* drifts nor meets its max(0, ...) clamp, and the cap the record was      *)
(* created with is never exceeded.                                         *)
SlotsAccounted ==
    /\ semaphore = available
    /\ active = Cardinality(Holders)
    /\ available + active = created.max_concurrent_requests

(* The token bucket, over every window: between the i-th and the j-th      *)
(* admission of the tenant, both included, at most a burst plus what the   *)
(* rate supplied meanwhile was admitted -- whatever refusals, releases and *)
(* budget updates happened in between.                                     *)
RateWindow ==
    \A i \in 1 .. Len(admittedAt) : \A j \in i .. Len(admittedAt) :
        (j - i + 1) * TokenUnit
            <= Capacity(created)
               + created.rate_limit_rpm * (admittedAt[j] - admittedAt[i])

(* The lazily refilled bucket implements the one that is filled at every   *)
(* tick: no unit is lost or gained by computing the refill at the next     *)
(* request, and a refused request takes none.                              *)
Bucket == INSTANCE TokenBucket WITH
              level <- Refilled,
              capacity <- Capacity(created),
              rate <- created.rate_limit_rpm,
              settled <- registered,
              admitted <- Len(admittedAt)
ImplementsTokenBucket == Bucket!Spec

(* manager.py:198 "Register a new tenant or update an existing one.": a    *)
(* request is admitted only while the tenant's in-flight requests fit in   *)
(* its current budget.  The code violates it after an update.              *)
AdmissionRespectsBudget ==
    [][Len(admittedAt') > Len(admittedAt)
          => active' <= budget.max_concurrent_requests]_vars
==============================================================================
