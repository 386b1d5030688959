---------------------------- MODULE CacheManager ----------------------------
(***************************************************************************)
(* The KV cache ledger (src/src/kvwarden/cache/manager.py): which block is *)
(* in which of the three tiers, moved by allocation, eviction, promotion,  *)
(* demotion and release.  No method awaits, so a call is one action.       *)
(*                                                                         *)
(* Sizes and capacities are in tokens.  The clock enters reuse_score()     *)
(* only through the order of the last accesses and the bounded weight of   *)
(* recency, so a sort by score is any order that agrees with Outscores,    *)
(* which holds where one score is above the other for sure.                *)
(* The specification's names carry Cache, so that a module can extend this *)
(* one beside another.                                                     *)
(***************************************************************************)
EXTENDS Integers, FiniteSets, SequencesExt

CONSTANTS
    Blocks,         \* block ids
    Size,           \* num_tokens of each block
    ModelOf,        \* model_id of each block
    RequestOf,      \* request_id of each block
    Capacity,       \* _capacities of the tiers
    Margin,         \* above 1000 * exp(_recency_weight / _freq_weight)
    MaxLookups      \* bound: calls of access_block()

Tiers == 1..3       \* TIER_ORDER: gpu, cpu, ssd

ASSUME BlocksAssumption == IsFiniteSet(Blocks) /\ Size \in [Blocks -> Nat \ {0}]
ASSUME CapacityAssumption == Capacity \in [Tiers -> Nat]
ASSUME MarginAssumption == Margin \in Nat /\ Margin > 1000
ASSUME LookupsAssumption == MaxLookups \in Nat

VARIABLES
    ledger,         \* tier: block.tier of _blocks, 0 if absent; members: _tier_blocks
    uses,           \* access_count of the blocks
    fresher,        \* the pairs <<a, b>> with a last accessed after b
    hits,           \* _hits of the tiers
    misses          \* _misses

cacheVars == <<ledger, uses, fresher, hits, misses>>

Known(s) == {b \in Blocks : s.tier[b] # 0}
Present == Known(ledger)

CacheInit ==
    /\ ledger = [tier |-> [b \in Blocks |-> 0], members |-> [t \in Tiers |-> {}]]
    /\ uses = [b \in Blocks |-> 0]
    /\ fresher = {}
    /\ hits = [t \in Tiers |-> 0]
    /\ misses = 0

------------------------------------------------------------------------------
(* The ledger *)

\* _tier_used_gb()
Used(s, t) == MapThenSumSet(LAMBDA b : Size[b], {b \in s.members[t] : s.tier[b] # 0})
Fits(s, b, t) == Used(s, t) + Size[b] <= Capacity[t]

Placed(s, b, t) ==
    [tier |-> [s.tier EXCEPT ![b] = t], members |-> [s.members EXCEPT ![t] = @ \cup {b}]]
Freed(s, S) ==
    [tier    |-> [b \in Blocks |-> IF b \in S THEN 0 ELSE s.tier[b]],
     members |-> [t \in Tiers |-> s.members[t] \ {b \in S : s.tier[b] = t}]]
MovedKeepsOldEntry(s, b, t) == Placed(s, b, t)
Moved(s, b, t) == Placed(Freed(s, {b}), b, t)

(* Eviction *)

\* reuse_score() of a is above that of b whatever the clock says: a has more uses
\* and the later access, or so many more that recency cannot make up for them.
\* Blocks with as many uses are not ordered: their scores are equal when both
\* accesses are within a millisecond, or so old that rounding loses recency.
Outscores(a, b) ==
    \/ uses[a] > uses[b] /\ <<a, b>> \in fresher
    \/ 1000 * (1 + uses[a]) >= Margin * (1 + uses[b])

RankingsBestFirst(S) ==
    {q \in SetToSeqs(S) : \A i, j \in DOMAIN q : i < j => ~Outscores(q[j], q[i])}
Rankings(S) ==
    {q \in SetToSeqs(S) : \A i, j \in DOMAIN q : i < j => ~Outscores(q[i], q[j])}

\* _evict_from_tier(): each block goes to the next tier if it fits there, else
\* it is discarded, until what has left is at least what is needed.
EvictUntil(s, t, needed, order) ==
    LET evict(acc, b) ==
          IF acc.freed >= needed THEN acc
          ELSE [freed |-> acc.freed + Size[b],
                ledger |-> IF t + 1 \in Tiers /\ Fits(acc.ledger, b, t + 1)
                             THEN Moved(acc.ledger, b, t + 1)
                             ELSE Freed(acc.ledger, {b})]
    IN  FoldLeft(evict, [freed |-> 0, ledger |-> s], order)
Evictions(s, t, needed) == {EvictUntil(s, t, needed, q) : q \in Rankings(s.members[t])}

\* One turn of allocate_block()'s loop, and the loop.
Enough(e, b) == e.freed >= Size[b]
TryTier(s, b, t) ==
    IF Fits(s, b, t) THEN {[ok |-> TRUE, ledger |-> Placed(s, b, t)]}
    ELSE {[ok |-> Enough(e, b),
           ledger |-> IF Enough(e, b) THEN Placed(e.ledger, b, t) ELSE e.ledger]
             : e \in Evictions(s, t, Size[b])}
Allocations(s, b, t) ==
    LET upTo[u \in (t - 1)..3] ==
          IF u = t - 1 THEN {[ok |-> FALSE, ledger |-> s]}
          ELSE UNION {IF o.ok THEN {o} ELSE TryTier(o.ledger, b, u) : o \in upTo[u - 1]}
    IN  upTo[3]

------------------------------------------------------------------------------
(* The operations *)

\* The metadata of a block goes with its entry in _blocks.
Keep(s) ==
    /\ ledger' = s
    /\ uses' = [b \in Blocks |-> IF s.tier[b] = 0 THEN 0 ELSE uses[b]]
    /\ fresher' = fresher \cap (Known(s) \X Known(s))
    /\ UNCHANGED <<hits, misses>>

\* block_id is a "unique identifier": it is not given again while it is live.
Allocate(b, t) ==
    /\ ledger.tier[b] = 0
    /\ \E o \in Allocations(ledger, b, t) :
         /\ ledger' = o.ledger
         /\ uses' = [x \in Blocks |-> IF o.ledger.tier[x] = 0 THEN 0
                                      ELSE IF x = b THEN 1 ELSE uses[x]]
         /\ fresher' = (fresher \cup ({b} \X Present)) \cap (Known(o.ledger) \X Known(o.ledger))
    /\ UNCHANGED <<hits, misses>>

Lookups == hits[1] + hits[2] + hits[3] + misses
Access(b) ==
    /\ Lookups < MaxLookups
    /\ IF b \in Present
         THEN /\ uses' = [uses EXCEPT ![b] = @ + 1]
              /\ fresher' = (fresher \ (Present \X {b})) \cup ({b} \X (Present \ {b}))
              /\ hits' = [hits EXCEPT ![ledger.tier[b]] = @ + 1]
              /\ UNCHANGED misses
         ELSE misses' = misses + 1 /\ UNCHANGED <<uses, fresher, hits>>
    /\ UNCHANGED ledger

FreeAll(S) == S # {} /\ Keep(Freed(ledger, S))
Free(b) == FreeAll(Present \cap {b})
FreeForRequest(r) == FreeAll({b \in Present : RequestOf[b] = r})
FreeForModel(m) == FreeAll({b \in Present : ModelOf[b] = m})

\* The eviction is not undone when the block still does not fit.
PromoteUnchecked(b, t) ==
    /\ b \in Present /\ t < ledger.tier[b]
    /\ IF Fits(ledger, b, t) THEN Keep(Moved(ledger, b, t))
       ELSE \E e \in Evictions(ledger, t, Size[b]) : Keep(Moved(e.ledger, b, t))
Promote(b, t) ==
    /\ b \in Present /\ t < ledger.tier[b]
    /\ IF Fits(ledger, b, t) THEN Keep(Moved(ledger, b, t))
       ELSE \E e \in Evictions(ledger, t, Size[b]) :
              Keep(IF Fits(e.ledger, b, t) THEN Moved(e.ledger, b, t) ELSE e.ledger)

\* Any tier with room is accepted, a faster one too.
Demote(b, t) ==
    /\ b \in Present /\ Fits(ledger, b, t)
    /\ Keep(Moved(ledger, b, t))

CacheNext ==
    \/ \E b \in Blocks : Access(b) \/ Free(b)
    \/ \E b \in Blocks, t \in Tiers : Allocate(b, t) \/ Promote(b, t) \/ Demote(b, t)
    \/ \E b \in Blocks : FreeForRequest(RequestOf[b]) \/ FreeForModel(ModelOf[b])

CacheSpec == CacheInit /\ [][CacheNext]_cacheVars

------------------------------------------------------------------------------
(* Properties *)

\* The type of the ledger; a block has a use exactly when it is in the ledger,
\* and the blocks in it are in the order of their last accesses.
CacheTypeOK ==
    /\ ledger.tier \in [Blocks -> {0} \cup Tiers]
    /\ ledger.members \in [Tiers -> SUBSET Blocks]
    /\ uses \in [Blocks -> 0..MaxLookups + 1]
    /\ hits \in [Tiers -> 0..MaxLookups]
    /\ misses \in 0..MaxLookups
    /\ fresher \subseteq Present \X Present
    /\ \A a, b \in Present : <<a, b>> \in fresher <=> a # b /\ <<b, a>> \notin fresher
    /\ \A a, b, c \in Present : {<<a, b>>, <<b, c>>} \subseteq fresher => <<a, c>> \in fresher
    /\ Present = {b \in Blocks : uses[b] > 0}

\* The two indexes agree after any cascade of evictions: a block is in the set
\* of the tier it names and in no other.  A stale entry would make the next
\* eviction fail with KeyError, a missing one would hide used space.
LedgerAgrees ==
    /\ CacheTypeOK
    /\ \A b \in Blocks, t \in Tiers : b \in ledger.members[t] <=> ledger.tier[b] = t

\* No tier ever holds more than its capacity: the space counted as freed while
\* blocks cascade downwards really is free when the new block is placed.
CapacityRespected == \A t \in Tiers : Used(ledger, t) <= Capacity[t]

\* An eviction, wherever it cascades, never takes a block out of a tier and
\* leaves there one whose score was lower for sure (Outscores).
Pushed(a, t) == ledger.tier[a] = t /\ (ledger'.tier[a] = 0 \/ ledger'.tier[a] > t)
Stayed(b, t) == ledger.tier[b] = t /\ ledger'.tier[b] = t
EvictionKeepsTheBest ==
    [][(\E x \in Blocks, t \in Tiers : Allocate(x, t) \/ Promote(x, t)) =>
         \A t \in Tiers, a, b \in Blocks :
            Pushed(a, t) /\ Stayed(b, t) => ~Outscores(a, b)]_cacheVars

\* allocate_block() "Returns: The allocated CacheBlock, or None if no tier has
\* space": when it fails, the block fits in none of the tiers it tried.  The
\* code violates it: it compares what it evicted, not what is free, with the
\* size of the block.
RefusedOnlyWhenFull ==
    [][\A b \in Blocks, t \in Tiers :
         Allocate(b, t) /\ ledger'.tier[b] = 0 =>
            \A u \in t..3 : ~Fits(ledger', b, u)]_cacheVars
==============================================================================
