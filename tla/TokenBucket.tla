----------------------------- MODULE TokenBucket -----------------------------
(***************************************************************************)
(* The rate limit a tenant is promised: a bucket that gains rate units at  *)
(* every tick of the clock, holds at most capacity, and gives up one token *)
(* per admitted request and nothing per refused one.  Its size is settled  *)
(* by the first registration of, or request from, the tenant.              *)
(***************************************************************************)
EXTENDS Integers

CONSTANTS TokenUnit

VARIABLES level, capacity, rate, settled,
          admitted        \* requests admitted so far

vars == <<level, capacity, rate, settled, admitted>>

Init == /\ capacity \in Nat /\ rate \in Nat /\ level = capacity
        /\ settled = FALSE /\ admitted = 0

Settle ==
    /\ ~settled
    /\ settled' = TRUE
    /\ capacity' \in Nat
    /\ rate' \in Nat
    /\ level' = capacity'
    /\ UNCHANGED admitted

Fill ==
    /\ level' = IF level + rate > capacity THEN capacity ELSE level + rate
    /\ UNCHANGED <<capacity, rate, settled, admitted>>

Take ==
    /\ level >= TokenUnit
    /\ level' = level - TokenUnit
    /\ settled' = TRUE
    /\ admitted' = admitted + 1
    /\ UNCHANGED <<capacity, rate>>

Next == Settle \/ Fill \/ Take

Spec == Init /\ [][Next]_vars
==============================================================================
