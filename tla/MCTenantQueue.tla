---------------------------- MODULE MCTenantQueue ----------------------------
(* Model-checking instances of TenantQueue. *)
EXTENDS TenantQueue, TLC

CONSTANTS r1, r2, r3, r4, r5, a, b

\* Tenant b sends two requests, tenant a the others.
TwoTenants == [r \in Requests |-> IF r \in {r2, r4} THEN b ELSE a]

\* The requests of one tenant are interchangeable.
TenantSymmetry == Permutations({r1, r3, r5}) \cup Permutations({r2, r4})
==============================================================================
