---------------------------- MODULE MCRequestPath ----------------------------
(* Model-checking instances of RequestPath. *)
EXTENDS RequestPath

CONSTANTS r1, r2, r3, a, b

\* Tenant b sends one request, tenant a the others.
QuietTenant == [r \in Requests |-> IF r = r2 THEN b ELSE a]
==============================================================================
