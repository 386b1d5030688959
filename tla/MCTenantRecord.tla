--------------------------- MODULE MCTenantRecord ---------------------------
(* Model-checking instance of TenantRecord. *)
EXTENDS TenantRecord

Budget(cap, rpm, burst) ==
    [max_concurrent_requests |-> cap, rate_limit_rpm |-> rpm,
     rate_limit_burst |-> burst, priority |-> 1]

\* Half a token per tick, bursts of two.
HalfRate == Budget(2, 30, 2)
\* A bucket of one, refilled at every tick; and the default burst (the rpm).
OtherBudgets == {Budget(1, 60, 1), Budget(3, 2, None)}
==============================================================================
