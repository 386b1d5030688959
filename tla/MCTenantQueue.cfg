CONSTANTS
    r1 = r1
    r2 = r2
    r3 = r3
    r4 = r4
    r5 = r5
    a = a
    b = b
    Requests = {r1, r2, r3, r4, r5}
    MaxConcurrent = 1
    QueueSize = 3
    Cancellable = {r1, r2, r3, r4, r5}
    LateTimerCancels = TRUE
    Tenants = {a, b}
    TenantOf <- TwoTenants
    TenantCap = 3
    BasePriority = 1
    Buckets = {0, 3}
    Scheduling = "drr"
SPECIFICATION Spec
SYMMETRY TenantSymmetry
INVARIANTS TenantSlotsAccounted DeficitBound
