CONSTANTS
    r1 = r1
    r2 = r2
    r3 = r3
    a = a
    b = b
    Requests = {r1, r2, r3}
    MaxConcurrent = 1
    QueueSize = 1
    Cancellable = {r1}
    LateTimerCancels = TRUE
    Tenants = {a, b}
    TenantOf <- QuietTenant
    TenantCap = 2
    BasePriority = 1
    Buckets = {0}
    Scheduling = "fifo"
SPECIFICATION FairSpec
INVARIANTS SlotSpansService RecordedOnce AnsweredAsRecorded
PROPERTIES ImplementsTenantQueue EveryRequestEnds
