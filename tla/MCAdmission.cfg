CONSTANTS
    Requests = {r1, r2, r3, r4}
    MaxConcurrent = 1
    QueueSize = 2
    Priorities = {0, 1}
    Cancellable = {r1}
    LateTimerCancels = TRUE
SPECIFICATION FairSpec
INVARIANTS TypeOK SlotAccounting ConcurrencyCap NoBarging
PROPERTIES NoOvertaking ImplementsSemaphore WaiterServed PhantomsDrain
