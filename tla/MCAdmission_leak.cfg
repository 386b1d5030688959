CONSTANTS
    Requests = {r1, r2, r3}
    MaxConcurrent = 1
    QueueSize = 2
    Priorities = {0, 1}
    Cancellable = {}
    LateTimerCancels = FALSE
SPECIFICATION Spec
INVARIANT InFlightIsHonest
