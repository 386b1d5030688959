SPECIFICATION PhaseSpec
CONSTANTS
    N = 3
    Levels <- MCLevels
    Repeats = 1
    LoadLevel = 2
    Gpus = 2
    FlushInterval = 4
    MaxRows = 9
INVARIANTS RunsAreWhole RowsKept
PROPERTY PhaseEnds
CHECK_DEADLOCK FALSE
