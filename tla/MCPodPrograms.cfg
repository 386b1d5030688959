SPECIFICATION FairSpec
CONSTANTS
    p1 = p1
    p2 = p2
    p3 = p3
    Pods = {p1, p2, p3}
    NoPod = NoPod
    PoolSize = 1
    MaxHangs = 1
    MaxCreates = 2
    Cells = 2
INVARIANTS EveryPodIsGivenBack CellsAccounted
PROPERTY ProgramEnds
