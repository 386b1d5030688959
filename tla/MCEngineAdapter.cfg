SPECIFICATION FairSpec
CONSTANTS
    c1 = c1
    c2 = c2
    c3 = c3
    c4 = c4
    Calls = {c1, c2, c3, c4}
    Threshold = 3
    Cooldown = 2
    MaxPolls = 2
INVARIANTS OpenAfterStreak
PROPERTIES CircuitRecovers ImplementsEngineProcess
