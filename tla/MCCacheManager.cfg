SPECIFICATION CacheSpec
CONSTANTS
    b1 = b1
    b2 = b2
    b3 = b3
    b4 = b4
    m1 = m1
    m2 = m2
    r1 = r1
    r2 = r2
    Blocks = {b1, b2, b3, b4}
    Size <- MCSize
    ModelOf <- MCModelOf
    RequestOf <- MCRequestOf
    Capacity <- MCCapacity
    Margin = 1536
    MaxLookups = 2
INVARIANTS LedgerAgrees CapacityRespected
PROPERTY EvictionKeepsTheBest
