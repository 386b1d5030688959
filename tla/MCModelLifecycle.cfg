SPECIFICATION FairSpec
CONSTANTS
    a = a
    b = b
    x = x
    r1 = r1
    r2 = r2
    r3 = r3
    Main = Main
    None = None
    Configured = {a, b}
    Extra = {x}
    Requests = {r1, r2, r3}
    ModelOf <- MCModelOf
INVARIANTS EveryEngineOwned SingleEngine ServedByRegistered GaugesAccounted
PROPERTY CallsReturn
