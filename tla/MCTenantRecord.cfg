CONSTANTS
    Calls = {c1, c2, c3, c4}
    None = None
    DefaultBudget <- HalfRate
    Budgets <- OtherBudgets
    MaxTime = 4
SPECIFICATION Spec
INVARIANTS TypeOK SlotsAccounted RateWindow
PROPERTIES ImplementsTokenBucket
