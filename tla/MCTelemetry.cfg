SPECIFICATION FairSpec
CONSTANTS
    i1 = i1
    i2 = i2
    i3 = i3
    Invocations = {i1, i2, i3}
    Events = {i1, i2, i3}
    None = None
    Absent = Absent
    Torn = Torn
    Garbled = Garbled
    Limit = 2
    Retention = 1
INVARIANTS ConsentRespected OptOutHolds
PROPERTIES NoUndueDrop RowsAreDeleted
