SPECIFICATION Spec
CONSTANTS
    r1 = r1  r2 = r2  a = a  b = b
    Null = Null  Unset = Unset  None = None
    Row = {a, b}
    OwnRow = a
    Requests = {r1, r2}
    Bodies <- SmallBodies
    Stores <- SmallStores
    Users <- SmallUsers
    TrialPeriod = 1
    FreeLimit = 1
    MaxValue = 2
    MaxNow = 2
INVARIANTS EventEndsAfterStart RulesRefusedOnlyAtFirst CopyIsCurrent
PROPERTY OthersColumnsStay
CHECK_DEADLOCK FALSE
