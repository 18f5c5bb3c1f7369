SPECIFICATION Spec
CONSTANTS
    r1 = r1  r2 = r2  a = a  b = b  c = c  k1 = k1  k2 = k2  x = x  y = y
    None = None
    Row = {a, b, c}
    IdOrder <- Order
    AttributeOf <- Attribute
    Requests = {r1, r2}
    Offsets = {0, 1}
    KeyChoices <- Keyings
    Stores <- SmallStores
    Filters <- SmallFilters
    MaxNow = 3
    MaxWrites = 1
SYMMETRY Alike
INVARIANTS OverwritesTheExpected CarriedOutOnce WalkIsExact
CHECK_DEADLOCK FALSE
