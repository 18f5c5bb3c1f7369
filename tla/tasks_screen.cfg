SPECIFICATION ScreenSpec
CONSTANTS
    c1 = c1  c2 = c2  c3 = c3
    Calls <- ThreeCalls
    Seed = 2
    PageSize = 2
    MaxCalls = 4
    MaxFaults = 1
INVARIANTS ScreenIsServer CacheIsScreen
CHECK_DEADLOCK FALSE
