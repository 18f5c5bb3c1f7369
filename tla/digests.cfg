SPECIFICATION DigestsFairSpec
CONSTANTS
    w1 = w1  w2 = w2  daily = daily  weekly = weekly  d1 = d1  d2 = d2  d3 = d3
    None = None
    Passes = {w1, w2}
    Schedules = {daily, weekly}
    Period <- Periods
    DayLength = 2
    SendHour = 1
    Device = {d1, d2, d3}
    Setups <- SmallSetups
    Starts <- SmallStarts
    MaxNow = 5
    MaxFaults = 1
INVARIANTS SpacedOut DevicesReachedOnce
PROPERTY DueIsSent
CHECK_DEADLOCK FALSE
