SPECIFICATION FairSpec
CONSTANTS
    r1 = r1  r2 = r2  n1 = n1  n2 = n2  d1 = d1  d2 = d2
    t1 = t1  t2 = t2  k1 = k1  k2 = k2
    None = None
    Runs = {r1}
    Replans = {n1, n2}
    Decisions = {d1, d2}
    KeyChoices <- TwoKeyings
    Task = {t1, t2}
    Answers <- AISlots
    Choices = {{1}, {1, 2}}
    Generated <- OwnSlots
    MaxFaults = 1
INVARIANTS AcceptedIsApplied DecidedOncePerKey HistoryIsComplete
PROPERTIES TerminalStays RequestsEnd
CHECK_DEADLOCK FALSE
