SPECIFICATION Spec
CONSTANTS
    t1 = t1  t2 = t2  t3 = t3
    None = None
    Task = {t1, t2, t3}
    Week = 7
    Day = 1440
    DefaultSchedule <- NineToFive
    Fillers <- FillerMinutes
    Requests <- WeeklyRequests
INVARIANTS SlotsAdmissible RefusedOnlyIfNoRoom ComplaintsExplained
CHECK_DEADLOCK FALSE
