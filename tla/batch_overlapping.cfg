SPECIFICATION FairSpec
CONSTANTS
    s1 = s1  s2 = s2  t1 = t1  t2 = t2  theirs = theirs  g1 = g1
    Sessions = {s1, s2}
    ClientId = {t1, t2}
    Foreign = {}
    GeneratedId = {}
    Title <- MCTitle
    Operations <- Edits
    MaxOps = 2
    MaxFailures = 0
INVARIANT NewestApplied
PROPERTIES RegressesOnlyIfRaced BatchesEnd
CHECK_DEADLOCK FALSE
