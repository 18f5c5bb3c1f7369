SPECIFICATION Spec
CONSTANTS
    s1 = s1  s2 = s2  t1 = t1  t2 = t2  theirs = theirs  g1 = g1
    Sessions = {s1}
    ClientId = {t1, theirs}
    Foreign = {theirs}
    GeneratedId = {g1}
    Title <- MCTitle
    Operations <- OddEdits
    MaxOps = 2
    MaxFailures = 1
INVARIANT TypeOK
PROPERTY LastWriteWinsSpec
CHECK_DEADLOCK FALSE
