SPECIFICATION Spec
CONSTANTS
    f1 = f1
    f2 = f2
    Flushes <- TwoFlushes
    MaxEdits = 2
    MaxFailures = 0
    FailureModes <- NoFailures
INVARIANT NoDataLoss
