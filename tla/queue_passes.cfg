SPECIFICATION FairSpec
CONSTANTS
    w1 = w1  w2 = w2  o1 = o1  o2 = o2  o3 = o3
    Workers = {w1, w2}
    Operation = {o1, o2, o3}
    Payloads <- Mixed
    Later = {o1}
    BatchSize = 2
    MaxCount = 2
    MaxCrashes = 1
INVARIANTS TypeOK NoRowStaysLocked CountedAndRunOnce
PROPERTY FineOperationsGetDone
