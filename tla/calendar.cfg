SPECIFICATION FairSpec
CONSTANTS
    f1 = f1
    f2 = f2
    Flushes <- TwoFlushes
    MaxEdits = 2
    MaxFailures = 2
    FailureModes <- AllFailures
INVARIANTS TypeOK RetryArmed NoQuietLoss ScreenExplained CreatedTwiceOnlyIfContended
PROPERTIES DeletedStaysDeleted QueuedIsDelivered
