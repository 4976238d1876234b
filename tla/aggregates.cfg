\* One consumer, its clock and its averages.
CONSTANTS
    MaxAttempts = 3
    InitialBackoff = 1
    Multiplier = 4
    MaxBackoff = 2
    JitterPercent = 50
    Products <- MCProducts
    Prices = {1, 4}
    All = "ALL"
    EveryN = 2
    Interval = 2
    FlushTicks = 1
    QueueLimits = {1, 3}
    MaxMessages = 2
    MaxErrors = 1
    MaxLosses = 1
    MaxSignals = 2
SPECIFICATION FairSpec
INVARIANTS
    TypeOK
    MeanNear
    PartsMakeWhole
    SnapshotsAgree
    ReaderUpToDate
    PollGapBounded
    NeverStale
PROPERTIES
    EveryOrderPublished
\* The consumer ends after a signal.
CHECK_DEADLOCK FALSE
