\* One run of the inspector while letters arrive and are replayed.
CONSTANTS
    Failures <- MCFailures
    Senders <- MCSenders
    Limits = {0, 2}
    IdleTimeout = 2
    Delay = 1
    MaxDecode = 1
    MaxLetters = 2
    MaxErrors = 1
    MaxEvictions = 1
    MaxSignals = 2
SPECIFICATION FairSpec
INVARIANTS
    TypeOK
    DrainedInTime
    PrintedInOrder
    ReportTellsWhy
    OneFailureContext
    ForeignHeadersKept
PROPERTIES
    EndsAfterSignal
    EndsWithoutFollow
    FollowShowsAll
\* The inspector ends.
CHECK_DEADLOCK FALSE
