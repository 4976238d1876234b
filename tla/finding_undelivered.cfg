\* A flush that times out against the final report.
SPECIFICATION Spec
CONSTANTS
    QueueLimit = 2
    MaxTotal = 1
    MaxSignals = 0
INVARIANT UndeliveredReported
CHECK_DEADLOCK FALSE
