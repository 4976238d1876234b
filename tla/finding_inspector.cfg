\* The group may be joined later than --idle-timeout allows for, or never.
CONSTANTS
    Failures <- MCFailures
    Senders <- MCSenders
    Limits = {0, 1}
    IdleTimeout = 2
    Delay = 3
    MaxDecode = 1
    MaxLetters = 2
    MaxErrors = 1
    MaxEvictions = 1
    MaxSignals = 2
SPECIFICATION Spec
INVARIANTS
    Drained
\* The inspector ends.
CHECK_DEADLOCK FALSE
