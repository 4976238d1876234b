\* A transient failure, then a permanent one on the second attempt.
SPECIFICATION Spec
CONSTANTS
    Consumers = {c1}
    Partitions = {p1}
    None = None
    Kinds = {"valid"}
    SinkRaises = {"TransientProcessingError", "PermanentProcessingError"}
    MaxAttempts = 2
    EveryN = 1
    PublishAggregates = FALSE
    EgressFaults = FALSE
    RegistryFaults = FALSE
    MaxLog = 1
    MaxFaults = 0
    MaxRebalances = 0
    MaxSignals = 0
INVARIANTS
    LettersCountAttempts
