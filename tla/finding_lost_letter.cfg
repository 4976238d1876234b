\* A letter the egress producer fails to deliver.
SPECIFICATION Spec
CONSTANTS
    Consumers = {c1}
    Partitions = {p1}
    None = None
    Kinds = {"invalid"}
    SinkRaises = {"TransientProcessingError"}
    MaxAttempts = 1
    EveryN = 1
    PublishAggregates = FALSE
    EgressFaults = TRUE
    RegistryFaults = FALSE
    MaxLog = 1
    MaxFaults = 0
    MaxRebalances = 0
    MaxSignals = 0
INVARIANTS
    NoOrderLost
