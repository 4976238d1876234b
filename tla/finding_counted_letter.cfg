\* An eviction between the delivery and the commit.
SPECIFICATION Spec
CONSTANTS
    Consumers = {c1, c2}
    Partitions = {p1}
    None = None
    Kinds = {"valid"}
    SinkRaises = {"TransientProcessingError"}
    MaxAttempts = 1
    EveryN = 1
    PublishAggregates = FALSE
    EgressFaults = FALSE
    RegistryFaults = FALSE
    MaxLog = 1
    MaxFaults = 1
    MaxRebalances = 0
    MaxSignals = 0
INVARIANTS
    DeadLetteredNeverCounted
