\* A sink that raises an exception outside the taxonomy.
SPECIFICATION FairSpec
CONSTANTS
    Consumers = {c1}
    Partitions = {p1}
    None = None
    Kinds = {"valid"}
    SinkRaises = {"Exception"}
    MaxAttempts = 1
    EveryN = 1
    PublishAggregates = FALSE
    EgressFaults = FALSE
    RegistryFaults = FALSE
    MaxLog = 1
    MaxFaults = 0
    MaxRebalances = 0
    MaxSignals = 0
PROPERTIES
    EveryOrderAcknowledged
