\* Progress and shutdown; no symmetry, which liveness checking forbids.
SPECIFICATION FairSpec
CONSTANTS
    Consumers = {c1, c2}
    Partitions = {p1}
    None = None
    Kinds = {"valid", "invalid"}
    SinkRaises = {"TransientProcessingError"}
    MaxAttempts = 2
    EveryN = 1
    PublishAggregates = TRUE
    EgressFaults = FALSE
    RegistryFaults = FALSE
    MaxLog = 1
    MaxFaults = 1
    MaxRebalances = 0
    MaxSignals = 2
PROPERTIES
    EveryOrderAcknowledged
    ShutdownCompletes
