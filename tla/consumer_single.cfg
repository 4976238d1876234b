\* One process with two partitions against every failure of its sink, registry
\* and egress, with a rebalance and a fault.
SPECIFICATION Spec
SYMMETRY Interchangeable
CONSTANTS
    Consumers = {c1}
    Partitions = {p1, p2}
    None = None
    Kinds = {"valid", "invalid", "corrupt"}
    SinkRaises = {"TransientProcessingError", "PermanentProcessingError",
                  "ProcessingError", "Exception"}
    MaxAttempts = 2
    EveryN = 2
    PublishAggregates = TRUE
    EgressFaults = TRUE
    RegistryFaults = TRUE
    MaxLog = 1
    MaxFaults = 1
    MaxRebalances = 1
    MaxSignals = 0
INVARIANTS
    TypeOK
    AckedIsAccountedFor
    LettersTellWhy
    TallyBalances
