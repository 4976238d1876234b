\* Two processes hand a partition to and fro by a rebalance, a shutdown and
\* restarts, with up to two crashes or evictions on the way.
SPECIFICATION Spec
SYMMETRY Interchangeable
CONSTANTS
    Consumers = {c1, c2}
    Partitions = {p1}
    None = None
    Kinds = {"valid"}
    SinkRaises = {"TransientProcessingError"}
    MaxAttempts = 1
    EveryN = 1
    PublishAggregates = TRUE
    EgressFaults = FALSE
    RegistryFaults = FALSE
    MaxLog = 2
    MaxFaults = 2
    MaxRebalances = 1
    MaxSignals = 1
INVARIANTS
    InFlightNotCommitted
    NoOrderLost
    IInv
    NoReplayWithoutFault
    CountedInOrder
    OneOutcomeWithoutFault
    SnapshotLag
    OrderlyInv
PROPERTIES
    CommittedNeverRewinds
    ImplementsAtLeastOnce
