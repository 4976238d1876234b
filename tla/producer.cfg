\* Every mix of kinds, reports, failures, full queue and signals in a short run.
SPECIFICATION FairSpec
CONSTANTS
    QueueLimit = 2
    MaxTotal = 3
    MaxSignals = 2
INVARIANTS
    TypeOK
    Ledger
    EndInv
    BudgetSpentExactly
    ExitCodeTruthful
PROPERTIES
    StopsWhenAsked
    EndsOnBudget
\* The process ends.
CHECK_DEADLOCK FALSE
