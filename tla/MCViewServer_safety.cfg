SPECIFICATION Spec
CONSTANTS
    Keys = {k1, k2}
    Expiries = {2}
    MaxLag = 1
    MAX_QUEUED_RECORDS = 0
    StaleKeys = FALSE
    MayStop = TRUE
    MaxHeight = 2
    MayFail = FALSE
    MaxChanges = 0
INVARIANTS
    TypeOK
    NothingMissing
    PipelineInOrder
    QueueBounded
SYMMETRY Symmetry
CHECK_DEADLOCK FALSE
