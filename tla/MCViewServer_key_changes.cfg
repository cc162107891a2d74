SPECIFICATION Spec
CONSTANTS
    Keys = {k1, k2}
    Expiries = {1}
    MaxLag = 1
    MAX_QUEUED_RECORDS = 0
    StaleKeys = FALSE
    MayStop = TRUE
    MaxHeight = 1
    MayFail = TRUE
    MaxChanges = 2
INVARIANTS
    NothingMissing
SYMMETRY Symmetry
CHECK_DEADLOCK FALSE
