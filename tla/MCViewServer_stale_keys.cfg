SPECIFICATION Spec
CONSTANTS
    Keys = {k1, k2}
    Expiries = {2}
    MaxLag = 0
    MAX_QUEUED_RECORDS = 1
    StaleKeys = TRUE
    MayStop = FALSE
    MaxHeight = 2
    MayFail = FALSE
    MaxChanges = 0
INVARIANTS
    NothingMissing
SYMMETRY Symmetry
CHECK_DEADLOCK FALSE
