SPECIFICATION FairSpec
CONSTANTS
    Keys = {k1, k2}
    Expiries = {1}
    MaxLag = 1
    MAX_QUEUED_RECORDS = 0
    StaleKeys = FALSE
    MayStop = FALSE
    MaxHeight = 1
    MayFail = FALSE
    MaxChanges = 1
PROPERTIES
    ScannedIsProcessed
CHECK_DEADLOCK FALSE
