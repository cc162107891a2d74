SPECIFICATION Spec
CONSTANTS
    Keys = {k1, k2}
    Enclaves = {s1}
    Servers = {s1}
    ReportIds = {r1}
    NoKey = NoKey
    Contents <- TwoChunks
    Windows = {0, 1}
    KeyRace = FALSE
    MaxBlocks = 2
    Budget <- Faults
INVARIANTS
    TypeOK
    IdleHasNoInvocation
    WorkerAssertions
    ScansContiguous
    RowsAnnounced
    CompleteBlocks
    RangesHaveNoHoles
SYMMETRY Symmetry
CHECK_DEADLOCK FALSE
