SPECIFICATION Spec
CONSTANTS
    Keys = {k1, k2}
    Enclaves = {s1, s2}
    Servers = {s1, s2}
    ReportIds = {r1}
    NoKey = NoKey
    Contents <- OneChunk
    Windows = {1}
    KeyRace = FALSE
    MaxBlocks = 1
    Budget <- Crashes
INVARIANTS
    LostBlocksAccounted
PROPERTIES
    ImplementsKeyScans
SYMMETRY Symmetry
CHECK_DEADLOCK FALSE
