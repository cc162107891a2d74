SPECIFICATION Spec
CONSTANTS
    Keys = {k1}
    Enclaves = {s1}
    Servers = {s1}
    ReportIds = {r1}
    NoKey = NoKey
    Contents <- OneChunk
    Windows = {1}
    KeyRace = FALSE
    MaxBlocks = 2
    Budget <- ChunkTooBigOnce
INVARIANTS
    NoRngGaps
CHECK_DEADLOCK FALSE
