SPECIFICATION Spec
CONSTANTS
    Count = 8
    treetop_max_count = 2
    Zero = zero
    Garbage = garbage
    Data = {zero, d1}
    MaxWrites = 3
    MaxDrops = 1
CHECK_DEADLOCK FALSE
INVARIANTS TypeOK NeverPanics HashTree
PROPERTIES ImplementsPathMemory NonceNeverReused
