SPECIFICATION Spec
CONSTANTS
    Rngs = {r1, r2}
    TxOuts = {1, 2}
    MAX_MULTIPLIER = 3
    EventRace = FALSE
    MaxHeight = 3
    BLOCK_COUNT_MAX = 9
    TARGET_NUM_INPUTS = 2
    NEW_TX_BLOCK_ATTEMPTS = 1
INVARIANTS
    TypeOK
    
    
    WalletAssertions
    ExpiredIsFinal

    
SYMMETRY Symmetry
CHECK_DEADLOCK FALSE
