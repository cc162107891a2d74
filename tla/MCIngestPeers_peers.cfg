SPECIFICATION FairSpec
CONSTANTS
    s1 = s1
    s2 = s2
    k1 = k1
    k2 = k2
    Servers = {s1, s2}
    Keys = {k1, k2, k3}
    InitialKeys <- FirstKeys
    Configs <- TwoConfigs
    Budgets <- TwoDisturbances
CHECK_DEADLOCK FALSE
INVARIANTS TypeOK AtMostOneActive 
PROPERTIES ActivationEnds BackupsRestored
