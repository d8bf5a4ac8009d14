SPECIFICATION FairSpec
CONSTANTS
    BMS = {b1, b2}
    Thermos = {}
    NoPeer = NoPeer
    MAX_CONNECTIONS = 2
    FAIL_LIMIT = 3
    FAIL_LIMIT_MAIN = 4
INVARIANTS
    RecoveryArmed
PROPERTIES
    LoopReturns
    LoopAdvances
