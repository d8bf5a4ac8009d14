SPECIFICATION Spec
CONSTANTS
    BMS = {b1, b2}
    Thermos = {t1}
    NoPeer = NoPeer
    MAX_CONNECTIONS = 2
    FAIL_LIMIT = 1
    FAIL_LIMIT_MAIN = 1
SYMMETRY Symmetry
PROPERTIES ImplementsDeviceLinks
INVARIANTS
    TypeOK
    ClientAvailable
    NoSessionDuringScan
    LiveLinkIsFlagged
    RecoveryArmed
