SPECIFICATION Spec
CONSTANTS
    BMS = {b1}
    Thermos = {}
    NoPeer = NoPeer
    MAX_CONNECTIONS = 2
    FAIL_LIMIT = 3
    FAIL_LIMIT_MAIN = 4
PROPERTIES
    SuccessMeansConnected
