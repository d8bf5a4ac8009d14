SPECIFICATION Spec
CONSTANTS
    BMS = {b1, b2}
    Thermos = {}
    NoPeer = NoPeer
    MAX_CONNECTIONS = 2
    FAIL_LIMIT = 1
    FAIL_LIMIT_MAIN = 1
PROPERTIES
    ReusedClientExists
