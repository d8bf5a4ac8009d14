SPECIFICATION Spec
CONSTANTS
    CellCounts = {1, 2, 3, 4, 15}
    CellLevels = {0, 3300, 4369, 4370, 65535}
    Leftovers = {0, 3300, 65535}
    VoltLevels = {0, 1, 4001, 5000, 6300}
    AmpLevels = {0, 1, 3276, 4294, 4295, 32767, 32768, 61242, 65535}
    TempLevels = {2531, 2731, 2981}
INVARIANTS
    TypeOK
    AverageWithin
    MedianNearMiddle
    WattsToTheLimit
CHECK_DEADLOCK FALSE
