SPECIFICATION Spec
CONSTANTS
    Boards = 3
    Thermos = 1
    Interval = 5
    Lead <- LeadTimes
    Offset <- Offsets
    PanelInterval = 7
    Pause = 2
    ResetInterval = 11
    Wrap = 34
    Epoch = 100
    SyncedAtBoot = FALSE
    MaxPart = 1
    MaxRound = 2
    MaxScans = 2
    MaxTime = 45
INVARIANTS
    TypeOK
    NeverLate
PROPERTIES
    NeverEarly
    ApartUntilLate
    ResetOnceEveryday
