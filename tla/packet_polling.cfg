SPECIFICATION Spec
CONSTANTS
    Boards = {b1, b2}
    MaxFrames = 3
    MaxRestarts = 1
INVARIANTS
    TypeOK
    CorruptionBounded
    AnswersAccounted
    InfoIsOwn
    UpdateAnnounced
CHECK_DEADLOCK FALSE
