SPECIFICATION Spec
CONSTANTS
    Boards = {b1}
    MaxFrames = 2
    MaxRestarts = 0
INVARIANT PacketsReconstructed
CHECK_DEADLOCK FALSE
