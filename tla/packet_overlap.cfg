SPECIFICATION Spec
CONSTANTS
    Boards = {b1, b2}
    MaxFrames = 2
    MaxRestarts = 0
INVARIANT DataOfThisBoard
CHECK_DEADLOCK FALSE
