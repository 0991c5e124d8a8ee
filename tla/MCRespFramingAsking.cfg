SPECIFICATION Spec
CONSTANTS
    Values <- MCValues
    MaxElements = 3
    Tails <- MCTails
    BufferSize = 45
INVARIANT NotOkIsAgain
CHECK_DEADLOCK FALSE
