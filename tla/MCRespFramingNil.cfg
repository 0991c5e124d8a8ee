SPECIFICATION Spec
CONSTANTS
    Values <- MCValues
    MaxElements = 4
    Tails <- MCTails
    BufferSize = 40
INVARIANT CompleteIsTaken
CHECK_DEADLOCK FALSE
