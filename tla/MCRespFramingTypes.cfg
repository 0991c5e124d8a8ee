SPECIFICATION Spec
CONSTANTS
    Values <- MCValues
    MaxElements = 3
    Tails <- MCTails
    BufferSize = 45
CHECK_DEADLOCK FALSE
INVARIANTS TypeOK
