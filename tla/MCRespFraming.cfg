SPECIFICATION Spec
CONSTANTS
    Values <- MCValues
    MaxElements = 3
    Tails <- MCTails
    BufferSize = 45
INVARIANTS BulkExact NoLateArray EarlyByLastElement DecodedIsSent
CHECK_DEADLOCK FALSE
