SPECIFICATION Spec
CONSTANTS
    MsetMax = 2
    BatchAddMax = 2
    Batches <- SmallBatches
    MaxFound = 1
    MaxSubrequests = 8
INVARIANTS SuccessMeansAll
