SPECIFICATION Spec
CONSTANTS
    MsetMax = 2
    BatchAddMax = 1
    Batches <- SmallBatches
    MaxFound = 3
    MaxSubrequests = 3
INVARIANTS TypeOK WaitsForSomeone
