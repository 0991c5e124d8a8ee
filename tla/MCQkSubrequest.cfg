SPECIFICATION FairSpec
CONSTANTS
    MsetMax = 2
    BatchAddMax = 1
    Batches <- SmallBatches
    MaxFound = 3
    MaxSubrequests = 3
INVARIANTS CountMatches DestroyedOnce WrittenOnce
PROPERTIES ParentAlive StopsAfterError ImplementsPromise Closes
