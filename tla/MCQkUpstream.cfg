SPECIFICATION Spec
CONSTANTS
    n1 = n1
    n2 = n2
    r1 = r1
    r2 = r2
    s1 = s1
    Nodes = {n1, n2}
    Default = Default
    Backup = Backup
    NoNode = NoNode
    Slots = {s1}
    Reqs = {r1}
    Kinds <- AllKinds
    ConfTries = 4
    AclTries = {3}
    BackupReplies = {"OK", "TEST"}
    MaxNodeTries = 50
    Histories <- OldWorker
    InitIdle = 1
    MaxIdle = 1
    MaxEnv = 2
SYMMETRY NodeSymmetry
INVARIANTS IInv SkipMatchesBytes TrueSuccess RunsOncePerLoss AttemptsBounded SubRequestContract
PROPERTIES MissingSlotStays
