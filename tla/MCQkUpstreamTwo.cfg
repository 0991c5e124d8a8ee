SPECIFICATION Spec
CONSTANTS
    n1 = n1
    n2 = n2
    r1 = r1
    r2 = r2
    s1 = s1
    Nodes = {n1, n2}
    Default = Default
    Backup = Backup
    NoNode = NoNode
    Slots = {s1}
    Reqs = {r1, r2}
    Kinds <- PlainOnly
    ConfTries = 2
    AclTries = {3}
    BackupReplies = {"TEST"}
    MaxNodeTries = 50
    Histories <- WarmWorker
    InitIdle = 0
    MaxIdle = 1
    MaxEnv = 1
SYMMETRY FullSymmetry
INVARIANTS DefaultTriesKept
PROPERTIES RouteFollowsMoved
