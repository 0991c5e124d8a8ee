SPECIFICATION FairSpec
CONSTANTS
    n1 = n1
    n2 = n2
    r1 = r1
    r2 = r2
    s1 = s1
    Nodes = {n1, n2}
    Default = Default
    Backup = Backup
    NoNode = NoNode
    Slots = {s1}
    Reqs = {r1}
    Kinds <- ScriptOnly
    ConfTries = 4
    AclTries = {}
    BackupReplies = {"OK", "TEST"}
    MaxNodeTries = 2
    Histories <- WarmWorker
    InitIdle = 1
    MaxIdle = 1
    MaxEnv = 2
PROPERTIES Answered
