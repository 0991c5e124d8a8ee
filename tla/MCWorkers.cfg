SPECIFICATION FairSpec
CONSTANTS
    Confs <- Shrinks
    Orders <- ReloadOrEnd
    ConnectionN = 16
    OtherConnections = 15
    KillDelay = 1
    MaxPid = 4
    MaxClients = 1
    MaxFaults = 1
INVARIANTS LockOwner AcceptsByTurn NoOrphan ReloadSplits
PROPERTIES Shuts Drains Served
CHECK_DEADLOCK FALSE
