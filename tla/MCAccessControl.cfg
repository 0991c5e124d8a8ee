CONSTANTS
    w1 = w1
    k1 = k1
    k2 = k2
    None = None
    Worker = {w1}
    Key = {k1, k2}
    ClusterOf <- MCCluster
    NamesIn <- MCNamesIn
    Requests <- MCRequests
    Answers <- MCAnswers
    Uninit <- MCUninit
    DefaultTries = 1
    MaxChanges = 1
    MaxFaults = 1
SPECIFICATION FairSpec
INVARIANTS
    EntryIsAnswer
    GrantCovers
    FirstPolicyLimits
    SeedsForClient
PROPERTY Learns
