SPECIFICATION FairSpec
CONSTANTS
    a = a
    b = b
    c = c
    Masters = {a, b}
    Slaves = {c}
    MaxSlot = 2
    Lists <- MCLists

PROPERTY RoutesToOwner
CHECK_DEADLOCK FALSE
