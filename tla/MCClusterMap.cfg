SPECIFICATION FairSpec
CONSTANTS
    a = a
    b = b
    c = c
    Masters = {a, b}
    Slaves = {c}
    MaxSlot = 2
    Lists <- MCLists
PROPERTIES LoadsOwners LoadsSettled Heals
CHECK_DEADLOCK FALSE
