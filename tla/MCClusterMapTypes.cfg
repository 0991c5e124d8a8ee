SPECIFICATION Spec
CONSTANTS
    a = a
    b = b
    c = c
    Masters = {a, b}
    Slaves = {c}
    MaxSlot = 2
    Lists <- MCLists
CHECK_DEADLOCK FALSE
INVARIANTS TypeOK
