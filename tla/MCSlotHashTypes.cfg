SPECIFICATION Spec
CONSTANT Keys <- MCKeys
CHECK_DEADLOCK FALSE
INVARIANTS TypeOK
