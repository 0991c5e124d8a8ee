SPECIFICATION Spec
CONSTANT Keys <- MCKeys
INVARIANTS CrcIsRemainder HashesTag
CHECK_DEADLOCK FALSE
