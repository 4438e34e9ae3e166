CONSTANT Commands <- HouseCommands
SPECIFICATION Spec
INVARIANT EidInBounds
CHECK_DEADLOCK FALSE
