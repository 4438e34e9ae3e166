CONSTANT Commands <- TriTriCommands
SPECIFICATION Spec
INVARIANT ExactTotal
CHECK_DEADLOCK FALSE
