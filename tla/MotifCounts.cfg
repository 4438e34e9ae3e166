CONSTANT Commands <- MotifCommands
SPECIFICATION Spec
INVARIANT EverySampleUnbiased
CHECK_DEADLOCK FALSE
