CONSTANT Commands <- PassingCommands
SPECIFICATION Spec
INVARIANTS
  ExactTotal
  Unbiased
CHECK_DEADLOCK FALSE
