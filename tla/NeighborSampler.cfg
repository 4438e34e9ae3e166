CONSTANT Commands <- PassingCommands
SPECIFICATION Spec
INVARIANTS
  EidInBounds
  OverflowOnlySparse
  WalkMatches
  UnbiasedSample
CHECK_DEADLOCK FALSE
