CONSTANTS
  NV = 4
  Graphs <- MCGraphs
  MaxColors = 2
  MaxPasses = 2
SPECIFICATION Spec
INVARIANTS
  TypeOK
  WellFormed
  NoWriteRace
  Direction
PROPERTIES
  PublishCorrect
  ImplementsReduction
CHECK_DEADLOCK FALSE
