CONSTANTS
  NV = 4
  Graphs <- MCGraphs
  MaxColors = 2
  MaxPasses = 2
SPECIFICATION Spec
INVARIANTS
  ReadsOldRows
  Compacted
PROPERTIES
  ColorSeparates
CHECK_DEADLOCK FALSE
