SPECIFICATION Spec
CONSTANTS
  Inputs <- MCInputs
  MaxColors = 2
  MaxCalls = 3
  MaxCallsBefore = 2
  MaxQueues = 3
  MaxStride = 3
  MinTasks = 1
  MaxSubgraphs = 5
INVARIANTS
  ListExact
  OnlyOrientationDangles
  ReverseExact
  RowsFit
  TasksOnce
  Balanced
  EdgeCutExact
  SegmentsExact
  FaultsExplained
CHECK_DEADLOCK FALSE
