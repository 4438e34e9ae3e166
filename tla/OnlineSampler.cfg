CONSTANTS
  Commands <- AllCommands
  Threads = {t1, t2}
  num_samples = 2
  MaxWindows = 3
  Weights = {0, 1, 3}
  std_devs = 1
  ErrNum = 6
  ErrDen = 10
  AvgBits = 2
  TrueCounts = {1, 2}
  SizeRatio = 2
SPECIFICATION Spec
INVARIANTS
  SumsExact
  HitsNeverOver
  StopSoundReduced
PROPERTIES
  EstimateIsMeanOfAll
CHECK_DEADLOCK FALSE
