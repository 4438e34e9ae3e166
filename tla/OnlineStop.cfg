CONSTANTS
  Commands <- FinalPath
  Threads = {t1, t2}
  num_samples = 2
  MaxWindows = 2
  Weights = {0, 1, 3}
  std_devs = 1
  ErrNum = 3
  ErrDen = 10
  AvgBits = 2
  TrueCounts = {1, 2}
  SizeRatio = 2
SPECIFICATION Spec
INVARIANT StopSound
CHECK_DEADLOCK FALSE
