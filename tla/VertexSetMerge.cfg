CONSTANTS
  Values = {0, 1, 2, 3}
  Bounds = {0, 1, 2, 3, 4}
  MaxLen = 4
SPECIFICATION Spec
INVARIANTS
  TypeOK
  WriteBehindRead
  ResultCorrect
PROPERTY Terminates
CHECK_DEADLOCK FALSE
