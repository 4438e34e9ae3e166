CONSTANTS
  Len = 5
  BlockSize = 2
  MaxIn = 2
SPECIFICATION Spec
INVARIANTS
  TypeOK
  PrefixCorrect
PROPERTIES
  WriteOnce
CHECK_DEADLOCK FALSE
