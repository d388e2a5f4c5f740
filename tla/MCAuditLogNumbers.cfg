CONSTANTS
  Absent = Absent
  NoTail = NoTail
  Corrupt = Corrupt
  Configs <- MCTamper
  Inexact = {1}
  Keep = 1
  MaxWrites = 3
  MaxStarts = 3

SPECIFICATION Spec
CHECK_DEADLOCK FALSE
INVARIANT HashedAsWritten
