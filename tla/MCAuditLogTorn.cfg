CONSTANTS
  Absent = Absent
  NoTail = NoTail
  Corrupt = Corrupt
  Configs <- MCTamper
  Inexact = {}
  Keep = 1
  MaxWrites = 3
  MaxStarts = 3

SPECIFICATION Spec
CHECK_DEADLOCK FALSE
INVARIANT RetriesKeepChain
