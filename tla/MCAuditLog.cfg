CONSTANTS
  Absent = Absent
  NoTail = NoTail
  Corrupt = Corrupt
  Configs <- MCConfigs
  Inexact = {2}
  Keep = 1
  MaxWrites = 3
  MaxStarts = 3

SPECIFICATION Spec
CHECK_DEADLOCK FALSE
INVARIANTS
  TypeOK
  NoFalseAlarm
  NoGaps
  AckedSurvives
PROPERTY AppendOnly
