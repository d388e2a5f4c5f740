CONSTANTS
  read = read
  write = write
  exec = exec
  Tools <- MCTools
  Static <- MCStatic
  Values = {v1}
  Trackable = {v1}
  Ids = {i1, i2}
  NoId = NoId
  None = None
  Empty = Empty
  Error = Error
  MaxTracked = 2
  Configs <- MCConfigs
  MaxLines = 2

SPECIFICATION FairSpec
INVARIANTS
  TypeOK
  LogOrderedAndExplained
  DerivedCallsNeedApproval
  TaintSourceReal
  OneAnswer
  PendingIsACall
PROPERTIES
  GateSpec
  LinesDealtWith
  FramesRelayed
  HangUpReturns
