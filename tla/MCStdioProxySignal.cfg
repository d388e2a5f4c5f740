CONSTANTS
  read = read
  write = write
  exec = exec
  Tools <- MCTools
  Static <- MCStatic
  Values = {v1}
  Trackable = {v1}
  Ids = {i1, i2}
  NoId = NoId
  None = None
  Empty = Empty
  Error = Error
  MaxTracked = 2
  Configs <- MCBounded
  MaxLines = 1

SPECIFICATION FairSpec
PROPERTY SignalStopsRelay
