CONSTANTS
  read = read
  write = write
  exec = exec
  v1 = v1
  Reqs = {r1, r2}
  Tools <- MCTools
  Static <- MCStatic
  Values = {v1}
  Trackable = {v1}
  None = None
  Empty = Empty
  MaxTracked = 2
  Bodies <- MCAsks
  Configs <- MCAttended
  MaxMembers = 2

SPECIFICATION FairSpec
PROPERTY AskBounded
