CONSTANTS
  Calls = {c1, c2, c3}
  None = None
  Untimed = {}
  TypesAhead = FALSE

SPECIFICATION FairSpec
INVARIANTS
  TypeOK
  NoLateApproval
  OneReader
PROPERTY RequestsReturn
