CONSTANTS
  Calls = {c1, c2}
  None = None
  Untimed = {}
  TypesAhead = TRUE

SPECIFICATION Spec
INVARIANT NoLateApproval
