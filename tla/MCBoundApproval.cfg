CONSTANTS
  r1 = r1
  e1 = e1
  e2 = e2
  Requests = {r1}
  Executors = {e1, e2}
  Calls <- MCCalls
  Sources <- MCSources
  MaxTime = 3
  NameOrder <- MCNameOrder
  Text <- MCText
  Globs <- MCGlobs

SYMMETRY Symmetric
SPECIFICATION Spec
INVARIANTS
  TypeOK
  DecisionFromEvidence
  OperatorSeesEvidence
  OneApprovedRun
