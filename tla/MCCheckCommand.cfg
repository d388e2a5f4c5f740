CONSTANTS
  NameOrder <- MCNameOrder
  Text <- MCText
  Globs <- MCGlobs
  BufferSize = 1
  BatchSize = 2
  Jobs <- MCJobs

SPECIFICATION FairSpec
INVARIANTS
  TypeOK
  LastLayerWins
  ValidateAgrees
  RulePrecedence
  ConstraintsFailClosed
  EventsExplained
  ExitAgreesWithLog
  SinkMirrorsLog
PROPERTY CheckEnds
