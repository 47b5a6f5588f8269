SPECIFICATION LiveSpec
CONSTRAINT OnePanic
CHECK_DEADLOCK FALSE
CONSTANTS
  Owners = {o1, o2}
  Tasks = {t1, t2}
INVARIANTS
  TypeOK
  HandleMeansServing
  OneBackend
  JoinNeedsNoReader
  ExitIsClean
PROPERTIES
  SpawnReturns
  OwnersEnd
