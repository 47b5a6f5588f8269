SPECIFICATION Spec
SYMMETRY Symmetry
CONSTRAINT Unlike
CHECK_DEADLOCK FALSE
CONSTANTS
  Jobs = {j1, j2}
  NoJob = NoJob
  MaxInflight = 2
  QueueDepth = 1
  ChanCap = 1
  NCtx = 4
  MinBatch = 2
  Prompts = {1, 4}
  Asks = {0, 2, 4}
  HasTarget = FALSE
  StepCosts = {FALSE}
  Faults = {}
  Wrap = 8
INVARIANTS
  TypeOK
  InflightIsOccupancy
  OnePlacePerJob
  AnsweredOnce
  ReplyIsWhole
  StopHasACause
  FailureHasACause
  KvIsTheReplySoFar
  RowsMatchSlots
  DecodingCoversTheBatch
