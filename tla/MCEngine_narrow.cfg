SPECIFICATION Spec
SYMMETRY Symmetry
CONSTRAINT Patient
CHECK_DEADLOCK FALSE
CONSTANTS
  Jobs = {j1, j2, j3}
  NoJob = NoJob
  MaxInflight = 3
  QueueDepth = 1
  ChanCap = 1
  NCtx = 2
  MinBatch = 1
  Prompts = {1}
  Asks = {1}
  HasTarget = FALSE
  StepCosts = {FALSE}
  Faults = {"prompt", "decode", "piece"}
  Wrap = 8
INVARIANTS
  AnsweredOnce
  RowsMatchSlots
  KvIsolation
