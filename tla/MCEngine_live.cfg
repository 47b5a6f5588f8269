SPECIFICATION LiveSpec
CONSTRAINT OneAsksMore
CHECK_DEADLOCK FALSE
CONSTANTS
  Jobs = {j1, j2}
  NoJob = NoJob
  MaxInflight = 1
  QueueDepth = 0
  ChanCap = 1
  NCtx = 4
  MinBatch = 2
  Prompts = {1}
  Asks = {1, 3}
  HasTarget = FALSE
  StepCosts = {FALSE}
  Faults = {}
  Wrap = 8
PROPERTIES
  ImplementsLiveLifecycle
  RefusedOnlyWhenBusy
