SPECIFICATION Spec
CHECK_DEADLOCK FALSE
CONSTANTS
  Jobs = {j1}
  NoJob = NoJob
  MaxInflight = 1
  QueueDepth = 1
  ChanCap = 4
  NCtx = 4
  MinBatch = 2
  Prompts = {1}
  Asks = {1}
  HasTarget = FALSE
  StepCosts = {FALSE}
  Faults = {}
  Wrap = 8
INVARIANTS
  StopMeansWhatItSays
