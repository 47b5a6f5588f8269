SPECIFICATION ReaderSpec
CHECK_DEADLOCK FALSE
CONSTANTS
  Jobs = {j1, j2}
  NoJob = NoJob
  MaxInflight = 2
  QueueDepth = 1
  ChanCap = 2
  NCtx = 4
  MinBatch = 2
  Prompts = {1}
  Asks = {1}
  HasTarget = TRUE
  StepCosts = {TRUE}
  Faults = {}
  Wrap = 8
PROPERTIES
  ImplementsReaderLifecycle
  ShutdownCompletes
