SPECIFICATION Spec
SYMMETRY Symmetry
CHECK_DEADLOCK FALSE
CONSTANTS
  Jobs = {j1, j2}
  NoJob = NoJob
  MaxInflight = 1
  QueueDepth = 1
  ChanCap = 1
  NCtx = 4
  MinBatch = 2
  Prompts = {1}
  Asks = {2}
  HasTarget = FALSE
  StepCosts = {FALSE}
  Faults = {}
  Wrap = 8
INVARIANTS
  TerminalIsLast
