SPECIFICATION Spec
CONSTANTS
  MaxInflight = 9
  MaxWaiting = 1
  Target = 1
  Cost <- Linear
  Slope = 10
INVARIANTS
  TargetHoldsTheBatchDown
