SPECIFICATION Spec
CONSTANTS
  MaxInflight = 9
  MaxWaiting = 1
  Target = 45
  Cost <- Linear
  Slope = 10
INVARIANTS
  TypeOK
  HeldToTarget
