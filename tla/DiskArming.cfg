SPECIFICATION Spec
CONSTANTS
  StackDepth = 2
  MaxOpen = 4
  ReadDivisor = 3
  WriteDivisor = 2
  VerifyDivisor = 4
INVARIANT ArmingTakesEffect
CHECK_DEADLOCK FALSE
