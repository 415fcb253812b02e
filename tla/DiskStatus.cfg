SPECIFICATION Spec
CONSTANTS
  StackDepth = 2
  MaxOpen = 4
  ReadDivisor = 3
  WriteDivisor = 2
  VerifyDivisor = 4
INVARIANTS PadModeRight ScreenTruthful
CHECK_DEADLOCK FALSE
