SPECIFICATION Spec
CONSTANTS
  p1 = p1
  p2 = p2
  Junk = Junk
  None = None
  Torn = Torn
  Garbled = Garbled
  Foreign = Foreign
  Payloads <- MCPayloads
  Sectors <- MCSectors
  Area = 2
  Damage = {Garbled}
  StatMayFail = FALSE
INVARIANT WeakerRestoreBlocked
