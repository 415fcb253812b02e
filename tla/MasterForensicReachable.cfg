SPECIFICATION Spec
CONSTANTS
  WordSize = 64
  Values = {0, 1, 2, 5}
  MaxDamage = 2
  Storages = 2
  RawSlots = 2
  Absent = Absent
  Torn = Torn
INVARIANT ForensicReachable
