SPECIFICATION Spec
CONSTANTS
  Total = 16
  ScanStep = 4
  MaxNodes = 4
  MaxSubs = 1
  WordSize = 256
  Unreadable = Unreadable
  Layouts <- MCLayouts
  Damage <- MCDamage
  MaxFaults = 1
  Chosen = {"plain"}
  Targets = {0, 6}
  Kinds = {"stale", "sealed", "unreadable"}
  Slots = 2
  StatMayFail = TRUE

PROPERTY SnapshotsKept

