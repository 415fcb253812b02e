SPECIFICATION PlannerSpec
CONSTANTS
  Total = 16
  ScanStep = 4
  MaxNodes = 4
  MaxSubs = 1
  WordSize = 256
  Unreadable = Unreadable
  Layouts <- MCLayouts
  Damage <- MCDamage
  MaxFaults = 1
  Chosen = {"plain", "subs", "free", "full"}
  Targets = {0, 4, 12, 6, 10}
  Kinds = {"stale", "sealed", "wiped", "unreadable", "magic", "length"}
INVARIANT MapListsHeaderOnce
CHECK_DEADLOCK FALSE
