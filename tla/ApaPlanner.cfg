SPECIFICATION PlannerSpec
CONSTANTS
  Total = 16
  ScanStep = 4
  MaxNodes = 4
  MaxSubs = 1
  WordSize = 256
  Unreadable = Unreadable
  Layouts <- MCLayouts
  Damage <- MCDamage
  MaxFaults = 2
  Chosen = {"plain", "subs", "free", "full"}
  Targets = {0, 4, 12, 6, 10}
  Kinds = {"stale", "sealed", "wiped", "unreadable", "magic", "length"}
INVARIANTS PlanConverges AutomaticRestores HealthyUntouched NoPartOfTheChainCutOff
CHECK_DEADLOCK FALSE
