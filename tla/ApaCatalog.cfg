SPECIFICATION ScanSpec
CONSTANTS
  Total = 4
  NodeLimit = 5
  Lengths = {1, 2}
INVARIANTS VisitedOnce CatalogExact
CHECK_DEADLOCK FALSE
