SPECIFICATION Spec
CONSTANTS
  Block = 2
  MainSkip = 4
  SubSkip = 2
  Sizes = {8, 16, 32}
  MaxPartitions = 3
  PayloadLimit = 31
  LbaLimit = 150
  MinImage = 4
  Dvd5Max = 70
  IoSectors = 6
  Images <- MCImages
  Maxima = {6, 8, 12, 16, 20, 32, 40}
  Places = {8, 40, 72}
INVARIANTS PlanHonoured WritesStayInside AddressesAgree
CHECK_DEADLOCK FALSE
