SPECIFICATION ConfigSpec
CONSTANTS
  None = None
  WordMax = 31
  VmaReserve = 4
  WorstCaseSegment = 2
  FractionNum = 2
  FractionDen = 5
  OpenFloor = 2
  OpenCeil = 8
  InflightFloor = 1
  InflightCeil = 4
  FallbackOpen = 3
  FallbackInflight = 2
  Kib = 2
  MaxPermits = 12
  OpenFlags = {0, 1, 2, 7, 13, 14, 15, 16, 31}
  InflightFlags = {0, 12, 13}
  MapCounts = {0, 3, 4, 5, 7, 8, 9, 10, 19, 20, 21, 30, 31}
  MemTotals = {0, 2, 4, 7, 8, 10, 12, 14, 15, 16, 31}
CHECK_DEADLOCK FALSE
INVARIANTS MapBudget RamBudget
