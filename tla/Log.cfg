SPECIFICATION Spec
CONSTANTS
  LOG_HDR = 1
  LOG_WINDOW = 2
  LOG_MAX = 4
  Sizes = {1, 3, 5}
  MaxBatch = 2
  Limits = {1}
  MaxRecs = 2
  MaxRolls = 1
  MaxFaults = 2
INVARIANTS
  ReplayExact
  CutExact
  
PROPERTIES
  HeaderStays
  ScanEnds
