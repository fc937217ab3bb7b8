CONSTANTS
  InitCap = 1
  Tics = {0, 2}
  Nums = {0, 2}
  QTics = {1}
  MaxId = 3
  MaxLate = 2
SPECIFICATION FairSpec
INVARIANTS
  HeapSound
PROPERTIES
  ImplementsQueue
  DueFires
