SPECIFICATION FairSpec
CONSTANTS
  NW = 2
  NoSel = NoSel
  NotBuilt = NotBuilt
  Parts = {10, 11}
  Queries <- MCQueries
  PartFns <- MCPartFns
  TaskRows = 2
  ChunkRows = 1
  Promote = 1
  MaxSlots = 4
  ParMin = 3
  Modulus = 8
  MaxFail = 2
INVARIANTS
  RowsExact
  Answers
PROPERTIES
  Terminates
