CONSTANTS
  W = 6
  D = 2
  NW = 2
  NTasks = 3
  Size = 7
  Grain = 2
  InitCap = 2
  MaxRingCap = 8
  IntMax = 63
  Width = 5
  MaxTotal = 30
  SymNames <- Syms
  SymHash <- Hashes
  SymLong <- LongSyms
  SymInitCap = 2
  SymMaxCap = 8
  SymChunk = 4
  SymNeeds = {3, 6}
  HashBits = 3
  JoinHash <- ValueHashes
  Parts = {"sort"}
SPECIFICATION KSpec
INVARIANTS
  StableGrade
