CONSTANTS
  w1 = w1
  w2 = w2
  Worker <- MCWorker
  Main = main
  InitCap = 1
  MaxRingCap = 2
  MaxTasks = 2
  MaxTicket = 2
SPECIFICATION FairSpec
INVARIANTS
  TicketsExact
  Barrier
  RegionCovers
  CapRespected
PROPERTIES
  PoolReturns
