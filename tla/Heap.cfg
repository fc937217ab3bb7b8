CONSTANTS
  Worker = {w}
  Main = m
  PoolOrder = 1
  MaxOrder = 3
  SlabMax = 0
  SlabCap = 1
  MaxPools = 2
  Req = {0, 2}
  MaxLive = 2
  MaxForeign = 2
  Site <- MCSite
SPECIFICATION Spec
INVARIANTS
  ListsExact
  Tiled
  NoDangling
PROPERTIES
  ImplementsAllocator
