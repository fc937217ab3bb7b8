CONSTANTS
    p = p
    w = w
    Fds = {3, 4, 5}
    MaxObj = 4
    Peers = {p}
    Workers = {w}
    MaxOps = 4
SPECIFICATION FairSpec
INVARIANTS
  RecordsExact
  WorkersExact
  OwnPeer
PROPERTIES
  NoForeignClose
  ZombieReaped
CHECK_DEADLOCK FALSE
