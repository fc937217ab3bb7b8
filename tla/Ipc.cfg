CONSTANTS
    MaxConn = 3
    Opened = 2
    MaxOps = 3
    MaxPeer = 3
VIEW LiveView
SPECIFICATION Spec
INVARIANTS
  WaitsExact
  NobodyForgotten
  NoStrayReply
  ClosedOnce
CHECK_DEADLOCK FALSE
