CONSTANTS
    MaxConn = 1
    Opened = 1
    MaxOps = 4
    MaxPeer = 3
VIEW LiveView
SPECIFICATION Spec
INVARIANT RepliesOnce
CHECK_DEADLOCK FALSE
