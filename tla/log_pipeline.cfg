SPECIFICATION Spec
CONSTANTS
  Procs = {m, w}
  Master = m
  QueueSize = 2
  DrainBatch = 2
  SockCap = 2
  MaxTracked = 1
  MaxLines = 4
  MaxDaemons = 2
INVARIANTS TypeOK DropCountExact GapsExact NoPhantomDrops
PROPERTY ImplementsLossyLog
CHECK_DEADLOCK FALSE
