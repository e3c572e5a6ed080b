SPECIFICATION Spec
CONSTANTS
  Clients = {c1, c2}
  MaxSize = 2
  MaxSend = 0
  MaxPush = 2
  MaxFaults = 1
INVARIANTS
  DownInOrder
CHECK_DEADLOCK FALSE
