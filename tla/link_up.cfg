SPECIFICATION FairSpec
CONSTANTS
  Clients = {c1, c2}
  MaxSize = 2
  MaxSend = 3
  MaxPush = 0
  MaxFaults = 2
INVARIANTS
  SessionsAgree
  TakeFindsMessage
  UpExact

  
CHECK_DEADLOCK FALSE
