SPECIFICATION Spec
CONSTANTS
  MIN_MAP_WIDTH = 3
  TilesPerPlayer = 3
  MaxPlayers = 3
  MAX_MAP_DIM = 5
  StateMaxPlayers = 3
  StateMaxBombs = 4
  QueueSize = 4
  MAX_MSGS_PER_TICK = 2
  BombTime = 3
  ExplodeTime = 2
  ReplenishTime = 3
  Directions <- RightUp
  Me = 1
  MaxMoves = 1
  MaxPlaced = 2
  MaxStops = 0
  MaxGone = 1
  MaxInFlight = 1
PROPERTIES
  ExplodesWhereItLies
CHECK_DEADLOCK FALSE
