SPECIFICATION Spec
CONSTANTS
  Clients = {c1, c2, c3}
  MaxRooms = 2
  MaxLobby = 1
  RoomSize = 1
  MaxSpawns = 3
  MaxFaults = 1
  MaxAttacks = 0
  Interrupts = FALSE
INVARIANTS
  IdsUnique
CHECK_DEADLOCK FALSE
