SPECIFICATION FairSpec
CONSTANTS
  Clients = {c1, c2}
  MaxRooms = 2
  MaxLobby = 2
  RoomSize = 1
  MaxSpawns = 2
  MaxFaults = 0
  MaxAttacks = 0
  Interrupts = FALSE
PROPERTIES
  DaemonStops
CHECK_DEADLOCK FALSE
