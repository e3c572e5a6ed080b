SPECIFICATION FairSpec
CONSTANTS
  Clients = {c1, c2}
  MaxRooms = 2
  MaxLobby = 1
  RoomSize = 1
  MaxSpawns = 3
  MaxFaults = 1
  MaxAttacks = 1
  Interrupts = FALSE
INVARIANTS
  TypeOK
  GarbageLandsOnce
PROPERTIES
  ParkedIsSettled
  GameOverStopsRoom
  
  ToldDaemonStops
CHECK_DEADLOCK FALSE
