SPECIFICATION Spec
CONSTANTS
  Clients = {c1, c2, c3}
  MaxRooms = 2
  MaxLobby = 2
  RoomSize = 2
  MaxSpawns = 3
  MaxFaults = 1
  MaxAttacks = 0
  Interrupts = TRUE
SYMMETRY Symmetry
INVARIANTS
  RosterCurrent
  OneOutcome
  NoFalseDeath
  EliminationNotLost
  NoEmptyMatch
PROPERTIES
  RedirectAfterBind
CHECK_DEADLOCK FALSE
