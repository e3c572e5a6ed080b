SPECIFICATION FairSpec
CONSTANTS
  BOARD_WIDTH = 4
  BOARD_HEIGHT = 4
  Kinds = {1, 3}
  GravityStart = 1
  GravityStep = 1
  GravityFloor = 1
  LockStart = 2
  Gaps = {0, 2}
  Damages = {3}
  MaxPieces = 3
  MaxInputs = 3
  MaxHits = 2
INVARIANTS
  TypeOK
  PieceNeverOverlaps
  ClearsExactly
PROPERTIES
  PreviewKept
  GameGoesOn
CHECK_DEADLOCK FALSE
