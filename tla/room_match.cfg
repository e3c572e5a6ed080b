SPECIFICATION FairSpec
CONSTANTS
  MaxNumber = 9
  Players <- TwoPlayers
  Remote = {3}
  KILL_FEED_MAX = 2
  KEEPALIVE_TICKS = 1
  MAX_MSGS_PER_TICK = 2
  Damages = {2}
  Locks <- SomeLocks
  Pressing = {1}
  MaxActions = 1
  MaxMoves = 1
  Slow = {2}
  Struck = {2}
  MaxTroubles = 1
  MaxDown = 1
INVARIANTS
  ViewCurrent
  FeedKeepsLast
PROPERTIES
  WireFaithful
  OutIsFrozen
  ViewRepaired
  EveryoneTold
CHECK_DEADLOCK FALSE
