--------------------------- MODULE MCRoomSession ---------------------------
EXTENDS RoomSession

TwoPlayers == <<1, 2>>

\* A quiet lock, one that tops out, a lock out, and an attack
SomeLocks == {[settled |-> TRUE, cleared |-> FALSE, damage |-> 0, over |-> FALSE],
              [settled |-> TRUE, cleared |-> FALSE, damage |-> 0, over |-> TRUE],
              [settled |-> FALSE, cleared |-> FALSE, damage |-> 0, over |-> TRUE],
              [settled |-> TRUE, cleared |-> TRUE, damage |-> 2, over |-> FALSE]}
=============================================================================
