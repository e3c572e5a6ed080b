--------------------------- MODULE MCTetrisBoard ---------------------------
EXTENDS TetrisBoard
=============================================================================
