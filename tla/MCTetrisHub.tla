---------------------------- MODULE MCTetrisHub ----------------------------
(* Model-checking instances of TetrisHub.  Clients are interchangeable: the *)
(* safety runs check one representative of each permutation of them.        *)
EXTENDS TetrisHub, TLC

Symmetry == Permutations(Clients)
=============================================================================
