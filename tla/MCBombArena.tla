---------------------------- MODULE MCBombArena ----------------------------
(* Instances of BombArena for TLC.  The arena is the smallest the generator *)
(* can lay out with a corner for each of two players: three by three inside *)
(* the border, with every draw of the three tiles the generator leaves free.*)
EXTENDS BombArena

RightUp == {<<1, 1>>}
=============================================================================
