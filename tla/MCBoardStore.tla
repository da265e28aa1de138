---------------------------- MODULE MCBoardStore ----------------------------
(* Instances of BoardStore for TLC.                                         *)
EXTENDS BoardStore, TLC

CONSTANTS desktop, phone, k1, k2

(* Nothing tells one task from another.                                     *)
TaskSymmetry == Permutations(Tasks)
=============================================================================
