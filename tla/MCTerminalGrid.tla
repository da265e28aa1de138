--------------------------- MODULE MCTerminalGrid ---------------------------
(* Instances of TerminalGrid: the desktop window and a browser.  Nothing      *)
(* tells one grid from another, so of two behaviours that differ by a         *)
(* permutation of the grids one is enough: the desktop's window has the first *)
(* grid.  (SYMMETRY would not be sound with a liveness property.)             *)
EXTENDS TerminalGrid

FirstGrid == CHOOSE grid \in Grids : TRUE
MCInit == Init /\ \A v \in Local : panel[v].window = FirstGrid
MCSpec == MCInit /\ [][Next]_vars /\ Fairness
=============================================================================
