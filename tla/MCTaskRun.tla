----------------------------- MODULE MCTaskRun -----------------------------
(* Instances of TaskRun for TLC.                                            *)
EXTENDS TaskRun, TLC

CONSTANTS a, b, t1, t2, t3

(* Both prefer the terminal that is open.                                   *)
PreferBoth == [k \in Tasks |-> t1]
PreferNone == [k \in Tasks |-> None]
TerminalSymmetry == Permutations({t2, t3})
Symmetry == TerminalSymmetry \cup Permutations({a, b})
=============================================================================
