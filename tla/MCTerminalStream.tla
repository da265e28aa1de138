-------------------------- MODULE MCTerminalStream --------------------------
(* Instances of TerminalStream small enough to enumerate, with the inductive *)
(* invariant of its proofs in scope.                                         *)
EXTENDS TerminalStreamProofs
=============================================================================
