-------------------------- MODULE MCWorkspaceRows ---------------------------
(* Instances of WorkspaceRows for TLC.                                      *)
EXTENDS WorkspaceRows, TLC

CONSTANTS desktop, phone, t1, t2

(* One terminal, an empty workspace and one that is not there yet.          *)
OneTerminal == 1 :> {t1} @@ 2 :> {} @@ 3 :> None

(* The desktop begins in the workspace with the terminal, the phone in the  *)
(* empty one.                                                               *)
MCInit == Init /\ \A c \in Clients : active[c] = IF c = Owner THEN 1 ELSE 2
MCSpec == MCInit /\ [][Next]_vars
=============================================================================
