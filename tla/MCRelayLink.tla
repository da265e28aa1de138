----------------------------- MODULE MCRelayLink -----------------------------
(* Instances of RelayLink. *)
EXTENDS RelayLink
=============================================================================
