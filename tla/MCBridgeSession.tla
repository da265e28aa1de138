-------------------------- MODULE MCBridgeSession --------------------------
(* Instances of BridgeSession. *)
EXTENDS BridgeSession
=============================================================================
