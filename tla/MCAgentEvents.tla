---------------------------- MODULE MCAgentEvents ----------------------------
(* An instance of AgentEvents: the desktop window and one browser, and two   *)
(* calls of sync_agent_events side by side, which nothing tells apart.       *)
EXTENDS AgentEvents, TLC
CONSTANTS desktop, phone, s1, s2
CallSymmetry == Permutations({s1, s2})
=============================================================================
