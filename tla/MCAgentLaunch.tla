--------------------------- MODULE MCAgentLaunch ----------------------------
(* Instances of AgentLaunch for TLC.                                        *)
EXTENDS AgentLaunch, TLC

CONSTANTS a, b, c

SixAgents == {"claude", "codex", "opencode", "grok", "pi", "antigravity"}
TwoAgents == a :> "claude" @@ b :> "claude" @@ c :> "codex"
Homes == a :> 1 @@ b :> 1 @@ c :> 2

(* The CLI keeps the session of a restored terminal of Claude, which is idle  *)
(* at first; it begins a turn, or is freed, later.                            *)
MCInit == Init /\ \A s \in Sessions \ adopted : held[s] = "idle"
MCSpec == MCInit /\ [][Next]_vars /\ Fairness
=============================================================================
