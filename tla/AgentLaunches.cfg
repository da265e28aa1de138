SPECIFICATION MCSpec
CONSTANTS
    a = a  b = b  c = c
    Restore = Restore  Stored = Stored  None = None
    Agents <- SixAgents
    Terminals = {a, b, c}
    AgentOf <- TwoAgents
    HomeOf <- Homes
    Workspaces = {1, 2}
    FirstActive = {1}
    Found = {"claude", "opencode", "grok", "pi", "antigravity"}
    Adopted = {{b}}
    Flows = {1, 2}
    MaxAtOnce = 2
    MaxMeanwhile = 1
INVARIANTS TypeOK
PROPERTIES SwitchTogether ResumesOnlyFreed NoTurnLost RestoredStartsFresh FlowsEnd
CHECK_DEADLOCK FALSE
