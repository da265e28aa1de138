SPECIFICATION FairSpec
CONSTANTS
    a = a  b = b  t1 = t1  t2 = t2  t3 = t3  None = None
    Tasks = {a, b}
    Terminals = {t1, t2}
    Open = {}
    Preferred <- PreferNone
    Routine = {}
    Codex = {}
    HookEvents = {"session_ready", "session_started"}
    Asks = FALSE
    MaxRequests = 2  MaxHooks = 1  MaxUpsets = 0
PROPERTIES PromptSettles
CHECK_DEADLOCK FALSE
