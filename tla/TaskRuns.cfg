SPECIFICATION Spec
CONSTANTS
    a = a  b = b  t1 = t1  t2 = t2  t3 = t3  None = None
    Tasks = {a, b}
    Terminals = {t1, t2, t3}
    Open = {t1}
    Preferred <- PreferBoth
    Routine = {a, b}
    Codex = {t1}
    HookEvents = {"session_ready", "task_completed"}
    Asks = TRUE
    MaxRequests = 3  MaxHooks = 1  MaxUpsets = 2
INVARIANTS TypeOK DeliveryTrue ExclusiveTerminal GoneEndsRun
PROPERTIES StopStays
CHECK_DEADLOCK FALSE
SYMMETRY Symmetry
