SPECIFICATION Spec
CONSTANTS
    desktop = desktop  phone = phone  s1 = s1  s2 = s2  None = None
    Clients = {desktop, phone}
    Owner = desktop
    EventTypes = {"agent_idle", "task_completed"}
    Inputs = {"THINKING"}
    Threshold = 1  Grace = 100
    Calls = {s1, s2}
    MaxEvents = 2  MaxMoves = 1
INVARIANTS TypeOK EventsArrive StatusesAgree
SYMMETRY CallSymmetry
CHECK_DEADLOCK FALSE
