SPECIFICATION Spec
CONSTANTS
    desktop = desktop  phone = phone  k1 = k1  k2 = k2  None = None
    Clients = {desktop, phone}
    Remote = {phone}
    Workspaces = {1, 2}
    Tasks = {k1, k2}
    MaxChanges = 3
    MaxUpsets = 1
INVARIANTS TypeOK SavesAccounted ChangesConverge
PROPERTY NothingLost
CHECK_DEADLOCK FALSE
SYMMETRY TaskSymmetry
