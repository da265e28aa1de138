SPECIFICATION MCSpec
CONSTANTS
    desktop = desktop  phone = phone  t1 = t1  t2 = t2  None = None
    Clients = {desktop, phone}
    Owner = desktop
    Workspaces = {1, 2, 3}
    Held = {t1, t2}
    FirstRows <- OneTerminal
    MaxChanges = 2
    MaxUpsets = 1
INVARIANTS TypeOK ViewsSettle
PROPERTIES StaysDeleted NothingLost
CHECK_DEADLOCK FALSE
