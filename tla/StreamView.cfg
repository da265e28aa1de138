SPECIFICATION Spec
CONSTANTS
  Revisions = {1, 2}
  MaxLaunches = 2
  MaxChunks = 3
  ScreensAfterPush = {TRUE, FALSE}
  HubCapacity = 1
  OutboundCapacity = 1
  ReadOnly = TRUE
  ReplayTimeouts = TRUE
  MaxAttach = 1
  MaxDrops = 0
  MaxRedraws = 0
INVARIANTS TypeOK NoSilentGap ChunksInOrder
PROPERTY ImplementsPosition
CHECK_DEADLOCK FALSE
