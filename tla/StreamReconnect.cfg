SPECIFICATION FairSpec
CONSTANTS
  Revisions = {1}
  MaxLaunches = 1
  MaxChunks = 2
  ScreensAfterPush = {FALSE}
  HubCapacity = 2
  OutboundCapacity = 1
  ReadOnly = FALSE
  ReplayTimeouts = FALSE
  MaxAttach = 2
  MaxDrops = 2
  MaxRedraws = 1
INVARIANT WholeWhenQuiescent
PROPERTY HeldOutputReleased
CHECK_DEADLOCK FALSE
