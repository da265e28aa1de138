SPECIFICATION FairSpec
CONSTANTS
  Clients = {b1}
  b1 = b1
  MaxFailures = 2
  MaxTokens = 2
  MaxCalls = 2
  MaxConns = 3
  MaxUpsets = 2
INVARIANTS TypeOK CallsAccounted RunsAtMostOnce
PROPERTIES Settles
CHECK_DEADLOCK FALSE
