SPECIFICATION Spec
CONSTANTS
  Clients = {b1}
  b1 = b1
  MaxFailures = 2
  MaxTokens = 2
  MaxCalls = 0
  MaxConns = 2
  MaxUpsets = 2
PROPERTIES NewSessionsStay
CHECK_DEADLOCK FALSE
