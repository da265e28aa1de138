SPECIFICATION FairSpec
CONSTANTS
  MaxOps = 2
  MaxRevocations = 1
  MaxRefusals = 1
  MaxBreaks = 1
INVARIANTS TypeOK StatusTrue LinkMatchesSettings
PROPERTIES Settles
CHECK_DEADLOCK FALSE
