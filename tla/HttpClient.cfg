SPECIFICATION FairSpec
CONSTANTS
  Requests <- Calls
  MaxAttempts = 3
  MaxNexts = 1
INVARIANTS
  OutcomeExplained
  SignalsAccounted
PROPERTIES
  CallSettles
CHECK_DEADLOCK FALSE
