SPECIFICATION FairSpec
CONSTANTS
  Attempts = 3
  MaxConnects = 3
INVARIANTS
  ClientKnowsItsSocket
  CloseLeavesOneAttempt
PROPERTIES
  AttemptsEnd
CHECK_DEADLOCK FALSE
