SPECIFICATION Spec
CONSTANTS
  Size = 2
  MaxQueue = 1
  MaxTasks = 4
  Calls <- TimedOrUncloneable
  Deaths <- Failure
  HasErrorListener = {TRUE, FALSE}
INVARIANTS
  PendingAccounted
  WorkConserving
  FifoDelivery
  TimersMatchActive
PROPERTY
  ImplementsTaskService
CHECK_DEADLOCK FALSE
