SPECIFICATION Spec
CONSTANTS
  Size = 2
  MaxQueue = 1
  MaxTasks = 3
  Calls <- CloneableCalls
  Deaths <- AnyDeath
  HasErrorListener = {FALSE}
INVARIANT
  TimeoutOnlyRejects
CHECK_DEADLOCK FALSE
