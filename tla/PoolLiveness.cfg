SPECIFICATION FairSpec
CONSTANTS
  Size = 1
  MaxQueue = 2
  MaxTasks = 3
  Calls <- AnyCall
  Deaths <- AnyDeath
  HasErrorListener = {TRUE, FALSE}
PROPERTIES
  EveryTaskSettles
  CloseCompletes
CHECK_DEADLOCK FALSE
