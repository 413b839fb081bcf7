SPECIFICATION GateSpec
CONSTANTS
  Compressors = {c1, c2, c3, c4}
  Limit = 2
INVARIANTS
  ActiveCounts
  NoLostWakeup
  StreamReleased
CHECK_DEADLOCK FALSE
