SPECIFICATION MCSpec
CONSTANTS
  PerMessageDeflate = {TRUE, FALSE}
  AutoPong = TRUE
  MaxSends = 3
  MaxPings = 1
  MaxChunks = 2
  PeerChunks <- AnyChunk
  Scripts <- PeerScripts
  ReaderOptions <- BothOptions
  MaxControl = 3
  MaxSafe = 6
  MaxPayload = 3
INVARIANTS
  WireOrderly
  FlushedBeforeClose
  TimerGuardsClose
  MessagesWhole
PROPERTIES
  OwnCloseReported
  CloseReported
  RawReleased
CHECK_DEADLOCK FALSE
