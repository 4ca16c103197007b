CONSTANTS
  NoConn = NoConn
  Conns <- TwoLinks
  MaxLen = 2
  Kinds = {"config", "rssi"}
  Central = FALSE
  QuickResolve = TRUE
  MaxReqs = 4
  MaxLinks = 3
SPECIFICATION Spec
INVARIANTS TypeOK OwnCompletion CallerIsServed RoomInQueue
PROPERTY FlushComplete
CHECK_DEADLOCK FALSE
