CONSTANTS
  NoConn = NoConn
  Conns <- OneLink
  MaxLen = 5
  Kinds = {"rssi"}
  Central = TRUE
  QuickResolve = FALSE
  MaxReqs = 3
  MaxLinks = 1
SPECIFICATION Spec
PROPERTY FlushComplete
CHECK_DEADLOCK FALSE
