CONSTANTS
  NoConn = NoConn
  Conns <- OneLink
  MaxLen = 5
  Kinds = {"config", "mtu", "rssi", "sec", "reset"}
  Central = TRUE
  QuickResolve = FALSE
  MaxReqs = 3
  MaxLinks = 2
SPECIFICATION Spec
INVARIANT CallerHasWaiter
CHECK_DEADLOCK FALSE
