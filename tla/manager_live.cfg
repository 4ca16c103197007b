CONSTANTS
  a1 = a1
  a2 = a2
  NoTask = NoTask
  Apps <- OneApp
  RegApp = a1
  UserOps = {"fire", "cfg"}
  AdEvtQLen = 1
  AdCmdQLen = 1
  AppTimer = FALSE
  MaxCmds = 5
  MaxInds = 0
SPECIFICATION FairSpec
PROPERTIES CommandReturns EventsReachApp
CHECK_DEADLOCK FALSE
