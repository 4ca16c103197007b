CONSTANTS
  a1 = a1
  a2 = a2
  NoTask = NoTask
  Apps <- OneApp
  RegApp = a1
  UserOps = {"imm", "fire", "cfg"}
  AdEvtQLen = 2
  AdCmdQLen = 1
  AppTimer = TRUE
  MaxCmds = 3
  MaxInds = 3
SPECIFICATION Spec
INVARIANTS TypeOK ManagerAwake AdapterAwake EventNotified TransportAsserts NoEmptyPop
CHECK_DEADLOCK FALSE
