CONSTANTS
  a1 = a1
  a2 = a2
  NoTask = NoTask
  Apps <- TwoApps
  RegApp = a1
  UserOps = {"fire", "cfg", "reset"}
  AdEvtQLen = 1
  AdCmdQLen = 1
  AppTimer = FALSE
  MaxCmds = 4
  MaxInds = 0
SPECIFICATION Spec
INVARIANTS OwnResponse AnswerOnItsWay
PROPERTY ImplementsService
CHECK_DEADLOCK FALSE
