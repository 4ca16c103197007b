----------------------------- MODULE BleManager -----------------------------
(***************************************************************************)
(* The BLE framework of the SDK between an application and the BLE stack:  *)
(* the client side of a command (ble_mgr_helper.c), the manager task       *)
(* (ble_mgr.c, ble_mgr_gtl.c, ble_mgr_common.c), the adapter task          *)
(* (ad_ble.c) and, marked external, the stack that the adapter drives.     *)
(*                                                                         *)
(* Configuration of the applications of this repository: command handlers  *)
(* run in the task of the caller (BLE_MGR_DIRECT_ACCESS = 1) and events    *)
(* are kept in an unbounded list (BLE_MGR_USE_EVT_LIST = 1).               *)
(*                                                                         *)
(* The steps of the tasks interleave freely, which includes every schedule *)
(* of the FreeRTOS priorities adapter > manager > applications.  One pair  *)
(* of steps is kept together because of them: a task that reads the event  *)
(* list cannot run between list_add and OS_TASK_NOTIFY of the manager.     *)
(***************************************************************************)
EXTENDS Naturals, Sequences

CONSTANTS
  Apps,        \* application tasks that call the BLE API
  RegApp,      \* the one that registers for events and enables the stack
  NoTask,      \* app_task before ble_register_app, owner of a free mutex
  UserOps,     \* operations issued once BLE is enabled
  AdEvtQLen,   \* AD_BLE_EVENT_QUEUE_LENGTH
  AdCmdQLen,   \* AD_BLE_COMMAND_QUEUE_LENGTH
  AppTimer,    \* whether the registered application also gets notifications of its own
  MaxCmds,     \* bound: commands issued in a behaviour
  MaxInds      \* bound: unsolicited messages of the stack in a behaviour

ASSUME AppsAssumption ==
  /\ RegApp \in Apps
  /\ NoTask \notin Apps

ASSUME SizesAssumption ==
  /\ UserOps \subseteq {"imm", "fire", "cfg", "reset"}
  /\ AdEvtQLen \in Nat \ {0}
  /\ AdCmdQLen \in Nat \ {0}
  /\ AppTimer \in BOOLEAN
  /\ MaxCmds \in Nat
  /\ MaxInds \in Nat

VARIABLES
  ifLock,      \* owner of ble_interface_lock
  pc,          \* where each application task is
  back,        \* where it continues when its BLE call returns
  cmd,         \* the command it executes: kind and serial number
  rsp,         \* the response it took from rsp_q
  rspQ,        \* mgr_if.rsp_q, of length BLE_MGR_RESPONSE_QUEUE_LENGTH = 1
  waitq,       \* elements of the GTL and the adapter wait queues
  evtList,     \* mgr_if.evt_q
  appTask,     \* app_task: who is notified of an event
  saved,       \* app_task_in of ble_mgr_event_queue_get
  notif,       \* notification value of each application task
  pend,        \* whether that notification is pending
  enabled,     \* dev_params->status is BLE_IS_ENABLED
  resetting,   \* reset
  mgrPc, mgrMsg, mgrNotif,            \* manager task
  adPc, adBits, adNotif, currentOp,   \* adapter task
  adCmdQ, adEvtQ,                     \* adapter_if.cmd_q and evt_q
  txDoneCb,    \* ble_stack_io_tx_done_cb is stored: the stack may not write
  adBlocked,   \* ad_ble_blocked
  sleep,       \* sleep_status
  wakeReq,     \* ad_ble_wake_up was called and the core still sleeps
  stackPend,   \* external: commands the stack has still to answer
  stackOut,    \* external: messages the stack has still to write
  nCmd, nInd,  \* commands and indications so far
  asserts      \* OS_ASSERTs that have failed

appVars   == <<ifLock, pc, back, cmd, rsp, nCmd>>
evtVars   == <<evtList, appTask, saved, notif, pend>>
mgrVars   == <<mgrPc, mgrMsg>>
adVars    == <<adPc, adBits, currentOp, txDoneCb, adBlocked>>
stackVars == <<stackPend, stackOut, nInd>>
sleepVars == <<sleep, wakeReq>>
vars == <<appVars, evtVars, mgrVars, adVars, stackVars, sleepVars, rspQ, waitq,
          enabled, resetting, mgrNotif, adNotif, adCmdQ, adEvtQ, asserts>>

(***************************************************************************)
(* Kinds of command.  "register" and "enable" start the framework; "imm"   *)
(* answers from its handler; "fire" (start advertising, disconnect) sends  *)
(* a GTL message and answers at once, its completion arrives as an event;  *)
(* "cfg" (role, MTU, address, attribute database) sends a GTL message and  *)
(* answers when the completion arrives; "reset" drains the event list      *)
(* before it does the same.                                                *)
(***************************************************************************)
Ops     == {"register", "enable", "imm", "fire", "cfg", "reset"}
Waiting == {"enable", "cfg", "reset"}     \* handlers that add a wait queue element
Sending == Waiting \cup {"fire"}          \* handlers that send to the adapter

Ids     == 0..MaxCmds
NoCmd   == [op |-> "none", id |-> 0]
NoMsg   == NoCmd
NoRsp   == [op |-> "none", id |-> 0, by |-> 0]
Cmds    == [op : Ops, id : Ids]
Rsps    == [op : Ops, id : Ids, by : Ids]
Waiters == [op : Waiting, id : Ids]

\* Messages to the adapter: "auto" is what the manager task sends by itself
\* in reply to a "req" of the stack (connection, bond and device name confirmations).
AdCmds  == [op : Sending \cup {"auto"}, id : Ids]
\* Messages from the adapter: completions of waiting commands, "ind" that the
\* manager turns into an application event, and "req".
AdEvts  == [op : Waiting \cup {"ind", "req"}, id : Ids]

Bits    == {"ble", "tmo"}
AppPcs  == {"start", "idle", "get", "empty", "got", "missed", "handle", "check",
            "acquire", "handler", "drain", "doReset", "send", "notify",
            "respond", "wait", "release"}

-----------------------------------------------------------------------------
Init ==
  /\ ifLock = NoTask
  /\ pc = [a \in Apps |-> IF a = RegApp THEN "start" ELSE "idle"]
  /\ back = pc
  /\ cmd = [a \in Apps |-> NoCmd]
  /\ rsp = [a \in Apps |-> NoRsp]
  /\ rspQ = <<>>
  /\ waitq = {}
  /\ evtList = <<>>
  /\ appTask = NoTask
  /\ saved = [a \in Apps |-> NoTask]
  /\ notif = [a \in Apps |-> {}]
  /\ pend = [a \in Apps |-> FALSE]
  /\ enabled = FALSE
  /\ resetting = FALSE
  /\ mgrPc = "idle" /\ mgrMsg = NoMsg /\ mgrNotif = {}
  /\ adPc = "idle" /\ adBits = {} /\ adNotif = {} /\ currentOp = "none"
  /\ adCmdQ = <<>> /\ adEvtQ = <<>>
  /\ txDoneCb = FALSE /\ adBlocked = FALSE
  /\ sleep = "ACTIVE" /\ wakeReq = FALSE
  /\ stackPend = {} /\ stackOut = <<>>
  /\ nCmd = 0 /\ nInd = 0
  /\ asserts = {}

Goto(a, l) == pc' = [pc EXCEPT ![a] = l]

\* OS_TASK_NOTIFY with OS_NOTIFY_SET_BITS to an application task.
NotifyApp(a, bit) ==
  /\ notif' = [notif EXCEPT ![a] = @ \cup {bit}]
  /\ pend' = [pend EXCEPT ![a] = TRUE]

-----------------------------------------------------------------------------
(***************************************************************************)
(* An application task executes a command: ble_cmd_execute.                *)
(***************************************************************************)
MayIssue(a, op) ==
  CASE op = "register" -> a = RegApp /\ appTask = NoTask
    [] op = "enable"   -> a = RegApp /\ appTask # NoTask /\ ~enabled
    [] OTHER           -> enabled /\ op \in UserOps

Call(a, op) ==
  /\ pc[a] \in {"start", "handle"} \/ (pc[a] = "idle" /\ a # RegApp)
  /\ nCmd < MaxCmds
  /\ MayIssue(a, op)
  /\ nCmd' = nCmd + 1
  /\ cmd' = [cmd EXCEPT ![a] = [op |-> op, id |-> nCmd + 1]]
  /\ back' = [back EXCEPT ![a] = pc[a]]
  /\ Goto(a, "acquire")
  /\ UNCHANGED <<ifLock, rsp, evtVars, mgrVars, adVars, stackVars, sleepVars, rspQ,
                 waitq, enabled, resetting, mgrNotif, adNotif, adCmdQ, adEvtQ, asserts>>

\* Faulty variant: the mutex is not waited for.
LockFreeAlways == TRUE
LockFree == ifLock = NoTask

Acquire(a) ==
  /\ pc[a] = "acquire"
  /\ LockFree
  /\ ifLock' = a
  /\ Goto(a, "handler")
  /\ UNCHANGED <<back, cmd, rsp, nCmd, evtVars, mgrVars, adVars, stackVars, sleepVars,
                 rspQ, waitq, enabled, resetting, mgrNotif, adNotif, adCmdQ, adEvtQ, asserts>>

\* ble_mgr_response_queue_send: blocks while the queue is full.
Respond(c, by) ==
  /\ Len(rspQ) < 1
  /\ rspQ' = Append(rspQ, [op |-> c.op, id |-> c.id, by |-> by])

\* The handler of an immediate command, register_cmd_handler among them.
HandleImmediate(a) ==
  /\ pc[a] = "handler"
  /\ cmd[a].op \in {"register", "imm"}
  /\ Respond(cmd[a], cmd[a].id)
  /\ appTask' = IF cmd[a].op = "register" THEN a ELSE appTask
  /\ Goto(a, "wait")
  /\ UNCHANGED <<ifLock, back, cmd, rsp, nCmd, evtList, saved, notif, pend, mgrVars,
                 adVars, stackVars, sleepVars, waitq, enabled, resetting, mgrNotif,
                 adNotif, adCmdQ, adEvtQ, asserts>>

\* ble_gtl_waitqueue_add and ble_ad_msg_wqueue_add.
WaitqueueAdd(c) == waitq' = waitq \cup {c}

\* Which handlers queue an element.
Awaits(op) == op \in Waiting

\* A handler up to its ble_gtl_send: the element is queued before the message leaves.
HandleSending(a) ==
  /\ pc[a] = "handler"
  /\ cmd[a].op \in Sending \ {"reset"}
  /\ IF Awaits(cmd[a].op) THEN WaitqueueAdd(cmd[a]) ELSE UNCHANGED waitq
  /\ Goto(a, "send")
  /\ UNCHANGED <<ifLock, back, cmd, rsp, nCmd, evtVars, mgrVars, adVars, stackVars,
                 sleepVars, rspQ, enabled, resetting, mgrNotif, adNotif, adCmdQ, adEvtQ,
                 asserts>>

\* Faulty variant: the put does not wait for space.
CmdSpaceAlways == TRUE
CmdSpace == Len(adCmdQ) < AdCmdQLen

\* ad_ble_command_queue_send(OS_QUEUE_FOREVER): the put, then the notification.
SendToAdapter(a) ==
  /\ pc[a] = "send"
  /\ CmdSpace
  /\ adCmdQ' = Append(adCmdQ, cmd[a])
  /\ Goto(a, "notify")
  /\ UNCHANGED <<ifLock, back, cmd, rsp, nCmd, evtVars, mgrVars, adVars, stackVars,
                 sleepVars, rspQ, waitq, enabled, resetting, mgrNotif, adNotif, adEvtQ,
                 asserts>>

NotifyAdapter(a) ==
  /\ pc[a] = "notify"
  /\ adNotif' = adNotif \cup {"cmd"}
  /\ Goto(a, IF cmd[a].op \in Waiting THEN "wait" ELSE "respond")
  /\ UNCHANGED <<ifLock, back, cmd, rsp, nCmd, evtVars, mgrVars, adVars, stackVars,
                 sleepVars, rspQ, waitq, enabled, resetting, mgrNotif, adCmdQ, adEvtQ,
                 asserts>>

\* A "fire" handler answers without waiting for the stack.
RespondAtOnce(a) ==
  /\ pc[a] = "respond"
  /\ Respond(cmd[a], cmd[a].id)
  /\ Goto(a, "wait")
  /\ UNCHANGED <<ifLock, back, cmd, rsp, nCmd, evtVars, mgrVars, adVars, stackVars,
                 sleepVars, waitq, enabled, resetting, mgrNotif, adNotif, adCmdQ, adEvtQ,
                 asserts>>

TakeResponse(a) ==
  /\ pc[a] = "wait"
  /\ rspQ # <<>>
  /\ rsp' = [rsp EXCEPT ![a] = Head(rspQ)]
  /\ rspQ' = Tail(rspQ)
  /\ Goto(a, "release")
  /\ UNCHANGED <<ifLock, back, cmd, nCmd, evtVars, mgrVars, adVars, stackVars, sleepVars,
                 waitq, enabled, resetting, mgrNotif, adNotif, adCmdQ, adEvtQ, asserts>>

\* The op code of the response is asserted after the interface is released.
Release(a) ==
  /\ pc[a] = "release"
  /\ ifLock' = NoTask
  /\ asserts' = asserts \cup (IF rsp[a].op = cmd[a].op THEN {} ELSE {"rsp_op_code"})
  /\ Goto(a, back[a])
  /\ UNCHANGED <<back, cmd, rsp, nCmd, evtVars, mgrVars, adVars, stackVars, sleepVars,
                 rspQ, waitq, enabled, resetting, mgrNotif, adNotif, adCmdQ, adEvtQ>>

-----------------------------------------------------------------------------
(***************************************************************************)
(* Events: the loop of the registered application, ble_mgr_event_queue_get *)
(* with no wait, and the drain of the list by a reset.                     *)
(***************************************************************************)
Outside == <<ifLock, back, cmd, rsp, nCmd, mgrVars, adVars, stackVars, sleepVars, rspQ,
             enabled, mgrNotif, adNotif, adCmdQ, adEvtQ>>

\* Some other notification of the registered application, such as its timer.
AppTimeout ==
  /\ AppTimer
  /\ NotifyApp(RegApp, "tmo")
  /\ UNCHANGED <<Outside, pc, waitq, resetting, evtList, appTask, saved, asserts>>

\* The task finishes its start-up code and enters its loop.
EnterLoop ==
  /\ pc[RegApp] = "start" /\ enabled
  /\ Goto(RegApp, "idle")
  /\ UNCHANGED <<Outside, waitq, resetting, evtVars, asserts>>

\* OS_TASK_NOTIFY_WAIT of the loop returns and clears all bits.
AppWake ==
  /\ pc[RegApp] = "idle"
  /\ pend[RegApp]
  /\ notif' = [notif EXCEPT ![RegApp] = {}]
  /\ pend' = [pend EXCEPT ![RegApp] = FALSE]
  /\ Goto(RegApp, IF "ble" \in notif[RegApp] THEN "get" ELSE "idle")
  /\ UNCHANGED <<Outside, waitq, resetting, evtList, appTask, saved, asserts>>

\* ble_mgr_event_queue_get finds an event: ble_get_event in the loop, or the
\* drain of ble_mgr_common_reset_cmd_handler, which discards it.
GetEvent(a) ==
  /\ pc[a] \in {"get", "drain"} \/ (pc[a] = "handler" /\ cmd[a].op = "reset")
  /\ evtList # <<>>
  /\ evtList' = Tail(evtList)
  /\ Goto(a, IF pc[a] = "get" THEN "handle" ELSE "drain")
  /\ UNCHANGED <<Outside, waitq, resetting, appTask, saved, notif, pend, asserts>>

\* It finds the list empty: app_task becomes the caller.
FindEmpty(a) ==
  /\ pc[a] \in {"get", "drain"} \/ (pc[a] = "handler" /\ cmd[a].op = "reset")
  /\ evtList = <<>>
  /\ saved' = [saved EXCEPT ![a] = appTask]
  /\ appTask' = a
  /\ Goto(a, "empty")
  /\ UNCHANGED <<Outside, waitq, resetting, evtList, notif, pend, asserts>>

\* OS_TASK_NOTIFY_WAIT(0, BLE bit, &notif, 0) succeeds if anything at all is
\* pending; it consumes the pending state and clears only the BLE bit.
PollNotification(a) ==
  /\ pc[a] = "empty"
  /\ Goto(a, IF pend[a] THEN "got" ELSE "missed")
  /\ pend' = [pend EXCEPT ![a] = FALSE]
  /\ notif' = [notif EXCEPT ![a] = IF pend[a] THEN @ \ {"ble"} ELSE @]
  /\ UNCHANGED <<Outside, waitq, resetting, evtList, appTask, saved, asserts>>

\* Where the caller of ble_mgr_event_queue_get goes on.
Draining(a) == cmd[a].op = "reset" /\ ifLock = a

\* Notified: restore app_task and pop; an empty list is asserted impossible.
PopNotified(a) ==
  /\ pc[a] = "got"
  /\ appTask' = saved[a]
  /\ \/ /\ evtList # <<>>
        /\ evtList' = Tail(evtList)
        /\ Goto(a, IF Draining(a) THEN "drain" ELSE "handle")
        /\ UNCHANGED asserts
     \/ /\ evtList = <<>>
        /\ asserts' = asserts \cup {"empty_event_list"}
        /\ UNCHANGED <<evtList, pc>>
  /\ UNCHANGED <<Outside, waitq, resetting, saved, notif, pend>>

\* Not notified: restore app_task and return OS_QUEUE_EMPTY.
NothingToGet(a) ==
  /\ pc[a] = "missed"
  /\ appTask' = saved[a]
  /\ Goto(a, IF Draining(a) THEN "doReset" ELSE "check")
  /\ UNCHANGED <<Outside, waitq, resetting, evtList, saved, notif, pend, asserts>>

\* The rest of ble_mgr_common_reset_cmd_handler, up to its ble_gtl_send.
StartReset(a) ==
  /\ pc[a] = "doReset"
  /\ resetting' = TRUE
  /\ WaitqueueAdd(cmd[a])
  /\ Goto(a, "send")
  /\ UNCHANGED <<Outside, evtVars, asserts>>

\* The application is done with the event (commands may have been issued).
EventHandled ==
  /\ pc[RegApp] = "handle"
  /\ Goto(RegApp, "check")
  /\ UNCHANGED <<Outside, waitq, resetting, evtVars, asserts>>

\* Faulty variants of ble_has_event: events are left behind, or one more is announced.
NoEventLeft == FALSE
EventLeftAlways == TRUE
EventLeft == evtList # <<>>

\* ble_has_event: the loop notifies itself while events are left.
CheckMore ==
  /\ pc[RegApp] = "check"
  /\ IF EventLeft THEN NotifyApp(RegApp, "ble") ELSE UNCHANGED <<notif, pend>>
  /\ Goto(RegApp, "idle")
  /\ UNCHANGED <<Outside, waitq, resetting, evtList, appTask, saved, asserts>>

-----------------------------------------------------------------------------
(***************************************************************************)
(* The manager task.                                                       *)
(***************************************************************************)
MgrOutside == <<appVars, adVars, stackVars, sleepVars, asserts>>

\* OS_TASK_NOTIFY_WAIT returns and clears all bits; one message is taken if
\* the event bit is set and the queue is not empty.
MgrWake ==
  /\ mgrPc = "idle"
  /\ mgrNotif # {}
  /\ mgrNotif' = {}
  /\ IF "evt" \in mgrNotif /\ adEvtQ # <<>>
       THEN /\ mgrMsg' = Head(adEvtQ)
            /\ adEvtQ' = Tail(adEvtQ)
            /\ mgrPc' = "dispatch"
       ELSE mgrPc' = "tail" /\ UNCHANGED <<mgrMsg, adEvtQ>>
  /\ UNCHANGED <<MgrOutside, evtVars, rspQ, waitq, enabled, resetting, adNotif, adCmdQ>>

\* While a reset is in progress every other stack message is dropped;
\* messages of the adapter itself ("enable") are not.
\* Faulty variants: a reset drops its own completion; a match ignores the message id.
IgnoredAll(m)  == resetting
Ignored(m)     == resetting /\ m.op \notin {"reset", "enable"}
MatchingAny(m) == waitq
Matching(m)    == {w \in waitq : w.op = m.op}

MgrIgnore ==
  /\ mgrPc = "dispatch"
  /\ \/ Ignored(mgrMsg)
     \/ mgrMsg.op \in Waiting /\ Matching(mgrMsg) = {}   \* ble_gtl_handle_event: nothing to do
  /\ mgrMsg' = NoMsg
  /\ mgrPc' = "more"
  /\ UNCHANGED <<MgrOutside, evtVars, rspQ, waitq, enabled, resetting, mgrNotif, adNotif,
                 adCmdQ, adEvtQ>>

\* ble_gtl_waitqueue_match and the callback it fires: gapm_reset_complete,
\* ble_adapter_cmp_evt_init or the *_rsp function of a configuration command.
MgrComplete ==
  /\ mgrPc = "dispatch"
  /\ ~Ignored(mgrMsg)
  /\ \E w \in Matching(mgrMsg) :
       /\ waitq' = waitq \ {w}
       /\ Respond(w, mgrMsg.id)
  /\ resetting' = (resetting /\ mgrMsg.op # "reset")
  /\ enabled' = (enabled \/ mgrMsg.op = "enable")
  /\ mgrMsg' = NoMsg
  /\ mgrPc' = "more"
  /\ UNCHANGED <<MgrOutside, evtVars, mgrNotif, adNotif, adCmdQ, adEvtQ>>

\* An event handler: ble_mgr_event_queue_send to whoever app_task names.
MgrPostEvent ==
  /\ mgrPc = "dispatch"
  /\ ~Ignored(mgrMsg) /\ mgrMsg.op = "ind"
  /\ evtList' = Append(evtList, mgrMsg)
  /\ IF appTask # NoTask THEN NotifyApp(appTask, "ble") ELSE UNCHANGED <<notif, pend>>
  /\ mgrMsg' = NoMsg
  /\ mgrPc' = "more"
  /\ UNCHANGED <<MgrOutside, appTask, saved, rspQ, waitq, enabled, resetting, mgrNotif,
                 adNotif, adCmdQ, adEvtQ>>

\* A handler that replies to the stack by itself, with ble_gtl_send(OS_QUEUE_FOREVER).
MgrReply ==
  /\ mgrPc = "dispatch"
  /\ ~Ignored(mgrMsg) /\ mgrMsg.op = "req"
  /\ CmdSpace
  /\ adCmdQ' = Append(adCmdQ, [op |-> "auto", id |-> 0])
  /\ mgrMsg' = NoMsg
  /\ mgrPc' = "notify"
  /\ UNCHANGED <<MgrOutside, evtVars, rspQ, waitq, enabled, resetting, mgrNotif, adNotif, adEvtQ>>

MgrNotifyAdapter ==
  /\ mgrPc = "notify"
  /\ adNotif' = adNotif \cup {"cmd"}
  /\ mgrPc' = "more"
  /\ UNCHANGED <<MgrOutside, mgrMsg, evtVars, rspQ, waitq, enabled, resetting, mgrNotif,
                 adCmdQ, adEvtQ>>

\* Faulty variant: the rest of the queue is not announced.
NoneLeft == {}
LeftInQueue == IF adEvtQ # <<>> THEN {"evt"} ELSE {}

\* The task notifies itself while messages are left.
MgrMore ==
  /\ mgrPc = "more"
  /\ mgrNotif' = mgrNotif \cup LeftInQueue
  /\ mgrPc' = "tail"
  /\ UNCHANGED <<MgrOutside, mgrMsg, evtVars, rspQ, waitq, enabled, resetting, adNotif,
                 adCmdQ, adEvtQ>>

\* Faulty variant: the adapter is told only while its queue is full.
FullAgain == adBlocked /\ Len(adEvtQ) = AdEvtQLen
SpaceAgain == adBlocked /\ Len(adEvtQ) < AdEvtQLen

\* End of the loop: tell a blocked adapter that its event queue has space.
MgrUnblockAdapter ==
  /\ mgrPc = "tail"
  /\ adNotif' = IF SpaceAgain THEN adNotif \cup {"avail"} ELSE adNotif
  /\ mgrPc' = "idle"
  /\ UNCHANGED <<MgrOutside, mgrMsg, evtVars, rspQ, waitq, enabled, resetting, mgrNotif,
                 adCmdQ, adEvtQ>>

-----------------------------------------------------------------------------
(***************************************************************************)
(* The adapter task.                                                       *)
(***************************************************************************)
AdOutside == <<appVars, evtVars, mgrVars, rspQ, waitq, enabled, resetting, nInd>>

\* OS_TASK_NOTIFY_WAIT returns; a stored TX done callback is called if there is space.
AdWake ==
  /\ adPc = "idle"
  /\ adNotif # {}
  /\ adBits' = adNotif
  /\ adNotif' = {}
  /\ IF txDoneCb /\ Len(adEvtQ) < AdEvtQLen
       THEN txDoneCb' = FALSE /\ adBlocked' = FALSE
       ELSE UNCHANGED <<txDoneCb, adBlocked>>
  /\ adPc' = "command"
  /\ UNCHANGED <<AdOutside, currentOp, sleepVars, stackPend, stackOut, mgrNotif, adCmdQ,
                 adEvtQ, asserts>>

\* ad_ble_handle_stack_msg and ad_ble_handle_adapter_msg.  External: a reset
\* aborts what the stack had pending; initialisation, which resets GAP, ends
\* in one message; every other command but "auto" is answered later.
Deliver(m) ==
  /\ currentOp' = IF m.op = "enable" THEN "adapter" ELSE "stack"
  /\ stackPend' = CASE m.op \in {"fire", "cfg"} -> stackPend \cup {m}
                    [] m.op = "reset"           -> {m}
                    [] OTHER                    -> stackPend
  /\ stackOut' = IF m.op = "enable" THEN Append(stackOut, m) ELSE stackOut

\* Faulty variant: a sleeping core is left asleep.
LeftAsleep == FALSE
MustWake == sleep = "SLEEPING"

\* One command for the command bit; a sleeping core is woken up.
AdCommand ==
  /\ adPc = "command"
  /\ IF "cmd" \in adBits /\ adCmdQ # <<>>
       THEN /\ Deliver(Head(adCmdQ))
            /\ adCmdQ' = Tail(adCmdQ)
            /\ wakeReq' = (wakeReq \/ MustWake)
       ELSE UNCHANGED <<currentOp, stackPend, stackOut, adCmdQ, wakeReq>>
  /\ adBits' = {}
  /\ adPc' = "loop"
  /\ UNCHANGED <<AdOutside, txDoneCb, adBlocked, sleep, mgrNotif, adNotif, adEvtQ, asserts>>

StackMayWrite == stackOut # <<>> /\ ~txDoneCb

\* rwip_schedule lets the stack call ble_stack_io_write: the message is posted
\* without waiting, and there must be room.  The completion of the initialisation
\* takes the branch of current_op = AD_BLE_OP_CODE_ADAPTER_MSG.
AdPost ==
  /\ adPc = "loop" /\ sleep = "ACTIVE"
  /\ StackMayWrite
  /\ IF Len(adEvtQ) < AdEvtQLen
       THEN /\ adEvtQ' = Append(adEvtQ, Head(stackOut))
            /\ stackOut' = Tail(stackOut)
            /\ adPc' = IF currentOp = "adapter" THEN "postedInit" ELSE "posted"
            /\ UNCHANGED asserts
       ELSE /\ asserts' = asserts \cup {"evt_q_full"}
            /\ UNCHANGED <<adEvtQ, stackOut, adPc>>
  /\ UNCHANGED <<AdOutside, adBits, currentOp, txDoneCb, adBlocked, sleepVars, stackPend,
                 mgrNotif, adNotif, adCmdQ>>

\* Faulty variant: the space left is not checked after the post.
NeverFull == FALSE
QueueFull == adPc = "posted" /\ Len(adEvtQ) = AdEvtQLen

\* Then it calls the TX done callback, or stores it if the queue is now full.
AdTxDone ==
  /\ adPc \in {"posted", "postedInit"}
  /\ txDoneCb' = QueueFull
  /\ adBlocked' = (adBlocked \/ QueueFull)
  /\ mgrNotif' = mgrNotif \cup {"evt"} \cup (IF QueueFull THEN {"blocked"} ELSE {})
  /\ adPc' = "loop"
  /\ UNCHANGED <<AdOutside, adBits, currentOp, sleepVars, stackPend, stackOut, adNotif,
                 adCmdQ, adEvtQ, asserts>>

\* The inner loop takes further commands after each run of the stack.
AdNextCommand ==
  /\ adPc = "loop" /\ sleep = "ACTIVE"
  /\ ~StackMayWrite
  /\ adCmdQ # <<>>
  /\ Deliver(Head(adCmdQ))
  /\ adCmdQ' = Tail(adCmdQ)
  /\ UNCHANGED <<AdOutside, adPc, adBits, txDoneCb, adBlocked, sleepVars, mgrNotif, adNotif,
                 adEvtQ, asserts>>

\* Nothing to do, or the core is not active: back to OS_TASK_NOTIFY_WAIT.
\* External (ble_rwip_sleep): the core sleeps only while nothing is to be written
\* and nothing is in progress but procedures on the air.
AdPark ==
  /\ adPc = "loop"
  /\ \/ /\ sleep # "ACTIVE"
        /\ UNCHANGED sleep
     \/ /\ sleep = "ACTIVE" /\ ~StackMayWrite /\ adCmdQ = <<>>
        /\ \/ UNCHANGED sleep
           \/ /\ stackOut = <<>> /\ ~txDoneCb /\ currentOp = "stack"
              /\ \A m \in stackPend : m.op = "fire"
              /\ sleep' = "SLEEPING"
  /\ adPc' = "idle"
  /\ UNCHANGED <<AdOutside, adBits, currentOp, txDoneCb, adBlocked, wakeReq, stackPend,
                 stackOut, mgrNotif, adNotif, adCmdQ, adEvtQ, asserts>>

-----------------------------------------------------------------------------
(***************************************************************************)
(* Interrupts of the BLE core, and the stack (external).                   *)
(***************************************************************************)
IsrOutside == <<appVars, evtVars, mgrVars, adVars, rspQ, waitq, enabled, resetting, mgrNotif,
                adCmdQ, adEvtQ, asserts>>

\* BLE_WAKEUP_LP_Handler: by timer or forced.
WakeupIsr ==
  /\ sleep = "SLEEPING"
  /\ sleep' = "WAKING_UP" /\ wakeReq' = FALSE
  /\ UNCHANGED <<IsrOutside, stackVars, adNotif>>

\* ad_ble_cscnt_serviced and BLE_GEN_Handler.
AwakeIsr ==
  /\ sleep = "WAKING_UP"
  /\ sleep' = "ACTIVE"
  /\ adNotif' = adNotif \cup {"irq"}
  /\ UNCHANGED <<IsrOutside, stackVars, wakeReq>>

\* The stack answers a command it has pending.  The completion of a "fire"
\* command is one the manager turns into an event.
StackAnswer(m) ==
  /\ sleep = "ACTIVE"
  /\ stackPend' = stackPend \ {m}
  /\ stackOut' = Append(stackOut, IF m.op = "fire" THEN [op |-> "ind", id |-> 0] ELSE m)
  /\ adNotif' = adNotif \cup {"irq"}
  /\ UNCHANGED <<IsrOutside, nInd, sleepVars>>

\* Something comes from the air.
StackIndicate(op) ==
  /\ sleep = "ACTIVE" /\ currentOp = "stack"
  /\ nInd < MaxInds
  /\ nInd' = nInd + 1
  /\ stackOut' = Append(stackOut, [op |-> op, id |-> 0])
  /\ adNotif' = adNotif \cup {"irq"}
  /\ UNCHANGED <<IsrOutside, stackPend, sleepVars>>

-----------------------------------------------------------------------------
\* configASSERT of a development build: interrupts off and an endless loop.
Running == asserts = {}

CommandStep(a) ==
  /\ Running
  /\ \/ Acquire(a) \/ HandleImmediate(a) \/ HandleSending(a) \/ SendToAdapter(a)
     \/ NotifyAdapter(a) \/ RespondAtOnce(a) \/ TakeResponse(a) \/ Release(a)

EventStep(a) ==
  /\ Running
  /\ \/ GetEvent(a) \/ FindEmpty(a) \/ PollNotification(a) \/ PopNotified(a)
     \/ NothingToGet(a) \/ StartReset(a)

LoopStep == Running /\ (EnterLoop \/ AppWake \/ EventHandled \/ CheckMore)

MgrStep ==
  /\ Running
  /\ \/ MgrWake \/ MgrIgnore \/ MgrComplete \/ MgrPostEvent \/ MgrReply
     \/ MgrNotifyAdapter \/ MgrMore \/ MgrUnblockAdapter

AdStep ==
  /\ Running
  /\ AdWake \/ AdCommand \/ AdPost \/ AdTxDone \/ AdNextCommand \/ AdPark

IsrStep == Running /\ (WakeupIsr \/ AwakeIsr)

Answers    == Running /\ \E m \in stackPend : StackAnswer(m)
Indicates  == Running /\ \E op \in {"ind", "req"} : StackIndicate(op)

\* What the application decides: the calls it makes, its other notifications.
AppChoice == Running /\ (AppTimeout \/ \E a \in Apps, op \in Ops : Call(a, op))

Next ==
  \/ \E a \in Apps : CommandStep(a) \/ EventStep(a)
  \/ AppChoice \/ LoopStep \/ MgrStep \/ AdStep \/ IsrStep \/ Answers \/ Indicates

Spec == Init /\ [][Next]_vars

(***************************************************************************)
(* Fairness.  Every task that can run gets to run: the applications block  *)
(* in their calls and the two tasks above them block after each loop, so   *)
(* none is starved.  A mutex waiter of FreeRTOS is served in priority      *)
(* order, first come first served among equals (strong fairness).  The     *)
(* core wakes up when it was asked to and for a procedure on the air, and  *)
(* the stack answers every command, whatever the core slept in between.    *)
(***************************************************************************)
Fairness ==
  /\ \A a \in Apps : /\ WF_vars(CommandStep(a)) /\ WF_vars(EventStep(a))
                     /\ SF_vars(Running /\ Acquire(a))
  /\ WF_vars(LoopStep) /\ WF_vars(MgrStep) /\ WF_vars(AdStep)
  /\ WF_vars((wakeReq \/ sleep = "WAKING_UP" \/ \E m \in stackPend : m.op = "fire") /\ IsrStep)
  /\ SF_vars(Answers)

FairSpec == Spec /\ Fairness

-----------------------------------------------------------------------------
AppsOK ==
  /\ ifLock \in Apps \cup {NoTask}
  /\ pc \in [Apps -> AppPcs] /\ back \in [Apps -> {"start", "idle", "handle"}]
  /\ cmd \in [Apps -> Cmds \cup {NoCmd}] /\ rsp \in [Apps -> Rsps \cup {NoRsp}]
  /\ nCmd \in Ids

EventsOK ==
  /\ evtList \in Seq(AdEvts)
  /\ appTask \in Apps \cup {NoTask} /\ saved \in [Apps -> Apps \cup {NoTask}]
  /\ notif \in [Apps -> SUBSET Bits] /\ pend \in [Apps -> BOOLEAN]

ServiceOK ==
  /\ rspQ \in Seq(Rsps) /\ Len(rspQ) <= 1
  /\ waitq \in SUBSET Waiters
  /\ enabled \in BOOLEAN /\ resetting \in BOOLEAN

ManagerOK ==
  /\ mgrPc \in {"idle", "dispatch", "notify", "more", "tail"}
  /\ mgrMsg \in AdEvts \cup {NoMsg} /\ (mgrPc = "dispatch" <=> mgrMsg # NoMsg)

QueuesOK ==
  /\ adCmdQ \in Seq(AdCmds) /\ Len(adCmdQ) <= AdCmdQLen
  /\ adEvtQ \in Seq(AdEvts) /\ Len(adEvtQ) <= AdEvtQLen
  /\ mgrNotif \in SUBSET {"evt", "blocked"} /\ adNotif \in SUBSET {"cmd", "avail", "irq"}

AdapterOK ==
  /\ adPc \in {"idle", "command", "loop", "posted", "postedInit"}
  /\ adBits \in SUBSET {"cmd", "avail", "irq"}
  /\ currentOp \in {"none", "adapter", "stack"}
  /\ txDoneCb \in BOOLEAN /\ adBlocked \in BOOLEAN

StackOK ==
  /\ sleep \in {"ACTIVE", "SLEEPING", "WAKING_UP"} /\ wakeReq \in BOOLEAN
  /\ stackPend \in SUBSET {m \in AdCmds : m.op \in {"fire", "cfg", "reset"}}
  /\ stackOut \in Seq(AdEvts) /\ nInd \in 0..MaxInds

AssertsOK == asserts \in SUBSET {"rsp_op_code", "empty_event_list", "evt_q_full"}

(* Type invariant, with the lengths of the bounded queues. *)
TypeOK ==
  /\ AppsOK /\ EventsOK /\ ServiceOK /\ ManagerOK /\ QueuesOK /\ AdapterOK /\ StackOK
  /\ AssertsOK

(***************************************************************************)
(* A response in the one-element response queue is for the task that holds *)
(* the interface and blocks on it, carries the op code and the number of   *)
(* its command, and was caused by the completion of that very command.     *)
(***************************************************************************)
OwnResponse ==
  \A i \in 1..Len(rspQ) :
    \E a \in Apps :
      /\ ifLock = a /\ pc[a] \in {"notify", "wait"}
      /\ rspQ[i] = [op |-> cmd[a].op, id |-> cmd[a].id, by |-> cmd[a].id]

\* The completion of command c is somewhere between the adapter's command
\* queue and the hands of the manager.
Carries(q, c) == \E i \in 1..Len(q) : q[i] = c
InFlight(c) ==
  Carries(adCmdQ, c) \/ c \in stackPend \/ Carries(stackOut, c) \/ Carries(adEvtQ, c)
    \/ mgrMsg = c

(***************************************************************************)
(* Nobody waits in vain: a task that blocks on the response queue, with no *)
(* time limit, has a response there, or its element is in the wait queue   *)
(* and its completion is still under way.                                  *)
(***************************************************************************)
AnswerOnItsWay ==
  \A a \in Apps : pc[a] = "wait" =>
    rspQ # <<>> \/ (cmd[a] \in waitq /\ InFlight(cmd[a]))

(***************************************************************************)
(* The manager never sleeps on a message: if its task blocks while the     *)
(* adapter's event queue holds one, a notification is pending or the       *)
(* adapter is about to send it.                                            *)
(***************************************************************************)
ManagerAwake ==
  adEvtQ # <<>> /\ mgrPc = "idle" => "evt" \in mgrNotif \/ adPc \in {"posted", "postedInit"}

(***************************************************************************)
(* The adapter never sleeps on work: with a command queued it is notified, *)
(* about to be, or waiting for the core to wake up; with a TX done         *)
(* callback stored the manager still has to run and will notify it.        *)
(***************************************************************************)
AdapterAwake ==
  adPc = "idle" /\ adNotif = {} =>
    /\ adCmdQ # <<>> => \/ sleep = "WAKING_UP" \/ wakeReq
                        \/ mgrPc = "notify" \/ \E a \in Apps : pc[a] = "notify"
    /\ txDoneCb => adBlocked /\ (mgrPc # "idle" \/ mgrNotif # {})

(***************************************************************************)
(* No event is forgotten in the list: when the registered application      *)
(* blocks in its loop with an event queued and no reset is draining the    *)
(* list, its notification is pending.                                      *)
(***************************************************************************)
EventNotified ==
  pc[RegApp] = "idle" /\ evtList # <<>>
    /\ (\A a \in Apps : pc[a] \notin {"drain", "empty", "got", "missed"})
  => pend[RegApp] /\ "ble" \in notif[RegApp]

(***************************************************************************)
(* The stack writes only when the event queue has room, and the op code of *)
(* every response is the expected one: the assertions of                   *)
(* ble_stack_io_write and ble_cmd_execute hold.                            *)
(***************************************************************************)
TransportAsserts == asserts \cap {"rsp_op_code", "evt_q_full"} = {}

(***************************************************************************)
(* The assertion of ble_mgr_event_queue_get: the event list is not empty   *)
(* after a successful wait for a notification ("This should not happen     *)
(* since the task has just been notified for a BLE event").                *)
(***************************************************************************)
NoEmptyPop == "empty_event_list" \notin asserts

\* Every BLE call returns to its caller.
CommandReturns == \A a \in Apps : pc[a] = "acquire" ~> pc[a] = back[a]

\* Whatever the stack has to say gets through a full event queue to the
\* application, and the event list is emptied.
EventsReachApp ==
  (stackOut # <<>> \/ adEvtQ # <<>> \/ (enabled /\ evtList # <<>>)) ~>
    (stackOut = <<>> /\ adEvtQ = <<>> /\ (evtList = <<>> \/ pc[RegApp] = "start"))

(***************************************************************************)
(* The framework implements the command service.  A command is in service  *)
(* from the moment its handler runs until the response has been taken.     *)
(***************************************************************************)
Phase(a) ==
  CASE ifLock = a /\ (pc[a] = "release") -> "answered"
    [] ifLock = a /\ pc[a] # "release" -> "served"
    [] ifLock # a /\ pc[a] = "acquire" -> "asked"
    [] OTHER -> "idle"

Service == INSTANCE BleCommandService WITH
  Clients <- Apps,
  phase   <- [a \in Apps |-> Phase(a)],
  asked   <- [a \in Apps |-> cmd[a].id],
  answer  <- [a \in Apps |-> IF pc[a] = "release" \/ (pc[a] # "acquire" /\ ifLock # a)
                               THEN rsp[a].by ELSE 0]

ImplementsService == Service!Spec
=============================================================================
