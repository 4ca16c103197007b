-------------------------- MODULE BleManagerProofs --------------------------
(***************************************************************************)
(* Theorems about BleManager, for every number of tasks, length of queue   *)
(* and bound: its types, and that a BLE command gets its own response and  *)
(* never waits for one that will not come.                                 *)
(*                                                                         *)
(* The argument is about the single exchange that may be under way: the    *)
(* interface lock admits one handler (LockInv), so there is one element in *)
(* the wait queue at most, its completion is in exactly one place between  *)
(* the adapter's command queue and the manager's hands (ExchangeInv), and  *)
(* a response in the queue is for the task that holds the lock             *)
(* (ResponseInv).                                                          *)
(***************************************************************************)
EXTENDS BleManager, SequenceTheorems, TLAPS

(***************************************************************************)
(* Sequences.                                                              *)
(***************************************************************************)
(* Taking the first element of a queue. *)
LEMMA Pop ==
  ASSUME NEW S, NEW q \in Seq(S), q # <<>>
  PROVE  /\ Head(q) \in S /\ Head(q) = q[1] /\ Tail(q) \in Seq(S)
         /\ Len(q) \in Nat \ {0} /\ Len(Tail(q)) = Len(q) - 1
         /\ \A i \in 1..Len(Tail(q)) : Tail(q)[i] = q[i + 1]
  BY EmptySeq, HeadTailProperties

(* Putting an element at the end of a queue. *)
LEMMA Put ==
  ASSUME NEW S, NEW q \in Seq(S), NEW x \in S
  PROVE  /\ Append(q, x) \in Seq(S)
         /\ Len(q) \in Nat /\ Len(Append(q, x)) = Len(q) + 1
         /\ \A i \in 1..Len(q) : Append(q, x)[i] = q[i]
         /\ Append(q, x)[Len(q) + 1] = x
  BY AppendProperties, LenProperties

-----------------------------------------------------------------------------
(***************************************************************************)
(* The type invariant, with what a task executes at each place of a        *)
(* handler: what a handler queues has the type of its queue because of it. *)
(***************************************************************************)
Busy == {"handler", "drain", "doReset", "send", "notify", "respond", "wait", "release"}
CmdInv ==
  \A a \in Apps :
    /\ pc[a] = "acquire" \/ pc[a] \in Busy => cmd[a] \in Cmds
    /\ pc[a] \in {"drain", "doReset"} => cmd[a].op = "reset"
    /\ pc[a] \in {"send", "notify"} => cmd[a].op \in Sending
    /\ pc[a] = "respond" => cmd[a].op = "fire"
TypeInv == TypeOK /\ CmdInv

(* Each part of the type invariant depends on its own variables: the callers, *)
LEMMA AppsFrame == ASSUME TypeInv, UNCHANGED appVars PROVE AppsOK' /\ CmdInv'
  BY DEF TypeInv, TypeOK, AppsOK, CmdInv, appVars
(* the events and notifications, *)
LEMMA EventsFrame == ASSUME TypeInv, UNCHANGED evtVars PROVE EventsOK'
  BY DEF TypeInv, TypeOK, EventsOK, evtVars
(* the response queue and the wait queues, *)
LEMMA ServiceFrame == ASSUME TypeInv, UNCHANGED <<rspQ, waitq, enabled, resetting>> PROVE ServiceOK'
  BY DEF TypeInv, TypeOK, ServiceOK
(* the manager task, *)
LEMMA ManagerFrame == ASSUME TypeInv, UNCHANGED mgrVars PROVE ManagerOK'
  BY DEF TypeInv, TypeOK, ManagerOK, mgrVars
(* the queues of the adapter, *)
LEMMA QueuesFrame ==
  ASSUME TypeInv, UNCHANGED <<adCmdQ, adEvtQ, mgrNotif, adNotif>> PROVE QueuesOK'
  BY DEF TypeInv, TypeOK, QueuesOK
(* the adapter task, *)
LEMMA AdapterFrame == ASSUME TypeInv, UNCHANGED adVars PROVE AdapterOK'
  BY DEF TypeInv, TypeOK, AdapterOK, adVars
(* the stack and the sleep of the core, *)
LEMMA StackFrame == ASSUME TypeInv, UNCHANGED <<stackVars, sleepVars>> PROVE StackOK'
  BY DEF TypeInv, TypeOK, StackOK, stackVars, sleepVars
(* the assertions that have failed. *)
LEMMA AssertsFrame == ASSUME TypeInv, UNCHANGED asserts PROVE AssertsOK'
  BY DEF TypeInv, TypeOK, AssertsOK

(* What a reader takes from a queue, and what it leaves there. *)
LEMMA Heads ==
  ASSUME TypeInv
  PROVE  /\ rspQ # <<>> => /\ Head(rspQ) \in Rsps /\ Tail(rspQ) \in Seq(Rsps)
                          /\ Len(Tail(rspQ)) <= 1
         /\ evtList # <<>> => Tail(evtList) \in Seq(AdEvts)
         /\ adCmdQ # <<>> => /\ Head(adCmdQ) \in AdCmds /\ Tail(adCmdQ) \in Seq(AdCmds)
                            /\ Len(Tail(adCmdQ)) <= AdCmdQLen
         /\ adEvtQ # <<>> => /\ Head(adEvtQ) \in AdEvts /\ Tail(adEvtQ) \in Seq(AdEvts)
                            /\ Len(Tail(adEvtQ)) <= AdEvtQLen
         /\ stackOut # <<>> => Head(stackOut) \in AdEvts /\ Tail(stackOut) \in Seq(AdEvts)
<1>1. /\ rspQ \in Seq(Rsps) /\ Len(rspQ) <= 1 /\ evtList \in Seq(AdEvts)
      /\ adCmdQ \in Seq(AdCmds) /\ Len(adCmdQ) <= AdCmdQLen
      /\ adEvtQ \in Seq(AdEvts) /\ Len(adEvtQ) <= AdEvtQLen /\ stackOut \in Seq(AdEvts)
  BY DEF TypeInv, TypeOK, ServiceOK, EventsOK, QueuesOK, StackOK
<1>2. AdCmdQLen \in Nat /\ AdEvtQLen \in Nat
  BY SizesAssumption
<1> QED
  BY <1>1, <1>2, Pop

(* A message is never the mark of an idle manager. *)
LEMMA NoMsgIsNone == ASSUME NEW m \in AdEvts PROVE m # NoMsg
  BY DEF AdEvts, NoMsg, NoCmd, Waiting

(* A command taken from the queue of the adapter. *)
LEMMA Delivered ==
  ASSUME TypeInv, NEW m \in AdCmds, Deliver(m)
  PROVE  /\ currentOp' \in {"none", "adapter", "stack"}
         /\ stackPend' \in SUBSET {c \in AdCmds : c.op \in {"fire", "cfg", "reset"}}
         /\ stackOut' \in Seq(AdEvts)
<1>1. /\ stackPend \in SUBSET {c \in AdCmds : c.op \in {"fire", "cfg", "reset"}}
      /\ stackOut \in Seq(AdEvts)
  BY DEF TypeInv, TypeOK, StackOK
<1>2. m.op = "enable" => m \in AdEvts
  BY DEF AdCmds, AdEvts, Waiting
<1>3. stackPend' \in SUBSET {c \in AdCmds : c.op \in {"fire", "cfg", "reset"}}
  BY <1>1 DEF Deliver
<1>4. stackOut' \in Seq(AdEvts)
  BY <1>1, <1>2, Put DEF Deliver
<1> QED
  BY <1>3, <1>4 DEF Deliver

(* A notification to an application task. *)
LEMMA Notified ==
  ASSUME TypeInv, NEW a, NEW bit \in Bits, NotifyApp(a, bit)
  PROVE  notif' \in [Apps -> SUBSET Bits] /\ pend' \in [Apps -> BOOLEAN]
  BY DEF TypeInv, TypeOK, EventsOK, NotifyApp

(* Steps of a task that executes a command. *)
LEMMA TypeCommand == ASSUME TypeInv, NEW a \in Apps, CommandStep(a) PROVE TypeInv'
<1>1. CASE Acquire(a)
  <2>1. (AppsOK /\ CmdInv)'
    BY <1>1 DEF Acquire, TypeInv, TypeOK, AppsOK, CmdInv, Busy, AppPcs, Goto, appVars
  <2> QED BY <1>1, <2>1, EventsFrame, ServiceFrame, ManagerFrame, QueuesFrame,
             AdapterFrame, StackFrame, AssertsFrame DEF Acquire, TypeInv, TypeOK, appVars,
             evtVars
<1>2. CASE HandleImmediate(a)
  <2>0. cmd[a] \in Cmds
    BY <1>2 DEF HandleImmediate, TypeInv, CmdInv, Busy
  <2>1. (AppsOK /\ CmdInv)'
    BY <1>2, <2>0 DEF HandleImmediate, TypeInv, TypeOK, AppsOK, CmdInv, Busy, AppPcs,
       Goto, appVars
  <2>2. EventsOK'
    BY <1>2, <2>0 DEF HandleImmediate, TypeInv, TypeOK, EventsOK, Bits, evtVars
  <2>3. ServiceOK'
    BY <1>2, <2>0 DEF HandleImmediate, TypeInv, TypeOK, ServiceOK, Respond, Cmds, Rsps
  <2> QED BY <1>2, <2>1, <2>2, <2>3, ManagerFrame, QueuesFrame, AdapterFrame, StackFrame,
             AssertsFrame DEF HandleImmediate, TypeInv, TypeOK, appVars, evtVars
<1>3. CASE HandleSending(a)
  <2>0. cmd[a] \in Cmds
    BY <1>3 DEF HandleSending, TypeInv, CmdInv, Busy
  <2>1. (AppsOK /\ CmdInv)'
    BY <1>3, <2>0 DEF HandleSending, TypeInv, TypeOK, AppsOK, CmdInv, Busy, AppPcs, Goto,
       Sending, Waiting, appVars
  <2>2. ServiceOK'
    BY <1>3, <2>0 DEF HandleSending, TypeInv, TypeOK, ServiceOK, WaitqueueAdd, Awaits,
       Cmds, Waiters, Sending, Waiting
  <2> QED BY <1>3, <2>1, <2>2, EventsFrame, ManagerFrame, QueuesFrame, AdapterFrame,
             StackFrame, AssertsFrame DEF HandleSending, TypeInv, TypeOK, appVars, evtVars
<1>4. CASE SendToAdapter(a)
  <2>0. cmd[a] \in Cmds /\ cmd[a].op \in Sending
    BY <1>4 DEF SendToAdapter, TypeInv, CmdInv, Busy
  <2>1. (AppsOK /\ CmdInv)'
    BY <1>4, <2>0 DEF SendToAdapter, TypeInv, TypeOK, AppsOK, CmdInv, Busy, AppPcs, Goto,
       appVars
  <2>2. QueuesOK'
    BY <1>4, <2>0, SizesAssumption DEF SendToAdapter, TypeInv, TypeOK, QueuesOK, CmdSpace,
       Cmds, AdCmds
  <2> QED BY <1>4, <2>1, <2>2, EventsFrame, ServiceFrame, ManagerFrame, AdapterFrame,
             StackFrame, AssertsFrame DEF SendToAdapter, TypeInv, TypeOK, appVars, evtVars
<1>5. CASE NotifyAdapter(a)
  <2>0. cmd[a] \in Cmds /\ cmd[a].op \in Sending
    BY <1>5 DEF NotifyAdapter, TypeInv, CmdInv, Busy
  <2>1. (AppsOK /\ CmdInv)'
    BY <1>5, <2>0 DEF NotifyAdapter, TypeInv, TypeOK, AppsOK, CmdInv, Busy, AppPcs, Goto,
       Sending, appVars
  <2>2. QueuesOK'
    BY <1>5, <2>0 DEF NotifyAdapter, TypeInv, TypeOK, QueuesOK
  <2> QED BY <1>5, <2>1, <2>2, EventsFrame, ServiceFrame, ManagerFrame, AdapterFrame,
             StackFrame, AssertsFrame DEF NotifyAdapter, TypeInv, TypeOK, appVars, evtVars
<1>6. CASE RespondAtOnce(a)
  <2>0. cmd[a] \in Cmds
    BY <1>6 DEF RespondAtOnce, TypeInv, CmdInv, Busy
  <2>1. (AppsOK /\ CmdInv)'
    BY <1>6, <2>0 DEF RespondAtOnce, TypeInv, TypeOK, AppsOK, CmdInv, Busy, AppPcs, Goto,
       appVars
  <2>2. ServiceOK'
    BY <1>6, <2>0 DEF RespondAtOnce, TypeInv, TypeOK, ServiceOK, Respond, Cmds, Rsps
  <2> QED BY <1>6, <2>1, <2>2, EventsFrame, ManagerFrame, QueuesFrame, AdapterFrame,
             StackFrame, AssertsFrame DEF RespondAtOnce, TypeInv, TypeOK, appVars, evtVars
<1>7. CASE TakeResponse(a)
  <2>1. (AppsOK /\ CmdInv)'
    BY <1>7, Heads DEF TakeResponse, TypeInv, TypeOK, AppsOK, CmdInv, Busy, AppPcs, Goto
  <2>2. ServiceOK'
    BY <1>7, Heads DEF TakeResponse, TypeInv, TypeOK, ServiceOK
  <2> QED BY <1>7, <2>1, <2>2, EventsFrame, ManagerFrame, QueuesFrame, AdapterFrame,
             StackFrame, AssertsFrame DEF TakeResponse, TypeInv, TypeOK, appVars, evtVars
<1>8. CASE Release(a)
  <2>1. (AppsOK /\ CmdInv)'
    BY <1>8 DEF Release, TypeInv, TypeOK, AppsOK, CmdInv, Busy, AppPcs, Goto, appVars
  <2>2. AssertsOK'
    BY <1>8 DEF Release, TypeInv, TypeOK, AssertsOK
  <2> QED BY <1>8, <2>1, <2>2, EventsFrame, ServiceFrame, ManagerFrame, QueuesFrame,
             AdapterFrame, StackFrame DEF Release, TypeInv, TypeOK, appVars, evtVars
<1> QED BY <1>1, <1>2, <1>3, <1>4, <1>5, <1>6, <1>7, <1>8 DEF CommandStep

(* Steps that read the event list. *)
LEMMA TypeEvent == ASSUME TypeInv, NEW a \in Apps, EventStep(a) PROVE TypeInv'
<1>1. CASE GetEvent(a)
  <2>1. (AppsOK /\ CmdInv)'
    BY <1>1 DEF GetEvent, TypeInv, TypeOK, AppsOK, CmdInv, Busy, AppPcs, Goto, Outside,
       appVars
  <2>2. EventsOK'
    BY <1>1 DEF GetEvent, TypeInv, TypeOK, EventsOK, Bits, Outside, evtVars
  <2> QED BY <1>1, <2>1, <2>2, ServiceFrame, ManagerFrame, QueuesFrame, AdapterFrame,
             StackFrame, AssertsFrame DEF GetEvent, TypeInv, TypeOK, Outside, appVars,
             evtVars
<1>2. CASE FindEmpty(a)
  <2>1. (AppsOK /\ CmdInv)'
    BY <1>2 DEF FindEmpty, TypeInv, TypeOK, AppsOK, CmdInv, Busy, AppPcs, Goto, Outside,
       appVars
  <2>2. EventsOK'
    BY <1>2 DEF FindEmpty, TypeInv, TypeOK, EventsOK, Bits, Outside, evtVars
  <2> QED BY <1>2, <2>1, <2>2, ServiceFrame, ManagerFrame, QueuesFrame, AdapterFrame,
             StackFrame, AssertsFrame DEF FindEmpty, TypeInv, TypeOK, Outside, appVars,
             evtVars
<1>3. CASE PollNotification(a)
  <2>1. (AppsOK /\ CmdInv)'
    BY <1>3 DEF PollNotification, TypeInv, TypeOK, AppsOK, CmdInv, Busy, AppPcs, Goto,
       Outside, appVars
  <2>2. EventsOK'
    BY <1>3 DEF PollNotification, TypeInv, TypeOK, EventsOK, Bits, Outside, evtVars
  <2> QED BY <1>3, <2>1, <2>2, ServiceFrame, ManagerFrame, QueuesFrame, AdapterFrame,
             StackFrame, AssertsFrame DEF PollNotification, TypeInv, TypeOK, Outside,
             appVars, evtVars
<1>4. CASE PopNotified(a)
  <2>1. (AppsOK /\ CmdInv)'
    <3>1. CASE evtList # <<>>
      BY <1>4, <3>1 DEF PopNotified, TypeInv, TypeOK, AppsOK, CmdInv, Busy, AppPcs, Goto,
         Draining, Cmds, NoCmd, Outside
    <3>2. CASE evtList = <<>>
      BY <1>4, <3>2, AppsFrame DEF PopNotified, Outside, appVars
    <3> QED BY <3>1, <3>2
  <2>2. EventsOK'
    BY <1>4, Heads DEF PopNotified, TypeInv, TypeOK, EventsOK
  <2>3. AssertsOK'
    BY <1>4 DEF PopNotified, TypeInv, TypeOK, AssertsOK, Outside
  <2> QED BY <1>4, <2>1, <2>2, <2>3, ServiceFrame, ManagerFrame, QueuesFrame,
             AdapterFrame, StackFrame DEF PopNotified, TypeInv, TypeOK, Outside, appVars,
             evtVars
<1>5. CASE NothingToGet(a)
  <2>1. (AppsOK /\ CmdInv)'
    BY <1>5 DEF NothingToGet, TypeInv, TypeOK, AppsOK, CmdInv, Busy, AppPcs, Goto,
       Draining, Cmds, NoCmd, Outside, appVars
  <2>2. EventsOK'
    BY <1>5 DEF NothingToGet, TypeInv, TypeOK, EventsOK, Bits, Outside, evtVars
  <2> QED BY <1>5, <2>1, <2>2, ServiceFrame, ManagerFrame, QueuesFrame, AdapterFrame,
             StackFrame, AssertsFrame DEF NothingToGet, TypeInv, TypeOK, Outside, appVars,
             evtVars
<1>6. CASE StartReset(a)
  <2>0. cmd[a] \in Cmds /\ cmd[a].op = "reset"
    BY <1>6 DEF StartReset, TypeInv, CmdInv, Busy
  <2>1. (AppsOK /\ CmdInv)'
    BY <1>6, <2>0 DEF StartReset, TypeInv, TypeOK, AppsOK, CmdInv, Busy, AppPcs, Goto,
       Sending, Waiting, Outside, appVars
  <2>2. ServiceOK'
    BY <1>6, <2>0 DEF StartReset, TypeInv, TypeOK, ServiceOK, WaitqueueAdd, Cmds, Waiters,
       Waiting, Outside
  <2> QED BY <1>6, <2>1, <2>2, EventsFrame, ManagerFrame, QueuesFrame, AdapterFrame,
             StackFrame, AssertsFrame DEF StartReset, TypeInv, TypeOK, Outside, appVars,
             evtVars
<1> QED BY <1>1, <1>2, <1>3, <1>4, <1>5, <1>6 DEF EventStep

(* Steps of the loop of the registered application. *)
LEMMA TypeLoop == ASSUME TypeInv, LoopStep PROVE TypeInv'
<1>1. CASE EnterLoop
  <2>1. (AppsOK /\ CmdInv)'
    BY <1>1 DEF EnterLoop, TypeInv, TypeOK, AppsOK, CmdInv, Busy, AppPcs, Goto, Outside,
       appVars
  <2> QED BY <1>1, <2>1, EventsFrame, ServiceFrame, ManagerFrame, QueuesFrame,
             AdapterFrame, StackFrame, AssertsFrame DEF EnterLoop, TypeInv, TypeOK,
             Outside, appVars, evtVars
<1>2. CASE AppWake
  <2>1. (AppsOK /\ CmdInv)'
    BY <1>2 DEF AppWake, TypeInv, TypeOK, AppsOK, CmdInv, Busy, AppPcs, Goto, Outside,
       appVars
  <2>2. EventsOK'
    BY <1>2 DEF AppWake, TypeInv, TypeOK, EventsOK, Bits, Outside, evtVars
  <2> QED BY <1>2, <2>1, <2>2, ServiceFrame, ManagerFrame, QueuesFrame, AdapterFrame,
             StackFrame, AssertsFrame DEF AppWake, TypeInv, TypeOK, Outside, appVars,
             evtVars
<1>3. CASE EventHandled
  <2>1. (AppsOK /\ CmdInv)'
    BY <1>3 DEF EventHandled, TypeInv, TypeOK, AppsOK, CmdInv, Busy, AppPcs, Goto,
       Outside, appVars
  <2> QED BY <1>3, <2>1, EventsFrame, ServiceFrame, ManagerFrame, QueuesFrame,
             AdapterFrame, StackFrame, AssertsFrame DEF EventHandled, TypeInv, TypeOK,
             Outside, appVars, evtVars
<1>4. CASE CheckMore
  <2>1. (AppsOK /\ CmdInv)'
    BY <1>4 DEF CheckMore, TypeInv, TypeOK, AppsOK, CmdInv, Busy, AppPcs, Goto, Outside,
       appVars
  <2>2. EventsOK'
    <3>1. CASE EventLeft
      <4>1. notif' \in [Apps -> SUBSET Bits] /\ pend' \in [Apps -> BOOLEAN]
        BY <1>4, <3>1, Notified DEF CheckMore, Bits
      <4> QED BY <1>4, <4>1 DEF CheckMore, TypeInv, TypeOK, EventsOK
    <3>2. CASE ~EventLeft
      BY <1>4, <3>2 DEF CheckMore, TypeInv, TypeOK, EventsOK
    <3> QED BY <3>1, <3>2
  <2> QED BY <1>4, <2>1, <2>2, ServiceFrame, ManagerFrame, QueuesFrame, AdapterFrame,
             StackFrame, AssertsFrame DEF CheckMore, TypeInv, TypeOK, Outside, appVars,
             evtVars
<1> QED BY <1>1, <1>2, <1>3, <1>4 DEF LoopStep

(* Steps of the manager task. *)
LEMMA TypeManager == ASSUME TypeInv, MgrStep PROVE TypeInv'
<1>1. CASE MgrWake
  <2>1. CASE "evt" \in mgrNotif /\ adEvtQ # <<>>
    <3>1. ManagerOK'
      BY <1>1, <2>1, Heads, NoMsgIsNone DEF MgrWake, TypeInv, TypeOK, ManagerOK
    <3>2. QueuesOK'
      BY <1>1, <2>1, Heads DEF MgrWake, TypeInv, TypeOK, QueuesOK
    <3> QED BY <1>1, <3>1, <3>2, AppsFrame, EventsFrame, ServiceFrame, AdapterFrame,
               StackFrame, AssertsFrame DEF MgrWake, TypeInv, TypeOK, MgrOutside
  <2>2. CASE ~("evt" \in mgrNotif /\ adEvtQ # <<>>)
    <3>1. ManagerOK'
      BY <1>1, <2>2 DEF MgrWake, TypeInv, TypeOK, ManagerOK
    <3>2. QueuesOK'
      BY <1>1, <2>2 DEF MgrWake, TypeInv, TypeOK, QueuesOK
    <3> QED BY <1>1, <3>1, <3>2, AppsFrame, EventsFrame, ServiceFrame, AdapterFrame,
               StackFrame, AssertsFrame DEF MgrWake, TypeInv, TypeOK, MgrOutside
  <2> QED BY <2>1, <2>2
<1>2. CASE MgrIgnore
  <2>1. ManagerOK'
    BY <1>2 DEF MgrIgnore, TypeInv, TypeOK, ManagerOK, MgrOutside, mgrVars
  <2> QED BY <1>2, <2>1, AppsFrame, EventsFrame, ServiceFrame, QueuesFrame, AdapterFrame,
             StackFrame, AssertsFrame DEF MgrIgnore, TypeInv, TypeOK, MgrOutside, mgrVars
<1>3. CASE MgrComplete
  <2>0. mgrMsg \in AdEvts
    BY <1>3 DEF MgrComplete, TypeInv, TypeOK, ManagerOK
  <2>1. ManagerOK'
    BY <1>3, <2>0 DEF MgrComplete, TypeInv, TypeOK, ManagerOK, MgrOutside, mgrVars
  <2>2. ServiceOK'
    BY <1>3, <2>0 DEF MgrComplete, TypeInv, TypeOK, ServiceOK, Matching, Respond, AdEvts,
       Rsps, Waiters, Waiting, Ops, MgrOutside
  <2> QED BY <1>3, <2>1, <2>2, AppsFrame, EventsFrame, QueuesFrame, AdapterFrame,
             StackFrame, AssertsFrame DEF MgrComplete, TypeInv, TypeOK, MgrOutside,
             mgrVars
<1>4. CASE MgrPostEvent
  <2>0. mgrMsg \in AdEvts
    BY <1>4 DEF MgrPostEvent, TypeInv, TypeOK, ManagerOK
  <2>1. ManagerOK'
    BY <1>4, <2>0 DEF MgrPostEvent, TypeInv, TypeOK, ManagerOK, MgrOutside, mgrVars
  <2>2. EventsOK'
    <3>1. evtList' \in Seq(AdEvts)
      BY <1>4, <2>0, Put DEF MgrPostEvent, TypeInv, TypeOK, EventsOK
    <3>2. CASE appTask # NoTask
      <4>1. notif' \in [Apps -> SUBSET Bits] /\ pend' \in [Apps -> BOOLEAN]
        BY <1>4, <3>2, Notified DEF MgrPostEvent, Bits
      <4> QED BY <1>4, <3>1, <4>1 DEF MgrPostEvent, TypeInv, TypeOK, EventsOK
    <3>3. CASE appTask = NoTask
      BY <1>4, <3>1, <3>3 DEF MgrPostEvent, TypeInv, TypeOK, EventsOK
    <3> QED BY <3>2, <3>3
  <2> QED BY <1>4, <2>1, <2>2, AppsFrame, ServiceFrame, QueuesFrame, AdapterFrame,
             StackFrame, AssertsFrame DEF MgrPostEvent, TypeInv, TypeOK, MgrOutside,
             mgrVars
<1>5. CASE MgrReply
  <2>1. ManagerOK'
    BY <1>5 DEF MgrReply, TypeInv, TypeOK, ManagerOK, MgrOutside, mgrVars
  <2>2. QueuesOK'
    BY <1>5, SizesAssumption DEF MgrReply, TypeInv, TypeOK, QueuesOK, CmdSpace, AdCmds,
       Ids, MgrOutside
  <2> QED BY <1>5, <2>1, <2>2, AppsFrame, EventsFrame, ServiceFrame, AdapterFrame,
             StackFrame, AssertsFrame DEF MgrReply, TypeInv, TypeOK, MgrOutside, mgrVars
<1>6. CASE MgrNotifyAdapter
  <2>1. ManagerOK'
    BY <1>6 DEF MgrNotifyAdapter, TypeInv, TypeOK, ManagerOK, MgrOutside, mgrVars
  <2>2. QueuesOK'
    BY <1>6 DEF MgrNotifyAdapter, TypeInv, TypeOK, QueuesOK, MgrOutside
  <2> QED BY <1>6, <2>1, <2>2, AppsFrame, EventsFrame, ServiceFrame, AdapterFrame,
             StackFrame, AssertsFrame DEF MgrNotifyAdapter, TypeInv, TypeOK, MgrOutside,
             mgrVars
<1>7. CASE MgrMore
  <2>1. ManagerOK'
    BY <1>7 DEF MgrMore, TypeInv, TypeOK, ManagerOK, MgrOutside, mgrVars
  <2>2. QueuesOK'
    BY <1>7 DEF MgrMore, TypeInv, TypeOK, QueuesOK, LeftInQueue, MgrOutside
  <2> QED BY <1>7, <2>1, <2>2, AppsFrame, EventsFrame, ServiceFrame, AdapterFrame,
             StackFrame, AssertsFrame DEF MgrMore, TypeInv, TypeOK, MgrOutside, mgrVars
<1>8. CASE MgrUnblockAdapter
  <2>1. ManagerOK'
    BY <1>8 DEF MgrUnblockAdapter, TypeInv, TypeOK, ManagerOK, MgrOutside, mgrVars
  <2>2. QueuesOK'
    BY <1>8 DEF MgrUnblockAdapter, TypeInv, TypeOK, QueuesOK, SpaceAgain, MgrOutside
  <2> QED BY <1>8, <2>1, <2>2, AppsFrame, EventsFrame, ServiceFrame, AdapterFrame,
             StackFrame, AssertsFrame DEF MgrUnblockAdapter, TypeInv, TypeOK, MgrOutside,
             mgrVars
<1> QED BY <1>1, <1>2, <1>3, <1>4, <1>5, <1>6, <1>7, <1>8 DEF MgrStep

(* Steps of the adapter task. *)
LEMMA TypeAdapter == ASSUME TypeInv, AdStep PROVE TypeInv'
<1>1. CASE AdWake
  <2>1. AdapterOK'
    <3>1. CASE txDoneCb /\ Len(adEvtQ) < AdEvtQLen
      BY <1>1, <3>1 DEF AdWake, TypeInv, TypeOK, AdapterOK, QueuesOK
    <3>2. CASE ~(txDoneCb /\ Len(adEvtQ) < AdEvtQLen)
      BY <1>1, <3>2 DEF AdWake, TypeInv, TypeOK, AdapterOK, QueuesOK
    <3> QED BY <3>1, <3>2
  <2>2. QueuesOK'
    BY <1>1 DEF AdWake, TypeInv, TypeOK, QueuesOK, AdOutside
  <2> QED BY <1>1, <2>1, <2>2, AppsFrame, EventsFrame, ServiceFrame, ManagerFrame,
             StackFrame, AssertsFrame DEF AdWake, TypeInv, TypeOK, AdOutside, adVars,
             stackVars, sleepVars
<1>2. CASE AdCommand
  <2>1. CASE "cmd" \in adBits /\ adCmdQ # <<>>
    <3>1. Head(adCmdQ) \in AdCmds /\ Deliver(Head(adCmdQ))
      BY <1>2, <2>1, Heads DEF AdCommand
    <3>2. AdapterOK'
      BY <1>2, <3>1, Delivered DEF AdCommand, TypeInv, TypeOK, AdapterOK
    <3>3. QueuesOK'
      BY <1>2, <2>1, Heads DEF AdCommand, TypeInv, TypeOK, QueuesOK
    <3>4. wakeReq' \in BOOLEAN
      BY <1>2, <2>1 DEF AdCommand
    <3>5. StackOK'
      BY <1>2, <3>1, <3>4, Delivered DEF AdCommand, TypeInv, TypeOK, StackOK, AdOutside
    <3> QED BY <1>2, <3>2, <3>3, <3>5, AppsFrame, EventsFrame, ServiceFrame, ManagerFrame,
               AssertsFrame DEF AdCommand, TypeInv, TypeOK, AdOutside
  <2>2. CASE ~("cmd" \in adBits /\ adCmdQ # <<>>)
    <3>1. AdapterOK'
      BY <1>2, <2>2 DEF AdCommand, TypeInv, TypeOK, AdapterOK
    <3> QED BY <1>2, <2>2, <3>1, AppsFrame, EventsFrame, ServiceFrame, ManagerFrame,
               QueuesFrame, StackFrame, AssertsFrame
            DEF AdCommand, TypeInv, TypeOK, AdOutside, stackVars, sleepVars
  <2> QED BY <2>1, <2>2
<1>3. CASE AdPost
  <2>1. CASE Len(adEvtQ) < AdEvtQLen
    <3>1. Head(stackOut) \in AdEvts /\ Tail(stackOut) \in Seq(AdEvts)
      BY <1>3, Heads DEF AdPost, StackMayWrite
    <3>2. adEvtQ' \in Seq(AdEvts) /\ Len(adEvtQ') <= AdEvtQLen
      <4>1. adEvtQ' = Append(adEvtQ, Head(stackOut))
        BY <1>3, <2>1 DEF AdPost
      <4>2. adEvtQ \in Seq(AdEvts) /\ AdEvtQLen \in Nat
        BY SizesAssumption DEF TypeInv, TypeOK, QueuesOK
      <4> QED BY <2>1, <3>1, <4>1, <4>2, Put
    <3>3. QueuesOK'
      BY <1>3, <3>2 DEF AdPost, TypeInv, TypeOK, QueuesOK
    <3>4. AdapterOK'
      BY <1>3, <2>1 DEF AdPost, TypeInv, TypeOK, AdapterOK
    <3>5. StackOK'
      BY <1>3, <2>1, <3>1 DEF AdPost, TypeInv, TypeOK, StackOK, AdOutside, sleepVars
    <3> QED BY <1>3, <2>1, <3>3, <3>4, <3>5, AppsFrame, EventsFrame, ServiceFrame,
               ManagerFrame, AssertsFrame DEF AdPost, TypeInv, TypeOK, AdOutside
  <2>2. CASE ~(Len(adEvtQ) < AdEvtQLen)
    <3>1. AssertsOK'
      BY <1>3, <2>2 DEF AdPost, TypeInv, TypeOK, AssertsOK
    <3> QED BY <1>3, <2>2, <3>1, AppsFrame, EventsFrame, ServiceFrame, ManagerFrame,
               QueuesFrame, AdapterFrame, StackFrame
            DEF AdPost, TypeInv, TypeOK, AdOutside, adVars, stackVars
  <2> QED BY <2>1, <2>2
<1>4. CASE AdTxDone
  <2>1. AdapterOK'
    BY <1>4 DEF AdTxDone, TypeInv, TypeOK, AdapterOK, QueueFull, AdOutside, adVars
  <2>2. QueuesOK'
    BY <1>4 DEF AdTxDone, TypeInv, TypeOK, QueuesOK, QueueFull, AdOutside
  <2> QED BY <1>4, <2>1, <2>2, AppsFrame, EventsFrame, ServiceFrame, ManagerFrame,
             StackFrame, AssertsFrame DEF AdTxDone, TypeInv, TypeOK, AdOutside, adVars,
             stackVars, sleepVars
<1>5. CASE AdNextCommand
  <2>1. Head(adCmdQ) \in AdCmds /\ Deliver(Head(adCmdQ))
    BY <1>5, Heads DEF AdNextCommand
  <2>2. AdapterOK'
    BY <1>5, <2>1, Delivered DEF AdNextCommand, TypeInv, TypeOK, AdapterOK
  <2>3. QueuesOK'
    BY <1>5, Heads DEF AdNextCommand, TypeInv, TypeOK, QueuesOK
  <2>4. StackOK'
    BY <1>5, <2>1, Delivered DEF AdNextCommand, TypeInv, TypeOK, StackOK, AdOutside, sleepVars
  <2> QED BY <1>5, <2>2, <2>3, <2>4, AppsFrame, EventsFrame, ServiceFrame, ManagerFrame,
             AssertsFrame DEF AdNextCommand, TypeInv, TypeOK, AdOutside
<1>6. CASE AdPark
  <2>1. AdapterOK'
    BY <1>6 DEF AdPark, TypeInv, TypeOK, AdapterOK, AdOutside, adVars
  <2>2. StackOK'
    BY <1>6 DEF AdPark, TypeInv, TypeOK, StackOK, AdOutside, stackVars, sleepVars
  <2> QED BY <1>6, <2>1, <2>2, AppsFrame, EventsFrame, ServiceFrame, ManagerFrame,
             QueuesFrame, AssertsFrame DEF AdPark, TypeInv, TypeOK, AdOutside, adVars,
             stackVars, sleepVars
<1> QED BY <1>1, <1>2, <1>3, <1>4, <1>5, <1>6 DEF AdStep

(* The interrupts of the BLE core. *)
LEMMA TypeIsr == ASSUME TypeInv, IsrStep PROVE TypeInv'
<1>1. CASE WakeupIsr
  <2>1. StackOK'
    BY <1>1 DEF WakeupIsr, TypeInv, TypeOK, StackOK, IsrOutside, stackVars, sleepVars
  <2>2. QueuesOK'
    BY <1>1 DEF WakeupIsr, TypeInv, TypeOK, QueuesOK, IsrOutside
  <2> QED BY <1>1, <2>1, <2>2, AppsFrame, EventsFrame, ServiceFrame, ManagerFrame,
             AdapterFrame, AssertsFrame DEF WakeupIsr, TypeInv, TypeOK, IsrOutside,
             stackVars, sleepVars
<1>2. CASE AwakeIsr
  <2>1. StackOK'
    BY <1>2 DEF AwakeIsr, TypeInv, TypeOK, StackOK, IsrOutside, stackVars, sleepVars
  <2>2. QueuesOK'
    BY <1>2 DEF AwakeIsr, TypeInv, TypeOK, QueuesOK, IsrOutside
  <2> QED BY <1>2, <2>1, <2>2, AppsFrame, EventsFrame, ServiceFrame, ManagerFrame,
             AdapterFrame, AssertsFrame DEF AwakeIsr, TypeInv, TypeOK, IsrOutside,
             stackVars, sleepVars
<1> QED BY <1>1, <1>2 DEF IsrStep

(* Messages that the stack originates. *)
LEMMA TypeStack == ASSUME TypeInv, Answers \/ Indicates PROVE TypeInv'
<1>1. ASSUME NEW m \in stackPend, StackAnswer(m) PROVE TypeInv'
  <2>1. (IF m.op = "fire" THEN [op |-> "ind", id |-> 0] ELSE m) \in AdEvts
    BY SizesAssumption DEF TypeInv, TypeOK, StackOK, AdCmds, AdEvts, Ids, Waiting
  <2>2. stackOut' \in Seq(AdEvts)
    BY <1>1, <2>1, Put DEF StackAnswer, TypeInv, TypeOK, StackOK
  <2>3. StackOK'
    BY <1>1, <2>2 DEF StackAnswer, TypeInv, TypeOK, StackOK, sleepVars
  <2>4. QueuesOK'
    BY <1>1 DEF StackAnswer, TypeInv, TypeOK, QueuesOK, IsrOutside
  <2> QED BY <1>1, <2>3, <2>4, AppsFrame, EventsFrame, ServiceFrame, ManagerFrame,
             AdapterFrame, AssertsFrame DEF StackAnswer, TypeInv, TypeOK, IsrOutside
<1>2. ASSUME NEW op \in {"ind", "req"}, StackIndicate(op) PROVE TypeInv'
  <2>1. [op |-> op, id |-> 0] \in AdEvts
    BY SizesAssumption DEF AdEvts, Ids
  <2>2. stackOut' \in Seq(AdEvts)
    BY <1>2, <2>1, Put DEF StackIndicate, TypeInv, TypeOK, StackOK
  <2>3. StackOK'
    BY <1>2, <2>2, SizesAssumption DEF StackIndicate, TypeInv, TypeOK, StackOK, sleepVars
  <2>4. QueuesOK'
    BY <1>2 DEF StackIndicate, TypeInv, TypeOK, QueuesOK, IsrOutside
  <2> QED BY <1>2, <2>3, <2>4, AppsFrame, EventsFrame, ServiceFrame, ManagerFrame,
             AdapterFrame, AssertsFrame DEF StackIndicate, TypeInv, TypeOK, IsrOutside
<1> QED BY <1>1, <1>2 DEF Answers, Indicates

(* What the application decides. *)
LEMMA TypeChoice == ASSUME TypeInv, AppChoice PROVE TypeInv'
<1>1. CASE AppTimeout
  <2>1. EventsOK'
    BY <1>1 DEF AppTimeout, TypeInv, TypeOK, EventsOK, Bits, NotifyApp
  <2> QED BY <1>1, <2>1, AppsFrame, ServiceFrame, ManagerFrame, QueuesFrame, AdapterFrame,
             StackFrame, AssertsFrame DEF AppTimeout, TypeInv, TypeOK, Outside, appVars
<1>2. ASSUME NEW a \in Apps, NEW op \in Ops, Call(a, op) PROVE TypeInv'
  <2>1. nCmd + 1 \in Ids
    BY <1>2, SizesAssumption DEF Call, TypeInv, TypeOK, AppsOK, Ids
  <2>2. AppsOK'
    BY <1>2, <2>1 DEF Call, TypeInv, TypeOK, AppsOK, Cmds, AppPcs, Goto
  <2>3. CmdInv'
    BY <1>2, <2>1 DEF Call, TypeInv, TypeOK, AppsOK, CmdInv, Busy, Cmds, Goto
  <2> QED BY <1>2, <2>2, <2>3, EventsFrame, ServiceFrame, ManagerFrame, QueuesFrame,
             AdapterFrame, StackFrame, AssertsFrame DEF Call, TypeInv, TypeOK
<1> QED BY <1>1, <1>2 DEF AppChoice

(* A step that changes nothing. *)
LEMMA TypeStutter == ASSUME TypeInv, UNCHANGED vars PROVE TypeInv'
  BY AppsFrame, EventsFrame, ServiceFrame, ManagerFrame, QueuesFrame, AdapterFrame,
     StackFrame, AssertsFrame DEF vars, TypeInv, TypeOK

(* The type invariant holds initially and is preserved by every step. *)
LEMMA TypeInit == Init => TypeInv
<1> SUFFICES ASSUME Init PROVE TypeInv
  OBVIOUS
<1>1. AppsOK
  BY AppsAssumption, SizesAssumption DEF Init, AppsOK, AppPcs, Ids
<1>2. EventsOK
  <2>1. <<>> \in Seq(AdEvts)
    BY EmptySeq
  <2> QED BY <2>1 DEF Init, EventsOK
<1>6. ServiceOK
  <2>1. <<>> \in Seq(Rsps) /\ Len(<<>>) = 0
    BY EmptySeq
  <2>2. rspQ \in Seq(Rsps) /\ Len(rspQ) <= 1
    BY <2>1 DEF Init
  <2>3. waitq \in SUBSET Waiters /\ enabled \in BOOLEAN /\ resetting \in BOOLEAN
    BY DEF Init
  <2> QED BY <2>2, <2>3 DEF ServiceOK
<1>3. ManagerOK /\ QueuesOK
  BY SizesAssumption, NoMsgIsNone, EmptySeq DEF Init, ManagerOK, QueuesOK
<1>4. AdapterOK /\ AssertsOK
  BY DEF Init, AdapterOK, AssertsOK
<1>7. StackOK
  <2>1. <<>> \in Seq(AdEvts)
    BY EmptySeq
  <2>2. stackOut \in Seq(AdEvts) /\ nInd \in 0..MaxInds
    BY <2>1, SizesAssumption DEF Init
  <2>3. /\ sleep \in {"ACTIVE", "SLEEPING", "WAKING_UP"} /\ wakeReq \in BOOLEAN
        /\ stackPend \in SUBSET {m \in AdCmds : m.op \in {"fire", "cfg", "reset"}}
    BY DEF Init
  <2> QED BY <2>2, <2>3 DEF StackOK
<1>5. CmdInv
  BY DEF Init, CmdInv, Busy
<1> QED BY <1>1, <1>2, <1>3, <1>4, <1>5, <1>6, <1>7 DEF TypeInv, TypeOK

(* Every step of the system is a step of one of these kinds. *)
LEMMA TypeNext == TypeInv /\ [Next]_vars => TypeInv'
  BY TypeCommand, TypeEvent, TypeLoop, TypeManager, TypeAdapter, TypeIsr, TypeStack,
     TypeChoice, TypeStutter DEF Next

(***************************************************************************)
(* Every variable keeps its type in every behaviour; with it no bounded    *)
(* queue of the framework is ever longer than it was created.              *)
(***************************************************************************)
THEOREM TypeCorrect == Spec => []TypeOK
<1>1. TypeInv => TypeOK
  BY DEF TypeInv
<1> QED BY <1>1, TypeInit, TypeNext, PTL DEF Spec

-----------------------------------------------------------------------------
(***************************************************************************)
(* The invariant of an exchange.                                           *)
(***************************************************************************)

\* The interface is held exactly by a task that executes a command.
LockInv ==
  \A a \in Apps :
    /\ pc[a] \in Busy => ifLock = a
    /\ ifLock = a => \/ pc[a] \in Busy
                     \/ pc[a] \in {"empty", "got", "missed"} /\ cmd[a].op = "reset"

\* The command of task a has an element in the wait queue.
Waits(a) ==
  /\ cmd[a].op \in Waiting
  /\ pc[a] = "send" \/ (pc[a] \in {"notify", "wait"} /\ rspQ = <<>>)

\* A queue with no completion of a waiting command, and with that of c only.
Clear(q)      == \A i \in 1..Len(q) : q[i].op \notin Waiting
JustOne(q, c) == \E i \in 1..Len(q) :
                   q[i] = c /\ \A j \in (1..Len(q)) \ {i} : q[j].op \notin Waiting
ClearPend     == \A m \in stackPend : m.op \notin Waiting
OnePend(c)    == c \in stackPend /\ \A m \in stackPend \ {c} : m.op \notin Waiting
ClearMsg      == mgrMsg.op \notin Waiting

Quiet ==
  Clear(adCmdQ) /\ ClearPend /\ Clear(stackOut) /\ Clear(adEvtQ) /\ ClearMsg

\* The completion of c is in exactly one place, and no other is anywhere.
UnderWay(c) ==
  \/ JustOne(adCmdQ, c) /\ ClearPend /\ Clear(stackOut) /\ Clear(adEvtQ) /\ ClearMsg
  \/ Clear(adCmdQ) /\ OnePend(c) /\ Clear(stackOut) /\ Clear(adEvtQ) /\ ClearMsg
  \/ Clear(adCmdQ) /\ ClearPend /\ JustOne(stackOut, c) /\ Clear(adEvtQ) /\ ClearMsg
  \/ Clear(adCmdQ) /\ ClearPend /\ Clear(stackOut) /\ JustOne(adEvtQ, c) /\ ClearMsg
  \/ Clear(adCmdQ) /\ ClearPend /\ Clear(stackOut) /\ Clear(adEvtQ) /\ mgrMsg = c

Nobody ==
  /\ \A a \in Apps : ~Waits(a)
  /\ waitq = {} /\ ~resetting /\ Quiet

Somebody(a) ==
  /\ Waits(a)
  /\ waitq = {cmd[a]}
  /\ resetting => cmd[a].op = "reset"
  /\ IF pc[a] = "send" THEN Quiet ELSE UnderWay(cmd[a])

ExchangeInv == Nobody \/ \E a \in Apps : Somebody(a)

\* A response in the queue is the right one, and a task waits for it.
Awaited(a) == pc[a] = "wait" \/ (pc[a] = "notify" /\ cmd[a].op \in Waiting)
Own(a)     == [op |-> cmd[a].op, id |-> cmd[a].id, by |-> cmd[a].id]
ResponseInv ==
  /\ rspQ # <<>> => \E a \in Apps : Awaited(a) /\ rspQ[1] = Own(a)
  /\ \A a \in Apps : pc[a] = "wait" /\ cmd[a].op \notin Waiting => rspQ # <<>>
  /\ \A a \in Apps : pc[a] = "release" => rsp[a] = Own(a)

Inv == TypeInv /\ LockInv /\ ExchangeInv /\ ResponseInv

-----------------------------------------------------------------------------
(***************************************************************************)
(* Queues.                                                                 *)
(***************************************************************************)
(* Messages that complete nothing may be added anywhere. *)
LEMMA ClearAppend ==
  ASSUME NEW S, NEW q \in Seq(S), NEW x \in S, x.op \notin Waiting
  PROVE  /\ Clear(q) => Clear(Append(q, x))
         /\ \A c : JustOne(q, c) => JustOne(Append(q, x), c)
  BY Put DEF Clear, JustOne

(* A completion put into a queue without one is the only one there. *)
LEMMA OneAppend ==
  ASSUME NEW S, NEW q \in Seq(S), NEW x \in S, Clear(q)
  PROVE  JustOne(Append(q, x), x)
<1>1. \A j \in (1..Len(Append(q, x))) \ {Len(q) + 1} : Append(q, x)[j].op \notin Waiting
  BY Put DEF Clear
<1> QED BY <1>1, Put DEF JustOne

(* Taking from a queue without completions. *)
LEMMA ClearTail ==
  ASSUME NEW S, NEW q \in Seq(S), q # <<>>, Clear(q)
  PROVE  Clear(Tail(q)) /\ Head(q).op \notin Waiting
  BY Pop DEF Clear

(* Taking from a queue that holds one completion. *)
LEMMA OneTail ==
  ASSUME NEW S, NEW q \in Seq(S), q # <<>>, NEW c, JustOne(q, c)
  PROVE  \/ Head(q) = c /\ Clear(Tail(q))
         \/ Head(q).op \notin Waiting /\ JustOne(Tail(q), c)
<1>1. PICK i \in 1..Len(q) : q[i] = c /\ \A j \in (1..Len(q)) \ {i} : q[j].op \notin Waiting
  BY DEF JustOne
<1>2. CASE i = 1
  BY <1>1, <1>2, Pop DEF Clear
<1>3. CASE i # 1
  <2>1. i - 1 \in 1..Len(Tail(q)) /\ Tail(q)[i - 1] = c
    BY <1>1, <1>3, Pop
  <2>2. \A j \in (1..Len(Tail(q))) \ {i - 1} : Tail(q)[j].op \notin Waiting
    BY <1>1, Pop
  <2>3. Head(q).op \notin Waiting
    BY <1>1, <1>3, Pop
  <2> QED BY <2>1, <2>2, <2>3 DEF JustOne
<1> QED BY <1>2, <1>3

-----------------------------------------------------------------------------
(***************************************************************************)
(* The lock.                                                               *)
(***************************************************************************)
(* The other tasks, the interrupts and the stack never touch a caller. *)
LEMMA Unaware ==
  ASSUME AppTimeout \/ MgrStep \/ AdStep \/ IsrStep \/ Answers \/ Indicates \/ UNCHANGED vars
  PROVE  UNCHANGED <<ifLock, pc, cmd>>
<1>1. CASE AppTimeout
  BY <1>1 DEF AppTimeout, Outside
<1>2. CASE MgrStep
  BY <1>2 DEF MgrStep, MgrWake, MgrIgnore, MgrComplete, MgrPostEvent, MgrReply,
     MgrNotifyAdapter, MgrMore, MgrUnblockAdapter, MgrOutside, appVars
<1>3. CASE AdStep
  BY <1>3 DEF AdStep, AdWake, AdCommand, AdPost, AdTxDone, AdNextCommand, AdPark,
     AdOutside, appVars
<1>4. CASE IsrStep
  BY <1>4 DEF IsrStep, WakeupIsr, AwakeIsr, IsrOutside, appVars
<1>5. CASE Answers
  BY <1>5 DEF Answers, StackAnswer, IsrOutside, appVars
<1>6. CASE Indicates
  BY <1>6 DEF Indicates, StackIndicate, IsrOutside, appVars
<1>7. CASE UNCHANGED vars
  BY <1>7 DEF vars, appVars
<1> QED BY <1>1, <1>2, <1>3, <1>4, <1>5, <1>6, <1>7

(* The interface stays with the task that executes a command. *)
LEMMA LockNext == ASSUME TypeInv, LockInv, [Next]_vars PROVE LockInv'
<1>0. pc \in [Apps -> AppPcs] /\ cmd \in [Apps -> Cmds \cup {NoCmd}] /\ NoTask \notin Apps
  BY AppsAssumption DEF TypeInv, TypeOK, AppsOK
<1>1. ASSUME NEW a \in Apps, CommandStep(a) PROVE LockInv'
  <2>1. CASE Acquire(a)
    BY <1>0, <2>1 DEF Acquire, LockFree, LockInv, Busy, Goto
  <2>2. CASE Release(a)
    <3>1. back[a] \in {"start", "idle", "handle"}
      BY DEF TypeInv, TypeOK, AppsOK
    <3> QED BY <1>0, <2>2, <3>1 DEF Release, LockInv, Busy, Goto
  <2>3. CASE HandleImmediate(a) \/ HandleSending(a) \/ SendToAdapter(a)
    BY <1>0, <2>3 DEF HandleImmediate, HandleSending, SendToAdapter, LockInv, Busy, Goto
  <2>4. CASE NotifyAdapter(a) \/ RespondAtOnce(a) \/ TakeResponse(a)
    BY <1>0, <2>4 DEF NotifyAdapter, RespondAtOnce, TakeResponse, LockInv, Busy, Goto
  <2> QED BY <1>1, <2>1, <2>2, <2>3, <2>4 DEF CommandStep
<1>2. ASSUME NEW a \in Apps, EventStep(a) PROVE LockInv'
  <2>1. CASE GetEvent(a)
    BY <1>0, <2>1 DEF GetEvent, Outside, LockInv, Busy, Goto
  <2>2. CASE FindEmpty(a)
    <3>1. pc[a] = "drain" => cmd[a].op = "reset"
      BY DEF TypeInv, CmdInv
    <3> QED BY <1>0, <2>2, <3>1 DEF FindEmpty, Outside, LockInv, Busy, Goto
  <2>3. CASE PollNotification(a)
    BY <1>0, <2>3 DEF PollNotification, Outside, LockInv, Busy, Goto
  <2>4. CASE PopNotified(a)
    <3>1. CASE evtList # <<>>
      BY <1>0, <2>4, <3>1 DEF PopNotified, Draining, Outside, LockInv, Busy, Goto
    <3>2. CASE evtList = <<>>
      BY <2>4, <3>2 DEF PopNotified, Outside, LockInv, Goto
    <3> QED BY <3>1, <3>2
  <2>5. CASE NothingToGet(a)
    BY <1>0, <2>5 DEF NothingToGet, Draining, Outside, LockInv, Busy, Goto
  <2>6. CASE StartReset(a)
    BY <1>0, <2>6 DEF StartReset, Outside, LockInv, Busy, Goto
  <2> QED BY <1>2, <2>1, <2>2, <2>3, <2>4, <2>5, <2>6 DEF EventStep
<1>3. ASSUME LoopStep PROVE LockInv'
  BY <1>0, <1>3 DEF LoopStep, EnterLoop, AppWake, EventHandled, CheckMore, Outside,
     LockInv, Busy, Goto
<1>4. ASSUME NEW a \in Apps, NEW op \in Ops, Call(a, op) PROVE LockInv'
  BY <1>0, <1>4 DEF Call, LockInv, Busy, Goto
<1>5. ASSUME UNCHANGED <<ifLock, pc, cmd>> PROVE LockInv'
  BY <1>5 DEF LockInv
<1> QED BY <1>1, <1>2, <1>3, <1>4, <1>5, Unaware DEF Next, AppChoice

-----------------------------------------------------------------------------
(***************************************************************************)
(* The exchange.                                                           *)
(***************************************************************************)
(* A task in the middle of an exchange holds the lock, so there is one. *)
LEMMA OneExchange ==
  ASSUME TypeInv, LockInv, NEW a \in Apps, NEW b \in Apps, Waits(b), ifLock = a
  PROVE  a = b
  BY DEF LockInv, Waits, Busy

(* Who holds the lock at another place than the end of an exchange has none. *)
LEMMA NoExchange ==
  ASSUME TypeInv, LockInv, ExchangeInv, NEW a \in Apps, ifLock = a, ~Waits(a)
  PROVE  Nobody
  BY OneExchange DEF ExchangeInv, Somebody

(* What waits is a command with an element in the wait queue. *)
LEMMA WaiterTyped ==
  ASSUME TypeInv, NEW a \in Apps, Waits(a)
  PROVE  cmd[a] \in Waiters
  BY DEF TypeInv, TypeOK, AppsOK, Waits, Cmds, NoCmd, Waiters, Waiting

(* Steps of the tasks that carry messages keep the exchange as it is. *)
LEMMA Carried ==
  ASSUME TypeInv, ExchangeInv, UNCHANGED <<pc, cmd, rspQ, waitq, resetting>>,
         Quiet => Quiet', \A c \in Waiters : UnderWay(c) => UnderWay(c)'
  PROVE  ExchangeInv'
<1>1. CASE Nobody
  BY <1>1 DEF Nobody, Waits, ExchangeInv
<1>2. ASSUME NEW a \in Apps, Somebody(a) PROVE ExchangeInv'
  <2>1. cmd[a] \in Waiters
    BY <1>2, WaiterTyped DEF Somebody
  <2>2. Somebody(a)'
    BY <1>2, <2>1 DEF Somebody, Waits
  <2> QED BY <2>2 DEF ExchangeInv
<1> QED BY <1>1, <1>2 DEF ExchangeInv

(* A command goes from the adapter's queue to the stack. *)
LEMMA DeliverCarries ==
  ASSUME TypeInv, adCmdQ # <<>>, Deliver(Head(adCmdQ)), adCmdQ' = Tail(adCmdQ),
         UNCHANGED <<adEvtQ, mgrMsg>>
  PROVE  (Quiet => Quiet') /\ \A c \in Waiters : UnderWay(c) => UnderWay(c)'
<1> DEFINE m == Head(adCmdQ)
<1>0. /\ adCmdQ \in Seq(AdCmds) /\ stackOut \in Seq(AdEvts) /\ m \in AdCmds
      /\ m.op = "enable" => m \in AdEvts
  BY Heads DEF TypeInv, TypeOK, QueuesOK, StackOK, AdCmds, AdEvts, Waiting
<1>1. ASSUME Clear(adCmdQ)
      PROVE  /\ Clear(adCmdQ') /\ m.op \notin Waiting /\ stackOut' = stackOut
             /\ ClearPend => ClearPend'
             /\ \A c : c.op \in Waiting /\ OnePend(c) => OnePend(c)'
  <2>1. Clear(Tail(adCmdQ)) /\ m.op \notin Waiting
    BY <1>0, <1>1, ClearTail
  <2>2. stackOut' = stackOut /\ (stackPend' = stackPend \/ stackPend' = stackPend \cup {m})
    BY <2>1 DEF Deliver, Waiting
  <2> QED BY <2>1, <2>2 DEF ClearPend, OnePend
<1>2. Quiet => Quiet'
  BY <1>1 DEF Quiet, ClearMsg, Clear
<1>3. ASSUME NEW c \in Waiters, UnderWay(c) PROVE UnderWay(c)'
  <2>0. c.op \in Waiting
    BY DEF Waiters
  <2>1. CASE Clear(adCmdQ)
    <3>1. ~JustOne(adCmdQ, c)
      BY <2>0, <2>1 DEF Clear, JustOne
    <3> QED BY <1>1, <1>3, <2>0, <2>1, <3>1 DEF UnderWay, ClearMsg, Clear, JustOne
  <2>2. CASE JustOne(adCmdQ, c)
    <3>0. ClearPend /\ Clear(stackOut) /\ Clear(adEvtQ) /\ ClearMsg
      BY <1>3, <2>0, <2>2 DEF UnderWay, Clear, JustOne
    <3>1. CASE m = c /\ Clear(Tail(adCmdQ))
      <4>1. CASE c.op = "enable"
        <5>1. stackOut' = Append(stackOut, c) /\ stackPend' = stackPend
          BY <3>1, <4>1 DEF Deliver
        <5>2. JustOne(stackOut', c)
          BY <1>0, <3>0, <3>1, <4>1, <5>1, OneAppend
        <5> QED BY <3>0, <3>1, <5>1, <5>2 DEF UnderWay, ClearPend, ClearMsg, Clear
      <4>2. CASE c.op = "cfg"
        <5>1. stackOut' = stackOut /\ stackPend' = stackPend \cup {c}
          BY <3>1, <4>2 DEF Deliver
        <5> QED BY <3>0, <3>1, <5>1 DEF UnderWay, ClearPend, OnePend, ClearMsg, Clear
      <4>3. CASE c.op = "reset"
        <5>1. stackOut' = stackOut /\ stackPend' = {c}
          BY <3>1, <4>3 DEF Deliver
        <5> QED BY <3>0, <3>1, <5>1 DEF UnderWay, OnePend, ClearMsg, Clear
      <4> QED BY <2>0, <4>1, <4>2, <4>3 DEF Waiting
    <3>2. CASE m.op \notin Waiting /\ JustOne(Tail(adCmdQ), c)
      <4>1. stackOut' = stackOut /\ (stackPend' = stackPend \/ stackPend' = stackPend \cup {m})
        BY <3>2 DEF Deliver, Waiting
      <4> QED BY <3>0, <3>2, <4>1 DEF UnderWay, ClearPend, ClearMsg, Clear
    <3> QED BY <1>0, <2>2, <3>1, <3>2, OneTail
  <2> QED BY <1>3, <2>1, <2>2 DEF UnderWay
<1> QED BY <1>2, <1>3

(* The adapter moves messages and loses none. *)
LEMMA AdapterCarries == ASSUME TypeInv, ExchangeInv, AdStep PROVE ExchangeInv'
<1>0. UNCHANGED <<pc, cmd, rspQ, waitq, resetting, mgrMsg>>
  BY DEF AdStep, AdWake, AdCommand, AdPost, AdTxDone, AdNextCommand, AdPark, AdOutside,
     appVars, mgrVars
<1>1. CASE AdWake \/ AdTxDone \/ AdPark
  <2>1. UNCHANGED <<adCmdQ, stackPend, stackOut, adEvtQ>>
    BY <1>1 DEF AdWake, AdTxDone, AdPark
  <2> QED BY <1>0, <2>1, Carried DEF Quiet, UnderWay, ClearPend, OnePend, ClearMsg, Clear, JustOne
<1>2. CASE AdCommand
  <2>1. CASE "cmd" \in adBits /\ adCmdQ # <<>>
    BY <1>0, <1>2, <2>1, Carried, DeliverCarries DEF AdCommand
  <2>2. CASE ~("cmd" \in adBits /\ adCmdQ # <<>>)
    <3>1. UNCHANGED <<adCmdQ, stackPend, stackOut, adEvtQ>>
      BY <1>2, <2>2 DEF AdCommand
    <3> QED BY <1>0, <3>1, Carried DEF Quiet, UnderWay, ClearPend, OnePend, ClearMsg, Clear, JustOne
  <2> QED BY <2>1, <2>2
<1>3. CASE AdPost
  <2>1. CASE Len(adEvtQ) < AdEvtQLen
    <3>1. /\ adEvtQ' = Append(adEvtQ, Head(stackOut)) /\ stackOut' = Tail(stackOut)
          /\ stackOut # <<>> /\ UNCHANGED <<adCmdQ, stackPend>>
      BY <1>3, <2>1 DEF AdPost, StackMayWrite
    <3>2. /\ adEvtQ \in Seq(AdEvts) /\ stackOut \in Seq(AdEvts) /\ Head(stackOut) \in AdEvts
      BY <3>1, Heads DEF TypeInv, TypeOK, QueuesOK, StackOK
    <3>3. Quiet => Quiet'
      BY <1>0, <3>1, <3>2, ClearTail, ClearAppend DEF Quiet, ClearPend, ClearMsg, Clear
    <3>4. ASSUME NEW c \in Waiters, UnderWay(c) PROVE UnderWay(c)'
      <4>1. CASE Clear(stackOut)
        <5>1. Clear(stackOut') /\ Head(stackOut).op \notin Waiting
          BY <3>1, <3>2, <4>1, ClearTail
        <5>2. /\ Clear(adEvtQ) => Clear(adEvtQ')
              /\ JustOne(adEvtQ, c) => JustOne(adEvtQ', c)
          BY <3>1, <3>2, <5>1, ClearAppend
        <5>3. ~JustOne(stackOut, c)
          BY <4>1 DEF Clear, JustOne, Waiters
        <5>4. UNCHANGED <<adCmdQ, stackPend, mgrMsg>>
          BY <1>0, <3>1
        <5> QED BY <3>4, <5>1, <5>2, <5>3, <5>4
                DEF UnderWay, ClearPend, OnePend, ClearMsg
      <4>2. CASE JustOne(stackOut, c)
        <5>1. Clear(adCmdQ) /\ ClearPend /\ Clear(adEvtQ) /\ ClearMsg
          BY <3>4, <4>2 DEF UnderWay, Clear, JustOne, Waiters
        <5>2. Clear(adCmdQ)' /\ ClearPend' /\ ClearMsg'
          BY <1>0, <3>1, <5>1 DEF Clear, ClearPend, ClearMsg
        <5>3. CASE Head(stackOut) = c /\ Clear(Tail(stackOut))
          BY <3>1, <3>2, <5>1, <5>2, <5>3, OneAppend DEF UnderWay
        <5>4. CASE Head(stackOut).op \notin Waiting /\ JustOne(Tail(stackOut), c)
          BY <3>1, <3>2, <5>1, <5>2, <5>4, ClearAppend DEF UnderWay
        <5> QED BY <3>1, <3>2, <4>2, <5>3, <5>4, OneTail
      <4> QED BY <3>4, <4>1, <4>2 DEF UnderWay
    <3> QED BY <1>0, <3>3, <3>4, Carried
  <2>2. CASE ~(Len(adEvtQ) < AdEvtQLen)
    <3>1. UNCHANGED <<adCmdQ, stackPend, stackOut, adEvtQ>>
      BY <1>3, <2>2 DEF AdPost
    <3> QED BY <1>0, <3>1, Carried DEF Quiet, UnderWay, ClearPend, OnePend, ClearMsg, Clear, JustOne
  <2> QED BY <2>1, <2>2
<1>4. CASE AdNextCommand
  BY <1>0, <1>4, Carried, DeliverCarries DEF AdNextCommand
<1> QED BY <1>1, <1>2, <1>3, <1>4 DEF AdStep

(* The stack answers each command once, and its indications complete nothing. *)
LEMMA StackCarries ==
  ASSUME TypeInv, ExchangeInv, Answers \/ Indicates \/ IsrStep PROVE ExchangeInv'
<1>0. stackOut \in Seq(AdEvts)
  BY DEF TypeInv, TypeOK, StackOK
<1>1. ASSUME NEW m \in stackPend, StackAnswer(m) PROVE ExchangeInv'
  <2> DEFINE x == IF m.op = "fire" THEN [op |-> "ind", id |-> 0] ELSE m
  <2>1. /\ stackPend' = stackPend \ {m} /\ stackOut' = Append(stackOut, x)
        /\ UNCHANGED <<pc, cmd, rspQ, waitq, resetting, adCmdQ, adEvtQ, mgrMsg>>
    BY <1>1 DEF StackAnswer, IsrOutside, appVars, mgrVars
  <2>2. x \in AdEvts /\ (m.op \notin Waiting => x.op \notin Waiting) /\ (m.op \in Waiting => x = m)
    BY SizesAssumption DEF TypeInv, TypeOK, StackOK, AdCmds, AdEvts, Ids, Waiting
  <2>3. Quiet => Quiet'
    BY <1>0, <2>1, <2>2, ClearAppend DEF Quiet, ClearPend, ClearMsg, Clear
  <2>4. ASSUME NEW c \in Waiters, UnderWay(c) PROVE UnderWay(c)'
    <3>0. c.op \in Waiting
      BY DEF Waiters
    <3>1. CASE m.op \notin Waiting
      <4>1. /\ Clear(stackOut) => Clear(stackOut')
            /\ JustOne(stackOut, c) => JustOne(stackOut', c)
        BY <1>0, <2>1, <2>2, <3>1, ClearAppend
      <4>2. (ClearPend => ClearPend') /\ (OnePend(c) => OnePend(c)')
        BY <2>1, <3>0, <3>1 DEF ClearPend, OnePend
      <4> QED BY <2>1, <2>4, <4>1, <4>2 DEF UnderWay, Clear, JustOne, ClearMsg
    <3>2. CASE m.op \in Waiting
      <4>1. OnePend(c) /\ m = c
        BY <2>4, <3>2 DEF UnderWay, ClearPend, OnePend
      <4>2. Clear(adCmdQ) /\ Clear(stackOut) /\ Clear(adEvtQ) /\ ClearMsg
        BY <2>4, <3>2 DEF UnderWay, ClearPend
      <4>3. ClearPend'
        BY <2>1, <4>1 DEF ClearPend, OnePend
      <4>4. JustOne(stackOut', c)
        BY <1>0, <2>1, <2>2, <3>2, <4>1, <4>2, OneAppend
      <4> QED BY <2>1, <4>2, <4>3, <4>4 DEF UnderWay, Clear, ClearMsg
    <3> QED BY <3>1, <3>2
  <2> QED BY <2>1, <2>3, <2>4, Carried
<1>2. ASSUME NEW op \in {"ind", "req"}, StackIndicate(op) PROVE ExchangeInv'
  <2> DEFINE x == [op |-> op, id |-> 0]
  <2>1. /\ stackOut' = Append(stackOut, x)
        /\ UNCHANGED <<pc, cmd, rspQ, waitq, resetting, adCmdQ, stackPend, adEvtQ, mgrMsg>>
    BY <1>2 DEF StackIndicate, IsrOutside, appVars, mgrVars
  <2>2. x \in AdEvts /\ x.op \notin Waiting
    BY SizesAssumption DEF AdEvts, Ids, Waiting
  <2>3. (Clear(stackOut) => Clear(stackOut')) /\ \A c : JustOne(stackOut, c) => JustOne(stackOut', c)
    BY <1>0, <2>1, <2>2, ClearAppend
  <2>4. Quiet => Quiet'
    BY <2>1, <2>3 DEF Quiet, Clear, ClearPend, ClearMsg
  <2>5. ASSUME NEW c \in Waiters, UnderWay(c) PROVE UnderWay(c)'
    BY <2>1, <2>3, <2>5 DEF UnderWay, Clear, JustOne, ClearPend, OnePend, ClearMsg
  <2> QED BY <2>1, <2>4, <2>5, Carried
<1>3. CASE IsrStep
  <2>1. UNCHANGED <<pc, cmd, rspQ, waitq, resetting, adCmdQ, stackPend, stackOut, adEvtQ, mgrMsg>>
    BY <1>3 DEF IsrStep, WakeupIsr, AwakeIsr, IsrOutside, stackVars, appVars, mgrVars
  <2> QED BY <2>1, Carried DEF Quiet, UnderWay, ClearPend, OnePend, ClearMsg, Clear, JustOne
<1> QED BY <1>1, <1>2, <1>3 DEF Answers, Indicates

(* The manager takes one message at a time and completes what it waits for. *)
LEMMA ManagerCarries ==
  ASSUME TypeInv, LockInv, ExchangeInv, MgrStep PROVE ExchangeInv'
<1>0. /\ adCmdQ \in Seq(AdCmds) /\ adEvtQ \in Seq(AdEvts) /\ waitq \in SUBSET Waiters
      /\ NoMsg.op \notin Waiting
  BY DEF TypeInv, TypeOK, QueuesOK, ServiceOK, NoMsg, NoCmd, Waiting
<1>1. CASE MgrWake
  <2>0. UNCHANGED <<pc, cmd, rspQ, waitq, resetting, adCmdQ, stackPend, stackOut>>
    BY <1>1 DEF MgrWake, MgrOutside, appVars, stackVars
  <2>1. CASE "evt" \in mgrNotif /\ adEvtQ # <<>>
    <3>1. /\ mgrMsg' = Head(adEvtQ) /\ adEvtQ' = Tail(adEvtQ) /\ ClearMsg
      BY <1>0, <1>1, <2>1 DEF MgrWake, TypeInv, TypeOK, ManagerOK, ClearMsg
    <3>2. Clear(adEvtQ) => Clear(adEvtQ') /\ ClearMsg'
      BY <1>0, <2>1, <3>1, ClearTail DEF ClearMsg
    <3>3. Quiet => Quiet'
      BY <2>0, <3>2 DEF Quiet, Clear, ClearPend
    <3>4. ASSUME NEW c \in Waiters, UnderWay(c) PROVE UnderWay(c)'
      <4>0. ~(mgrMsg = c)
        BY <3>1 DEF ClearMsg, Waiters
      <4>1. CASE Clear(adEvtQ)
        <5>1. ~JustOne(adEvtQ, c)
          BY <4>1 DEF Clear, JustOne, Waiters
        <5> QED BY <2>0, <3>2, <3>4, <4>0, <4>1, <5>1
                DEF UnderWay, Clear, JustOne, ClearPend, OnePend
      <4>2. CASE JustOne(adEvtQ, c)
        <5>1. Clear(adCmdQ) /\ ClearPend /\ Clear(stackOut)
          BY <3>4, <4>2 DEF UnderWay, Clear, JustOne, Waiters
        <5>2. Clear(adCmdQ)' /\ ClearPend' /\ Clear(stackOut)'
          BY <2>0, <5>1 DEF Clear, ClearPend
        <5>3. CASE Head(adEvtQ) = c /\ Clear(Tail(adEvtQ))
          BY <3>1, <5>2, <5>3 DEF UnderWay
        <5>4. CASE Head(adEvtQ).op \notin Waiting /\ JustOne(Tail(adEvtQ), c)
          BY <3>1, <5>2, <5>4 DEF UnderWay, ClearMsg
        <5> QED BY <1>0, <2>1, <4>2, <5>3, <5>4, OneTail
      <4> QED BY <3>4, <4>1, <4>2 DEF UnderWay
    <3> QED BY <2>0, <3>3, <3>4, Carried
  <2>2. CASE ~("evt" \in mgrNotif /\ adEvtQ # <<>>)
    <3>1. UNCHANGED <<mgrMsg, adEvtQ>>
      BY <1>1, <2>2 DEF MgrWake
    <3> QED BY <2>0, <3>1, Carried DEF Quiet, UnderWay, ClearPend, OnePend, ClearMsg, Clear, JustOne
  <2> QED BY <2>1, <2>2
<1>2. CASE MgrIgnore
  <2>0. /\ UNCHANGED <<pc, cmd, rspQ, waitq, resetting, adCmdQ, stackPend, stackOut, adEvtQ>>
        /\ mgrMsg' = NoMsg
    BY <1>2 DEF MgrIgnore, MgrOutside, appVars, stackVars
  <2>1. CASE Nobody
    BY <1>0, <2>0, <2>1 DEF ExchangeInv, Nobody, Waits, Quiet, Clear, ClearPend, ClearMsg
  <2>2. ASSUME NEW a \in Apps, Somebody(a) PROVE ExchangeInv'
    <3>1. cmd[a] \in Waiters
      BY <2>2, WaiterTyped DEF Somebody
    <3>2. mgrMsg # cmd[a]
      BY <1>2, <2>2, <3>1 DEF MgrIgnore, Ignored, Matching, Somebody, Waiters
    <3>3. Somebody(a)'
      <4>1. Quiet => Quiet'
        BY <1>0, <2>0 DEF Quiet, Clear, ClearPend, ClearMsg
      <4>2. UnderWay(cmd[a]) => UnderWay(cmd[a])'
        BY <1>0, <2>0, <3>2 DEF UnderWay, Clear, JustOne, ClearPend, OnePend, ClearMsg
      <4> QED BY <2>0, <2>2, <4>1, <4>2 DEF Somebody, Waits
    <3> QED BY <3>3 DEF ExchangeInv
  <2> QED BY <2>1, <2>2 DEF ExchangeInv
<1>3. CASE MgrComplete
  <2>1. PICK w \in Matching(mgrMsg) : waitq' = waitq \ {w} /\ Respond(w, mgrMsg.id)
    BY <1>3 DEF MgrComplete
  <2>2. /\ UNCHANGED <<pc, cmd, adCmdQ, stackPend, stackOut, adEvtQ>> /\ mgrMsg' = NoMsg
        /\ resetting' = (resetting /\ mgrMsg.op # "reset")
    BY <1>3 DEF MgrComplete, MgrOutside, appVars, stackVars
  <2>3. w \in waitq /\ w.op = mgrMsg.op /\ w.op \in Waiting
    BY <1>0, <2>1 DEF Matching, Waiters
  <2>4. PICK a \in Apps : Somebody(a)
    BY <2>3 DEF ExchangeInv, Nobody
  <2>5. pc[a] # "send" /\ mgrMsg = cmd[a] /\ w = cmd[a]
    BY <2>3, <2>4 DEF Somebody, Quiet, UnderWay, ClearMsg
  <2>6. /\ Clear(adCmdQ) /\ ClearPend /\ Clear(stackOut) /\ Clear(adEvtQ)
    BY <2>3, <2>4, <2>5 DEF Somebody, UnderWay, ClearMsg
  <2>7. Quiet'
    BY <1>0, <2>2, <2>6 DEF Quiet, Clear, ClearPend, ClearMsg
  <2>8. waitq' = {} /\ ~resetting'
    BY <2>1, <2>2, <2>4, <2>5 DEF Somebody
  <2>9. \A b \in Apps : ~Waits(b)'
    <3>1. rspQ' # <<>>
      BY <2>1 DEF Respond, TypeInv, TypeOK, ServiceOK
    <3>2. ifLock = a
      BY <2>4 DEF Somebody, Waits, LockInv, Busy
    <3>3. \A b \in Apps : pc[b] # "send"
      BY <2>5, <3>2 DEF LockInv, Busy
    <3> QED BY <2>2, <3>1, <3>3 DEF Waits
  <2> QED BY <2>7, <2>8, <2>9 DEF ExchangeInv, Nobody
<1>4. CASE MgrPostEvent \/ MgrReply \/ MgrNotifyAdapter \/ MgrMore \/ MgrUnblockAdapter
  <2>0. UNCHANGED <<pc, cmd, rspQ, waitq, resetting, stackPend, stackOut, adEvtQ>>
    BY <1>4 DEF MgrPostEvent, MgrReply, MgrNotifyAdapter, MgrMore, MgrUnblockAdapter,
       MgrOutside, appVars, stackVars
  <2>1. mgrMsg' = mgrMsg \/ (mgrMsg.op \notin Waiting /\ mgrMsg' = NoMsg)
    BY <1>4 DEF MgrPostEvent, MgrReply, MgrNotifyAdapter, MgrMore, MgrUnblockAdapter, Waiting
  <2>2. (ClearMsg => ClearMsg') /\ \A c \in Waiters : mgrMsg = c => mgrMsg' = c
    BY <1>0, <2>1 DEF ClearMsg, Waiters
  <2>3. (Clear(adCmdQ) => Clear(adCmdQ')) /\ \A c : JustOne(adCmdQ, c) => JustOne(adCmdQ', c)
    <3>1. CASE MgrReply
      <4> DEFINE x == [op |-> "auto", id |-> 0]
      <4>1. x \in AdCmds /\ x.op \notin Waiting
        BY SizesAssumption DEF AdCmds, Ids, Waiting
      <4> QED BY <1>0, <3>1, <4>1, ClearAppend DEF MgrReply
    <3>2. CASE ~MgrReply
      BY <1>4, <3>2 DEF MgrPostEvent, MgrNotifyAdapter, MgrMore, MgrUnblockAdapter
    <3> QED BY <3>1, <3>2
  <2>4. Quiet => Quiet'
    BY <2>0, <2>2, <2>3 DEF Quiet, Clear, ClearPend
  <2>5. ASSUME NEW c \in Waiters, UnderWay(c) PROVE UnderWay(c)'
    BY <2>0, <2>2, <2>3, <2>5 DEF UnderWay, Clear, JustOne, ClearPend, OnePend
  <2> QED BY <2>0, <2>4, <2>5, Carried
<1> QED BY <1>1, <1>2, <1>3, <1>4 DEF MgrStep

(* A step of the application that is not part of an exchange. *)
LEMMA Apart ==
  ASSUME TypeInv, ExchangeInv, NEW a \in Apps, ~Waits(a), ~Waits(a)',
         \A b \in Apps \ {a} : pc'[b] = pc[b] /\ cmd'[b] = cmd[b],
         UNCHANGED <<rspQ, waitq, resetting, adCmdQ, stackPend, stackOut, adEvtQ, mgrMsg>>
  PROVE  ExchangeInv'
<1>1. (Quiet => Quiet') /\ \A c : UnderWay(c) => UnderWay(c)'
  BY DEF Quiet, UnderWay, Clear, JustOne, ClearPend, OnePend, ClearMsg
<1>2. CASE Nobody
  BY <1>1, <1>2 DEF Nobody, Waits, ExchangeInv
<1>3. ASSUME NEW b \in Apps, Somebody(b) PROVE ExchangeInv'
  <2>1. b # a
    BY <1>3 DEF Somebody
  <2>2. Somebody(b)'
    BY <1>1, <1>3, <2>1 DEF Somebody, Waits
  <2> QED BY <2>2 DEF ExchangeInv
<1> QED BY <1>2, <1>3 DEF ExchangeInv

(* Without an exchange, a task that holds the lock starts none by a step that *)
(* leaves it at a place where it waits for nothing.                          *)
LEMMA StillNobody ==
  ASSUME TypeInv, LockInv, Nobody, NEW a \in Apps, ifLock = a, ~Waits(a)',
         \A b \in Apps \ {a} : pc'[b] = pc[b],
         UNCHANGED <<cmd, waitq, resetting>>, Quiet'
  PROVE  ExchangeInv'
<1>1. \A b \in Apps \ {a} : pc[b] \notin Busy
  BY DEF LockInv
<1>2. \A b \in Apps : ~Waits(b)'
  BY <1>1 DEF Waits, Busy
<1> QED BY <1>2 DEF Nobody, ExchangeInv

(* A handler that waits for a completion begins an exchange. *)
LEMMA BeginExchange ==
  ASSUME TypeInv, Nobody, NEW a \in Apps, cmd[a].op \in Waiting,
         WaitqueueAdd(cmd[a]), pc' = [pc EXCEPT ![a] = "send"],
         resetting' => cmd[a].op = "reset",
         UNCHANGED <<cmd, adCmdQ, stackPend, stackOut, adEvtQ, mgrMsg>>
  PROVE  ExchangeInv'
<1>1. pc'[a] = "send" /\ waitq' = {cmd[a]}
  BY DEF TypeInv, TypeOK, AppsOK, Nobody, WaitqueueAdd
<1>2. Quiet'
  BY DEF Nobody, Quiet, Clear, ClearPend, ClearMsg
<1> QED BY <1>1, <1>2 DEF Somebody, Waits, ExchangeInv

(* A task that waits is the one of the exchange. *)
LEMMA Mine ==
  ASSUME TypeInv, LockInv, ExchangeInv, NEW a \in Apps, Waits(a)
  PROVE  Somebody(a)
<1>1. ifLock = a
  BY DEF LockInv, Waits, Busy
<1> QED BY <1>1, OneExchange DEF ExchangeInv, Nobody, Somebody

(* Steps of a command. *)
LEMMA CommandExchange ==
  ASSUME TypeInv, LockInv, ExchangeInv, ResponseInv, NEW a \in Apps, CommandStep(a)
  PROVE  ExchangeInv'
<1>0. pc \in [Apps -> AppPcs]
  BY DEF TypeInv, TypeOK, AppsOK
<1>1. CASE Acquire(a)
  BY <1>0, <1>1, Apart DEF Acquire, Goto, Waits, mgrVars, stackVars
<1>2. CASE HandleImmediate(a) \/ RespondAtOnce(a)
  <2>1. /\ ifLock = a /\ ~Waits(a) /\ rspQ' # <<>> /\ pc'[a] = "wait"
    BY <1>0, <1>2 DEF HandleImmediate, RespondAtOnce, Respond, Goto, Waits, LockInv, Busy,
       TypeInv, TypeOK, ServiceOK
  <2>2. Nobody
    BY <2>1, NoExchange
  <2>3. /\ \A b \in Apps \ {a} : pc'[b] = pc[b]
        /\ UNCHANGED <<cmd, waitq, resetting, adCmdQ, stackPend, stackOut, adEvtQ, mgrMsg>>
    BY <1>0, <1>2 DEF HandleImmediate, RespondAtOnce, Goto, mgrVars, stackVars
  <2>4. ~Waits(a)'
    BY <2>1 DEF Waits
  <2>5. Quiet'
    BY <2>2, <2>3 DEF Nobody, Quiet, Clear, ClearPend, ClearMsg
  <2> QED BY <2>1, <2>2, <2>3, <2>4, <2>5, StillNobody
<1>3. CASE HandleSending(a)
  <2>1. Nobody
    BY <1>3, NoExchange DEF HandleSending, Waits, LockInv, Busy
  <2>2. CASE cmd[a].op \in Waiting
    BY <1>3, <2>1, <2>2, BeginExchange
    DEF HandleSending, Awaits, Goto, Nobody, mgrVars, stackVars
  <2>3. CASE cmd[a].op \notin Waiting
    BY <1>0, <1>3, <2>3, Apart DEF HandleSending, Awaits, Goto, Waits, mgrVars, stackVars
  <2> QED BY <2>2, <2>3
<1>4. CASE SendToAdapter(a)
  <2>0. /\ adCmdQ \in Seq(AdCmds) /\ cmd[a] \in AdCmds /\ ifLock = a
        /\ adCmdQ' = Append(adCmdQ, cmd[a]) /\ pc'[a] = "notify"
        /\ \A b \in Apps \ {a} : pc'[b] = pc[b]
        /\ UNCHANGED <<cmd, rspQ, waitq, resetting, stackPend, stackOut, adEvtQ, mgrMsg>>
    BY <1>0, <1>4 DEF SendToAdapter, TypeInv, TypeOK, QueuesOK, CmdInv, LockInv, Busy, Cmds,
       AdCmds, Goto, mgrVars, stackVars
  <2>1. CASE cmd[a].op \in Waiting
    <3>1. Somebody(a)
      BY <1>4, <2>1, Mine DEF SendToAdapter, Waits
    <3>2. rspQ = <<>>
      BY <1>4, <2>0 DEF ResponseInv, Awaited, LockInv, Busy, SendToAdapter
    <3>3. Quiet
      BY <1>4, <3>1 DEF Somebody, SendToAdapter
    <3>4. JustOne(adCmdQ', cmd[a])
      BY <2>0, <3>3, OneAppend DEF Quiet
    <3>5. UnderWay(cmd[a])'
      BY <2>0, <3>3, <3>4 DEF UnderWay, Quiet, Clear, ClearPend, ClearMsg
    <3> QED BY <2>0, <2>1, <3>1, <3>2, <3>5 DEF Somebody, Waits, ExchangeInv
  <2>2. CASE cmd[a].op \notin Waiting
    <3>1. Nobody
      BY <2>0, <2>2, NoExchange DEF Waits
    <3>2. Clear(adCmdQ')
      BY <2>0, <2>2, <3>1, ClearAppend DEF Nobody, Quiet
    <3>3. Quiet'
      BY <2>0, <3>1, <3>2 DEF Nobody, Quiet, Clear, ClearPend, ClearMsg
    <3> QED BY <2>0, <2>2, <3>1, <3>3, StillNobody DEF Waits
  <2> QED BY <2>1, <2>2
<1>5. CASE NotifyAdapter(a)
  <2>0. /\ pc[a] = "notify" /\ pc'[a] = IF cmd[a].op \in Waiting THEN "wait" ELSE "respond"
        /\ \A b \in Apps \ {a} : pc'[b] = pc[b]
        /\ UNCHANGED <<cmd, rspQ, waitq, resetting, adCmdQ, stackPend, stackOut, adEvtQ, mgrMsg>>
    BY <1>0, <1>5 DEF NotifyAdapter, Goto, mgrVars, stackVars
  <2>1. CASE Waits(a)
    <3>1. Somebody(a)
      BY <2>1, Mine
    <3>2. UnderWay(cmd[a])'
      BY <2>0, <3>1 DEF Somebody, UnderWay, Clear, JustOne, ClearPend, OnePend, ClearMsg
    <3> QED BY <2>0, <3>1, <3>2 DEF Somebody, Waits, ExchangeInv
  <2>2. CASE ~Waits(a)
    BY <2>0, <2>2, Apart DEF Waits
  <2> QED BY <2>1, <2>2
<1>6. CASE TakeResponse(a)
  <2>1. ifLock = a /\ ~Waits(a) /\ pc'[a] = "release"
    BY <1>0, <1>6 DEF TakeResponse, Goto, Waits, LockInv, Busy
  <2>2. Nobody
    BY <2>1, NoExchange
  <2>3. /\ \A b \in Apps \ {a} : pc'[b] = pc[b]
        /\ UNCHANGED <<cmd, waitq, resetting, adCmdQ, stackPend, stackOut, adEvtQ, mgrMsg>>
    BY <1>0, <1>6 DEF TakeResponse, Goto, mgrVars, stackVars
  <2>4. Quiet'
    BY <2>2, <2>3 DEF Nobody, Quiet, Clear, ClearPend, ClearMsg
  <2> QED BY <2>1, <2>2, <2>3, <2>4, StillNobody DEF Waits
<1>7. CASE Release(a)
  <2>1. back[a] \in {"start", "idle", "handle"}
    BY DEF TypeInv, TypeOK, AppsOK
  <2> QED BY <1>0, <1>7, <2>1, Apart DEF Release, Goto, Waits, mgrVars, stackVars
<1> QED BY <1>1, <1>2, <1>3, <1>4, <1>5, <1>6, <1>7 DEF CommandStep

(* Steps that read events begin an exchange only when they end a drain. *)
LEMMA EventExchange ==
  ASSUME TypeInv, LockInv, ExchangeInv, NEW a \in Apps, EventStep(a)
  PROVE  ExchangeInv'
<1>0. pc \in [Apps -> AppPcs]
  BY DEF TypeInv, TypeOK, AppsOK
<1>1. CASE GetEvent(a)
  BY <1>0, <1>1, Apart DEF GetEvent, Outside, Goto, Waits, mgrVars, stackVars
<1>2. CASE FindEmpty(a)
  BY <1>0, <1>2, Apart DEF FindEmpty, Outside, Goto, Waits, mgrVars, stackVars
<1>3. CASE PollNotification(a)
  BY <1>0, <1>3, Apart DEF PollNotification, Outside, Goto, Waits, mgrVars, stackVars
<1>4. CASE PopNotified(a)
  <2>1. /\ pc[a] = "got" /\ pc'[a] \in {"got", "drain", "handle"}
        /\ \A b \in Apps \ {a} : pc'[b] = pc[b]
    BY <1>0, <1>4 DEF PopNotified, Goto
  <2> QED BY <1>4, <2>1, Apart DEF PopNotified, Outside, Waits, mgrVars, stackVars
<1>5. CASE NothingToGet(a)
  BY <1>0, <1>5, Apart DEF NothingToGet, Outside, Goto, Waits, mgrVars, stackVars
<1>6. CASE StartReset(a)
  <2>1. ifLock = a /\ ~Waits(a) /\ cmd[a].op = "reset"
    BY <1>6 DEF StartReset, Waits, LockInv, Busy, TypeInv, CmdInv
  <2> QED BY <1>6, <2>1, NoExchange, BeginExchange
          DEF StartReset, Outside, Goto, Waiting, mgrVars, stackVars
<1> QED BY <1>1, <1>2, <1>3, <1>4, <1>5, <1>6 DEF EventStep

(* Every step keeps the exchange: at most one command waits, with one completion. *)
LEMMA ExchangeNext ==
  ASSUME TypeInv, LockInv, ExchangeInv, ResponseInv, [Next]_vars
  PROVE  ExchangeInv'
<1>0. pc \in [Apps -> AppPcs] /\ cmd \in [Apps -> Cmds \cup {NoCmd}] /\ RegApp \in Apps
  BY AppsAssumption DEF TypeInv, TypeOK, AppsOK
<1>1. CASE LoopStep
  BY <1>0, <1>1, Apart DEF LoopStep, EnterLoop, AppWake, EventHandled, CheckMore, Outside,
     Goto, Waits, mgrVars, stackVars
<1>2. ASSUME NEW a \in Apps, NEW op \in Ops, Call(a, op) PROVE ExchangeInv'
  BY <1>0, <1>2, Apart DEF Call, Goto, Waits, mgrVars, stackVars
<1>3. CASE AppTimeout
  BY <1>3, Carried DEF AppTimeout, Outside, mgrVars, stackVars, Quiet, UnderWay, Clear,
     JustOne, ClearPend, OnePend, ClearMsg
<1>4. CASE UNCHANGED vars
  BY <1>4, Carried DEF vars, appVars, mgrVars, stackVars, Quiet, UnderWay, Clear,
     JustOne, ClearPend, OnePend, ClearMsg
<1> QED BY <1>1, <1>2, <1>3, <1>4, CommandExchange, EventExchange, ManagerCarries,
           AdapterCarries, StackCarries DEF Next, AppChoice

-----------------------------------------------------------------------------
(***************************************************************************)
(* The response.                                                           *)
(***************************************************************************)
(* A step of task a at places where it expects no response changes nothing. *)
LEMMA NoResponse ==
  ASSUME TypeInv, ResponseInv, NEW a \in Apps, ~Awaited(a),
         pc'[a] \notin {"wait", "notify", "release"},
         \A b \in Apps \ {a} : pc'[b] = pc[b] /\ cmd'[b] = cmd[b],
         UNCHANGED <<rspQ, rsp>>
  PROVE  ResponseInv'
  BY DEF ResponseInv, Awaited, Own

(* The first response in an empty queue. *)
LEMMA Responded ==
  ASSUME TypeInv, NEW c, NEW by, [op |-> c.op, id |-> c.id, by |-> by] \in Rsps, Respond(c, by)
  PROVE  rspQ' # <<>> /\ rspQ'[1] = [op |-> c.op, id |-> c.id, by |-> by]
<1>1. rspQ \in Seq(Rsps) /\ Len(rspQ) \in Nat /\ Len(rspQ) < 1
  BY LenProperties DEF TypeInv, TypeOK, ServiceOK, Respond
<1> QED BY <1>1, AppendProperties DEF Respond

(* The response of an immediate handler is for its own task. *)
LEMMA AnsweredAtOnce ==
  ASSUME TypeInv, LockInv, ResponseInv, NEW a \in Apps, pc[a] \in Busy,
         Respond(cmd[a], cmd[a].id), pc' = [pc EXCEPT ![a] = "wait"],
         UNCHANGED <<cmd, rsp>>
  PROVE  ResponseInv'
<1>1. Own(a) \in Rsps
  BY DEF TypeInv, CmdInv, Cmds, Rsps, Own
<1>2. pc'[a] = "wait" /\ \A b \in Apps \ {a} : pc'[b] = pc[b]
  BY DEF TypeInv, TypeOK, AppsOK
<1>3. rspQ' # <<>> /\ rspQ'[1] = Own(a)'
  BY <1>1, Responded DEF Own
<1>4. Awaited(a)'
  BY <1>2 DEF Awaited
<1> QED BY <1>2, <1>3, <1>4 DEF ResponseInv, Own

(* Every step keeps the response queue empty but for the holder of the interface. *)
LEMMA ResponseNext ==
  ASSUME TypeInv, LockInv, ExchangeInv, ResponseInv, [Next]_vars PROVE ResponseInv'
<1>0. /\ pc \in [Apps -> AppPcs] /\ cmd \in [Apps -> Cmds \cup {NoCmd}] /\ RegApp \in Apps
      /\ rsp \in [Apps -> Rsps \cup {NoRsp}] /\ rspQ \in Seq(Rsps) /\ Len(rspQ) <= 1
  BY AppsAssumption DEF TypeInv, TypeOK, AppsOK, ServiceOK
<1>1. ASSUME NEW a \in Apps, CommandStep(a) PROVE ResponseInv'
  <2>1. CASE Acquire(a)
    BY <1>0, <2>1, NoResponse DEF Acquire, Goto, Awaited
  <2>2. CASE HandleImmediate(a) \/ RespondAtOnce(a)
    BY <2>2, AnsweredAtOnce DEF HandleImmediate, RespondAtOnce, Goto, LockInv, Busy
  <2>3. CASE HandleSending(a)
    BY <1>0, <2>3, NoResponse DEF HandleSending, Goto, Awaited
  <2>4. CASE SendToAdapter(a)
    <3>1. /\ pc[a] = "send" /\ pc'[a] = "notify" /\ \A b \in Apps \ {a} : pc'[b] = pc[b]
          /\ UNCHANGED <<cmd, rsp, rspQ>>
      BY <1>0, <2>4 DEF SendToAdapter, Goto
    <3> QED BY <3>1 DEF ResponseInv, Awaited, Own
  <2>5. CASE NotifyAdapter(a)
    <3>1. /\ pc[a] = "notify" /\ pc'[a] = IF cmd[a].op \in Waiting THEN "wait" ELSE "respond"
          /\ \A b \in Apps \ {a} : pc'[b] = pc[b]
          /\ UNCHANGED <<cmd, rsp, rspQ>>
      BY <1>0, <2>5 DEF NotifyAdapter, Goto
    <3> QED BY <3>1 DEF ResponseInv, Awaited, Own
  <2>6. CASE TakeResponse(a)
    <3>1. /\ pc[a] = "wait" /\ pc'[a] = "release" /\ \A b \in Apps \ {a} : pc'[b] = pc[b]
          /\ rsp' = [rsp EXCEPT ![a] = Head(rspQ)] /\ rspQ' = Tail(rspQ) /\ rspQ # <<>>
          /\ UNCHANGED cmd
      BY <1>0, <2>6 DEF TakeResponse, Goto
    <3>2. \A b \in Apps : pc[b] \in Busy => b = a
      BY <3>1 DEF LockInv, Busy
    <3>3. Head(rspQ) = Own(a) /\ rspQ' = <<>>
      <4>1. PICK b \in Apps : Awaited(b) /\ rspQ[1] = Own(b)
        BY <3>1 DEF ResponseInv
      <4>2. b = a
        BY <3>2, <4>1 DEF Awaited, Busy
      <4>3. Head(rspQ) = rspQ[1] /\ Len(Tail(rspQ)) = 0 /\ Tail(rspQ) \in Seq(Rsps)
        <5>1. /\ Head(rspQ) = rspQ[1] /\ Tail(rspQ) \in Seq(Rsps)
              /\ Len(rspQ) \in Nat \ {0} /\ Len(Tail(rspQ)) = Len(rspQ) - 1
          BY <1>0, <3>1, Pop
        <5> QED BY <1>0, <5>1
      <4> QED BY <3>1, <4>1, <4>2, <4>3, EmptySeq
    <3>4. rsp'[a] = Own(a)' /\ \A b \in Apps \ {a} : rsp'[b] = rsp[b]
      BY <1>0, <3>1, <3>3 DEF Own
    <3>5. \A b \in Apps \ {a} : pc'[b] \notin {"wait", "release"}
      BY <3>1, <3>2 DEF Busy
    <3> QED BY <3>1, <3>3, <3>4, <3>5 DEF ResponseInv
  <2>7. CASE Release(a)
    <3>1. back[a] \in {"start", "idle", "handle"}
      BY DEF TypeInv, TypeOK, AppsOK
    <3> QED BY <1>0, <2>7, <3>1, NoResponse DEF Release, Goto, Awaited
  <2> QED BY <1>1, <2>1, <2>2, <2>3, <2>4, <2>5, <2>6, <2>7 DEF CommandStep
<1>2. ASSUME NEW a \in Apps, EventStep(a) PROVE ResponseInv'
  <2>1. /\ ~Awaited(a) /\ pc'[a] \notin {"wait", "notify", "release"}
        /\ \A b \in Apps \ {a} : pc'[b] = pc[b]
    BY <1>0, <1>2 DEF EventStep, GetEvent, FindEmpty, PollNotification, PopNotified,
       NothingToGet, StartReset, Goto, Awaited
  <2>2. UNCHANGED <<rspQ, rsp, cmd>>
    BY <1>2 DEF EventStep, GetEvent, FindEmpty, PollNotification, PopNotified,
       NothingToGet, StartReset, Outside
  <2> QED BY <2>1, <2>2, NoResponse
<1>3. CASE LoopStep
  <2>1. UNCHANGED <<rspQ, rsp, cmd>> /\ ~Awaited(RegApp)
    BY <1>3 DEF LoopStep, EnterLoop, AppWake, EventHandled, CheckMore, Outside, Awaited
  <2>2. /\ pc'[RegApp] \notin {"wait", "notify", "release"}
        /\ \A b \in Apps \ {RegApp} : pc'[b] = pc[b]
    BY <1>0, <1>3 DEF LoopStep, EnterLoop, AppWake, EventHandled, CheckMore, Goto
  <2> QED BY <1>0, <2>1, <2>2, NoResponse
<1>4. ASSUME NEW a \in Apps, NEW op \in Ops, Call(a, op) PROVE ResponseInv'
  BY <1>0, <1>4, NoResponse DEF Call, Goto, Awaited
<1>5. CASE MgrComplete
  <2>1. PICK w \in Matching(mgrMsg) : waitq' = waitq \ {w} /\ Respond(w, mgrMsg.id)
    BY <1>5 DEF MgrComplete
  <2>2. UNCHANGED <<pc, cmd, rsp>>
    BY <1>5 DEF MgrComplete, MgrOutside, appVars
  <2>3. w \in waitq /\ w.op = mgrMsg.op /\ w.op \in Waiting
    BY <2>1 DEF Matching, Waiters, TypeInv, TypeOK, ServiceOK
  <2>4. PICK a \in Apps : Somebody(a)
    BY <2>3 DEF ExchangeInv, Nobody
  <2>5. pc[a] # "send" /\ mgrMsg = cmd[a] /\ w = cmd[a]
    BY <2>3, <2>4 DEF Somebody, Quiet, UnderWay, ClearMsg
  <2>6. Awaited(a)
    BY <2>4, <2>5 DEF Somebody, Waits, Awaited
  <2>7. [op |-> w.op, id |-> w.id, by |-> mgrMsg.id] = Own(a) /\ Own(a) \in Rsps
    BY <2>4, <2>5, WaiterTyped DEF Somebody, Own, Rsps, Waiters, Waiting, Ops
  <2>8. rspQ' # <<>> /\ rspQ'[1] = Own(a)' /\ Awaited(a)'
    BY <2>1, <2>2, <2>6, <2>7, Responded DEF Own, Awaited
  <2> QED BY <2>2, <2>8 DEF ResponseInv, Own
<1>6. ASSUME UNCHANGED <<pc, cmd, rsp, rspQ>> PROVE ResponseInv'
  BY <1>6 DEF ResponseInv, Awaited, Own
<1>7. CASE AppTimeout
  BY <1>6, <1>7 DEF AppTimeout, Outside
<1>8. CASE MgrStep
  BY <1>5, <1>6, <1>8 DEF MgrStep, MgrWake, MgrIgnore, MgrPostEvent, MgrReply,
     MgrNotifyAdapter, MgrMore, MgrUnblockAdapter, MgrOutside, appVars
<1>9. CASE AdStep
  BY <1>6, <1>9 DEF AdStep, AdWake, AdCommand, AdPost, AdTxDone, AdNextCommand, AdPark,
     AdOutside, appVars
<1>10. CASE IsrStep \/ Answers \/ Indicates
  BY <1>6, <1>10 DEF IsrStep, WakeupIsr, AwakeIsr, Answers, StackAnswer, Indicates,
     StackIndicate, IsrOutside, appVars
<1>11. CASE UNCHANGED vars
  BY <1>6, <1>11 DEF vars, appVars
<1> QED BY <1>1, <1>2, <1>3, <1>4, <1>7, <1>8, <1>9, <1>10, <1>11 DEF Next, AppChoice

-----------------------------------------------------------------------------
(***************************************************************************)
(* The invariant, and what follows from it.                                *)
(***************************************************************************)
(* The invariant holds when the system starts. *)
LEMMA InvInit == Init => Inv
<1> SUFFICES ASSUME Init PROVE Inv
  OBVIOUS
<1>1. TypeInv
  BY TypeInit
<1>2. LockInv
  BY AppsAssumption DEF Init, LockInv, Busy
<1>3. ResponseInv
  BY DEF Init, ResponseInv
<1>4. Quiet
  BY DEF Init, Quiet, Clear, ClearPend, ClearMsg, NoMsg, NoCmd, Waiting
<1>5. ExchangeInv
  BY <1>4 DEF Init, ExchangeInv, Nobody, Waits
<1> QED BY <1>1, <1>2, <1>3, <1>5 DEF Inv

(* Every step keeps the invariant. *)
LEMMA InvNext == Inv /\ [Next]_vars => Inv'
  BY TypeNext, LockNext, ExchangeNext, ResponseNext DEF Inv

(* The invariant holds in every reachable state. *)
LEMMA Invariance == Spec => []Inv
  BY InvInit, InvNext, PTL DEF Spec

(***************************************************************************)
(* A response in the response queue is for the task that holds the         *)
(* interface, and was caused by the completion of its very command: no     *)
(* task is ever given the response of another command.                     *)
(***************************************************************************)
THEOREM ResponsesAreOwn == Spec => []OwnResponse
<1>1. Inv => OwnResponse
  <2> SUFFICES ASSUME Inv, NEW i \in 1..Len(rspQ)
               PROVE  \E a \in Apps :
                        /\ ifLock = a /\ pc[a] \in {"notify", "wait"}
                        /\ rspQ[i] = [op |-> cmd[a].op, id |-> cmd[a].id, by |-> cmd[a].id]
    BY DEF OwnResponse
  <2>1. i = 1 /\ rspQ # <<>>
    BY DEF Inv, TypeInv, TypeOK, ServiceOK
  <2>2. PICK a \in Apps : Awaited(a) /\ rspQ[1] = Own(a)
    BY <2>1 DEF Inv, ResponseInv
  <2> QED BY <2>1, <2>2 DEF Inv, LockInv, Awaited, Own, Busy
<1> QED BY <1>1, Invariance, PTL

(***************************************************************************)
(* A task that blocks on the response queue has its response there, or its *)
(* element is in the wait queue and the completion is still on its way: no *)
(* reset, no ignored message and no full queue loses it.                   *)
(***************************************************************************)
THEOREM AnswersAreOnTheirWay == Spec => []AnswerOnItsWay
<1>1. Inv => AnswerOnItsWay
  <2> SUFFICES ASSUME Inv, NEW a \in Apps, pc[a] = "wait", rspQ = <<>>
               PROVE  cmd[a] \in waitq /\ InFlight(cmd[a])
    BY DEF AnswerOnItsWay
  <2>1. Waits(a)
    BY DEF Inv, ResponseInv, Waits
  <2>2. Somebody(a)
    BY <2>1, Mine DEF Inv
  <2>3. UnderWay(cmd[a])
    BY <2>2 DEF Somebody
  <2>4. InFlight(cmd[a])
    BY <2>3 DEF UnderWay, InFlight, Carries, JustOne, OnePend
  <2> QED BY <2>2, <2>4 DEF Somebody
<1> QED BY <1>1, Invariance, PTL

-----------------------------------------------------------------------------
(***************************************************************************)
(* Proof that the framework of BleManager implements BleCommandService:    *)
(* commands are served one at a time, each is answered once, and its       *)
(* caller gets the answer made for it.  A call is Ask, taking the lock is  *)
(* Serve, taking the response is Answer, releasing the lock is Return, and *)
(* every other step of every task is invisible to the callers.             *)
(***************************************************************************)

\* The variables of the service, as BleManager maps them.
phaseOf  == [a \in Apps |-> Phase(a)]
askedOf  == [a \in Apps |-> cmd[a].id]
answerOf == [a \in Apps |-> IF pc[a] = "release" \/ (pc[a] # "acquire" /\ ifLock # a)
                              THEN rsp[a].by ELSE 0]

\* The serial number of a command is not above the number of commands.
CountInv == \A a \in Apps : cmd[a].id <= nCmd

(* A step that leaves all tasks alone but one, and takes that one from a place *)
(* inside the lock to another, or outside of it, is invisible.                 *)
LEMMA Invisible ==
  ASSUME NEW a \in Apps, \A b \in Apps \ {a} : pc'[b] = pc[b],
         UNCHANGED <<ifLock, cmd, rsp>>,
         pc[a] = pc'[a] \/ {pc[a], pc'[a]} \cap {"acquire", "release"} = {}
  PROVE  UNCHANGED <<phaseOf, askedOf, answerOf>>
<1>1. \A b \in Apps : Phase(b)' = Phase(b)
  BY DEF Phase
<1>2. UNCHANGED phaseOf
  BY <1>1 DEF phaseOf
<1>3. UNCHANGED askedOf
  BY DEF askedOf
<1>4. UNCHANGED answerOf
  BY DEF answerOf
<1> QED BY <1>2, <1>3, <1>4

(* Serial numbers are given once: no command has one beyond the counter. *)
LEMMA CountNext == ASSUME TypeInv, CountInv, [Next]_vars PROVE CountInv'
<1>0. /\ nCmd \in Nat /\ cmd \in [Apps -> Cmds \cup {NoCmd}]
      /\ \A a \in Apps : cmd[a].id \in Nat
  BY SizesAssumption DEF TypeInv, TypeOK, AppsOK, Ids, Cmds, NoCmd
<1>1. ASSUME NEW a \in Apps, NEW op \in Ops, Call(a, op) PROVE CountInv'
  BY <1>0, <1>1 DEF Call, CountInv
<1>2. ASSUME UNCHANGED <<cmd, nCmd>> PROVE CountInv'
  BY <1>2 DEF CountInv
<1>3. ASSUME NEW a \in Apps, CommandStep(a) PROVE CountInv'
  BY <1>2, <1>3 DEF CommandStep, Acquire, HandleImmediate, HandleSending, SendToAdapter,
     NotifyAdapter, RespondAtOnce, TakeResponse, Release
<1>4. ASSUME NEW a \in Apps, EventStep(a) PROVE CountInv'
  BY <1>2, <1>4 DEF EventStep, GetEvent, FindEmpty, PollNotification, PopNotified,
     NothingToGet, StartReset, Outside
<1>5. CASE LoopStep \/ AppTimeout
  BY <1>2, <1>5 DEF LoopStep, EnterLoop, AppWake, EventHandled, CheckMore, AppTimeout, Outside
<1>6. CASE MgrStep
  BY <1>2, <1>6 DEF MgrStep, MgrWake, MgrIgnore, MgrComplete, MgrPostEvent, MgrReply,
     MgrNotifyAdapter, MgrMore, MgrUnblockAdapter, MgrOutside, appVars
<1>7. CASE AdStep
  BY <1>2, <1>7 DEF AdStep, AdWake, AdCommand, AdPost, AdTxDone, AdNextCommand, AdPark,
     AdOutside, appVars
<1>8. CASE IsrStep \/ Answers \/ Indicates
  BY <1>2, <1>8 DEF IsrStep, WakeupIsr, AwakeIsr, Answers, StackAnswer, Indicates,
     StackIndicate, IsrOutside, appVars
<1>9. CASE UNCHANGED vars
  BY <1>2, <1>9 DEF vars, appVars
<1> QED BY <1>1, <1>3, <1>4, <1>5, <1>6, <1>7, <1>8, <1>9 DEF Next, AppChoice

(* The framework starts in an initial state of the service. *)
LEMMA InitMaps == Init => Service!Init
<1> SUFFICES ASSUME Init PROVE Service!Init
  OBVIOUS
<1>1. \A a \in Apps : Phase(a) = "idle"
  BY AppsAssumption DEF Init, Phase
<1>2. \A a \in Apps : cmd[a].id = 0 /\ rsp[a].by = 0 /\ pc[a] # "acquire" /\ ifLock # a
  BY AppsAssumption DEF Init, NoCmd, NoRsp
<1> QED BY <1>1, <1>2 DEF Service!Init, Service!NoAnswer

(* Every step of the framework is a step of the service or invisible. *)
LEMMA StepMaps ==
  ASSUME Inv, Inv', CountInv, [Next]_vars
  PROVE  [Service!Next]_(Service!svcVars)
<1> USE DEF phaseOf, askedOf, answerOf
<1>0. /\ pc \in [Apps -> AppPcs] /\ cmd \in [Apps -> Cmds \cup {NoCmd}]
      /\ rsp \in [Apps -> Rsps \cup {NoRsp}] /\ RegApp \in Apps /\ NoTask \notin Apps
      /\ nCmd \in Nat /\ TypeInv /\ LockInv /\ ResponseInv /\ ResponseInv' /\ LockInv'
  BY AppsAssumption, SizesAssumption DEF Inv, TypeInv, TypeOK, AppsOK, Ids
<1>q. ASSUME UNCHANGED <<phaseOf, askedOf, answerOf>> PROVE UNCHANGED Service!svcVars
  BY <1>q DEF Service!svcVars
<1>1. ASSUME NEW a \in Apps, NEW op \in Ops, Call(a, op) PROVE Service!Next
  <2>1. /\ pc[a] # "acquire" /\ pc[a] # "release" /\ ifLock # a /\ ifLock' = ifLock
        /\ pc' = [pc EXCEPT ![a] = "acquire"] /\ rsp' = rsp
        /\ cmd' = [cmd EXCEPT ![a] = [op |-> op, id |-> nCmd + 1]]
        /\ nCmd + 1 \in Ids /\ nCmd + 1 # 0
    BY <1>0, <1>1, SizesAssumption DEF Call, Goto, LockInv, Busy, Ids
  <2>2. phaseOf[a] = "idle" /\ phaseOf' = [phaseOf EXCEPT ![a] = "asked"]
    BY <1>0, <2>1 DEF Phase
  <2>3. /\ \A d \in Apps : askedOf[d] # nCmd + 1
        /\ askedOf' = [askedOf EXCEPT ![a] = nCmd + 1]
    <3>1. \A d \in Apps : cmd[d].id \in Nat /\ cmd[d].id <= nCmd
      BY <1>0, SizesAssumption DEF CountInv, Cmds, NoCmd, Ids
    <3>2. \A d \in Apps : cmd[d].id # nCmd + 1
      BY <1>0, <3>1
    <3> QED BY <1>0, <2>1, <3>2
  <2>4. answerOf' = [answerOf EXCEPT ![a] = 0]
    BY <1>0, <2>1
  <2>5. Service!Ask(a)
    BY <2>1, <2>2, <2>3, <2>4 DEF Service!Ask, Service!NoAnswer
  <2> QED BY <2>5 DEF Service!Next
<1>2. ASSUME NEW a \in Apps, CommandStep(a) PROVE [Service!Next]_(Service!svcVars)
  <2>1. CASE Acquire(a)
    <3>1. /\ ifLock = NoTask /\ ifLock' = a /\ pc[a] = "acquire"
          /\ pc' = [pc EXCEPT ![a] = "handler"] /\ cmd' = cmd /\ rsp' = rsp
      BY <2>1 DEF Acquire, LockFree, Goto
    <3>2. /\ phaseOf[a] = "asked" /\ \A d \in Apps : phaseOf[d] \notin {"served", "answered"}
          /\ phaseOf' = [phaseOf EXCEPT ![a] = "served"]
      BY <1>0, <3>1 DEF Phase
    <3>3. \A d \in Apps : pc[d] # "release"
      BY <1>0, <3>1 DEF LockInv, Busy
    <3>4. UNCHANGED <<askedOf, answerOf>>
      BY <1>0, <3>1, <3>3
    <3> QED BY <3>2, <3>4 DEF Service!Serve, Service!Next
  <2>2. CASE TakeResponse(a)
    <3>1. /\ ifLock = a /\ ifLock' = a /\ pc[a] = "wait"
          /\ pc' = [pc EXCEPT ![a] = "release"] /\ cmd' = cmd
          /\ rsp' = [rsp EXCEPT ![a] = Head(rspQ)]
      BY <1>0, <2>2 DEF TakeResponse, Goto, LockInv, Busy
    <3>2. phaseOf[a] = "served" /\ phaseOf' = [phaseOf EXCEPT ![a] = "answered"]
      BY <1>0, <3>1 DEF Phase
    <3>3. pc'[a] = "release" /\ rsp'[a].by = cmd[a].id
      <4>1. pc'[a] = "release"
        BY <1>0, <3>1
      <4>2. rsp'[a] = [op |-> cmd'[a].op, id |-> cmd'[a].id, by |-> cmd'[a].id]
        BY <1>0, <4>1 DEF ResponseInv, Own
      <4> QED BY <3>1, <4>1, <4>2
    <3>4. askedOf' = askedOf /\ answerOf' = [answerOf EXCEPT ![a] = askedOf[a]]
      BY <1>0, <3>1, <3>3
    <3> QED BY <3>2, <3>4 DEF Service!Answer, Service!Next
  <2>3. CASE Release(a)
    <3>1. /\ ifLock = a /\ ifLock' = NoTask /\ pc[a] = "release"
          /\ pc' = [pc EXCEPT ![a] = back[a]] /\ cmd' = cmd /\ rsp' = rsp
          /\ back[a] \in {"start", "idle", "handle"}
      BY <1>0, <2>3 DEF Release, Goto, LockInv, Busy, TypeInv, TypeOK, AppsOK
    <3>2. phaseOf[a] = "answered" /\ phaseOf' = [phaseOf EXCEPT ![a] = "idle"]
      BY <1>0, <3>1 DEF Phase
    <3>3. UNCHANGED <<askedOf, answerOf>>
      BY <1>0, <3>1
    <3> QED BY <3>2, <3>3 DEF Service!Return, Service!Next
  <2>4. CASE HandleImmediate(a) \/ HandleSending(a) \/ SendToAdapter(a) \/ NotifyAdapter(a)
             \/ RespondAtOnce(a)
    <3>1. /\ \A b \in Apps \ {a} : pc'[b] = pc[b]
          /\ {pc[a], pc'[a]} \cap {"acquire", "release"} = {}
          /\ UNCHANGED <<ifLock, cmd, rsp>>
      BY <1>0, <2>4 DEF HandleImmediate, HandleSending, SendToAdapter, NotifyAdapter,
         RespondAtOnce, Goto
    <3> QED BY <1>q, <3>1, Invisible
  <2> QED BY <1>2, <2>1, <2>2, <2>3, <2>4 DEF CommandStep
<1>3. ASSUME NEW a \in Apps, EventStep(a) PROVE UNCHANGED Service!svcVars
  <2>1. /\ \A b \in Apps \ {a} : pc'[b] = pc[b]
        /\ {pc[a], pc'[a]} \cap {"acquire", "release"} = {}
    BY <1>0, <1>3 DEF EventStep, GetEvent, FindEmpty, PollNotification, PopNotified,
       NothingToGet, StartReset, Goto
  <2>2. UNCHANGED <<ifLock, cmd, rsp>>
    BY <1>3 DEF EventStep, GetEvent, FindEmpty, PollNotification, PopNotified,
       NothingToGet, StartReset, Outside
  <2> QED BY <1>q, <2>1, <2>2, Invisible
<1>4. CASE LoopStep
  <2>1. /\ \A b \in Apps \ {RegApp} : pc'[b] = pc[b]
        /\ {pc[RegApp], pc'[RegApp]} \cap {"acquire", "release"} = {}
    BY <1>0, <1>4 DEF LoopStep, EnterLoop, AppWake, EventHandled, CheckMore, Goto
  <2>2. UNCHANGED <<ifLock, cmd, rsp>>
    BY <1>4 DEF LoopStep, EnterLoop, AppWake, EventHandled, CheckMore, Outside
  <2> QED BY <1>0, <1>q, <2>1, <2>2, Invisible
<1>5. ASSUME UNCHANGED <<ifLock, pc, cmd, rsp>> PROVE UNCHANGED Service!svcVars
  BY <1>0, <1>5, <1>q, Invisible
<1>6. CASE AppTimeout
  BY <1>5, <1>6 DEF AppTimeout, Outside
<1>7. CASE MgrStep
  BY <1>5, <1>7 DEF MgrStep, MgrWake, MgrIgnore, MgrComplete, MgrPostEvent, MgrReply,
     MgrNotifyAdapter, MgrMore, MgrUnblockAdapter, MgrOutside, appVars
<1>8. CASE AdStep
  BY <1>5, <1>8 DEF AdStep, AdWake, AdCommand, AdPost, AdTxDone, AdNextCommand, AdPark,
     AdOutside, appVars
<1>9. CASE IsrStep \/ Answers \/ Indicates
  BY <1>5, <1>9 DEF IsrStep, WakeupIsr, AwakeIsr, Answers, StackAnswer, Indicates,
     StackIndicate, IsrOutside, appVars
<1>10. CASE UNCHANGED vars
  BY <1>5, <1>10 DEF vars, appVars
<1> QED BY <1>1, <1>2, <1>3, <1>4, <1>6, <1>7, <1>8, <1>9, <1>10 DEF Next, AppChoice

(***************************************************************************)
(* The framework implements the command service: whatever the tasks, the   *)
(* adapter, the manager and the stack do, callers see commands served one  *)
(* at a time and each answered once, with the answer made for it.          *)
(***************************************************************************)
THEOREM Implements == Spec => ImplementsService
<1>1. Init => CountInv
  <2> SUFFICES ASSUME Init, NEW a \in Apps PROVE cmd[a].id <= nCmd
    BY DEF CountInv
  <2>1. cmd[a].id = 0 /\ nCmd = 0
    BY DEF Init, NoCmd
  <2> QED BY <2>1
<1>2. Inv /\ CountInv /\ [Next]_vars => CountInv'
  BY CountNext DEF Inv
<1>3. Inv /\ Inv' /\ CountInv /\ [Next]_vars => [Service!Next]_(Service!svcVars)
  BY StepMaps
<1> QED BY <1>1, <1>2, <1>3, InitMaps, Invariance, PTL
        DEF Spec, ImplementsService, Service!Spec
=============================================================================
