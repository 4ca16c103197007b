------------------------- MODULE BleManagerWakeups -------------------------
(***************************************************************************)
(* Proofs that neither task of the BLE framework sleeps on its work, and   *)
(* that the transport between them never overflows, for every number of    *)
(* applications and every length of queue.                                 *)
(*                                                                         *)
(* A notification of FreeRTOS is a set of bits that is cleared as a whole  *)
(* when its task wakes up, while each task takes one message per wake-up:  *)
(* the argument is that a bit that is cleared too early is always set      *)
(* again (Waking), and that the stack cannot write before the adapter is   *)
(* initialised nor after the queue has filled up (Transport).              *)
(***************************************************************************)
EXTENDS BleManagerProofs

Posting == adPc \in {"posted", "postedInit"}

\* A message that the manager would not see is announced, or about to be.
MgrTold == adEvtQ # <<>> /\ mgrPc \in {"tail", "idle"} => "evt" \in mgrNotif \/ Posting

\* A command is announced to the adapter, or the adapter is on its way to it.
AdTold == "cmd" \in adNotif \/ mgrPc = "notify" \/ \E a \in Apps : pc[a] = "notify"
AdRuns == adPc # "idle" \/ adNotif # {}
CmdSeen ==
  adCmdQ # <<>> =>
    \/ AdTold \/ (adPc = "command" /\ "cmd" \in adBits)
    \/ wakeReq \/ sleep = "WAKING_UP" \/ (sleep = "ACTIVE" /\ AdRuns)

\* A callback that is stored will be called.
TxSeen ==
  txDoneCb => /\ adBlocked /\ ~Posting
              /\ "avail" \in adNotif \/ mgrPc # "idle" \/ mgrNotif # {}

Waking == MgrTold /\ CmdSeen /\ TxSeen

-----------------------------------------------------------------------------
(***************************************************************************)
(* Who sleeps on what.                                                     *)
(***************************************************************************)
(* The applications reach the two tasks through the adapter's command      *)
(* queue and its notification only.                                        *)
LEMMA CallersOutside ==
  ASSUME AppChoice \/ LoopStep \/ \E a \in Apps : CommandStep(a) \/ EventStep(a)
  PROVE  UNCHANGED <<mgrVars, mgrNotif, adEvtQ, adVars, stackPend, stackOut, sleepVars, enabled>>
<1>1. ASSUME NEW a \in Apps, CommandStep(a)
      PROVE  UNCHANGED <<mgrVars, mgrNotif, adEvtQ, adVars, stackPend, stackOut, sleepVars, enabled>>
  BY <1>1 DEF CommandStep, Acquire, HandleImmediate, HandleSending, SendToAdapter,
     NotifyAdapter, RespondAtOnce, TakeResponse, Release, stackVars
<1>2. ASSUME NEW a \in Apps, EventStep(a)
      PROVE  UNCHANGED <<mgrVars, mgrNotif, adEvtQ, adVars, stackPend, stackOut, sleepVars, enabled>>
  BY <1>2 DEF EventStep, GetEvent, FindEmpty, PollNotification, PopNotified,
     NothingToGet, StartReset, Outside, stackVars
<1>3. CASE LoopStep
  BY <1>3 DEF LoopStep, EnterLoop, AppWake, EventHandled, CheckMore, Outside, stackVars
<1>4. CASE AppChoice
  BY <1>4 DEF AppChoice, AppTimeout, Call, Outside, stackVars
<1> QED BY <1>1, <1>2, <1>3, <1>4

(* A command that an application queues is announced after it, never undone. *)
LEMMA CallersAnnounce ==
  ASSUME TypeInv, AppChoice \/ LoopStep \/ \E a \in Apps : CommandStep(a) \/ EventStep(a)
  PROVE  /\ adNotif \subseteq adNotif'
         /\ (\E a \in Apps : pc[a] = "notify") => AdTold'
         /\ adCmdQ' = adCmdQ \/ AdTold'
<1>0. pc \in [Apps -> AppPcs]
  BY DEF TypeInv, TypeOK, AppsOK
<1>1. ASSUME NEW a \in Apps, CommandStep(a)
      PROVE  /\ adNotif \subseteq adNotif'
             /\ \A b \in Apps : pc[b] = "notify" => pc'[b] = "notify" \/ "cmd" \in adNotif'
             /\ adCmdQ' = adCmdQ \/ pc'[a] = "notify"
  BY <1>0, <1>1 DEF CommandStep, Acquire, HandleImmediate, HandleSending, SendToAdapter,
     NotifyAdapter, RespondAtOnce, TakeResponse, Release, Goto
<1>2. ASSUME NEW a \in Apps, EventStep(a)
      PROVE  /\ adNotif \subseteq adNotif' /\ adCmdQ' = adCmdQ
             /\ \A b \in Apps : pc[b] = "notify" => pc'[b] = "notify"
  BY <1>0, <1>2 DEF EventStep, GetEvent, FindEmpty, PollNotification, PopNotified,
     NothingToGet, StartReset, Outside, Goto
<1>3. ASSUME LoopStep
      PROVE  /\ adNotif \subseteq adNotif' /\ adCmdQ' = adCmdQ
             /\ \A b \in Apps : pc[b] = "notify" => pc'[b] = "notify"
  BY <1>0, <1>3 DEF LoopStep, EnterLoop, AppWake, EventHandled, CheckMore, Outside, Goto
<1>4. ASSUME AppChoice
      PROVE  /\ adNotif \subseteq adNotif' /\ adCmdQ' = adCmdQ
             /\ \A b \in Apps : pc[b] = "notify" => pc'[b] = "notify"
  BY <1>0, <1>4 DEF AppChoice, AppTimeout, Call, Outside, Goto
<1> QED BY <1>1, <1>2, <1>3, <1>4 DEF AdTold

(* So whatever an application does, neither task sleeps on its work. *)
LEMMA CallersWake ==
  ASSUME TypeInv, Waking,
         AppChoice \/ LoopStep \/ \E a \in Apps : CommandStep(a) \/ EventStep(a)
  PROVE  Waking'
<1>1. UNCHANGED <<mgrPc, mgrNotif, adEvtQ, adPc, adBits, txDoneCb, adBlocked, sleep, wakeReq>>
  BY CallersOutside DEF mgrVars, adVars, sleepVars
<1>2. adNotif \subseteq adNotif'
  BY CallersAnnounce
<1>3. MgrTold' /\ TxSeen'
  BY <1>1, <1>2 DEF Waking, MgrTold, TxSeen, Posting
<1>4. AdTold => AdTold'
  BY <1>1, <1>2, CallersAnnounce DEF AdTold
<1>5. AdRuns => AdRuns'
  BY <1>1, <1>2 DEF AdRuns
<1>6. CmdSeen'
  BY <1>1, <1>4, <1>5, CallersAnnounce DEF Waking, CmdSeen
<1> QED BY <1>3, <1>6 DEF Waking

(* The manager announces what it leaves in the queue, and tells a blocked  *)
(* adapter about the room.                                                 *)
LEMMA ManagerWakes == ASSUME TypeInv, Waking, MgrStep PROVE Waking'
<1>0. /\ UNCHANGED <<pc, adPc, adBits, txDoneCb, adBlocked, sleep, wakeReq>>
      /\ adNotif \subseteq adNotif'
  BY DEF MgrStep, MgrWake, MgrIgnore, MgrComplete, MgrPostEvent, MgrReply,
     MgrNotifyAdapter, MgrMore, MgrUnblockAdapter, MgrOutside, appVars, adVars, sleepVars
<1>1. MgrTold'
  BY <1>0 DEF Waking, MgrTold, Posting, MgrStep, MgrWake, MgrIgnore, MgrComplete,
     MgrPostEvent, MgrReply, MgrNotifyAdapter, MgrMore, MgrUnblockAdapter, LeftInQueue
<1>2. (adCmdQ' # <<>> => adCmdQ # <<>> \/ AdTold') /\ (AdTold => AdTold')
  BY <1>0 DEF AdTold, MgrStep, MgrWake, MgrIgnore, MgrComplete, MgrPostEvent, MgrReply,
     MgrNotifyAdapter, MgrMore, MgrUnblockAdapter
<1>3. CmdSeen'
  BY <1>0, <1>2 DEF Waking, CmdSeen, AdRuns
<1>4. TxSeen'
  <2>1. CASE MgrUnblockAdapter
    <3>1. adEvtQ # <<>> \/ Len(adEvtQ) < AdEvtQLen
      BY SizesAssumption, EmptySeq
    <3>2. adEvtQ \in Seq(AdEvts) /\ Len(adEvtQ) <= AdEvtQLen /\ Len(adEvtQ) \in Nat
      BY LenProperties DEF TypeInv, TypeOK, QueuesOK
    <3>3. Len(adEvtQ) < AdEvtQLen \/ "evt" \in mgrNotif \/ Posting
      BY <2>1, <3>1 DEF MgrUnblockAdapter, Waking, MgrTold
    <3> QED BY <1>0, <2>1, <3>3 DEF MgrUnblockAdapter, Waking, TxSeen, Posting, SpaceAgain
  <2>2. CASE ~MgrUnblockAdapter
    <3>1. mgrPc' # "idle"
      BY <2>2 DEF MgrStep, MgrWake, MgrIgnore, MgrComplete, MgrPostEvent, MgrReply,
         MgrNotifyAdapter, MgrMore
    <3> QED BY <1>0, <3>1 DEF Waking, TxSeen, Posting
  <2> QED BY <2>1, <2>2
<1> QED BY <1>1, <1>3, <1>4 DEF Waking

(* The adapter parks with a command only while the core is asleep and will *)
(* wake up, and stores the callback only together with a notification.     *)
LEMMA AdapterWakes == ASSUME TypeInv, Waking, AdStep PROVE Waking'
<1>0. UNCHANGED <<pc, mgrPc>> /\ mgrNotif \subseteq mgrNotif'
  BY DEF AdStep, AdWake, AdCommand, AdPost, AdTxDone, AdNextCommand, AdPark, AdOutside,
     appVars, mgrVars
<1>1. CASE AdWake
  <2>1. MgrTold'
    BY <1>0, <1>1 DEF AdWake, Waking, MgrTold, Posting
  <2>2. CmdSeen'
    BY <1>0, <1>1 DEF AdWake, Waking, CmdSeen, AdTold, AdRuns, sleepVars
  <2>3. txDoneCb' => txDoneCb /\ ~(Len(adEvtQ) < AdEvtQLen) /\ UNCHANGED adBlocked
    BY <1>1 DEF AdWake, TypeInv, TypeOK, AdapterOK
  <2>4. txDoneCb' => adEvtQ # <<>>
    BY <2>3, SizesAssumption, EmptySeq
  <2>5. TxSeen'
    BY <1>0, <1>1, <2>3, <2>4 DEF AdWake, Waking, MgrTold, TxSeen, Posting, TypeInv,
       TypeOK, ManagerOK
  <2> QED BY <2>1, <2>2, <2>5 DEF Waking
<1>2. CASE AdCommand
  <2>1. MgrTold' /\ TxSeen'
    BY <1>0, <1>2 DEF AdCommand, Waking, MgrTold, TxSeen, Posting
  <2>2. CmdSeen'
    BY <1>0, <1>2 DEF AdCommand, Waking, CmdSeen, AdTold, AdRuns, MustWake, TypeInv, TypeOK,
       StackOK
  <2> QED BY <2>1, <2>2 DEF Waking
<1>3. CASE AdPost
  <2>1. adPc' # "idle" /\ UNCHANGED <<sleep, wakeReq, adCmdQ, adNotif, adBits, txDoneCb>> /\ ~txDoneCb
    BY <1>3 DEF AdPost, StackMayWrite, sleepVars
  <2>2. MgrTold'
    BY <1>0, <1>3 DEF AdPost, Waking, MgrTold, Posting
  <2> QED BY <1>0, <1>3, <2>1, <2>2 DEF AdPost, Waking, CmdSeen, TxSeen, AdTold, AdRuns
<1>4. CASE AdTxDone
  BY <1>0, <1>4 DEF AdTxDone, Waking, MgrTold, CmdSeen, TxSeen, Posting, AdTold, AdRuns,
     QueueFull, sleepVars, TypeInv, TypeOK, QueuesOK
<1>5. CASE AdNextCommand
  BY <1>0, <1>5 DEF AdNextCommand, Waking, MgrTold, CmdSeen, TxSeen, Posting, AdTold, AdRuns,
     sleepVars
<1>6. CASE AdPark
  BY <1>0, <1>6 DEF AdPark, Waking, MgrTold, CmdSeen, TxSeen, Posting, AdTold, AdRuns
<1> QED BY <1>1, <1>2, <1>3, <1>4, <1>5, <1>6 DEF AdStep

(* The interrupts and the stack notify the adapter. *)
LEMMA StackWakes ==
  ASSUME Waking, IsrStep \/ Answers \/ Indicates \/ UNCHANGED vars
  PROVE  Waking'
<1>1. CASE IsrStep
  BY <1>1 DEF IsrStep, WakeupIsr, AwakeIsr, IsrOutside, appVars, mgrVars, adVars, Waking,
     MgrTold, CmdSeen, TxSeen, Posting, AdTold, AdRuns
<1>2. CASE Answers
  BY <1>2 DEF Answers, StackAnswer, IsrOutside, appVars, mgrVars, adVars, sleepVars, Waking,
     MgrTold, CmdSeen, TxSeen, Posting, AdTold, AdRuns
<1>3. CASE Indicates
  BY <1>3 DEF Indicates, StackIndicate, IsrOutside, appVars, mgrVars, adVars, sleepVars, Waking,
     MgrTold, CmdSeen, TxSeen, Posting, AdTold, AdRuns
<1>4. CASE UNCHANGED vars
  BY <1>4 DEF vars, appVars, mgrVars, adVars, sleepVars, Waking,
     MgrTold, CmdSeen, TxSeen, Posting, AdTold, AdRuns
<1> QED BY <1>1, <1>2, <1>3, <1>4

(* Every step keeps both tasks awake. *)
LEMMA WakingNext == TypeInv /\ Waking /\ [Next]_vars => Waking'
  BY CallersWake, ManagerWakes, AdapterWakes, StackWakes DEF Next

(* Both tasks are awake in every reachable state. *)
LEMMA WakingAlways == Spec => [](TypeInv /\ Waking)
<1>1. Init => TypeInv /\ Waking
  BY TypeInit DEF Init, Waking, MgrTold, CmdSeen, TxSeen
<1> QED BY <1>1, WakingNext, TypeNext, PTL DEF Spec

(***************************************************************************)
(* The manager task never blocks on a message of the adapter: the bit that *)
(* is cleared at its wake-up is set again as long as the queue is not      *)
(* empty (ble_mgr_task), or the adapter is about to set it                 *)
(* (ble_stack_io_write).                                                   *)
(***************************************************************************)
THEOREM ManagerStaysAwake == Spec => []ManagerAwake
<1>1. Waking => ManagerAwake
  BY DEF Waking, MgrTold, ManagerAwake, Posting
<1> QED BY <1>1, WakingAlways, PTL

(***************************************************************************)
(* The adapter task never blocks on a command, unless the core sleeps and  *)
(* will wake up, nor with a TX done callback that nobody will announce,    *)
(* whatever the order of its notifications, of the sleep of the core and   *)
(* of the manager's look at the queue (ad_ble_task, ble_mgr_task).         *)
(***************************************************************************)
THEOREM AdapterStaysAwake == Spec => []AdapterAwake
<1>1. Waking => AdapterAwake
  BY DEF Waking, CmdSeen, TxSeen, AdTold, AdRuns, AdapterAwake
<1> QED BY <1>1, WakingAlways, PTL

-----------------------------------------------------------------------------
(***************************************************************************)
(* The transport.  Until BLE is enabled only the initialisation is under   *)
(* way, afterwards it never is again, and while the adapter serves the     *)
(* stack its queue has room or the stack may not write.                    *)
(***************************************************************************)
Only(q)    == \A i \in 1..Len(q) : q[i].op = "enable"
Without(q) == \A i \in 1..Len(q) : q[i].op # "enable"

Starting ==
  ~enabled => /\ Only(adCmdQ) /\ Only(stackOut) /\ Only(adEvtQ)
              /\ mgrMsg.op \in {"none", "enable"} /\ mgrPc # "notify"
              /\ stackPend = {} /\ currentOp # "stack"
              /\ \A a \in Apps : cmd[a].op \in {"none", "register", "enable"}
Started ==
  enabled => /\ Without(adCmdQ) /\ Without(stackOut) /\ Without(adEvtQ)
             /\ mgrMsg.op # "enable"
             /\ currentOp # "stack" => stackPend = {} /\ stackOut = <<>> /\ adEvtQ = <<>>
             /\ \A a \in Apps : pc[a] \in {"acquire", "handler", "send"} => cmd[a].op # "enable"
Room ==
  /\ currentOp = "none" => stackOut = <<>>
  /\ adPc = "posted" => currentOp = "stack"
  /\ currentOp = "stack" /\ adPc # "posted" /\ ~txDoneCb => Len(adEvtQ) < AdEvtQLen
OnlyReg == \A a \in Apps : cmd[a].op = "enable" => a = RegApp

Transport == Starting /\ Started /\ Room /\ OnlyReg

(* What is in a queue with an element more, *)
LEMMA AppendKinds ==
  ASSUME NEW S, NEW q \in Seq(S), NEW x \in S
  PROVE  /\ Only(q) /\ x.op = "enable" => Only(Append(q, x))
         /\ Without(q) /\ x.op # "enable" => Without(Append(q, x))
  BY Put DEF Only, Without
(* with an element less, *)
LEMMA TailKinds ==
  ASSUME NEW S, NEW q \in Seq(S), q # <<>>
  PROVE  /\ Only(q) => Only(Tail(q)) /\ Head(q).op = "enable"
         /\ Without(q) => Without(Tail(q)) /\ Head(q).op # "enable"
  BY Pop DEF Only, Without
(* and nothing when there can be neither. *)
LEMMA NoKinds ==
  ASSUME NEW S, NEW q \in Seq(S)
  PROVE  /\ Only(q) /\ Clear(q) => q = <<>>
         /\ q = <<>> => Without(q) /\ Only(q)
<1>1. Len(q) \in Nat /\ (q = <<>> <=> Len(q) = 0)
  BY EmptySeq, LenProperties
<1> QED BY <1>1 DEF Only, Without, Clear, Waiting

(* The queues of the transport are typed. *)
LEMMA Queues ==
  ASSUME TypeInv
  PROVE  /\ adCmdQ \in Seq(AdCmds) /\ stackOut \in Seq(AdEvts) /\ adEvtQ \in Seq(AdEvts)
         /\ Len(adEvtQ) \in Nat /\ Len(adEvtQ) <= AdEvtQLen
         /\ AdEvtQLen \in Nat \ {0} /\ Len(<<>>) = 0
  BY SizesAssumption, LenProperties, EmptySeq DEF TypeInv, TypeOK, QueuesOK, StackOK

(* The applications queue commands that fit the state of BLE. *)
LEMMA CallersTransport ==
  ASSUME TypeInv, Transport,
         AppChoice \/ LoopStep \/ \E a \in Apps : CommandStep(a) \/ EventStep(a)
  PROVE  Transport'
<1>0. pc \in [Apps -> AppPcs] /\ cmd \in [Apps -> Cmds \cup {NoCmd}] /\ CmdInv
  BY DEF TypeInv, TypeOK, AppsOK
<1>1. UNCHANGED <<mgrPc, mgrMsg, adEvtQ, adPc, currentOp, txDoneCb, stackPend, stackOut, enabled>>
  BY CallersOutside DEF mgrVars, adVars
<1>2. ASSUME NEW a \in Apps, NEW op \in Ops, Call(a, op)
      PROVE  /\ cmd'[a].op = op /\ pc'[a] = "acquire" /\ adCmdQ' = adCmdQ
             /\ \A b \in Apps \ {a} : cmd'[b] = cmd[b] /\ pc'[b] = pc[b]
             /\ op = "enable" => a = RegApp /\ ~enabled
             /\ ~enabled => op \in {"register", "enable"}
  BY <1>0, <1>2 DEF Call, MayIssue, Goto
<1>3. ASSUME ~ \E a \in Apps, op \in Ops : Call(a, op)
      PROVE  /\ cmd' = cmd
             /\ \A a \in Apps : pc'[a] \in {"acquire", "handler", "send"} =>
                  pc[a] \in {"acquire", "handler", "send"} \/ cmd[a].op = "reset"
             /\ \/ adCmdQ' = adCmdQ
                \/ \E a \in Apps : pc[a] = "send" /\ adCmdQ' = Append(adCmdQ, cmd[a])
  <2>1. ASSUME NEW a \in Apps, CommandStep(a)
        PROVE  /\ cmd' = cmd
               /\ \A b \in Apps : pc'[b] \in {"acquire", "handler", "send"} =>
                    pc[b] \in {"acquire", "handler", "send"} \/ cmd[b].op = "reset"
               /\ adCmdQ' = adCmdQ \/ (pc[a] = "send" /\ adCmdQ' = Append(adCmdQ, cmd[a]))
    BY <1>0, <2>1 DEF CommandStep, Acquire, HandleImmediate, HandleSending, SendToAdapter,
       NotifyAdapter, RespondAtOnce, TakeResponse, Release, Goto, TypeInv, TypeOK, AppsOK
  <2>2. ASSUME NEW a \in Apps, EventStep(a)
        PROVE  /\ cmd' = cmd /\ adCmdQ' = adCmdQ
               /\ \A b \in Apps : pc'[b] \in {"acquire", "handler", "send"} =>
                    pc[b] \in {"acquire", "handler", "send"} \/ cmd[b].op = "reset"
    BY <1>0, <2>2 DEF EventStep, GetEvent, FindEmpty, PollNotification, PopNotified,
       NothingToGet, StartReset, Outside, Goto, CmdInv
  <2>3. ASSUME LoopStep \/ AppTimeout
        PROVE  /\ cmd' = cmd /\ adCmdQ' = adCmdQ
               /\ \A b \in Apps : pc'[b] \in {"acquire", "handler", "send"} =>
                    pc[b] \in {"acquire", "handler", "send"} \/ cmd[b].op = "reset"
    BY <1>0, <2>3 DEF LoopStep, EnterLoop, AppWake, EventHandled, CheckMore, AppTimeout,
       Outside, Goto
  <2> QED BY <1>3, <2>1, <2>2, <2>3 DEF AppChoice
<1>4. CASE \E a \in Apps, op \in Ops : Call(a, op)
  <2>1. PICK a \in Apps, op \in Ops : Call(a, op)
    BY <1>4
  <2>2. Starting'
    BY <1>1, <1>2, <2>1 DEF Transport, Starting
  <2>3. Started'
    BY <1>1, <1>2, <2>1 DEF Transport, Started
  <2>4. OnlyReg'
    BY <1>2, <2>1 DEF Transport, OnlyReg
  <2> QED BY <1>1, <2>2, <2>3, <2>4 DEF Transport, Room
<1>5. CASE ~ \E a \in Apps, op \in Ops : Call(a, op)
  <2>1. ASSUME NEW a \in Apps, pc[a] = "send"
        PROVE  /\ cmd[a] \in AdCmds
               /\ ~enabled => cmd[a].op = "enable"
               /\ enabled => cmd[a].op # "enable"
    BY <1>0, <2>1 DEF Transport, Starting, Started, CmdInv, Busy, Cmds, AdCmds, Sending, Waiting
  <2>2. (~enabled => Only(adCmdQ')) /\ (enabled => Without(adCmdQ'))
    <3>1. (~enabled => Only(adCmdQ)) /\ (enabled => Without(adCmdQ))
      BY DEF Transport, Starting, Started
    <3>2. ASSUME NEW a \in Apps, pc[a] = "send", adCmdQ' = Append(adCmdQ, cmd[a])
          PROVE  (~enabled => Only(adCmdQ')) /\ (enabled => Without(adCmdQ'))
      BY <2>1, <3>1, <3>2, Queues, AppendKinds
    <3> QED BY <1>3, <1>5, <3>1, <3>2
  <2>3. Starting' /\ Started'
    BY <1>1, <1>3, <1>5, <2>2 DEF Transport, Starting, Started
  <2> QED BY <1>1, <1>3, <1>5, <2>3 DEF Transport, Room, OnlyReg
<1> QED BY <1>4, <1>5

(* The manager takes messages from the queue, and its own replies belong   *)
(* to an enabled stack.  When it takes the completion of the               *)
(* initialisation, nothing else is under way (ExchangeInv).                *)
LEMMA ManagerTransport == ASSUME Inv, Transport, MgrStep PROVE Transport'
<1>0. TypeInv /\ UNCHANGED <<pc, cmd, adPc, currentOp, txDoneCb, stackPend, stackOut>>
  BY DEF Inv, MgrStep, MgrWake, MgrIgnore, MgrComplete, MgrPostEvent, MgrReply,
     MgrNotifyAdapter, MgrMore, MgrUnblockAdapter, MgrOutside, appVars, adVars, stackVars
<1>1. CASE MgrWake
  <2>1. UNCHANGED <<enabled, adCmdQ>>
    BY <1>1 DEF MgrWake
  <2>2. \/ /\ adEvtQ # <<>> /\ mgrMsg' = Head(adEvtQ) /\ adEvtQ' = Tail(adEvtQ)
           /\ mgrPc' = "dispatch"
        \/ UNCHANGED <<mgrMsg, adEvtQ>> /\ mgrPc' = "tail"
    BY <1>1 DEF MgrWake
  <2>3. adEvtQ # <<>> => Len(Tail(adEvtQ)) < AdEvtQLen
    BY <1>0, Queues, Pop
  <2>4. Room'
    BY <1>0, <2>2, <2>3 DEF Transport, Room
  <2>5. Starting' /\ Started'
    BY <1>0, <2>1, <2>2, Queues, TailKinds DEF Transport, Starting, Started
  <2> QED BY <1>0, <2>4, <2>5 DEF Transport, OnlyReg
<1>2. CASE MgrIgnore \/ MgrPostEvent \/ MgrMore \/ MgrUnblockAdapter \/ MgrNotifyAdapter
  <2>1. UNCHANGED <<enabled, adCmdQ, adEvtQ>> /\ mgrPc' # "notify"
        /\ (mgrMsg' = mgrMsg \/ mgrMsg' = NoMsg)
    BY <1>2 DEF MgrIgnore, MgrPostEvent, MgrMore, MgrUnblockAdapter, MgrNotifyAdapter
  <2> QED BY <1>0, <2>1 DEF Transport, Starting, Started, Room, OnlyReg, NoMsg, NoCmd
<1>3. CASE MgrReply
  <2>1. /\ UNCHANGED <<enabled, adEvtQ>> /\ adCmdQ' = Append(adCmdQ, [op |-> "auto", id |-> 0])
        /\ mgrMsg.op = "req" /\ mgrMsg' = NoMsg
    BY <1>3 DEF MgrReply
  <2>2. enabled
    BY <2>1 DEF Transport, Starting
  <2>3. [op |-> "auto", id |-> 0] \in AdCmds
    BY SizesAssumption DEF AdCmds, Ids
  <2>4. Without(adCmdQ')
    BY <1>0, <2>1, <2>2, <2>3, Queues, AppendKinds DEF Transport, Started
  <2> QED BY <1>0, <2>1, <2>2, <2>4 DEF Transport, Starting, Started, Room, OnlyReg, NoMsg, NoCmd
<1>4. CASE MgrComplete
  <2>1. /\ UNCHANGED <<adCmdQ, adEvtQ>> /\ mgrMsg' = NoMsg /\ mgrPc' = "more"
        /\ enabled' = (enabled \/ mgrMsg.op = "enable")
    BY <1>4 DEF MgrComplete
  <2>2. Room' /\ OnlyReg'
    BY <1>0, <2>1 DEF Transport, Room, OnlyReg
  <2>3. CASE enabled \/ mgrMsg.op # "enable"
    <3>1. enabled' = enabled
      BY <2>1, <2>3 DEF Inv, TypeInv, TypeOK, ServiceOK
    <3> QED BY <1>0, <2>1, <2>2, <3>1 DEF Transport, Starting, Started, NoMsg, NoCmd
  <2>4. CASE ~enabled /\ mgrMsg.op = "enable"
    <3>1. mgrMsg.op \in Waiting
      BY <2>4 DEF Waiting
    <3>2. PICK a \in Apps : Somebody(a)
      BY <3>1 DEF Inv, ExchangeInv, Nobody, Quiet, ClearMsg
    <3>3. /\ pc[a] \in {"notify", "wait"} /\ cmd[a] = mgrMsg
          /\ Clear(adCmdQ) /\ Clear(stackOut) /\ Clear(adEvtQ)
      BY <3>1, <3>2 DEF Somebody, Waits, Quiet, UnderWay, ClearMsg
    <3>4. adCmdQ = <<>> /\ stackOut = <<>> /\ adEvtQ = <<>>
      BY <1>0, <2>4, <3>3, Queues, NoKinds DEF Transport, Starting
    <3>5. Without(<<>>)
      BY <1>0, <3>4, Queues, NoKinds
    <3>6. \A b \in Apps : pc[b] \in {"acquire", "handler", "send"} => cmd[b].op # "enable"
      BY <2>4, <3>3 DEF Transport, OnlyReg
    <3>7. Started'
      BY <1>0, <2>1, <2>4, <3>4, <3>5, <3>6 DEF Transport, Starting, Started, NoMsg, NoCmd
    <3> QED BY <2>1, <2>2, <2>4, <3>7 DEF Transport, Starting
  <2> QED BY <2>3, <2>4
<1> QED BY <1>1, <1>2, <1>3, <1>4 DEF MgrStep

(* A command that the adapter takes.  *)
LEMMA DeliverTransport ==
  ASSUME TypeInv, Transport, adCmdQ # <<>>, adCmdQ' = Tail(adCmdQ), Deliver(Head(adCmdQ)),
         adPc # "posted", adPc' # "posted",
         UNCHANGED <<pc, cmd, mgrPc, mgrMsg, adEvtQ, txDoneCb, enabled>>
  PROVE  Transport'
<1> DEFINE m == Head(adCmdQ)
<1>1. m \in AdCmds
  BY Queues, Pop
<1>2. (~enabled => Only(adCmdQ') /\ m.op = "enable") /\ (enabled => Without(adCmdQ') /\ m.op # "enable")
  BY Queues, TailKinds DEF Transport, Starting, Started
<1>3. CASE ~enabled
  <2>1. currentOp' = "adapter" /\ stackPend' = {} /\ stackOut' = Append(stackOut, m)
    BY <1>2, <1>3 DEF Deliver, Transport, Starting
  <2>2. m \in AdEvts
    BY <1>1, <1>2, <1>3 DEF AdCmds, AdEvts, Waiting
  <2>3. Only(stackOut')
    BY <1>2, <1>3, <2>1, <2>2, Queues, AppendKinds DEF Transport, Starting
  <2> QED BY <1>2, <1>3, <2>1, <2>3 DEF Transport, Starting, Started, Room, OnlyReg
<1>4. CASE enabled
  <2>1. currentOp' = "stack" /\ stackOut' = stackOut
    BY <1>2, <1>4 DEF Deliver
  <2>2. currentOp # "stack" => Len(adEvtQ) < AdEvtQLen
    BY <1>4, Queues DEF Transport, Started
  <2>3. Room'
    BY <2>1, <2>2 DEF Transport, Room
  <2> QED BY <1>2, <1>4, <2>1, <2>3 DEF Transport, Starting, Started, OnlyReg
<1> QED BY <1>3, <1>4

(* The adapter and the stack. *)
LEMMA AdapterTransport == ASSUME TypeInv, Waking, Transport, AdStep PROVE Transport'
<1>0. UNCHANGED <<pc, cmd, mgrPc, mgrMsg, enabled>>
  BY DEF AdStep, AdWake, AdCommand, AdPost, AdTxDone, AdNextCommand, AdPark, AdOutside,
     appVars, mgrVars
<1>1. CASE AdWake
  <2>1. UNCHANGED <<adCmdQ, adEvtQ, currentOp, stackPend, stackOut>> /\ adPc = "idle" /\ adPc' = "command"
        /\ (txDoneCb' = txDoneCb \/ Len(adEvtQ) < AdEvtQLen)
    BY <1>1 DEF AdWake
  <2> QED BY <1>0, <2>1 DEF Transport, Starting, Started, Room, OnlyReg
<1>2. CASE AdCommand
  <2>1. UNCHANGED <<adEvtQ, txDoneCb>> /\ adPc = "command" /\ adPc' = "loop"
    BY <1>2 DEF AdCommand
  <2>2. CASE "cmd" \in adBits /\ adCmdQ # <<>>
    BY <1>0, <1>2, <2>1, <2>2, DeliverTransport DEF AdCommand
  <2>3. CASE ~("cmd" \in adBits /\ adCmdQ # <<>>)
    BY <1>0, <1>2, <2>1, <2>3 DEF AdCommand, Transport, Starting, Started, Room, OnlyReg
  <2> QED BY <2>2, <2>3
<1>3. CASE AdPost
  <2>1. UNCHANGED <<adCmdQ, currentOp, txDoneCb, stackPend>> /\ stackOut # <<>> /\ ~txDoneCb
    BY <1>3 DEF AdPost, StackMayWrite
  <2>2. CASE Len(adEvtQ) < AdEvtQLen
    <3>1. /\ adEvtQ' = Append(adEvtQ, Head(stackOut)) /\ stackOut' = Tail(stackOut)
          /\ adPc' = IF currentOp = "adapter" THEN "postedInit" ELSE "posted"
      BY <1>3, <2>2 DEF AdPost
    <3>2. Head(stackOut) \in AdEvts
      BY <2>1, Queues, Pop
    <3>3. ~enabled => Only(adEvtQ') /\ Only(stackOut')
      BY <2>1, <3>1, <3>2, Queues, AppendKinds, TailKinds DEF Transport, Starting
    <3>4. enabled => Without(adEvtQ') /\ Without(stackOut') /\ currentOp = "stack"
      BY <2>1, <3>1, <3>2, Queues, AppendKinds, TailKinds DEF Transport, Started
    <3>5. currentOp # "none" /\ currentOp \in {"none", "adapter", "stack"}
      BY <2>1 DEF Transport, Room, TypeInv, TypeOK, AdapterOK
    <3>6. Room'
      BY <2>1, <3>1, <3>5 DEF Room
    <3> QED BY <1>0, <2>1, <3>3, <3>4, <3>6 DEF Transport, Starting, Started, OnlyReg
  <2>3. CASE ~(Len(adEvtQ) < AdEvtQLen)
    BY <1>0, <1>3, <2>1, <2>3 DEF AdPost, Transport, Starting, Started, Room, OnlyReg
  <2> QED BY <2>2, <2>3
<1>4. CASE AdTxDone
  <2>1. /\ UNCHANGED <<adCmdQ, adEvtQ, currentOp, stackPend, stackOut>> /\ Posting
        /\ adPc' = "loop"
        /\ ~txDoneCb' => adPc # "posted" \/ Len(adEvtQ) # AdEvtQLen
    BY <1>4 DEF AdTxDone, QueueFull, Posting
  <2>2. ~txDoneCb
    BY <2>1 DEF Waking, TxSeen
  <2>3. currentOp = "stack" /\ ~txDoneCb' => Len(adEvtQ) < AdEvtQLen
    BY <2>1, <2>2, Queues DEF Transport, Room, Posting
  <2>4. Room'
    BY <2>1, <2>3 DEF Transport, Room
  <2> QED BY <1>0, <2>1, <2>4 DEF Transport, Starting, Started, OnlyReg
<1>5. CASE AdNextCommand
  BY <1>0, <1>5, DeliverTransport DEF AdNextCommand
<1>6. CASE AdPark
  <2>1. UNCHANGED <<adCmdQ, adEvtQ, currentOp, stackPend, stackOut, txDoneCb>>
        /\ adPc = "loop" /\ adPc' = "idle"
    BY <1>6 DEF AdPark
  <2> QED BY <1>0, <2>1 DEF Transport, Starting, Started, Room, OnlyReg
<1> QED BY <1>1, <1>2, <1>3, <1>4, <1>5, <1>6 DEF AdStep

(* The stack has something to say only once BLE is enabled. *)
LEMMA StackTransport ==
  ASSUME TypeInv, Transport, IsrStep \/ Answers \/ Indicates \/ UNCHANGED vars
  PROVE  Transport'
<1>0. UNCHANGED <<pc, cmd, mgrPc, mgrMsg, adPc, currentOp, txDoneCb, enabled, adCmdQ, adEvtQ>>
  BY DEF IsrStep, WakeupIsr, AwakeIsr, Answers, StackAnswer, Indicates, StackIndicate,
     IsrOutside, appVars, mgrVars, adVars, vars
<1>1. CASE IsrStep \/ UNCHANGED vars
  <2>1. UNCHANGED <<stackPend, stackOut>>
    BY <1>1 DEF IsrStep, WakeupIsr, AwakeIsr, stackVars, vars
  <2> QED BY <1>0, <2>1 DEF Transport, Starting, Started, Room, OnlyReg
<1>2. ASSUME Answers \/ Indicates
      PROVE  /\ currentOp = "stack"
             /\ stackPend' \subseteq stackPend
             /\ \E x \in AdEvts : x.op # "enable" /\ stackOut' = Append(stackOut, x)
  <2>1. CASE Answers
    <3>1. PICK m \in stackPend : StackAnswer(m)
      BY <2>1 DEF Answers
    <3>2. m \in AdCmds /\ m.op \in {"fire", "cfg", "reset"}
      BY DEF TypeInv, TypeOK, StackOK
    <3>3. [op |-> "ind", id |-> 0] \in AdEvts /\ (m.op # "fire" => m \in AdEvts)
      BY <3>2, SizesAssumption DEF AdEvts, AdCmds, Waiting, Ids
    <3>4. currentOp = "stack"
      BY DEF Transport, Starting, Started
    <3> QED BY <3>1, <3>2, <3>3, <3>4 DEF StackAnswer
  <2>2. CASE Indicates
    <3>1. PICK op \in {"ind", "req"} : StackIndicate(op)
      BY <2>2 DEF Indicates
    <3>2. [op |-> op, id |-> 0] \in AdEvts
      BY SizesAssumption DEF AdEvts, Ids
    <3> QED BY <3>1, <3>2 DEF StackIndicate
  <2> QED BY <1>2, <2>1, <2>2
<1>3. CASE Answers \/ Indicates
  <2>1. enabled /\ currentOp = "stack"
    BY <1>2, <1>3 DEF Transport, Starting, TypeInv, TypeOK, ServiceOK
  <2>2. Without(stackOut')
    BY <1>2, <1>3, <2>1, Queues, AppendKinds DEF Transport, Started
  <2> QED BY <1>0, <2>1, <2>2 DEF Transport, Starting, Started, Room, OnlyReg
<1> QED BY <1>1, <1>3

(* Every step keeps the transport in order. *)
LEMMA TransportNext == Inv /\ Waking /\ Transport /\ [Next]_vars => Transport'
  BY CallersTransport, ManagerTransport, AdapterTransport, StackTransport DEF Next, Inv

(* The two assertions are never reached with a false condition. *)
LEMMA AssertsNext ==
  Inv /\ Transport /\ TransportAsserts /\ [Next]_vars => TransportAsserts'
<1> SUFFICES ASSUME Inv, Transport, TransportAsserts, [Next]_vars
             PROVE  asserts' \subseteq asserts \cup {"empty_event_list"}
  BY DEF TransportAsserts
<1>1. ASSUME NEW a \in Apps, CommandStep(a) PROVE asserts' = asserts
  <2>1. CASE Release(a)
    <3>1. rsp[a] = Own(a)
      BY <2>1 DEF Release, Inv, ResponseInv
    <3>2. rsp[a].op = cmd[a].op
      BY <3>1 DEF Own
    <3> QED BY <2>1, <3>2 DEF Release
  <2>2. CASE ~Release(a)
    BY <1>1, <2>2 DEF CommandStep, Acquire, HandleImmediate, HandleSending, SendToAdapter,
       NotifyAdapter, RespondAtOnce, TakeResponse
  <2> QED BY <2>1, <2>2
<1>2. ASSUME NEW a \in Apps, EventStep(a) PROVE asserts' \subseteq asserts \cup {"empty_event_list"}
  BY <1>2 DEF EventStep, GetEvent, FindEmpty, PollNotification, PopNotified, NothingToGet,
     StartReset
<1>3. CASE LoopStep \/ AppChoice
  BY <1>3 DEF LoopStep, EnterLoop, AppWake, EventHandled, CheckMore, AppChoice, AppTimeout,
     Call
<1>4. CASE MgrStep
  BY <1>4 DEF MgrStep, MgrWake, MgrIgnore, MgrComplete, MgrPostEvent, MgrReply,
     MgrNotifyAdapter, MgrMore, MgrUnblockAdapter, MgrOutside
<1>5. CASE AdPost
  <2>1. CASE currentOp = "stack"
    <3>1. Len(adEvtQ) < AdEvtQLen
      BY <1>5, <2>1 DEF AdPost, StackMayWrite, Transport, Room
    <3> QED BY <1>5, <3>1 DEF AdPost
  <2>2. CASE currentOp # "stack"
    <3>1. stackOut # <<>> /\ TypeInv
      BY <1>5 DEF AdPost, StackMayWrite, Inv
    <3>2. Only(stackOut) /\ Only(adEvtQ)
      BY <2>2, <3>1 DEF Transport, Starting, Started
    <3>3. ~Clear(stackOut)
      BY <3>1, <3>2, Queues, NoKinds
    <3>4. Clear(adEvtQ)
      BY <3>3 DEF Inv, ExchangeInv, Nobody, Somebody, Quiet, UnderWay
    <3>5. adEvtQ = <<>>
      BY <3>1, <3>2, <3>4, Queues, NoKinds
    <3>6. Len(adEvtQ) < AdEvtQLen
      BY <3>1, <3>5, Queues
    <3> QED BY <1>5, <3>6 DEF AdPost
  <2> QED BY <2>1, <2>2
<1>6. CASE AdStep /\ ~AdPost
  BY <1>6 DEF AdStep, AdWake, AdCommand, AdTxDone, AdNextCommand, AdPark
<1>7. CASE IsrStep \/ Answers \/ Indicates \/ UNCHANGED vars
  BY <1>7 DEF IsrStep, WakeupIsr, AwakeIsr, Answers, StackAnswer, Indicates, StackIndicate,
     IsrOutside, vars
<1> QED BY <1>1, <1>2, <1>3, <1>4, <1>5, <1>6, <1>7 DEF Next

(* The transport is in order in every reachable state. *)
LEMMA TransportAlways == Spec => []Transport
<1>1. Init => Transport
  BY EmptySeq DEF Init, Transport, Starting, Started, Room, OnlyReg, Only, Without, NoMsg,
     NoCmd
<1> QED BY <1>1, Invariance, WakingAlways, TransportNext, PTL DEF Spec

(***************************************************************************)
(* The stack never writes into a full event queue and no call gets the     *)
(* response of another operation: the assertions of ble_stack_io_write and *)
(* ble_cmd_execute hold, for every length of the queue (ad_ble.c,          *)
(* ble_mgr_helper.c).                                                      *)
(***************************************************************************)
THEOREM AssertsHold == Spec => []TransportAsserts
<1>1. Init => TransportAsserts
  BY DEF Init, TransportAsserts
<1> QED BY <1>1, Invariance, TransportAlways, AssertsNext, PTL DEF Spec

-----------------------------------------------------------------------------
(***************************************************************************)
(* Proofs that the registered application is told of every event and never *)
(* asks an empty list, as long as nobody resets BLE: for any number of     *)
(* applications, events and other notifications of the task.               *)
(*                                                                         *)
(* The application clears all its bits when it wakes up and takes one      *)
(* event: whatever it leaves in the list is announced again at the end of  *)
(* its loop, and a bit that is set stands for an event that is still there *)
(* (Announced).  A reset drains the list of another task's events and      *)
(* takes its notifications: the argument does not extend to it.            *)
(***************************************************************************)

InCall == {"acquire", "handler", "send", "notify", "respond", "wait", "release"}
Looks  == {"get", "handle", "check"}

\* Without resets the list belongs to the registered application.
NoResets ==
  \A a \in Apps :
    /\ cmd[a].op # "reset"
    /\ pc[a] \in {"start", "idle"} \cup Looks \cup InCall
    /\ cmd[a].op = "register" => a = RegApp
    /\ cmd[a].op = "enable" => appTask # NoTask
    /\ a # RegApp => back[a] = "idle" /\ pc[a] \in {"idle"} \cup InCall
Registered ==
  /\ appTask \in {NoTask, RegApp}
  /\ enabled => appTask # NoTask
  /\ evtList # <<>> => enabled

\* The notification stands for events, and for more than the one about to be taken.
InLoop == pc[RegApp] \in Looks \/ (pc[RegApp] \in InCall /\ back[RegApp] = "handle")
Announced ==
  /\ "ble" \in notif[RegApp] => pend[RegApp] /\ evtList # <<>>
  /\ pc[RegApp] = "get" => evtList # <<>> /\ ("ble" \in notif[RegApp] => Len(evtList) >= 2)
  /\ evtList # <<>> => "ble" \in notif[RegApp] \/ InLoop

EventInv == NoResets /\ Registered /\ Announced

-----------------------------------------------------------------------------
(* The types that the proof uses. *)
LEMMA EventTypes ==
  ASSUME TypeInv
  PROVE  /\ pc \in [Apps -> AppPcs] /\ back \in [Apps -> {"start", "idle", "handle"}]
         /\ cmd \in [Apps -> Cmds \cup {NoCmd}]
         /\ notif \in [Apps -> SUBSET Bits] /\ pend \in [Apps -> BOOLEAN]
         /\ evtList \in Seq(AdEvts) /\ RegApp \in Apps /\ NoTask # RegApp
  BY AppsAssumption DEF TypeInv, TypeOK, AppsOK, EventsOK

(* A list of two is not emptied by one event. *)
LEMMA TwoLeft ==
  ASSUME NEW S, NEW q \in Seq(S), q # <<>>, Len(q) >= 2
  PROVE  Tail(q) # <<>>
<1>1. Tail(q) \in Seq(S) /\ Len(Tail(q)) = Len(q) - 1 /\ Len(q) \in Nat
  BY Pop
<1>2. PICK n \in Nat : n = Len(Tail(q))
  BY <1>1, LenProperties
<1>3. n # 0
  BY <1>1, <1>2
<1> QED BY <1>1, <1>2, <1>3, EmptySeq

(* A command in progress announces and takes no event. *)
LEMMA EventsInCommand ==
  ASSUME TypeInv, EventInv, NEW a \in Apps, CommandStep(a)
  PROVE  EventInv'
<1>0. /\ UNCHANGED <<back, cmd, evtList, notif, pend, enabled>>
      /\ pc[a] \in InCall /\ pc' = [pc EXCEPT ![a] = pc'[a]]
      /\ pc'[a] \in InCall \/ pc'[a] = back[a]
  BY EventTypes DEF CommandStep, Acquire, HandleImmediate, HandleSending, SendToAdapter,
     NotifyAdapter, RespondAtOnce, TakeResponse, Release, Goto, InCall, evtVars
<1>1. appTask' = appTask \/ (cmd[a].op = "register" /\ appTask' = a)
  BY DEF CommandStep, Acquire, HandleImmediate, HandleSending, SendToAdapter,
     NotifyAdapter, RespondAtOnce, TakeResponse, Release, evtVars
<1>2. appTask' = appTask \/ appTask' = RegApp
  BY <1>1 DEF EventInv, NoResets
<1>3. back[a] \in {"start", "idle", "handle"}
  BY EventTypes
<1>4. \A b \in Apps \ {a} : pc'[b] = pc[b]
  BY <1>0, EventTypes
<1>5. NoResets'
  <2> SUFFICES ASSUME NEW b \in Apps
               PROVE  /\ cmd'[b].op # "reset"
                      /\ pc'[b] \in {"start", "idle"} \cup Looks \cup InCall
                      /\ cmd'[b].op = "register" => b = RegApp
                      /\ cmd'[b].op = "enable" => appTask' # NoTask
                      /\ b # RegApp => back'[b] = "idle" /\ pc'[b] \in {"idle"} \cup InCall
    BY DEF NoResets
  <2>1. pc'[b] \in {"start", "idle"} \cup Looks \cup InCall
    BY <1>0, <1>3, <1>4 DEF EventInv, NoResets, Looks
  <2>2. b # RegApp => pc'[b] \in {"idle"} \cup InCall
    BY <1>0, <1>4 DEF EventInv, NoResets
  <2> QED BY <1>0, <1>2, <2>1, <2>2, EventTypes DEF EventInv, NoResets
<1>6. Registered'
  BY <1>0, <1>2, EventTypes DEF EventInv, Registered
<1>7. pc'[RegApp] # "get" \/ pc[RegApp] = "get"
  BY <1>0, <1>3, <1>4, EventTypes DEF InCall
<1>8. InLoop => InLoop'
  BY <1>0, <1>4, EventTypes DEF InLoop, Looks, InCall
<1> QED BY <1>0, <1>5, <1>6, <1>7, <1>8 DEF EventInv, Announced

(* Of ble_mgr_event_queue_get only the first half runs: there is an event. *)
LEMMA EventsTaken ==
  ASSUME TypeInv, EventInv, NEW a \in Apps, EventStep(a)
  PROVE  EventInv' /\ asserts' = asserts
<1>1. /\ pc[a] \in {"start", "idle"} \cup Looks \cup InCall
      /\ cmd[a].op # "reset" /\ (a # RegApp => pc[a] \in {"idle"} \cup InCall)
  BY DEF EventInv, NoResets
<1>2. ~(PollNotification(a) \/ PopNotified(a) \/ NothingToGet(a) \/ StartReset(a))
  BY <1>1 DEF PollNotification, PopNotified, NothingToGet, StartReset, Looks, InCall
<1>3. GetEvent(a) \/ FindEmpty(a)
  BY <1>2 DEF EventStep
<1>4. a = RegApp /\ pc[RegApp] = "get"
  BY <1>1, <1>3 DEF GetEvent, FindEmpty, InCall, Looks
<1>5. evtList # <<>>
  BY <1>4 DEF EventInv, Announced
<1>6. GetEvent(a)
  BY <1>3, <1>5 DEF FindEmpty
<1>7. /\ evtList' = Tail(evtList) /\ pc' = [pc EXCEPT ![RegApp] = "handle"]
      /\ UNCHANGED <<back, cmd, appTask, notif, pend, enabled, asserts>>
  BY <1>4, <1>6 DEF GetEvent, Goto, Outside
<1>8. Len(evtList) >= 2 => Tail(evtList) # <<>>
  BY <1>5, EventTypes, TwoLeft
<1>9. pc'[RegApp] = "handle" /\ \A b \in Apps \ {RegApp} : pc'[b] = pc[b]
  BY <1>7, EventTypes
<1>10. NoResets'
  BY <1>7, <1>9 DEF EventInv, NoResets, Looks
<1>11. Registered'
  BY <1>5, <1>7 DEF EventInv, Registered
<1>12. Announced'
  BY <1>4, <1>7, <1>8, <1>9 DEF EventInv, Announced, InLoop, Looks
<1> QED BY <1>7, <1>10, <1>11, <1>12 DEF EventInv

(* The loop announces what it leaves. *)
LEMMA EventsInLoop ==
  ASSUME TypeInv, EventInv, LoopStep
  PROVE  EventInv'
<1>0. UNCHANGED <<back, cmd, appTask, enabled, evtList>>
      /\ pc' = [pc EXCEPT ![RegApp] = pc'[RegApp]] /\ pc'[RegApp] \in {"idle", "get", "check"}
  BY EventTypes DEF LoopStep, EnterLoop, AppWake, EventHandled, CheckMore, Outside, Goto, evtVars
<1>1. NoResets' /\ Registered'
  <2>1. \A b \in Apps \ {RegApp} : pc'[b] = pc[b]
    BY <1>0, EventTypes
  <2> QED BY <1>0, <2>1 DEF EventInv, NoResets, Registered, Looks
<1>2. CASE EnterLoop
  BY <1>0, <1>1, <1>2, EventTypes DEF EnterLoop, Goto, evtVars, EventInv, Announced, InLoop, Looks, InCall
<1>3. CASE AppWake
  <2>1. notif'[RegApp] = {} /\ pc'[RegApp] = IF "ble" \in notif[RegApp] THEN "get" ELSE "idle"
    BY <1>3, EventTypes DEF AppWake, Goto
  <2>2. evtList # <<>> => "ble" \in notif[RegApp]
    BY <1>3 DEF AppWake, EventInv, Announced, InLoop, Looks, InCall
  <2>3. Announced'
    BY <1>0, <2>1, <2>2 DEF EventInv, Announced, InLoop, Looks
  <2> QED BY <1>1, <2>3 DEF EventInv
<1>4. CASE EventHandled
  <2>1. pc'[RegApp] = "check" /\ UNCHANGED <<notif, pend>>
    BY <1>4, EventTypes DEF EventHandled, Goto, evtVars
  <2> QED BY <1>0, <1>1, <2>1 DEF EventInv, Announced, InLoop, Looks
<1>5. CASE CheckMore
  <2>1. pc'[RegApp] = "idle"
    BY <1>5, EventTypes DEF CheckMore, Goto
  <2>2. CASE evtList # <<>>
    <3>1. "ble" \in notif'[RegApp] /\ pend'[RegApp]
      BY <1>5, <2>2, EventTypes DEF CheckMore, EventLeft, NotifyApp
    <3> QED BY <1>0, <1>1, <2>1, <2>2, <3>1 DEF EventInv, Announced
  <2>3. CASE evtList = <<>>
    <3>1. UNCHANGED <<notif, pend>>
      BY <1>5, <2>3 DEF CheckMore, EventLeft
    <3> QED BY <1>0, <1>1, <2>1, <2>3, <3>1 DEF EventInv, Announced
  <2> QED BY <2>2, <2>3
<1> QED BY <1>2, <1>3, <1>4, <1>5 DEF LoopStep

(* A call leaves the list alone; no call resets. *)
LEMMA EventsOfChoice ==
  ASSUME TypeInv, EventInv, "reset" \notin UserOps, AppChoice
  PROVE  EventInv'
<1>1. CASE AppTimeout
  <2>1. /\ UNCHANGED <<back, cmd, appTask, enabled, evtList, pc>>
        /\ "ble" \in notif'[RegApp] <=> "ble" \in notif[RegApp]
        /\ pend'[RegApp]
    BY <1>1, EventTypes DEF AppTimeout, NotifyApp, Outside
  <2> QED BY <2>1 DEF EventInv, NoResets, Registered, Announced, InLoop
<1>2. ASSUME NEW a \in Apps, NEW op \in Ops, Call(a, op) PROVE EventInv'
  <2>1. /\ UNCHANGED <<appTask, enabled, evtList, notif, pend>>
        /\ cmd'[a].op = op /\ back'[a] = pc[a] /\ pc'[a] = "acquire"
        /\ \A b \in Apps \ {a} : cmd'[b] = cmd[b] /\ back'[b] = back[b] /\ pc'[b] = pc[b]
        /\ pc[a] \in {"start", "handle"} \/ (pc[a] = "idle" /\ a # RegApp)
    BY <1>2, EventTypes DEF Call, Goto, evtVars
  <2>2. /\ op # "reset" /\ (op = "register" => a = RegApp)
        /\ op = "enable" => appTask # NoTask
    BY <1>2 DEF Call, MayIssue
  <2>3. NoResets'
    <3> SUFFICES ASSUME NEW b \in Apps
                 PROVE  /\ cmd'[b].op # "reset"
                        /\ pc'[b] \in {"start", "idle"} \cup Looks \cup InCall
                        /\ cmd'[b].op = "register" => b = RegApp
                        /\ cmd'[b].op = "enable" => appTask' # NoTask
                        /\ b # RegApp => back'[b] = "idle" /\ pc'[b] \in {"idle"} \cup InCall
      BY DEF NoResets
    <3>1. CASE b = a
      BY <2>1, <2>2, <3>1 DEF EventInv, NoResets, Looks, InCall
    <3>2. CASE b # a
      BY <2>1, <3>2 DEF EventInv, NoResets
    <3> QED BY <3>1, <3>2
  <2>4. Registered'
    BY <2>1 DEF EventInv, Registered
  <2>5. InLoop => InLoop'
    BY <2>1, EventTypes DEF InLoop, Looks, InCall
  <2>6. pc'[RegApp] = "get" => pc[RegApp] = "get"
    BY <2>1, EventTypes
  <2> QED BY <2>1, <2>3, <2>4, <2>5, <2>6 DEF EventInv, Announced
<1> QED BY <1>1, <1>2 DEF AppChoice

(* The manager adds an event and announces it; BLE is enabled by a task    *)
(* that has registered before.                                             *)
LEMMA EventsPosted ==
  ASSUME Inv, Transport, EventInv, MgrStep
  PROVE  EventInv'
<1>0. TypeInv /\ UNCHANGED <<pc, back, cmd, appTask>>
  BY DEF Inv, MgrStep, MgrWake, MgrIgnore, MgrComplete, MgrPostEvent, MgrReply,
     MgrNotifyAdapter, MgrMore, MgrUnblockAdapter, MgrOutside, appVars, evtVars
<1>1. CASE MgrPostEvent
  <2>1. /\ mgrMsg.op = "ind" /\ mgrMsg \in AdEvts /\ UNCHANGED enabled
        /\ evtList' = Append(evtList, mgrMsg)
    BY <1>0, <1>1 DEF MgrPostEvent, TypeInv, TypeOK, ManagerOK, NoMsg, NoCmd
  <2>2. enabled /\ appTask = RegApp
    BY <2>1 DEF Transport, Starting, EventInv, Registered
  <2>3. "ble" \in notif'[RegApp] /\ pend'[RegApp]
    BY <1>0, <1>1, <2>2, EventTypes DEF MgrPostEvent, NotifyApp
  <2>4. evtList' # <<>> /\ (evtList # <<>> => Len(evtList') >= 2)
    BY <1>0, <2>1, EventTypes, Put, Pop, EmptySeq
  <2>5. NoResets' /\ Registered'
    BY <1>0, <2>1, <2>2 DEF EventInv, NoResets, Registered
  <2>6. Announced'
    BY <1>0, <2>3, <2>4 DEF EventInv, Announced
  <2> QED BY <2>5, <2>6 DEF EventInv
<1>2. CASE ~MgrPostEvent
  <2>1. UNCHANGED <<evtList, notif, pend>>
    BY <1>2 DEF MgrStep, MgrWake, MgrIgnore, MgrComplete, MgrReply, MgrNotifyAdapter,
       MgrMore, MgrUnblockAdapter, evtVars
  <2>2. enabled' = enabled \/ (enabled' /\ mgrMsg.op = "enable")
    BY <1>0, <1>2 DEF MgrStep, MgrWake, MgrIgnore, MgrComplete, MgrReply, MgrNotifyAdapter,
       MgrMore, MgrUnblockAdapter, TypeInv, TypeOK, ServiceOK
  <2>3. mgrMsg.op = "enable" => appTask # NoTask
    <3>1. SUFFICES ASSUME mgrMsg.op = "enable" PROVE appTask # NoTask
      OBVIOUS
    <3>2. mgrMsg.op \in Waiting
      BY <3>1 DEF Waiting
    <3>3. PICK a \in Apps : Somebody(a)
      BY <3>2 DEF Inv, ExchangeInv, Nobody, Quiet, ClearMsg
    <3>4. cmd[a] = mgrMsg
      BY <3>2, <3>3 DEF Somebody, Quiet, UnderWay, ClearMsg
    <3> QED BY <3>1, <3>4 DEF EventInv, NoResets
  <2> QED BY <1>0, <2>1, <2>2, <2>3 DEF EventInv, NoResets, Registered, Announced, InLoop
<1> QED BY <1>1, <1>2

(* Nobody else touches the events. *)
LEMMA EventsAlone ==
  ASSUME EventInv, AdStep \/ IsrStep \/ Answers \/ Indicates \/ UNCHANGED vars
  PROVE  EventInv'
<1>1. UNCHANGED <<pc, back, cmd, appTask, enabled, evtList, notif, pend>>
  BY DEF AdStep, AdWake, AdCommand, AdPost, AdTxDone, AdNextCommand, AdPark, AdOutside,
     IsrStep, WakeupIsr, AwakeIsr, Answers, StackAnswer, Indicates, StackIndicate,
     IsrOutside, appVars, evtVars, vars
<1> QED BY <1>1 DEF EventInv, NoResets, Registered, Announced, InLoop

(* Every step keeps the invariant, *)
LEMMA EventNext ==
  ASSUME "reset" \notin UserOps
  PROVE  Inv /\ Transport /\ EventInv /\ [Next]_vars => EventInv'
  BY EventsInCommand, EventsTaken, EventsInLoop, EventsOfChoice, EventsPosted, EventsAlone
     DEF Next, Inv
(* and fails no assertion of the event list. *)
LEMMA PopNext == Inv /\ EventInv /\ NoEmptyPop /\ [Next]_vars => NoEmptyPop'
<1> SUFFICES ASSUME Inv, EventInv, [Next]_vars
             PROVE  asserts' \subseteq asserts \cup {"rsp_op_code", "evt_q_full"}
  BY DEF NoEmptyPop
<1>1. ASSUME NEW a \in Apps, CommandStep(a)
      PROVE  asserts' \subseteq asserts \cup {"rsp_op_code", "evt_q_full"}
  BY <1>1 DEF CommandStep, Acquire, HandleImmediate, HandleSending, SendToAdapter,
     NotifyAdapter, RespondAtOnce, TakeResponse, Release
<1>2. ASSUME NEW a \in Apps, EventStep(a) PROVE asserts' = asserts
  BY <1>2, EventsTaken DEF Inv
<1>3. CASE LoopStep \/ AppChoice
  BY <1>3 DEF LoopStep, EnterLoop, AppWake, EventHandled, CheckMore, AppChoice, AppTimeout,
     Call
<1>4. CASE MgrStep
  BY <1>4 DEF MgrStep, MgrWake, MgrIgnore, MgrComplete, MgrPostEvent, MgrReply,
     MgrNotifyAdapter, MgrMore, MgrUnblockAdapter, MgrOutside
<1>5. CASE AdStep
  BY <1>5 DEF AdStep, AdWake, AdCommand, AdPost, AdTxDone, AdNextCommand, AdPark
<1>6. CASE IsrStep \/ Answers \/ Indicates \/ UNCHANGED vars
  BY <1>6 DEF IsrStep, WakeupIsr, AwakeIsr, Answers, StackAnswer, Indicates, StackIndicate,
     IsrOutside, vars
<1> QED BY <1>1, <1>2, <1>3, <1>4, <1>5, <1>6 DEF Next

(* Without resets the invariant holds in every reachable state. *)
LEMMA EventsAlways ==
  ASSUME "reset" \notin UserOps
  PROVE  Spec => [](EventInv /\ NoEmptyPop)
<1>1. Init => EventInv /\ NoEmptyPop
  BY AppsAssumption DEF Init, EventInv, NoResets, Registered, Announced, NoEmptyPop, InLoop,
     Looks, NoCmd
<1> QED BY <1>1, EventNext, PopNext, Invariance, TransportAlways, PTL DEF Spec

(***************************************************************************)
(* No event is forgotten in the list: when the registered application      *)
(* blocks in its loop with an event queued, its notification is pending,   *)
(* whatever other notifications it gets and whatever commands it issues    *)
(* from its handlers, unless some task resets BLE (ble_mgr_event_queue_send*)
(* and ble_has_event).                                                     *)
(***************************************************************************)
THEOREM EventsAreAnnounced ==
  ASSUME "reset" \notin UserOps
  PROVE  Spec => []EventNotified
<1>1. EventInv => EventNotified
  BY DEF EventInv, Announced, InLoop, EventNotified, Looks, InCall
<1> QED BY <1>1, EventsAlways, PTL

(***************************************************************************)
(* The assertion of ble_mgr_event_queue_get that the event list is not     *)
(* empty after a notification holds as long as no task resets BLE: the     *)
(* loop asks only when there is an event.                                  *)
(***************************************************************************)
THEOREM NoListIsFoundEmpty ==
  ASSUME "reset" \notin UserOps
  PROVE  Spec => []NoEmptyPop
  BY EventsAlways, PTL
=============================================================================
