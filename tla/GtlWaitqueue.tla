---------------------------- MODULE GtlWaitqueue ----------------------------
(***************************************************************************)
(* The wait queue of ble_mgr_gtl.c under everything that uses it: the      *)
(* commands of the application (one at a time, under the interface lock),  *)
(* the requests that the manager task makes by itself (resolving the       *)
(* address of a new peer, encrypting a link on a security request), links  *)
(* that come and go, and ble_reset.  BleManager keeps of this queue only   *)
(* what concerns the answers of commands; here its order, its capacity,    *)
(* its flush and the connection of each element matter.                    *)
(*                                                                         *)
(* The manager task preempts the application, so each of its handlers is   *)
(* one step; the application can be preempted between the check of the     *)
(* device, the addition to the queue and the sending of the request,       *)
(* except where it holds the lock of the device parameters that the        *)
(* connection handlers take too.                                           *)
(***************************************************************************)
EXTENDS Naturals, Sequences, FiniteSets

CONSTANTS
  Conns,       \* connection indexes: numbers, 0 among them
  NoConn,      \* BLE_CONN_IDX_INVALID
  MaxLen,      \* WAITQUEUE_MAXLEN
  Kinds,       \* commands that the application may issue
  Central,     \* dg_configBLE_CENTRAL: whether links can be encrypted from here
  QuickResolve, \* external: a link is handled and its address resolved before the next comes up
  MaxReqs,     \* bound: requests in a behaviour, those of the manager included
  MaxLinks     \* bound: links established in a behaviour

ASSUME ConnsAssumption ==
  /\ Conns \subseteq Nat /\ 0 \in Conns
  /\ NoConn \notin Conns

ASSUME QueueAssumption ==
  /\ MaxLen \in Nat \ {0}
  /\ Kinds \subseteq {"config", "mtu", "rssi", "sec", "reset"}
  /\ Central \in BOOLEAN /\ QuickResolve \in BOOLEAN
  /\ MaxReqs \in Nat /\ MaxLinks \in Nat

VARIABLES
  queue,       \* waitqueue.queue[0 .. waitqueue.len - 1]
  full,        \* an element was added to a full queue: the OS_ASSERT of ble_gtl_waitqueue_add
  devs,        \* connections with a connected device in the storage
  resetting,   \* reset
  app,         \* the command of the application and how far its handler is
  rsp,         \* the response queue
  fired,       \* the callbacks that the last match or flush fired, and what they were handed
  tooLate,     \* history: the connection of the command went away before its element was added
  toStack,     \* requests on their way to the stack
  toMgr,       \* messages on their way to the manager task
  link,        \* external: links that are up
  pend,        \* external: requests that the stack has still to answer
  nReq, nLink  \* requests and links so far

stackVars == <<link, pend>>
MgrSide   == <<queue, full, devs, resetting, app, rsp, fired, tooLate>>
vars      == <<MgrSide, toStack, toMgr, stackVars, nReq, nLink>>

(***************************************************************************)
(* "what" stands for the message an element waits for, that is msg_id and  *)
(* ext_id: the completions of GAPM_SET_DEV_CONFIG, GAPM_RESOLV_ADDR,       *)
(* GAPM_RESET and GAPC_ENCRYPT, and GAPC_CON_RSSI_IND.  "about" is the     *)
(* connection that the parameter of the callback names, "id" the serial    *)
(* number of the request.                                                  *)
(***************************************************************************)
Ids      == 0..MaxReqs
ConnIds  == Conns \cup {NoConn}
Requests == [what : {"config", "resolve", "reset", "rssi", "encrypt"}, conn : ConnIds,
             about : ConnIds, id : Ids]
Messages == [what : {"config", "resolve", "reset", "rssi", "encrypt", "connected",
                     "disconnected", "security"}, conn : ConnIds, id : Ids]

Request(what, conn, about) == [what |-> what, conn |-> conn, about |-> about, id |-> nReq + 1]
Message(what, conn, id)    == [what |-> what, conn |-> conn, id |-> id]

NoReq  == [what |-> "none", conn |-> NoConn, about |-> NoConn, id |-> 0]
Idle   == [pc |-> "idle", req |-> NoReq]
NoRsp  == <<>>

Init ==
  /\ queue = <<>> /\ full = FALSE
  /\ devs = {} /\ resetting = FALSE
  /\ app = Idle /\ rsp = NoRsp /\ fired = {} /\ tooLate = FALSE
  /\ toStack = <<>> /\ toMgr = <<>>
  /\ link = {} /\ pend = <<>>
  /\ nReq = 0 /\ nLink = 0

-----------------------------------------------------------------------------
(***************************************************************************)
(* The queue.                                                              *)
(***************************************************************************)
\* ble_gtl_waitqueue_add.
WaitqueueAdd(elem) ==
  IF Len(queue) < MaxLen
    THEN queue' = Append(queue, elem) /\ UNCHANGED full
    ELSE full' = TRUE /\ UNCHANGED queue

\* The test of ble_gtl_waitqueue_match; GAPM messages carry connection index 0.
\* Faulty variant: the operation of a completion is not compared.
SameMessageId(elem, m) ==
  /\ elem.what = m.what \/ {elem.what, m.what} \subseteq {"config", "resolve", "reset"}
  /\ elem.conn \in {NoConn, m.conn}
\* Faulty variant: BLE_CONN_IDX_INVALID does not stand for every connection.
SameConn(elem, m) == elem.what = m.what /\ elem.conn = m.conn
Matches(elem, m) ==
  /\ elem.what = m.what
  /\ elem.conn \in {NoConn, m.conn}

\* The first element that matches.
FirstMatch(m) == {i \in 1..Len(queue) : /\ Matches(queue[i], m)
                                        /\ \A j \in 1..i - 1 : ~Matches(queue[j], m)}

\* ble_gtl_waitqueue_flush walks up the queue; when it removes an element the
\* next one moves to the index it has just left and is not looked at.
\* Faulty variant: the walk begins with the second element.
RemovedLate(q, c) == {i \in 2..Len(q) : q[i].conn = c /\ (i = 2 \/ q[i - 1].conn # c)}
Removed(q, c) ==
  LET removed[i \in 0..Len(q)] == i > 0 /\ q[i].conn = c /\ ~removed[i - 1]
  IN  {i \in 1..Len(q) : removed[i]}

\* The position of the k-th element that stays.
Nth(q, removed, k) ==
  LET kept == DOMAIN q \ removed
  IN  CHOOSE i \in kept : Cardinality({j \in kept : j <= i}) = k

\* Faulty variant: the elements are moved and the length stays.
WithoutShrinking(q, removed) ==
  [k \in DOMAIN q |->
     IF k <= Cardinality(DOMAIN q \ removed) THEN q[Nth(q, removed, k)] ELSE NoReq]
Without(q, removed) ==
  [k \in 1..Cardinality(DOMAIN q \ removed) |-> q[Nth(q, removed, k)]]

\* The callbacks of commands put the response into the queue; the others
\* free their event or post it.
Answering == {"config", "rssi", "reset"}
\* Faulty variant: a callback that gets no message answers nothing.
FireIfMessage(calls) ==
  /\ fired' = calls
  /\ IF \E k \in calls : k.req.what \in Answering /\ k.by # 0
       THEN /\ rsp = NoRsp
            /\ rsp' = <<CHOOSE k \in calls : k.req.what \in Answering>>
       ELSE UNCHANGED rsp
Fire(calls) ==
  /\ fired' = calls
  /\ IF \E k \in calls : k.req.what \in Answering
       THEN /\ rsp = NoRsp
            /\ rsp' = <<CHOOSE k \in calls : k.req.what \in Answering>>
       ELSE UNCHANGED rsp

-----------------------------------------------------------------------------
(***************************************************************************)
(* Commands of the application.                                            *)
(***************************************************************************)
\* The handlers of configuration commands hold the device parameters from
\* before the addition until after the send.
DevParamsHeld == app.pc \in {"add", "send"} /\ app.req.what = "config"

Begin(req) ==
  /\ app.pc = "idle"
  /\ nReq < MaxReqs
  /\ app' = [pc |-> "add", req |-> req]
  /\ nReq' = nReq + 1
  /\ tooLate' = FALSE
  /\ UNCHANGED <<queue, full, devs, rsp, fired, toStack, toMgr, stackVars, nLink>>

\* Role, address, device name, appearance and preferred parameters.
ConfigCmd == "config" \in Kinds /\ Begin(Request("config", NoConn, NoConn)) /\ UNCHANGED resetting

\* ble_mgr_gap_mtu_size_set_cmd_handler queues its element under connection 0.
MtuCmd == "mtu" \in Kinds /\ Begin(Request("config", 0, NoConn)) /\ UNCHANGED resetting

\* ble_mgr_gap_conn_rssi_get_cmd_handler up to its storage_release; with no
\* device it answers at once.
RssiCmd(c) ==
  /\ "rssi" \in Kinds
  /\ c \in devs
  /\ Begin(Request("rssi", c, c))
  /\ UNCHANGED resetting

\* ble_mgr_gap_set_sec_level_cmd_handler on a link to a bonded peripheral, up to
\* the storage_release of encrypt_conn_using_ltk.
SecCmd(c) ==
  /\ "sec" \in Kinds /\ Central
  /\ c \in devs
  /\ Begin(Request("encrypt", c, c))
  /\ UNCHANGED resetting

\* ble_mgr_common_reset_cmd_handler up to ble_mgr_set_reset.
ResetCmd == "reset" \in Kinds /\ Begin(Request("reset", NoConn, NoConn)) /\ resetting' = TRUE

AppAdd ==
  /\ app.pc = "add"
  /\ WaitqueueAdd(app.req)
  /\ app' = [app EXCEPT !.pc = "send"]
  /\ UNCHANGED <<devs, resetting, rsp, fired, tooLate, toStack, toMgr, stackVars, nReq, nLink>>

\* ble_gtl_send; the security level is answered without waiting for the stack.
AppSend ==
  /\ app.pc = "send"
  /\ toStack' = Append(toStack, app.req)
  /\ app' = IF app.req.what \in Answering THEN [app EXCEPT !.pc = "wait"] ELSE Idle
  /\ UNCHANGED <<queue, full, devs, resetting, rsp, fired, tooLate, toMgr, stackVars, nReq, nLink>>

AppTake ==
  /\ app.pc = "wait"
  /\ rsp # NoRsp
  /\ rsp' = NoRsp
  /\ app' = Idle
  /\ UNCHANGED <<queue, full, devs, resetting, fired, tooLate, toStack, toMgr, stackVars, nReq,
                 nLink>>

-----------------------------------------------------------------------------
(***************************************************************************)
(* The manager task handles the next message.                              *)
(***************************************************************************)
Take(m) == toMgr # <<>> /\ m = Head(toMgr) /\ toMgr' = Tail(toMgr)

\* While a reset is in progress everything but its completion is dropped.
Dropped(m) == resetting /\ m.what # "reset"

\* A request of the manager itself: the element, then the message.
Ask(req) ==
  /\ nReq < MaxReqs
  /\ nReq' = nReq + 1
  /\ WaitqueueAdd(req)
  /\ toStack' = Append(toStack, req)

\* ble_mgr_gap_connected_evt_handler; the address of the peer is resolvable
\* and keys are known, or it is announced right away.
MgrConnected ==
  \E m \in Messages :
    /\ Take(m) /\ ~Dropped(m)
    /\ m.what = "connected"
    /\ ~DevParamsHeld
    /\ devs' = devs \cup {m.conn}
    /\ \/ Ask(Request("resolve", NoConn, m.conn))
       \/ UNCHANGED <<queue, full, toStack, nReq>>
    /\ UNCHANGED <<resetting, app, rsp, fired, tooLate, stackVars, nLink>>

\* ble_mgr_gap_disconnected_evt_handler: the device goes, then the queue is flushed
\* with callbacks that get no message.
MgrDisconnected ==
  \E m \in Messages :
    /\ Take(m) /\ ~Dropped(m)
    /\ m.what = "disconnected" /\ m.conn \in devs
    /\ ~DevParamsHeld
    /\ devs' = devs \ {m.conn}
    /\ LET gone == Removed(queue, m.conn)
       IN  /\ queue' = Without(queue, gone)
           /\ Fire({[req |-> queue[i], by |-> 0] : i \in gone})
    /\ tooLate' = (tooLate \/ (app.pc = "add" /\ app.req.conn = m.conn))
    /\ UNCHANGED <<full, resetting, app, toStack, stackVars, nReq, nLink>>

\* ble_mgr_gap_security_ind_evt_handler for a peer whose long term key is known.
MgrSecurity ==
  \E m \in Messages :
    /\ Take(m) /\ ~Dropped(m)
    /\ m.what = "security" /\ m.conn \in devs
    /\ Ask(Request("encrypt", m.conn, m.conn))
    /\ UNCHANGED <<devs, resetting, app, rsp, fired, tooLate, stackVars, nLink>>

\* ble_gtl_waitqueue_match and the callback; gapm_reset_complete cleans the storage.
MgrMatch ==
  \E m \in Messages :
    /\ Take(m) /\ ~Dropped(m)
    /\ \E i \in FirstMatch(m) :
         /\ queue' = Without(queue, {i})
         /\ Fire({[req |-> queue[i], by |-> m.id]})
    /\ resetting' = (resetting /\ m.what # "reset")
    /\ devs' = IF m.what = "reset" THEN {} ELSE devs
    /\ UNCHANGED <<full, app, tooLate, toStack, stackVars, nReq, nLink>>

\* Nothing is waiting for the message and no handler has anything to do.
MgrIgnore ==
  \E m \in Messages :
    /\ Take(m)
    /\ \/ Dropped(m)
       \/ m.what = "disconnected" /\ m.conn \notin devs /\ ~DevParamsHeld
       \/ m.what = "security" /\ m.conn \notin devs
       \/ m.what \notin {"connected", "disconnected", "security"} /\ FirstMatch(m) = {}
    /\ UNCHANGED <<MgrSide, toStack, stackVars, nReq, nLink>>

-----------------------------------------------------------------------------
(***************************************************************************)
(* External: the stack.  Requests for a link that is down get no answer;   *)
(* requests for the same thing are answered in order; a link that goes     *)
(* down takes its requests with it, a reset takes everything.              *)
(***************************************************************************)
ConnOf(req) == IF req.what \in {"rssi", "encrypt"} THEN req.conn ELSE NoConn

StackTake ==
  /\ toStack # <<>>
  /\ toStack' = Tail(toStack)
  /\ LET req == Head(toStack)
     IN  CASE req.what = "reset"                   -> link' = {} /\ pend' = <<req>>
           [] ConnOf(req) \in link \cup {NoConn}
                /\ req.what # "reset"              -> pend' = Append(pend, req) /\ UNCHANGED link
           [] OTHER                                -> UNCHANGED stackVars
  /\ UNCHANGED <<MgrSide, toMgr, nReq, nLink>>

StackAnswer ==
  \E i \in 1..Len(pend) :
    LET req == pend[i]
        src == IF ConnOf(req) = NoConn THEN 0 ELSE req.conn     \* GAPM or the link
    IN  /\ \A j \in 1..i - 1 : pend[j].what # req.what \/ ConnOf(pend[j]) # ConnOf(req)
        /\ pend' = Without(pend, {i})
        /\ toMgr' = Append(toMgr, Message(req.what, src, req.id))
        /\ UNCHANGED <<MgrSide, toStack, link, nReq, nLink>>

Resolving(q) == \E i \in 1..Len(q) : q[i].what = "resolve"

\* A new link takes advertising and connection events to come up: by then the
\* manager knows that the link that had the index before is gone, and a request
\* that was on its way to that link has reached the stack.
IndexFree(c) ==
  /\ c \notin link
  /\ \A i \in 1..Len(toMgr) : toMgr[i] # Message("disconnected", c, 0)
  /\ \A i \in 1..Len(toStack) : ConnOf(toStack[i]) # c
  /\ app.pc = "send" => ConnOf(app.req) # c

LinkUp(c) ==
  /\ IndexFree(c)
  /\ QuickResolve => /\ \A i \in 1..Len(toMgr) : toMgr[i].what # "connected"
                     /\ ~Resolving(toStack) /\ ~Resolving(pend)
  /\ nLink < MaxLinks
  /\ nLink' = nLink + 1
  /\ link' = link \cup {c}
  /\ toMgr' = Append(toMgr, Message("connected", c, 0))
  /\ UNCHANGED <<MgrSide, toStack, pend, nReq>>

LinkDown(c) ==
  /\ c \in link
  /\ link' = link \ {c}
  /\ pend' = Without(pend, {i \in DOMAIN pend : ConnOf(pend[i]) = c})
  /\ toMgr' = Append(toMgr, Message("disconnected", c, 0))
  /\ UNCHANGED <<MgrSide, toStack, nReq, nLink>>

\* The peer asks for security, not while an encryption of the link is in progress.
SecurityRequest(c) ==
  /\ Central /\ c \in link
  /\ \A i \in 1..Len(pend)  : ~(pend[i].what = "encrypt" /\ pend[i].conn = c)
  /\ \A i \in 1..Len(toMgr) : toMgr[i] # Message("security", c, 0)
  /\ toMgr' = Append(toMgr, Message("security", c, 0))
  /\ UNCHANGED <<MgrSide, toStack, stackVars, nReq, nLink>>

-----------------------------------------------------------------------------
AppStep ==
  \/ ConfigCmd \/ MtuCmd \/ ResetCmd \/ \E c \in Conns : RssiCmd(c) \/ SecCmd(c)
  \/ AppAdd \/ AppSend \/ AppTake

\* ble_gtl_handle_event, with the events whose handlers touch the queue or the devices.
MgrStep == MgrConnected \/ MgrDisconnected \/ MgrSecurity \/ MgrMatch \/ MgrIgnore

StackStep ==
  \/ StackTake \/ StackAnswer
  \/ \E c \in Conns : LinkUp(c) \/ LinkDown(c) \/ SecurityRequest(c)

\* The OS_ASSERT of ble_gtl_waitqueue_add stops the system.
Next == ~full /\ (AppStep \/ MgrStep \/ StackStep)

Spec == Init /\ [][Next]_vars

-----------------------------------------------------------------------------
(* Type invariant, with the capacity of the queue. *)
TypeOK ==
  /\ queue \in Seq(Requests) /\ Len(queue) <= MaxLen /\ full \in BOOLEAN
  /\ devs \subseteq Conns /\ resetting \in BOOLEAN
  /\ app.pc \in {"idle", "add", "send", "wait"} /\ app.req \in Requests \cup {NoReq}
  /\ rsp \in Seq([req : Requests, by : Ids]) /\ Len(rsp) <= 1
  /\ toStack \in Seq(Requests) /\ toMgr \in Seq(Messages)
  /\ tooLate \in BOOLEAN /\ link \subseteq Conns /\ pend \in Seq(Requests)
  /\ nReq \in Ids /\ nLink \in 0..MaxLinks

(***************************************************************************)
(* A callback is handed the completion of the request it was queued for,   *)
(* or none at all because its connection is gone: the completions of two   *)
(* requests are never mistaken for each other.                             *)
(***************************************************************************)
OwnCompletion == \A k \in fired : k.by \in {k.req.id, 0}

(***************************************************************************)
(* "Flush any waitqueue elements corresponding to this connection": when   *)
(* the manager has handled a disconnection no element is left that waits   *)
(* for something of that connection.                                       *)
(***************************************************************************)
FlushComplete ==
  [][\A c \in devs \ devs' : resetting \/ \A i \in 1..Len(queue') : queue'[i].conn # c]_vars

\* Where the answer to a request still can come from.
UnderWay(req) ==
  \/ \E i \in 1..Len(toStack) : toStack[i] = req
  \/ \E i \in 1..Len(pend) : pend[i] = req
  \/ \E i \in 1..Len(toMgr) :
       /\ toMgr[i].id = req.id \/ toMgr[i] = Message("disconnected", ConnOf(req), 0)

(***************************************************************************)
(* A task blocked on the response queue, without a time limit, has its     *)
(* element in the wait queue or its response in the response queue, so     *)
(* that a completion or a flush can still release it.                      *)
(***************************************************************************)
CallerHasWaiter ==
  app.pc = "wait" => rsp # NoRsp \/ \E i \in 1..Len(queue) : queue[i] = app.req

(***************************************************************************)
(* And that completion or disconnection is under way, unless the           *)
(* connection was lost after the handler had looked it up and before it    *)
(* added its element.                                                      *)
(***************************************************************************)
CallerIsServed ==
  app.pc = "wait" /\ rsp = NoRsp => UnderWay(app.req) \/ tooLate

(***************************************************************************)
(* "There should be still room in the queue before calling this function". *)
(***************************************************************************)
RoomInQueue == ~full
=============================================================================
