-------------------------- MODULE PairingAppProofs --------------------------
(***************************************************************************)
(* Theorems about PairingApp, for every number of connections, peers and   *)
(* bonds and every length of a run: both loops find an event when they ask *)
(* for one, the main loop sleeps on none, a wait has its own timer, the    *)
(* value goes to peers that have paired, and the device stays connectable. *)
(***************************************************************************)
EXTENDS PairingApp, SequenceTheorems, TLAPS

(***************************************************************************)
(* The queue of events.                                                    *)
(***************************************************************************)
(* The event taken first, and the ones that stay. *)
LEMMA Taking ==
  ASSUME NEW S, NEW q \in Seq(S), q # <<>>
  PROVE  /\ Head(q) = q[1] /\ Head(q) \in S /\ Tail(q) \in Seq(S)
         /\ Len(q) \in Nat \ {0} /\ Len(Tail(q)) = Len(q) - 1
         /\ \A i \in 1 .. Len(q) - 1 : Tail(q)[i] = q[i + 1]
  BY EmptySeq, HeadTailProperties

(* An event posted comes last. *)
LEMMA Posting ==
  ASSUME NEW S, NEW q \in Seq(S), NEW x \in S
  PROVE  /\ Append(q, x) \in Seq(S) /\ Append(q, x) # <<>>
         /\ Len(q) \in Nat /\ Len(Append(q, x)) = Len(q) + 1
         /\ \A i \in 1 .. Len(q) : Append(q, x)[i] = q[i]
         /\ Append(q, x)[Len(q) + 1] = x
  BY AppendProperties, LenProperties, EmptySeq

(* A queue is empty exactly when it has no length. *)
LEMMA NoLength ==
  ASSUME NEW S, NEW q \in Seq(S)
  PROVE  Len(q) \in Nat /\ (q = <<>> <=> Len(q) = 0)
  BY EmptySeq, LenProperties

-----------------------------------------------------------------------------
(***************************************************************************)
(* The inductive invariant.                                                *)
(***************************************************************************)
(* An event waits in the queue; it waits, or the main loop handles it. *)
Held(e) == \E i \in 1 .. Len(evts) : evts[i] = e
Due(e) == Held(e) \/ (at = "handle" /\ evt = e)

Down(l) == [code |-> "disconnected", link |-> l]
Began(l) == [code |-> "connected", link |-> l]

(* The notification of the manager stands for events that are still there, *)
(* and for more than the one that a loop is about to take.                 *)
Announced ==
    /\ "ble" \in notif => evts # <<>>
    /\ at \in {"get", "blockGet"} /\ "ble" \in notif => Len(evts) >= 2
    /\ EventWhenAsked /\ EventAnnounced

(* A peer has one link, and paired before it had a bond. *)
OneLink == \A k, l \in Links : Up(k) /\ link[k] = link[l] => k = l
BondsPaired == bonded \subseteq paired

(* After the last poll the peer has paired, or its link is known to the     *)
(* manager to have ended and the task will hear of it.                      *)
Answers == at = "answer" => Held(Down(reader)) \/ (Up(reader) /\ link[reader] \in paired)
Trusted == OneLink /\ BondsPaired /\ Answers

(* Advertising that is off is about to be started. *)
Advertises == ~missed /\ adv = "off" => Due(AdvCompleted) \/ at = "restart"

(* A connection that is announced but gone is announced to be gone, later. *)
Begun ==
    \A l \in Links :
        /\ at = "handle" /\ evt = Began(l) => Up(l) \/ Held(Down(l))
        /\ \A i \in 1 .. Len(evts) :
              evts[i] = Began(l) => Up(l) \/ \E j \in i + 1 .. Len(evts) : evts[j] = Down(l)

(* The end of the active link is known, or on its way. *)
Ends == ~missed /\ active # NoLink => Up(active) \/ Due(Down(active))

(* A peer pairs on a link that is up: with TypeOK, the types are inductive. *)
Pairs == \A l \in Links : pairing[l] # "none" => Up(l)
TypeInv == TypeOK /\ Pairs

Queue == Begun /\ Advertises /\ Ends
IInv == TypeInv /\ Announced /\ OwnTimer /\ Trusted /\ Queue

-----------------------------------------------------------------------------
(***************************************************************************)
(* What the manager, the peers and the timers leave alone.                 *)
(***************************************************************************)
(* They post an event of their own, or none. *)
Posted == \E e \in Events : Post(e)
Quiet == evts' = evts /\ notif' \ {"adv"} = notif \ {"adv"}

LEMMA EventKinds ==
  /\ AdvCompleted \in Events
  /\ \A l \in Links : /\ \A c \in LinkEvents : [code |-> c, link |-> l] \in Events
                      /\ \A b \in BOOLEAN : [code |-> "pairReq", link |-> l, bond |-> b] \in Events
  BY DEF Events, AdvCompleted

LEMMA EnvironmentPosts ==
  ASSUME TypeOK, Environment
  PROVE  UNCHANGED <<app, missed>> /\ (Posted \/ Quiet)
<1>1. ASSUME NEW l \in Links, NEW p \in Peers, Connect(l, p)
      PROVE  UNCHANGED <<app, missed>> /\ Posted
  BY <1>1, EventKinds DEF Connect, Posted, LinkEvents
<1>2. ASSUME NEW l \in Links, Disconnect(l) PROVE UNCHANGED <<app, missed>> /\ Posted
  BY <1>2, EventKinds DEF Disconnect, Posted, LinkEvents
<1>3. ASSUME NEW l \in Links, Read(l) PROVE UNCHANGED <<app, missed>> /\ Posted
  BY <1>3, EventKinds DEF Read, Posted, LinkEvents
<1>4. ASSUME NEW l \in Links, NEW b \in BOOLEAN, RequestPairing(l, b)
      PROVE  UNCHANGED <<app, missed>> /\ Posted
  BY <1>4, EventKinds DEF RequestPairing, Posted
<1>5. ASSUME NEW l \in Links, PairingSucceeds(l) \/ PairingFails(l)
      PROVE  UNCHANGED <<app, missed>> /\ Posted
  BY <1>5, EventKinds DEF PairingSucceeds, PairingFails, Posted, LinkEvents
<1>6. CASE AdvEnds
  BY <1>6, EventKinds DEF AdvEnds, Posted
<1>7. CASE AdvTimerFires \/ BlockTimerFires
  BY <1>7 DEF AdvTimerFires, BlockTimerFires, Quiet
<1> QED
  BY <1>1, <1>2, <1>3, <1>4, <1>5, <1>6, <1>7 DEF Environment, PairAsAsked, PairUnasked

(* What is in the queue stays there when an event is posted. *)
LEMMA HeldPost ==
  ASSUME TypeInv, NEW e \in Events, Post(e)
  PROVE  Held(e)' /\ \A x : Held(x) => Held(x)'
<1>1. evts \in Seq(Events)
  BY DEF TypeInv, TypeOK
<1> QED
  BY <1>1, Posting DEF Post, Held

-----------------------------------------------------------------------------
(***************************************************************************)
(* Types.                                                                  *)
(***************************************************************************)
(* A queue of events stays one. *)
LEMMA QueueType ==
  ASSUME TypeOK
  PROVE  /\ Posted => evts' \in Seq(Events) /\ notif' \subseteq {"ble", "adv"}
         /\ TakeEvent => evts' \in Seq(Events) /\ evt' \in Events
<1>1. evts \in Seq(Events) /\ notif \subseteq {"ble", "adv"}
  BY DEF TypeOK
<1>2. Posted => evts' \in Seq(Events) /\ notif' \subseteq {"ble", "adv"}
  BY <1>1, Posting DEF Posted, Post
<1>3. TakeEvent => evts' \in Seq(Events) /\ evt' \in Events
  BY <1>1, Taking DEF TakeEvent
<1> QED
  BY <1>2, <1>3

(* The answer to a request. *)
LEMMA ReplyType ==
  ASSUME TypeOK, NEW l, NEW b \in BOOLEAN, Reply(l, b)
  PROVE  pairing' \in [Links -> {"none", "requested", "keyed", "keyless"}]
  BY DEF TypeOK, Reply

LEMMA TypeEnvironment == ASSUME TypeInv, Environment PROVE TypeInv'
<1>0. /\ UNCHANGED <<app, missed>>
      /\ evts' \in Seq(Events) /\ notif' \subseteq {"ble", "adv"}
  BY EnvironmentPosts, QueueType DEF Quiet, TypeInv, TypeOK
<1>a. Move => moves' \in 0 .. MaxMoves
  BY PairingAssumption DEF Move, TypeInv, TypeOK
<1>b. ASSUME NEW l \in Links, NEW b \in BOOLEAN, RequestPairing(l, b),
             moves' \in 0 .. MaxMoves
      PROVE  TypeInv'
  BY <1>0, <1>b DEF RequestPairing, TypeInv, TypeOK, Pairs, Up, app, timers
<1>1. ASSUME NEW l \in Links, NEW p \in Peers, Connect(l, p) PROVE TypeInv'
  BY <1>0, <1>a, <1>1, PairingAssumption DEF Connect, TypeInv, TypeOK, Pairs, Up, app, timers
<1>2. ASSUME NEW l \in Links, Disconnect(l) PROVE TypeInv'
  BY <1>0, <1>a, <1>2 DEF Disconnect, TypeInv, TypeOK, Pairs, Up, app, timers
<1>3. ASSUME NEW l \in Links, Read(l) PROVE TypeInv'
  BY <1>0, <1>a, <1>3 DEF Read, TypeInv, TypeOK, Pairs, Up, app, timers
<1>4. ASSUME NEW l \in Links, NEW b \in BOOLEAN, PairAsAsked(l, b) \/ PairUnasked(l, b)
      PROVE  TypeInv'
  BY <1>a, <1>b, <1>4 DEF PairAsAsked, PairUnasked, TypeInv, TypeOK
<1>5. ASSUME NEW l \in Links, PairingSucceeds(l) PROVE TypeInv'
  BY <1>0, <1>a, <1>5 DEF PairingSucceeds, TypeInv, TypeOK, Pairs, Up, app, timers
<1>6. ASSUME NEW l \in Links, PairingFails(l) PROVE TypeInv'
  BY <1>0, <1>a, <1>6 DEF PairingFails, TypeInv, TypeOK, Pairs, Up, app, timers
<1>7. CASE AdvEnds
  BY <1>0, <1>7 DEF AdvEnds, TypeInv, TypeOK, Pairs, Up, app, timers
<1>8. CASE AdvTimerFires \/ BlockTimerFires
  BY <1>0, <1>8 DEF AdvTimerFires, BlockTimerFires, TypeInv, TypeOK, Pairs, Up, gap, app
<1> QED
  BY <1>1, <1>2, <1>3, <1>4, <1>5, <1>6, <1>7, <1>8 DEF Environment

(* A reply leaves a pairing that was not requested as it is. *)
LEMMA ReplyPairs ==
  ASSUME TypeInv, NEW l, NEW b \in BOOLEAN, Reply(l, b), UNCHANGED link
  PROVE  Pairs' /\ pairing' \in [Links -> {"none", "requested", "keyed", "keyless"}]
<1>1. pairing' \in [Links -> {"none", "requested", "keyed", "keyless"}]
  BY ReplyType DEF TypeInv
<1>2. ASSUME NEW k \in Links, pairing'[k] # "none" PROVE pairing[k] # "none"
  BY <1>2 DEF Reply, TypeInv, TypeOK
<1> QED
  BY <1>1, <1>2 DEF TypeInv, Pairs, Up

LEMMA TypeTask == ASSUME TypeInv, Task PROVE TypeInv'
<1>0. TakeEvent => evts' \in Seq(Events) /\ evt' \in Events
  BY QueueType DEF TypeInv
<1> USE DEF TypeInv, TypeOK, Pairs, Up, Places, Go, Handling, timers
<1>1. CASE WakeMain \/ WakeBlocked
  BY <1>1 DEF WakeMain, WakeBlocked, Wake, gap
<1>2. CASE GetEvent
  BY <1>0, <1>2 DEF GetEvent, gap
<1>3. CASE CheckMore
  BY <1>3 DEF CheckMore, gap
<1>4. CASE HandleRead
  <2>1. evt.link \in Links
    BY <1>4 DEF HandleRead, Events, LinkEvents
  <2> QED
    BY <1>4, <2>1, PairingAssumption DEF HandleRead
<1>5. CASE HandlePairReq
  <2>1. evt.bond \in BOOLEAN
    BY <1>5 DEF HandlePairReq, Events, LinkEvents
  <2> QED
    BY <1>5, <2>1, ReplyPairs DEF HandlePairReq
<1>6. CASE HandleConnected
  <2>1. evt.link \in Links
    BY <1>6 DEF HandleConnected, Events, LinkEvents
  <2> QED
    BY <1>6, <2>1 DEF HandleConnected, AdvStop
<1>7. CASE HandleDisconnected
  BY <1>7 DEF HandleDisconnected, AdvStop
<1>8. CASE RestartAdv \/ HandleAdvCompleted
  BY <1>8 DEF RestartAdv, HandleAdvCompleted, AdvStart
<1>9. CASE HandleOther
  BY <1>9 DEF HandleOther, gap
<1>10. CASE BlockGet
  <2>1. evt'.code = "pairReq" => evt'.bond \in BOOLEAN
    BY <1>0, <1>10 DEF BlockGet, Events, LinkEvents
  <2>2. Pairs' /\ pairing' \in [Links -> {"none", "requested", "keyed", "keyless"}]
    BY <1>10, <2>1, ReplyPairs DEF BlockGet
  <2> QED
    BY <1>0, <1>10, <2>2 DEF BlockGet
<1>11. CASE ArmTimer \/ PollEnds
  BY <1>11 DEF ArmTimer, PollEnds, gap
<1>12. CASE Answer
  BY <1>12 DEF Answer
<1> QED
  BY <1>1, <1>2, <1>3, <1>4, <1>5, <1>6, <1>7, <1>8, <1>9, <1>10, <1>11, <1>12 DEF Task

(* A step that changes no variable. *)
LEMMA TypeStutter == ASSUME TypeInv, UNCHANGED vars PROVE TypeInv'
  BY DEF TypeInv, TypeOK, Pairs, Up, vars, gap, app, timers

(* The type invariant is inductive. *)
LEMMA TypeInit == Init => TypeInv
<1>1. Init => evts \in Seq(Events) /\ evt \in Events
  BY EmptySeq, EventKinds DEF Init
<1>2. Init => moves \in 0 .. MaxMoves /\ reader \in Links
  BY PairingAssumption DEF Init
<1> QED
  BY <1>1, <1>2 DEF Init, TypeInv, TypeOK, Pairs, Places

LEMMA TypeStep == TypeInv /\ [Next]_vars => TypeInv'
  BY TypeEnvironment, TypeTask, TypeStutter DEF Next

(* Every variable keeps to its type in every run. *)
THEOREM TypesOK == Spec => []TypeOK
<1>1. TypeInv => TypeOK
  BY DEF TypeInv
<1> QED
  BY <1>1, TypeInit, TypeStep, PTL DEF Spec

-----------------------------------------------------------------------------
(***************************************************************************)
(* Events and notifications.  A loop that was notified finds an event, and *)
(* a notification that comes before it has taken it stands for another.    *)
(***************************************************************************)
LEMMA AnnouncedInit == Init => Announced
  BY DEF Init, Announced, EventWhenAsked, EventAnnounced

LEMMA AnnouncedEnvironment == ASSUME TypeInv, Announced, Environment PROVE Announced'
<1>1. evts \in Seq(Events) /\ UNCHANGED app
  BY EnvironmentPosts DEF TypeInv, TypeOK
<1>2. CASE Posted
  <2>1. PICK e \in Events : Post(e)
    BY <1>2 DEF Posted
  <2>2. evts' # <<>> /\ Len(evts') = Len(evts) + 1 /\ "ble" \in notif'
    BY <1>1, <2>1, Posting DEF Post
  <2>3. at \in {"get", "blockGet"} => Len(evts') >= 2
    BY <1>1, <2>2, NoLength DEF Announced, EventWhenAsked
  <2> QED
    BY <1>1, <2>2, <2>3 DEF Announced, EventWhenAsked, EventAnnounced, app
<1>3. CASE Quiet
  <2>1. evts' = evts /\ ("ble" \in notif' <=> "ble" \in notif)
    BY <1>3 DEF Quiet
  <2> QED
    BY <1>1, <2>1 DEF Announced, EventWhenAsked, EventAnnounced, app
<1> QED
  BY EnvironmentPosts, <1>2, <1>3 DEF TypeInv

(* Steps of the task that leave events and notifications alone, and neither *)
(* come to a wait nor to an event. *)
LEMMA AnnouncedAside ==
  ASSUME Announced, UNCHANGED <<evts, notif>>, at' \notin {"get", "blockGet", "wait"}
  PROVE  Announced'
  BY DEF Announced, EventWhenAsked, EventAnnounced

LEMMA AnnouncedTask == ASSUME TypeInv, Announced, Task PROVE Announced'
<1>0. evts \in Seq(Events)
  BY DEF TypeInv, TypeOK
<1>1. CASE WakeMain \/ WakeBlocked
  BY <1>1 DEF WakeMain, WakeBlocked, Wake, Go, Announced, EventWhenAsked, EventAnnounced
<1>2. ASSUME TakeEvent, at \in {"get", "blockGet"}, UNCHANGED notif,
             at' \notin {"get", "blockGet", "wait"}
      PROVE  Announced'
  <2>1. evts' \in Seq(Events) /\ Len(evts') = Len(evts) - 1 /\ Len(evts) \in Nat
    BY <1>0, <1>2, Taking DEF TakeEvent
  <2>2. "ble" \in notif' => evts' # <<>>
    BY <1>2, <2>1, NoLength DEF Announced
  <2> QED
    BY <1>2, <2>2 DEF Announced, EventWhenAsked, EventAnnounced
<1>3. CASE GetEvent
  BY <1>2, <1>3 DEF GetEvent, Go, Announced, EventWhenAsked
<1>4. CASE BlockGet
  BY <1>2, <1>4 DEF BlockGet, Go
<1>5. CASE CheckMore
  BY <1>5 DEF CheckMore, Go, gap, Announced, EventWhenAsked, EventAnnounced
<1>6. CASE HandleRead \/ HandlePairReq \/ HandleConnected \/ HandleDisconnected
  BY <1>6, AnnouncedAside DEF HandleRead, HandlePairReq, HandleConnected, HandleDisconnected, Go
<1>7. CASE RestartAdv \/ HandleAdvCompleted \/ HandleOther
  BY <1>7, AnnouncedAside DEF RestartAdv, HandleAdvCompleted, HandleOther, Go
<1>8. CASE ArmTimer \/ PollEnds \/ Answer
  BY <1>8, AnnouncedAside DEF ArmTimer, PollEnds, Answer, Go
<1> QED
  BY <1>1, <1>3, <1>4, <1>5, <1>6, <1>7, <1>8 DEF Task

LEMMA AnnouncedStep == TypeInv /\ Announced /\ [Next]_vars => Announced'
<1>1. TypeInv /\ Announced /\ UNCHANGED vars => Announced'
  BY DEF Announced, EventWhenAsked, EventAnnounced, vars, app
<1> QED
  BY <1>1, AnnouncedEnvironment, AnnouncedTask DEF Next

(* Whoever asks for an event gets one: block_state_pair never follows a     *)
(* null pointer. *)
THEOREM NoNullEvent == Spec => []EventWhenAsked
<1>1. TypeInv /\ Announced => EventWhenAsked
  BY DEF Announced
<1> QED
  BY <1>1, TypeInit, TypeStep, AnnouncedInit, AnnouncedStep, PTL DEF Spec

(* The main loop never waits with an event left that nothing announces. *)
THEOREM NoEventLeft == Spec => []EventAnnounced
<1>1. TypeInv /\ Announced => EventAnnounced
  BY DEF Announced
<1> QED
  BY <1>1, TypeInit, TypeStep, AnnouncedInit, AnnouncedStep, PTL DEF Spec

-----------------------------------------------------------------------------
(***************************************************************************)
(* The timer of a wait.                                                    *)
(***************************************************************************)
LEMMA OwnTimerStep == ASSUME OwnTimer, [Next]_vars PROVE OwnTimer'
<1>1. CASE BlockTimerFires
  BY <1>1 DEF BlockTimerFires, OwnTimer
<1>2. CASE ArmTimer \/ PollEnds
  BY <1>2 DEF ArmTimer, PollEnds, OwnTimer
<1>3. ASSUME UNCHANGED <<timer, expired>>, at' = "poll" => at = "poll" PROVE OwnTimer'
  BY <1>3 DEF OwnTimer
<1>4. CASE Environment /\ ~BlockTimerFires
  BY <1>3, <1>4 DEF Environment, Connect, Disconnect, Read, PairAsAsked, PairUnasked,
     RequestPairing, PairingSucceeds, PairingFails, AdvEnds, AdvTimerFires, app, timers
<1>5. CASE Task /\ ~ArmTimer /\ ~PollEnds
  BY <1>3, <1>5 DEF Task, WakeMain, WakeBlocked, Wake, GetEvent, CheckMore, HandleRead,
     HandlePairReq, HandleConnected, HandleDisconnected, RestartAdv, HandleAdvCompleted,
     HandleOther, BlockGet, Answer, Go, timers
<1>6. CASE UNCHANGED vars
  BY <1>3, <1>6 DEF vars, app, timers
<1> QED
  BY <1>1, <1>2, <1>4, <1>5, <1>6 DEF Next

(* No wait for a bond begins with the expiry of an earlier one. *)
THEOREM TimerOfItsOwn == Spec => []OwnTimer
<1>1. Init => OwnTimer
  BY DEF Init, OwnTimer
<1> QED
  BY <1>1, OwnTimerStep, PTL DEF Spec

-----------------------------------------------------------------------------
(***************************************************************************)
(* Who gets the value.  Between the last poll and the answer the link may  *)
(* go, and the bond as well.  What stays is that the peer has paired, as   *)
(* only the end of its link makes the storage forget that; and that end is *)
(* in the queue, from which the task takes nothing before it has answered. *)
(***************************************************************************)
(* The task changes neither links nor what the storage says of the peers. *)
LEMMA TaskBonds == ASSUME Task PROVE UNCHANGED <<link, bonded, paired>>
  BY DEF Task, WakeMain, WakeBlocked, Wake, GetEvent, CheckMore, HandleRead,
     HandlePairReq, HandleConnected, HandleDisconnected, RestartAdv, HandleAdvCompleted,
     HandleOther, BlockGet, ArmTimer, PollEnds, Answer, gap

LEMMA OneLinkStep == ASSUME TypeInv, OneLink, [Next]_vars PROVE OneLink'
<1>1. ASSUME NEW l \in Links, NEW p \in Peers, Connect(l, p) PROVE OneLink'
  BY <1>1, PairingAssumption DEF Connect, OneLink, Up, TypeInv, TypeOK
<1>2. ASSUME NEW l \in Links, Disconnect(l) PROVE OneLink'
  BY <1>2 DEF Disconnect, OneLink, Up, TypeInv, TypeOK
<1>3. ASSUME UNCHANGED link PROVE OneLink'
  BY <1>3 DEF OneLink, Up
<1>4. CASE Task \/ UNCHANGED vars
  BY <1>3, <1>4, TaskBonds DEF vars, gap
<1>5. ASSUME NEW l \in Links,
             \/ Read(l) \/ PairingSucceeds(l) \/ PairingFails(l)
             \/ \E bond \in BOOLEAN : PairAsAsked(l, bond) \/ PairUnasked(l, bond)
      PROVE  OneLink'
  BY <1>3, <1>5 DEF Read, PairingSucceeds, PairingFails, PairAsAsked, PairUnasked, RequestPairing
<1>6. CASE AdvEnds \/ AdvTimerFires \/ BlockTimerFires
  BY <1>3, <1>6 DEF AdvEnds, AdvTimerFires, BlockTimerFires, gap
<1> QED
  BY <1>1, <1>2, <1>4, <1>5, <1>6 DEF Next, Environment

LEMMA BondsPairedStep == ASSUME BondsPaired, [Next]_vars PROVE BondsPaired'
<1>1. ASSUME NEW l \in Links, PairingSucceeds(l) \/ Disconnect(l) PROVE BondsPaired'
  BY <1>1 DEF PairingSucceeds, Disconnect, BondsPaired
<1>2. ASSUME UNCHANGED <<bonded, paired>> PROVE BondsPaired'
  BY <1>2 DEF BondsPaired
<1>3. CASE Task \/ UNCHANGED vars
  BY <1>2, <1>3, TaskBonds DEF vars, gap
<1>4. ASSUME NEW l \in Links,
             \/ Read(l) \/ PairingFails(l)
             \/ \E p \in Peers : Connect(l, p)
             \/ \E bond \in BOOLEAN : PairAsAsked(l, bond) \/ PairUnasked(l, bond)
      PROVE  BondsPaired'
  BY <1>2, <1>4 DEF Read, PairingFails, Connect, PairAsAsked, PairUnasked, RequestPairing
<1>5. CASE AdvEnds \/ AdvTimerFires \/ BlockTimerFires
  BY <1>2, <1>5 DEF AdvEnds, AdvTimerFires, BlockTimerFires, gap
<1> QED
  BY <1>1, <1>3, <1>4, <1>5 DEF Next, Environment

(* The manager and the peers cannot make a trusted peer an untrusted one    *)
(* without the task being told. *)
LEMMA AnswersEnvironment ==
  ASSUME TypeInv, OneLink, Answers, at = "answer", Environment
  PROVE  Answers'
<1>0. UNCHANGED <<at, reader>> /\ reader \in Links
  BY EnvironmentPosts DEF TypeInv, TypeOK, app
<1>a. ASSUME NEW e \in Events, Post(e), Held(Down(reader)) PROVE Answers'
  BY <1>0, <1>a, HeldPost DEF Answers
<1>b. ASSUME Up(reader), link[reader] \in paired,
             UNCHANGED link, paired \subseteq paired'
      PROVE  Answers'
  BY <1>0, <1>b DEF Answers, Up
<1>1. ASSUME NEW l \in Links, NEW p \in Peers, Connect(l, p) PROVE Answers'
  <2>1. \E e \in Events : Post(e)
    BY <1>1, EventKinds DEF Connect, LinkEvents
  <2>2. CASE Up(reader) /\ link[reader] \in paired
    BY <1>0, <1>1, <2>2 DEF Connect, Answers, Up, TypeInv, TypeOK
  <2> QED
    BY <1>a, <2>1, <2>2 DEF Answers
<1>2. ASSUME NEW l \in Links, Disconnect(l) PROVE Answers'
  <2>1. Down(l) \in Events /\ Post(Down(l))
    BY <1>2, EventKinds DEF Disconnect, Down, LinkEvents
  <2>2. CASE l = reader
    BY <1>0, <2>1, <2>2, HeldPost DEF Answers
  <2>3. CASE l # reader /\ Up(reader) /\ link[reader] \in paired
    <3>1. link[l] # link[reader]
      BY <1>0, <1>2, <2>3 DEF Disconnect, OneLink
    <3> QED
      BY <1>0, <1>2, <2>3, <3>1 DEF Disconnect, Answers, Up, TypeInv, TypeOK
  <2> QED
    BY <1>a, <2>1, <2>2, <2>3 DEF Answers
<1>3. ASSUME NEW l \in Links,
             \/ Read(l) \/ PairingSucceeds(l) \/ PairingFails(l)
             \/ \E bond \in BOOLEAN : PairAsAsked(l, bond) \/ PairUnasked(l, bond)
      PROVE  Answers'
  <2>1. UNCHANGED link /\ paired \subseteq paired'
    BY <1>3 DEF Read, PairingSucceeds, PairingFails, PairAsAsked, PairUnasked, RequestPairing
  <2>2. \E e \in Events : Post(e)
    BY <1>3, EventKinds DEF Read, PairingSucceeds, PairingFails, PairAsAsked, PairUnasked,
       RequestPairing, LinkEvents
  <2> QED
    BY <1>a, <1>b, <2>1, <2>2 DEF Answers
<1>4. CASE AdvEnds
  BY <1>a, <1>b, <1>4, EventKinds DEF AdvEnds, Answers
<1>5. CASE AdvTimerFires \/ BlockTimerFires
  BY <1>0, <1>5 DEF AdvTimerFires, BlockTimerFires, gap, Answers, Held, Up
<1> QED
  BY <1>1, <1>2, <1>3, <1>4, <1>5 DEF Environment

LEMMA AnswersStep == ASSUME TypeInv, Trusted, [Next]_vars PROVE Answers'
<1>1. CASE PollEnds
  <2>1. at' = "answer" => IsBonded(reader)
    BY <1>1 DEF PollEnds, Go
  <2> QED
    BY <1>1, <2>1 DEF PollEnds, IsBonded, Answers, Trusted, BondsPaired, Up, gap
<1>2. ASSUME at' # "answer" PROVE Answers'
  BY <1>2 DEF Answers
<1>3. CASE Task /\ ~PollEnds
  BY <1>2, <1>3 DEF Task, WakeMain, WakeBlocked, Wake, GetEvent, CheckMore, HandleRead,
     HandlePairReq, HandleConnected, HandleDisconnected, RestartAdv, HandleAdvCompleted,
     HandleOther, BlockGet, ArmTimer, Answer, Go
<1>4. CASE Environment
  <2>1. at' = at
    BY <1>4, EnvironmentPosts DEF TypeInv, app
  <2> QED
    BY <1>2, <1>4, <2>1, AnswersEnvironment DEF Trusted
<1>5. CASE UNCHANGED vars
  BY <1>5 DEF vars, gap, app, Trusted, Answers, Held, Up
<1> QED
  BY <1>1, <1>3, <1>4, <1>5 DEF Next

(* A read leaves the set of reads with its link, or by the answer. *)
LEMMA ReadEnds ==
  ASSUME TypeInv, Answers, [Next]_vars,
         NEW l \in Links, l \in read \ read', link'[l] = link[l], ~EndUnknown(l)
  PROVE  link[l] \in paired
<1>1. CASE Answer
  BY <1>1 DEF Answer, Answers, EndUnknown, Held, Down
<1>2. ASSUME NEW k \in Links, Disconnect(k) PROVE FALSE
  BY <1>2 DEF Disconnect, Up, TypeInv, TypeOK
<1>3. ASSUME read \subseteq read' PROVE FALSE
  BY <1>3
<1>4. ASSUME NEW k \in Links,
             \/ Read(k) \/ PairingFails(k) \/ PairingSucceeds(k)
             \/ \E p \in Peers : Connect(k, p)
             \/ \E bond \in BOOLEAN : PairAsAsked(k, bond) \/ PairUnasked(k, bond)
      PROVE  FALSE
  BY <1>3, <1>4 DEF Read, PairingFails, PairingSucceeds, Connect, PairAsAsked, PairUnasked,
     RequestPairing
<1>5. CASE AdvEnds \/ AdvTimerFires \/ BlockTimerFires \/ UNCHANGED vars
  BY <1>3, <1>5 DEF AdvEnds, AdvTimerFires, BlockTimerFires, gap, vars
<1>6. CASE Task /\ ~Answer
  BY <1>3, <1>6 DEF Task, WakeMain, WakeBlocked, Wake, GetEvent, CheckMore, HandleRead,
     HandlePairReq, HandleConnected, HandleDisconnected, RestartAdv, HandleAdvCompleted,
     HandleOther, BlockGet, ArmTimer, PollEnds, gap
<1> QED
  BY <1>1, <1>2, <1>4, <1>5, <1>6 DEF Next, Environment

(* Whatever links come and go and whatever pairs meanwhile, the peer that   *)
(* gets the value has paired, or the task has not heard yet that the link   *)
(* it answers on has ended. *)
THEOREM OnlyToPaired == Spec => DataOnlyToPaired
<1>1. Init => Trusted
  BY DEF Init, Trusted, OneLink, BondsPaired, Answers, Up
<1>2. TypeInv /\ Trusted /\ [Next]_vars
      => [\A l \in Links : l \in read \ read' /\ link'[l] = link[l] /\ ~EndUnknown(l)
                           => link[l] \in paired]_vars
  BY ReadEnds DEF Trusted
<1>3. TypeInv /\ Trusted /\ [Next]_vars => Trusted'
  BY OneLinkStep, BondsPairedStep, AnswersStep DEF Trusted
<1> QED
  BY <1>1, <1>2, <1>3, TypeInit, TypeStep, PTL DEF Spec, DataOnlyToPaired

-----------------------------------------------------------------------------
(***************************************************************************)
(* The device stays connectable.  What the manager does and the loop does  *)
(* not know yet is in the queue, in the order in which it happened.        *)
(***************************************************************************)
LEMMA Codes ==
  /\ AdvCompleted.code = "advCompleted"
  /\ \A l : /\ Down(l).code = "disconnected" /\ Down(l).link = l
            /\ Began(l).code = "connected" /\ Began(l).link = l
  BY DEF AdvCompleted, Down, Began

(* The connected event of a link is known by its code. *)
LEMMA ConnectedEvent ==
  ASSUME NEW e \in Events, e.code = "connected"
  PROVE  e.link \in Links /\ e = Began(e.link)
  BY DEF Events, LinkEvents, Began

LEMMA HeldTake ==
  ASSUME TypeInv, TakeEvent
  PROVE  \A x : Held(x) => x = evt' \/ Held(x)'
<1>1. evts \in Seq(Events)
  BY DEF TypeInv, TypeOK
<1>2. /\ evt' = evts[1] /\ Len(evts) \in Nat \ {0} /\ Len(evts') = Len(evts) - 1
      /\ \A i \in 1 .. Len(evts) - 1 : evts'[i] = evts[i + 1]
  BY <1>1, Taking DEF TakeEvent
<1>3. ASSUME NEW x, NEW i \in 1 .. Len(evts), evts[i] = x, x # evt' PROVE Held(x)'
  <2>1. i - 1 \in 1 .. Len(evts') /\ evts'[i - 1] = x
    BY <1>2, <1>3
  <2> QED
    BY <2>1 DEF Held
<1> QED
  BY <1>3 DEF Held

(* The event of the manager tells what it has done. *)
Tells(e) ==
    /\ \A l \in Links : Up(l) => Up(l)' \/ e = Down(l)
    /\ \A l \in Links : e = Began(l) => Up(l)'
    /\ adv' = "off" => adv = "off" \/ e = AdvCompleted

LEMMA EnvironmentTells ==
  ASSUME TypeInv, Environment
  PROVE  \/ \E e \in Events : Post(e) /\ Tells(e)
         \/ UNCHANGED <<evts, link, adv>>
<1>1. ASSUME NEW l \in Links, NEW p \in Peers, Connect(l, p)
      PROVE  \E e \in Events : Post(e) /\ Tells(e)
  <2>1. Post(Began(l)) /\ Began(l) \in Events
    BY <1>1, EventKinds DEF Connect, Began, LinkEvents
  <2>2. Tells(Began(l))
    BY <1>1, PairingAssumption, Codes DEF Connect, Tells, Up, TypeInv, TypeOK
  <2> QED
    BY <2>1, <2>2
<1>2. ASSUME NEW l \in Links, Disconnect(l) PROVE \E e \in Events : Post(e) /\ Tells(e)
  <2>1. Post(Down(l)) /\ Down(l) \in Events
    BY <1>2, EventKinds DEF Disconnect, Down, LinkEvents
  <2>2. Tells(Down(l))
    BY <1>2, Codes DEF Disconnect, Tells, Up, TypeInv, TypeOK
  <2> QED
    BY <2>1, <2>2
<1>a. ASSUME NEW e \in Events, Post(e), e.code \notin {"connected", "disconnected"},
             UNCHANGED <<link, adv>>
      PROVE  Tells(e)
  BY <1>a, Codes DEF Tells, Up
<1>3. ASSUME NEW l \in Links, Read(l) PROVE \E e \in Events : Post(e) /\ Tells(e)
  BY <1>a, <1>3, EventKinds DEF Read, LinkEvents
<1>4. ASSUME NEW l \in Links, NEW b \in BOOLEAN, RequestPairing(l, b)
      PROVE  \E e \in Events : Post(e) /\ Tells(e)
  BY <1>a, <1>4, EventKinds DEF RequestPairing
<1>5. ASSUME NEW l \in Links, PairingSucceeds(l) \/ PairingFails(l)
      PROVE  \E e \in Events : Post(e) /\ Tells(e)
  BY <1>a, <1>5, EventKinds DEF PairingSucceeds, PairingFails, LinkEvents
<1>6. CASE AdvEnds
  BY <1>6, EventKinds, Codes DEF AdvEnds, Tells, Up
<1>7. CASE AdvTimerFires \/ BlockTimerFires
  BY <1>7 DEF AdvTimerFires, BlockTimerFires, gap
<1> QED
  BY <1>1, <1>2, <1>3, <1>4, <1>5, <1>6, <1>7 DEF Environment, PairAsAsked, PairUnasked

LEMMA BegunPost ==
  ASSUME TypeInv, Begun, NEW e \in Events, Post(e), Tells(e), UNCHANGED app
  PROVE  Begun'
<1>1. evts \in Seq(Events)
  BY DEF TypeInv, TypeOK
<1>2. /\ Len(evts) \in Nat /\ Len(evts') = Len(evts) + 1
      /\ \A i \in 1 .. Len(evts) : evts'[i] = evts[i]
      /\ evts'[Len(evts) + 1] = e
  BY <1>1, Posting DEF Post
<1>3. ASSUME NEW l \in Links, at' = "handle", evt' = Began(l)
      PROVE  Up(l)' \/ Held(Down(l))'
  BY <1>3, HeldPost DEF Begun, Tells, app
<1>4. ASSUME NEW l \in Links, NEW i \in 1 .. Len(evts'), evts'[i] = Began(l)
      PROVE  Up(l)' \/ \E j \in i + 1 .. Len(evts') : evts'[j] = Down(l)
  <2>1. CASE i = Len(evts) + 1
    BY <1>2, <1>4, <2>1 DEF Tells
  <2>2. CASE i # Len(evts) + 1
    <3>1. i \in 1 .. Len(evts) /\ evts[i] = Began(l)
      BY <1>2, <1>4, <2>2
    <3>2. CASE Up(l)
      <4>1. Up(l)' \/ e = Down(l)
        BY <3>2 DEF Tells
      <4> QED
        BY <1>2, <3>1, <4>1
    <3>3. CASE ~Up(l)
      <4>1. PICK j \in i + 1 .. Len(evts) : evts[j] = Down(l)
        BY <3>1, <3>3 DEF Begun
      <4> QED
        BY <1>2, <3>1, <4>1
    <3> QED
      BY <3>2, <3>3
  <2> QED
    BY <2>1, <2>2
<1> QED
  BY <1>3, <1>4 DEF Begun

LEMMA BegunTake ==
  ASSUME TypeInv, Begun, TakeEvent, UNCHANGED link
  PROVE  Begun'
<1>1. evts \in Seq(Events)
  BY DEF TypeInv, TypeOK
<1>2. /\ evt' = evts[1] /\ Len(evts) \in Nat \ {0} /\ Len(evts') = Len(evts) - 1
      /\ \A i \in 1 .. Len(evts) - 1 : evts'[i] = evts[i + 1]
  BY <1>1, Taking DEF TakeEvent
<1>3. ASSUME NEW l \in Links, NEW i \in 1 .. Len(evts), evts[i] = Began(l), ~Up(l)
      PROVE  \E j \in i .. Len(evts') : evts'[j] = Down(l)
  <2>1. PICK j \in i + 1 .. Len(evts) : evts[j] = Down(l)
    BY <1>3 DEF Begun
  <2>2. j - 1 \in i .. Len(evts') /\ evts'[j - 1] = Down(l)
    BY <1>2, <2>1
  <2> QED
    BY <2>2
<1>4. ASSUME NEW l \in Links, evt' = Began(l), ~Up(l) PROVE Held(Down(l))'
  <2>1. 1 \in 1 .. Len(evts) /\ evts[1] = Began(l)
    BY <1>2, <1>4
  <2>2. \E j \in 1 .. Len(evts') : evts'[j] = Down(l)
    BY <1>3, <1>4, <2>1
  <2> QED
    BY <2>2 DEF Held
<1>5. ASSUME NEW l \in Links, NEW i \in 1 .. Len(evts'), evts'[i] = Began(l), ~Up(l)
      PROVE  \E j \in i + 1 .. Len(evts') : evts'[j] = Down(l)
  <2>1. i + 1 \in 1 .. Len(evts) /\ evts[i + 1] = Began(l)
    BY <1>2, <1>5
  <2> QED
    BY <1>3, <1>5, <2>1
<1> QED
  BY <1>4, <1>5 DEF Begun, Up

(* Steps that take no event, and do not begin to handle one. *)
LEMMA BegunAside ==
  ASSUME Begun, UNCHANGED <<evts, link>>, at' # "handle" \/ UNCHANGED <<at, evt>>
  PROVE  Begun'
  BY DEF Begun, Held, Up

(* Only the first of the events can be new to a step of the task. *)
LEMMA TaskTakes ==
  ASSUME Task
  PROVE  UNCHANGED link /\ (TakeEvent \/ (UNCHANGED evts /\ at' # "handle"))
  BY DEF Task, WakeMain, WakeBlocked, Wake, GetEvent, CheckMore, HandleRead,
     HandlePairReq, HandleConnected, HandleDisconnected, RestartAdv, HandleAdvCompleted,
     HandleOther, BlockGet, ArmTimer, PollEnds, Answer, Go, Handling, gap

LEMMA BegunStep == ASSUME TypeInv, Begun, [Next]_vars PROVE Begun'
<1>1. CASE Environment
  BY <1>1, EnvironmentPosts, EnvironmentTells, BegunPost, BegunAside DEF TypeInv, app
<1>2. CASE Task
  BY <1>2, TaskTakes, BegunTake, BegunAside
<1>3. CASE UNCHANGED vars
  BY <1>3, BegunAside DEF vars, gap, app
<1> QED
  BY <1>1, <1>2, <1>3 DEF Next

LEMMA AdvertisesStep == ASSUME TypeInv, Advertises, [Next]_vars PROVE Advertises'
<1>1. CASE Environment
  <2>1. UNCHANGED <<at, evt, missed>>
    BY <1>1, EnvironmentPosts DEF TypeInv, app
  <2>2. CASE \E e \in Events : Post(e) /\ Tells(e)
    BY <2>1, <2>2, HeldPost DEF Advertises, Due, Tells
  <2>3. CASE UNCHANGED <<evts, link, adv>>
    BY <2>1, <2>3 DEF Advertises, Due, Held
  <2> QED
    BY <1>1, <2>2, <2>3, EnvironmentTells
<1>2. CASE GetEvent
  <2>1. CASE TakeEvent /\ Go("handle")
    BY <1>2, <2>1, HeldTake DEF GetEvent, Go, Advertises, Due, gap
  <2>2. CASE evts = <<>> /\ Go("check") /\ UNCHANGED <<evts, evt>>
    BY <1>2, <2>2 DEF GetEvent, Go, Advertises, Due, Held, gap
  <2> QED
    BY <1>2, <2>1, <2>2 DEF GetEvent
<1>3. CASE BlockGet
  <2>1. CASE evt'.code = "advCompleted"
    BY <1>3, <2>1 DEF BlockGet, Advertises
  <2>2. CASE evt'.code # "advCompleted"
    <3>1. Held(AdvCompleted) => Held(AdvCompleted)'
      BY <1>3, <2>2, HeldTake, Codes DEF BlockGet
    <3>2. ~missed' => ~missed
      BY <1>3 DEF BlockGet
    <3> QED
      BY <1>3, <3>1, <3>2 DEF BlockGet, Advertises, Due
  <2> QED
    BY <2>1, <2>2
<1>4. CASE RestartAdv \/ HandleAdvCompleted
  BY <1>4 DEF RestartAdv, HandleAdvCompleted, AdvStart, Advertises
<1>5. CASE HandleDisconnected
  BY <1>5, Codes DEF HandleDisconnected, Handling, AdvStop, Go, Advertises, Due, Held
<1>6. CASE HandleConnected
  BY <1>6, Codes DEF HandleConnected, Handling, AdvStop, Go, Advertises, Due, Held
<1>7. CASE HandleRead \/ HandlePairReq \/ HandleOther
  BY <1>7, Codes DEF HandleRead, HandlePairReq, HandleOther, Handling, Go, Advertises, Due,
     Held, gap
<1>8. CASE WakeMain \/ WakeBlocked \/ CheckMore \/ ArmTimer \/ PollEnds \/ Answer
  BY <1>8 DEF WakeMain, WakeBlocked, Wake, CheckMore, ArmTimer, PollEnds, Answer, Go,
     Advertises, Due, Held, gap
<1>9. CASE UNCHANGED vars
  BY <1>9 DEF vars, gap, app, Advertises, Due, Held
<1> QED
  BY <1>1, <1>2, <1>3, <1>4, <1>5, <1>6, <1>7, <1>8, <1>9 DEF Next, Task

LEMMA EndsStep == ASSUME TypeInv, Begun, Ends, [Next]_vars PROVE Ends'
<1>0. active # NoLink => active \in Links
  BY DEF TypeInv, TypeOK
<1>1. CASE Environment
  <2>1. UNCHANGED <<at, evt, active, missed>>
    BY <1>1, EnvironmentPosts DEF TypeInv, app
  <2>2. CASE \E e \in Events : Post(e) /\ Tells(e)
    BY <1>0, <2>1, <2>2, HeldPost DEF Ends, Due, Tells
  <2>3. CASE UNCHANGED <<evts, link, adv>>
    BY <2>1, <2>3 DEF Ends, Due, Held, Up
  <2> QED
    BY <1>1, <2>2, <2>3, EnvironmentTells
<1>2. CASE GetEvent
  <2>1. CASE TakeEvent /\ Go("handle")
    BY <1>2, <2>1, HeldTake DEF GetEvent, Go, Ends, Due, Up, gap
  <2>2. CASE evts = <<>> /\ Go("check") /\ UNCHANGED <<evts, evt>>
    BY <1>2, <2>2 DEF GetEvent, Go, Ends, Due, Held, Up, gap
  <2> QED
    BY <1>2, <2>1, <2>2 DEF GetEvent
<1>3. CASE BlockGet
  <2>1. CASE evt'.code = "disconnected"
    BY <1>3, <2>1 DEF BlockGet, Ends
  <2>2. CASE evt'.code # "disconnected"
    <3>1. Held(Down(active)) => Held(Down(active))'
      BY <1>3, <2>2, HeldTake, Codes DEF BlockGet
    <3>2. ~missed' => ~missed
      BY <1>3 DEF BlockGet
    <3> QED
      BY <1>3, <3>1, <3>2 DEF BlockGet, Ends, Due, Up
  <2> QED
    BY <2>1, <2>2
<1>4. CASE HandleConnected
  <2>1. evt.link \in Links /\ evt = Began(evt.link)
    BY <1>4, ConnectedEvent DEF HandleConnected, Handling, TypeInv, TypeOK
  <2>2. CASE active = NoLink
    <3>1. Up(evt.link) \/ Held(Down(evt.link))
      BY <1>4, <2>1 DEF HandleConnected, Handling, Begun
    <3> QED
      BY <1>4, <2>2, <3>1 DEF HandleConnected, Ends, Due, Held, Up
  <2>3. CASE active # NoLink
    BY <1>4, <2>3, Codes DEF HandleConnected, Handling, Ends, Due, Held, Up
  <2> QED
    BY <2>2, <2>3
<1>5. CASE HandleDisconnected
  BY <1>5, Codes DEF HandleDisconnected, Handling, Ends, Due, Held, Up
<1>6. CASE HandleRead \/ HandlePairReq \/ HandleOther \/ HandleAdvCompleted
  BY <1>6, Codes DEF HandleRead, HandlePairReq, HandleOther, HandleAdvCompleted, Handling,
     Ends, Due, Held, Up, gap
<1>7. CASE WakeMain \/ WakeBlocked \/ CheckMore \/ RestartAdv
  BY <1>7 DEF WakeMain, WakeBlocked, Wake, CheckMore, RestartAdv, Ends, Due, Held, Up, gap
<1>8. CASE ArmTimer \/ PollEnds \/ Answer
  BY <1>8 DEF ArmTimer, PollEnds, Answer, Ends, Due, Held, Up, gap
<1>9. CASE UNCHANGED vars
  BY <1>9 DEF vars, gap, app, Ends, Due, Held, Up
<1> QED
  BY <1>1, <1>2, <1>3, <1>4, <1>5, <1>6, <1>7, <1>8, <1>9 DEF Next, Task

LEMMA QueueInit == Init => Queue
<1>1. Len(<<>>) = 0
  BY EmptySeq
<1> QED
  BY <1>1 DEF Init, Queue, Begun, Advertises, Ends, Up

(* Unless a wait for a bond has dropped an event, the device advertises or  *)
(* is about to whenever its events are handled, and the link it takes for   *)
(* active is up. *)
THEOREM StaysConnectable == Spec => []Connectable
<1>1. TypeInv /\ Queue => Connectable
  <2> SUFFICES ASSUME TypeInv, Queue, ~missed, at = "wait", evts = <<>>
               PROVE  adv # "off" /\ (active # NoLink => Up(active))
    BY DEF Connectable
  <2>1. Len(evts) = 0
    BY EmptySeq
  <2>2. \A x : ~Due(x)
    BY <2>1 DEF Due, Held
  <2> QED
    BY <2>2 DEF Queue, Advertises, Ends
<1>2. TypeInv /\ Queue /\ [Next]_vars => Queue'
  BY BegunStep, AdvertisesStep, EndsStep DEF Queue
<1> QED
  BY <1>1, <1>2, TypeInit, TypeStep, QueueInit, PTL DEF Spec
=============================================================================
