----------------------------- MODULE PairingApp -----------------------------
(***************************************************************************)
(* The application security-request-pair-service: a read of its value asks *)
(* the peer to pair, waits for the request and for the bond, and answers.  *)
(*                                                                         *)
(* The task (ble_peripheral_task.c, custom_service.c) is a loop that takes *)
(* one event per notification; block_state_pair, called by the handler of  *)
(* a read, has a loop of its own on the same notifications and events.     *)
(* Beside it run the manager task, which keeps the links, the bonds and    *)
(* the advertising state and posts the events (ble_mgr_gap.c), two timers, *)
(* and the peers.                                                          *)
(***************************************************************************)
EXTENDS Naturals, Sequences, FiniteSets

CONSTANTS
    Links,      \* connection indices
    Link0,      \* index 0, which ble_gap_pair is always called for
    NoLink,     \* BLE_CONN_IDX_INVALID
    Peers,
    NoPeer,
    MaxBonded,  \* BLE_GAP_MAX_BONDED
    MaxMoves    \* bounds what the peers do of their own accord

ASSUME PairingAssumption ==
    /\ Link0 \in Links /\ NoLink \notin Links
    /\ IsFiniteSet(Peers) /\ NoPeer \notin Peers
    /\ MaxBonded \in Nat /\ MaxMoves \in Nat

VARIABLES
    link,       \* the peer on each link
    bonded,     \* peers with a bond in the storage
    paired,     \* peers in the storage that have paired
    asked,      \* links with a security request under way to the peer
    pairing,    \* the pairing procedure of each link
    read,       \* links whose peer waits for the answer to a read
    adv,        \* advertising: on, ending (its end is on the way), off
    evts,       \* the events for the application
    notif,      \* the notification bits of the task
    at,         \* where the task is
    evt,        \* the event it handles
    reader,     \* the connection block_state_pair was called for
    active,     \* active_conn_idx
    advTimer,   \* adv_timer runs
    timer,      \* timer_handle runs
    expired,    \* timer_expired
    missed,     \* block_state_pair has dropped an event of the main loop
    moves

gap == <<link, bonded, paired, asked, pairing, read, adv>>
app == <<at, evt, reader, active>>
timers == <<advTimer, timer, expired>>
vars == <<gap, evts, notif, app, timers, missed, moves>>

LinkEvents == {"connected", "disconnected", "readReq", "pairCompleted"}

Events == [code : LinkEvents, link : Links]
            \cup [code : {"pairReq"}, link : Links, bond : BOOLEAN]
            \cup [code : {"advCompleted"}]

Places == {"wait", "get", "handle", "restart", "check",
           "blockWait", "blockGet", "arm", "poll", "answer"}

TypeOK ==
    /\ link \in [Links -> Peers \cup {NoPeer}]
    /\ bonded \subseteq Peers /\ paired \subseteq Peers
    /\ asked \subseteq Links /\ read \subseteq Links
    /\ pairing \in [Links -> {"none", "requested", "keyed", "keyless"}]
    /\ adv \in {"on", "ending", "off"}
    /\ evts \in Seq(Events) /\ notif \subseteq {"ble", "adv"}
    /\ at \in Places /\ evt \in Events
    /\ reader \in Links /\ active \in Links \cup {NoLink}
    /\ advTimer \in BOOLEAN /\ timer \in BOOLEAN /\ expired \in BOOLEAN
    /\ missed \in BOOLEAN /\ moves \in 0 .. MaxMoves

AdvCompleted == [code |-> "advCompleted"]

(* The task has set up its service and starts to advertise. *)
Init ==
    /\ link = [l \in Links |-> NoPeer]
    /\ bonded = {} /\ paired = {} /\ asked = {} /\ read = {}
    /\ pairing = [l \in Links |-> "none"]
    /\ adv = "on" /\ evts = <<>> /\ notif = {}
    /\ at = "wait" /\ evt = AdvCompleted /\ reader = Link0 /\ active = NoLink
    /\ advTimer = FALSE /\ timer = FALSE /\ expired = FALSE
    /\ missed = FALSE /\ moves = 0

Up(l) == link[l] # NoPeer

(* ble_mgr_event_queue_send *)
Post(e) == evts' = Append(evts, e) /\ notif' = notif \cup {"ble"}

Move == moves < MaxMoves /\ moves' = moves + 1

----------------------------------------------------------------------------
(* The manager task and the peers. *)

(* A connection ends the advertising. *)
Connect(l, p) ==
    /\ Move /\ adv = "on"
    /\ ~Up(l) /\ \A k \in Links : link[k] # p
    /\ link' = [link EXCEPT ![l] = p]
    /\ adv' = "ending"
    /\ Post([code |-> "connected", link |-> l])
    /\ UNCHANGED <<bonded, paired, asked, pairing, read, app, timers, missed>>

(* ble_mgr_gapm_adv_cmp_evt_handler *)
AdvEnds ==
    /\ adv = "ending"
    /\ adv' = "off"
    /\ Post(AdvCompleted)
    /\ UNCHANGED <<link, bonded, paired, asked, pairing, read, app, timers, missed, moves>>

(* A device without a bond is removed from the storage. *)
Disconnect(l) ==
    /\ Move /\ Up(l)
    /\ link' = [link EXCEPT ![l] = NoPeer]
    /\ paired' = IF link[l] \in bonded THEN paired ELSE paired \ {link[l]}
    /\ asked' = asked \ {l} /\ read' = read \ {l}
    /\ pairing' = [pairing EXCEPT ![l] = "none"]
    /\ Post([code |-> "disconnected", link |-> l])
    /\ UNCHANGED <<bonded, adv, app, timers, missed>>

Read(l) ==
    /\ Move /\ Up(l) /\ l \notin read
    /\ read' = read \cup {l}
    /\ Post([code |-> "readReq", link |-> l])
    /\ UNCHANGED <<link, bonded, paired, asked, pairing, adv, app, timers, missed>>

RequestPairing(l, bond) ==
    /\ Up(l) /\ pairing[l] = "none"
    /\ pairing' = [pairing EXCEPT ![l] = "requested"]
    /\ asked' = asked \ {l}
    /\ Post([code |-> "pairReq", link |-> l, bond |-> bond])
    /\ UNCHANGED <<link, bonded, paired, read, adv, app, timers, missed>>

(* A peer pairs because it was asked to, or because it wants to. *)
PairAsAsked(l, bond) == l \in asked /\ RequestPairing(l, bond) /\ UNCHANGED moves

PairUnasked(l, bond) == l \notin asked /\ RequestPairing(l, bond) /\ Move

(* GAPC_PAIRING_SUCCEED: without an exchange of keys there is no bond any   *)
(* more, even if the task has just found one.                               *)
PairingSucceeds(l) ==
    /\ pairing[l] \in {"keyed", "keyless"}
    /\ pairing' = [pairing EXCEPT ![l] = "none"]
    /\ paired' = paired \cup {link[l]}
    /\ bonded' = IF pairing[l] = "keyed" THEN bonded \cup {link[l]} ELSE bonded \ {link[l]}
    /\ Post([code |-> "pairCompleted", link |-> l])
    /\ UNCHANGED <<link, asked, read, adv, app, timers, missed, moves>>

(* GAPC_PAIRING_FAILED *)
PairingFails(l) ==
    /\ Move /\ pairing[l] # "none"
    /\ pairing' = [pairing EXCEPT ![l] = "none"]
    /\ Post([code |-> "pairCompleted", link |-> l])
    /\ UNCHANGED <<link, bonded, paired, asked, read, adv, app, timers, missed>>

----------------------------------------------------------------------------
(* The timers. *)

(* adv_timer_cb: a bit that the task does not look at *)
AdvTimerFires ==
    /\ advTimer
    /\ advTimer' = FALSE
    /\ notif' = notif \cup {"adv"}
    /\ UNCHANGED <<gap, evts, app, timer, expired, missed, moves>>

(* set_block_flag *)
BlockTimerFires ==
    /\ timer
    /\ timer' = FALSE /\ expired' = TRUE
    /\ UNCHANGED <<gap, evts, notif, app, advTimer, missed, moves>>

----------------------------------------------------------------------------
(* The main loop. *)

Go(place) == at' = place

(* OS_TASK_NOTIFY_WAIT clears all bits; without that of BLE the task waits  *)
(* again.                                                                   *)
Wake(from, to) ==
    /\ at = from /\ notif # {}
    /\ Go(IF "ble" \in notif THEN to ELSE from)
    /\ notif' = {}
    /\ UNCHANGED <<gap, evts, evt, reader, active, timers, missed, moves>>

WakeMain == Wake("wait", "get")

TakeEvent ==
    /\ evts # <<>>
    /\ evt' = Head(evts) /\ evts' = Tail(evts)

(* ble_get_event(false) *)
GetEvent ==
    /\ at = "get"
    /\ \/ TakeEvent /\ Go("handle")
       \/ evts = <<>> /\ Go("check") /\ UNCHANGED <<evts, evt>>
    /\ UNCHANGED <<gap, notif, reader, active, timers, missed, moves>>

Handling(code) == at = "handle" /\ evt.code = code

(* do_char_value_read.  It takes the service for a pairing request, which   *)
(* gives ble_gap_pair connection 0 and no bond.  If nobody is connected     *)
(* there, the read is left; a peer that has paired is not asked again, and  *)
(* waited for all the same.                                                 *)
HandleRead ==
    /\ Handling("readReq")
    /\ \/ ~Up(Link0) /\ Go("check") /\ UNCHANGED <<asked, reader>>
       \/ /\ Up(Link0) /\ Go("blockWait")
          /\ asked' = IF link[Link0] \in paired \cup bonded THEN asked ELSE asked \cup {Link0}
          /\ reader' = evt.link
    /\ UNCHANGED <<link, bonded, paired, pairing, read, adv, evts, notif, evt, active, timers,
                   missed, moves>>

(* ble_gap_pair_reply with the bond that the peer wants: refused without a  *)
(* link, and when there are as many bonds as there may be                   *)
Reply(l, bond) ==
    LET full == bond /\ link[l] \notin bonded /\ Cardinality(bonded) >= MaxBonded
    IN  pairing' = IF pairing[l] = "requested" /\ ~full
                   THEN [pairing EXCEPT ![l] = IF bond THEN "keyed" ELSE "keyless"]
                   ELSE pairing

HandlePairReq ==
    /\ Handling("pairReq")
    /\ Reply(evt.link, evt.bond)
    /\ Go("check")
    /\ UNCHANGED <<link, bonded, paired, asked, read, adv, evts, notif, evt, reader, active, timers,
                   missed, moves>>

(* ble_gap_adv_stop and ble_gap_adv_start *)
AdvStop == adv' = IF adv = "on" THEN "ending" ELSE adv

AdvStart == adv' = IF adv = "off" THEN "on" ELSE adv

HandleConnected ==
    /\ Handling("connected")
    /\ \/ /\ active = NoLink
          /\ active' = evt.link /\ AdvStop
       \/ active # NoLink /\ UNCHANGED <<active, adv>>
    /\ Go("check")
    /\ UNCHANGED <<link, bonded, paired, asked, pairing, read, evts, notif, evt, reader, timers,
                   missed, moves>>

HandleDisconnected ==
    /\ Handling("disconnected")
    /\ \/ /\ active = evt.link
          /\ active' = NoLink /\ AdvStop /\ advTimer' = FALSE
          /\ Go("restart")
       \/ active # evt.link /\ Go("check") /\ UNCHANGED <<active, adv, advTimer>>
    /\ UNCHANGED <<link, bonded, paired, asked, pairing, read, evts, notif, evt, reader, timer,
                   expired, missed, moves>>

(* The rest of handle_evt_gap_disconnected: the stop is a command of its    *)
(* own, whose completion comes when it likes.                               *)
RestartAdv ==
    /\ at = "restart"
    /\ AdvStart /\ advTimer' = TRUE
    /\ Go("check")
    /\ UNCHANGED <<link, bonded, paired, asked, pairing, read, evts, notif, evt, reader, active,
                   timer, expired, missed, moves>>

(* Faulty variant: only a disconnection starts the advertising again. *)
AdvCompletedIgnored ==
    /\ Handling("advCompleted")
    /\ Go("check")
    /\ UNCHANGED <<gap, evts, notif, evt, reader, active, timers, missed, moves>>

HandleAdvCompleted ==
    /\ Handling("advCompleted")
    /\ AdvStart
    /\ Go("check")
    /\ UNCHANGED <<link, bonded, paired, asked, pairing, read, evts, notif, evt, reader, active,
                   timers, missed, moves>>

(* ble_handle_event_default has nothing to do for these. *)
HandleOther ==
    /\ Handling("pairCompleted")
    /\ Go("check")
    /\ UNCHANGED <<gap, evts, notif, evt, reader, active, timers, missed, moves>>

(* Faulty variant: the loop notifies itself whether or not there is an      *)
(* event.                                                                   *)
CheckAlways ==
    /\ at = "check"
    /\ notif' = notif \cup {"ble"}
    /\ Go("wait")
    /\ UNCHANGED <<gap, evts, evt, reader, active, timers, missed, moves>>

(* Faulty variant: the loop does not look for more events. *)
CheckNever ==
    /\ at = "check"
    /\ Go("wait")
    /\ UNCHANGED <<gap, evts, notif, evt, reader, active, timers, missed, moves>>

(* ble_has_event *)
CheckMore ==
    /\ at = "check"
    /\ notif' = IF evts # <<>> THEN notif \cup {"ble"} ELSE notif
    /\ Go("wait")
    /\ UNCHANGED <<gap, evts, evt, reader, active, timers, missed, moves>>

----------------------------------------------------------------------------
(* block_state_pair. *)

WakeBlocked == Wake("blockWait", "blockGet")

(* It reads the code of the event without a look at whether there is one.   *)
(* Events other than a pairing request are dropped, those of other links    *)
(* too, and nothing announces the events that are left.                     *)
BlockGet ==
    /\ at = "blockGet"
    /\ TakeEvent
    /\ \/ /\ evt'.code = "pairReq"
          /\ Reply(evt'.link, evt'.bond) /\ Go("arm") /\ UNCHANGED missed
       \/ /\ evt'.code # "pairReq"
          /\ Go("blockWait") /\ UNCHANGED pairing
          /\ missed' = (missed \/ evt'.code \in {"connected", "disconnected", "advCompleted"})
    /\ UNCHANGED <<link, bonded, paired, asked, read, adv, notif, reader, active, timers, moves>>

(* Faulty variant: the flag keeps the expiry of an earlier wait. *)
KeepExpired ==
    /\ at = "arm" /\ Go("poll")
    /\ timer' = TRUE
    /\ UNCHANGED <<gap, evts, notif, evt, reader, active, advTimer, expired, missed, moves>>

(* Faulty variant: the timer is only stopped, never started. *)
NoTimer ==
    /\ at = "arm" /\ Go("poll")
    /\ expired' = FALSE
    /\ UNCHANGED <<gap, evts, notif, evt, reader, active, advTimer, timer, missed, moves>>

(* xTimerReset, which starts the timer, timer_expired = false, xTimerStart. *)
(* The timer task comes before this one, and the timer runs for five        *)
(* seconds: it does not expire in between.                                  *)
ArmTimer ==
    /\ at = "arm" /\ Go("poll")
    /\ timer' = TRUE /\ expired' = FALSE
    /\ UNCHANGED <<gap, evts, notif, evt, reader, active, advTimer, missed, moves>>

(* ble_gap_is_bonded *)
IsBonded(l) == Up(l) /\ link[l] \in bonded

(* Faulty variant: it polls for the peer on connection 0, the one that was  *)
(* asked to pair.                                                           *)
PollsLink0 ==
    /\ at = "poll"
    /\ \/ IsBonded(Link0) /\ Go("answer")
       \/ ~IsBonded(Link0) /\ expired /\ Go("check")
    /\ timer' = FALSE
    /\ UNCHANGED <<gap, evts, notif, evt, reader, active, advTimer, expired, missed, moves>>

(* The poll that ends the wait.  The timer is stopped either way. *)
PollEnds ==
    /\ at = "poll"
    /\ \/ IsBonded(reader) /\ Go("answer")
       \/ ~IsBonded(reader) /\ expired /\ Go("check")
    /\ timer' = FALSE
    /\ UNCHANGED <<gap, evts, notif, evt, reader, active, advTimer, expired, missed, moves>>

(* mcs_get_char_val_cb *)
Answer ==
    /\ at = "answer" /\ Go("check")
    /\ read' = read \ {reader}
    /\ UNCHANGED <<link, bonded, paired, asked, pairing, adv, evts, notif, evt, reader, active,
                   timers, missed, moves>>

----------------------------------------------------------------------------
Environment ==
    \/ \E l \in Links :
          \/ \E p \in Peers : Connect(l, p)
          \/ Disconnect(l) \/ Read(l)
          \/ \E bond \in BOOLEAN : PairAsAsked(l, bond) \/ PairUnasked(l, bond)
          \/ PairingSucceeds(l) \/ PairingFails(l)
    \/ AdvEnds \/ AdvTimerFires \/ BlockTimerFires

Task ==
    \/ WakeMain \/ GetEvent \/ CheckMore
    \/ HandleRead \/ HandlePairReq \/ HandleConnected \/ HandleDisconnected \/ RestartAdv
    \/ HandleAdvCompleted \/ HandleOther
    \/ WakeBlocked \/ BlockGet
    \/ ArmTimer \/ PollEnds \/ Answer

Next == Environment \/ Task

Spec == Init /\ [][Next]_vars

(* The task and the timers run.  A peer that is asked pairs, a pairing that *)
(* both sides agreed on comes to its end, and so does the advertising.      *)
FairSpec ==
    /\ Spec
    /\ WF_vars(Task) /\ WF_vars(AdvTimerFires) /\ WF_vars(BlockTimerFires) /\ WF_vars(AdvEnds)
    /\ \A l \in Links : /\ WF_vars(\E bond \in BOOLEAN : PairAsAsked(l, bond))
                        /\ WF_vars(PairingSucceeds(l))

----------------------------------------------------------------------------
(* Neither loop asks for an event when there is none: block_state_pair      *)
(* would follow a null pointer (ble_peripheral_task.c:206).                 *)
EventWhenAsked == at \in {"get", "blockGet"} => evts # <<>>

(* The main loop does not go to sleep on events: with one left, it is       *)
(* notified.  block_state_pair may (ble_peripheral_task.c:205-226).         *)
EventAnnounced == at = "wait" /\ evts # <<>> => "ble" \in notif

(* Unless block_state_pair dropped an event that matters, the device        *)
(* advertises again whenever all events are handled, and the link it takes  *)
(* for active is up: a connection, a disconnection and the end of the       *)
(* advertising may come in any order around the two commands of a           *)
(* disconnection.                                                           *)
Connectable ==
    ~missed /\ at = "wait" /\ evts = <<>> =>
        /\ adv # "off"
        /\ active # NoLink => Up(active)

(* The task has still to learn that a link has ended. *)
EndUnknown(l) == \E i \in 1 .. Len(evts) : evts[i] = [code |-> "disconnected", link |-> l]

(* The data are not "open to anybody even if pairing is failed or rejected" *)
(* (readme.md:10): "DEVICE PAIRED, SENDING DATA NOW" (custom_service.c:62)  *)
(* is true of whoever gets the value.  Between the last poll and the answer *)
(* a pairing without keys may take the bond away (ble_mgr_gap.c:2781), but  *)
(* that peer has paired; and the link may end and its index go to another   *)
(* peer, but then the task has not heard of the end.                        *)
DataOnlyToPaired ==
    [][\A l \in Links : l \in read \ read' /\ link'[l] = link[l] /\ ~EndUnknown(l)
                          => link[l] \in paired]_vars

(* An expiry of an earlier wait does not end this one: while the timer of   *)
(* the wait runs, it has not expired.                                       *)
OwnTimer == at = "poll" /\ timer => ~expired

(* The poll for the bond comes to its end. *)
PollReturns == at = "poll" ~> at = "wait"

(* "The application should use this function to respond to a                *)
(* BLE_EVT_GATTS_READ_REQ event" (ble_gatts.h:300): the read of a peer with *)
(* a bond is answered.  It is not when block_state_pair waits for a pairing *)
(* request that a peer with a bond has no reason to send.                   *)
BondedReadAnswered == \A l \in Links : (l \in read /\ IsBonded(l)) ~> (l \notin read \/ ~IsBonded(l))

=============================================================================
