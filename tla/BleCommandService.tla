-------------------------- MODULE BleCommandService --------------------------
(***************************************************************************)
(* What the BLE API promises to the tasks that call it, without any task,  *)
(* queue or lock: commands are served one at a time, each is answered      *)
(* exactly once, and the answer a caller gets is the one made for the      *)
(* command it issued.                                                      *)
(***************************************************************************)
EXTENDS Naturals

CONSTANTS Clients, Ids      \* callers, and serial numbers of commands

VARIABLES
  phase,    \* "idle", "asked", "served" (being executed), "answered"
  asked,    \* serial number of the command each client issued
  answer    \* serial number of the command its answer was made for

svcVars == <<phase, asked, answer>>

NoAnswer == 0

Init ==
  /\ phase = [c \in Clients |-> "idle"]
  /\ asked = [c \in Clients |-> 0]
  /\ answer = [c \in Clients |-> NoAnswer]

Ask(c) ==
  /\ phase[c] = "idle"
  /\ phase' = [phase EXCEPT ![c] = "asked"]
  /\ \E id \in Ids :
       /\ id # NoAnswer /\ \A d \in Clients : asked[d] # id
       /\ asked' = [asked EXCEPT ![c] = id]
  /\ answer' = [answer EXCEPT ![c] = NoAnswer]

\* Service of a command begins when no other command is in service.
Serve(c) ==
  /\ phase[c] = "asked"
  /\ \A d \in Clients : phase[d] \notin {"served", "answered"}
  /\ phase' = [phase EXCEPT ![c] = "served"]
  /\ UNCHANGED <<asked, answer>>

Answer(c) ==
  /\ phase[c] = "served"
  /\ phase' = [phase EXCEPT ![c] = "answered"]
  /\ answer' = [answer EXCEPT ![c] = asked[c]]
  /\ UNCHANGED asked

Return(c) ==
  /\ phase[c] = "answered"
  /\ phase' = [phase EXCEPT ![c] = "idle"]
  /\ UNCHANGED <<asked, answer>>

Next == \E c \in Clients : Ask(c) \/ Serve(c) \/ Answer(c) \/ Return(c)

Spec == Init /\ [][Next]_svcVars
=============================================================================
