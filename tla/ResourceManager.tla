--------------------------- MODULE ResourceManager ---------------------------
(***************************************************************************)
(* The resource manager (resmgmt.c): tasks acquire sets of resources, with *)
(* or without a time limit, and a release hands what it frees straight to  *)
(* the requests that wait for it.  A waiting task sleeps on the binary     *)
(* semaphore of a request that is used again by the next task, so a task   *)
(* whose time is up races with the release that serves it.                 *)
(*                                                                         *)
(* The adapters that share the resources extend this module: an action of  *)
(* it is one critical section, or one wait, of resource_acquire or         *)
(* resource_release.                                                       *)
(***************************************************************************)
EXTENDS Integers, Sequences, FiniteSets

CONSTANTS
    Tasks,
    Resources,
    Requests,       \* the pre-allocated table of MAX_RESOURCE_REQUEST requests
    NoRequest       \* a task that is not inside resource_acquire has none

ASSUME ResourceAssumption ==
    /\ NoRequest \notin Requests
    /\ IsFiniteSet(Requests) /\ IsFiniteSet(Tasks)
    /\ Cardinality(Tasks) <= Cardinality(Requests)

VARIABLES
    acquired,   \* acquired_resources
    waiting,    \* waiting_list, newest first
    free,       \* free_list
    mask,       \* for each request its mask,
    granted,    \* granted flag
    signalled,  \* and whether wait_event has been given
    call,       \* where each task is in resource_acquire
    held        \* what each task has been told it has

rmVars == <<acquired, waiting, free, mask, granted, signalled, call, held>>

Running == [pc |-> "run", req |-> NoRequest, limited |-> FALSE, timedOut |-> FALSE]

Listed == {waiting[i] : i \in DOMAIN waiting}

RmTypeOK ==
    /\ acquired \subseteq Resources
    /\ waiting \in Seq(Requests) /\ free \subseteq Requests
    /\ mask \in [Requests -> SUBSET Resources]
    /\ granted \in [Requests -> BOOLEAN] /\ signalled \in [Requests -> BOOLEAN]
    /\ call \in [Tasks -> [pc : {"run", "wait", "woken"}, req : Requests \cup {NoRequest},
                           limited : BOOLEAN, timedOut : BOOLEAN]]
    /\ held \in [Tasks -> SUBSET Resources]

RmInit ==
    /\ acquired = {}
    /\ waiting = <<>>
    /\ free = Requests
    /\ mask = [r \in Requests |-> {}]
    /\ granted = [r \in Requests |-> FALSE]
    /\ signalled = [r \in Requests |-> FALSE]
    /\ call = [t \in Tasks |-> Running]
    /\ held = [t \in Tasks |-> {}]

----------------------------------------------------------------------------
(* resource_acquire of what is free. *)
AcquireNow(t, m) ==
    /\ call[t].pc = "run"
    /\ m \cap acquired = {}
    /\ acquired' = acquired \cup m
    /\ held' = [held EXCEPT ![t] = @ \cup m]
    /\ UNCHANGED <<waiting, free, mask, granted, signalled, call>>

(* resource_acquire with timeout 0 of what is not. *)
Refused(t, m) ==
    /\ call[t].pc = "run"
    /\ m \cap acquired # {}
    /\ UNCHANGED rmVars

(* resource_acquire up to OS_EVENT_WAIT; without a free request it asserts. *)
Enqueue(t, m, limited) ==
    /\ call[t].pc = "run"
    /\ m \cap acquired # {}
    /\ \E r \in free :
         /\ free' = free \ {r}
         /\ waiting' = <<r>> \o waiting
         /\ mask' = [mask EXCEPT ![r] = m]
         /\ granted' = [granted EXCEPT ![r] = FALSE]
         /\ call' = [call EXCEPT ![t] = [pc |-> "wait", req |-> r,
                                         limited |-> limited, timedOut |-> FALSE]]
    /\ UNCHANGED <<acquired, signalled, held>>

(* OS_EVENT_WAIT returns: the semaphore was given, or the time is up. *)
Wake(t) ==
    /\ call[t].pc = "wait"
    /\ signalled[call[t].req]
    /\ signalled' = [signalled EXCEPT ![call[t].req] = FALSE]
    /\ call' = [call EXCEPT ![t].pc = "woken"]
    /\ UNCHANGED <<acquired, waiting, free, mask, granted, held>>

TimeOut(t) ==
    /\ call[t].pc = "wait" /\ call[t].limited
    /\ ~signalled[call[t].req]
    /\ call' = [call EXCEPT ![t].pc = "woken", ![t].timedOut = TRUE]
    /\ UNCHANGED <<acquired, waiting, free, mask, granted, signalled, held>>

(* list_remove *)
Without(s, r) ==
    LET i == CHOOSE k \in DOMAIN s : s[k] = r
    IN  [j \in 1 .. Len(s) - 1 |-> IF j < i THEN s[j] ELSE s[j + 1]]

Succeeds(t) == granted[call[t].req]

(* Faulty variant: after a time-out nobody looks whether access was granted. *)
GivenInTime(t) == IF ~call[t].timedOut THEN mask[call[t].req] ELSE {}

(* What a task whose wait is over gets: "Even if timeout happened, check      *)
(* whether access was granted"; *)
Given(t) == IF Succeeds(t) THEN mask[call[t].req] ELSE {}

(* Faulty variant: no event is cleared. *)
NoEvent(t) == {}

(* the request whose event it has to clear in this case; *)
LateEvent(t) == IF Succeeds(t) /\ call[t].timedOut THEN {call[t].req} ELSE {}

(* and the request it gives back. *)
Back(t) == {call[t].req}

(* The critical section at the end of resource_acquire.  Enqueue writes the   *)
(* mask and the flag of a free request before they are read again, and the  *)
(* model clears them.                                                      *)
Return(t) ==
    /\ call[t].pc = "woken"
    /\ waiting' = Without(waiting, call[t].req)
    /\ free' = free \cup Back(t)
    /\ held' = [held EXCEPT ![t] = @ \cup Given(t)]
    /\ signalled' = [r \in Requests |-> signalled[r] /\ r \notin LateEvent(t)]
    /\ mask' = [mask EXCEPT ![call[t].req] = {}]
    /\ granted' = [granted EXCEPT ![call[t].req] = FALSE]
    /\ call' = [call EXCEPT ![t] = Running]
    /\ UNCHANGED acquired

(* What is taken when the request at position i of the list is looked at,    *)
(* those at the positions of served being granted.                         *)
TakenBefore(i, taken, served) ==
    taken \cup UNION {mask[waiting[j]] : j \in {k \in served : k < i}}

(* Faulty variant: the walk starts behind the head of the list. *)
SkipsHead(taken, served) ==
    \A i \in DOMAIN waiting :
        i \in served <=> i > 1 /\ mask[waiting[i]] \cap TakenBefore(i, taken, served) = {}

(* The walk of resource_release over the list: each request that fits in    *)
(* what is left is served.                                                 *)
Walk(taken, served) ==
    \A i \in DOMAIN waiting :
        i \in served <=> mask[waiting[i]] \cap TakenBefore(i, taken, served) = {}

(* resource_release, by a task or by an interrupt. *)
Release(m) ==
    /\ m # {} /\ m \subseteq acquired
    /\ \E served \in SUBSET DOMAIN waiting :
         LET lucky == {waiting[i] : i \in served} IN
         /\ Walk(acquired \ m, served)
         /\ acquired' = (acquired \ m) \cup UNION {mask[r] : r \in lucky}
         /\ granted' = [r \in Requests |-> granted[r] \/ r \in lucky]
         /\ signalled' = [r \in Requests |-> signalled[r] \/ r \in lucky]
    /\ held' = [t \in Tasks |-> held[t] \ m]
    /\ UNCHANGED <<waiting, free, mask, call>>

----------------------------------------------------------------------------
(* The manager under any callers that release what they hold and do not ask *)
(* for nothing.                                                            *)
RmNext ==
    \E t \in Tasks :
        \/ \E m \in (SUBSET Resources) \ {{}} :
              \/ AcquireNow(t, m) \/ Refused(t, m)
              \/ \E limited \in BOOLEAN : Enqueue(t, m, limited)
              \/ m \subseteq held[t] /\ Release(m)
        \/ Wake(t) \/ TimeOut(t) \/ Return(t)

RmSpec == RmInit /\ [][RmNext]_rmVars

----------------------------------------------------------------------------
(* What a task has, told or not: a release gives the resources away before  *)
(* the task that waits for them runs, and also when its time is up already. *)
Has(t) ==
    held[t] \cup IF call[t].pc # "run" /\ granted[call[t].req] THEN mask[call[t].req] ELSE {}

(* No resource is ever given to two tasks, and every resource that counts   *)
(* as acquired is given to one: none is lost by a request whose time was up *)
(* when it was granted.                                                    *)
MutualExclusion ==
    /\ \A t, u \in Tasks : t # u => Has(t) \cap Has(u) = {}
    /\ \A t \in Tasks : Has(t) \subseteq acquired
    /\ \A x \in acquired : \E t \in Tasks : x \in Has(t)

(* A request in the list that is not granted still lacks something: no       *)
(* release forgets a request that could have been served.                  *)
NoLostWakeup ==
    \A r \in Listed : ~granted[r] => mask[r] \cap acquired # {}

(* The semaphore of a request that nobody uses has not been given, so the    *)
(* next wait on it does not return at once; that of a granted request whose  *)
(* task still sleeps has been given.                                       *)
EventsMatch ==
    /\ \A r \in free : ~signalled[r]
    /\ \A t \in Tasks : call[t].pc = "wait" =>
           (signalled[call[t].req] <=> granted[call[t].req])

(* "In final solution MAX_RESOURCE_REQUEST should be trimmed to value that is *)
(* enough": with a request per task none is ever missing.                  *)
RequestLeft == \A t \in Tasks : call[t].pc = "run" => free # {}
============================================================================
