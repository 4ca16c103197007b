----------------------- MODULE ResourceManagerProofs -----------------------
(***************************************************************************)
(* Theorems about ResourceManager, for every number of tasks, resources    *)
(* and requests: its types, that no resource is given to two tasks or      *)
(* lost, that no release forgets a request, that the semaphores match the  *)
(* grants, and that there is always a request left.                        *)
(***************************************************************************)
EXTENDS ResourceManager, FiniteSetTheorems, TLAPS

(***************************************************************************)
(* The list of requests.                                                   *)
(***************************************************************************)
Elements(s) == {s[i] : i \in DOMAIN s}
Distinct(s) == \A i, j \in DOMAIN s : s[i] = s[j] => i = j

(* A request at the head of the list. *)
LEMMA Prepend ==
  ASSUME NEW S, NEW s \in Seq(S), NEW r \in S, Distinct(s), r \notin Elements(s)
  PROVE  /\ <<r>> \o s \in Seq(S) /\ Distinct(<<r>> \o s)
         /\ Elements(<<r>> \o s) = Elements(s) \cup {r}
<1> DEFINE p == <<r>> \o s
<1>1. p \in Seq(S) /\ Len(p) = Len(s) + 1 /\ Len(s) \in Nat
  OBVIOUS
<1>2. DOMAIN p = 1 .. Len(s) + 1 /\ DOMAIN s = 1 .. Len(s)
  BY <1>1
<1>3. p[1] = r /\ \A i \in 1 .. Len(s) : p[i + 1] = s[i]
  BY <1>1
<1>4. \A i \in DOMAIN p : i = 1 \/ (i - 1 \in DOMAIN s /\ p[i] = s[i - 1])
  BY <1>1, <1>2, <1>3
<1>5. Elements(p) = Elements(s) \cup {r}
  <2>1. \A x \in Elements(p) : x \in Elements(s) \cup {r}
    BY <1>3, <1>4 DEF Elements
  <2>2. \A k \in DOMAIN s : k + 1 \in DOMAIN p /\ p[k + 1] = s[k]
    BY <1>1, <1>2, <1>3
  <2>4. \A x \in Elements(s) : x \in Elements(p)
    <3> HIDE DEF p
    <3> QED BY <2>2 DEF Elements
  <2>3. r \in Elements(p)
    BY <1>1, <1>2, <1>3 DEF Elements
  <2> QED BY <2>1, <2>3, <2>4
<1>6. Distinct(p)
  <2> SUFFICES ASSUME NEW i \in DOMAIN p, NEW j \in DOMAIN p, p[i] = p[j] PROVE i = j
    BY DEF Distinct
  <2>1. \A k \in DOMAIN s : s[k] # r
    BY DEF Elements
  <2>2. i \in Nat /\ j \in Nat
    BY <1>1, <1>2
  <2> QED BY <2>1, <2>2, <1>3, <1>4 DEF Distinct
<1> QED BY <1>1, <1>5, <1>6

(* list_remove of a request that is in the list. *)
LEMMA Remove ==
  ASSUME NEW S, NEW s \in Seq(S), NEW r \in Elements(s), Distinct(s)
  PROVE  /\ Without(s, r) \in Seq(S) /\ Distinct(Without(s, r))
         /\ Elements(Without(s, r)) = Elements(s) \ {r}
<1> DEFINE i == CHOOSE k \in DOMAIN s : s[k] = r
           w == [j \in 1 .. Len(s) - 1 |-> IF j < i THEN s[j] ELSE s[j + 1]]
<1>1. Without(s, r) = w
  BY DEF Without
<1>2. i \in DOMAIN s /\ s[i] = r
  BY DEF Elements
<1>3. Len(s) \in Nat /\ DOMAIN s = 1 .. Len(s) /\ i \in 1 .. Len(s) /\ Len(s) - 1 \in Nat
  BY <1>2
<1> HIDE DEF i
<1>4. \A j \in 1 .. Len(s) : s[j] \in S
  OBVIOUS
<1>5. DOMAIN w = 1 .. Len(s) - 1
  OBVIOUS
<1>6. \A j \in 1 .. Len(s) - 1 : w[j] \in S
  BY <1>3, <1>4
<1>7. w \in Seq(S)
  BY <1>3, <1>6
<1>8. \A j \in DOMAIN w : \E k \in DOMAIN s : w[j] = s[k] /\ k # i /\ k = IF j < i THEN j ELSE j + 1
  BY <1>3
<1>9. \A k \in DOMAIN s : k # i => \E j \in DOMAIN w : w[j] = s[k]
  <2> SUFFICES ASSUME NEW k \in DOMAIN s, k # i PROVE \E j \in DOMAIN w : w[j] = s[k]
    OBVIOUS
  <2>1. CASE k < i
    <3>1. k \in DOMAIN w /\ w[k] = s[k]
      BY <1>3, <2>1
    <3> QED BY <3>1
  <2>2. CASE k > i
    <3>1. k - 1 \in DOMAIN w /\ w[k - 1] = s[k]
      BY <1>3, <2>2
    <3> QED BY <3>1
  <2> QED BY <1>3, <2>1, <2>2
<1>10. Distinct(w)
  <2> SUFFICES ASSUME NEW j \in DOMAIN w, NEW k \in DOMAIN w, w[j] = w[k] PROVE j = k
    BY DEF Distinct
  <2>1. j \in Int /\ k \in Int /\ i \in Int
    BY <1>3, <1>5
  <2> HIDE DEF w
  <2>2. PICK m \in DOMAIN s : w[j] = s[m] /\ m # i /\ m = IF j < i THEN j ELSE j + 1
    BY <1>8
  <2>3. PICK n \in DOMAIN s : w[k] = s[n] /\ n # i /\ n = IF k < i THEN k ELSE k + 1
    BY <1>8
  <2>4. m = n
    BY <2>2, <2>3 DEF Distinct
  <2>5. (j < i => m = j) /\ (~(j < i) => m = j + 1) /\ (k < i => n = k) /\ (~(k < i) => n = k + 1)
    BY <2>2, <2>3
  <2> QED BY <2>1, <2>2, <2>3, <2>4, <2>5
<1>11. Elements(w) = Elements(s) \ {r}
  <2> HIDE DEF w
  <2>1. \A x \in Elements(w) : x \in Elements(s) /\ x # r
    BY <1>2, <1>8 DEF Elements, Distinct
  <2>2. \A x \in Elements(s) : x # r => x \in Elements(w)
    BY <1>2, <1>9 DEF Elements
  <2> QED BY <1>2, <2>1, <2>2
<1> QED BY <1>1, <1>7, <1>10, <1>11

(* The list as a set. *)
LEMMA ListedElements == Listed = Elements(waiting)
  BY DEF Listed, Elements

-----------------------------------------------------------------------------
(***************************************************************************)
(* The inductive invariant.  A request is free or in the list, once; a     *)
(* request in the list belongs to one task inside resource_acquire;        *)
(***************************************************************************)
Lists ==
  /\ Distinct(waiting)
  /\ free \cup Listed = Requests
  /\ free \cap Listed = {}

Callers ==
  /\ \A t \in Tasks : call[t].pc # "run" => call[t].req \in Listed
  /\ \A t, u \in Tasks :
        call[t].pc # "run" /\ call[u].pc # "run" /\ call[t].req = call[u].req => t = u
  /\ \A r \in Listed : \E t \in Tasks : call[t].pc # "run" /\ call[t].req = r

(* the event of a request is given with it and taken by the wait, or by the  *)
(* extra wait of a task whose time was up;                                  *)
Flags ==
  /\ \A r \in free : granted[r] = FALSE /\ signalled[r] = FALSE
  /\ \A t \in Tasks : call[t].pc = "wait" \/ (call[t].pc = "woken" /\ call[t].timedOut) =>
        signalled[call[t].req] = granted[call[t].req]
  /\ \A t \in Tasks : call[t].pc = "wait" => ~call[t].timedOut
  /\ \A t \in Tasks : call[t].pc = "woken" /\ ~call[t].timedOut =>
        granted[call[t].req] = TRUE /\ signalled[call[t].req] = FALSE

(* and what is acquired is divided among the tasks and the granted requests. *)
Shares ==
  /\ \A r \in Listed : mask[r] # {}
  /\ \A t \in Tasks : held[t] \subseteq acquired
  /\ \A r \in Requests : granted[r] = TRUE => mask[r] \subseteq acquired
  /\ \A t, u \in Tasks : t # u => held[t] \cap held[u] = {}
  /\ \A t \in Tasks, r \in Requests : granted[r] = TRUE => held[t] \cap mask[r] = {}
  /\ \A q, r \in Requests : q # r /\ granted[q] = TRUE /\ granted[r] = TRUE => mask[q] \cap mask[r] = {}
  /\ \A x \in acquired : \/ \E t \in Tasks : x \in held[t]
                         \/ \E r \in Requests : granted[r] = TRUE /\ x \in mask[r]

Lacks == \A r \in Listed : granted[r] = FALSE => mask[r] \cap acquired # {}

IInv == RmTypeOK /\ Lists /\ Callers /\ Flags /\ Shares /\ Lacks

LEMMA InitInv == RmInit => IInv
<1> SUFFICES ASSUME RmInit PROVE IInv
  OBVIOUS
<1>1. RmTypeOK
  BY DEF RmInit, RmTypeOK, Running
<1>2. DOMAIN waiting = {} /\ Listed = {}
  BY DEF RmInit, Listed
<1>3. Lists
  BY <1>2 DEF RmInit, Lists, Distinct
<1>4. Callers /\ Flags
  BY <1>2 DEF RmInit, Callers, Flags, Running
<1>5. Shares /\ Lacks
  BY <1>2 DEF RmInit, Shares, Lacks
<1> QED BY <1>1, <1>3, <1>4, <1>5 DEF IInv

-----------------------------------------------------------------------------
(* A task takes what is free. *)
LEMMA AcquireNowInv ==
  ASSUME IInv, NEW t \in Tasks, NEW m \in SUBSET Resources, AcquireNow(t, m)
  PROVE  IInv'
<1> USE DEF IInv, AcquireNow
<1>1. RmTypeOK'
  BY DEF RmTypeOK
<1>2. Listed' = Listed /\ Lists' /\ Callers' /\ Flags'
  BY DEF Listed, Lists, Distinct, Callers, Flags
<1>3. \A u \in Tasks : held'[u] = IF u = t THEN held[t] \cup m ELSE held[u]
  BY DEF RmTypeOK
<1>4. Shares'
  <2>1. \A u \in Tasks : held'[u] \subseteq acquired'
    BY <1>3 DEF Shares
  <2>2. \A r \in Requests : granted[r] = TRUE => mask[r] \subseteq acquired'
    BY DEF Shares
  <2>3. \A u, v \in Tasks : u # v => held'[u] \cap held'[v] = {}
    BY <1>3 DEF Shares
  <2>4. \A u \in Tasks, r \in Requests : granted[r] = TRUE => held'[u] \cap mask[r] = {}
    BY <1>3 DEF Shares
  <2>5. \A x \in acquired' : \/ \E u \in Tasks : x \in held'[u]
                             \/ \E r \in Requests : granted[r] = TRUE /\ x \in mask[r]
    <3> SUFFICES ASSUME NEW x \in acquired'
                 PROVE  \/ \E u \in Tasks : x \in held'[u]
                        \/ \E r \in Requests : granted[r] = TRUE /\ x \in mask[r]
      OBVIOUS
    <3>1. CASE x \in m
      BY <1>3, <3>1
    <3>2. CASE x \in acquired
      BY <1>3, <3>2 DEF Shares
    <3> QED BY <3>1, <3>2
  <2> QED BY <1>2, <2>1, <2>2, <2>3, <2>4, <2>5 DEF Shares
<1>5. Lacks'
  BY <1>2 DEF Lacks
<1> QED BY <1>1, <1>2, <1>4, <1>5

(* A task puts a request into the list. *)
LEMMA EnqueueInv ==
  ASSUME IInv, NEW t \in Tasks, NEW m \in SUBSET Resources, NEW limited \in BOOLEAN,
         m # {}, Enqueue(t, m, limited)
  PROVE  IInv'
<1> USE DEF IInv
<1>1. PICK r \in free :
        /\ free' = free \ {r}
        /\ waiting' = <<r>> \o waiting
        /\ mask' = [mask EXCEPT ![r] = m]
        /\ granted' = [granted EXCEPT ![r] = FALSE]
        /\ call' = [call EXCEPT ![t] = [pc |-> "wait", req |-> r,
                                        limited |-> limited, timedOut |-> FALSE]]
  BY DEF Enqueue
<1>2. UNCHANGED <<acquired, signalled, held>> /\ call[t].pc = "run" /\ m \cap acquired # {}
  BY DEF Enqueue
<1>3. r \in Requests /\ r \notin Listed
  BY DEF RmTypeOK, Lists
<1>4. waiting' \in Seq(Requests) /\ Distinct(waiting)' /\ Listed' = Listed \cup {r}
  <2>1. waiting \in Seq(Requests) /\ Distinct(waiting) /\ r \notin Elements(waiting)
    BY <1>3, ListedElements DEF RmTypeOK, Lists
  <2>2. /\ <<r>> \o waiting \in Seq(Requests) /\ Distinct(<<r>> \o waiting)
        /\ Elements(<<r>> \o waiting) = Elements(waiting) \cup {r}
    BY <1>3, <2>1, Prepend
  <2>3. Listed' = Elements(waiting') /\ Distinct(waiting)' = Distinct(waiting')
    BY DEF Listed, Elements, Distinct
  <2> QED BY <1>1, <2>2, <2>3, ListedElements
<1>5. RmTypeOK'
  BY <1>1, <1>2, <1>3, <1>4 DEF RmTypeOK
<1>6. Lists'
  BY <1>1, <1>3, <1>4 DEF Lists
<1>7. /\ \A u \in Tasks : u # t => call'[u] = call[u]
      /\ call'[t].pc = "wait" /\ call'[t].req = r /\ call'[t].timedOut = FALSE
  BY <1>1 DEF RmTypeOK
<1>8. \A q \in Requests : /\ mask'[q] = IF q = r THEN m ELSE mask[q]
                         /\ granted'[q] = granted[q]
  <2>1. granted[r] = FALSE
    BY DEF Flags
  <2> QED BY <1>1, <1>3, <2>1 DEF RmTypeOK
<1>9. Callers'
  <2>1. \A u \in Tasks : call'[u].pc # "run" =>
          \/ u = t /\ call'[u].req = r
          \/ u # t /\ call[u].pc # "run" /\ call'[u] = call[u] /\ call'[u].req \in Listed
    BY <1>7 DEF Callers
  <2>2. \A q \in Listed' : \E u \in Tasks : call'[u].pc # "run" /\ call'[u].req = q
    <3> SUFFICES ASSUME NEW q \in Listed'
                 PROVE  \E u \in Tasks : call'[u].pc # "run" /\ call'[u].req = q
      OBVIOUS
    <3>1. CASE q = r
      BY <1>7, <3>1
    <3>2. CASE q \in Listed
      <4>1. PICK u \in Tasks : call[u].pc # "run" /\ call[u].req = q
        BY <3>2 DEF Callers
      <4> QED BY <1>2, <1>7, <4>1
    <3> QED BY <1>4, <3>1, <3>2
  <2> QED BY <1>3, <1>4, <2>1, <2>2 DEF Callers
<1>10. Flags'
  <2>1. \A q \in free' : granted'[q] = FALSE /\ signalled'[q] = FALSE
    BY <1>1, <1>2, <1>8 DEF Flags, RmTypeOK
  <2>2. granted'[r] = FALSE /\ signalled'[r] = FALSE
    BY <1>2, <1>3, <1>8 DEF Flags
  <2>3. \A u \in Tasks : call[u].pc # "run" => call[u].req \in Requests
    BY DEF Callers, Lists
  <2>4. \A u \in Tasks : call'[u].pc # "run" /\ u # t =>
          /\ call'[u] = call[u]
          /\ granted'[call[u].req] = granted[call[u].req]
          /\ signalled'[call[u].req] = signalled[call[u].req]
    BY <1>2, <1>7, <1>8, <2>3
  <2>5. \A u \in Tasks : call'[u].pc = "wait" \/ (call'[u].pc = "woken" /\ call'[u].timedOut) =>
          signalled'[call'[u].req] = granted'[call'[u].req]
    <3> SUFFICES ASSUME NEW u \in Tasks,
                        call'[u].pc = "wait" \/ (call'[u].pc = "woken" /\ call'[u].timedOut)
                 PROVE  signalled'[call'[u].req] = granted'[call'[u].req]
      OBVIOUS
    <3>1. CASE u = t
      BY <1>7, <2>2, <3>1
    <3>2. CASE u # t
      BY <2>4, <3>2 DEF Flags
    <3> QED BY <3>1, <3>2
  <2>6. \A u \in Tasks : call'[u].pc = "wait" => ~call'[u].timedOut
    BY <1>7 DEF Flags
  <2>7. \A u \in Tasks : call'[u].pc = "woken" /\ ~call'[u].timedOut =>
          granted'[call'[u].req] = TRUE /\ signalled'[call'[u].req] = FALSE
    <3> SUFFICES ASSUME NEW u \in Tasks, call'[u].pc = "woken" /\ ~call'[u].timedOut
                 PROVE  granted'[call'[u].req] = TRUE /\ signalled'[call'[u].req] = FALSE
      OBVIOUS
    <3>1. u # t
      BY <1>7
    <3> QED BY <2>4, <3>1 DEF Flags
  <2> QED BY <2>1, <2>5, <2>6, <2>7 DEF Flags
<1>11. Shares'
  <2>1. granted[r] = FALSE
    BY DEF Flags
  <2> QED BY <1>2, <1>4, <1>8, <2>1, <1>3 DEF Shares, Lists
<1>12. Lacks'
  BY <1>2, <1>4, <1>8, <1>3 DEF Lacks, Lists
<1> QED BY <1>5, <1>6, <1>9, <1>10, <1>11, <1>12

-----------------------------------------------------------------------------
(* A task wakes up: its request stays in the list. *)
LEMMA WakeUp ==
  ASSUME IInv, NEW t \in Tasks, call[t].pc = "wait",
         \A u \in Tasks : u # t => call'[u] = call[u],
         call'[t].pc = "woken", call'[t].req = call[t].req,
         UNCHANGED <<acquired, waiting, free, mask, granted, held>>
  PROVE  Lists' /\ Callers' /\ Shares' /\ Lacks'
<1> USE DEF IInv
<1>1. Listed' = Listed /\ Lists'
  BY DEF Listed, Lists, Distinct
<1>2. \A u \in Tasks : (call'[u].pc # "run" <=> call[u].pc # "run") /\ call'[u].req = call[u].req
  OBVIOUS
<1>3. Callers'
  BY <1>1, <1>2 DEF Callers
<1>4. Shares' /\ Lacks'
  BY <1>1 DEF Shares, Lacks
<1> QED BY <1>1, <1>3, <1>4

(* The semaphore of a task has been given. *)
LEMMA WakeInv == ASSUME IInv, NEW t \in Tasks, Wake(t) PROVE IInv'
<1> USE DEF IInv
<1> DEFINE r == call[t].req
<1>1. r \in Listed /\ r \in Requests /\ r \notin free
  BY DEF Callers, Lists, Wake
<1>2. RmTypeOK'
  BY DEF RmTypeOK, Wake
<1>3. /\ \A u \in Tasks : u # t => call'[u] = call[u]
      /\ call'[t].pc = "woken" /\ call'[t].req = r /\ call'[t].timedOut = call[t].timedOut
  BY DEF RmTypeOK, Wake
<1>4. \A q \in Requests : signalled'[q] = IF q = r THEN FALSE ELSE signalled[q]
  BY <1>1 DEF RmTypeOK, Wake
<1>5. signalled[r] = TRUE /\ granted[r] = TRUE /\ ~call[t].timedOut
  BY <1>1 DEF Flags, Wake, RmTypeOK
<1>6. Flags'
  <2>1. \A q \in free' : granted'[q] = FALSE /\ signalled'[q] = FALSE
    BY <1>1, <1>4 DEF Flags, Wake, RmTypeOK
  <2>2. \A u \in Tasks : u # t /\ call[u].pc # "run" =>
          signalled'[call[u].req] = signalled[call[u].req]
    BY <1>1, <1>4 DEF Callers, Lists, Wake
  <2>3. granted' = granted
    BY DEF Wake
  <2>4. \A u \in Tasks : call'[u].pc = "wait" \/ (call'[u].pc = "woken" /\ call'[u].timedOut) =>
          u # t /\ call[u].pc # "run" /\ call'[u] = call[u]
    BY <1>3, <1>5
  <2>5. \A u \in Tasks : call'[u].pc = "wait" \/ (call'[u].pc = "woken" /\ call'[u].timedOut) =>
          signalled'[call'[u].req] = granted'[call'[u].req]
    BY <2>2, <2>3, <2>4 DEF Flags
  <2>6. \A u \in Tasks : call'[u].pc = "wait" => ~call'[u].timedOut
    BY <1>3 DEF Flags
  <2>7. \A u \in Tasks : call'[u].pc = "woken" /\ ~call'[u].timedOut =>
          granted'[call'[u].req] = TRUE /\ signalled'[call'[u].req] = FALSE
    <3> SUFFICES ASSUME NEW u \in Tasks, call'[u].pc = "woken" /\ ~call'[u].timedOut
                 PROVE  granted'[call'[u].req] = TRUE /\ signalled'[call'[u].req] = FALSE
      OBVIOUS
    <3>1. CASE u = t
      BY <1>1, <1>3, <1>4, <1>5, <2>3, <3>1
    <3>2. CASE u # t
      BY <1>3, <2>2, <2>3, <3>2 DEF Flags
    <3> QED BY <3>1, <3>2
  <2> QED BY <2>1, <2>5, <2>6, <2>7 DEF Flags
<1> QED BY <1>2, <1>3, <1>6, WakeUp DEF Wake

(* The time of a task is up. *)
LEMMA TimeOutInv == ASSUME IInv, NEW t \in Tasks, TimeOut(t) PROVE IInv'
<1> USE DEF IInv
<1>1. RmTypeOK'
  BY DEF RmTypeOK, TimeOut
<1>2. /\ \A u \in Tasks : u # t => call'[u] = call[u]
      /\ call'[t].pc = "woken" /\ call'[t].req = call[t].req /\ call'[t].timedOut = TRUE
  BY DEF RmTypeOK, TimeOut
<1>3. signalled[call[t].req] = granted[call[t].req]
  BY DEF Flags, TimeOut
<1>4. UNCHANGED <<free, granted, signalled>>
  BY DEF TimeOut
<1>5. Flags'
  <2>1. \A u \in Tasks : call'[u].pc = "wait" \/ (call'[u].pc = "woken" /\ call'[u].timedOut) =>
          signalled'[call'[u].req] = granted'[call'[u].req]
    BY <1>2, <1>3, <1>4 DEF Flags
  <2>2. \A u \in Tasks : call'[u].pc = "woken" /\ ~call'[u].timedOut => u # t
    BY <1>2
  <2> QED BY <1>2, <1>4, <2>1, <2>2 DEF Flags
<1> QED BY <1>1, <1>2, <1>5, WakeUp DEF TimeOut

-----------------------------------------------------------------------------
(* A task leaves resource_acquire, with what its request was granted or      *)
(* without.                                                                *)
LEMMA ReturnInv == ASSUME IInv, NEW t \in Tasks, Return(t) PROVE IInv'
<1> USE DEF IInv
<1> DEFINE r == call[t].req
           given == IF granted[r] = TRUE THEN mask[r] ELSE {}
<1>1. call[t].pc = "woken" /\ r \in Listed /\ r \in Requests /\ r \notin free
  BY DEF Callers, Lists, Return
<1>2. /\ UNCHANGED acquired
      /\ free' = free \cup {r}
      /\ waiting' = Without(waiting, r)
  BY DEF Return, Back
<1>3. waiting' \in Seq(Requests) /\ Distinct(waiting)' /\ Listed' = Listed \ {r}
  <2>1. waiting \in Seq(Requests) /\ Distinct(waiting) /\ r \in Elements(waiting)
    BY <1>1, ListedElements DEF RmTypeOK, Lists
  <2>2. /\ Without(waiting, r) \in Seq(Requests) /\ Distinct(Without(waiting, r))
        /\ Elements(Without(waiting, r)) = Elements(waiting) \ {r}
    BY <2>1, Remove
  <2>3. Listed' = Elements(waiting') /\ Distinct(waiting)' = Distinct(waiting')
    BY DEF Listed, Elements, Distinct
  <2> QED BY <1>2, <2>2, <2>3, ListedElements
<1>4. \A q \in Requests : /\ mask'[q] = IF q = r THEN {} ELSE mask[q]
                         /\ granted'[q] = IF q = r THEN FALSE ELSE granted[q]
  BY <1>1 DEF RmTypeOK, Return
<1>5. granted[r] \in BOOLEAN /\ mask[r] \subseteq Resources
  BY <1>1 DEF RmTypeOK
<1>6. Given(t) = given
  BY <1>5 DEF Given, Succeeds
<1>7. \A u \in Tasks : held'[u] = IF u = t THEN held[t] \cup given ELSE held[u]
  BY <1>6 DEF RmTypeOK, Return
<1>8. /\ \A u \in Tasks : u # t => call'[u] = call[u]
      /\ call'[t].pc = "run" /\ call'[t] = Running
  BY DEF RmTypeOK, Return, Running
<1>9. \A q \in Requests : signalled'[q] \in BOOLEAN /\ (q # r => signalled'[q] = signalled[q])
  BY DEF RmTypeOK, Return, LateEvent
<1>10. signalled'[r] = FALSE
  <2>1. CASE call[t].timedOut /\ granted[r] = TRUE
    BY <1>1, <2>1 DEF Return, LateEvent, Succeeds
  <2>2. CASE call[t].timedOut /\ granted[r] = FALSE
    <3>1. signalled[r] = FALSE
      BY <1>1, <2>2 DEF Flags
    <3> QED BY <1>1, <3>1 DEF Return
  <2>3. CASE ~call[t].timedOut
    <3>1. signalled[r] = FALSE
      BY <1>1, <2>3 DEF Flags
    <3> QED BY <1>1, <3>1 DEF Return
  <2> QED BY <1>5, <2>1, <2>2, <2>3
<1>11. RmTypeOK'
  <2>1. free' \subseteq Requests
    BY <1>1, <1>2 DEF RmTypeOK
  <2>2. mask' \in [Requests -> SUBSET Resources] /\ granted' \in [Requests -> BOOLEAN]
    BY DEF RmTypeOK, Return
  <2>3. signalled' \in [Requests -> BOOLEAN]
    BY <1>9 DEF Return
  <2>4. held' \in [Tasks -> SUBSET Resources]
    BY <1>5, <1>6 DEF RmTypeOK, Return
  <2>5. call' \in [Tasks -> [pc : {"run", "wait", "woken"}, req : Requests \cup {NoRequest},
                             limited : BOOLEAN, timedOut : BOOLEAN]]
    BY DEF RmTypeOK, Return, Running
  <2> QED BY <1>2, <1>3, <2>1, <2>2, <2>3, <2>4, <2>5 DEF RmTypeOK
<1>12. Lists'
  BY <1>1, <1>2, <1>3 DEF Lists
<1>13. \A u \in Tasks : call'[u].pc # "run" =>
          u # t /\ call'[u] = call[u] /\ call[u].pc # "run" /\ call[u].req # r
                /\ call[u].req \in Listed /\ call[u].req \in Requests
  BY <1>1, <1>8 DEF Callers, Lists
<1>14. Callers'
  <2>1. \A q \in Listed' : \E u \in Tasks : call'[u].pc # "run" /\ call'[u].req = q
    <3> SUFFICES ASSUME NEW q \in Listed'
                 PROVE  \E u \in Tasks : call'[u].pc # "run" /\ call'[u].req = q
      OBVIOUS
    <3>1. PICK u \in Tasks : call[u].pc # "run" /\ call[u].req = q
      BY <1>3 DEF Callers
    <3>2. u # t
      BY <1>3, <3>1
    <3> QED BY <1>8, <3>1, <3>2
  <2>2. \A u \in Tasks : call'[u].pc # "run" => call'[u].req \in Listed'
    BY <1>3, <1>13
  <2>3. \A u, v \in Tasks :
          call'[u].pc # "run" /\ call'[v].pc # "run" /\ call'[u].req = call'[v].req => u = v
    BY <1>13 DEF Callers
  <2> QED BY <2>1, <2>2, <2>3 DEF Callers
<1>15. Flags'
  <2>1. \A q \in free' : granted'[q] = FALSE /\ signalled'[q] = FALSE
    BY <1>1, <1>2, <1>4, <1>9, <1>10 DEF Flags, RmTypeOK
  <2>2. \A u \in Tasks : call'[u].pc # "run" =>
          /\ call'[u] = call[u]
          /\ granted'[call[u].req] = granted[call[u].req]
          /\ signalled'[call[u].req] = signalled[call[u].req]
    BY <1>4, <1>9, <1>13
  <2>3. \A u \in Tasks : call'[u].pc = "wait" \/ (call'[u].pc = "woken" /\ call'[u].timedOut) =>
          signalled'[call'[u].req] = granted'[call'[u].req]
    BY <2>2 DEF Flags
  <2>4. \A u \in Tasks : call'[u].pc = "wait" => ~call'[u].timedOut
    BY <2>2 DEF Flags
  <2>5. \A u \in Tasks : call'[u].pc = "woken" /\ ~call'[u].timedOut =>
          granted'[call'[u].req] = TRUE /\ signalled'[call'[u].req] = FALSE
    BY <2>2 DEF Flags
  <2> QED BY <2>1, <2>3, <2>4, <2>5 DEF Flags
<1>16. Shares'
  <2>1. \A q \in Listed' : mask'[q] # {}
    BY <1>3, <1>4 DEF Shares, Lists
  <2>2. \A u \in Tasks : held'[u] \subseteq acquired'
    BY <1>1, <1>2, <1>7 DEF Shares
  <2>3. \A q \in Requests : granted'[q] = TRUE =>
          q # r /\ granted[q] = TRUE /\ mask'[q] = mask[q]
    BY <1>4
  <2>4. \A u, v \in Tasks : u # v => held'[u] \cap held'[v] = {}
    BY <1>1, <1>7 DEF Shares
  <2>5. \A u \in Tasks, q \in Requests : granted'[q] = TRUE => held'[u] \cap mask'[q] = {}
    BY <1>1, <1>7, <2>3 DEF Shares
  <2>6. \A x \in acquired' : \/ \E u \in Tasks : x \in held'[u]
                             \/ \E q \in Requests : granted'[q] = TRUE /\ x \in mask'[q]
    <3> SUFFICES ASSUME NEW x \in acquired'
                 PROVE  \/ \E u \in Tasks : x \in held'[u]
                        \/ \E q \in Requests : granted'[q] = TRUE /\ x \in mask'[q]
      OBVIOUS
    <3>1. CASE \E u \in Tasks : x \in held[u]
      BY <1>7, <3>1
    <3>2. CASE \E q \in Requests : granted[q] = TRUE /\ x \in mask[q]
      <4>1. PICK q \in Requests : granted[q] = TRUE /\ x \in mask[q]
        BY <3>2
      <4>2. CASE q = r
        BY <1>7, <4>1, <4>2
      <4>3. CASE q # r
        BY <1>4, <4>1, <4>3
      <4> QED BY <4>2, <4>3
    <3> QED BY <1>2, <3>1, <3>2 DEF Shares
  <2>7. \A q \in Requests : granted'[q] = TRUE => mask'[q] \subseteq acquired'
    BY <1>2, <2>3 DEF Shares
  <2>8. \A p, q \in Requests : p # q /\ granted'[p] = TRUE /\ granted'[q] = TRUE =>
          mask'[p] \cap mask'[q] = {}
    BY <2>3 DEF Shares
  <2> QED BY <2>1, <2>2, <2>4, <2>5, <2>6, <2>7, <2>8 DEF Shares
<1>17. Lacks'
  BY <1>2, <1>3, <1>4 DEF Lacks, Lists
<1> QED BY <1>11, <1>12, <1>14, <1>15, <1>16, <1>17

-----------------------------------------------------------------------------
(* A release of what one task has been told it holds, with the requests it   *)
(* serves.                                                                 *)
LEMMA ReleaseInv ==
  ASSUME IInv, NEW t \in Tasks, NEW m, m \subseteq held[t], Release(m)
  PROVE  IInv'
<1> USE DEF IInv
<1>1. PICK served \in SUBSET DOMAIN waiting :
        LET lucky == {waiting[i] : i \in served} IN
        /\ Walk(acquired \ m, served)
        /\ acquired' = (acquired \ m) \cup UNION {mask[r] : r \in lucky}
        /\ granted' = [r \in Requests |-> granted[r] \/ r \in lucky]
        /\ signalled' = [r \in Requests |-> signalled[r] \/ r \in lucky]
  BY DEF Release
<1> DEFINE lucky == {waiting[i] : i \in served}
           before(i) == TakenBefore(i, acquired \ m, served)
<1>2. /\ acquired' = (acquired \ m) \cup UNION {mask[r] : r \in lucky}
      /\ granted' = [r \in Requests |-> granted[r] \/ r \in lucky]
      /\ signalled' = [r \in Requests |-> signalled[r] \/ r \in lucky]
      /\ \A i \in DOMAIN waiting : i \in served <=> mask[waiting[i]] \cap before(i) = {}
  BY <1>1 DEF Walk
<1>3. /\ UNCHANGED <<waiting, free, mask, call>>
      /\ held' = [u \in Tasks |-> held[u] \ m]
      /\ m \subseteq acquired /\ m # {}
  BY DEF Release
<1>4. \A i \in DOMAIN waiting : /\ acquired \ m \subseteq before(i)
                             /\ before(i) \subseteq acquired'
                             /\ \A j \in served : j < i => mask[waiting[j]] \subseteq before(i)
  BY <1>2 DEF TakenBefore
<1> HIDE DEF before
<1>5. DOMAIN waiting \subseteq Nat /\ lucky \subseteq Listed /\ Listed \subseteq Requests
  BY DEF RmTypeOK, Listed
<1>6. \A r \in Listed : \E i \in DOMAIN waiting : waiting[i] = r
  BY DEF Listed
(* Who is served had not been, wants something that was free, and no two of  *)
(* them want the same.                                                     *)
<1>7. \A r \in lucky : granted[r] = FALSE /\ mask[r] \cap (acquired \ m) = {}
  <2> SUFFICES ASSUME NEW r \in lucky
               PROVE  granted[r] = FALSE /\ mask[r] \cap (acquired \ m) = {}
    OBVIOUS
  <2>1. PICK i \in served : waiting[i] = r
    OBVIOUS
  <2>2. mask[r] \cap before(i) = {}
    BY <1>2, <2>1
  <2>3. mask[r] \cap (acquired \ m) = {}
    BY <1>4, <2>1, <2>2
  <2>4. granted[r] = TRUE => mask[r] \subseteq acquired /\ held[t] \cap mask[r] = {} /\ mask[r] # {}
    BY <1>5 DEF Shares
  <2>5. granted[r] \in BOOLEAN
    BY <1>5 DEF RmTypeOK
  <2> QED BY <2>3, <2>4, <2>5
<1>8. \A q, r \in lucky : q # r => mask[q] \cap mask[r] = {}
  <2> SUFFICES ASSUME NEW q \in lucky, NEW r \in lucky, q # r PROVE mask[q] \cap mask[r] = {}
    OBVIOUS
  <2>1. PICK i \in served : waiting[i] = q
    OBVIOUS
  <2>2. PICK j \in served : waiting[j] = r
    OBVIOUS
  <2>3. i \in Nat /\ j \in Nat /\ i # j
    BY <1>5, <2>1, <2>2
  <2>4. mask[q] \cap before(i) = {} /\ mask[r] \cap before(j) = {}
    BY <1>2, <2>1, <2>2
  <2>5. CASE i < j
    BY <1>4, <2>1, <2>2, <2>4, <2>5
  <2>6. CASE j < i
    BY <1>4, <2>1, <2>2, <2>4, <2>6
  <2> QED BY <2>3, <2>5, <2>6
(* Who is not served still lacks something. *)
<1>9. \A r \in Listed : r \notin lucky => mask[r] \cap acquired' # {}
  <2> SUFFICES ASSUME NEW r \in Listed, r \notin lucky PROVE mask[r] \cap acquired' # {}
    OBVIOUS
  <2>1. PICK i \in DOMAIN waiting : waiting[i] = r
    BY <1>6
  <2>2. i \notin served
    BY <2>1
  <2> QED BY <1>2, <1>4, <2>1, <2>2
<1>10. \A r \in lucky : mask[r] \subseteq acquired'
  BY <1>2
<1>11. \A r \in Requests :
         /\ r \in lucky => granted'[r] = TRUE /\ signalled'[r] = TRUE
         /\ r \notin lucky => granted'[r] = granted[r] /\ signalled'[r] = signalled[r]
         /\ granted'[r] \in BOOLEAN /\ signalled'[r] \in BOOLEAN
  <2>1. \A r \in Requests : granted[r] \in BOOLEAN /\ signalled[r] \in BOOLEAN
    BY DEF RmTypeOK
  <2>2. \A r \in Requests : granted'[r] = (granted[r] \/ r \in lucky)
                          /\ signalled'[r] = (signalled[r] \/ r \in lucky)
    BY <1>2, Zenon
  <2> HIDE DEF lucky
  <2> QED BY <2>1, <2>2
<1>12. \A u \in Tasks : held'[u] = held[u] \ m /\ (u # t => held[u] \cap m = {})
  BY <1>3 DEF Shares
<1> HIDE DEF lucky
<1>13. RmTypeOK'
  <2>1. acquired' \subseteq Resources
    <3>1. \A r \in lucky : mask[r] \subseteq Resources
      BY <1>5 DEF RmTypeOK
    <3> QED BY <1>2, <3>1 DEF RmTypeOK
  <2>2. granted' \in [Requests -> BOOLEAN] /\ signalled' \in [Requests -> BOOLEAN]
    BY <1>2, <1>11
  <2>3. held' \in [Tasks -> SUBSET Resources]
    BY <1>3 DEF RmTypeOK
  <2> QED BY <1>3, <2>1, <2>2, <2>3 DEF RmTypeOK
<1>14. Listed' = Listed /\ Lists' /\ Callers'
  BY <1>3 DEF Listed, Lists, Distinct, Callers
<1>15. Flags'
  <2>1. \A r \in free' : granted'[r] = FALSE /\ signalled'[r] = FALSE
    BY <1>3, <1>5, <1>11 DEF Flags, Lists
  <2>2. \A u \in Tasks : call[u].pc # "run" => call[u].req \in Requests
    BY <1>5 DEF Callers
  <2>3. \A u \in Tasks : call'[u].pc = "wait" \/ (call'[u].pc = "woken" /\ call'[u].timedOut) =>
          signalled'[call'[u].req] = granted'[call'[u].req]
    <3> SUFFICES ASSUME NEW u \in Tasks,
                        call[u].pc = "wait" \/ (call[u].pc = "woken" /\ call[u].timedOut)
                 PROVE  signalled'[call[u].req] = granted'[call[u].req]
      BY <1>3
    <3>1. signalled[call[u].req] = granted[call[u].req] /\ call[u].req \in Requests
      BY <2>2 DEF Flags
    <3> QED BY <1>11, <3>1
  <2>4. \A u \in Tasks : call'[u].pc = "woken" /\ ~call'[u].timedOut =>
          granted'[call'[u].req] = TRUE /\ signalled'[call'[u].req] = FALSE
    <3> SUFFICES ASSUME NEW u \in Tasks, call[u].pc = "woken" /\ ~call[u].timedOut
                 PROVE  granted'[call[u].req] = TRUE /\ signalled'[call[u].req] = FALSE
      BY <1>3
    <3>1. /\ granted[call[u].req] = TRUE /\ signalled[call[u].req] = FALSE
          /\ call[u].req \in Requests /\ call[u].req \notin lucky
      BY <1>7, <2>2 DEF Flags
    <3> QED BY <1>11, <3>1
  <2> QED BY <1>3, <2>1, <2>3, <2>4 DEF Flags
<1>16. Shares'
  <2>1. \A r \in Listed' : mask'[r] # {}
    BY <1>3, <1>14 DEF Shares
  <2>2. \A u \in Tasks : held'[u] \subseteq acquired'
    BY <1>2, <1>12 DEF Shares
  <2>3. \A r \in Requests : granted[r] = TRUE => mask[r] \subseteq acquired \ m
    BY DEF Shares
  <2>4. \A r \in Requests : granted'[r] = TRUE => mask'[r] \subseteq acquired'
    BY <1>2, <1>3, <1>10, <1>11, <2>3
  <2>5. \A u, v \in Tasks : u # v => held'[u] \cap held'[v] = {}
    BY <1>12 DEF Shares
  <2>6. \A u \in Tasks : held'[u] \subseteq acquired \ m
    BY <1>12 DEF Shares
  <2>7. \A u \in Tasks, r \in Requests : granted'[r] = TRUE => held'[u] \cap mask'[r] = {}
    <3> SUFFICES ASSUME NEW u \in Tasks, NEW r \in Requests, granted'[r] = TRUE
                 PROVE  held'[u] \cap mask[r] = {}
      BY <1>3
    <3>1. CASE granted[r] = TRUE
      BY <1>12, <3>1 DEF Shares
    <3>2. CASE r \in lucky
      BY <1>7, <2>6, <3>2
    <3> QED BY <1>11, <3>1, <3>2
  <2>8. \A q, r \in Requests : q # r /\ granted'[q] = TRUE /\ granted'[r] = TRUE =>
          mask'[q] \cap mask'[r] = {}
    <3> SUFFICES ASSUME NEW q \in Requests, NEW r \in Requests, q # r,
                        granted'[q] = TRUE, granted'[r] = TRUE
                 PROVE  mask[q] \cap mask[r] = {}
      BY <1>3
    <3>5. (granted[q] = TRUE \/ q \in lucky) /\ (granted[r] = TRUE \/ r \in lucky)
      BY <1>11
    <3>1. CASE granted[q] = TRUE /\ granted[r] = TRUE
      BY <3>1 DEF Shares
    <3>2. CASE granted[q] = TRUE /\ r \in lucky
      BY <1>7, <2>3, <3>2
    <3>3. CASE q \in lucky /\ granted[r] = TRUE
      BY <1>7, <2>3, <3>3
    <3>4. CASE q \in lucky /\ r \in lucky
      BY <1>8, <3>4
    <3> QED BY <3>1, <3>2, <3>3, <3>4, <3>5
  <2>9. \A x \in acquired' : \/ \E u \in Tasks : x \in held'[u]
                             \/ \E r \in Requests : granted'[r] = TRUE /\ x \in mask'[r]
    <3> SUFFICES ASSUME NEW x \in acquired'
                 PROVE  \/ \E u \in Tasks : x \in held'[u]
                        \/ \E r \in Requests : granted'[r] = TRUE /\ x \in mask[r]
      BY <1>3
    <3>1. CASE x \in acquired \ m
      BY <1>11, <1>12, <3>1 DEF Shares
    <3>2. CASE x \in UNION {mask[r] : r \in lucky}
      BY <1>5, <1>11, <3>2
    <3> QED BY <1>2, <3>1, <3>2
  <2> QED BY <2>1, <2>2, <2>4, <2>5, <2>7, <2>8, <2>9 DEF Shares
<1>17. Lacks'
  BY <1>3, <1>5, <1>9, <1>11, <1>14 DEF Lacks
<1> QED BY <1>13, <1>14, <1>15, <1>16, <1>17

-----------------------------------------------------------------------------
(* A step that changes nothing. *)
LEMMA StutterInv == ASSUME IInv, UNCHANGED rmVars PROVE IInv'
  BY DEF rmVars, IInv, RmTypeOK, Lists, Distinct, Listed, Callers, Flags, Shares, Lacks

(* The invariant holds always. *)
LEMMA StepInv == ASSUME IInv, [RmNext]_rmVars PROVE IInv'
<1>1. CASE RmNext
  <2>1. PICK t \in Tasks :
          \/ \E m \in (SUBSET Resources) \ {{}} :
                \/ AcquireNow(t, m) \/ Refused(t, m)
                \/ \E limited \in BOOLEAN : Enqueue(t, m, limited)
                \/ m \subseteq held[t] /\ Release(m)
          \/ Wake(t) \/ TimeOut(t) \/ Return(t)
    BY <1>1 DEF RmNext
  <2>2. CASE \E m \in (SUBSET Resources) \ {{}} : AcquireNow(t, m)
    BY <2>2, AcquireNowInv
  <2>3. CASE \E m \in (SUBSET Resources) \ {{}} : Refused(t, m)
    <3>1. UNCHANGED rmVars
      BY <2>3 DEF Refused
    <3> QED BY <3>1, StutterInv
  <2>4. CASE \E m \in (SUBSET Resources) \ {{}}, limited \in BOOLEAN : Enqueue(t, m, limited)
    <3> SUFFICES ASSUME NEW m \in (SUBSET Resources) \ {{}}, NEW limited \in BOOLEAN,
                        Enqueue(t, m, limited)
                 PROVE  IInv'
      BY <2>4
    <3>1. m \in SUBSET Resources /\ m # {}
      OBVIOUS
    <3> QED BY <3>1, EnqueueInv
  <2>5. CASE \E m \in (SUBSET Resources) \ {{}} : m \subseteq held[t] /\ Release(m)
    BY <2>5, ReleaseInv
  <2>6. CASE Wake(t)
    BY <2>6, WakeInv
  <2>7. CASE TimeOut(t)
    BY <2>7, TimeOutInv
  <2>8. CASE Return(t)
    BY <2>8, ReturnInv
  <2> QED BY <2>1, <2>2, <2>3, <2>4, <2>5, <2>6, <2>7, <2>8
<1>2. CASE UNCHANGED rmVars
  BY <1>2, StutterInv
<1> QED BY <1>1, <1>2

THEOREM Invariance == RmSpec => []IInv
  BY InitInv, StepInv, PTL DEF RmSpec

-----------------------------------------------------------------------------
(***************************************************************************)
(* The theorems.                                                           *)
(***************************************************************************)
(* The variables of the manager have their types. *)
THEOREM RmTypeCorrect == RmSpec => []RmTypeOK
<1>1. IInv => RmTypeOK
  BY DEF IInv
<1> QED BY <1>1, Invariance, PTL

(* No resource is given to two tasks, or acquired and given to none, however *)
(* releases and time-outs interleave.                                       *)
THEOREM Exclusion == RmSpec => []MutualExclusion
<1>1. IInv => MutualExclusion
  <2> SUFFICES ASSUME IInv PROVE MutualExclusion
    OBVIOUS
  <2> USE DEF IInv
  <2> DEFINE part(t) == IF call[t].pc # "run" /\ granted[call[t].req] THEN mask[call[t].req] ELSE {}
  <2>1. \A t \in Tasks : Has(t) = held[t] \cup part(t)
    BY DEF Has
  <2>2. \A t \in Tasks : call[t].pc # "run" => call[t].req \in Requests
    BY DEF Callers, Lists
  <2>3. \A r \in Requests : granted[r] \in BOOLEAN
    BY DEF RmTypeOK
  <2>4. \A t \in Tasks : \A x : x \in part(t) =>
          call[t].pc # "run" /\ call[t].req \in Requests /\ granted[call[t].req] = TRUE
                            /\ x \in mask[call[t].req]
    BY <2>2, <2>3
  <2>5. \A t \in Tasks : call[t].pc # "run" /\ granted[call[t].req] = TRUE => part(t) = mask[call[t].req]
    OBVIOUS
  <2> HIDE DEF part
  <2>6. \A t, u \in Tasks : t # u => Has(t) \cap Has(u) = {}
    <3> SUFFICES ASSUME NEW t \in Tasks, NEW u \in Tasks, t # u, NEW x, x \in Has(t), x \in Has(u)
                 PROVE  FALSE
      OBVIOUS
    <3>1. CASE x \in held[t] /\ x \in held[u]
      BY <3>1 DEF Shares
    <3>2. CASE x \in held[t] /\ x \in part(u)
      BY <2>4, <3>2 DEF Shares
    <3>3. CASE x \in part(t) /\ x \in held[u]
      BY <2>4, <3>3 DEF Shares
    <3>4. CASE x \in part(t) /\ x \in part(u)
      BY <2>4, <3>4 DEF Shares, Callers
    <3> QED BY <2>1, <3>1, <3>2, <3>3, <3>4
  <2>7. \A t \in Tasks : Has(t) \subseteq acquired
    BY <2>1, <2>4 DEF Shares
  <2>8. \A x \in acquired : \E t \in Tasks : x \in Has(t)
    <3> SUFFICES ASSUME NEW x \in acquired PROVE \E t \in Tasks : x \in Has(t)
      OBVIOUS
    <3>1. CASE \E t \in Tasks : x \in held[t]
      BY <2>1, <3>1
    <3>2. CASE \E r \in Requests : granted[r] = TRUE /\ x \in mask[r]
      <4>1. PICK r \in Requests : granted[r] = TRUE /\ x \in mask[r]
        BY <3>2
      <4>2. r \in Listed
        BY <4>1 DEF Lists, Flags
      <4>3. PICK t \in Tasks : call[t].pc # "run" /\ call[t].req = r
        BY <4>2 DEF Callers
      <4> QED BY <2>1, <2>5, <4>1, <4>3
    <3> QED BY <3>1, <3>2 DEF Shares
  <2> QED BY <2>6, <2>7, <2>8 DEF MutualExclusion
<1> QED BY <1>1, Invariance, PTL

(* A release serves every request that fits: none that could be served      *)
(* waits.                                                                  *)
THEOREM NoneForgotten == RmSpec => []NoLostWakeup
<1>1. IInv => NoLostWakeup
  <2>1. IInv => \A r \in Listed : granted[r] \in BOOLEAN
    BY DEF IInv, RmTypeOK, Lists
  <2> QED BY <2>1 DEF IInv, Lacks, NoLostWakeup
<1> QED BY <1>1, Invariance, PTL

(* A request is used again with its semaphore not given, although the task   *)
(* before it may have timed out in the moment it was served.                *)
THEOREM CleanEvents == RmSpec => []EventsMatch
<1>1. IInv => EventsMatch
  BY DEF IInv, Flags, EventsMatch
<1> QED BY <1>1, Invariance, PTL

(* With a request per task, the assertion for a missing one never fires. *)
THEOREM EnoughRequests == RmSpec => []RequestLeft
<1>1. IInv => RequestLeft
  <2> SUFFICES ASSUME IInv, NEW t \in Tasks, call[t].pc = "run", free = {} PROVE FALSE
    BY DEF RequestLeft
  <2> DEFINE others == Tasks \ {t}
             f == [r \in Requests |-> CHOOSE u \in Tasks : call[u].pc # "run" /\ call[u].req = r]
  <2>1. \A r \in Requests : f[r] \in others /\ call[f[r]].req = r
    BY DEF IInv, Lists, Callers
  <2>2. f \in Injection(Requests, others)
    BY <2>1 DEF Injection, IsInjective
  <2>3. IsFiniteSet(others) /\ Cardinality(others) = Cardinality(Tasks) - 1
    BY FS_RemoveElement, ResourceAssumption
  <2>4. Cardinality(Requests) <= Cardinality(others)
    BY <2>2, <2>3, FS_Injection
  <2> QED BY <2>3, <2>4, FS_CardinalityType, ResourceAssumption
<1> QED BY <1>1, Invariance, PTL
============================================================================
