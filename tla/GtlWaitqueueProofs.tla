------------------------- MODULE GtlWaitqueueProofs -------------------------
(***************************************************************************)
(* What holds of the GTL wait queue for every number of links, requests and *)
(* places. A task that waits for its completion is never forgotten, whatever *)
(* the configuration. The other theorems are about a device that is never a *)
(* central and is not reset (Peripheral): its application has one request at *)
(* a time in the queue, the manager has the resolutions of the addresses of  *)
(* new links, and the two kinds are answered each in its order.              *)
(***************************************************************************)
EXTENDS GtlWaitqueue, SequenceTheorems, FiniteSetTheorems, TLAPS

(* The position of an element among those that stay tells it apart from the    *)
(* others, and every position from the first to the last is taken.             *)
LEMMA NthIsThere ==
  ASSUME NEW n \in Nat, NEW kept \in SUBSET (1..n)
  PROVE  /\ IsFiniteSet(kept) /\ Cardinality(kept) \in 0..n
         /\ \A i \in kept : Cardinality({l \in kept : l <= i}) \in 1..Cardinality(kept)
         /\ \A i, j \in kept : i < j => Cardinality({l \in kept : l <= i})
                                          < Cardinality({l \in kept : l <= j})
         /\ \A k \in 1..Cardinality(kept) :
              \E i \in kept : Cardinality({l \in kept : l <= i}) = k
<1>1. IsFiniteSet(1..n) /\ Cardinality(1..n) = n
  BY FS_Interval
<1>2. /\ IsFiniteSet(kept) /\ Cardinality(kept) <= n
      /\ Cardinality(kept) \in Nat
  BY <1>1, FS_Subset, FS_CardinalityType
<1>3. ASSUME NEW i \in kept
      PROVE  /\ IsFiniteSet({l \in kept : l <= i})
             /\ Cardinality({l \in kept : l <= i}) \in 1..Cardinality(kept)
  <2>1. {l \in kept : l <= i} \in SUBSET kept
    OBVIOUS
  <2>2. /\ IsFiniteSet({l \in kept : l <= i})
        /\ Cardinality({l \in kept : l <= i}) <= Cardinality(kept)
    BY <2>1, <1>2, FS_Subset
  <2>3. Cardinality({l \in kept : l <= i}) \in Nat
    BY <2>2, FS_CardinalityType
  <2>4. i \in {l \in kept : l <= i}
    OBVIOUS
  <2>5. Cardinality({l \in kept : l <= i}) # 0
    BY <2>2, <2>4, FS_EmptySet
  <2> QED BY <2>2, <2>3, <2>5, <1>2
<1>4. ASSUME NEW i \in kept, NEW j \in kept, i < j
      PROVE  Cardinality({l \in kept : l <= i}) < Cardinality({l \in kept : l <= j})
  <2>1. {l \in kept : l <= i} \in SUBSET {l \in kept : l <= j}
    <3>1. \A l \in kept : l <= i => l <= j
      <4>1. \A l \in kept : l \in Int
        OBVIOUS
      <4> QED BY <4>1, <1>4
    <3> QED BY <3>1
  <2>2. j \in {l \in kept : l <= j} /\ j \notin {l \in kept : l <= i}
    BY <1>4
  <2>3. Cardinality({l \in kept : l <= i}) # Cardinality({l \in kept : l <= j})
    BY <2>1, <2>2, <1>3, FS_Subset
  <2>4. Cardinality({l \in kept : l <= i}) <= Cardinality({l \in kept : l <= j})
    BY <2>1, <1>3, FS_Subset
  <2> QED BY <2>3, <2>4, <1>3
<1> DEFINE rank == [i \in kept |-> Cardinality({l \in kept : l <= i})]
<1>5. rank \in Injection(kept, 1..Cardinality(kept))
  <2>1. rank \in [kept -> 1..Cardinality(kept)]
    BY <1>3
  <2>2. ASSUME NEW i \in kept, NEW j \in kept, rank[i] = rank[j]
        PROVE  i = j
    <3>0. /\ Cardinality({l \in kept : l <= i}) = Cardinality({l \in kept : l <= j})
          /\ Cardinality({l \in kept : l <= i}) \in Nat
      BY <2>2, <1>3
    <3>1. ~(i < j) /\ ~(j < i)
      BY <3>0, <1>4
    <3> QED BY <3>1
  <2> QED BY <2>1, <2>2 DEF Injection, IsInjective
<1>6. IsFiniteSet(1..Cardinality(kept)) /\ Cardinality(1..Cardinality(kept)) = Cardinality(kept)
  BY <1>2, FS_Interval
<1>7. rank \in Surjection(kept, 1..Cardinality(kept))
  BY <1>5, <1>6, FS_Injection
<1>8. \A k \in 1..Cardinality(kept) : \E i \in kept : rank[i] = k
  BY <1>7 DEF Surjection
<1> QED BY <1>2, <1>3, <1>4, <1>8

(* What stays keeps its order: the elements of Without are those of the queue, *)
(* except the removed ones, each at the place its position gives it.           *)
LEMMA WithoutKeeps ==
  ASSUME NEW S, NEW q \in Seq(S), NEW removed
  PROVE  /\ Without(q, removed) \in Seq(S)
         /\ Len(Without(q, removed)) <= Len(q)
         /\ \E f \in [1..Len(Without(q, removed)) -> (1..Len(q)) \ removed] :
              /\ \A k \in 1..Len(Without(q, removed)) : Without(q, removed)[k] = q[f[k]]
              /\ \A k, l \in 1..Len(Without(q, removed)) : k < l => f[k] < f[l]
              /\ \A i \in (1..Len(q)) \ removed :
                   \E k \in 1..Len(Without(q, removed)) : f[k] = i
<1> DEFINE kept == (1..Len(q)) \ removed
           rank(i) == Cardinality({l \in kept : l <= i})
           f == [k \in 1..Cardinality(kept) |-> CHOOSE i \in kept : rank(i) = k]
<1>1. DOMAIN q = 1..Len(q) /\ Len(q) \in Nat /\ \A i \in 1..Len(q) : q[i] \in S
  OBVIOUS
<1>2. kept \in SUBSET (1..Len(q))
  OBVIOUS
<1>3. /\ Cardinality(kept) \in 0..Len(q)
      /\ \A i \in kept : rank(i) \in 1..Cardinality(kept)
      /\ \A i, j \in kept : i < j => rank(i) < rank(j)
      /\ \A k \in 1..Cardinality(kept) : \E i \in kept : rank(i) = k
  <2> HIDE DEF kept
  <2> QED BY <1>1, <1>2, NthIsThere
<1>4. Without(q, removed) = [k \in 1..Cardinality(kept) |-> q[f[k]]]
  BY <1>1 DEF Without, Nth
<1> HIDE DEF rank, kept
<1>5. \A i, j \in kept : rank(i) = rank(j) => i = j
  <2> TAKE i \in kept, j \in kept
  <2>1. i \in Nat /\ j \in Nat
    BY <1>2
  <2>2. i < j => rank(i) # rank(j)
    BY <1>3
  <2>3. j < i => rank(i) # rank(j)
    BY <1>3
  <2> QED BY <2>1, <2>2, <2>3
<1>6. ASSUME NEW k \in 1..Cardinality(kept)
      PROVE  f[k] \in kept /\ rank(f[k]) = k
  BY <1>3
<1> HIDE DEF f
<1>8. f \in [1..Cardinality(kept) -> kept]
  BY <1>6 DEF f
<1>9. ASSUME NEW k \in 1..Cardinality(kept), NEW l \in 1..Cardinality(kept), k < l
      PROVE  f[k] < f[l]
  <2>1. f[k] \in Nat /\ f[l] \in Nat
    <3>1. f[k] \in 1..Len(q) /\ f[l] \in 1..Len(q)
      BY <1>2, <1>6
    <3> QED BY <3>1, <1>1
  <2>2. f[k] # f[l] /\ ~(f[l] < f[k])
    BY <1>6, <1>3, <1>9
  <2> QED BY <2>1, <2>2
<1>10. \A i \in kept : \E k \in 1..Cardinality(kept) : f[k] = i
  BY <1>3, <1>5, <1>6
<1>11. /\ Without(q, removed) \in Seq(S)
       /\ Len(Without(q, removed)) = Cardinality(kept)
  <2>1. \A k \in 1..Cardinality(kept) : q[f[k]] \in S
    BY <1>8, <1>1, <1>2
  <2> QED BY <1>4, <1>3, <2>1
<1>12. \A k \in 1..Cardinality(kept) : Without(q, removed)[k] = q[f[k]]
  BY <1>4
<1>13. Cardinality(kept) <= Len(q)
  BY <1>1, <1>3
<1>14. \E g \in [1..Len(Without(q, removed)) -> kept] :
         /\ \A k \in 1..Len(Without(q, removed)) : Without(q, removed)[k] = q[g[k]]
         /\ \A k, l \in 1..Len(Without(q, removed)) : k < l => g[k] < g[l]
         /\ \A i \in kept : \E k \in 1..Len(Without(q, removed)) : g[k] = i
  BY <1>8, <1>9, <1>10, <1>11, <1>12
<1> QED BY <1>11, <1>13, <1>14 DEF kept

-----------------------------------------------------------------------------
\* What Fire can leave in fired: the request of a callback and whose completion it got.
Calls == [req : Requests, by : Ids]

\* The record of the command has its fields, and a command that has begun is one.
Typed ==
  /\ TypeOK
  /\ app \in [pc : {"idle", "add", "send", "wait"}, req : Requests \cup {NoReq}]
  /\ app.pc # "idle" => app.req \in Requests
  /\ \A i \in 1..Len(toMgr) : toMgr[i].conn \in Conns

(* The next request has a serial number of its own, within the bound.          *)
LEMMA RequestTyped ==
  ASSUME Typed, nReq < MaxReqs,
         NEW what \in {"config", "resolve", "reset", "rssi", "encrypt"},
         NEW c \in ConnIds, NEW about \in ConnIds
  PROVE  /\ Request(what, c, about) \in Requests
         /\ nReq + 1 \in Ids
<1>1. nReq + 1 \in Ids
  BY QueueAssumption DEF Typed, TypeOK, Ids
<1> QED BY <1>1 DEF Request, Requests

(* ble_gtl_waitqueue_add keeps the queue within WAITQUEUE_MAXLEN.              *)
LEMMA AddTyped ==
  ASSUME Typed, NEW elem \in Requests, WaitqueueAdd(elem)
  PROVE  /\ queue' \in Seq(Requests) /\ Len(queue') <= MaxLen /\ full' \in BOOLEAN
         /\ \/ full' = TRUE
            \/ Len(queue) < MaxLen /\ queue' = Append(queue, elem)
<1>1. queue \in Seq(Requests) /\ Len(queue) <= MaxLen /\ full \in BOOLEAN
  BY DEF Typed, TypeOK
<1>2. CASE Len(queue) < MaxLen
  <2>1. queue' = Append(queue, elem) /\ full' = full
    BY <1>2 DEF WaitqueueAdd
  <2>2. Len(queue') = Len(queue) + 1 /\ queue' \in Seq(Requests)
    BY <2>1, <1>1
  <2>3. Len(queue') <= MaxLen
    BY <2>2, <1>1, <1>2, QueueAssumption
  <2> QED BY <1>1, <1>2, <2>1, <2>2, <2>3
<1>3. CASE ~(Len(queue) < MaxLen)
  <2>1. queue' = queue /\ full' = TRUE
    BY <1>3 DEF WaitqueueAdd
  <2> QED BY <1>1, <2>1
<1> QED BY <1>2, <1>3

(* What the callbacks of a match or a flush leave in the response queue is one *)
(* of the elements they were called for.                                       *)
LEMMA FireTyped ==
  ASSUME Typed, NEW calls \in SUBSET Calls, Fire(calls)
  PROVE  /\ rsp' \in Seq(Calls) /\ Len(rsp') <= 1
         /\ fired' = calls
         /\ (\E k \in calls : k.req.what \in Answering) =>
              rsp' # NoRsp /\ \E k \in calls : rsp' = <<k>>
         /\ (\A k \in calls : k.req.what \notin Answering) => rsp' = rsp
<1>1. rsp \in Seq(Calls) /\ Len(rsp) <= 1
  BY DEF Typed, TypeOK, Calls
<1>2. CASE \E k \in calls : k.req.what \in Answering
  <2>1. PICK k \in calls : rsp' = <<k>>
    BY <1>2 DEF Fire
  <2>2. rsp' \in Seq(Calls) /\ Len(rsp') = 1
    BY <2>1
  <2> QED BY <1>2, <2>1, <2>2 DEF Fire, NoRsp
<1>3. CASE ~\E k \in calls : k.req.what \in Answering
  <2>1. rsp' = rsp
    BY <1>3 DEF Fire
  <2> QED BY <1>1, <1>3, <2>1 DEF Fire
<1> QED BY <1>2, <1>3

\* A message that is taken is typed, and the rest is.
LEMMA TakeTyped ==
  ASSUME Typed, NEW m \in Messages, Take(m)
  PROVE  /\ toMgr' \in Seq(Messages) /\ Len(toMgr) \in Nat \ {0}
         /\ Len(toMgr') = Len(toMgr) - 1
         /\ m = toMgr[1]
         /\ \A i \in 1..Len(toMgr') : toMgr'[i] = toMgr[i + 1]
         /\ \A i \in 1..Len(toMgr') : toMgr'[i].conn \in Conns
         /\ m.conn \in Conns
<1>1. toMgr \in Seq(Messages) /\ toMgr # <<>> /\ m = Head(toMgr) /\ toMgr' = Tail(toMgr)
  BY DEF Typed, TypeOK, Take
<1>2. /\ toMgr' \in Seq(Messages) /\ Len(toMgr') = Len(toMgr) - 1
      /\ \A i \in 1..Len(toMgr') : toMgr'[i] = toMgr[i + 1]
  BY <1>1, HeadTailProperties
<1>3. Len(toMgr) \in Nat \ {0} /\ m = toMgr[1]
  BY <1>1
<1> QED BY <1>2, <1>3 DEF Typed

\* What ble_gtl_waitqueue_flush and ble_gtl_waitqueue_match leave is typed and not longer.
LEMMA WithoutTyped ==
  ASSUME Typed, NEW removed, queue' = Without(queue, removed)
  PROVE  queue' \in Seq(Requests) /\ Len(queue') <= MaxLen
<1>1. queue \in Seq(Requests) /\ Len(queue) <= MaxLen
  BY DEF Typed, TypeOK
<1>2. queue' \in Seq(Requests) /\ Len(queue') <= Len(queue)
  BY <1>1, WithoutKeeps
<1> QED BY <1>1, <1>2, QueueAssumption

\* A command that begins is typed.
LEMMA TypedBegin ==
  ASSUME Typed, NEW req \in Requests, nReq + 1 \in Ids, Begin(req), resetting' \in BOOLEAN
  PROVE  Typed'
<1>1. app' = [pc |-> "add", req |-> req] /\ nReq' = nReq + 1 /\ tooLate' = FALSE
  BY DEF Begin
<1>2. UNCHANGED <<queue, full, devs, rsp, toStack, toMgr, link, pend, nLink>>
  BY DEF Begin, stackVars
<1>3. /\ app' \in [pc : {"idle", "add", "send", "wait"}, req : Requests \cup {NoReq}]
      /\ app'.pc = "add" /\ app'.req = req
  BY <1>1
<1> QED BY <1>1, <1>2, <1>3 DEF Typed, TypeOK

\* The steps of the application keep the types.
LEMMA AppTyped == Typed /\ AppStep => Typed'
<1> SUFFICES ASSUME Typed, AppStep
             PROVE  Typed'
  OBVIOUS
<1>1. 0 \in ConnIds /\ NoConn \in ConnIds /\ Conns \subseteq ConnIds /\ resetting \in BOOLEAN
      /\ devs \subseteq Conns
  BY ConnsAssumption DEF ConnIds, Typed, TypeOK
<1>2. CASE ConfigCmd
  <2>1. nReq < MaxReqs
    BY <1>2 DEF ConfigCmd, Begin
  <2>2. Request("config", NoConn, NoConn) \in Requests /\ nReq + 1 \in Ids
    BY <1>1, <2>1, RequestTyped
  <2> QED BY <1>1, <1>2, <2>2, TypedBegin DEF ConfigCmd
<1>3. CASE MtuCmd
  <2>1. nReq < MaxReqs
    BY <1>3 DEF MtuCmd, Begin
  <2>2. Request("config", 0, NoConn) \in Requests /\ nReq + 1 \in Ids
    BY <1>1, <2>1, RequestTyped
  <2> QED BY <1>1, <1>3, <2>2, TypedBegin DEF MtuCmd
<1>4. ASSUME NEW c \in Conns, RssiCmd(c)
      PROVE  Typed'
  <2>1. nReq < MaxReqs
    BY <1>4 DEF RssiCmd, Begin
  <2>2. Request("rssi", c, c) \in Requests /\ nReq + 1 \in Ids
    BY <1>1, <2>1, RequestTyped
  <2> QED BY <1>1, <1>4, <2>2, TypedBegin DEF RssiCmd
<1>5. ASSUME NEW c \in Conns, SecCmd(c)
      PROVE  Typed'
  <2>1. nReq < MaxReqs
    BY <1>5 DEF SecCmd, Begin
  <2>2. Request("encrypt", c, c) \in Requests /\ nReq + 1 \in Ids
    BY <1>1, <2>1, RequestTyped
  <2> QED BY <1>1, <1>5, <2>2, TypedBegin DEF SecCmd
<1>6. CASE ResetCmd
  <2>1. nReq < MaxReqs
    BY <1>6 DEF ResetCmd, Begin
  <2>2. Request("reset", NoConn, NoConn) \in Requests /\ nReq + 1 \in Ids
    BY <1>1, <2>1, RequestTyped
  <2>3. resetting' \in BOOLEAN
    BY <1>6 DEF ResetCmd
  <2> QED BY <1>6, <2>2, <2>3, TypedBegin DEF ResetCmd
<1>7. CASE AppAdd
  <2>1. app.req \in Requests
    BY <1>7 DEF AppAdd, Typed
  <2>2. /\ queue' \in Seq(Requests) /\ Len(queue') <= MaxLen /\ full' \in BOOLEAN
    BY <1>7, <2>1, AddTyped DEF AppAdd
  <2>3. app' = [app EXCEPT !.pc = "send"]
    BY <1>7 DEF AppAdd
  <2>4. /\ app' \in [pc : {"idle", "add", "send", "wait"}, req : Requests \cup {NoReq}]
        /\ app'.req = app.req
    BY <2>3 DEF Typed
  <2>5. UNCHANGED <<devs, resetting, rsp, tooLate, toStack, toMgr, link, pend, nReq, nLink>>
    BY <1>7 DEF AppAdd, stackVars
  <2> QED BY <2>1, <2>2, <2>4, <2>5 DEF Typed, TypeOK
<1>8. CASE AppSend
  <2>1. app.req \in Requests /\ toStack' = Append(toStack, app.req)
    BY <1>8 DEF AppSend, Typed
  <2>2. toStack' \in Seq(Requests)
    BY <2>1 DEF Typed, TypeOK
  <2>3. app' = [app EXCEPT !.pc = "wait"] \/ app' = Idle
    BY <1>8 DEF AppSend
  <2>4. /\ app' \in [pc : {"idle", "add", "send", "wait"}, req : Requests \cup {NoReq}]
        /\ app'.pc # "idle" => app'.req \in Requests
    BY <2>1, <2>3 DEF Typed, Idle
  <2>5. UNCHANGED <<queue, full, devs, resetting, rsp, tooLate, toMgr, link, pend, nReq, nLink>>
    BY <1>8 DEF AppSend, stackVars
  <2> QED BY <2>2, <2>4, <2>5 DEF Typed, TypeOK
<1>9. CASE AppTake
  <2>1. rsp' = <<>> /\ app' = Idle
    BY <1>9 DEF AppTake, NoRsp
  <2>2. rsp' \in Seq(Calls) /\ Len(rsp') <= 1
    BY <2>1
  <2>3. /\ app' \in [pc : {"idle", "add", "send", "wait"}, req : Requests \cup {NoReq}]
        /\ app'.pc = "idle"
    BY <2>1 DEF Idle
  <2>4. UNCHANGED <<queue, full, devs, resetting, tooLate, toStack, toMgr, link, pend, nReq, nLink>>
    BY <1>9 DEF AppTake, stackVars
  <2> QED BY <2>2, <2>3, <2>4 DEF Typed, TypeOK, Calls
<1> QED BY <1>2, <1>3, <1>4, <1>5, <1>6, <1>7, <1>8, <1>9 DEF AppStep

\* A request of the manager itself is typed, in the queue and on its way.
LEMMA AskTyped ==
  ASSUME Typed, NEW req \in Requests, nReq + 1 \in Ids, Ask(req)
  PROVE  /\ queue' \in Seq(Requests) /\ Len(queue') <= MaxLen /\ full' \in BOOLEAN
         /\ toStack' \in Seq(Requests) /\ nReq' \in Ids
<1>1. WaitqueueAdd(req) /\ nReq' = nReq + 1 /\ toStack' = Append(toStack, req)
  BY DEF Ask
<1>2. toStack \in Seq(Requests)
  BY DEF Typed, TypeOK
<1>3. toStack' \in Seq(Requests) /\ nReq' \in Ids
  BY <1>1, <1>2
<1>4. queue' \in Seq(Requests) /\ Len(queue') <= MaxLen /\ full' \in BOOLEAN
  BY <1>1, AddTyped
<1> QED BY <1>3, <1>4

\* The handlers of the manager keep the types.
LEMMA MgrTyped == Typed /\ MgrStep => Typed'
<1> SUFFICES ASSUME Typed, MgrStep
             PROVE  Typed'
  OBVIOUS
<1>1. NoConn \in ConnIds /\ Conns \subseteq ConnIds /\ 0 \in Ids
  BY QueueAssumption DEF ConnIds, Ids
<1>2. CASE MgrConnected
  <2>1. PICK m \in Messages : /\ Take(m) /\ m.what = "connected"
                              /\ devs' = devs \cup {m.conn}
                              /\ \/ Ask(Request("resolve", NoConn, m.conn))
                                 \/ UNCHANGED <<queue, full, toStack, nReq>>
    BY <1>2 DEF MgrConnected
  <2>2. /\ toMgr' \in Seq(Messages) /\ m.conn \in Conns
        /\ \A i \in 1..Len(toMgr') : toMgr'[i].conn \in Conns
    BY <2>1, TakeTyped
  <2>3. /\ queue' \in Seq(Requests) /\ Len(queue') <= MaxLen /\ full' \in BOOLEAN
        /\ toStack' \in Seq(Requests) /\ nReq' \in Ids
    <3>1. CASE Ask(Request("resolve", NoConn, m.conn))
      <4>1. nReq < MaxReqs
        BY <3>1 DEF Ask
      <4>2. Request("resolve", NoConn, m.conn) \in Requests /\ nReq + 1 \in Ids
        BY <1>1, <2>2, <4>1, RequestTyped
      <4> QED BY <3>1, <4>2, AskTyped
    <3>2. CASE UNCHANGED <<queue, full, toStack, nReq>>
      BY <3>2 DEF Typed, TypeOK
    <3> QED BY <2>1, <3>1, <3>2
  <2>4. UNCHANGED <<resetting, app, rsp, tooLate, link, pend, nLink>>
    BY <1>2 DEF MgrConnected, stackVars
  <2>5. devs' \subseteq Conns
    BY <2>1, <2>2 DEF Typed, TypeOK
  <2> QED BY <2>2, <2>3, <2>4, <2>5 DEF Typed, TypeOK
<1>3. CASE MgrDisconnected
  <2>1. PICK m \in Messages :
          /\ Take(m) /\ devs' = devs \ {m.conn}
          /\ queue' = Without(queue, Removed(queue, m.conn))
          /\ Fire({[req |-> queue[i], by |-> 0] : i \in Removed(queue, m.conn)})
          /\ tooLate' = (tooLate \/ (app.pc = "add" /\ app.req.conn = m.conn))
    BY <1>3 DEF MgrDisconnected
  <2>2. /\ toMgr' \in Seq(Messages)
        /\ \A i \in 1..Len(toMgr') : toMgr'[i].conn \in Conns
    BY <2>1, TakeTyped
  <2>3. queue' \in Seq(Requests) /\ Len(queue') <= MaxLen
    BY <2>1, WithoutTyped
  <2>4. rsp' \in Seq(Calls) /\ Len(rsp') <= 1
    <3> DEFINE calls == {[req |-> queue[i], by |-> 0] : i \in Removed(queue, m.conn)}
    <3>1. calls \in SUBSET Calls
      BY <1>1 DEF Removed, Calls, Typed, TypeOK
    <3>2. Fire(calls)
      BY <2>1
    <3> HIDE DEF calls
    <3> QED BY <3>1, <3>2, FireTyped
  <2>5. tooLate' \in BOOLEAN /\ devs' \subseteq Conns
    BY <2>1 DEF Typed, TypeOK
  <2>6. UNCHANGED <<full, resetting, app, toStack, link, pend, nReq, nLink>>
    BY <1>3 DEF MgrDisconnected, stackVars
  <2> QED BY <2>2, <2>3, <2>4, <2>5, <2>6 DEF Typed, TypeOK, Calls
<1>4. CASE MgrSecurity
  <2>1. PICK m \in Messages : Take(m) /\ Ask(Request("encrypt", m.conn, m.conn))
    BY <1>4 DEF MgrSecurity
  <2>2. /\ toMgr' \in Seq(Messages) /\ m.conn \in Conns
        /\ \A i \in 1..Len(toMgr') : toMgr'[i].conn \in Conns
    BY <2>1, TakeTyped
  <2>3. nReq < MaxReqs
    BY <2>1 DEF Ask
  <2>4. Request("encrypt", m.conn, m.conn) \in Requests /\ nReq + 1 \in Ids
    BY <1>1, <2>2, <2>3, RequestTyped
  <2>5. /\ queue' \in Seq(Requests) /\ Len(queue') <= MaxLen /\ full' \in BOOLEAN
        /\ toStack' \in Seq(Requests) /\ nReq' \in Ids
    BY <2>1, <2>4, AskTyped
  <2>6. UNCHANGED <<devs, resetting, app, rsp, tooLate, link, pend, nLink>>
    BY <1>4 DEF MgrSecurity, stackVars
  <2> QED BY <2>2, <2>5, <2>6 DEF Typed, TypeOK
<1>5. CASE MgrMatch
  <2>0. PICK m \in Messages :
          /\ Take(m)
          /\ \E i \in FirstMatch(m) : /\ queue' = Without(queue, {i})
                                      /\ Fire({[req |-> queue[i], by |-> m.id]})
          /\ resetting' = (resetting /\ m.what # "reset")
          /\ devs' = IF m.what = "reset" THEN {} ELSE devs
    BY <1>5 DEF MgrMatch
  <2>1. PICK i \in FirstMatch(m) : /\ queue' = Without(queue, {i})
                                   /\ Fire({[req |-> queue[i], by |-> m.id]})
    BY <2>0
  <2>2. /\ toMgr' \in Seq(Messages)
        /\ \A j \in 1..Len(toMgr') : toMgr'[j].conn \in Conns
    BY <2>0, TakeTyped
  <2>3. queue' \in Seq(Requests) /\ Len(queue') <= MaxLen
    BY <2>1, WithoutTyped
  <2>4. rsp' \in Seq(Calls) /\ Len(rsp') <= 1
    <3>1. i \in 1..Len(queue) /\ m.id \in Ids
      BY DEF FirstMatch, Messages
    <3>2. queue[i] \in Requests
      BY <3>1 DEF Typed, TypeOK
    <3>3. {[req |-> queue[i], by |-> m.id]} \in SUBSET Calls
      BY <3>1, <3>2 DEF Calls
    <3> QED BY <2>1, <3>3, FireTyped
  <2>5. resetting' \in BOOLEAN /\ devs' \subseteq Conns
    BY <2>0 DEF Typed, TypeOK
  <2>6. UNCHANGED <<full, app, tooLate, toStack, link, pend, nReq, nLink>>
    BY <1>5 DEF MgrMatch, stackVars
  <2> QED BY <2>2, <2>3, <2>4, <2>5, <2>6 DEF Typed, TypeOK, Calls
<1>6. CASE MgrIgnore
  <2>1. PICK m \in Messages : Take(m)
    BY <1>6 DEF MgrIgnore
  <2>2. /\ toMgr' \in Seq(Messages)
        /\ \A i \in 1..Len(toMgr') : toMgr'[i].conn \in Conns
    BY <2>1, TakeTyped
  <2>3. UNCHANGED <<queue, full, devs, resetting, app, rsp, tooLate, toStack, link, pend, nReq,
                    nLink>>
    BY <1>6 DEF MgrIgnore, MgrSide, stackVars
  <2> QED BY <2>2, <2>3 DEF Typed, TypeOK
<1> QED BY <1>2, <1>3, <1>4, <1>5, <1>6 DEF MgrStep

\* What is sent is typed.
LEMMA SendTyped ==
  ASSUME Typed, NEW m \in Messages, toMgr' = Append(toMgr, m), m.conn \in Conns
  PROVE  /\ toMgr' \in Seq(Messages)
         /\ \A i \in 1..Len(toMgr') : toMgr'[i].conn \in Conns
<1>1. toMgr \in Seq(Messages) /\ \A i \in 1..Len(toMgr) : toMgr[i].conn \in Conns
  BY DEF Typed, TypeOK
<1>2. Len(toMgr') = Len(toMgr) + 1
  BY <1>1
<1>3. \A i \in 1..Len(toMgr') : toMgr'[i] = IF i <= Len(toMgr) THEN toMgr[i] ELSE m
  BY <1>1
<1> QED BY <1>1, <1>2, <1>3

\* The steps of the stack keep the types.
LEMMA StackTyped == Typed /\ StackStep => Typed'
<1> SUFFICES ASSUME Typed, StackStep
             PROVE  Typed'
  OBVIOUS
<1>1. 0 \in Conns /\ 0 \in Ids /\ Conns \subseteq ConnIds
  BY QueueAssumption, ConnsAssumption DEF Ids, ConnIds
<1>2. CASE StackTake
  <2>1. toStack # <<>> /\ toStack' = Tail(toStack) /\ toStack \in Seq(Requests)
    BY <1>2 DEF StackTake, Typed, TypeOK
  <2>2. toStack' \in Seq(Requests) /\ Head(toStack) \in Requests
    BY <2>1
  <2>3. PICK req \in Requests :
          \/ link' = {} /\ pend' = <<req>>
          \/ pend' = Append(pend, req) /\ UNCHANGED link
          \/ UNCHANGED stackVars
    BY <1>2, <2>2 DEF StackTake
  <2>4. link' \subseteq Conns /\ pend' \in Seq(Requests)
    <3>1. link \subseteq Conns /\ pend \in Seq(Requests)
      BY DEF Typed, TypeOK
    <3>2. <<req>> \in Seq(Requests) /\ Append(pend, req) \in Seq(Requests)
      BY <3>1
    <3> QED BY <2>3, <3>1, <3>2 DEF stackVars
  <2>5. UNCHANGED <<queue, full, devs, resetting, app, rsp, tooLate, toMgr, nReq, nLink>>
    BY <1>2 DEF StackTake, MgrSide
  <2> QED BY <2>2, <2>4, <2>5 DEF Typed, TypeOK
<1>3. CASE StackAnswer
  <2>1. PICK i \in 1..Len(pend) :
          /\ pend' = Without(pend, {i})
          /\ toMgr' = Append(toMgr, Message(pend[i].what,
                             IF ConnOf(pend[i]) = NoConn THEN 0 ELSE pend[i].conn, pend[i].id))
    BY <1>3 DEF StackAnswer
  <2>2. pend[i] \in Requests
    BY DEF Typed, TypeOK
  <2> DEFINE src == IF ConnOf(pend[i]) = NoConn THEN 0 ELSE pend[i].conn
             m == Message(pend[i].what, src, pend[i].id)
  <2>3. src \in Conns
    BY <1>1, <2>2 DEF ConnOf, Requests, ConnIds
  <2>4. m \in Messages /\ m.conn \in Conns
    <3> HIDE DEF src
    <3> QED BY <1>1, <2>2, <2>3 DEF Message, Messages, Requests
  <2> HIDE DEF m
  <2>5. /\ toMgr' \in Seq(Messages)
        /\ \A j \in 1..Len(toMgr') : toMgr'[j].conn \in Conns
    <3>1. toMgr' = Append(toMgr, m)
      BY <2>1 DEF m
    <3> QED BY <2>4, <3>1, SendTyped
  <2>6. pend' \in Seq(Requests)
    BY <2>1, WithoutKeeps DEF Typed, TypeOK
  <2>7. UNCHANGED <<queue, full, devs, resetting, app, rsp, tooLate, toStack, link, nReq, nLink>>
    BY <1>3 DEF StackAnswer, MgrSide
  <2> QED BY <2>5, <2>6, <2>7 DEF Typed, TypeOK
<1>4. ASSUME NEW c \in Conns, LinkUp(c)
      PROVE  Typed'
  <2>1. /\ Message("connected", c, 0) \in Messages
        /\ Message("connected", c, 0).conn \in Conns
    BY <1>1 DEF Message, Messages
  <2>2. /\ toMgr' \in Seq(Messages)
        /\ \A i \in 1..Len(toMgr') : toMgr'[i].conn \in Conns
    BY <1>4, <2>1, SendTyped DEF LinkUp
  <2>3. link' \subseteq Conns
    BY <1>4 DEF LinkUp, Typed, TypeOK
  <2>4. nLink' \in 0..MaxLinks
    BY <1>4, QueueAssumption DEF LinkUp, Typed, TypeOK
  <2>5. UNCHANGED <<queue, full, devs, resetting, app, rsp, tooLate, toStack, pend, nReq>>
    BY <1>4 DEF LinkUp, MgrSide
  <2> QED BY <2>2, <2>3, <2>4, <2>5 DEF Typed, TypeOK
<1>5. ASSUME NEW c \in Conns, LinkDown(c)
      PROVE  Typed'
  <2>1. /\ Message("disconnected", c, 0) \in Messages
        /\ Message("disconnected", c, 0).conn \in Conns
    BY <1>1 DEF Message, Messages
  <2>2. /\ toMgr' \in Seq(Messages)
        /\ \A i \in 1..Len(toMgr') : toMgr'[i].conn \in Conns
    BY <1>5, <2>1, SendTyped DEF LinkDown
  <2>3. link' \subseteq Conns
    BY <1>5 DEF LinkDown, Typed, TypeOK
  <2>4. pend' \in Seq(Requests)
    BY <1>5, WithoutKeeps DEF LinkDown, Typed, TypeOK
  <2>5. UNCHANGED <<queue, full, devs, resetting, app, rsp, tooLate, toStack, nReq, nLink>>
    BY <1>5 DEF LinkDown, MgrSide
  <2> QED BY <2>2, <2>3, <2>4, <2>5 DEF Typed, TypeOK
<1>6. ASSUME NEW c \in Conns, SecurityRequest(c)
      PROVE  Typed'
  <2>1. /\ Message("security", c, 0) \in Messages
        /\ Message("security", c, 0).conn \in Conns
    BY <1>1 DEF Message, Messages
  <2>2. /\ toMgr' \in Seq(Messages)
        /\ \A i \in 1..Len(toMgr') : toMgr'[i].conn \in Conns
    BY <1>6, <2>1, SendTyped DEF SecurityRequest
  <2>3. UNCHANGED <<queue, full, devs, resetting, app, rsp, tooLate, toStack, link, pend, nReq,
                    nLink>>
    BY <1>6 DEF SecurityRequest, MgrSide, stackVars
  <2> QED BY <2>2, <2>3 DEF Typed, TypeOK
<1> QED BY <1>2, <1>3, <1>4, <1>5, <1>6 DEF StackStep

\* The types hold at the start.
LEMMA InitTyped == Init => Typed
<1> SUFFICES ASSUME Init PROVE Typed
  OBVIOUS
<1>1. /\ queue = <<>> /\ Len(<<>>) = 0 /\ rsp = <<>> /\ toStack = <<>> /\ toMgr = <<>> /\ pend = <<>>
  BY DEF Init, NoRsp
<1>2. /\ full = FALSE /\ devs = {} /\ resetting = FALSE /\ app = Idle /\ tooLate = FALSE
      /\ link = {} /\ nReq = 0 /\ nLink = 0
  BY DEF Init
<1>3. 0 \in Ids /\ 0 \in 0..MaxLinks /\ 0 <= MaxLen
  BY QueueAssumption DEF Ids
<1>4. TypeOK
  <2>1. app.pc = "idle" /\ app.req = NoReq
    BY <1>2 DEF Idle
  <2>2. <<>> \in Seq(Requests) /\ <<>> \in Seq(Messages) /\ <<>> \in Seq([req : Requests, by : Ids])
    OBVIOUS
  <2>3. /\ queue \in Seq(Requests) /\ Len(queue) <= MaxLen
        /\ rsp \in Seq([req : Requests, by : Ids]) /\ Len(rsp) <= 1
        /\ toStack \in Seq(Requests) /\ toMgr \in Seq(Messages) /\ pend \in Seq(Requests)
    BY <1>1, <1>3, <2>2
  <2>4. /\ full \in BOOLEAN /\ resetting \in BOOLEAN /\ tooLate \in BOOLEAN
        /\ devs \subseteq Conns /\ link \subseteq Conns /\ nReq \in Ids /\ nLink \in 0..MaxLinks
    BY <1>2, <1>3
  <2> QED BY <2>1, <2>3, <2>4 DEF TypeOK
<1> QED BY <1>1, <1>2, <1>4 DEF Typed, Idle

\* Every step keeps the types.
LEMMA TypedNext == Typed /\ [Next]_vars => Typed'
<1>1. CASE UNCHANGED vars
  BY <1>1 DEF vars, MgrSide, stackVars, Typed, TypeOK
<1> QED BY <1>1, AppTyped, MgrTyped, StackTyped DEF Next

\* The types hold in every behaviour.
LEMMA AlwaysTyped == Spec => []Typed
BY InitTyped, TypedNext, PTL DEF Spec

(* Requests, completions and callbacks have the parts they should, and the     *)
(* queue is never longer than WAITQUEUE_MAXLEN (ble_gtl_waitqueue_add).        *)
THEOREM TypesOK == Spec => []TypeOK
<1>1. Typed => TypeOK
  BY DEF Typed
<1> QED BY <1>1, AlwaysTyped, PTL

-----------------------------------------------------------------------------
\* The inductive form of CallerHasWaiter: it begins when the element is added, and a
\* command only waits if a callback is to answer it.
HasWaiter == rsp # NoRsp \/ \E i \in 1..Len(queue) : queue[i] = app.req
CallerInv ==
  /\ app.pc = "wait" => app.req.what \in Answering /\ HasWaiter
  /\ app.pc = "send" /\ app.req.what \in Answering => full \/ HasWaiter

\* An addition keeps what waits and ends with the new element, or the queue was full.
LEMMA AddKeeps ==
  ASSUME Typed, NEW elem \in Requests, WaitqueueAdd(elem)
  PROVE  /\ \A i \in 1..Len(queue) : i \in 1..Len(queue') /\ queue'[i] = queue[i]
         /\ full' = TRUE \/ \E i \in 1..Len(queue') : queue'[i] = elem
         /\ \A i \in 1..Len(queue') :
             (i \in 1..Len(queue) /\ queue'[i] = queue[i]) \/ queue'[i] = elem
<1>1. queue \in Seq(Requests)
  BY DEF Typed, TypeOK
<1>2. CASE queue' = Append(queue, elem)
  <2>1. Len(queue') = Len(queue) + 1 /\ queue'[Len(queue) + 1] = elem
        /\ \A i \in 1..Len(queue) : queue'[i] = queue[i]
    BY <1>1, <1>2
  <2>2. Len(queue) \in Nat
    BY <1>1
  <2> QED BY <2>1, <2>2
<1>3. CASE queue' = queue /\ full' = TRUE
  BY <1>3
<1> QED BY <1>2, <1>3 DEF WaitqueueAdd

\* A request of the manager takes nothing away from a caller.
LEMMA WaiterAsks ==
  ASSUME Typed, NEW req \in Requests, Ask(req), UNCHANGED <<app, rsp>>, HasWaiter
  PROVE  HasWaiter'
BY AddKeeps DEF Ask, HasWaiter

\* An element leaves the queue only with its callback, which answers the caller.
LEMMA WaiterFires ==
  ASSUME Typed, NEW removed \in SUBSET (1..Len(queue)), NEW by \in Ids,
         queue' = Without(queue, removed),
         Fire({[req |-> queue[i], by |-> by] : i \in removed}),
         UNCHANGED app, app.req.what \in Answering, HasWaiter
  PROVE  HasWaiter'
<1> DEFINE calls == {[req |-> queue[i], by |-> by] : i \in removed}
<1>1. queue \in Seq(Requests)
  BY DEF Typed, TypeOK
<1>2. calls \in SUBSET Calls
  BY <1>1 DEF Calls
<1>3. \A i \in removed : \E k \in calls : k.req = queue[i]
  <2> TAKE i \in removed
  <2>1. [req |-> queue[i], by |-> by] \in calls
    OBVIOUS
  <2>2. [req |-> queue[i], by |-> by].req = queue[i]
    OBVIOUS
  <2> HIDE DEF calls
  <2> QED BY <2>1, <2>2
<1>4. Fire(calls)
  OBVIOUS
<1> HIDE DEF calls
<1>5. CASE \E k \in calls : k.req.what \in Answering
  BY <1>2, <1>4, <1>5, FireTyped DEF HasWaiter
<1>6. CASE ~\E k \in calls : k.req.what \in Answering
  <2>1. rsp' = rsp
    BY <1>2, <1>4, <1>6, FireTyped
  <2>2. ASSUME NEW i \in 1..Len(queue), queue[i] = app.req
        PROVE  \E k \in 1..Len(queue') : queue'[k] = app.req
    <3>1. i \in (1..Len(queue)) \ removed
      BY <1>3, <1>6, <2>2
    <3>2. PICK f \in [1..Len(queue') -> (1..Len(queue)) \ removed] :
            /\ \A k \in 1..Len(queue') : queue'[k] = queue[f[k]]
            /\ \A j \in (1..Len(queue)) \ removed : \E k \in 1..Len(queue') : f[k] = j
      BY <1>1, WithoutKeeps
    <3>3. PICK k \in 1..Len(queue') : f[k] = i
      BY <3>1, <3>2
    <3> QED BY <3>2, <3>3, <2>2
  <2> QED BY <2>1, <2>2 DEF HasWaiter
<1> QED BY <1>5, <1>6

\* Every step keeps the element or the response of a caller.
LEMMA CallerNext == Typed /\ CallerInv /\ [Next]_vars => CallerInv'
<1> SUFFICES ASSUME Typed, CallerInv, [Next]_vars
             PROVE  CallerInv'
  OBVIOUS
<1>1. ASSUME NEW req, Begin(req)
      PROVE  CallerInv'
  <2>1. app'.pc = "add"
    BY <1>1 DEF Begin
  <2> QED BY <2>1 DEF CallerInv
<1>2. CASE AppAdd
  <2>1. app.req \in Requests /\ WaitqueueAdd(app.req) /\ rsp' = rsp
    BY <1>2 DEF AppAdd, Typed
  <2>2. app' = [app EXCEPT !.pc = "send"]
    BY <1>2 DEF AppAdd
  <2>3. app'.pc = "send" /\ app'.req = app.req
    BY <2>2 DEF Typed
  <2>4. full' = TRUE \/ \E i \in 1..Len(queue') : queue'[i] = app.req
    BY <2>1, AddKeeps
  <2> QED BY <2>3, <2>4 DEF CallerInv, HasWaiter
<1>3. CASE AppSend /\ ~full
  <2>1. app.pc = "send" /\ queue' = queue /\ rsp' = rsp
    BY <1>3 DEF AppSend
  <2>2. CASE app.req.what \in Answering
    <3>1. app' = [app EXCEPT !.pc = "wait"]
      BY <1>3, <2>2 DEF AppSend
    <3>2. app'.pc = "wait" /\ app'.req = app.req
      BY <3>1 DEF Typed
    <3> QED BY <1>3, <2>1, <2>2, <3>2 DEF CallerInv, HasWaiter
  <2>3. CASE app.req.what \notin Answering
    <3>1. app' = Idle
      BY <1>3, <2>3 DEF AppSend
    <3> QED BY <3>1 DEF CallerInv, Idle
  <2> QED BY <2>2, <2>3
<1>4. CASE AppTake
  BY <1>4 DEF AppTake, CallerInv, Idle
<1>5. ASSUME UNCHANGED app, full' = full \/ full' = TRUE,
             HasWaiter /\ app.req.what \in Answering => HasWaiter'
      PROVE  CallerInv'
  BY <1>5 DEF CallerInv
<1>6. CASE MgrConnected
  <2>1. PICK m \in Messages : /\ Take(m)
                              /\ \/ Ask(Request("resolve", NoConn, m.conn))
                                 \/ UNCHANGED <<queue, full, toStack, nReq>>
    BY <1>6 DEF MgrConnected
  <2>2. UNCHANGED <<app, rsp>>
    BY <1>6 DEF MgrConnected
  <2>3. CASE Ask(Request("resolve", NoConn, m.conn))
    <3>1. nReq < MaxReqs /\ m.conn \in ConnIds /\ NoConn \in ConnIds
      BY <2>3 DEF Ask, Messages, ConnIds
    <3>2. Request("resolve", NoConn, m.conn) \in Requests
      BY <3>1, RequestTyped
    <3>3. full' = full \/ full' = TRUE
      BY <2>3 DEF Ask, WaitqueueAdd
    <3> QED BY <1>5, <2>2, <2>3, <3>2, <3>3, WaiterAsks
  <2>4. CASE UNCHANGED <<queue, full, toStack, nReq>>
    BY <1>5, <2>2, <2>4 DEF HasWaiter
  <2> QED BY <2>1, <2>3, <2>4
<1>7. CASE MgrSecurity
  <2>1. PICK m \in Messages : Ask(Request("encrypt", m.conn, m.conn))
    BY <1>7 DEF MgrSecurity
  <2>2. UNCHANGED <<app, rsp>>
    BY <1>7 DEF MgrSecurity
  <2>3. nReq < MaxReqs /\ m.conn \in ConnIds
    BY <2>1 DEF Ask, Messages
  <2>4. Request("encrypt", m.conn, m.conn) \in Requests
    BY <2>3, RequestTyped
  <2>5. full' = full \/ full' = TRUE
    BY <2>1 DEF Ask, WaitqueueAdd
  <2> QED BY <1>5, <2>1, <2>2, <2>4, <2>5, WaiterAsks
<1>8. CASE MgrDisconnected
  <2>1. PICK m \in Messages :
          /\ queue' = Without(queue, Removed(queue, m.conn))
          /\ Fire({[req |-> queue[i], by |-> 0] : i \in Removed(queue, m.conn)})
    BY <1>8 DEF MgrDisconnected
  <2>2. UNCHANGED <<app, full>>
    BY <1>8 DEF MgrDisconnected
  <2>3. Removed(queue, m.conn) \in SUBSET (1..Len(queue)) /\ 0 \in Ids
    BY QueueAssumption DEF Removed, Ids
  <2>4. HasWaiter /\ app.req.what \in Answering => HasWaiter'
    BY <2>1, <2>2, <2>3, WaiterFires
  <2> QED BY <1>5, <2>2, <2>4
<1>9. CASE MgrMatch
  <2>1. PICK m \in Messages :
          \E i \in FirstMatch(m) : /\ queue' = Without(queue, {i})
                                   /\ Fire({[req |-> queue[i], by |-> m.id]})
    BY <1>9 DEF MgrMatch
  <2>2. PICK i \in FirstMatch(m) : /\ queue' = Without(queue, {i})
                                   /\ Fire({[req |-> queue[i], by |-> m.id]})
    BY <2>1
  <2>3. UNCHANGED <<app, full>>
    BY <1>9 DEF MgrMatch
  <2>4. {i} \in SUBSET (1..Len(queue)) /\ m.id \in Ids
    BY DEF FirstMatch, Messages
  <2>5. {[req |-> queue[i], by |-> m.id]} = {[req |-> queue[j], by |-> m.id] : j \in {i}}
    OBVIOUS
  <2>6. HasWaiter /\ app.req.what \in Answering => HasWaiter'
    BY <2>2, <2>3, <2>4, <2>5, WaiterFires
  <2> QED BY <1>5, <2>3, <2>6
<1>10. CASE MgrIgnore \/ StackStep \/ UNCHANGED vars
  <2>1. UNCHANGED <<app, full, queue, rsp>>
    BY <1>10 DEF MgrIgnore, StackStep, StackTake, StackAnswer, LinkUp, LinkDown, SecurityRequest,
       MgrSide, vars
  <2> QED BY <1>5, <2>1 DEF HasWaiter
<1> QED
  BY <1>1, <1>2, <1>3, <1>4, <1>6, <1>7, <1>8, <1>9, <1>10
  DEF Next, AppStep, MgrStep, ConfigCmd, MtuCmd, RssiCmd, SecCmd, ResetCmd

(***************************************************************************)
(* A task blocked on the response queue has its element in the wait queue  *)
(* or its response in the response queue, for every mix of commands, links *)
(* and resets and every capacity (ble_gtl_waitqueue_add and _flush,        *)
(* ble_mgr_gtl.c; the command handlers of ble_mgr_gap.c).                  *)
(***************************************************************************)
THEOREM CallerIsNotForgotten == Spec => []CallerHasWaiter
<1>1. Init => CallerInv
  BY DEF Init, Idle, CallerInv
<1>2. CallerInv => CallerHasWaiter
  BY DEF CallerInv, HasWaiter, CallerHasWaiter
<1> QED BY <1>1, <1>2, AlwaysTyped, CallerNext, PTL DEF Spec

-----------------------------------------------------------------------------
\* What a peripheral asks of its stack and is told, in the first n requests.
Asked(n) ==
  [what : {"config"}, conn : {NoConn}, about : {NoConn}, id : 1..n]
    \cup [what : {"resolve"}, conn : {NoConn}, about : Conns, id : 1..n]
    \cup [what : {"rssi"}, conn : Conns, about : Conns, id : 1..n]
Told(n) ==
  [what : {"config", "resolve"}, conn : {0}, id : 1..n]
    \cup [what : {"rssi"}, conn : Conns, id : 1..n]
    \cup [what : {"connected", "disconnected"}, conn : Conns, id : {0}]

\* Typed, and every request is of one of these forms.
Shapes ==
  /\ ~resetting
  /\ nReq \in Nat
  /\ queue \in Seq(Asked(nReq)) /\ pend \in Seq(Asked(nReq)) /\ toStack \in Seq(Asked(nReq))
  /\ toMgr \in Seq(Told(nReq))
  /\ app \in [pc : {"idle", "add", "send", "wait"}, req : Asked(nReq) \cup {NoReq}]
  /\ app.pc # "idle" => app.req \in Asked(nReq) /\ app.req.what # "resolve"

\* A peripheral that is not reset and leaves the size of the MTU alone.
Peripheral == Kinds \subseteq {"config", "rssi"} /\ ~Central

\* What was asked and told remains so when more is asked.
LEMMA AskedGrows ==
  ASSUME NEW n \in Nat
  PROVE  /\ Asked(n) \subseteq Asked(n + 1) /\ Told(n) \subseteq Told(n + 1)
         /\ Seq(Asked(n)) \subseteq Seq(Asked(n + 1)) /\ Seq(Told(n)) \subseteq Seq(Told(n + 1))
<1>1. 1..n \subseteq 1..n + 1
  OBVIOUS
<1>2. Asked(n) \subseteq Asked(n + 1) /\ Told(n) \subseteq Told(n + 1)
  BY <1>1 DEF Asked, Told
<1> QED BY <1>2, SeqMonotonic

\* The element that ble_gtl_waitqueue_match finds is one of the queue.
LEMMA FirstInQueue ==
  ASSUME NEW S, queue \in Seq(S), NEW m, NEW i \in FirstMatch(m)
  PROVE  i \in 1..Len(queue) /\ queue[i] \in S /\ queue[i].what = m.what
BY DEF FirstMatch, Matches

\* The message that is taken is the first, and the others move up.
LEMMA TakeShaped ==
  ASSUME Shapes, NEW m, Take(m)
  PROVE  /\ m \in Told(nReq) /\ toMgr' \in Seq(Told(nReq)) 
         /\ m = toMgr[1] /\ Len(toMgr) \in Nat \ {0} /\ Len(toMgr') = Len(toMgr) - 1
         /\ \A i \in 1..Len(toMgr') : i + 1 \in 1..Len(toMgr) /\ toMgr'[i] = toMgr[i + 1]
         /\ \A i \in 1..Len(toMgr) : i > 1 => i - 1 \in 1..Len(toMgr') /\ toMgr'[i - 1] = toMgr[i]
<1>1. toMgr \in Seq(Told(nReq)) /\ toMgr # <<>> /\ m = Head(toMgr) /\ toMgr' = Tail(toMgr)
  BY DEF Shapes, Take
<1>2. /\ toMgr' \in Seq(Told(nReq)) /\ Len(toMgr') = Len(toMgr) - 1 /\ m \in Told(nReq)
      /\ \A i \in 1..Len(toMgr') : toMgr'[i] = toMgr[i + 1]
  BY <1>1, HeadTailProperties
<1>3. Len(toMgr) \in Nat \ {0} /\ m = toMgr[1]
  BY <1>1
<1> QED BY <1>2, <1>3

\* What is sent comes last, and the others stay where they are.
LEMMA SendShaped ==
  ASSUME NEW S, NEW s \in Seq(S), NEW e
  PROVE  /\ e \in S => Append(s, e) \in Seq(S)
         /\ Len(Append(s, e)) = Len(s) + 1 /\ Len(s) \in Nat
         /\ \A i \in 1..Len(s) : i \in 1..Len(Append(s, e)) /\ Append(s, e)[i] = s[i]
         /\ \A i \in 1..Len(Append(s, e)) :
              \/ i \in 1..Len(s) /\ Append(s, e)[i] = s[i]
              \/ i = Len(s) + 1 /\ Append(s, e)[i] = e
         /\ Append(s, e)[Len(s) + 1] = e
OBVIOUS

\* An addition keeps the shape of the queue.
LEMMA AddShaped ==
  ASSUME NEW S, queue \in Seq(S), NEW elem \in S, WaitqueueAdd(elem)
  PROVE  queue' \in Seq(S)
<1>1. queue' = Append(queue, elem) \/ queue' = queue
  BY DEF WaitqueueAdd
<1>2. Append(queue, elem) \in Seq(S)
  OBVIOUS
<1> QED BY <1>1, <1>2

\* A command of a peripheral has its shape.
LEMMA ShapesBegin ==
  ASSUME Shapes, NEW req \in Asked(nReq + 1), req.what # "resolve", Begin(req), UNCHANGED resetting
  PROVE  Shapes'
<1>1. app' = [pc |-> "add", req |-> req] /\ nReq' = nReq + 1
      /\ UNCHANGED <<queue, pend, toStack, toMgr, resetting>>
  BY DEF Begin, stackVars
<1> QED BY <1>1, AskedGrows DEF Shapes

\* The commands of a peripheral keep the shapes.
LEMMA ShapesApp ==
  ASSUME Peripheral, Typed, Shapes, AppStep
  PROVE  Shapes'
<1> USE DEF Peripheral
<1>1. nReq + 1 \in 1..nReq + 1
  BY DEF Shapes
<1>2. CASE ConfigCmd
  <2>1. Request("config", NoConn, NoConn) \in Asked(nReq + 1)
    BY <1>1 DEF Request, Asked
  <2> QED BY <1>2, <2>1, ShapesBegin DEF ConfigCmd, Request
<1>3. ASSUME NEW c \in Conns, RssiCmd(c)
      PROVE  Shapes'
  <2>1. Request("rssi", c, c) \in Asked(nReq + 1)
    BY <1>1 DEF Request, Asked
  <2> QED BY <1>3, <2>1, ShapesBegin DEF RssiCmd, Request
<1>4. ~MtuCmd /\ ~ResetCmd /\ \A c \in Conns : ~SecCmd(c)
  BY DEF MtuCmd, ResetCmd, SecCmd
<1>5. CASE AppAdd
  <2>1. app.req \in Asked(nReq) /\ WaitqueueAdd(app.req)
    BY <1>5 DEF AppAdd, Shapes
  <2>2. queue' \in Seq(Asked(nReq))
    BY <2>1, AddShaped DEF Shapes
  <2>3. app' = [app EXCEPT !.pc = "send"]
        /\ UNCHANGED <<resetting, toStack, toMgr, pend, nReq>>
    BY <1>5 DEF AppAdd, stackVars
  <2>4. /\ app' \in [pc : {"idle", "add", "send", "wait"}, req : Asked(nReq) \cup {NoReq}]
        /\ app'.req = app.req /\ app.req.what # "resolve"
    BY <1>5, <2>3 DEF AppAdd, Shapes
  <2> QED BY <2>1, <2>2, <2>3, <2>4 DEF Shapes
<1>6. CASE AppSend
  <2>1. app.req \in Asked(nReq) /\ toStack' = Append(toStack, app.req) /\ app.pc = "send"
    BY <1>6 DEF AppSend, Shapes
  <2>2. toStack' \in Seq(Asked(nReq))
    BY <2>1, SendShaped DEF Shapes
  <2>3. app' \in {[app EXCEPT !.pc = "wait"], Idle}
        /\ UNCHANGED <<resetting, queue, toMgr, pend, nReq>>
    BY <1>6 DEF AppSend, stackVars
  <2>4. /\ app' \in [pc : {"idle", "add", "send", "wait"}, req : Asked(nReq) \cup {NoReq}]
        /\ app'.pc # "idle" => app'.req = app.req
    BY <2>3 DEF Shapes, Idle
  <2> QED BY <2>1, <2>2, <2>3, <2>4 DEF Shapes
<1>7. CASE AppTake
  BY <1>7 DEF AppTake, Shapes, Idle, stackVars
<1> QED BY <1>2, <1>3, <1>4, <1>5, <1>6, <1>7 DEF AppStep

\* The handlers of the manager keep the shapes.
LEMMA ShapesMgr ==
  ASSUME Peripheral, Typed, Shapes, MgrStep
  PROVE  Shapes'
<1>1. CASE MgrConnected
  <2>1. PICK m : /\ Take(m) /\ m.what = "connected"
                 /\ \/ Ask(Request("resolve", NoConn, m.conn))
                    \/ UNCHANGED <<queue, full, toStack, nReq>>
    BY <1>1 DEF MgrConnected
  <2>2. m \in Told(nReq) /\ toMgr' \in Seq(Told(nReq)) /\ UNCHANGED <<resetting, app, pend>>
    BY <1>1, <2>1, TakeShaped DEF MgrConnected, stackVars
  <2>3. CASE Ask(Request("resolve", NoConn, m.conn))
    <3> DEFINE req == Request("resolve", NoConn, m.conn)
    <3>1. req \in Asked(nReq + 1)
      BY <2>1, <2>2 DEF Shapes, Asked, Told, Request
    <3> HIDE DEF req
    <3>2. WaitqueueAdd(req) /\ nReq' = nReq + 1 /\ toStack' = Append(toStack, req)
      BY <2>3 DEF Ask, req
    <3>3. /\ queue \in Seq(Asked(nReq + 1)) /\ toStack \in Seq(Asked(nReq + 1))
          /\ pend' \in Seq(Asked(nReq + 1)) /\ toMgr' \in Seq(Told(nReq + 1))
          /\ Asked(nReq) \subseteq Asked(nReq + 1)
      BY <2>2, AskedGrows DEF Shapes
    <3>4. queue' \in Seq(Asked(nReq + 1)) /\ toStack' \in Seq(Asked(nReq + 1))
      <4>1. queue' \in Seq(Asked(nReq + 1))
        BY <3>1, <3>2, <3>3, AddShaped
      <4>2. Append(toStack, req) \in Seq(Asked(nReq + 1))
        BY <3>1, <3>3
      <4> QED BY <3>2, <4>1, <4>2
    <3> QED BY <2>2, <3>2, <3>3, <3>4 DEF Shapes
  <2>4. CASE UNCHANGED <<queue, full, toStack, nReq>>
    BY <2>2, <2>4 DEF Shapes
  <2> QED BY <2>1, <2>3, <2>4
<1>2. CASE MgrDisconnected \/ MgrMatch
  <2>1. PICK m : Take(m)
    BY <1>2 DEF MgrDisconnected, MgrMatch
  <2>2. PICK removed : queue' = Without(queue, removed)
    BY <1>2 DEF MgrDisconnected, MgrMatch
  <2>3. toMgr' \in Seq(Told(nReq)) /\ queue' \in Seq(Asked(nReq))
    BY <2>1, <2>2, TakeShaped, WithoutKeeps DEF Shapes
  <2>4. UNCHANGED <<app, toStack, pend, nReq>>
    BY <1>2 DEF MgrDisconnected, MgrMatch, stackVars
  <2>5. ~resetting'
    <3>1. ~resetting
      BY DEF Shapes
    <3>2. \/ resetting' = resetting
          \/ \E msg \in Messages : resetting' = (resetting /\ msg.what # "reset")
      BY <1>2 DEF MgrDisconnected, MgrMatch
    <3> QED BY <3>1, <3>2, Zenon
  <2> QED BY <2>3, <2>4, <2>5 DEF Shapes
<1>3. CASE MgrSecurity
  <2>1. PICK m : Take(m) /\ m.what = "security"
    BY <1>3 DEF MgrSecurity
  <2> QED BY <2>1, TakeShaped DEF Told
<1>4. CASE MgrIgnore
  <2>1. PICK m : Take(m)
    BY <1>4 DEF MgrIgnore
  <2>2. toMgr' \in Seq(Told(nReq)) /\ UNCHANGED <<resetting, app, queue, toStack, pend, nReq>>
    BY <1>4, <2>1, TakeShaped DEF MgrIgnore, MgrSide, stackVars
  <2> QED BY <2>2 DEF Shapes
<1> QED BY <1>1, <1>2, <1>3, <1>4 DEF MgrStep

\* The steps of the stack keep the shapes.
LEMMA ShapesStack ==
  ASSUME Peripheral, Typed, Shapes, StackStep
  PROVE  Shapes'
<1>1. CASE StackTake
  <2>1. toStack # <<>> /\ toStack' = Tail(toStack) /\ toStack \in Seq(Asked(nReq))
    BY <1>1 DEF StackTake, Shapes
  <2>2. toStack' \in Seq(Asked(nReq)) /\ Head(toStack) \in Asked(nReq)
    BY <2>1, HeadTailProperties
  <2>3. Head(toStack).what # "reset"
    BY <2>2 DEF Asked
  <2>4. pend' = Append(pend, Head(toStack)) \/ UNCHANGED pend
    BY <1>1, <2>3 DEF StackTake, stackVars
  <2>5. pend' \in Seq(Asked(nReq))
    <3>1. pend \in Seq(Asked(nReq))
      BY DEF Shapes
    <3>2. Append(pend, Head(toStack)) \in Seq(Asked(nReq))
      BY <2>2, <3>1
    <3> QED BY <2>4, <3>1, <3>2
  <2>6. UNCHANGED <<resetting, app, queue, toMgr, nReq>>
    BY <1>1 DEF StackTake, MgrSide
  <2> QED BY <2>2, <2>5, <2>6 DEF Shapes
<1>2. CASE StackAnswer
  <2>1. PICK i \in 1..Len(pend) :
          /\ pend' = Without(pend, {i})
          /\ toMgr' = Append(toMgr, Message(pend[i].what,
                             IF ConnOf(pend[i]) = NoConn THEN 0 ELSE pend[i].conn, pend[i].id))
    BY <1>2 DEF StackAnswer
  <2>2. pend[i] \in Asked(nReq)
    BY DEF Shapes
  <2> DEFINE m == Message(pend[i].what, IF ConnOf(pend[i]) = NoConn THEN 0 ELSE pend[i].conn,
                          pend[i].id)
  <2>3. m \in Told(nReq)
    BY <2>2, ConnsAssumption DEF ConnOf, Asked, Told, Message
  <2>4. toMgr' \in Seq(Told(nReq)) /\ pend' \in Seq(Asked(nReq))
    <3> HIDE DEF m
    <3>1. toMgr' = Append(toMgr, m)
      BY <2>1 DEF m
    <3> QED BY <2>1, <2>3, <3>1, SendShaped, WithoutKeeps DEF Shapes
  <2>5. UNCHANGED <<resetting, app, queue, toStack, nReq>>
    BY <1>2 DEF StackAnswer, MgrSide
  <2> QED BY <2>4, <2>5 DEF Shapes
<1>3. ASSUME NEW c \in Conns, LinkUp(c) \/ LinkDown(c)
      PROVE  Shapes'
  <2>1. PICK m \in Told(nReq) : toMgr' = Append(toMgr, m)
    <3>1. Message("connected", c, 0) \in Told(nReq) /\ Message("disconnected", c, 0) \in Told(nReq)
      BY DEF Told, Message
    <3> QED BY <1>3, <3>1 DEF LinkUp, LinkDown
  <2>2. pend' \in Seq(Asked(nReq))
    BY <1>3, WithoutKeeps DEF LinkUp, LinkDown, Shapes
  <2>3. toMgr' \in Seq(Told(nReq))
    BY <2>1, SendShaped DEF Shapes
  <2>4. UNCHANGED <<resetting, app, queue, toStack, nReq>>
    BY <1>3 DEF LinkUp, LinkDown, MgrSide
  <2> QED BY <2>2, <2>3, <2>4 DEF Shapes
<1>4. \A c \in Conns : ~SecurityRequest(c)
  BY DEF SecurityRequest, Peripheral
<1> QED BY <1>1, <1>2, <1>3, <1>4 DEF StackStep

\* A peripheral asks for its configuration, resolutions and signal strengths only.
LEMMA ShapesNext == Peripheral /\ Typed /\ Shapes /\ [Next]_vars => Shapes'
<1>1. ASSUME Shapes, UNCHANGED vars PROVE Shapes'
  BY <1>1 DEF vars, MgrSide, stackVars, Shapes
<1> QED BY <1>1, ShapesApp, ShapesMgr, ShapesStack DEF Next

-----------------------------------------------------------------------------
\* What the manager is still to be told of links: it ends with a disconnection, and no
\* link comes up twice without one; what it knows is true or about to be corrected.
Tells(what, c) == \E i \in 1..Len(toMgr) : toMgr[i].what = what /\ toMgr[i].conn = c
LinkNews == {"connected", "disconnected"}

LastNews == \A i, j \in 1..Len(toMgr) :
  toMgr[i].what = "disconnected" /\ toMgr[j].what \in LinkNews /\ toMgr[j].conn = toMgr[i].conn
    => j <= i
OnceUp == \A i, j \in 1..Len(toMgr) :
  toMgr[i].what = "connected" /\ toMgr[j].what = "connected" /\ toMgr[j].conn = toMgr[i].conn
    => i = j
DownIsDown == \A i \in 1..Len(toMgr) : toMgr[i].what = "disconnected" => toMgr[i].conn \notin link
UpIsUp == \A c \in Conns :
  c \in devs \/ Tells("connected", c) => c \in link \/ Tells("disconnected", c)
Links == LastNews /\ OnceUp /\ DownIsDown /\ UpIsUp

\* News of a link is told by its connection only.
LEMMA NewsIs ==
  ASSUME Shapes, NEW i \in 1..Len(toMgr), toMgr[i].what \in LinkNews
  PROVE  toMgr[i] = Message(toMgr[i].what, toMgr[i].conn, 0)
<1>1. toMgr[i] \in Told(nReq)
  BY DEF Shapes
<1>2. toMgr[i] \in [what : {"connected", "disconnected"}, conn : Conns, id : {0}]
  BY <1>1 DEF Told, LinkNews
<1> QED BY <1>2 DEF Message

\* The news of a link that is taken is reflected in the storage.
LEMMA LinksTaken ==
  ASSUME Shapes, Links, NEW m, Take(m), UNCHANGED link,
         \/ m.what = "connected" /\ devs' = devs \cup {m.conn}
         \/ m.what = "disconnected" /\ devs' = devs \ {m.conn}
         \/ m.what \notin LinkNews /\ devs' = devs
         \/ m.what = "disconnected" /\ m.conn \notin devs /\ devs' = devs
  PROVE  Links'
<1>1. /\ m = toMgr[1] /\ Len(toMgr) \in Nat \ {0} /\ Len(toMgr') = Len(toMgr) - 1
      /\ \A i \in 1..Len(toMgr') : i + 1 \in 1..Len(toMgr) /\ toMgr'[i] = toMgr[i + 1]
      /\ \A i \in 1..Len(toMgr) : i > 1 => i - 1 \in 1..Len(toMgr') /\ toMgr'[i - 1] = toMgr[i]
  BY TakeShaped
<1>2. LastNews'
  BY <1>1 DEF Links, LastNews
<1>3. OnceUp'
  BY <1>1 DEF Links, OnceUp
<1>4. DownIsDown'
  BY <1>1 DEF Links, DownIsDown
<1>5. UpIsUp'
  <2> SUFFICES ASSUME NEW c \in Conns, c \in devs' \/ Tells("connected", c)'
               PROVE  c \in link \/ Tells("disconnected", c)'
    BY DEF UpIsUp
  <2>1. Tells("connected", c)' => Tells("connected", c)
    BY <1>1 DEF Tells
  <2>2. Tells("disconnected", c) =>
          Tells("disconnected", c)' \/ (m.what = "disconnected" /\ m.conn = c)
    BY <1>1 DEF Tells
  <2>3. m.what = "connected" => Tells("connected", m.conn)
    BY <1>1 DEF Tells
  <2>4. ~(m.what = "disconnected" /\ m.conn = c)
    <3>1. SUFFICES ASSUME m.what = "disconnected", m.conn = c
                   PROVE  FALSE
      OBVIOUS
    <3>2. ~Tells("connected", c)'
      BY <1>1, <3>1 DEF Tells, Links, LastNews, LinkNews
    <3>3. c \notin devs'
      BY <3>1 DEF LinkNews
    <3> QED BY <3>2, <3>3
  <2>5. c \in devs \/ Tells("connected", c)
    BY <2>1, <2>3
  <2> QED BY <2>2, <2>4, <2>5 DEF Links, UpIsUp
<1> QED BY <1>2, <1>3, <1>4, <1>5 DEF Links

\* Every step keeps what the storage, the messages and the links have in common.
LEMMA LinksNext == Peripheral /\ Typed /\ Shapes /\ Links /\ [Next]_vars => Links'
<1> SUFFICES ASSUME Peripheral, Typed, Shapes, Links, [Next]_vars
             PROVE  Links'
  OBVIOUS
<1>1. ASSUME UNCHANGED <<toMgr, link, devs>>
      PROVE  Links'
  BY <1>1 DEF Links, LastNews, OnceUp, DownIsDown, UpIsUp, Tells
<1>2. ASSUME AppStep
      PROVE  Links'
  BY <1>1, <1>2 DEF AppStep, ConfigCmd, MtuCmd, ResetCmd, RssiCmd, SecCmd, Begin, AppAdd, AppSend,
     AppTake, stackVars
<1>3. CASE MgrConnected
  <2>1. PICK m : Take(m) /\ m.what = "connected" /\ devs' = devs \cup {m.conn} /\ UNCHANGED link
    BY <1>3 DEF MgrConnected, stackVars
  <2> QED BY <2>1, LinksTaken
<1>4. CASE MgrDisconnected
  <2>1. PICK m : Take(m) /\ m.what = "disconnected" /\ devs' = devs \ {m.conn} /\ UNCHANGED link
    BY <1>4 DEF MgrDisconnected, stackVars
  <2> QED BY <2>1, LinksTaken
<1>5. CASE MgrSecurity
  <2>1. PICK m : Take(m) /\ m.what = "security"
    BY <1>5 DEF MgrSecurity
  <2> QED BY <2>1, TakeShaped DEF Told
<1>6. CASE MgrMatch
  <2>1. PICK m : /\ Take(m) /\ UNCHANGED link /\ \E i \in FirstMatch(m) : TRUE
                 /\ devs' = IF m.what = "reset" THEN {} ELSE devs
    BY <1>6 DEF MgrMatch, stackVars
  <2>2. m \in Told(nReq)
    BY <2>1, TakeShaped
  <2>3. \E i \in 1..Len(queue) : queue[i].what = m.what
    BY <2>1 DEF FirstMatch, Matches
  <2>4. m.what \notin LinkNews /\ devs' = devs
    BY <2>1, <2>2, <2>3 DEF Told, Shapes, Asked, LinkNews
  <2> QED BY <2>1, <2>4, LinksTaken
<1>7. CASE MgrIgnore
  <2>1. PICK m : /\ Take(m) /\ UNCHANGED <<link, devs>>
                 /\ \/ Dropped(m)
                    \/ m.what = "disconnected" /\ m.conn \notin devs
                    \/ m.what = "security"
                    \/ m.what \notin {"connected", "disconnected", "security"}
    BY <1>7 DEF MgrIgnore, stackVars, MgrSide
  <2>2. ~Dropped(m)
    BY DEF Shapes, Dropped
  <2> QED BY <2>1, <2>2, LinksTaken DEF LinkNews
<1>8. CASE StackTake
  <2>1. toStack # <<>> /\ toStack \in Seq(Asked(nReq))
    BY <1>8 DEF StackTake, Shapes
  <2>2. Head(toStack) \in Asked(nReq)
    BY <2>1
  <2>3. UNCHANGED <<toMgr, link, devs>>
    BY <1>8, <2>2 DEF StackTake, MgrSide, stackVars, Asked
  <2> QED BY <1>1, <2>3
<1>9. ASSUME NEW m, toMgr' = Append(toMgr, m), m.what \notin LinkNews, UNCHANGED <<link, devs>>
      PROVE  Links'
  <2>1. /\ Len(toMgr') = Len(toMgr) + 1 /\ Len(toMgr) \in Nat
        /\ \A i \in 1..Len(toMgr) : i \in 1..Len(toMgr') /\ toMgr'[i] = toMgr[i]
        /\ \A i \in 1..Len(toMgr') : \/ i \in 1..Len(toMgr) /\ toMgr'[i] = toMgr[i]
                                     \/ toMgr'[i] = m
    BY <1>9, SendShaped DEF Shapes
  <2>2. LastNews' /\ OnceUp' /\ DownIsDown'
    BY <1>9, <2>1 DEF Links, LastNews, OnceUp, DownIsDown, LinkNews
  <2>3. \A c \in Conns : /\ Tells("connected", c)' => Tells("connected", c)
                         /\ Tells("disconnected", c) => Tells("disconnected", c)'
    BY <1>9, <2>1 DEF Tells, LinkNews
  <2> QED BY <1>9, <2>2, <2>3 DEF Links, UpIsUp
<1>10. CASE StackAnswer
  <2>0. PICK i \in 1..Len(pend) :
          \E m : toMgr' = Append(toMgr, m) /\ m.what = pend[i].what /\ UNCHANGED <<link, devs>>
    BY <1>10 DEF StackAnswer, Message, MgrSide
  <2>1. PICK m : toMgr' = Append(toMgr, m) /\ m.what = pend[i].what /\ UNCHANGED <<link, devs>>
    BY <2>0
  <2>2. pend[i].what \notin LinkNews
    <3>1. pend[i] \in Asked(nReq)
      BY DEF Shapes
    <3> QED BY <3>1 DEF Asked, LinkNews
  <2> QED BY <1>9, <2>1, <2>2
<1>11. ASSUME NEW c \in Conns, LinkUp(c)
       PROVE  Links'
  <2>1. PICK m : m = Message("connected", c, 0)
    OBVIOUS
  <2>2. /\ c \notin link /\ link' = link \cup {c} /\ devs' = devs /\ toMgr' = Append(toMgr, m)
        /\ m.what = "connected" /\ m.conn = c
    BY <1>11, <2>1 DEF LinkUp, IndexFree, MgrSide, Message
  <2>3. \A i \in 1..Len(toMgr) : ~(toMgr[i].what = "disconnected" /\ toMgr[i].conn = c)
    BY <1>11, NewsIs DEF LinkUp, IndexFree, LinkNews
  <2>4. ~Tells("connected", c)
    BY <2>2, <2>3 DEF Links, UpIsUp, Tells
  <2>5. /\ Len(toMgr') = Len(toMgr) + 1 /\ Len(toMgr) \in Nat
        /\ \A i \in 1..Len(toMgr) : i \in 1..Len(toMgr') /\ toMgr'[i] = toMgr[i]
        /\ \A i \in 1..Len(toMgr') : \/ i \in 1..Len(toMgr) /\ toMgr'[i] = toMgr[i]
                                     \/ i = Len(toMgr) + 1 /\ toMgr'[i] = m
    BY <2>2, SendShaped DEF Shapes
  <2>6. LastNews'
    BY <2>2, <2>3, <2>5 DEF Links, LastNews, LinkNews
  <2>7. OnceUp'
    BY <2>2, <2>4, <2>5 DEF Links, OnceUp, Tells
  <2>8. DownIsDown'
    BY <2>2, <2>3, <2>5 DEF Links, DownIsDown
  <2>9. \A d \in Conns : /\ Tells("connected", d)' => Tells("connected", d) \/ d = c
                         /\ Tells("disconnected", d) => Tells("disconnected", d)'
    BY <2>2, <2>5 DEF Tells
  <2>10. UpIsUp'
    BY <2>2, <2>9 DEF Links, UpIsUp
  <2> QED BY <2>6, <2>7, <2>8, <2>10 DEF Links
<1>12. ASSUME NEW c \in Conns, LinkDown(c)
       PROVE  Links'
  <2>1. PICK m : m = Message("disconnected", c, 0)
    OBVIOUS
  <2>2. /\ c \in link /\ link' = link \ {c} /\ devs' = devs /\ toMgr' = Append(toMgr, m)
        /\ m.what = "disconnected" /\ m.conn = c
    BY <1>12, <2>1 DEF LinkDown, MgrSide, Message
  <2>3. /\ Len(toMgr') = Len(toMgr) + 1 /\ Len(toMgr) \in Nat
        /\ \A i \in 1..Len(toMgr) : i \in 1..Len(toMgr') /\ toMgr'[i] = toMgr[i]
        /\ \A i \in 1..Len(toMgr') : \/ i \in 1..Len(toMgr) /\ toMgr'[i] = toMgr[i]
                                     \/ i = Len(toMgr) + 1 /\ toMgr'[i] = m
        /\ toMgr'[Len(toMgr) + 1] = m
    BY <2>2, SendShaped DEF Shapes
  <2>4. \A i \in 1..Len(toMgr) : ~(toMgr[i].what = "disconnected" /\ toMgr[i].conn = c)
    BY <2>2 DEF Links, DownIsDown
  <2>5. LastNews'
    BY <2>2, <2>3, <2>4 DEF Links, LastNews, LinkNews
  <2>6. OnceUp' /\ DownIsDown'
    BY <2>2, <2>3 DEF Links, OnceUp, DownIsDown
  <2>7. \A d \in Conns : /\ Tells("connected", d)' => Tells("connected", d)
                         /\ Tells("disconnected", d) => Tells("disconnected", d)'
    BY <2>2, <2>3 DEF Tells
  <2>8. Tells("disconnected", c)'
    BY <2>2, <2>3 DEF Tells
  <2>9. UpIsUp'
    BY <2>2, <2>7, <2>8 DEF Links, UpIsUp
  <2> QED BY <2>5, <2>6, <2>9 DEF Links
<1>13. \A c \in Conns : ~SecurityRequest(c)
  BY DEF SecurityRequest, Peripheral
<1>14. CASE UNCHANGED vars
  BY <1>1, <1>14 DEF vars, MgrSide, stackVars
<1> QED BY <1>2, <1>3, <1>4, <1>5, <1>6, <1>7, <1>8, <1>10, <1>11, <1>12, <1>13, <1>14
        DEF Next, MgrStep, StackStep

(* The walk of a flush misses nothing as long as no two neighbours are to go.  *)
LEMMA RemovedExactly ==
  ASSUME NEW S, NEW q \in Seq(S), NEW c,
         \A i \in 2..Len(q) : ~(q[i - 1].conn = c /\ q[i].conn = c)
  PROVE  Removed(q, c) = {i \in 1..Len(q) : q[i].conn = c}
<1> DEFINE Walk(f) == f = [i \in 0..Len(q) |-> i > 0 /\ q[i].conn = c /\ ~f[i - 1]]
           g == [i \in 0..Len(q) |-> i > 0 /\ q[i].conn = c]
           removed == CHOOSE f : Walk(f)
<1>1. Len(q) \in Nat
  OBVIOUS
<1>2. Walk(g)
  <2>1. ASSUME NEW i \in 0..Len(q)
        PROVE  g[i] = (i > 0 /\ q[i].conn = c /\ ~g[i - 1])
    <3>1. CASE i = 0
      BY <3>1
    <3>2. CASE i = 1
      <4>1. ~g[i - 1]
        <5>1. 0 \in 0..Len(q) /\ i - 1 = 0 /\ ~(0 > 0)
          BY <1>1, <3>2
        <5>2. g[0] = (0 > 0 /\ q[0].conn = c)
          BY <5>1, Zenon
        <5> HIDE DEF g
        <5> QED BY <5>1, <5>2
      <4>2. g[i] = (i > 0 /\ q[i].conn = c)
        OBVIOUS
      <4> HIDE DEF g
      <4> QED BY <4>1, <4>2, Zenon
    <3>3. CASE i > 1
      <4>1. i \in 2..Len(q) /\ i - 1 \in 0..Len(q) /\ i - 1 > 0
        BY <1>1, <3>3
      <4>2. ~(q[i - 1].conn = c /\ q[i].conn = c)
        BY <4>1
      <4> QED BY <4>1, <4>2, <3>3
    <3> QED BY <1>1, <3>1, <3>2, <3>3
  <2> QED BY <2>1
<1>3. Walk(removed)
  <2> HIDE DEF g, Walk
  <2> QED BY <1>2
<1>4. Removed(q, c) = {i \in 1..Len(q) : removed[i]}
  BY DEF Removed
<1> HIDE DEF removed
<1>5. ASSUME NEW i \in 1..Len(q)
      PROVE  removed[i] <=> q[i].conn = c
  <2>1. removed[i] <=> q[i].conn = c /\ ~removed[i - 1]
    BY <1>1, <1>3
  <2>2. CASE i = 1
    <3>1. ~removed[0]
      <4>1. 0 \in 0..Len(q) /\ ~(0 > 0)
        BY <1>1
      <4>2. removed[0] = (0 > 0 /\ q[0].conn = c /\ ~removed[0 - 1])
        BY <1>3, <4>1, Zenon
      <4> QED BY <4>1, <4>2
    <3>2. i - 1 = 0
      BY <2>2
    <3> QED BY <2>1, <3>1, <3>2
  <2>3. CASE i > 1
    <3>1. removed[i - 1] => q[i - 1].conn = c
      <4>1. i - 1 \in 0..Len(q)
        BY <1>1, <2>3
      <4>2. removed[i - 1] = (i - 1 > 0 /\ q[i - 1].conn = c /\ ~removed[i - 1 - 1])
        BY <1>3, <4>1, Zenon
      <4> QED BY <4>2, Zenon
    <3>2. i \in 2..Len(q)
      BY <1>1, <2>3
    <3> QED BY <2>1, <3>1, <3>2
  <2> QED BY <1>1, <2>2, <2>3
<1> QED BY <1>4, <1>5

-----------------------------------------------------------------------------
\* The request of the application. Its element is the only one of its kind in the queue.
\* Outside the queue it is in one place at most, and the answer to a signal strength comes
\* before the end of its link. A request on a link that was lost before the request was sent
\* (Late) may still go to the stack, which drops it.
AppPart == {"config", "rssi"}
Blocked == app.pc = "wait" /\ rsp = NoRsp
Dead(c) == c \notin link /\ c \notin devs /\ ~Tells("connected", c)
Late(r) == r.what = "rssi" /\ Dead(r.conn)

InQueue == \A i \in 1..Len(queue) : queue[i].what # "resolve" =>
             queue[i] = app.req /\ app.pc \in {"send", "wait"} /\ rsp = NoRsp
OneElem == \A i, j \in 1..Len(queue) :
             queue[i].what # "resolve" /\ queue[j].what # "resolve" => i = j
InPend  == \A i \in 1..Len(pend) : pend[i].what # "resolve" =>
             pend[i] = app.req /\ Blocked /\ (pend[i].what = "rssi" => pend[i].conn \in link)
OnePend == \A i, j \in 1..Len(pend) :
             pend[i].what # "resolve" /\ pend[j].what # "resolve" => i = j
InStack == \A i \in 1..Len(toStack) : toStack[i].what # "resolve" =>
             Late(toStack[i]) \/ (toStack[i] = app.req /\ Blocked)
OneSent == \A i, j \in 1..Len(toStack) :
             (/\ toStack[i].what # "resolve" /\ ~Late(toStack[i])
              /\ toStack[j].what # "resolve" /\ ~Late(toStack[j])) => i = j
InMgr   == \A i \in 1..Len(toMgr) : toMgr[i].what \in AppPart =>
             /\ Blocked /\ toMgr[i].what = app.req.what /\ toMgr[i].id = app.req.id
             /\ toMgr[i].what = "rssi" =>
                  /\ toMgr[i].conn = app.req.conn
                  /\ \A j \in 1..i - 1 : ~(/\ toMgr[j].what = "disconnected"
                                           /\ toMgr[j].conn = toMgr[i].conn)
OneTold == \A i, j \in 1..Len(toMgr) :
             toMgr[i].what \in AppPart /\ toMgr[j].what \in AppPart => i = j

Sent    == \E i \in 1..Len(toStack) : toStack[i].what # "resolve" /\ ~Late(toStack[i])
Pending == \E i \in 1..Len(pend) : pend[i].what # "resolve"
Answered == \E i \in 1..Len(toMgr) : toMgr[i].what \in AppPart
OnePlace == ~(Sent /\ Pending) /\ ~(Sent /\ Answered) /\ ~(Pending /\ Answered)

NoAnswer  == app.pc \in {"idle", "add"} => rsp = NoRsp
EarlyLoss == app.pc = "send" /\ rsp # NoRsp => Late(app.req)

OnPath  == InPend /\ OnePend /\ InStack /\ OneSent /\ InMgr /\ OneTold /\ OnePlace
Answers == InQueue /\ OneElem /\ OnPath /\ NoAnswer /\ EarlyLoss

\* With no request of the application under way nothing has to be shown of its path.
LEMMA PathEmpty ==
  ASSUME ~Sent', ~Pending', ~Answered'
  PROVE  OnPath'
<1>1. InPend' /\ OnePend' /\ InMgr' /\ OneTold' /\ OnePlace'
  BY DEF Pending, Answered, InPend, OnePend, InMgr, OneTold, OnePlace
<1>2. InStack' /\ OneSent'
  BY DEF Sent, InStack, OneSent
<1> QED BY <1>1, <1>2 DEF OnPath

\* A command begins when nothing of the last one is left.
LEMMA AnswersBegin ==
  ASSUME Answers, NEW req, Begin(req)
  PROVE  Answers'
<1>1. /\ app.pc = "idle" /\ app'.pc = "add"
      /\ UNCHANGED <<queue, devs, rsp, toStack, toMgr, link, pend>>
  BY DEF Begin, stackVars
<1>2. /\ rsp = NoRsp /\ ~Blocked /\ ~Pending /\ ~Answered
      /\ \A i \in 1..Len(queue) : queue[i].what = "resolve"
      /\ \A i \in 1..Len(toStack) : toStack[i].what # "resolve" => Late(toStack[i])
  BY <1>1 DEF Answers, OnPath, NoAnswer, Blocked, Pending, Answered, InPend, InMgr, InQueue, InStack
<1>3. \A r : Late(r)' <=> Late(r)
  BY <1>1 DEF Late, Dead, Tells
<1>4. ~Sent /\ ~Sent' /\ ~Pending' /\ ~Answered'
  BY <1>1, <1>2, <1>3 DEF Sent, Pending, Answered
<1>5. InQueue' /\ OneElem' /\ NoAnswer' /\ EarlyLoss'
  BY <1>1, <1>2 DEF InQueue, OneElem, NoAnswer, EarlyLoss
<1> QED BY <1>4, <1>5, PathEmpty DEF Answers

\* The element of a command is the only one of the application.
LEMMA AnswersAdd ==
  ASSUME Typed, Shapes, Answers, AppAdd
  PROVE  Answers'
<1>1. /\ app.pc = "add" /\ app' = [app EXCEPT !.pc = "send"] /\ WaitqueueAdd(app.req)
      /\ UNCHANGED <<devs, rsp, toStack, toMgr, link, pend>>
  BY DEF AppAdd, stackVars
<1>2. app'.pc = "send" /\ app'.req = app.req /\ app.req \in Requests /\ rsp = NoRsp
  BY <1>1 DEF Typed, Answers, NoAnswer
<1>3. /\ ~Blocked /\ ~Pending /\ ~Answered
      /\ \A i \in 1..Len(queue) : queue[i].what = "resolve"
      /\ \A i \in 1..Len(toStack) : toStack[i].what # "resolve" => Late(toStack[i])
  BY <1>1 DEF Answers, OnPath, Blocked, Pending, Answered, InPend, InMgr, InQueue, InStack
<1>4. \A r : Late(r)' <=> Late(r)
  BY <1>1 DEF Late, Dead, Tells
<1>5. ~Sent' /\ ~Pending' /\ ~Answered'
  BY <1>1, <1>3, <1>4 DEF Sent, Pending, Answered
<1>8. queue' = queue \/ queue' = Append(queue, app.req)
  BY <1>1 DEF WaitqueueAdd
<1>9. /\ \A i \in 1..Len(queue') : \/ i \in 1..Len(queue) /\ queue'[i] = queue[i]
                                   \/ i = Len(queue) + 1 /\ queue'[i] = app.req
  <2>1. queue \in Seq(Asked(nReq))
    BY DEF Shapes
  <2>2. CASE queue' = Append(queue, app.req)
    BY <2>1, <2>2, SendShaped
  <2> QED BY <1>8, <2>2
<1>10. InQueue' /\ OneElem'
  BY <1>1, <1>2, <1>3, <1>9 DEF InQueue, OneElem
<1>11. NoAnswer' /\ EarlyLoss'
  BY <1>1, <1>2 DEF NoAnswer, EarlyLoss
<1> QED BY <1>5, <1>10, <1>11, PathEmpty DEF Answers

\* The request of a command is the only one of the application on its way.
LEMMA AnswersSend ==
  ASSUME Typed, Shapes, Answers, AppSend
  PROVE  Answers'
<1>1. /\ app.pc = "send" /\ toStack' = Append(toStack, app.req)
      /\ UNCHANGED <<queue, devs, rsp, toMgr, link, pend>>
  BY DEF AppSend, stackVars
<1>2. app.req \in Asked(nReq) /\ app.req.what \in Answering /\ app.req.what # "resolve"
  BY <1>1 DEF Shapes, Asked, Answering
<1>3. app' = [app EXCEPT !.pc = "wait"]
  BY <1>2 DEF AppSend
<1>4. app'.pc = "wait" /\ app'.req = app.req
  BY <1>3 DEF Typed
<1>5. /\ ~Blocked /\ ~Pending /\ ~Answered
      /\ \A i \in 1..Len(toStack) : toStack[i].what # "resolve" => Late(toStack[i])
  BY <1>1 DEF Answers, OnPath, Blocked, Pending, Answered, InPend, InMgr, InStack
<1>6. \A r : Late(r)' <=> Late(r)
  BY <1>1 DEF Late, Dead, Tells
<1>7. ~Pending' /\ ~Answered'
  BY <1>1, <1>5 DEF Pending, Answered
<1>8. InPend' /\ OnePend' /\ InMgr' /\ OneTold' /\ OnePlace'
  BY <1>7 DEF Pending, Answered, InPend, OnePend, InMgr, OneTold, OnePlace
<1>9. InQueue' /\ OneElem'
  BY <1>1, <1>4 DEF Answers, InQueue, OneElem
<1>10. \A i \in 1..Len(toStack') : \/ i \in 1..Len(toStack) /\ toStack'[i] = toStack[i]
                                   \/ i = Len(toStack) + 1 /\ toStack'[i] = app.req
  BY <1>1, SendShaped DEF Shapes
<1>11. Blocked' \/ Late(app.req)
  BY <1>1, <1>4 DEF Blocked, Answers, EarlyLoss
<1>12. InStack'
  BY <1>4, <1>5, <1>6, <1>10, <1>11 DEF InStack
<1>13. OneSent'
  BY <1>5, <1>6, <1>10 DEF OneSent
<1>14. NoAnswer' /\ EarlyLoss'
  BY <1>4 DEF NoAnswer, EarlyLoss
<1> QED BY <1>8, <1>9, <1>12, <1>13, <1>14 DEF Answers, OnPath

\* A response is taken when nothing of its command is left.
LEMMA AnswersTake ==
  ASSUME Answers, AppTake
  PROVE  Answers'
<1>1. /\ app.pc = "wait" /\ rsp # NoRsp /\ rsp' = NoRsp /\ app'.pc = "idle"
      /\ UNCHANGED <<queue, devs, toStack, toMgr, link, pend>>
  BY DEF AppTake, stackVars, Idle
<1>2. /\ ~Blocked /\ ~Pending /\ ~Answered
      /\ \A i \in 1..Len(queue) : queue[i].what = "resolve"
      /\ \A i \in 1..Len(toStack) : toStack[i].what # "resolve" => Late(toStack[i])
  BY <1>1 DEF Answers, OnPath, Blocked, Pending, Answered, InPend, InMgr, InQueue, InStack
<1>3. \A r : Late(r)' <=> Late(r)
  BY <1>1 DEF Late, Dead, Tells
<1>4. ~Sent' /\ ~Pending' /\ ~Answered'
  BY <1>1, <1>2, <1>3 DEF Sent, Pending, Answered
<1>5. InQueue' /\ OneElem' /\ NoAnswer' /\ EarlyLoss'
  BY <1>1, <1>2 DEF InQueue, OneElem, NoAnswer, EarlyLoss
<1>6. InPend' /\ OnePend' /\ InMgr' /\ OneTold' /\ OnePlace'
  BY <1>4 DEF Pending, Answered, InPend, OnePend, InMgr, OneTold, OnePlace
<1>7. InStack' /\ OneSent'
  BY <1>4 DEF Sent, InStack, OneSent
<1> QED BY <1>5, <1>6, <1>7 DEF Answers, OnPath

\* Taking a message from the front keeps the path of a request.
LEMMA PathTaken ==
  ASSUME Shapes, Answers, NEW m, Take(m), UNCHANGED <<app, pend, link>>, Blocked => Blocked',
         \A r : Late(r) => Late(r)',
         \A i \in 1..Len(toStack') : \/ i \in 1..Len(toStack) /\ toStack'[i] = toStack[i]
                                     \/ toStack'[i].what = "resolve"
  PROVE  OnPath'
<1>1. /\ m = toMgr[1] /\ Len(toMgr) \in Nat \ {0} /\ Len(toMgr') = Len(toMgr) - 1
      /\ \A i \in 1..Len(toMgr') : i + 1 \in 1..Len(toMgr) /\ toMgr'[i] = toMgr[i + 1]
  BY TakeShaped
<1>2. InPend' /\ OnePend'
  BY DEF Answers, OnPath, InPend, OnePend
<1>3. InStack'
  BY DEF Answers, OnPath, InStack
<1>4. OneSent'
  BY DEF Answers, OnPath, OneSent
<1>5. InMgr'
  <2> SUFFICES ASSUME NEW i \in 1..Len(toMgr'), toMgr'[i].what \in AppPart
               PROVE  /\ Blocked' /\ toMgr'[i].what = app'.req.what /\ toMgr'[i].id = app'.req.id
                      /\ toMgr'[i].what = "rssi" =>
                           /\ toMgr'[i].conn = app'.req.conn
                           /\ \A j \in 1..i - 1 : ~(/\ toMgr'[j].what = "disconnected"
                                                    /\ toMgr'[j].conn = toMgr'[i].conn)
    BY DEF InMgr
  <2>1. i + 1 \in 1..Len(toMgr) /\ toMgr'[i] = toMgr[i + 1]
    BY <1>1
  <2>2. ASSUME NEW j \in 1..i - 1
        PROVE  j + 1 \in 1..(i + 1) - 1 /\ toMgr'[j] = toMgr[j + 1]
    <3>1. j \in 1..Len(toMgr')
      BY <1>1
    <3> QED BY <1>1, <3>1
  <2> QED BY <2>1, <2>2 DEF Answers, OnPath, InMgr
<1>6. OneTold'
  <2> SUFFICES ASSUME NEW i \in 1..Len(toMgr'), NEW j \in 1..Len(toMgr'),
                      toMgr'[i].what \in AppPart, toMgr'[j].what \in AppPart
               PROVE  i = j
    BY DEF OneTold
  <2>1. i + 1 = j + 1
    BY <1>1 DEF Answers, OnPath, OneTold
  <2> QED BY <2>1
<1>7. (Sent' => Sent) /\ (Pending' => Pending) /\ (Answered' => Answered)
  BY <1>1 DEF Sent, Pending, Answered
<1>8. OnePlace'
  BY <1>7 DEF Answers, OnPath, OnePlace
<1> QED BY <1>2, <1>3, <1>4, <1>5, <1>6, <1>8 DEF OnPath

\* A message that is taken leaves dead connections dead.
LEMMA DeadTaken ==
  ASSUME Shapes, NEW m, Take(m), UNCHANGED link,
         \/ devs' \subseteq devs
         \/ m.what = "connected" /\ devs' = devs \cup {m.conn}
  PROVE  \A r : Late(r) => Late(r)'
<1>1. /\ m = toMgr[1] /\ Len(toMgr) \in Nat \ {0}
      /\ \A i \in 1..Len(toMgr') : i + 1 \in 1..Len(toMgr) /\ toMgr'[i] = toMgr[i + 1]
  BY TakeShaped
<1>2. ASSUME NEW c, Dead(c)
      PROVE  Dead(c)'
  <2>1. ~Tells("connected", c)'
    BY <1>1, <1>2 DEF Dead, Tells
  <2>2. m.what = "connected" => m.conn # c
    BY <1>1, <1>2 DEF Dead, Tells
  <2> QED BY <1>2, <2>1, <2>2 DEF Dead
<1> QED BY <1>2 DEF Late

\* A new connection leaves the path of a request alone.
LEMMA AnswersConnected ==
  ASSUME Typed, Shapes, Answers, MgrConnected
  PROVE  Answers'
<1>1. PICK m : /\ Take(m) /\ m.what = "connected" /\ devs' = devs \cup {m.conn}
               /\ \/ Ask(Request("resolve", NoConn, m.conn))
                  \/ UNCHANGED <<queue, full, toStack, nReq>>
               /\ UNCHANGED <<app, rsp, link, pend>>
  BY DEF MgrConnected, stackVars
<1>2. \A r : Late(r) => Late(r)'
  BY <1>1, DeadTaken
<1>3. PICK e : /\ e.what = "resolve"
               /\ queue' \in {queue, Append(queue, e)} /\ toStack' \in {toStack, Append(toStack, e)}
  BY <1>1 DEF Ask, WaitqueueAdd, Request
<1>4. /\ \A i \in 1..Len(queue') : \/ i \in 1..Len(queue) /\ queue'[i] = queue[i]
                                   \/ queue'[i].what = "resolve"
      /\ \A i \in 1..Len(toStack') : \/ i \in 1..Len(toStack) /\ toStack'[i] = toStack[i]
                                     \/ toStack'[i].what = "resolve"
  <2>1. queue \in Seq(Asked(nReq)) /\ toStack \in Seq(Asked(nReq))
    BY DEF Shapes
  <2>2. ASSUME queue' = Append(queue, e)
        PROVE  \A i \in 1..Len(queue') : \/ i \in 1..Len(queue) /\ queue'[i] = queue[i]
                                         \/ queue'[i].what = "resolve"
    BY <1>3, <2>1, <2>2, SendShaped
  <2>3. ASSUME toStack' = Append(toStack, e)
        PROVE  \A i \in 1..Len(toStack') : \/ i \in 1..Len(toStack) /\ toStack'[i] = toStack[i]
                                           \/ toStack'[i].what = "resolve"
    BY <1>3, <2>1, <2>3, SendShaped
  <2> QED BY <1>3, <2>2, <2>3
<1>5. Blocked => Blocked'
  BY <1>1 DEF Blocked
<1>6. OnPath'
  BY <1>1, <1>2, <1>4, <1>5, PathTaken
<1>7. InQueue' /\ OneElem'
  BY <1>1, <1>4 DEF Answers, InQueue, OneElem
<1>8. NoAnswer' /\ EarlyLoss'
  BY <1>1, <1>2 DEF Answers, NoAnswer, EarlyLoss
<1> QED BY <1>6, <1>7, <1>8 DEF Answers

\* f tells where the elements of w were in q: all that were not removed, in the same order.
Keeps(f, q, removed, w) ==
  /\ \A k \in 1..Len(w) : f[k] \in 1..Len(q) /\ f[k] \notin removed /\ w[k] = q[f[k]]
  /\ \A k, l \in 1..Len(w) : k < l => f[k] < f[l]
  /\ \A k, l \in 1..Len(w) : f[k] = f[l] => k = l
  /\ \A i \in 1..Len(q) : i \notin removed => \E k \in 1..Len(w) : f[k] = i

\* What is left of a sequence, in the order it had (WithoutKeeps, index by index).
LEMMA Remaining ==
  ASSUME NEW S, NEW q \in Seq(S), NEW removed, NEW w, w = Without(q, removed)
  PROVE  \E f : Keeps(f, q, removed, w)
<1>2. PICK f \in [1..Len(w) -> (1..Len(q)) \ removed] :
        /\ \A k \in 1..Len(w) : w[k] = q[f[k]]
        /\ \A k, l \in 1..Len(w) : k < l => f[k] < f[l]
        /\ \A i \in (1..Len(q)) \ removed : \E k \in 1..Len(w) : f[k] = i
  BY WithoutKeeps
<1>3. \A k \in 1..Len(w) : f[k] \in 1..Len(q) /\ f[k] \notin removed
  BY <1>2
<1>4. f \in [1..Len(w) -> 1..Len(q)]
  BY <1>2
<1>5. ASSUME NEW k \in 1..Len(w), NEW l \in 1..Len(w), f[k] = f[l]
      PROVE  k = l
  <2>0. k \in Int /\ l \in Int
    OBVIOUS
  <2>1. ~(f[k] < f[l]) /\ ~(f[l] < f[k])
    BY <1>3, <1>5
  <2> QED BY <1>2, <2>0, <2>1
<1>6. Keeps(f, q, removed, w)
  BY <1>2, <1>3, <1>5 DEF Keeps
<1> QED BY <1>6

\* A flush ends the path of a request of the link: nothing is left to answer it twice.
LEMMA AnswersDisconnected ==
  ASSUME Typed, Shapes, Links, Answers, MgrDisconnected
  PROVE  Answers'
<1>1. PICK m \in Messages :
        /\ Take(m) /\ m.what = "disconnected" /\ m.conn \in devs /\ devs' = devs \ {m.conn}
        /\ queue' = Without(queue, Removed(queue, m.conn))
        /\ Fire({[req |-> queue[i], by |-> 0] : i \in Removed(queue, m.conn)})
        /\ UNCHANGED <<app, toStack, link, pend>>
  BY DEF MgrDisconnected, stackVars
<1> DEFINE gone == Removed(queue, m.conn)
           calls == {[req |-> queue[i], by |-> 0] : i \in gone}
<1>2. gone = {i \in 1..Len(queue) : queue[i].conn = m.conn}
  <2>1. \A i \in 2..Len(queue) : ~(queue[i - 1].conn = m.conn /\ queue[i].conn = m.conn)
    <3> SUFFICES ASSUME NEW i \in 2..Len(queue), queue[i - 1].conn = m.conn, queue[i].conn = m.conn
                 PROVE  FALSE
      OBVIOUS
    <3>1. i - 1 \in 1..Len(queue) /\ i \in 1..Len(queue) /\ i - 1 # i
      BY DEF Shapes
    <3>2. m.conn # NoConn
      BY <1>1, ConnsAssumption DEF Typed, TypeOK
    <3>3. queue[i - 1].what # "resolve" /\ queue[i].what # "resolve"
      BY <3>1, <3>2 DEF Shapes, Asked
    <3> QED BY <3>1, <3>3 DEF Answers, OneElem
  <2>2. queue \in Seq(Asked(nReq))
    BY DEF Shapes
  <2> QED BY <2>1, <2>2, RemovedExactly
<1>3. calls \in SUBSET Calls /\ Fire(calls)
  <2>1. \A i \in gone : queue[i] \in Requests
    BY <1>2 DEF Typed, TypeOK
  <2>2. 0 \in Ids
    BY QueueAssumption DEF Ids
  <2> QED BY <1>1, <2>1, <2>2 DEF Calls
<1>4. \A i \in gone : queue[i].what = "rssi" /\ queue[i] = app.req /\ rsp = NoRsp
                      /\ app.pc \in {"send", "wait"}
  <2> TAKE i \in gone
  <2>1. m.conn # NoConn
    BY <1>1, ConnsAssumption DEF Typed, TypeOK
  <2>2. i \in 1..Len(queue) /\ queue[i].conn = m.conn /\ queue[i] \in Asked(nReq)
    BY <1>2 DEF Shapes
  <2>3. queue[i].what = "rssi"
    BY <2>1, <2>2 DEF Asked
  <2> QED BY <2>2, <2>3 DEF Answers, InQueue
<1>50. PICK f : Keeps(f, queue, gone, queue')
  <2>1. queue \in Seq(Asked(nReq)) /\ queue' = Without(queue, gone)
    BY <1>1 DEF Shapes
  <2> HIDE DEF gone
  <2> QED BY <2>1, Remaining
<1>5. /\ \A k \in 1..Len(queue') : f[k] \in 1..Len(queue) /\ f[k] \notin gone
                                       /\ queue'[k] = queue[f[k]]
      /\ \A k, l \in 1..Len(queue') : f[k] = f[l] => k = l
  <2> HIDE DEF gone
  <2> QED BY <1>50 DEF Keeps
<1>6. OneElem'
  <2> SUFFICES ASSUME NEW k \in 1..Len(queue'), NEW l \in 1..Len(queue'),
                      queue'[k].what # "resolve", queue'[l].what # "resolve"
               PROVE  k = l
    BY DEF OneElem
  <2> HIDE DEF gone
  <2>1. f[k] = f[l]
    BY <1>5 DEF Answers, OneElem
  <2> QED BY <1>5, <2>1
<1>7. \A r : Late(r) => Late(r)'
  BY <1>1, DeadTaken
<1>8. CASE gone = {}
  <2>1. rsp' = rsp
    <3>1. \A k \in calls : FALSE
      BY <1>8
    <3> HIDE DEF calls
    <3> QED BY <1>3, <3>1, FireTyped
  <2>2. OnPath'
    BY <1>1, <1>7, <2>1, PathTaken DEF Blocked
  <2>3. InQueue'
    BY <1>1, <1>5, <2>1 DEF Answers, InQueue
  <2>4. NoAnswer' /\ EarlyLoss'
    BY <1>1, <1>7, <2>1 DEF Answers, NoAnswer, EarlyLoss
  <2> QED BY <1>6, <2>2, <2>3, <2>4 DEF Answers
<1>9. CASE gone # {}
  <2>1. PICK i \in gone : TRUE
    BY <1>9
  <2>2. /\ i \in 1..Len(queue) /\ queue[i].conn = m.conn /\ queue[i] = app.req
        /\ app.req.what = "rssi" /\ app.req.conn = m.conn
        /\ rsp = NoRsp /\ app.pc \in {"send", "wait"}
    BY <1>2, <1>4
  <2>3. rsp' # NoRsp
    <3>1. [req |-> queue[i], by |-> 0] \in calls
      OBVIOUS
    <3>2. [req |-> queue[i], by |-> 0].req.what \in Answering
      BY <2>2 DEF Answering
    <3> HIDE DEF calls
    <3> QED BY <1>3, <3>1, <3>2, FireTyped
  <2>4. \A k \in 1..Len(queue') : queue'[k].what = "resolve"
    BY <1>5, <2>2 DEF Answers, OneElem
  <2>5. m = toMgr[1] /\ Len(toMgr) \in Nat \ {0} /\ Len(toMgr') = Len(toMgr) - 1
        /\ \A j \in 1..Len(toMgr') : j + 1 \in 1..Len(toMgr) /\ toMgr'[j] = toMgr[j + 1]
    BY <1>1, TakeShaped
  <2>6. Dead(m.conn)'
    <3>1. m.conn \notin link
      BY <1>1, <2>5 DEF Links, DownIsDown
    <3>2. ~Tells("connected", m.conn)'
      <4> SUFFICES ASSUME NEW j \in 1..Len(toMgr'), toMgr'[j].what = "connected",
                          toMgr'[j].conn = m.conn
                   PROVE  FALSE
        BY DEF Tells
      <4>1. j + 1 \in 1..Len(toMgr) /\ toMgr[j + 1].what \in LinkNews /\ toMgr[j + 1].conn = m.conn
        BY <2>5 DEF LinkNews
      <4>2. j + 1 <= 1
        BY <1>1, <2>5, <4>1 DEF Links, LastNews
      <4> QED BY <4>2
    <3> QED BY <1>1, <3>1, <3>2 DEF Dead
  <2>7. ~Pending /\ ~Pending'
    <3>1. m.conn \notin link
      BY <1>1, <2>5 DEF Links, DownIsDown
    <3>2. ~Pending
      BY <2>2, <3>1 DEF Pending, Answers, OnPath, InPend
    <3> QED BY <1>1, <3>2 DEF Pending
  <2>8. ~Answered'
    <3> SUFFICES ASSUME NEW j \in 1..Len(toMgr'), toMgr'[j].what \in AppPart
                 PROVE  FALSE
      BY DEF Answered
    <3>1. j + 1 \in 1..Len(toMgr) /\ toMgr[j + 1].what \in AppPart
      BY <2>5
    <3>2. toMgr[j + 1].what = "rssi" /\ toMgr[j + 1].conn = m.conn
      BY <2>2, <3>1 DEF Answers, OnPath, InMgr
    <3>3. 1 \in 1..(j + 1) - 1
      OBVIOUS
    <3>4. ~(toMgr[1].what = "disconnected" /\ toMgr[1].conn = toMgr[j + 1].conn)
      BY <3>1, <3>2, <3>3 DEF Answers, OnPath, InMgr
    <3> QED BY <1>1, <2>5, <3>2, <3>4
  <2>9. ~Sent'
    <3> SUFFICES ASSUME NEW j \in 1..Len(toStack), toStack[j].what # "resolve"
                 PROVE  Late(toStack[j])'
      BY <1>1 DEF Sent
    <3>1. CASE Late(toStack[j])
      BY <1>1, <1>7, <3>1
    <3>2. CASE toStack[j] = app.req
      BY <1>1, <2>2, <2>6, <3>2 DEF Late
    <3> QED BY <3>1, <3>2 DEF Answers, OnPath, InStack
  <2>10. InQueue'
    BY <2>4 DEF InQueue
  <2>11. NoAnswer' /\ EarlyLoss'
    BY <1>1, <2>2, <2>6 DEF NoAnswer, EarlyLoss, Late
  <2> QED BY <1>6, <2>7, <2>8, <2>9, <2>10, <2>11, PathEmpty DEF Answers
<1> QED BY <1>8, <1>9

\* A match ends the path of the request it answers.
LEMMA AnswersMatch ==
  ASSUME Typed, Shapes, Links, Answers, MgrMatch
  PROVE  Answers'
<1>1. PICK m \in Messages :
        /\ Take(m)
        /\ \E i \in FirstMatch(m) : /\ queue' = Without(queue, {i})
                                    /\ Fire({[req |-> queue[i], by |-> m.id]})
        /\ devs' = (IF m.what = "reset" THEN {} ELSE devs)
        /\ UNCHANGED <<app, toStack, link, pend>>
  BY DEF MgrMatch, stackVars
<1>2. PICK i \in FirstMatch(m) : /\ queue' = Without(queue, {i})
                                 /\ Fire({[req |-> queue[i], by |-> m.id]})
  BY <1>1
<1>3. /\ i \in 1..Len(queue) /\ queue[i] \in Asked(nReq) /\ queue[i].what = m.what
      /\ [req |-> queue[i], by |-> m.id] \in Calls
  BY FirstInQueue DEF Shapes, Typed, TypeOK, Calls, Messages, FirstMatch
<1> DEFINE gone == {i}
<1>40. PICK f : Keeps(f, queue, gone, queue')
  <2>1. queue \in Seq(Asked(nReq)) /\ queue' = Without(queue, gone)
    BY <1>2 DEF Shapes
  <2> HIDE DEF gone
  <2> QED BY <2>1, Remaining
<1>4. /\ \A k \in 1..Len(queue') : f[k] \in 1..Len(queue) /\ f[k] # i
                                       /\ queue'[k] = queue[f[k]]
      /\ \A k, l \in 1..Len(queue') : f[k] = f[l] => k = l
  <2>1. i \in gone
    OBVIOUS
  <2> HIDE DEF gone
  <2> QED BY <1>40, <2>1 DEF Keeps
<1>5. OneElem'
  BY <1>4 DEF Answers, OneElem
<1>6. \A r : Late(r) => Late(r)'
  BY <1>1, DeadTaken
<1> DEFINE call == [req |-> queue[i], by |-> m.id]
<1>7. {call} \in SUBSET Calls /\ Fire({call}) /\ call.req = queue[i]
  BY <1>2, <1>3
<1>8. CASE queue[i].what = "resolve"
  <2>1. rsp' = rsp
    <3> HIDE DEF call
    <3>1. \A k \in {call} : k.req.what \notin Answering
      BY <1>7, <1>8 DEF Answering
    <3> QED BY <1>7, <3>1, FireTyped
  <2>2. OnPath'
    BY <1>1, <1>6, <2>1, PathTaken DEF Blocked
  <2>3. InQueue'
    <3> HIDE DEF call, gone
    <3>1. \A k \in 1..Len(queue') : f[k] \in 1..Len(queue) /\ queue'[k] = queue[f[k]]
      BY <1>4
    <3> QED BY <1>1, <2>1, <3>1 DEF Answers, InQueue
  <2>4. NoAnswer' /\ EarlyLoss'
    BY <1>1, <1>6, <2>1 DEF Answers, NoAnswer, EarlyLoss
  <2> QED BY <1>5, <2>2, <2>3, <2>4 DEF Answers
<1>9. CASE queue[i].what # "resolve"
  <2>1. m.what \in AppPart /\ queue[i].what \in Answering
    BY <1>3, <1>9 DEF AppPart, Asked, Answering
  <2>2. rsp' # NoRsp
    <3> HIDE DEF call
    <3>1. \E k \in {call} : k.req.what \in Answering
      BY <1>7, <2>1
    <3> QED BY <1>7, <3>1, FireTyped
  <2>3. m = toMgr[1] /\ Len(toMgr) \in Nat \ {0} /\ Len(toMgr') = Len(toMgr) - 1
        /\ \A j \in 1..Len(toMgr') : j + 1 \in 1..Len(toMgr) /\ toMgr'[j] = toMgr[j + 1]
    BY <1>1, TakeShaped
  <2>4. 1 \in 1..Len(toMgr) /\ Answered /\ Blocked
    BY <2>1, <2>3 DEF Answered, Answers, OnPath, InMgr
  <2>5. ~Answered'
    <3> SUFFICES ASSUME NEW j \in 1..Len(toMgr'), toMgr'[j].what \in AppPart
                 PROVE  FALSE
      BY DEF Answered
    <3>1. j + 1 = 1
      BY <2>1, <2>3, <2>4 DEF Answers, OnPath, OneTold
    <3> QED BY <3>1
  <2>6. ~Pending' /\ ~Sent
    BY <1>1, <2>4 DEF Answers, OnPath, OnePlace, Pending
  <2>7. ~Sent'
    BY <1>1, <1>6, <2>6 DEF Sent
  <2>8. InQueue'
    <3>1. \A k \in 1..Len(queue') : queue'[k].what = "resolve"
      BY <1>3, <1>4, <1>9 DEF Answers, OneElem
    <3> QED BY <3>1 DEF InQueue
  <2>9. NoAnswer' /\ EarlyLoss'
    BY <1>1, <2>4 DEF NoAnswer, EarlyLoss, Blocked
  <2> QED BY <1>5, <2>5, <2>6, <2>7, <2>8, <2>9, PathEmpty DEF Answers
<1> QED BY <1>8, <1>9

\* A message that is ignored leaves the path of a request alone.
LEMMA AnswersIgnore ==
  ASSUME Shapes, Answers, MgrIgnore
  PROVE  Answers'
<1>1. PICK m : Take(m) /\ UNCHANGED <<queue, app, rsp, devs, toStack, link, pend>>
  BY DEF MgrIgnore, MgrSide, stackVars
<1>2. \A r : Late(r) => Late(r)'
  BY <1>1, DeadTaken
<1>3. OnPath'
  BY <1>1, <1>2, PathTaken DEF Blocked
<1>4. InQueue' /\ OneElem'
  BY <1>1 DEF Answers, InQueue, OneElem
<1>5. NoAnswer' /\ EarlyLoss'
  BY <1>1, <1>2 DEF Answers, NoAnswer, EarlyLoss
<1> QED BY <1>3, <1>4, <1>5 DEF Answers

\* What the stack does with the first request of a peripheral.
LEMMA StackTakes ==
  ASSUME Shapes, StackTake
  PROVE  /\ toStack[1] \in Asked(nReq) /\ 1 \in 1..Len(toStack)
         /\ \A i \in 1..Len(toStack') : i + 1 \in 1..Len(toStack) /\ toStack'[i] = toStack[i + 1]
         /\ \A i \in 1..Len(toStack) : i > 1 => i - 1 \in 1..Len(toStack') /\ toStack'[i - 1] = toStack[i]
         /\ UNCHANGED link
         /\ \/ pend' = pend /\ ConnOf(toStack[1]) \notin link \cup {NoConn}
            \/ pend' = Append(pend, toStack[1]) /\ ConnOf(toStack[1]) \in link \cup {NoConn}
         /\ UNCHANGED <<queue, app, rsp, devs, toMgr, resetting, tooLate>>
<1>1. toStack # <<>> /\ toStack' = Tail(toStack) /\ toStack \in Seq(Asked(nReq))
  BY DEF StackTake, Shapes
<1>2. Len(toStack) \in Nat \ {0} /\ Head(toStack) = toStack[1] /\ toStack[1] \in Asked(nReq)
  BY <1>1
<1>3. /\ Len(toStack') = Len(toStack) - 1
      /\ \A i \in 1..Len(toStack') : toStack'[i] = toStack[i + 1]
  BY <1>1, HeadTailProperties
<1>4. toStack[1].what # "reset"
  BY <1>2 DEF Asked
<1>5. /\ UNCHANGED link
      /\ \/ pend' = pend /\ ConnOf(toStack[1]) \notin link \cup {NoConn}
         \/ pend' = Append(pend, toStack[1]) /\ ConnOf(toStack[1]) \in link \cup {NoConn}
  BY <1>2, <1>4 DEF StackTake, stackVars
<1>6. UNCHANGED <<queue, app, rsp, devs, toMgr, resetting, tooLate>>
  BY DEF StackTake, MgrSide
<1> QED BY <1>2, <1>3, <1>5, <1>6

\* The stack takes the request of the application or drops it with its link.
LEMMA AnswersStackTake ==
  ASSUME Typed, Shapes, Answers, StackTake
  PROVE  Answers'
<1>1. /\ toStack[1] \in Asked(nReq) /\ 1 \in 1..Len(toStack)
      /\ \A i \in 1..Len(toStack') : i + 1 \in 1..Len(toStack) /\ toStack'[i] = toStack[i + 1]
      /\ \/ pend' = pend /\ ConnOf(toStack[1]) \notin link \cup {NoConn}
         \/ pend' = Append(pend, toStack[1]) /\ ConnOf(toStack[1]) \in link \cup {NoConn}
      /\ UNCHANGED <<queue, app, rsp, devs, toMgr, link>>
  BY StackTakes
<1>2. \A r : Late(r)' <=> Late(r)
  BY <1>1 DEF Late, Dead, Tells
<1>3. /\ InQueue' /\ OneElem' /\ NoAnswer' /\ EarlyLoss' /\ (Blocked' <=> Blocked)
  BY <1>1, <1>2 DEF Answers, InQueue, OneElem, NoAnswer, EarlyLoss, Blocked
<1>4. InMgr' /\ OneTold' /\ (Answered' <=> Answered)
  BY <1>1, <1>3 DEF Answers, OnPath, InMgr, OneTold, Answered
<1>5. InStack'
  BY <1>1, <1>2, <1>3 DEF Answers, OnPath, InStack
<1>6. OneSent' /\ (Sent' => Sent)
  <2>1. ASSUME NEW i \in 1..Len(toStack'), NEW j \in 1..Len(toStack'),
               toStack'[i].what # "resolve", ~Late(toStack[i])',
               toStack'[j].what # "resolve", ~Late(toStack[j])'
        PROVE  i = j
    <3>1. i + 1 = j + 1
      BY <1>1, <1>2, <2>1 DEF Answers, OnPath, OneSent
    <3> QED BY <3>1
  <2> QED BY <1>1, <1>2, <2>1 DEF OneSent, Sent
<1>7. CASE pend' = pend
  BY <1>3, <1>4, <1>5, <1>6, <1>7, <1>1
     DEF Answers, OnPath, InPend, OnePend, OnePlace, Pending
<1>8. CASE pend' = Append(pend, toStack[1]) /\ ConnOf(toStack[1]) \in link \cup {NoConn}
  <2>1. /\ \A i \in 1..Len(pend) : i \in 1..Len(pend') /\ pend'[i] = pend[i]
        /\ \A i \in 1..Len(pend') : \/ i \in 1..Len(pend) /\ pend'[i] = pend[i]
                                    \/ i = Len(pend) + 1 /\ pend'[i] = toStack[1]
    BY <1>8, SendShaped DEF Shapes
  <2>2. CASE toStack[1].what = "resolve"
    <3>1. \A i \in 1..Len(pend') :
            pend'[i].what # "resolve" => i \in 1..Len(pend) /\ pend'[i] = pend[i]
      BY <2>1, <2>2
    <3>2. InPend'
      BY <1>1, <1>3, <3>1 DEF Answers, OnPath, InPend
    <3>3. OnePend' /\ (Pending' => Pending)
      BY <3>1 DEF Answers, OnPath, OnePend, Pending
    <3> QED BY <1>3, <1>4, <1>5, <1>6, <3>2, <3>3 DEF Answers, OnPath, OnePlace
  <2>3. CASE toStack[1].what # "resolve"
    <3>1. toStack[1].what = "rssi" => toStack[1].conn \in link
      BY <1>1, <1>8, ConnsAssumption DEF ConnOf, Asked
    <3>2. ~Late(toStack[1])
      BY <3>1 DEF Late, Dead
    <3>3. toStack[1] = app.req /\ Blocked /\ Sent
      BY <1>1, <2>3, <3>2 DEF Answers, OnPath, InStack, Sent
    <3>4. ~Pending /\ ~Answered
      BY <3>3 DEF Answers, OnPath, OnePlace
    <3>5. InPend' /\ OnePend'
      BY <1>1, <1>3, <2>1, <3>1, <3>3, <3>4 DEF InPend, OnePend, Pending
    <3>6. ~Sent'
      <4> SUFFICES ASSUME NEW i \in 1..Len(toStack'), toStack'[i].what # "resolve",
                          ~Late(toStack[i])'
                   PROVE  FALSE
        BY DEF Sent
      <4>1. i + 1 = 1
        BY <1>1, <1>2, <2>3, <3>2 DEF Answers, OnPath, OneSent
      <4> QED BY <4>1
    <3> QED BY <1>3, <1>4, <1>5, <1>6, <3>4, <3>5, <3>6 DEF Answers, OnPath, OnePlace
  <2> QED BY <2>2, <2>3
<1> QED BY <1>1, <1>7, <1>8

\* The answer of the stack is the only one of the application under way.
LEMMA AnswersStackAnswer ==
  ASSUME Typed, Shapes, Links, Answers, StackAnswer
  PROVE  Answers'
<1>0. PICK i \in 1..Len(pend) :
        /\ pend' = Without(pend, {i})
        /\ toMgr' = Append(toMgr, Message(pend[i].what,
                           IF ConnOf(pend[i]) = NoConn THEN 0 ELSE pend[i].conn, pend[i].id))
        /\ UNCHANGED <<queue, app, rsp, devs, toStack, link>>
  BY DEF StackAnswer, MgrSide
<1>1. PICK m :
        /\ pend' = Without(pend, {i}) /\ toMgr' = Append(toMgr, m)
        /\ m = Message(pend[i].what, IF ConnOf(pend[i]) = NoConn THEN 0 ELSE pend[i].conn,
                       pend[i].id)
        /\ UNCHANGED <<queue, app, rsp, devs, toStack, link>>
  BY <1>0
<1>2. pend[i] \in Asked(nReq) /\ pend \in Seq(Asked(nReq))
  BY DEF Shapes
<1>3. /\ m.what = pend[i].what /\ m.id = pend[i].id /\ m.what \notin LinkNews
      /\ m.what = "rssi" => m.conn = pend[i].conn
  BY <1>1, <1>2, ConnsAssumption DEF Message, ConnOf, Asked, LinkNews
<1>4. /\ Len(toMgr') = Len(toMgr) + 1 /\ Len(toMgr) \in Nat
      /\ \A k \in 1..Len(toMgr) : k \in 1..Len(toMgr') /\ toMgr'[k] = toMgr[k]
      /\ \A k \in 1..Len(toMgr') : \/ k \in 1..Len(toMgr) /\ toMgr'[k] = toMgr[k]
                                   \/ k = Len(toMgr) + 1 /\ toMgr'[k] = m
  BY <1>1, SendShaped DEF Shapes
<1>5. \A r : Late(r)' <=> Late(r)
  BY <1>1, <1>3, <1>4 DEF Late, Dead, Tells, LinkNews
<1>6. /\ InQueue' /\ OneElem' /\ NoAnswer' /\ EarlyLoss' /\ (Blocked' <=> Blocked)
  BY <1>1, <1>5 DEF Answers, InQueue, OneElem, NoAnswer, EarlyLoss, Blocked
<1>7. InStack' /\ OneSent' /\ (Sent' <=> Sent)
  BY <1>1, <1>5, <1>6 DEF Answers, OnPath, InStack, OneSent, Sent
<1> DEFINE gone == {i}
<1>80. PICK f : Keeps(f, pend, gone, pend')
  <2>1. pend' = Without(pend, gone)
    BY <1>1
  <2> HIDE DEF gone
  <2> QED BY <1>2, <2>1, Remaining
<1>8. /\ \A k \in 1..Len(pend') : f[k] \in 1..Len(pend) /\ f[k] # i /\ pend'[k] = pend[f[k]]
      /\ \A k, l \in 1..Len(pend') : f[k] = f[l] => k = l
  <2>1. i \in gone
    OBVIOUS
  <2> HIDE DEF gone
  <2> QED BY <1>80, <2>1 DEF Keeps
<1>10. InPend' /\ (Pending' => Pending)
  <2> HIDE DEF gone
  <2>1. ASSUME NEW k \in 1..Len(pend'), pend'[k].what # "resolve"
        PROVE  /\ pend'[k] = app'.req /\ Blocked' /\ Pending
               /\ pend'[k].what = "rssi" => pend'[k].conn \in link'
    <3>1. f[k] \in 1..Len(pend) /\ pend'[k] = pend[f[k]]
      BY <1>8
    <3> QED BY <1>1, <1>6, <2>1, <3>1 DEF Answers, OnPath, InPend, Pending
  <2> QED BY <2>1 DEF InPend, Pending
<1>11. OnePend'
  <2> SUFFICES ASSUME NEW k \in 1..Len(pend'), NEW l \in 1..Len(pend'),
                      pend'[k].what # "resolve", pend'[l].what # "resolve"
               PROVE  k = l
    BY DEF OnePend
  <2>1. f[k] = f[l]
    BY <1>8 DEF Answers, OnPath, OnePend
  <2> QED BY <1>8, <2>1
<1>12. CASE m.what = "resolve"
  <2>1. InMgr'
    <3> SUFFICES ASSUME NEW k \in 1..Len(toMgr'), toMgr'[k].what \in AppPart
                 PROVE  /\ Blocked' /\ toMgr'[k].what = app'.req.what /\ toMgr'[k].id = app'.req.id
                        /\ toMgr'[k].what = "rssi" =>
                             /\ toMgr'[k].conn = app'.req.conn
                             /\ \A j \in 1..k - 1 : ~(/\ toMgr'[j].what = "disconnected"
                                                      /\ toMgr'[j].conn = toMgr'[k].conn)
      BY DEF InMgr
    <3>1. k \in 1..Len(toMgr) /\ toMgr'[k] = toMgr[k]
      BY <1>4, <1>12 DEF AppPart
    <3>2. \A j \in 1..k - 1 : toMgr'[j] = toMgr[j]
      BY <1>4, <3>1
    <3> QED BY <1>1, <1>6, <3>1, <3>2 DEF Answers, OnPath, InMgr
  <2>2. OneTold' /\ (Answered' <=> Answered)
    BY <1>4, <1>12 DEF Answers, OnPath, OneTold, Answered, AppPart
  <2> QED BY <1>6, <1>7, <1>10, <1>11, <2>1, <2>2 DEF Answers, OnPath, OnePlace
<1>13. CASE m.what # "resolve"
  <2>1. /\ pend[i] = app.req /\ Blocked /\ Pending
        /\ pend[i].what = "rssi" => pend[i].conn \in link
    BY <1>3, <1>13 DEF Answers, OnPath, InPend, Pending
  <2>2. ~Sent /\ ~Answered
    BY <2>1 DEF Answers, OnPath, OnePlace
  <2>3. ~Pending'
    BY <1>3, <1>8, <1>13 DEF Answers, OnPath, OnePend, Pending
  <2>4. \A k \in 1..Len(toMgr') : toMgr'[k].what \in AppPart => k = Len(toMgr) + 1 /\ toMgr'[k] = m
    BY <1>4, <2>2 DEF Answered
  <2>5. InMgr'
    <3> SUFFICES ASSUME NEW k \in 1..Len(toMgr'), toMgr'[k].what \in AppPart
                 PROVE  /\ Blocked' /\ toMgr'[k].what = app'.req.what /\ toMgr'[k].id = app'.req.id
                        /\ toMgr'[k].what = "rssi" =>
                             /\ toMgr'[k].conn = app'.req.conn
                             /\ \A j \in 1..k - 1 : ~(/\ toMgr'[j].what = "disconnected"
                                                      /\ toMgr'[j].conn = toMgr'[k].conn)
      BY DEF InMgr
    <3>1. k = Len(toMgr) + 1 /\ toMgr'[k] = m
      BY <2>4
    <3>2. \A j \in 1..k - 1 : j \in 1..Len(toMgr) /\ toMgr'[j] = toMgr[j]
      BY <1>4, <3>1
    <3> QED BY <1>1, <1>3, <1>6, <2>1, <3>1, <3>2 DEF Links, DownIsDown
  <2>6. OneTold'
    BY <2>4 DEF OneTold
  <2> QED BY <1>6, <1>7, <1>10, <1>11, <2>2, <2>3, <2>5, <2>6 DEF Answers, OnPath, OnePlace
<1> QED BY <1>12, <1>13

\* News of a link comes after the answers that are under way.
LEMMA AnswersNews ==
  ASSUME Typed, Shapes, Answers, NEW m, m.what \in LinkNews, toMgr' = Append(toMgr, m),
         UNCHANGED <<queue, app, rsp, devs, toStack>>,
         \A i \in 1..Len(toStack) : Late(toStack[i]) => Late(toStack[i])',
         app.pc = "send" /\ Late(app.req) => Late(app.req)',
         InPend' /\ OnePend' /\ (Pending' => Pending)
  PROVE  Answers'
<1>1. /\ Len(toMgr') = Len(toMgr) + 1 /\ Len(toMgr) \in Nat
      /\ \A k \in 1..Len(toMgr) : k \in 1..Len(toMgr') /\ toMgr'[k] = toMgr[k]
      /\ \A k \in 1..Len(toMgr') : \/ k \in 1..Len(toMgr) /\ toMgr'[k] = toMgr[k]
                                   \/ k = Len(toMgr) + 1 /\ toMgr'[k] = m
  BY SendShaped DEF Shapes
<1>2. /\ InQueue' /\ OneElem' /\ NoAnswer' /\ EarlyLoss' /\ (Blocked' <=> Blocked)
  BY DEF Answers, InQueue, OneElem, NoAnswer, EarlyLoss, Blocked
<1>3. InStack' /\ OneSent' /\ (Sent' => Sent)
  BY <1>2 DEF Answers, OnPath, InStack, OneSent, Sent
<1>4. InMgr'
  <2> SUFFICES ASSUME NEW k \in 1..Len(toMgr'), toMgr'[k].what \in AppPart
               PROVE  /\ Blocked' /\ toMgr'[k].what = app'.req.what /\ toMgr'[k].id = app'.req.id
                      /\ toMgr'[k].what = "rssi" =>
                           /\ toMgr'[k].conn = app'.req.conn
                           /\ \A j \in 1..k - 1 : ~(/\ toMgr'[j].what = "disconnected"
                                                    /\ toMgr'[j].conn = toMgr'[k].conn)
    BY DEF InMgr
  <2>1. k \in 1..Len(toMgr) /\ toMgr'[k] = toMgr[k]
    BY <1>1 DEF AppPart, LinkNews
  <2>2. \A j \in 1..k - 1 : toMgr'[j] = toMgr[j]
    BY <1>1, <2>1
  <2> QED BY <1>2, <2>1, <2>2 DEF Answers, OnPath, InMgr
<1>5. OneTold' /\ (Answered' <=> Answered)
  BY <1>1 DEF Answers, OnPath, OneTold, Answered, AppPart, LinkNews
<1> QED BY <1>2, <1>3, <1>4, <1>5 DEF Answers, OnPath, OnePlace

\* A link that comes up does not revive a request for its predecessor.
LEMMA AnswersLinkUp ==
  ASSUME Typed, Shapes, Answers, NEW c \in Conns, LinkUp(c)
  PROVE  Answers'
<1>1. PICK m : m = Message("connected", c, 0)
  OBVIOUS
<1>2. /\ toMgr' = Append(toMgr, m) /\ link' = link \cup {c} /\ IndexFree(c)
      /\ m.what = "connected" /\ m.conn = c
      /\ UNCHANGED <<queue, app, rsp, devs, toStack, pend>>
  BY <1>1 DEF LinkUp, MgrSide, Message
<1>3. ASSUME NEW d, Dead(d), d # c
      PROVE  Dead(d)'
  <2>1. \A i \in 1..Len(toMgr') : \/ i \in 1..Len(toMgr) /\ toMgr'[i] = toMgr[i]
                                  \/ toMgr'[i] = m
    BY <1>2, SendShaped DEF Shapes
  <2> QED BY <1>2, <1>3, <2>1 DEF Dead, Tells
<1>4. \A i \in 1..Len(toStack) : Late(toStack[i]) => Late(toStack[i])'
  BY <1>2, <1>3 DEF Late, IndexFree, ConnOf
<1>5. app.pc = "send" /\ Late(app.req) => Late(app.req)'
  BY <1>2, <1>3 DEF Late, IndexFree, ConnOf
<1>6. InPend' /\ OnePend' /\ (Pending' => Pending)
  BY <1>2 DEF Answers, OnPath, InPend, OnePend, Pending, Blocked
<1> QED BY <1>2, <1>4, <1>5, <1>6, AnswersNews DEF LinkNews

\* A link that goes down takes its pending request with it.
LEMMA AnswersLinkDown ==
  ASSUME Typed, Shapes, Answers, NEW c \in Conns, LinkDown(c)
  PROVE  Answers'
<1>1. PICK m : m = Message("disconnected", c, 0)
  OBVIOUS
<1> DEFINE gone == {i \in DOMAIN pend : ConnOf(pend[i]) = c}
<1>2. /\ toMgr' = Append(toMgr, m) /\ link' = link \ {c} /\ pend' = Without(pend, gone)
      /\ m.what = "disconnected" /\ m.conn = c
      /\ UNCHANGED <<queue, app, rsp, devs, toStack>>
  BY <1>1 DEF LinkDown, MgrSide, Message
<1>3. \A r : Late(r) => Late(r)'
  <2>1. \A i \in 1..Len(toMgr') : \/ i \in 1..Len(toMgr) /\ toMgr'[i] = toMgr[i]
                                  \/ toMgr'[i] = m
    BY <1>2, SendShaped DEF Shapes
  <2> QED BY <1>2, <2>1 DEF Late, Dead, Tells
<1>4. pend \in Seq(Asked(nReq)) /\ DOMAIN pend = 1..Len(pend)
  BY DEF Shapes
<1>50. PICK f : Keeps(f, pend, gone, pend')
  <2> HIDE DEF gone
  <2> QED BY <1>2, <1>4, Remaining
<1>5. /\ \A k \in 1..Len(pend') : f[k] \in 1..Len(pend) /\ f[k] \notin gone /\ pend'[k] = pend[f[k]]
      /\ \A k, l \in 1..Len(pend') : f[k] = f[l] => k = l
  <2> HIDE DEF gone
  <2> QED BY <1>50 DEF Keeps
<1>6. \A k \in 1..Len(pend') : ConnOf(pend'[k]) # c
  BY <1>4, <1>5
<1> HIDE DEF gone
<1>7. InPend' /\ (Pending' => Pending)
  <2>1. ASSUME NEW k \in 1..Len(pend'), pend'[k].what # "resolve"
        PROVE  /\ pend'[k] = app'.req /\ Blocked' /\ Pending
               /\ pend'[k].what = "rssi" => pend'[k].conn \in link'
    <3>1. f[k] \in 1..Len(pend) /\ pend'[k] = pend[f[k]]
      BY <1>5
    <3>2. pend'[k].what = "rssi" => pend'[k].conn # c
      BY <1>6 DEF ConnOf
    <3>3. Blocked <=> Blocked'
      BY <1>2 DEF Blocked
    <3> QED BY <1>2, <2>1, <3>1, <3>2, <3>3 DEF Answers, OnPath, InPend, Pending
  <2> QED BY <2>1 DEF InPend, Pending
<1>8. OnePend'
  <2> SUFFICES ASSUME NEW k \in 1..Len(pend'), NEW l \in 1..Len(pend'),
                      pend'[k].what # "resolve", pend'[l].what # "resolve"
               PROVE  k = l
    BY DEF OnePend
  <2>1. f[k] = f[l]
    BY <1>5 DEF Answers, OnPath, OnePend
  <2> QED BY <1>5, <2>1
<1> QED BY <1>2, <1>3, <1>7, <1>8, AnswersNews DEF LinkNews

\* Every step keeps the request of the application in one place at most.
LEMMA AnswersNext ==
  Peripheral /\ Typed /\ Shapes /\ Links /\ Answers /\ [Next]_vars => Answers'
<1> SUFFICES ASSUME Peripheral, Typed, Shapes, Links, Answers, [Next]_vars
             PROVE  Answers'
  OBVIOUS
<1>1. CASE UNCHANGED vars
  <2>1. UNCHANGED <<queue, app, rsp, devs, toStack, toMgr, link, pend>>
    BY <1>1 DEF vars, MgrSide, stackVars
  <2>2. (Blocked' <=> Blocked) /\ \A r : Late(r)' <=> Late(r)
    BY <2>1 DEF Blocked, Late, Dead, Tells
  <2>3. InPend' /\ OnePend' /\ InStack' /\ OneSent' /\ InMgr' /\ OneTold'
    BY <2>1, <2>2 DEF Answers, OnPath, InPend, OnePend, InStack, OneSent, InMgr, OneTold
  <2>4. OnePlace'
    BY <2>1, <2>2 DEF Answers, OnPath, OnePlace, Sent, Pending, Answered
  <2>5. InQueue' /\ OneElem' /\ NoAnswer' /\ EarlyLoss'
    BY <2>1, <2>2 DEF Answers, InQueue, OneElem, NoAnswer, EarlyLoss
  <2> QED BY <2>3, <2>4, <2>5 DEF Answers, OnPath
<1>2. CASE AppStep
  BY <1>2, AnswersBegin, AnswersAdd, AnswersSend, AnswersTake
     DEF AppStep, ConfigCmd, MtuCmd, ResetCmd, RssiCmd, SecCmd
<1>3. CASE MgrStep
  <2>1. ASSUME MgrSecurity PROVE FALSE
    <3>1. PICK m : Take(m) /\ m.what = "security"
      BY <2>1 DEF MgrSecurity
    <3> QED BY <3>1, TakeShaped DEF Told
  <2> QED BY <1>3, <2>1, AnswersConnected, AnswersDisconnected, AnswersMatch, AnswersIgnore
          DEF MgrStep
<1>4. CASE StackStep
  BY <1>4, AnswersStackTake, AnswersStackAnswer, AnswersLinkUp, AnswersLinkDown
     DEF StackStep, SecurityRequest, Peripheral
<1> QED BY <1>1, <1>2, <1>3, <1>4 DEF Next

-----------------------------------------------------------------------------
\* The resolutions: those in the queue are those under way, in one order from the newest,
\* which the stack has not taken yet, to the oldest, which the manager has yet to hear of.
Res(s, n)     == \E i \in 1..Len(s) : s[i].what = "resolve" /\ s[i].id = n
Increasing(s) == \A i, j \in 1..Len(s) :
                   s[i].what = "resolve" /\ s[j].what = "resolve" /\ i < j => s[i].id < s[j].id
Before(s, u)  == \A k, n \in Nat : Res(s, k) /\ Res(u, n) => k < n

Sorted   == Increasing(queue) /\ Increasing(toMgr) /\ Increasing(pend) /\ Increasing(toStack)
InOrder  == Before(toMgr, pend) /\ Before(toMgr, toStack) /\ Before(pend, toStack)
Expected == \A n \in Nat : Res(queue, n) <=> Res(toMgr, n) \/ Res(pend, n) \/ Res(toStack, n)
Resolves == Sorted /\ InOrder /\ (full \/ Expected)

\* The resolutions of a sequence with one more element.
LEMMA ResAppend ==
  ASSUME NEW S, NEW s \in Seq(S), NEW e \in S, \A x \in S : x.id \in Nat
  PROVE  /\ \A n \in Nat : Res(Append(s, e), n) <=> Res(s, n) \/ (e.what = "resolve" /\ e.id = n)
         /\ Increasing(s) /\ (e.what = "resolve" => \A n \in Nat : Res(s, n) => n < e.id)
              => Increasing(Append(s, e))
<1> DEFINE t == Append(s, e)
<1>1. /\ Len(t) = Len(s) + 1 /\ Len(s) \in Nat /\ t[Len(s) + 1] = e
      /\ \A i \in 1..Len(s) : i \in 1..Len(t) /\ t[i] = s[i] /\ s[i].id \in Nat
      /\ \A i \in 1..Len(t) : (i \in 1..Len(s) /\ t[i] = s[i]) \/ (i = Len(s) + 1 /\ t[i] = e)
  BY SendShaped
<1> HIDE DEF t
<1>2. \A n \in Nat : Res(t, n) <=> Res(s, n) \/ (e.what = "resolve" /\ e.id = n)
  BY <1>1 DEF Res
<1>3. ASSUME Increasing(s), e.what = "resolve" => \A n \in Nat : Res(s, n) => n < e.id,
             NEW i \in 1..Len(t), NEW j \in 1..Len(t),
             t[i].what = "resolve", t[j].what = "resolve", i < j
      PROVE  t[i].id < t[j].id
  <2>1. i \in 1..Len(s) /\ t[i] = s[i] /\ s[i].id \in Nat
    BY <1>1, <1>3
  <2>2. CASE j \in 1..Len(s) /\ t[j] = s[j]
    BY <1>3, <2>1, <2>2 DEF Increasing
  <2>3. CASE t[j] = e
    <3>1. Res(s, s[i].id)
      BY <1>3, <2>1 DEF Res
    <3> QED BY <1>3, <2>1, <2>3, <3>1
  <2> QED BY <1>1, <2>2, <2>3
<1>4. Increasing(s) /\ (e.what = "resolve" => \A n \in Nat : Res(s, n) => n < e.id)
        => Increasing(t)
  BY <1>3 DEF Increasing
<1> QED BY <1>2, <1>4 DEF t

\* The resolutions of a sequence without its first element.
LEMMA ResTail ==
  ASSUME NEW S, NEW s \in Seq(S), s # <<>>, \A x \in S : x.id \in Nat,
         Increasing(s)
  PROVE  /\ s[1] \in S
         /\ \A n \in Nat : Res(s, n) <=> Res(Tail(s), n) \/ (s[1].what = "resolve" /\ s[1].id = n)
         /\ s[1].what = "resolve" => \A n \in Nat : Res(Tail(s), n) => s[1].id < n
         /\ Increasing(Tail(s))
<1> DEFINE t == Tail(s)
<1>1. /\ Len(s) \in Nat \ {0} /\ Len(t) = Len(s) - 1 /\ 1 \in 1..Len(s) /\ s[1] \in S
      /\ \A i \in 1..Len(t) : i + 1 \in 1..Len(s) /\ t[i] = s[i + 1]
      /\ \A i \in 1..Len(s) : i # 1 => i - 1 \in 1..Len(t) /\ t[i - 1] = s[i]
  <2>1. Len(t) = Len(s) - 1 /\ \A i \in 1..Len(t) : t[i] = s[i + 1]
    BY HeadTailProperties
  <2>2. Len(s) \in Nat \ {0} /\ s[1] \in S
    OBVIOUS
  <2> QED BY <2>1, <2>2
<1> HIDE DEF t
<1>2. \A n \in Nat : Res(s, n) <=> Res(t, n) \/ (s[1].what = "resolve" /\ s[1].id = n)
  <2> TAKE n \in Nat
  <2>1. Res(s, n) => Res(t, n) \/ (s[1].what = "resolve" /\ s[1].id = n)
    <3> SUFFICES ASSUME NEW i \in 1..Len(s), s[i].what = "resolve", s[i].id = n, i # 1
                 PROVE  Res(t, n)
      BY DEF Res
    <3>1. i - 1 \in 1..Len(t) /\ t[i - 1] = s[i]
      BY <1>1
    <3> QED BY <3>1 DEF Res
  <2>2. Res(t, n) => Res(s, n)
    <3> SUFFICES ASSUME NEW i \in 1..Len(t), t[i].what = "resolve", t[i].id = n
                 PROVE  Res(s, n)
      BY DEF Res
    <3>1. i + 1 \in 1..Len(s) /\ t[i] = s[i + 1]
      BY <1>1
    <3> QED BY <3>1 DEF Res
  <2>3. s[1].what = "resolve" /\ s[1].id = n => Res(s, n)
    BY <1>1 DEF Res
  <2> QED BY <2>1, <2>2, <2>3
<1>3. ASSUME s[1].what = "resolve", NEW n \in Nat, Res(t, n)
      PROVE  s[1].id < n
  <2>1. PICK i \in 1..Len(t) : t[i].what = "resolve" /\ t[i].id = n
    BY <1>3 DEF Res
  <2>2. i + 1 \in 1..Len(s) /\ t[i] = s[i + 1] /\ 1 < i + 1
    BY <1>1
  <2> QED BY <1>1, <1>3, <2>1, <2>2 DEF Increasing
<1>4. Increasing(t)
  <2> SUFFICES ASSUME NEW i \in 1..Len(t), NEW j \in 1..Len(t),
                      t[i].what = "resolve", t[j].what = "resolve", i < j
               PROVE  t[i].id < t[j].id
    BY DEF Increasing
  <2>1. i + 1 < j + 1
    OBVIOUS
  <2> QED BY <1>1, <2>1 DEF Increasing
<1> QED BY <1>1, <1>2, <1>3, <1>4 DEF t

\* The resolutions of a sequence without some of its elements.
LEMMA ResWithout ==
  ASSUME NEW S, NEW s \in Seq(S), NEW gone, \A x \in S : x.id \in Nat, Increasing(s)
  PROVE  /\ Increasing(Without(s, gone))
         /\ \A n \in Nat : Res(Without(s, gone), n) => Res(s, n)
         /\ (\A i \in 1..Len(s) : i \in gone => s[i].what # "resolve") =>
              \A n \in Nat : Res(Without(s, gone), n) <=> Res(s, n)
         /\ \A i \in 1..Len(s) : gone = {i} /\ s[i].what = "resolve" =>
              \A n \in Nat : Res(Without(s, gone), n) <=> Res(s, n) /\ n # s[i].id
<1>0. PICK t : t = Without(s, gone)
  OBVIOUS
<1>10. PICK f : Keeps(f, s, gone, t)
  BY <1>0, Remaining
<1>1. /\ \A k \in 1..Len(t) : f[k] \in 1..Len(s) /\ f[k] \notin gone /\ t[k] = s[f[k]]
      /\ \A k, l \in 1..Len(t) : k < l => f[k] < f[l]
      /\ \A k, l \in 1..Len(t) : f[k] = f[l] => k = l
      /\ \A i \in 1..Len(s) : i \notin gone => \E k \in 1..Len(t) : f[k] = i
  BY <1>10 DEF Keeps
<1>2. Increasing(t)
  <2> SUFFICES ASSUME NEW k \in 1..Len(t), NEW l \in 1..Len(t),
                      t[k].what = "resolve", t[l].what = "resolve", k < l
               PROVE  t[k].id < t[l].id
    BY DEF Increasing
  <2>1. f[k] < f[l]
    BY <1>1
  <2>2. /\ f[k] \in 1..Len(s) /\ t[k] = s[f[k]]
        /\ f[l] \in 1..Len(s) /\ t[l] = s[f[l]]
    BY <1>1
  <2> QED BY <2>1, <2>2 DEF Increasing
<1>3. ASSUME NEW n \in Nat, Res(t, n)
      PROVE  Res(s, n)
  <2>1. PICK k \in 1..Len(t) : t[k].what = "resolve" /\ t[k].id = n
    BY <1>3 DEF Res
  <2>2. f[k] \in 1..Len(s) /\ t[k] = s[f[k]]
    BY <1>1
  <2> QED BY <2>1, <2>2 DEF Res
<1>4. ASSUME NEW i \in 1..Len(s), i \notin gone, s[i].what = "resolve"
      PROVE  Res(t, s[i].id)
  <2>1. PICK k \in 1..Len(t) : f[k] = i
    BY <1>1, <1>4
  <2>2. t[k] = s[i]
    BY <1>1, <2>1
  <2> QED BY <1>4, <2>2 DEF Res
<1>5. ASSUME \A i \in 1..Len(s) : i \in gone => s[i].what # "resolve", NEW n \in Nat, Res(s, n)
      PROVE  Res(t, n)
  <2>1. PICK i \in 1..Len(s) : s[i].what = "resolve" /\ s[i].id = n
    BY <1>5 DEF Res
  <2> QED BY <1>4, <1>5, <2>1
<1>6. ASSUME NEW i \in 1..Len(s), gone = {i}, s[i].what = "resolve", NEW n \in Nat
      PROVE  Res(t, n) <=> Res(s, n) /\ n # s[i].id
  <2>1. ASSUME Res(t, n), n = s[i].id
        PROVE  FALSE
    <3>1. PICK k \in 1..Len(t) : t[k].what = "resolve" /\ t[k].id = n
      BY <2>1 DEF Res
    <3>2. f[k] \in 1..Len(s) /\ f[k] # i /\ t[k] = s[f[k]]
      BY <1>1, <1>6
    <3>3. f[k] < i => s[f[k]].id < s[i].id
      BY <1>6, <3>1, <3>2 DEF Increasing
    <3>4. i < f[k] => s[i].id < s[f[k]].id
      BY <1>6, <3>1, <3>2 DEF Increasing
    <3>5. s[f[k]].id = n /\ s[i].id = n /\ n \in Nat
      BY <2>1, <3>1, <3>2
    <3>6. ~(f[k] < i) /\ ~(i < f[k])
      BY <3>3, <3>4, <3>5
    <3> QED BY <3>2, <3>6
  <2>2. ASSUME Res(s, n), n # s[i].id
        PROVE  Res(t, n)
    <3>1. PICK j \in 1..Len(s) : s[j].what = "resolve" /\ s[j].id = n
      BY <2>2 DEF Res
    <3>2. j \notin gone
      BY <1>6, <2>2, <3>1
    <3> QED BY <1>4, <3>1, <3>2
  <2> QED BY <1>3, <2>1, <2>2
<1> QED BY <1>0, <1>2, <1>3, <1>5, <1>6

\* No serial number is ahead of the counter.
LEMMA IdsCount ==
  ASSUME Shapes
  PROVE  /\ \A e \in Asked(nReq) : e.id \in Nat /\ e.id <= nReq
         /\ \A e \in Told(nReq) : e.id \in Nat /\ e.id <= nReq
         /\ \A n \in Nat : Res(queue, n) \/ Res(toMgr, n) \/ Res(pend, n) \/ Res(toStack, n)
                             => n <= nReq
<1>1. nReq \in Nat /\ \A e \in Asked(nReq) \cup Told(nReq) : e.id \in Nat /\ e.id <= nReq
  BY DEF Shapes, Asked, Told
<1>2. \A n \in Nat : Res(queue, n) => n <= nReq
  BY <1>1 DEF Res, Shapes
<1>3. \A n \in Nat : Res(toMgr, n) => n <= nReq
  BY <1>1 DEF Res, Shapes
<1>4. \A n \in Nat : Res(pend, n) => n <= nReq
  BY <1>1 DEF Res, Shapes
<1>5. \A n \in Nat : Res(toStack, n) => n <= nReq
  BY <1>1 DEF Res, Shapes
<1> QED BY <1>1, <1>2, <1>3, <1>4, <1>5

\* A resolution that is told is the oldest under way.
LEMMA ResTaken ==
  ASSUME Shapes, Resolves, NEW m, Take(m)
  PROVE  /\ m \in Told(nReq) /\ m.id \in Nat
         /\ m.what = "resolve" => Res(toMgr, m.id)
         /\ \A n \in Nat : Res(toMgr, n) <=> Res(toMgr', n) \/ (m.what = "resolve" /\ m.id = n)
         /\ m.what = "resolve" => \A n \in Nat : Res(toMgr', n) => m.id < n
         /\ Increasing(toMgr')
<1>1. /\ toMgr \in Seq(Told(nReq)) /\ toMgr # <<>> /\ m = Head(toMgr) /\ toMgr' = Tail(toMgr)
      /\ Increasing(toMgr)
  BY DEF Shapes, Take, Resolves, Sorted
<1>2. m = toMgr[1]
  BY <1>1
<1>3. \A e \in Told(nReq) : e.id \in Nat
  BY IdsCount
<1>4. /\ toMgr[1] \in Told(nReq)
      /\ \A n \in Nat :
           Res(toMgr, n) <=> Res(Tail(toMgr), n) \/ (toMgr[1].what = "resolve" /\ toMgr[1].id = n)
      /\ toMgr[1].what = "resolve" => \A n \in Nat : Res(Tail(toMgr), n) => toMgr[1].id < n
      /\ Increasing(Tail(toMgr))
  BY <1>1, <1>3, ResTail, Zenon
<1>5. m.id \in Nat
  BY <1>2, <1>3, <1>4
<1> QED BY <1>1, <1>2, <1>4, <1>5, Zenon

(* The oldest resolution that waits is the one whose answer comes next.        *)
LEMMA OwnElement ==
  ASSUME Shapes, Resolves, ~full, NEW m, Take(m), m.what = "resolve"
  PROVE  /\ \E i \in FirstMatch(m) : TRUE
         /\ \A i \in FirstMatch(m) : queue[i].what = "resolve" /\ queue[i].id = m.id
<1>1. m.id \in Nat /\ Res(toMgr, m.id)
      /\ \A n \in Nat : Res(toMgr, n) => n >= m.id
  <2>1. /\ m.id \in Nat /\ Res(toMgr, m.id)
        /\ \A n \in Nat : Res(toMgr, n) <=> Res(toMgr', n) \/ m.id = n
        /\ \A n \in Nat : Res(toMgr', n) => m.id < n
    BY ResTaken
  <2>2. ASSUME NEW n \in Nat, Res(toMgr, n)
        PROVE  n >= m.id
    BY <2>1, <2>2
  <2> QED BY <2>1, <2>2
<1>2. \A n \in Nat : Res(queue, n) => n >= m.id
  <2> SUFFICES ASSUME NEW n \in Nat, Res(queue, n)
               PROVE  n >= m.id
    OBVIOUS
  <2>1. CASE Res(toMgr, n)
    BY <1>1, <2>1
  <2>2. CASE Res(pend, n) \/ Res(toStack, n)
    BY <1>1, <2>2 DEF Resolves, InOrder, Before
  <2> QED BY <2>1, <2>2 DEF Resolves, Expected
<1>3. Res(queue, m.id)
  BY <1>1 DEF Resolves, Expected
<1>4. PICK i \in 1..Len(queue) : queue[i].what = "resolve" /\ queue[i].id = m.id
  BY <1>3 DEF Res
<1>5. ASSUME NEW j \in 1..Len(queue), queue[j].what = "resolve"
      PROVE  queue[j].id >= m.id /\ queue[j].id \in Nat
  <2>1. queue[j].id \in Nat
    BY IdsCount DEF Shapes
  <2>2. Res(queue, queue[j].id)
    BY <1>5 DEF Res
  <2> QED BY <1>2, <2>1, <2>2
<1>6. ASSUME NEW j \in 1..Len(queue), queue[j].what = "resolve", j # i
      PROVE  i < j
  <2>1. j < i => queue[j].id < queue[i].id
    BY <1>4, <1>6 DEF Resolves, Sorted, Increasing
  <2>2. ~(j < i)
    BY <1>1, <1>4, <1>5, <1>6, <2>1
  <2> QED BY <1>6, <2>2
<1>7. Matches(queue[i], m)
  <2>1. queue[i] \in Asked(nReq)
    BY DEF Shapes
  <2> QED BY <1>4, <2>1 DEF Matches, Asked
<1>8. i \in FirstMatch(m)
  <2>1. ASSUME NEW j \in 1..i - 1
        PROVE  ~Matches(queue[j], m)
    <3>1. j \in 1..Len(queue) /\ j # i /\ ~(i < j)
      OBVIOUS
    <3> QED BY <1>6, <3>1 DEF Matches
  <2> QED BY <1>7, <2>1 DEF FirstMatch
<1>9. ASSUME NEW j \in FirstMatch(m)
      PROVE  j = i
  <2>1. j \in 1..Len(queue) /\ queue[j].what = "resolve" /\ \A k \in 1..j - 1 : ~Matches(queue[k], m)
    BY DEF FirstMatch, Matches
  <2>2. ~(i < j)
    BY <1>7, <2>1
  <2> QED BY <1>6, <2>1, <2>2
<1> QED BY <1>4, <1>8, <1>9

\* A step that moves no resolution keeps their order.
LEMMA ResolvesSame ==
  ASSUME Resolves, ~full, Sorted',
         \A n \in Nat : Res(queue', n) <=> Res(queue, n),
         \A n \in Nat : Res(toMgr', n) <=> Res(toMgr, n),
         \A n \in Nat : Res(pend', n) <=> Res(pend, n),
         \A n \in Nat : Res(toStack', n) <=> Res(toStack, n)
  PROVE  Resolves'
BY DEF Resolves, InOrder, Before, Expected

\* Commands of the application move no resolution.
LEMMA ResolvesApp ==
  ASSUME Peripheral, Typed, Shapes, Resolves, ~full, AppStep
  PROVE  Resolves'
<1>1. UNCHANGED <<toMgr, pend>>
  BY DEF AppStep, ConfigCmd, MtuCmd, ResetCmd, RssiCmd, SecCmd, Begin, AppAdd, AppSend, AppTake,
     stackVars
<1>2. /\ queue' = queue \/ (queue' = Append(queue, app.req) /\ app.pc # "idle")
      /\ toStack' = toStack \/ (toStack' = Append(toStack, app.req) /\ app.pc # "idle")
  BY DEF AppStep, ConfigCmd, MtuCmd, ResetCmd, RssiCmd, SecCmd, Begin, AppAdd, AppSend, AppTake,
     WaitqueueAdd
<1>3. app.pc # "idle" => app.req \in Asked(nReq) /\ app.req.what # "resolve"
  BY DEF Shapes
<1>4. (\A n \in Nat : Res(queue', n) <=> Res(queue, n)) /\ Increasing(queue')
  <2>1. queue \in Seq(Asked(nReq)) /\ Increasing(queue) /\ \A e \in Asked(nReq) : e.id \in Nat
    BY IdsCount DEF Shapes, Resolves, Sorted
  <2>2. CASE queue' = Append(queue, app.req) /\ app.pc # "idle"
    <3>1. app.req \in Asked(nReq) /\ app.req.what # "resolve"
      BY <1>3, <2>2
    <3>2. /\ \A n \in Nat : Res(Append(queue, app.req), n) <=>
                             Res(queue, n) \/ (app.req.what = "resolve" /\ app.req.id = n)
          /\ Increasing(Append(queue, app.req))
      BY <2>1, <3>1, ResAppend, Zenon
    <3> QED BY <2>2, <3>1, <3>2, Zenon
  <2> QED BY <1>2, <2>1, <2>2
<1>5. (\A n \in Nat : Res(toStack', n) <=> Res(toStack, n)) /\ Increasing(toStack')
  <2>1. toStack \in Seq(Asked(nReq)) /\ Increasing(toStack) /\ \A e \in Asked(nReq) : e.id \in Nat
    BY IdsCount DEF Shapes, Resolves, Sorted
  <2>2. CASE toStack' = Append(toStack, app.req) /\ app.pc # "idle"
    <3>1. app.req \in Asked(nReq) /\ app.req.what # "resolve"
      BY <1>3, <2>2
    <3>2. /\ \A n \in Nat : Res(Append(toStack, app.req), n) <=>
                             Res(toStack, n) \/ (app.req.what = "resolve" /\ app.req.id = n)
          /\ Increasing(Append(toStack, app.req))
      BY <2>1, <3>1, ResAppend, Zenon
    <3> QED BY <2>2, <3>1, <3>2, Zenon
  <2> QED BY <1>2, <2>1, <2>2
<1>6. Sorted'
  BY <1>1, <1>4, <1>5 DEF Resolves, Sorted
<1> QED BY <1>1, <1>4, <1>5, <1>6, ResolvesSame

\* A new resolution comes last everywhere.
LEMMA ResolvesConnected ==
  ASSUME Peripheral, Typed, Shapes, Resolves, ~full, MgrConnected
  PROVE  Resolves'
<1>1. PICK m : /\ Take(m) /\ m.what = "connected"
               /\ \/ Ask(Request("resolve", NoConn, m.conn))
                  \/ UNCHANGED <<queue, full, toStack, nReq>>
  BY DEF MgrConnected
<1>2. UNCHANGED pend
  BY DEF MgrConnected, stackVars
<1>3. m \in Told(nReq) /\ Increasing(toMgr') /\ \A n \in Nat : Res(toMgr', n) <=> Res(toMgr, n)
  BY <1>1, ResTaken
<1>4. CASE UNCHANGED <<queue, full, toStack, nReq>>
  <2>1. Sorted'
    BY <1>2, <1>3, <1>4 DEF Resolves, Sorted
  <2> QED BY <1>2, <1>3, <1>4, <2>1, ResolvesSame
<1>5. CASE Ask(Request("resolve", NoConn, m.conn))
  <2>1. PICK e : e = Request("resolve", NoConn, m.conn)
    OBVIOUS
  <2>2. e \in Asked(nReq + 1) /\ e.what = "resolve" /\ e.id = nReq + 1 /\ nReq \in Nat
    BY <1>1, <1>3, <2>1 DEF Shapes, Asked, Told, Request
  <2>3. WaitqueueAdd(e) /\ toStack' = Append(toStack, e)
    BY <1>5, <2>1 DEF Ask
  <2>4. /\ queue \in Seq(Asked(nReq + 1)) /\ toStack \in Seq(Asked(nReq + 1))
        /\ \A d \in Asked(nReq + 1) : d.id \in Nat
    <3>1. queue \in Seq(Asked(nReq)) /\ toStack \in Seq(Asked(nReq))
      BY DEF Shapes
    <3>2. queue \in Seq(Asked(nReq + 1)) /\ toStack \in Seq(Asked(nReq + 1))
      BY <3>1, <2>2, AskedGrows
    <3>3. \A d \in Asked(nReq + 1) : d.id \in Nat
      BY <2>2 DEF Asked
    <3> QED BY <3>2, <3>3
  <2>5. \A n \in Nat : Res(queue, n) \/ Res(toMgr, n) \/ Res(pend, n) \/ Res(toStack, n)
                         => n < nReq + 1
    <3> TAKE n \in Nat
    <3>1. Res(queue, n) \/ Res(toMgr, n) \/ Res(pend, n) \/ Res(toStack, n) => n <= nReq
      BY IdsCount
    <3> QED BY <2>2, <3>1
  <2>6. /\ \A n \in Nat : Res(toStack', n) <=> Res(toStack, n) \/ n = nReq + 1
        /\ Increasing(toStack')
    <3>1. Increasing(toStack) /\ \A n \in Nat : Res(toStack, n) => n < e.id
      BY <2>2, <2>5 DEF Resolves, Sorted
    <3>2. /\ \A n \in Nat : Res(Append(toStack, e), n) <=>
                             Res(toStack, n) \/ (e.what = "resolve" /\ e.id = n)
          /\ Increasing(Append(toStack, e))
      BY <2>2, <2>4, <3>1, ResAppend, Zenon
    <3> QED BY <2>2, <2>3, <3>2
  <2>7. \/ full' = TRUE /\ queue' = queue
        \/ /\ \A n \in Nat : Res(queue', n) <=> Res(queue, n) \/ n = nReq + 1
           /\ Increasing(queue')
    <3>1. CASE queue' = Append(queue, e)
      <4>1. Increasing(queue) /\ \A n \in Nat : Res(queue, n) => n < e.id
        BY <2>2, <2>5 DEF Resolves, Sorted
      <4>2. /\ \A n \in Nat : Res(Append(queue, e), n) <=>
                               Res(queue, n) \/ (e.what = "resolve" /\ e.id = n)
            /\ Increasing(Append(queue, e))
        BY <2>2, <2>4, <4>1, ResAppend, Zenon
      <4> QED BY <2>2, <3>1, <4>2
    <3>2. CASE full' = TRUE /\ queue' = queue
      BY <3>2
    <3> QED BY <2>3, <3>1, <3>2 DEF WaitqueueAdd
  <2>8. Sorted'
    BY <1>2, <1>3, <2>6, <2>7 DEF Resolves, Sorted
  <2>9. InOrder'
    <3>1. Before(toMgr', pend')
      BY <1>2, <1>3 DEF Resolves, InOrder, Before
    <3>2. Before(toMgr', toStack')
      BY <1>3, <2>5, <2>6 DEF Resolves, InOrder, Before
    <3>3. Before(pend', toStack')
      BY <1>2, <2>5, <2>6 DEF Resolves, InOrder, Before
    <3> QED BY <3>1, <3>2, <3>3 DEF InOrder
  <2>10. full' \/ Expected'
    <3>1. CASE full' = TRUE
      BY <3>1
    <3>2. CASE \A n \in Nat : Res(queue', n) <=> Res(queue, n) \/ n = nReq + 1
      BY <1>2, <1>3, <2>6, <3>2 DEF Resolves, Expected
    <3> QED BY <2>7, <3>1, <3>2
  <2> QED BY <2>8, <2>9, <2>10 DEF Resolves
<1> QED BY <1>1, <1>4, <1>5

(* At most one element of a link waits, that of the command of the application. *)
LEMMA FlushRemoves ==
  ASSUME Shapes, OneElem, NEW c \in Conns
  PROVE  /\ Removed(queue, c) = {i \in 1..Len(queue) : queue[i].conn = c}
         /\ \A i \in Removed(queue, c) : i \in 1..Len(queue) /\ queue[i].what = "rssi"
<1>1. queue \in Seq(Asked(nReq)) /\ c # NoConn
  BY ConnsAssumption DEF Shapes
<1>2. \A i \in 1..Len(queue) : queue[i].conn = c => queue[i].what = "rssi"
  BY <1>1 DEF Asked
<1>3. ASSUME NEW i \in 2..Len(queue), queue[i - 1].conn = c, queue[i].conn = c
      PROVE  FALSE
  <2>1. i - 1 \in 1..Len(queue) /\ i \in 1..Len(queue) /\ i - 1 # i
    BY <1>1
  <2>2. queue[i - 1].what = "rssi" /\ queue[i].what = "rssi"
    BY <1>2, <1>3, <2>1
  <2> QED BY <2>1, <2>2 DEF OneElem
<1>4. Removed(queue, c) = {i \in 1..Len(queue) : queue[i].conn = c}
  BY <1>1, <1>3, RemovedExactly
<1> QED BY <1>2, <1>4

\* A flush removes no resolution: they wait under no connection.
LEMMA ResolvesDisconnected ==
  ASSUME Typed, Shapes, Answers, Resolves, ~full, MgrDisconnected
  PROVE  Resolves'
<1>1. PICK m : /\ Take(m) /\ m.what = "disconnected" /\ m.conn \in devs
               /\ queue' = Without(queue, Removed(queue, m.conn))
               /\ UNCHANGED <<toStack, pend>>
  BY DEF MgrDisconnected, stackVars
<1> DEFINE gone == Removed(queue, m.conn)
<1>2. \A i \in 1..Len(queue) : i \in gone => queue[i].what # "resolve"
  BY <1>1, FlushRemoves DEF Typed, TypeOK, Answers
<1> HIDE DEF gone
<1>3. queue \in Seq(Asked(nReq)) /\ Increasing(queue) /\ \A e \in Asked(nReq) : e.id \in Nat
  BY IdsCount DEF Shapes, Resolves, Sorted
<1>4. Increasing(queue') /\ \A n \in Nat : Res(queue', n) <=> Res(queue, n)
  <2>1. queue' = Without(queue, gone)
    BY <1>1 DEF gone
  <2>2. /\ Increasing(Without(queue, gone))
        /\ \A n \in Nat : Res(Without(queue, gone), n) <=> Res(queue, n)
    BY <1>2, <1>3, ResWithout, Zenon
  <2> QED BY <2>1, <2>2, Zenon
<1>5. Increasing(toMgr') /\ \A n \in Nat : Res(toMgr', n) <=> Res(toMgr, n)
  BY <1>1, ResTaken
<1>6. Sorted'
  BY <1>1, <1>4, <1>5 DEF Resolves, Sorted
<1> QED BY <1>1, <1>4, <1>5, <1>6, ResolvesSame

\* The resolution that is answered leaves the queue and the messages together.
LEMMA ResolvesMatch ==
  ASSUME Typed, Shapes, Resolves, ~full, MgrMatch
  PROVE  Resolves'
<1>1. PICK m : /\ Take(m) /\ \E i \in FirstMatch(m) : queue' = Without(queue, {i})
               /\ UNCHANGED <<toStack, pend, full>>
  BY DEF MgrMatch, stackVars
<1>2. PICK i \in FirstMatch(m) : queue' = Without(queue, {i})
  BY <1>1
<1>3. /\ queue \in Seq(Asked(nReq)) /\ Increasing(queue) /\ \A e \in Asked(nReq) : e.id \in Nat
      /\ i \in 1..Len(queue) /\ queue[i].what = m.what
  BY IdsCount, FirstInQueue DEF Shapes, Resolves, Sorted
<1> DEFINE gone == {i}
<1>4. gone = {i} /\ queue' = Without(queue, gone)
  BY <1>2
<1> HIDE DEF gone
<1>5. /\ Increasing(queue')
      /\ (\A j \in 1..Len(queue) : j \in gone => queue[j].what # "resolve") =>
              \A n \in Nat : Res(queue', n) <=> Res(queue, n)
      /\ \A j \in 1..Len(queue) : gone = {j} /\ queue[j].what = "resolve" =>
              \A n \in Nat : Res(queue', n) <=> Res(queue, n) /\ n # queue[j].id
  <2>1. /\ Increasing(Without(queue, gone))
        /\ (\A j \in 1..Len(queue) : j \in gone => queue[j].what # "resolve") =>
              \A n \in Nat : Res(Without(queue, gone), n) <=> Res(queue, n)
        /\ \A j \in 1..Len(queue) : gone = {j} /\ queue[j].what = "resolve" =>
              \A n \in Nat : Res(Without(queue, gone), n) <=> Res(queue, n) /\ n # queue[j].id
    BY <1>3, ResWithout, Zenon
  <2> QED BY <1>4, <2>1, Zenon
<1>6. /\ m.id \in Nat /\ (m.what = "resolve" => Res(toMgr, m.id)) /\ Increasing(toMgr')
      /\ \A n \in Nat : Res(toMgr, n) <=> Res(toMgr', n) \/ (m.what = "resolve" /\ m.id = n)
      /\ m.what = "resolve" => \A n \in Nat : Res(toMgr', n) => m.id < n
  BY <1>1, ResTaken
<1>7. Sorted'
  BY <1>1, <1>5, <1>6 DEF Resolves, Sorted
<1>8. CASE m.what # "resolve"
  <2>1. \A n \in Nat : Res(queue', n) <=> Res(queue, n)
    BY <1>3, <1>4, <1>5, <1>8
  <2>2. \A n \in Nat : Res(toMgr', n) <=> Res(toMgr, n)
    BY <1>6, <1>8
  <2> QED BY <1>1, <1>7, <2>1, <2>2, ResolvesSame
<1>9. CASE m.what = "resolve"
  <2>1. queue[i].id = m.id
    BY <1>1, <1>9, OwnElement
  <2>2. \A n \in Nat : Res(queue', n) <=> Res(queue, n) /\ n # m.id
    BY <1>3, <1>4, <1>5, <1>9, <2>1
  <2>3. \A n \in Nat : Res(toMgr', n) => Res(toMgr, n) /\ n # m.id
    BY <1>6, <1>9
  <2>4. InOrder'
    BY <1>1, <2>3 DEF Resolves, InOrder, Before
  <2>5. \A n \in Nat : Res(pend, n) \/ Res(toStack, n) => n # m.id
    BY <1>6, <1>9 DEF Resolves, InOrder, Before
  <2>6. Expected'
    <3> SUFFICES ASSUME NEW n \in Nat
                 PROVE  Res(queue', n) <=> Res(toMgr', n) \/ Res(pend', n) \/ Res(toStack', n)
      BY DEF Expected
    <3>1. Res(queue, n) <=> Res(toMgr, n) \/ Res(pend, n) \/ Res(toStack, n)
      BY DEF Resolves, Expected
    <3>2. Res(toMgr', n) <=> Res(toMgr, n) /\ n # m.id
      BY <1>6, <2>3
    <3>3. (Res(pend', n) <=> Res(pend, n)) /\ (Res(toStack', n) <=> Res(toStack, n))
      BY <1>1
    <3> QED BY <2>2, <2>5, <3>1, <3>2, <3>3
  <2> QED BY <1>7, <2>4, <2>6 DEF Resolves
<1> QED BY <1>8, <1>9

\* The answer of a resolution is never ignored.
LEMMA ResolvesIgnore ==
  ASSUME Typed, Shapes, Resolves, ~full, MgrIgnore
  PROVE  Resolves'
<1>1. PICK m : /\ Take(m) /\ UNCHANGED <<queue, toStack, pend>>
               /\ m.what = "resolve" => FirstMatch(m) = {}
  BY DEF MgrIgnore, MgrSide, stackVars, Dropped, Shapes
<1>2. m.what # "resolve"
  BY <1>1, OwnElement
<1>3. Increasing(toMgr') /\ \A n \in Nat : Res(toMgr', n) <=> Res(toMgr, n)
  BY <1>1, <1>2, ResTaken
<1>4. Sorted'
  BY <1>1, <1>3 DEF Resolves, Sorted
<1> QED BY <1>1, <1>3, <1>4, ResolvesSame

\* The stack takes the oldest resolution that was sent.
LEMMA ResolvesStackTake ==
  ASSUME Typed, Shapes, Resolves, ~full, StackTake
  PROVE  Resolves'
<1>1. /\ toStack \in Seq(Asked(nReq)) /\ pend \in Seq(Asked(nReq))
      /\ toStack # <<>> /\ toStack' = Tail(toStack)
      /\ Increasing(toStack) /\ Increasing(pend) /\ \A x \in Asked(nReq) : x.id \in Nat
  BY IdsCount DEF Shapes, StackTake, Resolves, Sorted
<1>2. /\ toStack[1] \in Asked(nReq)
      /\ \/ pend' = pend /\ ConnOf(toStack[1]) # NoConn
         \/ pend' = Append(pend, toStack[1])
      /\ UNCHANGED <<queue, toMgr>>
  BY StackTakes
<1>3. PICK e : e = toStack[1]
  OBVIOUS
<1>4. /\ \A n \in Nat : Res(toStack, n) <=> Res(toStack', n) \/ (e.what = "resolve" /\ e.id = n)
      /\ e.what = "resolve" => \A n \in Nat : Res(toStack', n) => e.id < n
      /\ Increasing(toStack')
  <2>1. /\ \A n \in Nat : Res(toStack, n) <=>
                  Res(Tail(toStack), n) \/ (toStack[1].what = "resolve" /\ toStack[1].id = n)
        /\ toStack[1].what = "resolve" => \A n \in Nat : Res(Tail(toStack), n) => toStack[1].id < n
        /\ Increasing(Tail(toStack))
    BY <1>1, ResTail, Zenon
  <2> QED BY <1>1, <1>3, <2>1, Zenon
<1>5. e.id \in Nat /\ (e.what = "resolve" => Res(toStack, e.id))
  BY <1>1, <1>2, <1>3, <1>4
<1>6. /\ \A n \in Nat : Res(pend', n) <=> Res(pend, n) \/ (e.what = "resolve" /\ e.id = n)
      /\ Increasing(pend')
  <2>1. CASE pend' = pend /\ ConnOf(e) # NoConn
    BY <1>1, <2>1 DEF ConnOf
  <2>2. CASE pend' = Append(pend, e)
    <3>1. e.what = "resolve" => \A n \in Nat : Res(pend, n) => n < e.id
      BY <1>5 DEF Resolves, InOrder, Before
    <3>2. e \in Asked(nReq)
      BY <1>2, <1>3
    <3>3. /\ \A n \in Nat : Res(Append(pend, e), n) <=> Res(pend, n) \/ (e.what = "resolve" /\ e.id = n)
          /\ Increasing(Append(pend, e))
      BY <1>1, <3>1, <3>2, ResAppend, Zenon
    <3> QED BY <2>2, <3>3, Zenon
  <2> QED BY <1>2, <1>3, <2>1, <2>2
<1>7. Sorted'
  BY <1>2, <1>4, <1>6 DEF Resolves, Sorted
<1>8. \A n \in Nat : Res(pend', n) \/ Res(toStack', n) <=> Res(pend, n) \/ Res(toStack, n)
  BY <1>4, <1>6
<1>9. Expected'
  BY <1>2, <1>8 DEF Resolves, Expected
<1>10. Before(toMgr', pend') /\ Before(toMgr', toStack')
  BY <1>2, <1>8 DEF Resolves, InOrder, Before
<1>11. Before(pend', toStack')
  <2> SUFFICES ASSUME NEW k \in Nat, NEW n \in Nat, Res(pend', k), Res(toStack', n)
               PROVE  k < n
    BY DEF Before
  <2>1. Res(toStack, n)
    BY <1>4
  <2>2. CASE Res(pend, k)
    BY <2>1, <2>2 DEF Resolves, InOrder, Before
  <2>3. CASE e.what = "resolve" /\ e.id = k
    BY <1>4, <2>3
  <2> QED BY <1>6, <2>2, <2>3
<1> QED BY <1>7, <1>9, <1>10, <1>11 DEF Resolves, InOrder

\* The stack answers the oldest resolution that is pending.
LEMMA ResolvesStackAnswer ==
  ASSUME Typed, Shapes, Resolves, ~full, StackAnswer
  PROVE  Resolves'
<1>1. PICK i \in 1..Len(pend) :
        /\ \A j \in 1..i - 1 : pend[j].what # pend[i].what \/ ConnOf(pend[j]) # ConnOf(pend[i])
        /\ pend' = Without(pend, {i})
        /\ toMgr' = Append(toMgr, Message(pend[i].what,
                           IF ConnOf(pend[i]) = NoConn THEN 0 ELSE pend[i].conn, pend[i].id))
        /\ UNCHANGED <<queue, toStack>>
  BY DEF StackAnswer, MgrSide
<1>2. PICK m : /\ m = Message(pend[i].what, IF ConnOf(pend[i]) = NoConn THEN 0 ELSE pend[i].conn,
                              pend[i].id)
               /\ toMgr' = Append(toMgr, m)
  BY <1>1
<1>3. /\ pend \in Seq(Asked(nReq)) /\ Increasing(pend) /\ \A x \in Asked(nReq) : x.id \in Nat
      /\ toMgr \in Seq(Told(nReq)) /\ Increasing(toMgr) /\ \A x \in Told(nReq) : x.id \in Nat
  BY IdsCount DEF Shapes, Resolves, Sorted
<1>4. m.what = pend[i].what /\ m.id = pend[i].id /\ m.id \in Nat /\ m \in Told(nReq)
  <2>1. pend[i] \in Asked(nReq)
    BY <1>3
  <2> QED BY <1>2, <1>3, <2>1, ConnsAssumption DEF Message, Asked, Told, ConnOf
<1>5. m.what = "resolve" => Res(pend, m.id)
  BY <1>4 DEF Res
<1> DEFINE gone == {i}
<1>6. gone = {i} /\ pend' = Without(pend, gone)
  BY <1>1
<1> HIDE DEF gone
<1>7. /\ Increasing(pend')
      /\ (\A j \in 1..Len(pend) : j \in gone => pend[j].what # "resolve") =>
              \A n \in Nat : Res(pend', n) <=> Res(pend, n)
      /\ \A j \in 1..Len(pend) : gone = {j} /\ pend[j].what = "resolve" =>
              \A n \in Nat : Res(pend', n) <=> Res(pend, n) /\ n # pend[j].id
  <2>1. /\ Increasing(Without(pend, gone))
        /\ (\A j \in 1..Len(pend) : j \in gone => pend[j].what # "resolve") =>
              \A n \in Nat : Res(Without(pend, gone), n) <=> Res(pend, n)
        /\ \A j \in 1..Len(pend) : gone = {j} /\ pend[j].what = "resolve" =>
              \A n \in Nat : Res(Without(pend, gone), n) <=> Res(pend, n) /\ n # pend[j].id
    BY <1>3, ResWithout, Zenon
  <2> QED BY <1>6, <2>1, Zenon
<1>8. /\ \A n \in Nat : Res(toMgr', n) <=> Res(toMgr, n) \/ (m.what = "resolve" /\ m.id = n)
      /\ Increasing(toMgr')
  <2>1. m.what = "resolve" => \A n \in Nat : Res(toMgr, n) => n < m.id
    BY <1>4, <1>5 DEF Resolves, InOrder, Before
  <2>2. /\ \A n \in Nat : Res(Append(toMgr, m), n) <=>
                          Res(toMgr, n) \/ (m.what = "resolve" /\ m.id = n)
        /\ Increasing(Append(toMgr, m))
    BY <1>3, <1>4, <2>1, ResAppend, Zenon
  <2> QED BY <1>2, <2>2, Zenon
<1>9. Sorted'
  BY <1>1, <1>7, <1>8 DEF Resolves, Sorted
<1>10. CASE m.what # "resolve"
  <2>1. \A n \in Nat : Res(pend', n) <=> Res(pend, n)
    BY <1>4, <1>6, <1>7, <1>10
  <2>2. \A n \in Nat : Res(toMgr', n) <=> Res(toMgr, n)
    BY <1>8, <1>10
  <2> QED BY <1>1, <1>9, <2>1, <2>2, ResolvesSame
<1>11. CASE m.what = "resolve"
  <2>1. \A n \in Nat : Res(pend', n) <=> Res(pend, n) /\ n # m.id
    BY <1>4, <1>6, <1>7, <1>11
  <2>2. ASSUME NEW n \in Nat, Res(pend, n)
        PROVE  n >= m.id
    <3>1. PICK j \in 1..Len(pend) : pend[j].what = "resolve" /\ pend[j].id = n
      BY <2>2 DEF Res
    <3>2. ConnOf(pend[i]) = ConnOf(pend[j])
      BY <1>4, <1>11, <3>1 DEF ConnOf
    <3>3. ~(j \in 1..i - 1)
      BY <1>1, <1>4, <1>11, <3>1, <3>2
    <3>4. i = j \/ i < j
      BY <3>3
    <3>5. i < j => pend[i].id < pend[j].id
      BY <1>3, <1>4, <1>11, <3>1 DEF Increasing
    <3> QED BY <1>4, <3>1, <3>4, <3>5
  <2>3. ASSUME NEW n \in Nat
        PROVE  /\ Res(toMgr', n) <=> Res(toMgr, n) \/ n = m.id
               /\ Res(pend', n) <=> Res(pend, n) /\ n # m.id
               /\ Res(pend', n) => m.id < n
    BY <1>4, <1>8, <1>11, <2>1, <2>2
  <2>4. Before(toMgr', pend')
    BY <2>3 DEF Resolves, InOrder, Before
  <2>5. Before(toMgr', toStack')
    <3> SUFFICES ASSUME NEW k \in Nat, NEW n \in Nat, Res(toMgr', k), Res(toStack', n)
                 PROVE  k < n
      BY DEF Before
    <3>1. Res(toStack, n) /\ (Res(toMgr, k) \/ Res(pend, k))
      BY <1>1, <1>5, <1>11, <2>3
    <3> QED BY <3>1 DEF Resolves, InOrder, Before
  <2>6. Before(pend', toStack')
    BY <1>1, <2>3 DEF Resolves, InOrder, Before
  <2>7. Expected'
    <3> SUFFICES ASSUME NEW n \in Nat
                 PROVE  Res(queue', n) <=> Res(toMgr', n) \/ Res(pend', n) \/ Res(toStack', n)
      BY DEF Expected
    <3>1. Res(queue, n) <=> Res(toMgr, n) \/ Res(pend, n) \/ Res(toStack, n)
      BY DEF Resolves, Expected
    <3>2. (Res(queue', n) <=> Res(queue, n)) /\ (Res(toStack', n) <=> Res(toStack, n))
      BY <1>1
    <3>3. n = m.id => Res(pend, n)
      BY <1>5, <1>11
    <3> QED BY <2>3, <3>1, <3>2, <3>3
  <2> QED BY <1>9, <2>4, <2>5, <2>6, <2>7 DEF Resolves, InOrder
<1> QED BY <1>10, <1>11

\* Links that come and go move no resolution.
LEMMA ResolvesLink ==
  ASSUME Typed, Shapes, Resolves, ~full, NEW c \in Conns, LinkUp(c) \/ LinkDown(c)
  PROVE  Resolves'
<1>1. PICK m : /\ toMgr' = Append(toMgr, m) /\ m.what # "resolve" /\ m \in Told(nReq)
               /\ UNCHANGED <<queue, toStack>>
  <2>1. Message("connected", c, 0) \in Told(nReq) /\ Message("disconnected", c, 0) \in Told(nReq)
    BY DEF Message, Told
  <2> QED BY <2>1 DEF LinkUp, LinkDown, MgrSide, Message
<1>2. /\ toMgr \in Seq(Told(nReq)) /\ Increasing(toMgr) /\ \A x \in Told(nReq) : x.id \in Nat
      /\ pend \in Seq(Asked(nReq)) /\ Increasing(pend) /\ \A x \in Asked(nReq) : x.id \in Nat
  BY IdsCount DEF Shapes, Resolves, Sorted
<1>3. Increasing(toMgr') /\ \A n \in Nat : Res(toMgr', n) <=> Res(toMgr, n)
  <2>1. /\ \A n \in Nat : Res(Append(toMgr, m), n) <=>
                          Res(toMgr, n) \/ (m.what = "resolve" /\ m.id = n)
        /\ Increasing(Append(toMgr, m))
    BY <1>1, <1>2, ResAppend, Zenon
  <2> QED BY <1>1, <2>1, Zenon
<1>4. Increasing(pend') /\ \A n \in Nat : Res(pend', n) <=> Res(pend, n)
  <2>1. CASE pend' = pend
    BY <1>2, <2>1
  <2>2. CASE LinkDown(c)
    <3> DEFINE gone == {i \in DOMAIN pend : ConnOf(pend[i]) = c}
    <3>1. \A i \in 1..Len(pend) : i \in gone => pend[i].what # "resolve"
      BY ConnsAssumption DEF ConnOf
    <3>2. pend' = Without(pend, gone)
      BY <2>2 DEF LinkDown
    <3> HIDE DEF gone
    <3>3. /\ Increasing(Without(pend, gone))
          /\ \A n \in Nat : Res(Without(pend, gone), n) <=> Res(pend, n)
      BY <1>2, <3>1, ResWithout, Zenon
    <3> QED BY <3>2, <3>3, Zenon
  <2> QED BY <2>1, <2>2 DEF LinkUp
<1>5. Sorted'
  BY <1>1, <1>3, <1>4 DEF Resolves, Sorted
<1> QED BY <1>1, <1>3, <1>4, <1>5, ResolvesSame

\* Every step keeps the resolutions in order, from the queue to their answers.
LEMMA ResolvesNext ==
  Peripheral /\ Typed /\ Shapes /\ Answers /\ Resolves /\ [Next]_vars => Resolves'
<1> SUFFICES ASSUME Peripheral, Typed, Shapes, Answers, Resolves, [Next]_vars
             PROVE  Resolves'
  OBVIOUS
<1>1. CASE UNCHANGED vars
  <2>1. UNCHANGED <<queue, toMgr, pend, toStack, full>>
    BY <1>1 DEF vars, MgrSide, stackVars
  <2>2. Sorted' /\ InOrder'
    BY <2>1 DEF Resolves, Sorted, InOrder
  <2>3. full' \/ Expected'
    BY <2>1 DEF Resolves, Expected
  <2> QED BY <2>2, <2>3 DEF Resolves
<1>2. CASE Next /\ MgrStep
  <2>1. ASSUME MgrSecurity PROVE FALSE
    <3>1. PICK m : Take(m) /\ m.what = "security"
      BY <2>1 DEF MgrSecurity
    <3> QED BY <3>1, TakeShaped DEF Told
  <2>2. ~full
    BY <1>2 DEF Next
  <2> QED BY <1>2, <2>1, <2>2, ResolvesConnected, ResolvesDisconnected, ResolvesMatch,
             ResolvesIgnore DEF MgrStep
<1>3. CASE Next /\ StackStep
  <2>1. ~full
    BY <1>3 DEF Next
  <2> QED BY <1>3, <2>1, ResolvesStackTake, ResolvesStackAnswer, ResolvesLink
          DEF StackStep, SecurityRequest, Peripheral
<1>4. CASE Next /\ AppStep
  BY <1>4, ResolvesApp DEF Next
<1> QED BY <1>1, <1>2, <1>3, <1>4 DEF Next

-----------------------------------------------------------------------------
\* Where the answer to a request of a peripheral still can come from.
Coming(req) ==
  \/ \E i \in 1..Len(toStack) : toStack[i] = req
  \/ \E i \in 1..Len(pend) : pend[i] = req
  \/ \E i \in 1..Len(toMgr) : toMgr[i].what = req.what /\ toMgr[i].id = req.id
  \/ req.what = "rssi" /\ Tells("disconnected", req.conn)

\* A task that is blocked is answered: either its answer is under way, or its link has gone
\* and the flush is coming, for which the manager must still know the link.
Known == app.pc # "idle" /\ rsp = NoRsp /\ app.req.what = "rssi" =>
           tooLate \/ app.req.conn \in devs
Awaited == Blocked => tooLate \/ Coming(app.req)
Served == Known /\ Awaited

\* Callbacks that leave the response queue empty answered no command.
LEMMA FiresOthers ==
  ASSUME Typed, NEW removed \in SUBSET (1..Len(queue)), NEW by \in Ids,
         Fire({[req |-> queue[i], by |-> by] : i \in removed}), rsp' = NoRsp
  PROVE  rsp = NoRsp /\ \A i \in removed : queue[i].what \notin Answering
<1> DEFINE calls == {[req |-> queue[i], by |-> by] : i \in removed}
<1>0. queue \in Seq(Requests)
  BY DEF Typed, TypeOK
<1>1. calls \in SUBSET Calls
  <2>1. \A i \in removed : queue[i] \in Requests
    BY <1>0
  <2>2. \A i \in removed : [req |-> queue[i], by |-> by] \in Calls
    BY <2>1 DEF Calls
  <2> QED BY <2>2
<1>2. \A i \in removed : \E k \in calls : k.req = queue[i]
  <2> TAKE i \in removed
  <2>1. [req |-> queue[i], by |-> by] \in calls
    OBVIOUS
  <2>2. [req |-> queue[i], by |-> by].req = queue[i]
    OBVIOUS
  <2> HIDE DEF calls
  <2> QED BY <2>1, <2>2
<1>3. Fire(calls)
  OBVIOUS
<1> HIDE DEF calls
<1>4. \A k \in calls : k.req.what \notin Answering
  BY <1>1, <1>3, FireTyped
<1>5. rsp' = rsp
  BY <1>1, <1>3, <1>4, FireTyped
<1> QED BY <1>2, <1>4, <1>5

\* The element of a command that was sent and not answered is in the queue.
LEMMA ElementWaits ==
  ASSUME Shapes, CallerInv, ~full, rsp = NoRsp, app.pc \in {"send", "wait"}
  PROVE  \E k \in 1..Len(queue) : queue[k] = app.req
<1>1. app.req.what \in Answering
  BY DEF Shapes, Asked, Answering
<1> QED BY <1>1 DEF CallerInv, HasWaiter

\* A message that is not about a request leaves its answer under way.
LEMMA ComingTaken ==
  ASSUME Shapes, NEW m, Take(m), Coming(app.req), UNCHANGED <<app, pend>>,
         \A i \in 1..Len(toStack) : i \in 1..Len(toStack') /\ toStack'[i] = toStack[i],
         ~(m.what = app.req.what /\ m.id = app.req.id),
         ~(m.what = "disconnected" /\ app.req.what = "rssi" /\ m.conn = app.req.conn)
  PROVE  Coming(app.req)'
<1>1. /\ m = toMgr[1] /\ Len(toMgr) \in Nat \ {0}
      /\ \A i \in 1..Len(toMgr) : i > 1 => i - 1 \in 1..Len(toMgr') /\ toMgr'[i - 1] = toMgr[i]
  BY TakeShaped
<1>2. \A i \in 1..Len(toMgr) : toMgr[i] = m \/ \E j \in 1..Len(toMgr') : toMgr'[j] = toMgr[i]
  <2> TAKE i \in 1..Len(toMgr)
  <2>1. i = 1 \/ i > 1
    OBVIOUS
  <2> QED BY <1>1, <2>1
<1>3. CASE \E i \in 1..Len(toStack) : toStack[i] = app.req
  BY <1>3 DEF Coming
<1>4. CASE \E i \in 1..Len(pend) : pend[i] = app.req
  BY <1>4 DEF Coming
<1>5. CASE \E i \in 1..Len(toMgr) : toMgr[i].what = app.req.what /\ toMgr[i].id = app.req.id
  BY <1>2, <1>5 DEF Coming
<1>6. CASE app.req.what = "rssi" /\ Tells("disconnected", app.req.conn)
  BY <1>2, <1>6 DEF Coming, Tells
<1> QED BY <1>3, <1>4, <1>5, <1>6 DEF Coming

\* A command is for a device of the storage, and its request is under way once sent.
LEMMA ServedApp ==
  ASSUME Peripheral, Typed, Shapes, Answers, Served, AppStep
  PROVE  Served'
<1>1. ASSUME NEW req, Begin(req), req.what = "rssi" => req.conn \in devs
      PROVE  Served'
  <2>1. app' = [pc |-> "add", req |-> req] /\ UNCHANGED <<devs, rsp>>
    BY <1>1 DEF Begin
  <2>2. app'.pc = "add" /\ app'.req = req
    BY <2>1
  <2> QED BY <1>1, <2>1, <2>2 DEF Served, Known, Awaited, Blocked
<1>2. ASSUME AppAdd
      PROVE  Served'
  <2>1. /\ app' = [app EXCEPT !.pc = "send"] /\ app.pc = "add"
        /\ UNCHANGED <<devs, rsp, tooLate>>
    BY <1>2 DEF AppAdd
  <2>2. app'.pc = "send" /\ app'.req = app.req
    BY <2>1 DEF Shapes
  <2> QED BY <2>1, <2>2 DEF Served, Known, Awaited, Blocked
<1>3. ASSUME AppSend
      PROVE  Served'
  <2>1. app.pc = "send" /\ toStack' = Append(toStack, app.req) /\ UNCHANGED <<devs, rsp, tooLate>>
    BY <1>3 DEF AppSend
  <2>2. app.req.what \in Answering
    BY <2>1 DEF Shapes, Asked, Answering
  <2>3. app' = [app EXCEPT !.pc = "wait"]
    BY <1>3, <2>2 DEF AppSend
  <2>4. app'.pc = "wait" /\ app'.req = app.req
    BY <2>3 DEF Shapes
  <2>5. Coming(app.req)'
    <3>1. toStack \in Seq(Asked(nReq))
      BY DEF Shapes
    <3>2. Len(toStack) + 1 \in 1..Len(toStack') /\ toStack'[Len(toStack) + 1] = app'.req
      BY <2>1, <2>4, <3>1
    <3> QED BY <3>2 DEF Coming
  <2> QED BY <2>1, <2>4, <2>5 DEF Served, Known, Awaited
<1>4. ASSUME AppTake
      PROVE  Served'
  <2>1. app'.pc = "idle"
    BY <1>4 DEF AppTake, Idle
  <2> QED BY <2>1 DEF Served, Known, Awaited, Blocked
<1>5. ASSUME NEW c \in Conns, RssiCmd(c)
      PROVE  Served'
  <2>1. Begin(Request("rssi", c, c)) /\ c \in devs
    BY <1>5 DEF RssiCmd
  <2> QED BY <1>1, <2>1 DEF Request
<1>6. ASSUME ConfigCmd
      PROVE  Served'
  <2>1. Begin(Request("config", NoConn, NoConn))
    BY <1>6 DEF ConfigCmd
  <2> QED BY <1>1, <2>1 DEF Request
<1> QED BY <1>2, <1>3, <1>4, <1>5, <1>6 DEF AppStep, MtuCmd, ResetCmd, SecCmd, Peripheral

\* A new connection leaves the request under way.
LEMMA ServedConnected ==
  ASSUME Typed, Shapes, Answers, Served, MgrConnected
  PROVE  Served'
<1>1. PICK m : /\ Take(m) /\ m.what = "connected" /\ devs \subseteq devs'
               /\ toStack' = toStack \/ \E e : toStack' = Append(toStack, e)
               /\ UNCHANGED <<app, rsp, tooLate, pend>>
  BY DEF MgrConnected, Ask, stackVars
<1>2. \A i \in 1..Len(toStack) : i \in 1..Len(toStack') /\ toStack'[i] = toStack[i]
  <2>1. toStack \in Seq(Asked(nReq))
    BY DEF Shapes
  <2>2. ASSUME NEW e, toStack' = Append(toStack, e)
        PROVE  \A i \in 1..Len(toStack) : i \in 1..Len(toStack') /\ toStack'[i] = toStack[i]
    BY <2>1, <2>2, SendShaped
  <2> QED BY <1>1, <2>2
<1>3. Blocked => app.req.what # "connected"
  BY DEF Blocked, Shapes, Asked
<1>4. Blocked /\ Coming(app.req) => Coming(app.req)'
  BY <1>1, <1>2, <1>3, ComingTaken
<1> QED BY <1>1, <1>4 DEF Served, Known, Awaited, Blocked

\* A flush answers a caller of the link, or the link was lost too early.
LEMMA ServedDisconnected ==
  ASSUME Typed, Shapes, Answers, CallerInv, ~full, Served, MgrDisconnected
  PROVE  Served'
<1>1. PICK m : /\ Take(m) /\ m.what = "disconnected" /\ m.conn \in devs /\ devs' = devs \ {m.conn}
               /\ Fire({[req |-> queue[i], by |-> 0] : i \in Removed(queue, m.conn)})
               /\ tooLate' = (tooLate \/ (app.pc = "add" /\ app.req.conn = m.conn))
               /\ UNCHANGED <<app, toStack, pend>>
  BY DEF MgrDisconnected, stackVars
<1> SUFFICES ASSUME rsp' = NoRsp
             PROVE  Served'
  BY DEF Served, Known, Awaited, Blocked
<1>2. /\ Removed(queue, m.conn) = {i \in 1..Len(queue) : queue[i].conn = m.conn}
      /\ \A i \in Removed(queue, m.conn) : i \in 1..Len(queue) /\ queue[i].what = "rssi"
  BY <1>1, FlushRemoves DEF Typed, TypeOK, Answers
<1>3. rsp = NoRsp /\ \A i \in Removed(queue, m.conn) : queue[i].what \notin Answering
  <2> DEFINE gone == Removed(queue, m.conn)
  <2>1. gone \in SUBSET (1..Len(queue)) /\ Fire({[req |-> queue[i], by |-> 0] : i \in gone})
    BY <1>1, <1>2
  <2>2. 0 \in Ids
    BY QueueAssumption DEF Ids
  <2> HIDE DEF gone
  <2>3. rsp = NoRsp /\ \A i \in gone : queue[i].what \notin Answering
    BY <2>1, <2>2, FiresOthers
  <2> QED BY <2>3 DEF gone
<1>4. \A i \in 1..Len(queue) : queue[i].conn # m.conn
  BY <1>2, <1>3 DEF Answering
<1>5. app.pc \in {"send", "wait"} => app.req.conn # m.conn
  BY <1>3, <1>4, ElementWaits
<1>6. Known'
  BY <1>1, <1>3, <1>5 DEF Served, Known, Shapes
<1>7. Awaited'
  <2> SUFFICES ASSUME Blocked', ~tooLate
               PROVE  Coming(app.req)'
    BY <1>1 DEF Awaited
  <2>1. app.pc = "wait" /\ Coming(app.req)
    BY <1>1, <1>3 DEF Blocked, Served, Awaited
  <2>2. app.req.what # "disconnected" /\ app.req.conn # m.conn
    BY <1>5, <2>1 DEF Shapes, Asked
  <2> QED BY <1>1, <2>1, <2>2, ComingTaken
<1> QED BY <1>6, <1>7 DEF Served

\* A match that answers no caller leaves its request under way.
LEMMA ServedMatch ==
  ASSUME Typed, Shapes, Answers, Served, MgrMatch
  PROVE  Served'
<1>1. PICK m \in Messages :
        /\ Take(m)
        /\ \E i \in FirstMatch(m) : Fire({[req |-> queue[i], by |-> m.id]})
        /\ devs' = (IF m.what = "reset" THEN {} ELSE devs)
        /\ UNCHANGED <<app, tooLate, toStack, pend>>
  BY DEF MgrMatch, stackVars
<1>2. PICK i \in FirstMatch(m) : Fire({[req |-> queue[i], by |-> m.id]})
  BY <1>1
<1>3. i \in 1..Len(queue) /\ queue[i] \in Asked(nReq) /\ queue[i].what = m.what /\ m.id \in Ids
  BY <1>1, FirstInQueue DEF Shapes, Messages
<1> SUFFICES ASSUME rsp' = NoRsp
             PROVE  Served'
  BY DEF Served, Known, Awaited, Blocked
<1>4. rsp = NoRsp /\ queue[i].what \notin Answering
  <2> DEFINE calls == {[req |-> queue[j], by |-> m.id] : j \in {i}}
  <2>1. calls = {[req |-> queue[i], by |-> m.id]}
    OBVIOUS
  <2>2. Fire(calls)
    BY <1>2, <2>1
  <2> QED BY <1>3, <2>2, FiresOthers
<1>5. m.what = "resolve" /\ devs' = devs
  BY <1>1, <1>3, <1>4 DEF Asked, Answering
<1>6. Known'
  BY <1>1, <1>4, <1>5 DEF Served, Known
<1>7. Awaited'
  <2> SUFFICES ASSUME Blocked', ~tooLate
               PROVE  Coming(app.req)'
    BY <1>1 DEF Awaited
  <2>1. app.pc = "wait" /\ Coming(app.req)
    BY <1>1, <1>4 DEF Blocked, Served, Awaited
  <2>2. app.req.what # "resolve"
    BY <2>1 DEF Shapes
  <2> QED BY <1>1, <1>5, <2>1, <2>2, ComingTaken
<1> QED BY <1>6, <1>7 DEF Served

\* The answer of a caller is never ignored, nor the loss of its link.
LEMMA ServedIgnore ==
  ASSUME Typed, Shapes, Answers, CallerInv, ~full, Served, MgrIgnore
  PROVE  Served'
<1>1. PICK m : /\ Take(m)
               /\ \/ m.what = "disconnected" /\ m.conn \notin devs
                  \/ m.what = "security"
                  \/ m.what \notin LinkNews /\ FirstMatch(m) = {}
               /\ UNCHANGED <<app, rsp, devs, tooLate, toStack, pend>>
  BY DEF MgrIgnore, MgrSide, stackVars, Dropped, Shapes, LinkNews
<1>2. m \in Told(nReq) /\ m = toMgr[1] /\ Len(toMgr) \in Nat \ {0}
  BY <1>1, TakeShaped
<1>3. m.what \notin AppPart
  <2> SUFFICES ASSUME m.what \in AppPart
               PROVE  FALSE
    OBVIOUS
  <2>1. FirstMatch(m) = {}
    BY <1>1 DEF AppPart
  <2>2. 1 \in 1..Len(toMgr)
    BY <1>2
  <2>3. /\ Blocked /\ m.what = app.req.what
        /\ m.what = "rssi" => m.conn = app.req.conn
    BY <1>2, <2>2 DEF Answers, OnPath, InMgr
  <2>4. PICK k \in 1..Len(queue) : queue[k] = app.req
    BY <2>3, ElementWaits DEF Blocked
  <2>5. Matches(queue[k], m)
    <3>1. queue[k] \in Asked(nReq)
      BY DEF Shapes
    <3> QED BY <2>3, <2>4, <3>1 DEF Matches, Asked, AppPart
  <2>6. ASSUME NEW j \in 1..k - 1
        PROVE  ~Matches(queue[j], m)
    <3>1. j \in 1..Len(queue) /\ j # k
      OBVIOUS
    <3>2. queue[j].what = "resolve"
      BY <2>3, <2>4, <3>1 DEF Answers, OneElem, AppPart
    <3> QED BY <3>2 DEF Matches, AppPart
  <2> QED BY <2>1, <2>5, <2>6 DEF FirstMatch
<1>4. Known'
  BY <1>1 DEF Served, Known
<1>5. Awaited'
  <2> SUFFICES ASSUME Blocked', ~tooLate
               PROVE  Coming(app.req)'
    BY <1>1 DEF Awaited
  <2>1. app.pc = "wait" /\ rsp = NoRsp /\ Coming(app.req)
    BY <1>1 DEF Blocked, Served, Awaited
  <2>2. app.req.what \in AppPart
    BY <2>1 DEF Shapes, Asked, AppPart
  <2>3. ~(m.what = "disconnected" /\ app.req.what = "rssi" /\ m.conn = app.req.conn)
    BY <1>1, <2>1 DEF Served, Known, LinkNews
  <2> QED BY <1>1, <1>3, <2>1, <2>2, <2>3, ComingTaken
<1> QED BY <1>4, <1>5 DEF Served

\* A request that the stack drops is for a link whose loss is about to be told.
LEMMA ServedStackTake ==
  ASSUME Typed, Shapes, Links, Served, StackTake
  PROVE  Served'
<1>1. /\ toStack[1] \in Asked(nReq) /\ 1 \in 1..Len(toStack)
      /\ \A i \in 1..Len(toStack) : i > 1 => i - 1 \in 1..Len(toStack') /\ toStack'[i - 1] = toStack[i]
      /\ \/ pend' = pend /\ ConnOf(toStack[1]) \notin link \cup {NoConn}
         \/ pend' = Append(pend, toStack[1])
      /\ UNCHANGED <<app, rsp, devs, toMgr, tooLate>>
  BY StackTakes
<1>2. Known'
  BY <1>1 DEF Served, Known
<1>3. Awaited'
  <2> SUFFICES ASSUME Blocked', ~tooLate
               PROVE  Coming(app.req)'
    BY <1>1 DEF Awaited
  <2>1. app.pc = "wait" /\ rsp = NoRsp /\ Coming(app.req)
    BY <1>1 DEF Blocked, Served, Awaited
  <2>2. \A i \in 1..Len(pend) : i \in 1..Len(pend') /\ pend'[i] = pend[i]
    <3>1. pend \in Seq(Asked(nReq))
      BY DEF Shapes
    <3>2. ASSUME pend' = Append(pend, toStack[1])
          PROVE  \A i \in 1..Len(pend) : i \in 1..Len(pend') /\ pend'[i] = pend[i]
      BY <1>1, <3>1, <3>2, SendShaped
    <3> QED BY <1>1, <3>2
  <2>3. CASE \E i \in 1..Len(toStack) : i > 1 /\ toStack[i] = app.req
    BY <1>1, <2>3 DEF Coming
  <2>4. CASE toStack[1] = app.req
    <3>1. CASE pend' = Append(pend, toStack[1])
      <4>1. pend \in Seq(Asked(nReq))
        BY DEF Shapes
      <4>2. Len(pend) + 1 \in 1..Len(pend') /\ pend'[Len(pend) + 1] = app'.req
        BY <1>1, <2>4, <3>1, <4>1
      <4> QED BY <4>2 DEF Coming
    <3>2. CASE ConnOf(toStack[1]) \notin link \cup {NoConn}
      <4>1. app.req.what = "rssi" /\ app.req.conn \in Conns /\ app.req.conn \notin link
        BY <1>1, <2>4, <3>2 DEF ConnOf, Asked
      <4>2. app.req.conn \in devs
        BY <2>1, <4>1 DEF Served, Known
      <4>3. Tells("disconnected", app.req.conn)
        BY <4>1, <4>2 DEF Links, UpIsUp
      <4> QED BY <1>1, <4>1, <4>3 DEF Coming, Tells
    <3> QED BY <1>1, <3>1, <3>2
  <2>5. CASE \E i \in 1..Len(pend) : pend[i] = app.req
    BY <1>1, <2>2, <2>5 DEF Coming
  <2>6. CASE \/ \E i \in 1..Len(toMgr) : toMgr[i].what = app.req.what /\ toMgr[i].id = app.req.id
             \/ app.req.what = "rssi" /\ Tells("disconnected", app.req.conn)
    BY <1>1, <2>6 DEF Coming, Tells
  <2>7. \A i \in 1..Len(toStack) : i = 1 \/ i > 1
    OBVIOUS
  <2> QED BY <2>1, <2>3, <2>4, <2>5, <2>6, <2>7 DEF Coming
<1> QED BY <1>2, <1>3 DEF Served

\* What stays pending, and what is told.
LEMMA ComingTold ==
  ASSUME Shapes, NEW m, toMgr' = Append(toMgr, m), NEW gone, pend' = Without(pend, gone),
         UNCHANGED <<app, toStack>>, Coming(app.req),
         \A i \in 1..Len(pend) : i \in gone /\ pend[i] = app.req =>
           \/ m.what = pend[i].what /\ m.id = pend[i].id
           \/ pend[i].what = "rssi" /\ m.what = "disconnected" /\ m.conn = pend[i].conn
  PROVE  Coming(app.req)'
<1>1. /\ Len(toMgr) + 1 \in 1..Len(toMgr') /\ toMgr'[Len(toMgr) + 1] = m
      /\ \A k \in 1..Len(toMgr) : k \in 1..Len(toMgr') /\ toMgr'[k] = toMgr[k]
  <2>1. toMgr \in Seq(Told(nReq))
    BY DEF Shapes
  <2>2. /\ Len(toMgr') = Len(toMgr) + 1 /\ Len(toMgr) \in Nat /\ toMgr'[Len(toMgr) + 1] = m
        /\ \A k \in 1..Len(toMgr) : k \in 1..Len(toMgr') /\ toMgr'[k] = toMgr[k]
    BY <2>1, SendShaped
  <2> QED BY <2>2
<1>2. ASSUME NEW i \in 1..Len(pend), pend[i] = app.req
      PROVE  Coming(app.req)'
  <2>1. CASE i \notin gone
    <3>1. pend \in Seq(Asked(nReq))
      BY DEF Shapes
    <3>20. PICK f : Keeps(f, pend, gone, pend')
      BY <3>1, Remaining
    <3>2. /\ \A k \in 1..Len(pend') : f[k] \in 1..Len(pend) /\ f[k] \notin gone
                                          /\ pend'[k] = pend[f[k]]
          /\ \A j \in 1..Len(pend) : j \notin gone => \E k \in 1..Len(pend') : f[k] = j
      BY <3>20 DEF Keeps
    <3>3. PICK k \in 1..Len(pend') : f[k] = i
      BY <2>1, <3>2
    <3>4. pend'[k] = app'.req
      BY <1>2, <3>2, <3>3
    <3> QED BY <3>4 DEF Coming
  <2>2. CASE i \in gone
    BY <1>1, <1>2, <2>2 DEF Coming, Tells
  <2> QED BY <2>1, <2>2
<1>3. CASE \E i \in 1..Len(toStack) : toStack[i] = app.req
  BY <1>3 DEF Coming
<1>4. CASE \/ \E i \in 1..Len(toMgr) : toMgr[i].what = app.req.what /\ toMgr[i].id = app.req.id
           \/ app.req.what = "rssi" /\ Tells("disconnected", app.req.conn)
  BY <1>1, <1>4 DEF Coming, Tells
<1> QED BY <1>2, <1>3, <1>4 DEF Coming

\* An answer or the loss of a link replaces the pending request.
LEMMA ServedStack ==
  ASSUME Typed, Shapes, Served, StackAnswer \/ \E c \in Conns : LinkDown(c) \/ LinkUp(c)
  PROVE  Served'
<1>1. UNCHANGED <<app, rsp, devs, tooLate, toStack>>
  BY DEF StackAnswer, LinkDown, LinkUp, MgrSide
<1>2. Known'
  BY <1>1 DEF Served, Known
<1>3. Coming(app.req) => Coming(app.req)'
  <2> SUFFICES ASSUME Coming(app.req)
               PROVE  Coming(app.req)'
    OBVIOUS
  <2>1. CASE StackAnswer
    <3>1. PICK i \in 1..Len(pend) : \E src :
            /\ pend' = Without(pend, {i})
            /\ toMgr' = Append(toMgr, Message(pend[i].what, src, pend[i].id))
      BY <2>1 DEF StackAnswer
    <3>2. PICK src : toMgr' = Append(toMgr, Message(pend[i].what, src, pend[i].id))
      BY <3>1
    <3>3. PICK m : toMgr' = Append(toMgr, m) /\ m.what = pend[i].what /\ m.id = pend[i].id
      BY <3>2 DEF Message
    <3> DEFINE gone == {i}
    <3>4. pend' = Without(pend, gone) /\ \A j \in gone : j = i
      BY <3>1
    <3> HIDE DEF gone
    <3> QED BY <1>1, <3>3, <3>4, ComingTold
  <2>2. ASSUME NEW c \in Conns, LinkDown(c)
        PROVE  Coming(app.req)'
    <3> DEFINE gone == {i \in DOMAIN pend : ConnOf(pend[i]) = c}
    <3>1. PICK m : toMgr' = Append(toMgr, m) /\ m.what = "disconnected" /\ m.conn = c
      BY <2>2 DEF LinkDown, Message
    <3>2. pend' = Without(pend, gone)
      BY <2>2 DEF LinkDown
    <3>3. \A i \in 1..Len(pend) : i \in gone => pend[i].what = "rssi" /\ pend[i].conn = c
      <4> TAKE i \in 1..Len(pend)
      <4>1. pend[i] \in Asked(nReq)
        BY DEF Shapes
      <4> QED BY <4>1, ConnsAssumption DEF ConnOf, Asked
    <3> HIDE DEF gone
    <3> QED BY <1>1, <3>1, <3>2, <3>3, ComingTold
  <2>3. ASSUME NEW c \in Conns, LinkUp(c)
        PROVE  Coming(app.req)'
    <3>1. PICK m : toMgr' = Append(toMgr, m) /\ pend' = pend
      BY <2>3 DEF LinkUp
    <3>2. \A k \in 1..Len(toMgr) : k \in 1..Len(toMgr') /\ toMgr'[k] = toMgr[k]
      BY <3>1, SendShaped DEF Shapes
    <3> QED BY <1>1, <3>1, <3>2 DEF Coming, Tells
  <2> QED BY <2>1, <2>2, <2>3
<1> QED BY <1>1, <1>2, <1>3 DEF Served, Awaited, Blocked

\* Every step keeps a caller served.
LEMMA ServedNext ==
  (Peripheral /\ Typed /\ CallerInv /\ Shapes /\ Links /\ Answers /\ Served /\ [Next]_vars)
  => Served'
<1> SUFFICES ASSUME Peripheral, Typed, CallerInv, Shapes, Links, Answers, Served, [Next]_vars
             PROVE  Served'
  OBVIOUS
<1>1. CASE UNCHANGED vars
  <2>1. UNCHANGED <<toMgr, pend, toStack, app, rsp, devs, tooLate>>
    BY <1>1 DEF vars, MgrSide, stackVars
  <2> QED BY <2>1 DEF Served, Known, Awaited, Blocked, Coming, Tells
<1>2. CASE Next /\ MgrStep
  <2>1. ASSUME MgrSecurity PROVE FALSE
    <3>1. PICK m : Take(m) /\ m.what = "security"
      BY <2>1 DEF MgrSecurity
    <3> QED BY <3>1, TakeShaped DEF Told
  <2>2. ~full
    BY <1>2 DEF Next
  <2> QED BY <1>2, <2>1, <2>2, ServedConnected, ServedDisconnected, ServedMatch, ServedIgnore
          DEF MgrStep
<1>3. CASE StackStep
  BY <1>3, ServedStackTake, ServedStack DEF StackStep, SecurityRequest, Peripheral
<1>4. CASE AppStep
  BY <1>4, ServedApp
<1> QED BY <1>1, <1>2, <1>3, <1>4 DEF Next

-----------------------------------------------------------------------------
\* One resolution waits at a time; when the next link is announced its answer is
\* on the way before it.
OneResolve == \A k, l \in 1..Len(queue) :
  queue[k].what = "resolve" /\ queue[l].what = "resolve" => k = l
OneNews == \A i, j \in 1..Len(toMgr) :
  toMgr[i].what = "connected" /\ toMgr[j].what = "connected" => i = j
Heard == \A i \in 1..Len(toMgr), k \in 1..Len(queue) :
  toMgr[i].what = "connected" /\ queue[k].what = "resolve"
    => \E j \in 1..i - 1 : toMgr[j].what = "resolve" /\ toMgr[j].id = queue[k].id
Room == ~full /\ OneResolve /\ OneNews /\ Heard

\* The message that is taken is not an answer: the others stay in their order.
LEMMA HeardTaken ==
  ASSUME Shapes, OneNews, Heard, NEW m, Take(m), m.what # "resolve",
         m.what = "connected" \/ \A k \in 1..Len(queue') :
                                   \E l \in 1..Len(queue) : queue'[k] = queue[l]
  PROVE  OneNews' /\ Heard'
<1>1. /\ m = toMgr[1] /\ Len(toMgr) \in Nat \ {0}
      /\ \A i \in 1..Len(toMgr') : i + 1 \in 1..Len(toMgr) /\ toMgr'[i] = toMgr[i + 1]
  BY TakeShaped
<1>2. OneNews'
  <2> SUFFICES ASSUME NEW i \in 1..Len(toMgr'), NEW j \in 1..Len(toMgr'),
                      toMgr'[i].what = "connected", toMgr'[j].what = "connected"
               PROVE  i = j
    BY DEF OneNews
  <2>1. i + 1 = j + 1
    BY <1>1 DEF OneNews
  <2> QED BY <2>1
<1>3. Heard'
  <2> SUFFICES ASSUME NEW i \in 1..Len(toMgr'), NEW k \in 1..Len(queue'),
                      toMgr'[i].what = "connected", queue'[k].what = "resolve"
               PROVE  \E j \in 1..i - 1 : toMgr'[j].what = "resolve" /\ toMgr'[j].id = queue'[k].id
    BY DEF Heard
  <2>1. i + 1 \in 1..Len(toMgr) /\ toMgr[i + 1].what = "connected" /\ i + 1 # 1
    BY <1>1
  <2>2. m.what # "connected"
    BY <1>1, <2>1 DEF OneNews
  <2>3. PICK l \in 1..Len(queue) : queue'[k] = queue[l]
    BY <2>2
  <2>4. PICK j \in 1..(i + 1) - 1 : toMgr[j].what = "resolve" /\ toMgr[j].id = queue[l].id
    BY <2>1, <2>3 DEF Heard
  <2>5. j \in 1..Len(toMgr) /\ j > 1 /\ j - 1 \in 1..i - 1
    BY <1>1, <2>1, <2>4
  <2>6. toMgr'[j - 1] = toMgr[j]
    BY <2>5, TakeShaped
  <2> QED BY <2>3, <2>4, <2>5, <2>6
<1> QED BY <1>2, <1>3

\* What is told at the end changes nothing, unless a link came up.
LEMMA HeardTold ==
  ASSUME Shapes, OneNews, Heard, NEW m, toMgr' = Append(toMgr, m), UNCHANGED queue,
         m.what = "connected" =>
           /\ \A i \in 1..Len(toMgr) : toMgr[i].what # "connected"
           /\ \A k \in 1..Len(queue) : queue[k].what = "resolve" => Res(toMgr, queue[k].id)
  PROVE  OneNews' /\ Heard'
<1>1. /\ Len(toMgr') = Len(toMgr) + 1 /\ Len(toMgr) \in Nat
      /\ \A k \in 1..Len(toMgr) : k \in 1..Len(toMgr') /\ toMgr'[k] = toMgr[k]
      /\ \A k \in 1..Len(toMgr') : \/ k \in 1..Len(toMgr) /\ toMgr'[k] = toMgr[k]
                                   \/ k = Len(toMgr) + 1 /\ toMgr'[k] = m
  BY SendShaped DEF Shapes
<1>2. OneNews'
  BY <1>1 DEF OneNews
<1>3. Heard'
  <2> SUFFICES ASSUME NEW i \in 1..Len(toMgr'), NEW k \in 1..Len(queue'),
                      toMgr'[i].what = "connected", queue'[k].what = "resolve"
               PROVE  \E j \in 1..i - 1 : toMgr'[j].what = "resolve" /\ toMgr'[j].id = queue'[k].id
    BY SMTT(20) DEF Heard
  <2>0. k \in 1..Len(queue) /\ queue'[k] = queue[k] /\ queue[k].what = "resolve"
    OBVIOUS
  <2>1. CASE i \in 1..Len(toMgr) /\ toMgr'[i] = toMgr[i]
    <3>1. PICK j \in 1..i - 1 : toMgr[j].what = "resolve" /\ toMgr[j].id = queue[k].id
      BY <2>0, <2>1 DEF Heard
    <3>2. j \in 1..Len(toMgr)
      BY <1>1, <2>1
    <3> QED BY <1>1, <2>0, <3>1, <3>2
  <2>2. CASE i = Len(toMgr) + 1 /\ toMgr'[i] = m
    <3>1. PICK j \in 1..Len(toMgr) : toMgr[j].what = "resolve" /\ toMgr[j].id = queue[k].id
      BY <2>0, <2>2 DEF Res
    <3>2. j \in 1..i - 1
      BY <1>1, <2>2
    <3> QED BY <1>1, <2>0, <3>1, <3>2
  <2> QED BY <1>1, <2>1, <2>2
<1> QED BY <1>2, <1>3

\* What is left of the queue has no more resolutions than before.
LEMMA OneResolveWithout ==
  ASSUME Shapes, OneResolve, NEW gone, queue' = Without(queue, gone)
  PROVE  OneResolve' /\ \A k \in 1..Len(queue') : \E l \in 1..Len(queue) : queue'[k] = queue[l]
<1>1. queue \in Seq(Asked(nReq))
  BY DEF Shapes
<1>20. PICK f : Keeps(f, queue, gone, queue')
  BY <1>1, Remaining
<1>2. /\ \A k \in 1..Len(queue') : f[k] \in 1..Len(queue) /\ queue'[k] = queue[f[k]]
      /\ \A k, l \in 1..Len(queue') : f[k] = f[l] => k = l
  BY <1>20 DEF Keeps
<1>3. OneResolve'
  <2> SUFFICES ASSUME NEW k \in 1..Len(queue'), NEW l \in 1..Len(queue'),
                      queue'[k].what = "resolve", queue'[l].what = "resolve"
               PROVE  k = l
    BY DEF OneResolve
  <2>1. f[k] = f[l]
    BY <1>2 DEF OneResolve
  <2> QED BY <1>2, <2>1
<1> QED BY <1>2, <1>3

\* The element of a command is added beside one resolution at most.
LEMMA RoomAdd ==
  ASSUME MaxLen > 1, Shapes, Answers, Room, AppAdd
  PROVE  Room'
<1>1. app.pc = "add" /\ WaitqueueAdd(app.req) /\ toMgr' = toMgr
  BY DEF AppAdd
<1>2. queue \in Seq(Asked(nReq)) /\ app.req.what # "resolve" /\ Len(queue) \in Nat
  BY <1>1 DEF Shapes
<1>3. \A k \in 1..Len(queue) : queue[k].what = "resolve"
  BY <1>1 DEF Answers, InQueue
<1>4. ~(Len(queue) > 1)
  <2> SUFFICES ASSUME Len(queue) > 1
               PROVE  FALSE
    OBVIOUS
  <2>1. 1 \in 1..Len(queue) /\ 2 \in 1..Len(queue)
    BY <1>2
  <2> QED BY <1>3, <2>1 DEF Room, OneResolve
<1>5. Len(queue) < MaxLen
  BY <1>2, <1>4, QueueAssumption
<1>6. queue' = Append(queue, app.req) /\ full' = full
  BY <1>1, <1>5 DEF WaitqueueAdd
<1>7. \A k \in 1..Len(queue') : queue'[k].what = "resolve" =>
        k \in 1..Len(queue) /\ queue'[k] = queue[k]
  BY <1>2, <1>6, SendShaped
<1>8. OneResolve' /\ OneNews'
  BY <1>1, <1>7 DEF Room, OneResolve, OneNews
<1>9. Heard'
  BY <1>1, <1>7 DEF Room, Heard
<1> QED BY <1>6, <1>8, <1>9 DEF Room

\* A resolution is added beside the element of a command at most.
LEMMA RoomConnected ==
  ASSUME MaxLen > 1, Shapes, Answers, Room, MgrConnected
  PROVE  Room'
<1>1. PICK m : /\ Take(m) /\ m.what = "connected"
               /\ \/ Ask(Request("resolve", NoConn, m.conn))
                  \/ UNCHANGED <<queue, full>>
  BY DEF MgrConnected
<1>2. m = toMgr[1] /\ 1 \in 1..Len(toMgr)
  BY <1>1, TakeShaped
<1>3. queue \in Seq(Asked(nReq)) /\ Len(queue) \in Nat
  BY DEF Shapes
<1>4. OneNews' /\ Heard'
  BY <1>1, HeardTaken DEF Room
<1>5. \A k \in 1..Len(queue) : queue[k].what # "resolve"
  <2> SUFFICES ASSUME NEW k \in 1..Len(queue), queue[k].what = "resolve"
               PROVE  FALSE
    OBVIOUS
  <2>1. ~\E j \in 1..1 - 1 : toMgr[j].what = "resolve" /\ toMgr[j].id = queue[k].id
    OBVIOUS
  <2> QED BY <1>1, <1>2, <2>1 DEF Room, Heard
<1>6. CASE UNCHANGED <<queue, full>>
  BY <1>4, <1>6 DEF Room, OneResolve
<1>7. CASE Ask(Request("resolve", NoConn, m.conn))
  <2>1. ~(Len(queue) > 1)
    <3> SUFFICES ASSUME Len(queue) > 1
                 PROVE  FALSE
      OBVIOUS
    <3>1. 1 \in 1..Len(queue) /\ 2 \in 1..Len(queue)
      BY <1>3
    <3> QED BY <1>5, <3>1 DEF Answers, OneElem
  <2>2. Len(queue) < MaxLen
    BY <1>3, <2>1, QueueAssumption
  <2>3. PICK e : queue' = Append(queue, e) /\ full' = full
    BY <1>7, <2>2 DEF Ask, WaitqueueAdd
  <2>4. \A k \in 1..Len(queue') : \/ k \in 1..Len(queue) /\ queue'[k] = queue[k]
                                  \/ k = Len(queue) + 1 /\ queue'[k] = e
    BY <1>3, <2>3, SendShaped
  <2>5. OneResolve'
    BY <1>5, <2>4 DEF OneResolve
  <2> QED BY <1>4, <2>3, <2>5 DEF Room
<1> QED BY <1>1, <1>6, <1>7

\* A flush makes room.
LEMMA RoomDisconnected ==
  ASSUME Shapes, Room, MgrDisconnected
  PROVE  Room'
<1>1. PICK m : /\ Take(m) /\ m.what = "disconnected"
               /\ \E gone : queue' = Without(queue, gone)
               /\ UNCHANGED full
  BY DEF MgrDisconnected
<1>2. OneResolve' /\ \A k \in 1..Len(queue') : \E l \in 1..Len(queue) : queue'[k] = queue[l]
  BY <1>1, OneResolveWithout DEF Room
<1>3. OneNews' /\ Heard'
  BY <1>1, <1>2, HeardTaken DEF Room
<1> QED BY <1>1, <1>2, <1>3 DEF Room

\* When a resolution is answered none is left in the queue.
LEMMA RoomMatch ==
  ASSUME Shapes, Resolves, Room, MgrMatch
  PROVE  Room'
<1>1. PICK m : /\ Take(m) /\ \E i \in FirstMatch(m) : queue' = Without(queue, {i})
               /\ UNCHANGED full
  BY DEF MgrMatch
<1>2. OneResolve' /\ \A k \in 1..Len(queue') : \E l \in 1..Len(queue) : queue'[k] = queue[l]
  BY <1>1, OneResolveWithout DEF Room
<1>3. CASE m.what # "resolve"
  <2>1. OneNews' /\ Heard'
    BY <1>1, <1>2, <1>3, HeardTaken DEF Room
  <2> QED BY <1>1, <1>2, <2>1 DEF Room
<1>4. CASE m.what = "resolve"
  <2>1. PICK i \in FirstMatch(m) : queue' = Without(queue, {i})
    BY <1>1
  <2>2. i \in 1..Len(queue) /\ queue[i].what = "resolve" /\ queue \in Seq(Asked(nReq))
    BY <1>4, <2>1, FirstInQueue DEF Shapes
  <2>3. \A k \in 1..Len(queue') : queue'[k].what # "resolve"
    <3> DEFINE gone == {i}
    <3>1. queue' = Without(queue, gone) /\ \A l \in 1..Len(queue) : l \notin gone => l # i
      BY <2>1
    <3> HIDE DEF gone
    <3>2. PICK f : Keeps(f, queue, gone, queue')
      BY <2>2, <3>1, Remaining
    <3>3. \A k \in 1..Len(queue') : f[k] \in 1..Len(queue) /\ f[k] # i /\ queue'[k] = queue[f[k]]
      BY <3>1, <3>2 DEF Keeps
    <3> QED BY <2>2, <3>3 DEF Room, OneResolve
  <2>4. Heard'
    BY <2>3 DEF Heard
  <2>5. OneNews'
    <3> SUFFICES ASSUME NEW k \in 1..Len(toMgr'), NEW l \in 1..Len(toMgr'),
                        toMgr'[k].what = "connected", toMgr'[l].what = "connected"
                 PROVE  k = l
      BY DEF OneNews
    <3>1. /\ k + 1 \in 1..Len(toMgr) /\ toMgr'[k] = toMgr[k + 1]
          /\ l + 1 \in 1..Len(toMgr) /\ toMgr'[l] = toMgr[l + 1]
      BY <1>1, TakeShaped
    <3>2. k + 1 = l + 1
      BY <3>1 DEF Room, OneNews
    <3> QED BY <3>2
  <2> QED BY <1>1, <1>2, <2>4, <2>5 DEF Room
<1> QED BY <1>3, <1>4

\* A message that is ignored takes no room.
LEMMA RoomIgnore ==
  ASSUME Shapes, Resolves, Room, MgrIgnore
  PROVE  Room'
<1>1. PICK m : /\ Take(m) /\ UNCHANGED <<queue, full>>
               /\ m.what = "resolve" => FirstMatch(m) = {}
  BY DEF MgrIgnore, MgrSide, Dropped, Shapes
<1>2. m.what # "resolve"
  BY <1>1, OwnElement DEF Room
<1>3. OneNews' /\ Heard'
  BY <1>1, <1>2, HeardTaken DEF Room
<1> QED BY <1>1, <1>3 DEF Room, OneResolve

\* A link comes up when every resolution is answered.
LEMMA RoomLinkUp ==
  ASSUME QuickResolve, Shapes, Resolves, Room, NEW c \in Conns, LinkUp(c)
  PROVE  Room'
<1>1. PICK m : /\ toMgr' = Append(toMgr, m)
               /\ \A i \in 1..Len(toMgr) : toMgr[i].what # "connected"
               /\ ~Resolving(toStack) /\ ~Resolving(pend) /\ UNCHANGED <<queue, full>>
  BY DEF LinkUp, MgrSide
<1>2. ASSUME NEW k \in 1..Len(queue), queue[k].what = "resolve"
      PROVE  Res(toMgr, queue[k].id)
  <2>1. queue[k].id \in Nat
    BY IdsCount DEF Shapes
  <2>2. Res(queue, queue[k].id)
    BY <1>2 DEF Res
  <2>3. ~Res(pend, queue[k].id) /\ ~Res(toStack, queue[k].id)
    BY <1>1 DEF Res, Resolving
  <2> QED BY <2>1, <2>2, <2>3 DEF Resolves, Expected, Room
<1>3. OneNews' /\ Heard'
  BY <1>1, <1>2, HeardTold DEF Room
<1> QED BY <1>1, <1>3 DEF Room, OneResolve

\* Every step keeps room in the queue.
LEMMA RoomNext ==
  (Peripheral /\ QuickResolve /\ MaxLen > 1 /\ Shapes /\ Answers /\ Resolves /\ Room /\ [Next]_vars)
  => Room'
<1> SUFFICES ASSUME Peripheral, QuickResolve, MaxLen > 1, Shapes, Answers, Resolves, Room,
                    [Next]_vars
             PROVE  Room'
  OBVIOUS
<1>1. ASSUME UNCHANGED <<queue, full, toMgr>>
      PROVE  Room'
  <2>1. OneResolve' /\ OneNews'
    BY <1>1 DEF Room, OneResolve, OneNews
  <2>2. Heard'
    BY <1>1 DEF Room, Heard
  <2> QED BY <1>1, <2>1, <2>2 DEF Room
<1>2. CASE UNCHANGED vars
  BY <1>1, <1>2 DEF vars, MgrSide
<1>3. CASE MgrStep
  <2>1. ASSUME MgrSecurity PROVE FALSE
    <3>1. PICK m : Take(m) /\ m.what = "security"
      BY <2>1 DEF MgrSecurity
    <3> QED BY <3>1, TakeShaped DEF Told
  <2> QED BY <1>3, <2>1, RoomConnected, RoomDisconnected, RoomMatch, RoomIgnore DEF MgrStep
<1>4. CASE StackTake
  BY <1>1, <1>4 DEF StackTake, MgrSide
<1>5. CASE StackAnswer \/ \E c \in Conns : LinkDown(c)
  <2>1. PICK m : toMgr' = Append(toMgr, m) /\ m.what # "connected" /\ UNCHANGED <<queue, full>>
    <3>1. CASE StackAnswer
      <4>1. PICK i \in 1..Len(pend) :
              /\ \E src : toMgr' = Append(toMgr, Message(pend[i].what, src, pend[i].id))
              /\ UNCHANGED <<queue, full>>
        BY <3>1 DEF StackAnswer, MgrSide
      <4>2. pend[i].what # "connected"
        <5>1. pend[i] \in Asked(nReq)
          BY DEF Shapes
        <5> QED BY <5>1 DEF Asked
      <4> QED BY <4>1, <4>2 DEF Message
    <3> QED BY <1>5, <3>1 DEF LinkDown, MgrSide, Message
  <2>2. OneNews' /\ Heard'
    BY <2>1, HeardTold DEF Room
  <2> QED BY <2>1, <2>2 DEF Room, OneResolve
<1>6. CASE AppStep
  <2>1. CASE AppAdd
    BY <2>1, RoomAdd
  <2> QED BY <1>1, <1>6, <2>1
          DEF AppStep, ConfigCmd, MtuCmd, ResetCmd, RssiCmd, SecCmd, Begin, AppSend, AppTake
<1> QED BY <1>2, <1>3, <1>4, <1>5, <1>6, RoomLinkUp DEF Next, StackStep, SecurityRequest, Peripheral

-----------------------------------------------------------------------------
\* The inductive invariant of a peripheral; Room is added where the resolutions are quick.
PeripheralInv == Typed /\ CallerInv /\ Shapes /\ Links /\ Answers /\ Resolves /\ Served

\* The invariant holds at the start.
LEMMA PeripheralInit == Init => PeripheralInv /\ Room
<1> SUFFICES ASSUME Init
             PROVE  PeripheralInv /\ Room
  OBVIOUS
<1>1. Typed
  BY InitTyped
<1>2. /\ queue = <<>> /\ toStack = <<>> /\ toMgr = <<>> /\ pend = <<>> /\ app = Idle /\ rsp = NoRsp
      /\ devs = {} /\ link = {} /\ ~full /\ ~resetting /\ nReq = 0
  BY DEF Init
<1>3. app.pc = "idle" /\ app.req = NoReq
  BY <1>2 DEF Idle
<1>4. CallerInv
  BY <1>3 DEF CallerInv
<1>5. Shapes
  BY <1>2, <1>3 DEF Shapes, Idle
<1>6. \A i \in 1..0 : FALSE
  OBVIOUS
<1>7. Len(queue) = 0 /\ Len(toStack) = 0 /\ Len(toMgr) = 0 /\ Len(pend) = 0
  BY <1>2
<1>8. Links
  BY <1>2, <1>6, <1>7 DEF Links, LastNews, OnceUp, DownIsDown, UpIsUp, Tells
<1>9. Answers
  BY <1>2, <1>3, <1>6, <1>7 DEF Answers, OnPath, InQueue, OneElem, InPend, OnePend, InStack,
     OneSent, InMgr, OneTold, OnePlace, Sent, Pending, Answered, NoAnswer, EarlyLoss
<1>10. Resolves
  BY <1>6, <1>7 DEF Resolves, Sorted, Increasing, InOrder, Before, Expected, Res
<1>11. Served
  BY <1>3 DEF Served, Known, Awaited, Blocked
<1>12. Room
  BY <1>2, <1>6, <1>7 DEF Room, OneResolve, OneNews, Heard
<1> QED BY <1>1, <1>4, <1>5, <1>8, <1>9, <1>10, <1>11, <1>12 DEF PeripheralInv

\* The invariant is inductive.
LEMMA PeripheralNext == Peripheral /\ PeripheralInv /\ [Next]_vars => PeripheralInv'
BY TypedNext, CallerNext, ShapesNext, LinksNext, AnswersNext, ResolvesNext, ServedNext
   DEF PeripheralInv

\* The invariant holds in every behaviour of a peripheral.
LEMMA PeripheralAlways ==
  ASSUME Peripheral
  PROVE  Spec => []PeripheralInv
<1>1. Init => PeripheralInv
  BY PeripheralInit
<1>2. PeripheralInv /\ [Next]_vars => PeripheralInv'
  BY PeripheralNext
<1> QED BY <1>1, <1>2, PTL DEF Spec

-----------------------------------------------------------------------------
\* A match hands its callback the completion of the element's own request.
LEMMA MatchesOwn ==
  ASSUME PeripheralInv, ~full, MgrMatch
  PROVE  OwnCompletion'
<1>1. PICK m \in Messages :
        /\ Take(m)
        /\ \E i \in FirstMatch(m) : Fire({[req |-> queue[i], by |-> m.id]})
  BY DEF MgrMatch
<1>2. PICK i \in FirstMatch(m) : Fire({[req |-> queue[i], by |-> m.id]})
  BY <1>1
<1>3. /\ i \in 1..Len(queue) /\ queue[i] \in Asked(nReq) /\ queue[i].what = m.what
      /\ m = toMgr[1] /\ 1 \in 1..Len(toMgr)
  BY <1>1, FirstInQueue, TakeShaped DEF PeripheralInv, Shapes
<1>4. queue[i].id = m.id
  <2>1. CASE m.what = "resolve"
    BY <1>1, <2>1, OwnElement DEF PeripheralInv
  <2>2. CASE m.what # "resolve"
    <3>1. queue[i] = app.req
      BY <1>3, <2>2 DEF PeripheralInv, Answers, InQueue
    <3>2. m.what \in AppPart
      BY <1>3, <2>2 DEF Asked, AppPart
    <3>3. m.id = app.req.id
      BY <1>3, <3>2 DEF PeripheralInv, Answers, OnPath, InMgr
    <3> QED BY <3>1, <3>3
  <2> QED BY <2>1, <2>2
<1>5. fired' = {[req |-> queue[i], by |-> m.id]}
  BY <1>2 DEF Fire
<1> QED BY <1>4, <1>5 DEF OwnCompletion

(* A callback is handed the completion of its own request or none: the two     *)
(* kinds of request in the queue of a peripheral are answered in the order of  *)
(* their elements, so that the first element ble_gtl_waitqueue_match finds is  *)
(* the right one (ble_mgr_gtl.c).                                              *)
THEOREM CompletionsAreOwn ==
  ASSUME Peripheral
  PROVE  Spec => []OwnCompletion
<1>1. Init => OwnCompletion
  BY DEF Init, OwnCompletion
<1>2. PeripheralInv /\ OwnCompletion /\ [Next]_vars => OwnCompletion'
  <2> SUFFICES ASSUME PeripheralInv, OwnCompletion, [Next]_vars
               PROVE  OwnCompletion'
    OBVIOUS
  <2>1. ASSUME UNCHANGED fired
        PROVE  OwnCompletion'
    BY <2>1 DEF OwnCompletion
  <2>2. CASE MgrDisconnected
    <3>1. PICK removed : fired' = {[req |-> queue[i], by |-> 0] : i \in removed}
      BY <2>2 DEF MgrDisconnected, Fire
    <3> QED BY <3>1 DEF OwnCompletion
  <2>3. CASE Next /\ MgrMatch
    BY <2>3, MatchesOwn DEF Next
  <2>4. CASE AppStep
    BY <2>1, <2>4
       DEF AppStep, ConfigCmd, MtuCmd, ResetCmd, RssiCmd, SecCmd, Begin, AppAdd, AppSend, AppTake
  <2>5. CASE MgrConnected \/ MgrSecurity \/ MgrIgnore
    BY <2>1, <2>5 DEF MgrConnected, MgrSecurity, MgrIgnore, MgrSide
  <2>6. CASE StackStep
    BY <2>1, <2>6 DEF StackStep, StackTake, StackAnswer, LinkUp, LinkDown, SecurityRequest, MgrSide
  <2>7. CASE UNCHANGED vars
    BY <2>1, <2>7 DEF vars, MgrSide
  <2> QED BY <2>2, <2>3, <2>4, <2>5, <2>6, <2>7 DEF Next, MgrStep
<1>3. Spec => []PeripheralInv
  BY PeripheralAlways
<1> QED BY <1>1, <1>2, <1>3, PTL DEF Spec

\* Whatever stays in a sequence was in it, and was not to go.
LEMMA StaysFrom ==
  ASSUME NEW S, NEW q \in Seq(S), NEW gone, NEW w, w = Without(q, gone), NEW k \in 1..Len(w)
  PROVE  \E i \in 1..Len(q) : i \notin gone /\ w[k] = q[i]
<1>1. PICK f : Keeps(f, q, gone, w)
  BY Remaining
<1> QED BY <1>1 DEF Keeps

(* After the disconnection of a link no element of the link is left in the     *)
(* queue: the walk of ble_gtl_waitqueue_flush skips the successor of a removed *)
(* element, and a peripheral never has two neighbours of one link.             *)
THEOREM FlushesAreComplete ==
  ASSUME Peripheral
  PROVE  Spec => FlushComplete
<1>1. PeripheralInv /\ [Next]_vars =>
        [\A c \in devs \ devs' : resetting \/ \A i \in 1..Len(queue') : queue'[i].conn # c]_vars
  <2> SUFFICES ASSUME PeripheralInv, Next, NEW c \in devs \ devs', NEW k \in 1..Len(queue')
               PROVE  queue'[k].conn # c
    OBVIOUS
  <2>1. \/ MgrDisconnected
        \/ \E m : Take(m) /\ m.what = "reset"
    <3>1. ~AppStep
      BY DEF AppStep, ConfigCmd, MtuCmd, ResetCmd, RssiCmd, SecCmd, Begin, AppAdd, AppSend, AppTake
    <3>2. ~StackStep
      BY DEF StackStep, StackTake, StackAnswer, LinkUp, LinkDown, SecurityRequest, MgrSide
    <3>3. ~MgrConnected /\ ~MgrSecurity /\ ~MgrIgnore
      BY DEF MgrConnected, MgrSecurity, MgrIgnore, MgrSide
    <3>4. MgrMatch => \E m : Take(m) /\ m.what = "reset"
      BY DEF MgrMatch
    <3> QED BY <3>1, <3>2, <3>3, <3>4 DEF Next, MgrStep
  <2>2. ASSUME NEW m, Take(m)
        PROVE  m.what # "reset"
    <3>1. m \in Told(nReq)
      BY <2>2, TakeShaped DEF PeripheralInv
    <3> QED BY <3>1 DEF Told
  <2>3. PICK m : /\ Take(m) /\ m.conn \in devs /\ devs' = devs \ {m.conn}
                 /\ queue' = Without(queue, Removed(queue, m.conn))
    BY <2>1, <2>2 DEF MgrDisconnected
  <2>4. m.conn = c /\ c \in Conns
    BY <2>3 DEF PeripheralInv, Typed, TypeOK
  <2> DEFINE gone == Removed(queue, c)
  <2>5. gone = {i \in 1..Len(queue) : queue[i].conn = c}
    BY <2>4, FlushRemoves DEF PeripheralInv, Answers
  <2>6. queue \in Seq(Asked(nReq)) /\ queue' = Without(queue, gone)
    BY <2>3, <2>4 DEF PeripheralInv, Shapes
  <2>7. \A i \in 1..Len(queue) : i \notin gone => queue[i].conn # c
    BY <2>5
  <2> HIDE DEF gone
  <2>8. PICK i \in 1..Len(queue) : i \notin gone /\ queue'[k] = queue[i]
    BY <2>6, StaysFrom
  <2> QED BY <2>7, <2>8
<1>2. Spec => []PeripheralInv
  BY PeripheralAlways
<1> QED BY <1>1, <1>2, PTL DEF Spec, FlushComplete

(* While a task is blocked on the response queue its request is on the way to  *)
(* the stack, with the stack or answered, or its link has gone and the manager *)
(* is about to flush its element, unless the link was lost before the element  *)
(* was added (ble_mgr_gap_conn_rssi_get_cmd_handler).                          *)
THEOREM CallersAreServed ==
  ASSUME Peripheral
  PROVE  Spec => []CallerIsServed
<1>1. PeripheralInv => CallerIsServed
  <2> SUFFICES ASSUME PeripheralInv, app.pc = "wait", rsp = NoRsp, ~tooLate
               PROVE  UnderWay(app.req)
    BY DEF CallerIsServed
  <2>1. Coming(app.req)
    BY DEF PeripheralInv, Served, Awaited, Blocked
  <2>2. CASE app.req.what = "rssi" /\ Tells("disconnected", app.req.conn)
    <3>1. PICK i \in 1..Len(toMgr) : /\ toMgr[i].what = "disconnected"
                                     /\ toMgr[i].conn = app.req.conn
      BY <2>2 DEF Tells
    <3>2. toMgr[i] = Message("disconnected", app.req.conn, 0)
      BY <3>1, NewsIs DEF PeripheralInv, LinkNews
    <3> QED BY <2>2, <3>2 DEF UnderWay, ConnOf
  <2> QED BY <2>1, <2>2 DEF Coming, UnderWay
<1> QED BY <1>1, PeripheralAlways, PTL

(* The OS_ASSERT of ble_gtl_waitqueue_add holds for every number of links, and *)
(* with two places already, when a link is handled and its address resolved    *)
(* before the next one comes up.                                               *)
THEOREM QueueHasRoom ==
  ASSUME Peripheral, QuickResolve, MaxLen > 1
  PROVE  Spec => []RoomInQueue
<1>1. Init => PeripheralInv /\ Room
  BY PeripheralInit
<1>2. PeripheralInv /\ Room /\ [Next]_vars => Room'
  BY RoomNext DEF PeripheralInv
<1>3. Spec => []PeripheralInv
  BY PeripheralAlways
<1>4. Room => RoomInQueue
  BY DEF Room, RoomInQueue
<1> QED BY <1>1, <1>2, <1>3, <1>4, PTL DEF Spec
=============================================================================
