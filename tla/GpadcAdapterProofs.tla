------------------------- MODULE GpadcAdapterProofs -------------------------
(***************************************************************************)
(* Theorems about GpadcAdapter, for every number of tasks, requests,       *)
(* sources and readings, if no task calls again while its own asynchronous *)
(* reading runs: the adapter uses the resource manager as it expects, the  *)
(* converter is locked, a reading is of its own source, and everything is  *)
(* given back.                                                             *)
(*                                                                         *)
(* The resource manager gives the converter to one task (IInv of           *)
(* ResourceManagerProofs).  The argument here is that the adapter's own    *)
(* account of it, the owner and the count, agrees with the manager at      *)
(* every place of every task (HoldInv), although the count is read and     *)
(* written in two steps and the interrupt counts as well.                  *)
(***************************************************************************)
EXTENDS GpadcAdapter, ResourceManagerProofs

Places == {"idle", "check", "ask", "wait", "own", "load", "store", "use", "measure",
           "callback", "relLoad", "relStore", "relOwner", "relRes"}
Inside == {"own", "load", "store", "use", "measure", "callback", "relLoad", "relStore",
           "relOwner", "relRes"}

\* A reading inside an acquisition of the task itself.
Inner(t) == gJob[t].nest = "inner"

\* The task has the converter, or the interrupt has it for the task.
Holds(t) == gAt[t] \in Inside \/ (gAt[t] = "check" /\ Inner(t)) \/ converting = t

\* How often it has counted itself.
Depth(t) ==
  IF gAt[t] = "callback" THEN 2
  ELSE IF gAt[t] \in {"own", "relOwner", "relRes"} THEN 0
  ELSE IF gAt[t] \in {"check", "load", "store"} THEN (IF Inner(t) THEN 1 ELSE 0)
  ELSE IF gAt[t] = "idle" THEN 1
  ELSE IF Inner(t) THEN 2 ELSE 1

GTypeOK ==
  /\ gAt \in [Tasks -> Places]
  /\ gJob \in [Tasks -> [async : BOOLEAN, source : Sources \cup {NoSource},
                         nest : {"none", "outer", "inner"}]]
  /\ gSeen \in [Tasks -> Nat] /\ gCount \in Nat
  /\ gOwner \in Tasks \cup {NoTask} /\ converting \in Tasks \cup {NoTask}
  /\ reading \in BOOLEAN /\ sensor \in BOOLEAN

\* Where a task can be with which reading,
PlaceInv(t) ==
  /\ gAt[t] \in {"ask", "wait", "own", "relOwner", "relRes"} => ~Inner(t)
  /\ gAt[t] \in {"use", "measure"} => gJob[t].nest # "outer"
  /\ gAt[t] = "callback" => Inner(t) /\ converting = t
  /\ converting = t => gAt[t] \in {"idle", "callback"}

\* in which call of the manager,
CallInv(t) ==
  IF gAt[t] = "wait" THEN call[t].pc # "run" /\ mask[call[t].req] = {Gpadc}
                     ELSE call[t].pc = "run"

\* with which account of the converter,
HoldInv(t) ==
  /\ Holds(t) <=> Gpadc \in held[t]
  /\ Holds(t) => /\ gCount = Depth(t)
                 /\ gOwner = IF gAt[t] \in {"own", "relRes"} THEN NoTask ELSE t
  /\ gAt[t] \in {"store", "relStore"} => gSeen[t] = gCount

\* and with what set up.
ReadInv(t) ==
  gAt[t] = "measure" => source = gJob[t].source /\ (source = TempSensor /\ ~Inner(t) => sensor)

TaskInv(t) == PlaceInv(t) /\ CallInv(t) /\ HoldInv(t) /\ ReadInv(t)

\* A converter that nobody has is free; its interrupt is on for a reading only;
\* the sensor is on for a reading of the temperature only.
Unused     == (\A t \in Tasks : ~Holds(t)) => gCount = 0 /\ gOwner = NoTask
Conversion == reading <=> converting # NoTask
Reader(t)  == Holds(t) /\ gAt[t] \in {"idle", "measure", "callback", "relLoad", "relStore", "relOwner"}
SensorInv  == sensor => source = TempSensor /\ \E t \in Tasks : Reader(t)

GInv == GTypeOK /\ (\A t \in Tasks : TaskInv(t)) /\ Unused /\ Conversion /\ SensorInv

-----------------------------------------------------------------------------
(* The converter is a resource, and there are tasks only. *)
LEMMA Constants ==
  /\ {Gpadc} \in (SUBSET Resources) \ {{}} /\ NoTask \notin Tasks
  /\ \A r \in Readings : /\ r \in [async : BOOLEAN, source : Sources \cup {NoSource},
                                   nest : {"none", "outer", "inner"}]
                         /\ r.nest # "inner"
  BY GpadcAssumption

(* The manager has given the converter to one task. *)
LEMMA OneHolder ==
  ASSUME IInv, GInv, NEW t \in Tasks, NEW u \in Tasks, Holds(t), Holds(u)
  PROVE  t = u
  BY DEF IInv, Shares, GInv, TaskInv, HoldInv

(* What an acquisition does to the callers of the manager, *)
LEMMA Acquired ==
  ASSUME IInv, NEW t \in Tasks, AcquireNow(t, {Gpadc})
  PROVE  /\ call' = call /\ mask' = mask /\ call[t].pc = "run"
         /\ Gpadc \in held'[t] /\ \A u \in Tasks \ {t} : held'[u] = held[u]
  BY DEF AcquireNow, IInv, RmTypeOK
(* one that has to wait, *)
LEMMA Enqueued ==
  ASSUME IInv, NEW t \in Tasks, NEW l \in BOOLEAN, Enqueue(t, {Gpadc}, l)
  PROVE  /\ held' = held /\ call'[t].pc = "wait" /\ mask'[call'[t].req] = {Gpadc}
         /\ \A u \in Tasks \ {t} : /\ call'[u] = call[u]
                                   /\ call[u].pc # "run" => mask'[call[u].req] = mask[call[u].req]
<1>1. PICK r \in free :
        /\ mask' = [mask EXCEPT ![r] = {Gpadc}] /\ held' = held
        /\ call' = [call EXCEPT ![t] = [pc |-> "wait", req |-> r, limited |-> l, timedOut |-> FALSE]]
  BY DEF Enqueue
<1>2. r \in Requests /\ r \notin Listed
  BY DEF IInv, RmTypeOK, Lists
<1>3. call'[t] = [pc |-> "wait", req |-> r, limited |-> l, timedOut |-> FALSE]
      /\ \A u \in Tasks \ {t} : call'[u] = call[u]
  BY <1>1 DEF IInv, RmTypeOK
<1>4. mask'[r] = {Gpadc} /\ \A q \in Requests \ {r} : mask'[q] = mask[q]
  BY <1>1, <1>2 DEF IInv, RmTypeOK
<1>5. \A u \in Tasks \ {t} : call[u].pc # "run" => call[u].req \in Requests \ {r}
  BY <1>2 DEF IInv, Callers, Lists
<1> QED BY <1>1, <1>3, <1>4, <1>5
(* the end of the sleep, *)
LEMMA Woken ==
  ASSUME IInv, NEW t \in Tasks, Wake(t) \/ TimeOut(t)
  PROVE  /\ held' = held /\ mask' = mask
         /\ call[t].pc = "wait" /\ call'[t].pc = "woken" /\ call'[t].req = call[t].req
         /\ \A u \in Tasks \ {t} : call'[u] = call[u]
  BY DEF Wake, TimeOut, IInv, RmTypeOK
(* the end of the call, *)
LEMMA Returned ==
  ASSUME IInv, NEW t \in Tasks, Return(t)
  PROVE  /\ call'[t].pc = "run"
         /\ held'[t] = held[t] \cup (IF Succeeds(t) THEN mask[call[t].req] ELSE {})
         /\ \A u \in Tasks \ {t} :
              /\ call'[u] = call[u] /\ held'[u] = held[u]
              /\ call[u].pc # "run" => mask'[call[u].req] = mask[call[u].req]
<1>1. /\ call[t].pc = "woken" /\ call' = [call EXCEPT ![t] = Running]
      /\ held' = [held EXCEPT ![t] = @ \cup Given(t)] /\ mask' = [mask EXCEPT ![call[t].req] = {}]
  BY DEF Return
<1>2. call'[t].pc = "run" /\ \A u \in Tasks \ {t} : call'[u] = call[u]
  BY <1>1 DEF IInv, RmTypeOK, Running
<1>3. held'[t] = held[t] \cup (IF Succeeds(t) THEN mask[call[t].req] ELSE {})
      /\ \A u \in Tasks \ {t} : held'[u] = held[u]
  BY <1>1 DEF IInv, RmTypeOK, Given
<1>4. \A u \in Tasks \ {t} : call[u].pc # "run" => call[u].req \in Requests /\ call[u].req # call[t].req
  BY <1>1 DEF IInv, Callers, Lists
<1>5. \A q \in Requests : q # call[t].req => mask'[q] = mask[q]
  BY <1>1 DEF IInv, RmTypeOK
<1> QED BY <1>2, <1>3, <1>4, <1>5
(* and a release. *)
LEMMA Released ==
  ASSUME Release({Gpadc})
  PROVE  call' = call /\ mask' = mask /\ \A u \in Tasks : held'[u] = held[u] \ {Gpadc}
  BY DEF Release

-----------------------------------------------------------------------------
(***************************************************************************)
(* The adapter is a caller as the manager expects.                         *)
(***************************************************************************)
LEMMA CallsManager ==
  ASSUME IInv, GInv, [Next]_vars
  PROVE  [RmNext]_rmVars
<1>1. ASSUME NEW t \in Tasks, GpadcTask(t) PROVE [RmNext]_rmVars
  <2>1. CASE GAsk(t)
    BY <2>1, Constants DEF GAsk, RmNext
  <2>2. CASE GGranted(t)
    BY <2>2 DEF GGranted, RmNext
  <2>3. CASE GRelRes(t)
    <3>1. {Gpadc} \subseteq held[t]
      BY <2>3 DEF GRelRes, GInv, TaskInv, HoldInv, Holds, Inside
    <3> QED BY <2>3, <3>1, Constants DEF GRelRes, RmNext
  <2>4. CASE ~(GAsk(t) \/ GGranted(t) \/ GRelRes(t))
    BY <1>1, <2>4 DEF GpadcTask, GCheck, GOwn, GLoad, GStore, GUse, GMeasured, GRelLoad,
       GRelStore, GRelOwner
  <2> QED BY <2>1, <2>2, <2>3, <2>4
<1>2. ASSUME NEW t \in Tasks, NEW r \in Readings, GBegin(t, r) PROVE UNCHANGED rmVars
  BY <1>2 DEF GBegin
<1>3. ASSUME NEW t \in Tasks, GWake(t) \/ GTimeOut(t) PROVE RmNext
  BY <1>3 DEF GWake, GTimeOut, RmNext
<1>4. CASE GInterrupt
  <2>1. CASE IsLast(gCount)
    <3>1. converting \in Tasks
      BY <1>4 DEF GInterrupt, GInv, GTypeOK
    <3>2. {Gpadc} \subseteq held[converting]
      BY <3>1 DEF GInv, TaskInv, HoldInv, Holds
    <3> QED BY <1>4, <2>1, <3>1, <3>2, Constants DEF GInterrupt, RmNext
  <2>2. CASE ~IsLast(gCount)
    BY <1>4, <2>2 DEF GInterrupt
  <2> QED BY <2>1, <2>2
<1>5. CASE GSleep
  BY <1>5 DEF GSleep
<1>6. CASE UNCHANGED vars
  BY <1>6 DEF vars
<1> QED BY <1>1, <1>2, <1>3, <1>4, <1>5, <1>6 DEF Next

-----------------------------------------------------------------------------
(***************************************************************************)
(* The steps of the adapter.                                               *)
(***************************************************************************)
\* What a step of t leaves alone: the other tasks, and the account of the
\* converter unless t has it.
OthersRest(t) ==
  /\ \A u \in Tasks \ {t} :
        /\ gAt'[u] = gAt[u] /\ gJob'[u] = gJob[u] /\ gSeen'[u] = gSeen[u]
        /\ call'[u] = call[u] /\ (Gpadc \in held'[u] <=> Gpadc \in held[u])
        /\ call[u].pc # "run" => mask'[call[u].req] = mask[call[u].req]
  /\ UNCHANGED gData \/ (Holds(t) /\ converting' \in {t, NoTask, converting})

(* Then the others keep what holds of them. *)
LEMMA Others ==
  ASSUME IInv, GInv, NEW t \in Tasks, OthersRest(t), NEW u \in Tasks \ {t}
  PROVE  TaskInv(u)' /\ (Holds(u)' <=> Holds(u))
<1>1. TaskInv(u) /\ u # NoTask
  BY Constants DEF GInv
<1>2. gAt'[u] = gAt[u] /\ gJob'[u] = gJob[u] /\ gSeen'[u] = gSeen[u]
  BY DEF OthersRest
<1>3. CallInv(u)'
  BY <1>1, <1>2 DEF OthersRest, TaskInv, CallInv
<1>4. CASE UNCHANGED gData
  <2>1. (Holds(u)' <=> Holds(u)) /\ Depth(u)' = Depth(u)
    BY <1>2, <1>4 DEF gData, Holds, Depth, Inner
  <2>2. PlaceInv(u)' /\ ReadInv(u)'
    BY <1>1, <1>2, <1>4 DEF gData, TaskInv, PlaceInv, ReadInv, Inner
  <2>3. HoldInv(u)'
    BY <1>1, <1>2, <1>4, <2>1 DEF OthersRest, gData, TaskInv, HoldInv
  <2> QED BY <1>3, <2>1, <2>2, <2>3 DEF TaskInv
<1>5. CASE Holds(t) /\ converting' \in {t, NoTask, converting}
  <2>1. ~Holds(u)
    BY <1>5, OneHolder
  <2>2. converting # u /\ converting' # u
    BY <1>1, <1>5, <2>1 DEF Holds
  <2>3. ~Holds(u)'
    BY <1>2, <2>1, <2>2 DEF Holds, Inner
  <2>4. gAt[u] \notin {"store", "relStore", "measure", "callback", "use"}
    BY <2>1 DEF Holds, Inside
  <2>5. PlaceInv(u)' /\ ReadInv(u)'
    BY <1>1, <1>2, <2>2, <2>4 DEF TaskInv, PlaceInv, ReadInv, Inner
  <2>6. HoldInv(u)'
    BY <1>1, <1>2, <2>1, <2>3, <2>4 DEF OthersRest, TaskInv, HoldInv
  <2> QED BY <1>3, <2>1, <2>3, <2>5, <2>6 DEF TaskInv
<1> QED BY <1>4, <1>5 DEF OthersRest

(* What is left to show of a step of t that has the converter after it. *)
LEMMA Holding ==
  ASSUME IInv, GInv, NEW t \in Tasks, OthersRest(t), GTypeOK', TaskInv(t)', Holds(t)',
         Conversion', sensor' => source' = TempSensor /\ (Reader(t)' \/ ~Holds(t))
  PROVE  GInv'
<1>1. \A u \in Tasks : TaskInv(u)'
  BY Others
<1>2. Unused'
  BY DEF Unused
<1>3. SensorInv'
  <2> SUFFICES ASSUME sensor' PROVE \E u \in Tasks : Reader(u)'
    BY DEF SensorInv
  <2>1. CASE Reader(t)'
    BY <2>1
  <2>2. CASE ~Holds(t)
    <3>1. sensor
      BY <2>2 DEF OthersRest, gData
    <3>2. PICK u \in Tasks : Reader(u)
      BY <3>1 DEF GInv, SensorInv
    <3>3. u \in Tasks \ {t}
      BY <2>2, <3>2 DEF Reader
    <3> QED BY <3>2, <3>3, Others DEF Reader, OthersRest
  <2> QED BY <2>1, <2>2
<1> QED BY <1>1, <1>2, <1>3 DEF GInv

(* And of one that has it neither before nor after. *)
LEMMA NotHolding ==
  ASSUME IInv, GInv, NEW t \in Tasks, OthersRest(t), GTypeOK', TaskInv(t)',
         ~Holds(t), ~Holds(t)'
  PROVE  GInv'
<1>1. \A u \in Tasks : TaskInv(u)'
  BY Others
<1>2. UNCHANGED gData
  BY DEF OthersRest
<1>3. \A u \in Tasks : Holds(u)' <=> Holds(u)
  BY Others
<1>4. Unused'
  BY <1>2, <1>3 DEF GInv, Unused, gData
<1>5. \A u \in Tasks : Reader(u) => Reader(u)'
  BY <1>3 DEF Reader, OthersRest
<1>6. SensorInv' /\ Conversion'
  BY <1>2, <1>5 DEF GInv, SensorInv, Conversion, gData
<1> QED BY <1>1, <1>4, <1>6 DEF GInv

(* A reading begins; *)
LEMMA BeginStep ==
  ASSUME IInv, GInv, ~Nested, NEW t \in Tasks, NEW r \in Readings, GBegin(t, r)
  PROVE  GInv'
<1>1. /\ gAt[t] = "idle" /\ converting # t /\ call[t].pc = "run"
      /\ gJob' = [gJob EXCEPT ![t] = r] /\ gAt' = [gAt EXCEPT ![t] = "check"]
      /\ UNCHANGED <<rmVars, gSeen, gData>>
  BY DEF GBegin, GStep, GGo
<1>2. gAt'[t] = "check" /\ gJob'[t] = r /\ ~Inner(t)'
  BY <1>1, Constants DEF GInv, GTypeOK, Inner
<1>3. \A u \in Tasks \ {t} : gAt'[u] = gAt[u] /\ gJob'[u] = gJob[u]
  BY <1>1 DEF GInv, GTypeOK
<1>4. GTypeOK'
  BY <1>1, Constants DEF GInv, GTypeOK, gData, Places
<1>5. ~Holds(t) /\ ~Holds(t)'
  BY <1>1, <1>2 DEF Holds, Inside, gData
<1>6. TaskInv(t)'
  BY <1>1, <1>2, <1>5 DEF GInv, TaskInv, PlaceInv, CallInv, HoldInv, ReadInv, rmVars, gData
<1>7. OthersRest(t)
  BY <1>1, <1>3 DEF OthersRest, rmVars
<1> QED BY <1>4, <1>5, <1>6, <1>7, NotHolding

(* the owner is compared; *)
LEMMA CheckStep ==
  ASSUME IInv, GInv, NEW t \in Tasks, GCheck(t)
  PROVE  GInv'
<1>1. /\ gAt[t] = "check" /\ call[t].pc = "run"
      /\ gAt' = [gAt EXCEPT ![t] = IF gOwner = t THEN "load" ELSE "ask"]
      /\ UNCHANGED <<rmVars, gJob, gSeen, gData>>
  BY DEF GCheck, GStep, GGo
<1>2. gAt'[t] = (IF gOwner = t THEN "load" ELSE "ask") /\ \A u \in Tasks \ {t} : gAt'[u] = gAt[u]
  BY <1>1 DEF GInv, GTypeOK
<1>3. GTypeOK'
  BY <1>1 DEF GInv, GTypeOK, gData, Places
<1>4. OthersRest(t)
  BY <1>1, <1>2 DEF OthersRest, rmVars
<1>5. converting # t
  BY <1>1 DEF GInv, TaskInv, PlaceInv
<1>6. CASE Inner(t)
  <2>1. Holds(t) /\ gOwner = t
    BY <1>1, <1>6 DEF Holds, GInv, TaskInv, HoldInv
  <2>2. gAt'[t] = "load" /\ Holds(t)'
    BY <1>2, <2>1 DEF Holds, Inside
  <2>3. TaskInv(t)'
    BY <1>1, <2>1, <2>2, <1>5 DEF GInv, TaskInv, PlaceInv, CallInv, HoldInv, ReadInv, Depth,
       Inner, rmVars, gData
  <2>4. ~sensor
    <3>1. ~Reader(t)
      BY <1>1 DEF Reader
    <3>2. \A u \in Tasks : Reader(u) => u = t
      BY <2>1, OneHolder DEF Reader
    <3> QED BY <3>1, <3>2 DEF GInv, SensorInv
  <2> QED BY <1>1, <1>3, <1>4, <2>2, <2>3, <2>4, Holding DEF GInv, Conversion, gData
<1>7. CASE ~Inner(t)
  <2>1. ~Holds(t)
    BY <1>1, <1>5, <1>7 DEF Holds, Inside
  <2>2. gOwner # t
    <3>1. CASE \E u \in Tasks : Holds(u)
      BY <2>1, <3>1, Constants DEF GInv, TaskInv, HoldInv
    <3>2. CASE \A u \in Tasks : ~Holds(u)
      BY <3>2, Constants DEF GInv, Unused
    <3> QED BY <3>1, <3>2
  <2>3. gAt'[t] = "ask" /\ ~Holds(t)'
    BY <1>1, <1>2, <1>5, <2>2 DEF Holds, Inside, gData
  <2>4. TaskInv(t)'
    BY <1>1, <1>7, <2>1, <2>3, <1>5 DEF GInv, TaskInv, PlaceInv, CallInv, HoldInv, ReadInv,
       Inner, rmVars, gData
  <2> QED BY <1>3, <1>4, <2>1, <2>3, <2>4, NotHolding
<1> QED BY <1>6, <1>7

(* the manager is asked, *)
LEMMA AskStep ==
  ASSUME IInv, GInv, NEW t \in Tasks, GAsk(t)
  PROVE  GInv'
<1>1. gAt[t] = "ask" /\ UNCHANGED <<gSeen, gData>>
  BY DEF GAsk
<1>2. ~Inner(t) /\ converting # t /\ ~Holds(t) /\ TaskInv(t) /\ call[t].pc = "run"
  BY <1>1 DEF GInv, TaskInv, PlaceInv, CallInv, Holds, Inside
<1>3. CASE AcquireNow(t, {Gpadc}) /\ gAt' = [gAt EXCEPT ![t] = "own"] /\ UNCHANGED gJob
  <2>1. gAt'[t] = "own" /\ \A u \in Tasks \ {t} : gAt'[u] = gAt[u]
    BY <1>3 DEF GInv, GTypeOK
  <2>2. GTypeOK'
    BY <1>1, <1>3 DEF GInv, GTypeOK, gData, Places
  <2>3. OthersRest(t) /\ Gpadc \in held'[t] /\ call' = call
    BY <1>1, <1>3, <2>1, Acquired DEF OthersRest
  <2>4. Holds(t)'
    BY <2>1 DEF Holds, Inside
  <2>5. \A u \in Tasks : ~Holds(u)
    <3> SUFFICES ASSUME NEW u \in Tasks, Holds(u) PROVE FALSE
      OBVIOUS
    <3>1. Gpadc \in held[u]
      BY DEF GInv, TaskInv, HoldInv
    <3>2. Gpadc \in acquired
      BY <3>1 DEF IInv, Shares
    <3> QED BY <1>3, <3>2 DEF AcquireNow
  <2>6. gCount = 0 /\ gOwner = NoTask
    BY <2>5 DEF GInv, Unused
  <2>7. TaskInv(t)'
    BY <1>1, <1>2, <1>3, <2>1, <2>3, <2>4, <2>6 DEF TaskInv, PlaceInv, CallInv, HoldInv, ReadInv,
       Depth, Inner, gData
  <2> QED BY <1>1, <1>2, <2>2, <2>3, <2>4, <2>7, Holding DEF GInv, Conversion, SensorInv, gData
<1>4. ASSUME NEW l \in BOOLEAN, Enqueue(t, {Gpadc}, l), gAt' = [gAt EXCEPT ![t] = "wait"],
             UNCHANGED gJob
      PROVE  GInv'
  <2>1. gAt'[t] = "wait" /\ \A u \in Tasks \ {t} : gAt'[u] = gAt[u]
    BY <1>4 DEF GInv, GTypeOK
  <2>2. GTypeOK'
    BY <1>1, <1>4 DEF GInv, GTypeOK, gData, Places
  <2>3. OthersRest(t) /\ held' = held /\ call'[t].pc = "wait" /\ mask'[call'[t].req] = {Gpadc}
    BY <1>1, <1>4, <2>1, Enqueued DEF OthersRest
  <2>4. ~Holds(t)'
    BY <1>1, <1>2, <2>1 DEF Holds, Inside, gData
  <2>5. TaskInv(t)'
    BY <1>1, <1>2, <1>4, <2>1, <2>3, <2>4 DEF TaskInv, PlaceInv, CallInv, HoldInv, ReadInv,
       Inner, gData
  <2> QED BY <1>2, <2>2, <2>3, <2>4, <2>5, NotHolding
<1>5. CASE Refused(t, {Gpadc}) /\ GLeave(t)
  <2>1. /\ gAt' = [gAt EXCEPT ![t] = "idle"] /\ gJob' = [gJob EXCEPT ![t] = NoReading]
        /\ UNCHANGED rmVars
    BY <1>5 DEF Refused, GLeave, GGo
  <2>2. gAt'[t] = "idle" /\ \A u \in Tasks \ {t} : gAt'[u] = gAt[u] /\ gJob'[u] = gJob[u]
    BY <2>1 DEF GInv, GTypeOK
  <2>3. GTypeOK'
    BY <1>1, <2>1 DEF GInv, GTypeOK, gData, Places, NoReading
  <2>4. OthersRest(t)
    BY <1>1, <2>1, <2>2 DEF OthersRest, rmVars
  <2>5. ~Holds(t)'
    BY <1>1, <1>2, <2>2 DEF Holds, Inside, gData
  <2>6. TaskInv(t)'
    BY <1>1, <1>2, <2>1, <2>2, <2>5 DEF TaskInv, PlaceInv, CallInv, HoldInv, ReadInv, rmVars, gData
  <2> QED BY <1>2, <2>3, <2>4, <2>5, <2>6, NotHolding
<1>6. \/ AcquireNow(t, {Gpadc}) /\ gAt' = [gAt EXCEPT ![t] = "own"] /\ UNCHANGED gJob
      \/ /\ \E l \in BOOLEAN : Enqueue(t, {Gpadc}, l)
         /\ gAt' = [gAt EXCEPT ![t] = "wait"] /\ UNCHANGED gJob
      \/ Refused(t, {Gpadc}) /\ GLeave(t)
  BY DEF GAsk, GGo
<1> QED BY <1>3, <1>4, <1>5, <1>6

(* and gives the converter, or the time is up; *)
LEMMA GrantedStep ==
  ASSUME IInv, GInv, NEW t \in Tasks, GGranted(t)
  PROVE  GInv'
<1>1. gAt[t] = "wait" /\ Return(t) /\ UNCHANGED <<gSeen, gData>>
  BY DEF GGranted
<1>2. /\ ~Inner(t) /\ converting # t /\ ~Holds(t) /\ TaskInv(t)
      /\ call[t].pc # "run" /\ mask[call[t].req] = {Gpadc}
  BY <1>1 DEF GInv, TaskInv, PlaceInv, CallInv, Holds, Inside
<1>3. CASE Succeeds(t)
  <2>1. gAt' = [gAt EXCEPT ![t] = "own"] /\ UNCHANGED gJob
    BY <1>3 DEF GGranted, GGo
  <2>2. gAt'[t] = "own" /\ \A u \in Tasks \ {t} : gAt'[u] = gAt[u]
    BY <2>1 DEF GInv, GTypeOK
  <2>3. GTypeOK'
    BY <1>1, <2>1 DEF GInv, GTypeOK, gData, Places
  <2>4. OthersRest(t) /\ Gpadc \in held'[t] /\ call'[t].pc = "run"
    BY <1>1, <1>2, <1>3, <2>1, <2>2, Returned DEF OthersRest
  <2>5. Holds(t)'
    BY <2>2 DEF Holds, Inside
  <2>6. \A u \in Tasks : ~Holds(u)
    <3> SUFFICES ASSUME NEW u \in Tasks, Holds(u) PROVE FALSE
      OBVIOUS
    <3>1. Gpadc \in held[u]
      BY DEF GInv, TaskInv, HoldInv
    <3>2. call[t].req \in Requests /\ granted[call[t].req] = TRUE
      BY <1>2, <1>3 DEF IInv, Callers, Lists, RmTypeOK, Succeeds
    <3> QED BY <1>2, <3>1, <3>2 DEF IInv, Shares
  <2>7. gCount = 0 /\ gOwner = NoTask
    BY <2>6 DEF GInv, Unused
  <2>8. TaskInv(t)'
    BY <1>1, <1>2, <2>1, <2>2, <2>4, <2>5, <2>7 DEF TaskInv, PlaceInv, CallInv, HoldInv, ReadInv,
       Depth, Inner, gData
  <2> QED BY <1>1, <1>2, <2>3, <2>4, <2>5, <2>8, Holding DEF GInv, Conversion, SensorInv, gData
<1>4. CASE ~Succeeds(t)
  <2>1. gAt' = [gAt EXCEPT ![t] = "idle"] /\ gJob' = [gJob EXCEPT ![t] = NoReading]
    BY <1>4 DEF GGranted, Fails, GLeave, GGo
  <2>2. gAt'[t] = "idle" /\ \A u \in Tasks \ {t} : gAt'[u] = gAt[u] /\ gJob'[u] = gJob[u]
    BY <2>1 DEF GInv, GTypeOK
  <2>3. GTypeOK'
    BY <1>1, <2>1 DEF GInv, GTypeOK, gData, Places, NoReading
  <2>4. OthersRest(t) /\ held'[t] = held[t] /\ call'[t].pc = "run"
    BY <1>1, <1>4, <2>2, Returned DEF OthersRest
  <2>5. ~Holds(t)'
    BY <1>1, <1>2, <2>2 DEF Holds, Inside, gData
  <2>6. TaskInv(t)'
    BY <1>1, <1>2, <2>2, <2>4, <2>5 DEF TaskInv, PlaceInv, CallInv, HoldInv, ReadInv, gData
  <2> QED BY <1>2, <2>3, <2>4, <2>5, <2>6, NotHolding
<1> QED BY <1>3, <1>4

(* a task sleeps and wakes up. *)
LEMMA SleepStep ==
  ASSUME IInv, GInv, NEW t \in Tasks, GWake(t) \/ GTimeOut(t)
  PROVE  GInv'
<1>1. (Wake(t) \/ TimeOut(t)) /\ UNCHANGED <<gAt, gJob, gSeen, gData>>
  BY DEF GWake, GTimeOut, gpadcVars
<1>2. /\ held' = held /\ mask' = mask
      /\ call[t].pc = "wait" /\ call'[t].pc = "woken" /\ call'[t].req = call[t].req
      /\ \A u \in Tasks \ {t} : call'[u] = call[u]
  BY <1>1, Woken
<1>3. gAt[t] = "wait" /\ TaskInv(t)
  BY <1>2 DEF GInv, TaskInv, CallInv
<1>4. ~Holds(t) /\ ~Holds(t)'
  BY <1>1, <1>3 DEF Holds, Inside, TaskInv, PlaceInv, gData
<1>5. TaskInv(t)'
  BY <1>1, <1>2, <1>3, <1>4 DEF TaskInv, PlaceInv, CallInv, HoldInv, ReadInv, Inner, gData
<1>6. GTypeOK' /\ OthersRest(t)
  BY <1>1, <1>2 DEF GInv, GTypeOK, gData, OthersRest
<1> QED BY <1>4, <1>5, <1>6, NotHolding

(* The steps between acquisition and release run with the converter held   *)
(* and outside the manager.                                                *)
LEMMA Working ==
  ASSUME IInv, GInv, NEW t \in Tasks, UNCHANGED rmVars,
         gAt[t] \in {"own", "load", "store", "use", "measure", "relLoad", "relStore", "relOwner"},
         gAt'[t] \in {"check", "load", "store", "use", "measure", "callback", "relLoad",
                      "relStore", "relOwner", "relRes"} \/ converting' = t,
         gAt'[t] = "check" => Inner(t)',
         \A u \in Tasks \ {t} : gAt'[u] = gAt[u] /\ gJob'[u] = gJob[u] /\ gSeen'[u] = gSeen[u],
         converting' \in {t, NoTask, converting},
         gAt'[t] # "wait"
  PROVE  /\ Holds(t) /\ Holds(t)' /\ OthersRest(t) /\ converting = NoTask
         /\ TaskInv(t) /\ CallInv(t)' /\ (Holds(t)' <=> Gpadc \in held'[t])
         /\ sensor => Reader(t) /\ source = TempSensor
<1>1. Holds(t) /\ TaskInv(t)
  BY DEF Holds, Inside, GInv
<1>2. Holds(t)'
  BY DEF Holds, Inside
<1>3. OthersRest(t)
  BY <1>1 DEF OthersRest, rmVars
<1>4. converting = NoTask
  <2> SUFFICES ASSUME converting # NoTask PROVE FALSE
    OBVIOUS
  <2>1. converting \in Tasks /\ Holds(converting)
    BY DEF GInv, GTypeOK, Holds
  <2>2. converting = t
    BY <1>1, <2>1, OneHolder
  <2> QED BY <1>1, <2>2 DEF TaskInv, PlaceInv
<1>5. CallInv(t)' /\ (Holds(t)' <=> Gpadc \in held'[t])
  BY <1>1, <1>2 DEF TaskInv, CallInv, HoldInv, rmVars
<1>6. sensor => Reader(t) /\ source = TempSensor
  <2> SUFFICES ASSUME sensor PROVE Reader(t) /\ source = TempSensor
    OBVIOUS
  <2>1. PICK u \in Tasks : Reader(u)
    BY DEF GInv, SensorInv
  <2>2. u = t
    BY <1>1, <2>1, OneHolder DEF Reader
  <2> QED BY <2>1, <2>2 DEF GInv, SensorInv
<1> QED BY <1>1, <1>2, <1>3, <1>4, <1>5, <1>6

(* The owner is set, the count is read, *)
LEMMA OwnStep ==
  ASSUME IInv, GInv, NEW t \in Tasks, GOwn(t) \/ GLoad(t)
  PROVE  GInv'
<1>1. CASE GOwn(t)
  <2>1. /\ gAt[t] = "own" /\ gAt' = [gAt EXCEPT ![t] = "load"] /\ gOwner' = t
        /\ UNCHANGED <<rmVars, gJob, gSeen, gCount, reading, source, converting, sensor>>
    BY <1>1 DEF GOwn, GStep, GGo
  <2>2. gAt'[t] = "load" /\ \A u \in Tasks \ {t} : gAt'[u] = gAt[u]
    BY <2>1 DEF GInv, GTypeOK
  <2>3. GTypeOK'
    BY <2>1 DEF GInv, GTypeOK, Places
  <2>4. /\ Holds(t) /\ Holds(t)' /\ OthersRest(t) /\ converting = NoTask
        /\ TaskInv(t) /\ CallInv(t)' /\ (Holds(t)' <=> Gpadc \in held'[t])
        /\ sensor => Reader(t) /\ source = TempSensor
    BY <2>1, <2>2, Working
  <2>5. TaskInv(t)'
    BY <2>1, <2>2, <2>4, Constants DEF TaskInv, PlaceInv, HoldInv, ReadInv, Depth, Inner
  <2>6. ~sensor'
    BY <2>1, <2>4 DEF Reader
  <2> QED BY <2>1, <2>3, <2>4, <2>5, <2>6, Holding DEF GInv, Conversion
<1>2. CASE GLoad(t)
  <2>1. /\ gAt[t] = "load" /\ gAt' = [gAt EXCEPT ![t] = "store"]
        /\ gSeen' = [gSeen EXCEPT ![t] = gCount]
        /\ UNCHANGED <<rmVars, gJob, gData>>
    BY <1>2 DEF GLoad, GStep, GGo
  <2>2. /\ gAt'[t] = "store" /\ gSeen'[t] = gCount
        /\ \A u \in Tasks \ {t} : gAt'[u] = gAt[u] /\ gSeen'[u] = gSeen[u]
    BY <2>1 DEF GInv, GTypeOK
  <2>3. GTypeOK'
    BY <2>1 DEF GInv, GTypeOK, Places, gData
  <2>4. /\ Holds(t) /\ Holds(t)' /\ OthersRest(t) /\ converting = NoTask
        /\ TaskInv(t) /\ CallInv(t)' /\ (Holds(t)' <=> Gpadc \in held'[t])
        /\ sensor => Reader(t) /\ source = TempSensor
    BY <2>1, <2>2, Working DEF gData
  <2>5. TaskInv(t)'
    BY <2>1, <2>2, <2>4, Constants DEF TaskInv, PlaceInv, HoldInv, ReadInv, Depth, Inner, gData
  <2>6. ~sensor'
    BY <2>1, <2>4 DEF Reader, gData
  <2> QED BY <2>1, <2>3, <2>4, <2>5, <2>6, Holding DEF GInv, Conversion, gData
<1> QED BY <1>1, <1>2

(* and written. *)
LEMMA StoreStep ==
  ASSUME IInv, GInv, NEW t \in Tasks, GStore(t)
  PROVE  GInv'
<1>1. /\ gAt[t] = "store" /\ gCount' = gSeen[t] + 1 /\ gSeen' = [gSeen EXCEPT ![t] = 0]
      /\ UNCHANGED <<rmVars, gOwner, reading, source, converting, sensor>>
      /\ IF gJob[t].nest = "outer"
           THEN gAt' = [gAt EXCEPT ![t] = "check"] /\ gJob' = [gJob EXCEPT ![t].nest = "inner"]
           ELSE gAt' = [gAt EXCEPT ![t] = "use"] /\ UNCHANGED gJob
  BY DEF GStore, GStep, GGo, Nest
<1>2. /\ gAt'[t] = (IF gJob[t].nest = "outer" THEN "check" ELSE "use")
      /\ gJob'[t].nest = (IF gJob[t].nest = "outer" THEN "inner" ELSE gJob[t].nest)
      /\ \A u \in Tasks \ {t} : gAt'[u] = gAt[u] /\ gJob'[u] = gJob[u] /\ gSeen'[u] = gSeen[u]
  BY <1>1 DEF GInv, GTypeOK
<1>3. gSeen[t] \in Nat /\ gJob[t].nest \in {"none", "outer", "inner"}
  BY DEF GInv, GTypeOK
<1>4. GTypeOK'
  BY <1>1, <1>3 DEF GInv, GTypeOK, Places
<1>5. /\ Holds(t) /\ Holds(t)' /\ OthersRest(t) /\ converting = NoTask
      /\ TaskInv(t) /\ CallInv(t)' /\ (Holds(t)' <=> Gpadc \in held'[t])
      /\ sensor => Reader(t) /\ source = TempSensor
  BY <1>1, <1>2, Working DEF Inner
<1>6. gCount' = Depth(t)' /\ gOwner' = t
  BY <1>1, <1>2, <1>3, <1>5 DEF TaskInv, HoldInv, Depth, Inner
<1>7. TaskInv(t)'
  BY <1>1, <1>2, <1>3, <1>5, <1>6, Constants DEF TaskInv, PlaceInv, HoldInv, ReadInv, Inner
<1>8. ~sensor'
  BY <1>1, <1>5 DEF Reader
<1> QED BY <1>1, <1>4, <1>5, <1>7, <1>8, Holding DEF GInv, Conversion

(* The converter is set up: the sensor was off, *)
LEMMA UseStep ==
  ASSUME IInv, GInv, NEW t \in Tasks, GUse(t)
  PROVE  GInv'
<1>1. gAt[t] = "use" /\ UNCHANGED <<rmVars, gSeen, gOwner, gCount>>
  BY DEF GUse, GStep
<1>2. Holds(t) /\ TaskInv(t) /\ gJob[t].nest \in {"none", "inner"}
  BY <1>1 DEF Holds, Inside, GInv, TaskInv, PlaceInv, GTypeOK
<1>3. ~reading /\ converting = NoTask
  <2>1. converting = NoTask
    <3> SUFFICES ASSUME converting # NoTask PROVE FALSE
      OBVIOUS
    <3>1. converting \in Tasks /\ Holds(converting)
      BY DEF GInv, GTypeOK, Holds
    <3>2. converting = t
      BY <1>2, <3>1, OneHolder
    <3> QED BY <1>1, <1>2, <3>2 DEF TaskInv, PlaceInv
  <2> QED BY <2>1 DEF GInv, Conversion
<1>4. /\ source' = gJob[t].source /\ sensor' = (sensor \/ (gCount = 1 /\ source' = TempSensor))
      /\ reading' = (reading \/ gJob[t].async)
      /\ converting' = IF gJob[t].async THEN t ELSE NoTask
      /\ IF gJob[t].async /\ gJob[t].nest = "none"
           THEN gAt' = [gAt EXCEPT ![t] = "idle"] /\ gJob' = [gJob EXCEPT ![t] = NoReading]
           ELSE /\ gAt' = [gAt EXCEPT ![t] = IF gJob[t].async THEN "callback" ELSE "measure"]
                /\ gJob' = gJob
  BY <1>3 DEF GUse, SetUp, GLeave, GGo
<1>5. /\ gAt'[t] = (IF ~gJob[t].async THEN "measure"
                    ELSE IF gJob[t].nest = "none" THEN "idle" ELSE "callback")
      /\ gAt'[t] # "idle" => gJob'[t] = gJob[t]
      /\ \A u \in Tasks \ {t} : gAt'[u] = gAt[u] /\ gJob'[u] = gJob[u]
  BY <1>4 DEF GInv, GTypeOK
<1>6. gJob[t].async \in BOOLEAN
  BY DEF GInv, GTypeOK
<1>7. GTypeOK'
  <2>1. gAt' \in [Tasks -> Places]
    BY <1>4, <1>6 DEF GInv, GTypeOK, Places
  <2>2. NoReading \in [async : BOOLEAN, source : Sources \cup {NoSource},
                       nest : {"none", "outer", "inner"}]
    BY DEF NoReading
  <2>3. gJob' \in [Tasks -> [async : BOOLEAN, source : Sources \cup {NoSource},
                             nest : {"none", "outer", "inner"}]]
    BY <1>4, <2>2 DEF GInv, GTypeOK
  <2>4. reading' \in BOOLEAN /\ sensor' \in BOOLEAN
    BY <1>4, Zenon
  <2>5. converting' \in Tasks \cup {NoTask}
    BY <1>4
  <2> QED BY <1>1, <2>1, <2>3, <2>4, <2>5 DEF GInv, GTypeOK
<1>8. /\ Holds(t)' /\ OthersRest(t)
      /\ CallInv(t)' /\ (Holds(t)' <=> Gpadc \in held'[t])
      /\ sensor => Reader(t) /\ source = TempSensor
  BY <1>1, <1>4, <1>5, <1>6, Working
<1>9. ~sensor /\ gCount = IF gJob[t].nest = "none" THEN 1 ELSE 2
  BY <1>1, <1>2, <1>8 DEF Reader, TaskInv, HoldInv, Depth, Inner
<1>10. HoldInv(t)'
  <2>1. gCount' = Depth(t)'
    BY <1>1, <1>2, <1>5, <1>6, <1>9 DEF Depth, Inner
  <2>2. gOwner' = t
    BY <1>1, <1>2 DEF TaskInv, HoldInv
  <2> QED BY <1>5, <1>8, <2>1, <2>2 DEF HoldInv
<1>11. PlaceInv(t)'
  BY <1>2, <1>4, <1>5, <1>6, Constants DEF PlaceInv, Inner
<1>12. ReadInv(t)'
  BY <1>2, <1>4, <1>5, <1>9 DEF ReadInv, Inner
<1>13. sensor' => source' = TempSensor /\ Reader(t)'
  BY <1>4, <1>5, <1>8, <1>9 DEF Reader
<1>14. Conversion'
  BY <1>3, <1>4, <1>6, Constants DEF Conversion
<1> QED BY <1>7, <1>8, <1>10, <1>11, <1>12, <1>13, <1>14, Holding DEF TaskInv

(* and is measured with; the count is read for the release. *)
LEMMA MeasuredStep ==
  ASSUME IInv, GInv, NEW t \in Tasks, GMeasured(t) \/ GRelLoad(t)
  PROVE  GInv'
<1>1. CASE GMeasured(t)
  <2>1. /\ gAt[t] = "measure" /\ gAt' = [gAt EXCEPT ![t] = "relLoad"]
        /\ UNCHANGED <<rmVars, gJob, gSeen, gData>>
    BY <1>1 DEF GMeasured, GStep, GGo
  <2>2. gAt'[t] = "relLoad" /\ \A u \in Tasks \ {t} : gAt'[u] = gAt[u]
    BY <2>1 DEF GInv, GTypeOK
  <2>3. GTypeOK'
    BY <2>1 DEF GInv, GTypeOK, Places, gData
  <2>4. /\ Holds(t) /\ Holds(t)' /\ OthersRest(t) /\ converting = NoTask
        /\ TaskInv(t) /\ CallInv(t)' /\ (Holds(t)' <=> Gpadc \in held'[t])
        /\ sensor => Reader(t) /\ source = TempSensor
    BY <2>1, <2>2, Working DEF gData
  <2>5. TaskInv(t)'
    BY <2>1, <2>2, <2>4, Constants DEF TaskInv, PlaceInv, HoldInv, ReadInv, Depth, Inner, gData
  <2> QED BY <2>1, <2>2, <2>3, <2>4, <2>5, Holding DEF GInv, Conversion, Reader, gData
<1>2. CASE GRelLoad(t)
  <2>1. /\ gAt[t] = "relLoad" /\ gAt' = [gAt EXCEPT ![t] = "relStore"]
        /\ gSeen' = [gSeen EXCEPT ![t] = gCount]
        /\ UNCHANGED <<rmVars, gJob, gData>>
    BY <1>2 DEF GRelLoad, GStep, GGo
  <2>2. /\ gAt'[t] = "relStore" /\ gSeen'[t] = gCount
        /\ \A u \in Tasks \ {t} : gAt'[u] = gAt[u] /\ gSeen'[u] = gSeen[u]
    BY <2>1 DEF GInv, GTypeOK
  <2>3. GTypeOK'
    BY <2>1 DEF GInv, GTypeOK, Places, gData
  <2>4. /\ Holds(t) /\ Holds(t)' /\ OthersRest(t) /\ converting = NoTask
        /\ TaskInv(t) /\ CallInv(t)' /\ (Holds(t)' <=> Gpadc \in held'[t])
        /\ sensor => Reader(t) /\ source = TempSensor
    BY <2>1, <2>2, Working DEF gData
  <2>5. TaskInv(t)'
    BY <2>1, <2>2, <2>4, Constants DEF TaskInv, PlaceInv, HoldInv, ReadInv, Depth, Inner, gData
  <2> QED BY <2>1, <2>2, <2>3, <2>4, <2>5, Holding DEF GInv, Conversion, Reader, gData
<1> QED BY <1>1, <1>2

(* The count is written: the application may go on to its own release. *)
LEMMA RelStoreStep ==
  ASSUME IInv, GInv, NEW t \in Tasks, GRelStore(t)
  PROVE  GInv'
<1>1. gAt[t] = "relStore" /\ TaskInv(t) /\ Holds(t)
  BY DEF GRelStore, GStep, GInv, Holds, Inside
<1>2. gSeen[t] = IF Inner(t) THEN 2 ELSE 1
  BY <1>1 DEF TaskInv, HoldInv, Depth
<1>3. /\ gCount' = gSeen[t] - 1 /\ gSeen' = [gSeen EXCEPT ![t] = 0]
      /\ UNCHANGED <<rmVars, gOwner, reading, source, converting, sensor>>
      /\ IF Inner(t)
           THEN gAt' = [gAt EXCEPT ![t] = "relLoad"] /\ gJob' = [gJob EXCEPT ![t].nest = "outer"]
           ELSE gAt' = [gAt EXCEPT ![t] = "relOwner"] /\ gJob' = gJob
  BY <1>2 DEF GRelStore, CountDown, IsLast, GGo, Nest, Inner
<1>4. /\ gAt'[t] = (IF Inner(t) THEN "relLoad" ELSE "relOwner") /\ ~Inner(t)'
      /\ \A u \in Tasks \ {t} : gAt'[u] = gAt[u] /\ gJob'[u] = gJob[u] /\ gSeen'[u] = gSeen[u]
  BY <1>3 DEF GInv, GTypeOK, Inner
<1>5. GTypeOK'
  <2>1. gAt' \in [Tasks -> Places]
    BY <1>3 DEF GInv, GTypeOK, Places
  <2>2. gJob' \in [Tasks -> [async : BOOLEAN, source : Sources \cup {NoSource},
                             nest : {"none", "outer", "inner"}]]
    BY <1>3 DEF GInv, GTypeOK
  <2>3. gCount' \in Nat
    BY <1>2, <1>3
  <2>4. gSeen' \in [Tasks -> Nat]
    BY <1>3 DEF GInv, GTypeOK
  <2> QED BY <1>3, <2>1, <2>2, <2>3, <2>4 DEF GInv, GTypeOK
<1>6. /\ Holds(t)' /\ OthersRest(t) /\ converting = NoTask
      /\ CallInv(t)' /\ (Holds(t)' <=> Gpadc \in held'[t])
      /\ sensor => Reader(t) /\ source = TempSensor
  BY <1>1, <1>3, <1>4, Working
<1>7. gCount' = Depth(t)' /\ gOwner' = t
  BY <1>1, <1>2, <1>3, <1>4 DEF TaskInv, HoldInv, Depth
<1>8. TaskInv(t)'
  BY <1>3, <1>4, <1>6, <1>7, Constants DEF TaskInv, PlaceInv, HoldInv, ReadInv
<1> QED BY <1>3, <1>4, <1>5, <1>6, <1>8, Holding DEF GInv, Conversion, Reader

(* The last release clears the owner and the sensor, *)
LEMMA RelOwnerStep ==
  ASSUME IInv, GInv, NEW t \in Tasks, GRelOwner(t)
  PROVE  GInv'
<1>1. /\ gAt[t] = "relOwner" /\ gAt' = [gAt EXCEPT ![t] = "relRes"] /\ gOwner' = NoTask
      /\ sensor' = (sensor /\ source # TempSensor)
      /\ UNCHANGED <<rmVars, gJob, gSeen, gCount, reading, source, converting>>
  BY DEF GRelOwner, GStep, GGo, Disown
<1>2. gAt'[t] = "relRes" /\ \A u \in Tasks \ {t} : gAt'[u] = gAt[u]
  BY <1>1 DEF GInv, GTypeOK
<1>3. GTypeOK'
  BY <1>1 DEF GInv, GTypeOK, Places
<1>4. /\ Holds(t) /\ Holds(t)' /\ OthersRest(t) /\ converting = NoTask
      /\ TaskInv(t) /\ CallInv(t)' /\ (Holds(t)' <=> Gpadc \in held'[t])
      /\ sensor => Reader(t) /\ source = TempSensor
  BY <1>1, <1>2, Working
<1>5. TaskInv(t)'
  BY <1>1, <1>2, <1>4, Constants DEF TaskInv, PlaceInv, HoldInv, ReadInv, Depth, Inner
<1>6. ~sensor'
  BY <1>1, <1>4
<1> QED BY <1>1, <1>3, <1>4, <1>5, <1>6, Holding DEF GInv, Conversion

(* When the converter is given back, no task has it. *)
LEMMA NobodyHolds ==
  ASSUME IInv, GInv, NEW t \in Tasks, Holds(t), Release({Gpadc}), ~Holds(t)', GTypeOK', TaskInv(t)',
         OthersRest(t), gCount' = 0, gOwner' = NoTask, ~sensor', Conversion'
  PROVE  GInv'
<1>1. \A u \in Tasks : TaskInv(u)'
  BY Others
<1> QED BY <1>1 DEF GInv, Unused, SensorInv

(* and the converter is given back. *)
LEMMA RelResStep ==
  ASSUME IInv, GInv, NEW t \in Tasks, GRelRes(t)
  PROVE  GInv'
<1>1. /\ gAt[t] = "relRes" /\ Release({Gpadc}) /\ UNCHANGED <<gSeen, gData>>
      /\ gAt' = [gAt EXCEPT ![t] = "idle"] /\ gJob' = [gJob EXCEPT ![t] = NoReading]
  BY DEF GRelRes, GLeave, GGo
<1>2. gAt'[t] = "idle" /\ \A u \in Tasks \ {t} : gAt'[u] = gAt[u] /\ gJob'[u] = gJob[u]
  BY <1>1 DEF GInv, GTypeOK
<1>3. GTypeOK'
  BY <1>1 DEF GInv, GTypeOK, gData, Places, NoReading
<1>4. Holds(t) /\ TaskInv(t) /\ gCount = 0 /\ gOwner = NoTask
  BY <1>1 DEF Holds, Inside, GInv, TaskInv, HoldInv, Depth
<1>5. \A u \in Tasks \ {t} : ~Holds(u)
  BY <1>4, OneHolder
<1>6. ~sensor
  BY <1>1, <1>5 DEF GInv, SensorInv, Reader
<1>7. OthersRest(t)
  <2>1. \A u \in Tasks \ {t} : Gpadc \notin held[u] /\ Gpadc \notin held'[u]
    BY <1>1, <1>5, Released DEF GInv, TaskInv, HoldInv
  <2> QED BY <1>1, <1>2, <2>1, Released DEF OthersRest
<1>8. converting # t /\ ~Holds(t)'
  BY <1>1, <1>2, <1>4 DEF TaskInv, PlaceInv, Holds, Inside, gData
<1>9. Gpadc \notin held'[t] /\ call' = call /\ mask' = mask
  BY <1>1, Released
<1>10. TaskInv(t)'
  BY <1>1, <1>2, <1>4, <1>8, <1>9 DEF TaskInv, PlaceInv, CallInv, HoldInv, ReadInv, gData
<1> QED BY <1>1, <1>3, <1>4, <1>6, <1>7, <1>8, <1>10, NobodyHolds DEF GInv, Conversion, gData

(* The interrupt counts down for the task that it converted for: the last  *)
(* release is its own, or the callback lets the task go on to release.     *)
LEMMA InterruptStep ==
  ASSUME IInv, GInv, GInterrupt
  PROVE  GInv'
<1> DEFINE waits == {u \in Tasks : gAt[u] = "callback"}
<1> SUFFICES ASSUME NEW t \in Tasks, converting = t PROVE GInv'
  BY DEF GInterrupt, GInv, GTypeOK
<1>1. Holds(t) /\ TaskInv(t) /\ gAt[t] \in {"idle", "callback"}
  BY DEF GInv, Holds, TaskInv, PlaceInv
<1>2. /\ converting' = NoTask /\ reading' = FALSE /\ gCount' = gCount - 1
      /\ UNCHANGED <<gSeen, source>>
      /\ gAt' = [u \in Tasks |-> IF u \in waits THEN "relLoad" ELSE gAt[u]]
      /\ gJob' = [u \in Tasks |-> IF u \in waits THEN [gJob[u] EXCEPT !.nest = "outer"] ELSE gJob[u]]
  BY DEF GInterrupt, CountDown
<1>3. \A u \in Tasks \ {t} : u \notin waits /\ ~Holds(u)
  BY <1>1, OneHolder DEF GInv, TaskInv, PlaceInv
<1>4. \A u \in Tasks \ {t} : gAt'[u] = gAt[u] /\ gJob'[u] = gJob[u] /\ gSeen'[u] = gSeen[u]
  BY <1>2, <1>3
<1>5. Conversion' /\ NoTask # t
  BY <1>1, <1>2, Constants DEF Conversion
<1>6. CASE gAt[t] = "idle"
  <2>1. gCount = 1 /\ gOwner = t
    BY <1>1, <1>6 DEF TaskInv, HoldInv, Depth
  <2>2. Release({Gpadc}) /\ gOwner' = NoTask /\ sensor' = (sensor /\ source # TempSensor)
    BY <2>1 DEF GInterrupt, IsLast, Disown
  <2>3. ~sensor'
    BY <2>2 DEF GInv, SensorInv
  <2>4. gAt'[t] = "idle" /\ gJob' = gJob /\ gAt' = gAt
    BY <1>1, <1>2, <1>3, <1>6 DEF GInv, GTypeOK
  <2>5. GTypeOK'
    <3>1. gCount' \in Nat
      BY <1>2, <2>1
    <3>2. sensor' \in BOOLEAN /\ reading' \in BOOLEAN
      BY <1>2, <2>2, Zenon
    <3> QED BY <1>2, <2>2, <2>4, <3>1, <3>2 DEF GInv, GTypeOK
  <2>6. ~Holds(t)'
    BY <1>2, <1>5, <2>4 DEF Holds, Inside
  <2>7. call' = call /\ mask' = mask /\ \A u \in Tasks : Gpadc \notin held'[u]
    BY <2>2, Released
  <2>8. TaskInv(t)'
    BY <1>1, <1>2, <1>5, <2>4, <2>6, <2>7 DEF TaskInv, PlaceInv, CallInv, HoldInv, ReadInv
  <2>9. \A u \in Tasks \ {t} : Gpadc \notin held[u]
    BY <1>3 DEF GInv, TaskInv, HoldInv
  <2>10. OthersRest(t)
    BY <1>1, <1>2, <1>4, <2>7, <2>9 DEF OthersRest
  <2>11. gCount' = 0 /\ gOwner' = NoTask /\ Release({Gpadc})
    BY <1>2, <2>1, <2>2
  <2> QED BY <1>1, <1>5, <2>3, <2>5, <2>6, <2>8, <2>10, <2>11, NobodyHolds
<1>7. CASE gAt[t] = "callback"
  <2>1. gCount = 2 /\ gOwner = t /\ Inner(t)
    BY <1>1, <1>7 DEF TaskInv, HoldInv, PlaceInv, Depth
  <2>2. UNCHANGED <<gOwner, sensor, rmVars>> /\ gCount' = 1
    BY <1>2, <2>1 DEF GInterrupt, IsLast
  <2>3. gAt'[t] = "relLoad" /\ gJob'[t].nest = "outer"
    BY <1>1, <1>2, <1>7 DEF GInv, GTypeOK
  <2>4. GTypeOK'
    <3>1. gAt' \in [Tasks -> Places]
      BY <1>2 DEF GInv, GTypeOK, Places
    <3>2. gJob' \in [Tasks -> [async : BOOLEAN, source : Sources \cup {NoSource},
                               nest : {"none", "outer", "inner"}]]
      BY <1>2 DEF GInv, GTypeOK
    <3>3. gCount' \in Nat
      BY <2>2
    <3>4. reading' \in BOOLEAN /\ converting' = NoTask
      BY <1>2, Zenon
    <3> QED BY <1>2, <2>2, <3>1, <3>2, <3>3, <3>4 DEF GInv, GTypeOK
  <2>5. Holds(t)' /\ ~Inner(t)'
    BY <2>3 DEF Holds, Inside, Inner
  <2>6. TaskInv(t)'
    BY <1>1, <1>2, <1>5, <1>7, <2>1, <2>2, <2>3, <2>5 DEF TaskInv, PlaceInv, CallInv, HoldInv, ReadInv,
       Depth, rmVars
  <2>7. OthersRest(t)
    BY <1>1, <1>2, <1>4, <2>2 DEF OthersRest, rmVars
  <2>8. sensor' => source' = TempSensor /\ Reader(t)'
    BY <1>2, <2>2, <2>3, <2>5 DEF GInv, SensorInv, Reader
  <2> QED BY <1>1, <1>5, <2>4, <2>5, <2>6, <2>7, <2>8, Holding
<1> QED BY <1>1, <1>6, <1>7

(* Sleep undoes the set-up of a converter that nobody counts on. *)
LEMMA GSleepStep ==
  ASSUME IInv, GInv, GSleep
  PROVE  GInv'
<1>1. /\ \A t \in Tasks : gAt[t] = "idle" \/ gAt[t] = "callback" \/ call[t].pc = "wait"
      /\ gCount = 0
      /\ UNCHANGED <<rmVars, gAt, gJob, gSeen, gOwner, gCount, reading, converting, sensor>>
  BY DEF GSleep
<1>2. \A t \in Tasks : gAt[t] # "measure" /\ ~Reader(t)
  <2> SUFFICES ASSUME NEW t \in Tasks PROVE gAt[t] # "measure" /\ ~Reader(t)
    OBVIOUS
  <2>1. TaskInv(t) /\ gAt[t] \in {"idle", "callback", "wait"}
    BY <1>1 DEF GInv, TaskInv, CallInv
  <2> QED BY <1>1, <2>1 DEF TaskInv, HoldInv, Depth, Reader
<1>3. ~sensor
  BY <1>2 DEF GInv, SensorInv
<1>4. GTypeOK' /\ Unused' /\ Conversion' /\ SensorInv'
  BY <1>1, <1>3 DEF GInv, GTypeOK, Unused, Conversion, SensorInv, Holds, Inner
<1>5. \A t \in Tasks : TaskInv(t)'
  BY <1>1, <1>2 DEF GInv, TaskInv, PlaceInv, CallInv, HoldInv, ReadInv, Holds, Depth, Inner, rmVars
<1> QED BY <1>4, <1>5 DEF GInv

-----------------------------------------------------------------------------
(* Every step keeps the account of the converter. *)
LEMMA GNext == ASSUME IInv, GInv, ~Nested, [Next]_vars PROVE GInv'
<1>1. ASSUME NEW t \in Tasks, GpadcTask(t) PROVE GInv'
  BY <1>1, CheckStep, AskStep, GrantedStep, OwnStep, StoreStep, UseStep, MeasuredStep,
     RelStoreStep, RelOwnerStep, RelResStep DEF GpadcTask
<1>2. CASE UNCHANGED vars
  BY <1>2 DEF vars, rmVars, gpadcVars, gData, GInv, GTypeOK, TaskInv, PlaceInv, CallInv, HoldInv,
     ReadInv, Unused, Conversion, SensorInv, Reader, Holds, Depth, Inner
<1> QED BY <1>1, <1>2, BeginStep, SleepStep, InterruptStep, GSleepStep DEF Next

(* The account holds in every reachable state. *)
LEMMA GInvariance == ASSUME ~Nested PROVE Spec => [](IInv /\ GInv)
<1>1. Init => IInv /\ GInv
  <2> SUFFICES ASSUME Init PROVE GInv
    BY InitInv DEF Init
  <2> USE DEF Init, RmInit, GpadcInit
  <2>1. GTypeOK
    BY DEF GTypeOK, Places, NoReading
  <2>2. \A t \in Tasks : ~Holds(t) /\ gAt[t] = "idle" /\ Gpadc \notin held[t] /\ call[t].pc = "run"
    BY Constants DEF Holds, Inside, Running
  <2>3. \A t \in Tasks : TaskInv(t)
    BY <2>2, Constants DEF TaskInv, PlaceInv, CallInv, HoldInv, ReadInv
  <2> QED BY <2>1, <2>3 DEF GInv, Unused, Conversion, SensorInv
<1>2. IInv /\ GInv /\ [Next]_vars => (IInv /\ GInv)'
  BY GNext, CallsManager, StepInv
<1> QED BY <1>1, <1>2, PTL DEF Spec

(***************************************************************************)
(* The adapter uses the resource manager as that expects: it asks for the  *)
(* converter, and every release, the one by the interrupt too, gives back  *)
(* what one task holds.  With it the theorems about the manager hold for   *)
(* the converter (resource_acquire and resource_release in ad_gpadc.c).    *)
(***************************************************************************)
THEOREM UsesTheManager == ASSUME ~Nested PROVE Spec => UsesManager
<1>1. Init => RmInit
  BY DEF Init
<1>2. IInv /\ GInv /\ [Next]_vars => [RmNext]_rmVars
  BY CallsManager
<1> QED BY <1>1, <1>2, GInvariance, PTL DEF Spec, UsesManager, RmSpec

(***************************************************************************)
(* The converter is locked: whoever is between acquisition and release has *)
(* it, the task the interrupt converts for too, and the assertions of      *)
(* ad_gpadc_release on owner and count hold.                               *)
(***************************************************************************)
THEOREM ConverterIsLocked == ASSUME ~Nested PROVE Spec => []GpadcLocked
<1>1. GInv => GpadcLocked
  <2> SUFFICES ASSUME GInv PROVE GpadcLocked
    OBVIOUS
  <2>1. \A t \in Tasks : gAt[t] \in Inside => Gpadc \in held[t]
    BY DEF GInv, TaskInv, HoldInv, Holds
  <2>2. \A t \in Tasks : gAt[t] = "relLoad" => gCount > 0 /\ gOwner = t
    BY DEF GInv, TaskInv, HoldInv, Holds, Inside, Depth
  <2>3. converting # NoTask => Gpadc \in held[converting] /\ gCount > 0
    BY DEF GInv, GTypeOK, TaskInv, PlaceInv, HoldInv, Holds, Depth
  <2> QED BY <2>1, <2>2, <2>3 DEF GpadcLocked, Inside
<1> QED BY <1>1, GInvariance, PTL

(***************************************************************************)
(* A reading is of the source that was asked for, with the sensor on for   *)
(* the temperature: no other task, interrupt or sleep undoes the set-up of *)
(* ad_gpadc_apply_config before the measurement.                           *)
(***************************************************************************)
THEOREM OwnSourceIsRead == ASSUME ~Nested PROVE Spec => []ReadsOwnSource
<1>1. GInv => ReadsOwnSource
  BY DEF GInv, TaskInv, ReadInv, ReadsOwnSource, Inner
<1> QED BY <1>1, GInvariance, PTL

(***************************************************************************)
(* When no task calls the adapter and the converter does not convert, the  *)
(* converter is free, its owner and count are cleared and the sensor is    *)
(* off, whichever of a task and the interrupt released last.               *)
(***************************************************************************)
THEOREM ConverterIsFreed == ASSUME ~Nested PROVE Spec => []GpadcFreed
<1>1. IInv /\ GInv => GpadcFreed
  <2> SUFFICES ASSUME IInv, GInv, converting = NoTask, \A t \in Tasks : gAt[t] = "idle"
               PROVE  gOwner = NoTask /\ gCount = 0 /\ Gpadc \notin acquired /\ ~reading /\ ~sensor
    BY DEF GpadcFreed
  <2>1. \A t \in Tasks : ~Holds(t)
    BY Constants DEF Holds, Inside
  <2>2. gOwner = NoTask /\ gCount = 0 /\ ~reading /\ ~sensor
    BY <2>1 DEF GInv, Unused, Conversion, SensorInv, Reader
  <2>3. Gpadc \notin acquired
    <3>1. \A t \in Tasks : Gpadc \notin held[t] /\ call[t].pc = "run"
      BY <2>1 DEF GInv, TaskInv, HoldInv, CallInv
    <3>2. Listed = {}
      BY <3>1 DEF IInv, Callers
    <3>3. \A r \in Requests : granted[r] = FALSE
      BY <3>2 DEF IInv, Lists, Flags
    <3> QED BY <3>1, <3>3 DEF IInv, Shares
  <2> QED BY <2>2, <2>3
<1> QED BY <1>1, GInvariance, PTL
=============================================================================
