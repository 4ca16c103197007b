-------------------------- MODULE SpiAdapterProofs --------------------------
(***************************************************************************)
(* Theorems about SpiAdapter, for every number of tasks, devices, buses    *)
(* and channels and every way of sharing them: the adapter uses the        *)
(* resource manager as that expects, a transfer owns what it uses and      *)
(* finds it set up, nothing leaks, and tasks do not wait in a circle.      *)
(*                                                                         *)
(* A session is what is done with a device between its acquisition and its *)
(* last release. It belongs to a task, is handed to an asynchronous        *)
(* transfer when that starts, from there to the interrupt handler, and     *)
(* from the handler back to a task that waits for its callback. Sessions   *)
(* have nothing in common (Apart), and together they are what the manager  *)
(* has given to the tasks (Told); the counts follow the place of whoever   *)
(* has the session (Counts).                                               *)
(***************************************************************************)
EXTENDS SpiAdapter, ResourceManagerProofs

Releasing == {"relBus", "relDma", "relBusRes", "relDev", "relDevRes"}
Places == {"idle", "dev", "devWait", "own", "bus", "busRes", "busWait", "config", "dma", "dmaWait",
           "held", "start", "event", "callback"} \cup Releasing
Jobs == [dev : Devices \cup {NoDevice}, async : BOOLEAN, task : Agents, depth : 0 .. 2]

STypeOK ==
  /\ at \in [Agents -> Places] /\ at[Isr] \in {"idle"} \cup Releasing
  /\ job \in [Agents -> Jobs] /\ transfer \in [Buses -> Jobs]
  /\ owner \in [Devices -> Agents]
  /\ devCount \in [Devices -> Int] /\ busCount \in [Devices -> Int]
  /\ current \in [Buses -> Devices \cup {NoDevice}]
  /\ config \in [Buses -> Devices \cup {NoDevice}]
  /\ selected \subseteq Devices
  /\ event \in [Buses -> BOOLEAN]

\* The agent has a session.
Inside(a) ==
  /\ at[a] \notin {"idle", "devWait", "callback"}
  /\ at[a] = "dev" => owner[Dev(a)] = a

All(d) == {d, BusOf[d]} \cup DmaOf[d]

\* What has been acquired in the session of an agent, and in that of an asynchronous transfer.
Got(a) ==
  IF ~Inside(a) THEN {}
  ELSE IF \/ at[a] \in {"own", "busRes", "busWait", "relDevRes"}
          \/ at[a] \in {"bus", "relDev"} /\ busCount[Dev(a)] = 0
       THEN {Dev(a)}
  ELSE IF at[a] \in {"config", "dma", "dmaWait", "relBusRes"} THEN {Dev(a), Bus(a)}
  ELSE All(Dev(a))

OnAir(b) == IF transfer[b].async THEN All(transfer[b].dev) ELSE {}

Apart ==
  /\ \A a, c \in Agents : a # c => Got(a) \cap Got(c) = {}
  /\ \A a \in Agents, b \in Buses : Got(a) \cap OnAir(b) = {}
  /\ \A b, c \in Buses : b # c => OnAir(b) \cap OnAir(c) = {}

Told == \A t \in Tasks, x \in Resources :
  x \in held[t] <=> \/ \E a \in Agents : job[a].task = t /\ x \in Got(a)
                    \/ \E b \in Buses : transfer[b].task = t /\ x \in OnAir(b)

\* Where an agent can be with which job,
JobInv(a) ==
  /\ at[a] = "idle" => job[a] = NoJob
  /\ at[a] # "idle" => /\ Dev(a) \in Devices /\ job[a].depth \in 1 .. 2
                       /\ a \in Tasks => job[a].task = a
                       /\ a = Isr => job[a].task \in Tasks /\ job[a].async
  /\ at[a] \in {"dma", "dmaWait", "relDma"} => Dma(a) # {}
  /\ at[a] = "event" => ~job[a].async
  /\ at[a] = "callback" => job[a].async /\ job[a].depth = 2

\* how often its device and bus are counted then,
Counted(a, m, n) == devCount[Dev(a)] = m /\ busCount[Dev(a)] = n

Counts(a) ==
  /\ owner[Dev(a)] = IF at[a] \in {"own", "relDevRes"} THEN Nobody ELSE job[a].task
  /\ at[a] \in {"own", "relDevRes"} => Counted(a, 0, 0)
  /\ at[a] \in {"busRes", "busWait", "config", "dma", "dmaWait"} => Counted(a, 1, 1)
  /\ at[a] = "dev" => Counted(a, 1, 1) /\ job[a].depth = 2
  /\ at[a] \in {"bus", "relDev"} => \E n \in 1 .. job[a].depth : Counted(a, n, n - 1)
  /\ at[a] \in {"held", "relBus"} => \E n \in 1 .. job[a].depth : Counted(a, n, n)
  /\ at[a] \in {"start", "event"} => Counted(a, job[a].depth, job[a].depth)
  /\ at[a] \in {"relDma", "relBusRes"} => Counted(a, 1, 0)

\* and whether its bus is set up for it.
SetUp(a) ==
  /\ at[a] \in {"dma", "dmaWait", "held", "dev", "start"} => current[Bus(a)] = Dev(a)
  /\ at[a] = "bus" /\ busCount[Dev(a)] # 0 => current[Bus(a)] = Dev(a)

AgentInv(a) == JobInv(a) /\ (Inside(a) => Counts(a) /\ SetUp(a))

\* The handler releases once, and leaves the other release to the task that waits.
IsrInv ==
  /\ at[Isr] \in {"relDma", "relBusRes", "relDevRes"} => job[Isr].depth = 1
  /\ at[Isr] \in {"relBus", "relDev"} => devCount[Dev(Isr)] = job[Isr].depth
  /\ at[Isr] # "idle" /\ job[Isr].depth = 2 =>
       at[job[Isr].task] = "callback" /\ job[job[Isr].task] = job[Isr]

TransferInv(b) ==
  LET d == transfer[b].dev  t == transfer[b].task IN
  transfer[b] # NoJob =>
    /\ d \in Devices /\ BusOf[d] = b /\ t \in Tasks /\ transfer[b].depth \in 1 .. 2
    /\ current[b] = d /\ d \in selected
    /\ ~transfer[b].async => at[t] = "event" /\ job[t] = transfer[b]
    /\ transfer[b].async =>
         /\ owner[d] = t
         /\ devCount[d] = transfer[b].depth /\ busCount[d] = transfer[b].depth
         /\ transfer[b].depth = 2 => at[t] = "callback" /\ job[t] = transfer[b]

\* Whoever waits for the end of a transfer is told of it.
WaitInv(t) ==
  /\ at[t] = "event" => transfer[Bus(t)] = IF event[Bus(t)] THEN NoJob ELSE job[t]
  /\ at[t] = "callback" => \/ transfer[Bus(t)] = job[t]
                           \/ at[Isr] # "idle" /\ job[Isr] = job[t]

\* What a task has asked the manager for.
Asked(t) == IF at[t] = "devWait" THEN {Dev(t)} ELSE IF at[t] = "busWait" THEN {Bus(t)} ELSE Dma(t)

CallInv(t) ==
  /\ call[t].timedOut = FALSE
  /\ at[t] \in {"devWait", "busWait", "dmaWait"} => call[t].pc # "run" /\ mask[call[t].req] = Asked(t)
  /\ at[t] \notin {"devWait", "busWait", "dmaWait"} => call[t].pc = "run"

Unused(d) ==
  /\ \A a \in Agents : Inside(a) => Dev(a) # d
  /\ \A b \in Buses : transfer[b].async => transfer[b].dev # d
Zero(d) == owner[d] = Nobody /\ devCount[d] = 0 /\ busCount[d] = 0

Free    == \A d \in Devices : Unused(d) => Zero(d)
Events  == \A b \in Buses : event[b] => \E t \in Tasks : at[t] = "event" /\ Bus(t) = b
Selects == \A d \in selected :
  transfer[BusOf[d]].dev = d \/ \E t \in Tasks : at[t] = "event" /\ Dev(t) = d
SetUps  == hw = current /\ \A b \in Buses : current[b] \in {NoDevice, config[b]}

Transfers == (\A b \in Buses : TransferInv(b)) /\ (\A t \in Tasks : WaitInv(t)) /\ Events /\ Selects

SInv ==
  /\ STypeOK /\ Apart /\ Told /\ (\A a \in Agents : AgentInv(a)) /\ IsrInv
  /\ Transfers /\ (\A t \in Tasks : CallInv(t)) /\ Free /\ SetUps

-----------------------------------------------------------------------------
(* Devices, buses and channels are different resources; the handler is no task. *)
LEMMA Kinds ==
  /\ \A d \in Devices : /\ BusOf[d] \in Buses /\ d \notin Buses /\ d \notin DmaOf[d]
                        /\ All(d) \subseteq Resources
                        /\ \A e \in Devices : d \notin DmaOf[e] /\ BusOf[d] \notin DmaOf[e]
                        /\ \A b \in Buses : b \notin DmaOf[d]
  /\ \A b \in Buses : b \in Resources /\ b \notin Devices
  /\ NoDevice \notin Devices /\ Isr \notin Tasks /\ Isr \in Agents
  /\ \A t \in Tasks : t \in Agents /\ t # Isr
  BY SpiAssumption DEF All, Agents

\* Nothing runs where there is no job.
LEMMA NoJobIs == /\ NoJob.dev = NoDevice /\ NoJob.async = FALSE /\ NoJob.task = Isr
                 /\ NoJob.depth = 0 /\ NoJob \in Jobs
  BY DEF NoJob, Jobs, Agents

\* An agent in a session has its device, and only what belongs to that.
LEMMA GotIs ==
  ASSUME NEW a \in Agents, JobInv(a)
  PROVE  /\ Inside(a) => /\ Dev(a) \in Devices /\ Bus(a) \in Buses /\ Dev(a) \in Got(a)
                         /\ at[a] # "idle" /\ job[a].task \in Tasks
         /\ ~Inside(a) => Got(a) = {}
         /\ Got(a) \subseteq All(Dev(a))
<1>1. Inside(a) => at[a] # "idle"
  BY DEF Inside
<1>2. Inside(a) => Dev(a) \in Devices /\ Bus(a) \in Buses
  BY <1>1, Kinds DEF JobInv, Bus, Dev
<1>3. Inside(a) => Dev(a) \in Got(a)
  BY DEF Got, All
<1>4. Got(a) \subseteq All(Dev(a))
  BY DEF Got, All, Bus, Dev
<1>5. Inside(a) => job[a].task \in Tasks
  BY <1>1 DEF JobInv, Agents
<1> QED BY <1>1, <1>2, <1>3, <1>4, <1>5 DEF Got

\* Two agents never have sessions with one device,
LEMMA OneSession ==
  ASSUME Apart, \A x \in Agents : AgentInv(x), NEW a \in Agents, NEW c \in Agents, a # c,
         Inside(a), Inside(c)
  PROVE  Dev(a) # Dev(c)
<1>1. Dev(a) \in Got(a) /\ Dev(c) \in Got(c)
  BY GotIs DEF AgentInv
<1> QED BY <1>1 DEF Apart

\* nor do an agent and a transfer that runs by itself.
LEMMA OneOnAir ==
  ASSUME Apart, \A x \in Agents : AgentInv(x), NEW a \in Agents, NEW b \in Buses,
         Inside(a), transfer[b].async
  PROVE  Dev(a) # transfer[b].dev
<1>1. Dev(a) \in Got(a) /\ transfer[b].dev \in OnAir(b)
  BY GotIs DEF AgentInv, OnAir, All
<1> QED BY <1>1 DEF Apart

\* Whoever has a bus is alone on it.
LEMMA BusIsOwn ==
  ASSUME SInv, NEW a \in Agents, Inside(a), Bus(a) \in Got(a)
  PROVE  /\ transfer[Bus(a)] = NoJob \/ (at[a] = "event" /\ transfer[Bus(a)] = job[a])
         /\ \A t \in Tasks : at[t] = "event" /\ Bus(t) = Bus(a) => t = a
<1>1. ASSUME NEW t \in Tasks, at[t] = "event"
      PROVE  Inside(t) /\ Got(t) = All(Dev(t)) /\ Bus(t) \in Got(t)
  <2>1. Inside(t)
    BY <1>1 DEF Inside
  <2>2. Got(t) = All(Dev(t))
    BY <1>1, <2>1 DEF Got
  <2> QED BY <2>1, <2>2 DEF All, Bus, Dev
<1>2. \A t \in Tasks : at[t] = "event" /\ Bus(t) = Bus(a) => t = a
  BY <1>1, Kinds DEF SInv, Apart
<1>3. Bus(a) \in Buses
  BY GotIs DEF SInv, AgentInv
<1>4. ASSUME transfer[Bus(a)] # NoJob
      PROVE  at[a] = "event" /\ transfer[Bus(a)] = job[a]
  <2>1. TransferInv(Bus(a))
    BY <1>3 DEF SInv, Transfers
  <2>2. CASE transfer[Bus(a)].async
    <3>1. Bus(a) \in OnAir(Bus(a))
      BY <1>4, <2>1, <2>2 DEF TransferInv, OnAir, All
    <3> QED BY <1>3, <3>1 DEF SInv, Apart
  <2>3. CASE ~transfer[Bus(a)].async
    <3> DEFINE t == transfer[Bus(a)].task
    <3>1. t \in Tasks /\ at[t] = "event" /\ job[t] = transfer[Bus(a)]
      BY <1>4, <2>1, <2>3 DEF TransferInv
    <3>2. Bus(t) = Bus(a)
      BY <1>4, <2>1, <3>1 DEF TransferInv, Bus
    <3> QED BY <1>2, <3>1, <3>2
  <2> QED BY <2>2, <2>3
<1> QED BY <1>2, <1>4

-----------------------------------------------------------------------------
(***************************************************************************)
(* The manager. What has been given to the tasks is divided among the      *)
(* sessions.                                                               *)
(***************************************************************************)
\* Whatever is in a session has been given to a task.
LEMMA SessionsAreHeld ==
  ASSUME SInv
  PROVE  /\ \A a \in Agents : Inside(a) => job[a].task \in Tasks /\ Got(a) \subseteq held[job[a].task]
         /\ \A b \in Buses : transfer[b].async =>
              transfer[b].task \in Tasks /\ OnAir(b) \subseteq held[transfer[b].task]
         /\ \A a \in Agents : Got(a) \subseteq Resources
         /\ \A b \in Buses : OnAir(b) \subseteq Resources
<1>1. ASSUME NEW a \in Agents
      PROVE  Got(a) \subseteq Resources /\ (Inside(a) => job[a].task \in Tasks)
  BY GotIs, Kinds DEF SInv, AgentInv
<1>2. ASSUME NEW b \in Buses, transfer[b].async
      PROVE  OnAir(b) \subseteq Resources /\ transfer[b].task \in Tasks
  BY <1>2, Kinds, NoJobIs DEF SInv, Transfers, TransferInv, OnAir
<1>3. \A b \in Buses : ~transfer[b].async => OnAir(b) = {}
  BY DEF OnAir
<1>4. Told
  BY DEF SInv
<1> QED BY <1>1, <1>2, <1>3, <1>4 DEF Told

\* So what nobody holds is in no session.
LEMMA UnheldIsApart ==
  ASSUME SInv, NEW m, \A u \in Tasks : m \cap held[u] = {}
  PROVE  /\ \A a \in Agents : Got(a) \cap m = {}
         /\ \A b \in Buses : OnAir(b) \cap m = {}
<1>1. \A a \in Agents : ~Inside(a) => Got(a) = {}
  BY DEF Got
<1>2. \A b \in Buses : ~transfer[b].async => OnAir(b) = {}
  BY DEF OnAir
<1> QED BY <1>1, <1>2, SessionsAreHeld

\* What an acquisition does to the callers of the manager,
LEMMA AcquiredNow ==
  ASSUME IInv, NEW t \in Tasks, NEW m, AcquireNow(t, m)
  PROVE  /\ call' = call /\ mask' = mask /\ call[t].pc = "run"
         /\ held'[t] = held[t] \cup m /\ \A u \in Tasks \ {t} : held'[u] = held[u]
         /\ \A u \in Tasks : m \cap held[u] = {}
<1>1. m \cap acquired = {} /\ \A u \in Tasks : held[u] \subseteq acquired
  BY DEF AcquireNow, IInv, Shares
<1>2. /\ call' = call /\ mask' = mask /\ call[t].pc = "run"
      /\ held'[t] = held[t] \cup m /\ \A u \in Tasks \ {t} : held'[u] = held[u]
  BY DEF AcquireNow, IInv, RmTypeOK
<1> QED BY <1>1, <1>2

\* one that has to wait,
LEMMA HasEnqueued ==
  ASSUME IInv, NEW t \in Tasks, NEW m \in SUBSET Resources, Enqueue(t, m, FALSE)
  PROVE  /\ held' = held /\ call'[t].pc = "wait" /\ call'[t].timedOut = FALSE
         /\ mask'[call'[t].req] = m
         /\ \A u \in Tasks \ {t} : /\ call'[u] = call[u]
                                   /\ call[u].pc # "run" => mask'[call[u].req] = mask[call[u].req]
<1>1. PICK r \in free :
        /\ mask' = [mask EXCEPT ![r] = m] /\ held' = held
        /\ call' = [call EXCEPT ![t] = [pc |-> "wait", req |-> r, limited |-> FALSE, timedOut |-> FALSE]]
  BY DEF Enqueue
<1>2. r \in Requests /\ r \notin Listed
  BY DEF IInv, RmTypeOK, Lists
<1>3. call'[t] = [pc |-> "wait", req |-> r, limited |-> FALSE, timedOut |-> FALSE]
      /\ \A u \in Tasks \ {t} : call'[u] = call[u]
  BY <1>1 DEF IInv, RmTypeOK
<1>4. mask'[r] = m /\ \A q \in Requests \ {r} : mask'[q] = mask[q]
  BY <1>1, <1>2 DEF IInv, RmTypeOK
<1>5. \A u \in Tasks \ {t} : call[u].pc # "run" => call[u].req \in Requests \ {r}
  BY <1>2 DEF IInv, Callers, Lists
<1> QED BY <1>1, <1>3, <1>4, <1>5

\* the end of the sleep,
LEMMA HasWoken ==
  ASSUME IInv, NEW t \in Tasks, Wake(t)
  PROVE  /\ held' = held /\ mask' = mask
         /\ call[t].pc = "wait" /\ call'[t].pc = "woken" /\ call'[t].req = call[t].req
         /\ call'[t].timedOut = call[t].timedOut
         /\ \A u \in Tasks \ {t} : call'[u] = call[u]
  BY DEF Wake, IInv, RmTypeOK

\* the end of the call of a task that had no time limit,
LEMMA HasReturned ==
  ASSUME IInv, NEW t \in Tasks, Return(t), call[t].timedOut = FALSE
  PROVE  /\ call[t].pc = "woken" /\ call'[t].pc = "run" /\ call'[t].timedOut = FALSE
         /\ held'[t] = held[t] \cup mask[call[t].req]
         /\ \A u \in Tasks : mask[call[t].req] \cap held[u] = {}
         /\ \A u \in Tasks \ {t} :
              /\ call'[u] = call[u] /\ held'[u] = held[u]
              /\ call[u].pc # "run" => mask'[call[u].req] = mask[call[u].req]
<1>1. /\ call[t].pc = "woken" /\ call' = [call EXCEPT ![t] = Running]
      /\ held' = [held EXCEPT ![t] = @ \cup Given(t)] /\ mask' = [mask EXCEPT ![call[t].req] = {}]
  BY DEF Return
<1>2. call'[t].pc = "run" /\ call'[t].timedOut = FALSE /\ \A u \in Tasks \ {t} : call'[u] = call[u]
  BY <1>1 DEF IInv, RmTypeOK, Running
<1>3. call[t].req \in Requests /\ granted[call[t].req] = TRUE
  BY <1>1 DEF IInv, Flags, Callers, Lists
<1>4. held'[t] = held[t] \cup mask[call[t].req] /\ \A u \in Tasks \ {t} : held'[u] = held[u]
  BY <1>1, <1>3 DEF IInv, RmTypeOK, Given, Succeeds
<1>5. \A u \in Tasks : mask[call[t].req] \cap held[u] = {}
  BY <1>3 DEF IInv, Shares
<1>6. \A u \in Tasks \ {t} : call[u].pc # "run" => call[u].req \in Requests /\ call[u].req # call[t].req
  BY <1>1 DEF IInv, Callers, Lists
<1>7. \A q \in Requests : q # call[t].req => mask'[q] = mask[q]
  BY <1>1 DEF IInv, RmTypeOK
<1> QED BY <1>1, <1>2, <1>4, <1>5, <1>6, <1>7

\* and a release.
LEMMA HasReleased ==
  ASSUME NEW m, Release(m)
  PROVE  call' = call /\ mask' = mask /\ \A u \in Tasks : held'[u] = held[u] \ m
  BY DEF Release

-----------------------------------------------------------------------------
(***************************************************************************)
(* What a step of one agent leaves alone: the other agents, the counts of  *)
(* the devices it has no session with, the set-up of the buses it has not. *)
(***************************************************************************)
OthersRest(a) ==
  /\ \A c \in Agents \ {a} : at'[c] = at[c] /\ job'[c] = job[c]
  /\ \A u \in Tasks \ {a} : /\ call'[u] = call[u]
                            /\ call[u].pc # "run" => mask'[call[u].req] = mask[call[u].req]
  /\ \A d \in Devices : (Inside(a) => d # Dev(a)) =>
        owner'[d] = owner[d] /\ devCount'[d] = devCount[d] /\ busCount'[d] = busCount[d]
  /\ Inside(a) => owner'[Dev(a)] \in {owner[Dev(a)], Nobody, a}
  /\ \A b \in Buses : current'[b] # current[b] => Inside(a) /\ Bus(a) = b /\ b \in Got(a)

\* The others keep their sessions, and what holds of them.
LEMMA OthersInside ==
  ASSUME SInv, NEW a \in Agents, OthersRest(a), NEW c \in Agents \ {a}
  PROVE  /\ at'[c] = at[c] /\ job'[c] = job[c] /\ Dev(c)' = Dev(c) /\ Bus(c)' = Bus(c)
         /\ Inside(c)' <=> Inside(c)
         /\ Inside(c) => /\ owner'[Dev(c)] = owner[Dev(c)]
                         /\ devCount'[Dev(c)] = devCount[Dev(c)]
                         /\ busCount'[Dev(c)] = busCount[Dev(c)]
<1>1. at'[c] = at[c] /\ job'[c] = job[c]
  BY DEF OthersRest
<1>2. Dev(c)' = Dev(c) /\ Bus(c)' = Bus(c)
  BY <1>1 DEF Dev, Bus
<1>3. ASSUME Inside(c)
      PROVE  /\ owner'[Dev(c)] = owner[Dev(c)]
             /\ devCount'[Dev(c)] = devCount[Dev(c)]
             /\ busCount'[Dev(c)] = busCount[Dev(c)]
  <2>1. Dev(c) \in Devices
    BY <1>3, GotIs DEF SInv, AgentInv
  <2>2. Inside(a) => Dev(a) # Dev(c)
    BY <1>3, OneSession DEF SInv
  <2> QED BY <2>1, <2>2 DEF OthersRest
<1>4. Inside(c) => Inside(c)'
  BY <1>1, <1>2, <1>3 DEF Inside
<1>5. ASSUME ~Inside(c)
      PROVE  ~Inside(c)'
  <2>1. CASE at[c] \in {"idle", "devWait", "callback"}
    BY <1>1, <2>1 DEF Inside
  <2>2. CASE at[c] = "dev" /\ owner[Dev(c)] # c
    <3>1. c # Nobody /\ Dev(c) \in Devices
      BY <2>2 DEF SInv, STypeOK, Releasing, Nobody, AgentInv, JobInv
    <3>2. owner'[Dev(c)] \in {owner[Dev(c)], Nobody, a}
      BY <3>1 DEF OthersRest
    <3> QED BY <1>1, <1>2, <2>2, <3>1, <3>2 DEF Inside
  <2> QED BY <1>5, <2>1, <2>2 DEF Inside
<1> QED BY <1>1, <1>2, <1>3, <1>4, <1>5

\* The same for what they have.
LEMMA OthersGot ==
  ASSUME SInv, NEW a \in Agents, OthersRest(a), NEW c \in Agents \ {a}
  PROVE  Got(c)' = Got(c)
<1>1. /\ at'[c] = at[c] /\ job'[c] = job[c] /\ Dev(c)' = Dev(c) /\ Bus(c)' = Bus(c)
      /\ Inside(c)' <=> Inside(c)
      /\ Inside(c) => busCount'[Dev(c)] = busCount[Dev(c)]
  BY OthersInside
<1>2. CASE ~Inside(c)
  BY <1>1, <1>2 DEF Got
<1>3. CASE Inside(c)
  BY <1>1, <1>3 DEF Got
<1> QED BY <1>2, <1>3

\* The same for their account.
LEMMA OthersInv ==
  ASSUME SInv, NEW a \in Agents, OthersRest(a), NEW c \in Agents \ {a}
  PROVE  AgentInv(c)'
<1>1. /\ at'[c] = at[c] /\ job'[c] = job[c] /\ Dev(c)' = Dev(c) /\ Bus(c)' = Bus(c)
      /\ Inside(c)' <=> Inside(c)
      /\ Inside(c) => /\ owner'[Dev(c)] = owner[Dev(c)]
                      /\ devCount'[Dev(c)] = devCount[Dev(c)]
                      /\ busCount'[Dev(c)] = busCount[Dev(c)]
  BY OthersInside
<1>2. JobInv(c) /\ (Inside(c) => Counts(c) /\ SetUp(c))
  BY DEF SInv, AgentInv
<1>3. JobInv(c)'
  BY <1>1, <1>2 DEF JobInv, Dma, Dev
<1>4. ASSUME Inside(c)
      PROVE  Counts(c)'
  BY <1>1, <1>2, <1>4 DEF Counts, Counted
<1>5. ASSUME Inside(c)
      PROVE  SetUp(c)'
  <2>1. Bus(c) \in Buses
    BY <1>4, <1>5, GotIs, <1>2
  <2>2. ASSUME Bus(c) \in Got(c)
        PROVE  current'[Bus(c)] = current[Bus(c)]
    BY <2>1, <2>2 DEF OthersRest, SInv, Apart
  <2>3. /\ at[c] \in {"dma", "dmaWait", "held", "dev", "start"} => Bus(c) \in Got(c)
        /\ at[c] = "bus" /\ busCount[Dev(c)] # 0 => Bus(c) \in Got(c)
    BY <1>5 DEF Got, All, Bus, Dev
  <2> QED BY <1>1, <1>2, <1>5, <2>2, <2>3 DEF SetUp
<1> QED BY <1>1, <1>3, <1>4, <1>5 DEF AgentInv

\* The same for their calls.
LEMMA OthersCall ==
  ASSUME SInv, NEW a \in Agents, OthersRest(a), NEW u \in Tasks \ {a}
  PROVE  CallInv(u)'
<1>1. u \in Agents \ {a} /\ CallInv(u)
  BY Kinds DEF SInv
<1>2. /\ at'[u] = at[u] /\ Dev(u)' = Dev(u) /\ Bus(u)' = Bus(u) /\ Dma(u)' = Dma(u)
  BY <1>1, OthersInside DEF Dma, Dev
<1>3. /\ call'[u] = call[u] /\ (call[u].pc # "run" => mask'[call[u].req] = mask[call[u].req])
  BY DEF OthersRest
<1> QED BY <1>1, <1>2, <1>3 DEF CallInv, Asked

-----------------------------------------------------------------------------
(***************************************************************************)
(* The sessions after a step of one agent that keeps its task: they have   *)
(* nothing in common if it gains what nobody held, or gives back.          *)
(***************************************************************************)
\* The session of a changes to g, and the transfers stay.
Session(a, g) ==
  /\ Got(a)' = g /\ \A c \in Agents \ {a} : Got(c)' = Got(c) /\ job'[c].task = job[c].task
  /\ transfer' = transfer

\* The transfers have what they had.
LEMMA SameOnAir ==
  ASSUME transfer' = transfer
  PROVE  \A b \in Buses : OnAir(b)' = OnAir(b) /\ transfer'[b].task = transfer[b].task
  BY DEF OnAir

\* Nothing changes.
LEMMA KeepsParts ==
  ASSUME SInv, NEW a \in Agents, Session(a, Got(a)),
         Inside(a) => job'[a].task = job[a].task, held' = held
  PROVE  Apart' /\ Told'
<1>1. /\ \A c \in Agents : Got(c)' = Got(c)
      /\ \A b \in Buses : OnAir(b)' = OnAir(b) /\ transfer'[b].task = transfer[b].task
  BY SameOnAir DEF Session
<1>2. Apart'
  BY <1>1 DEF SInv, Apart
<1>3. \A c \in Agents : Got(c) # {} => job'[c].task = job[c].task
  BY DEF Session, Got
<1>4. Told'
  <2> SUFFICES ASSUME NEW t \in Tasks, NEW x \in Resources
               PROVE  x \in held[t] <=> \/ \E c \in Agents : job'[c].task = t /\ x \in Got(c)'
                                        \/ \E b \in Buses : transfer'[b].task = t /\ x \in OnAir(b)'
    BY DEF Told
  <2>1. \A c \in Agents : job'[c].task = t /\ x \in Got(c)' <=> job[c].task = t /\ x \in Got(c)
    BY <1>1, <1>3
  <2> QED BY <1>1, <2>1 DEF SInv, Told
<1> QED BY <1>2, <1>4

\* A task gains what nobody held.
LEMMA GainsParts ==
  ASSUME SInv, NEW t \in Tasks, NEW m, Session(t, Got(t) \cup m), job[t].task = t, job'[t].task = t,
         \A u \in Tasks : m \cap held[u] = {},
         held'[t] = held[t] \cup m, \A u \in Tasks \ {t} : held'[u] = held[u]
  PROVE  Apart' /\ Told'
<1>0. t \in Agents
  BY Kinds
<1>1. /\ \A c \in Agents : Got(c) \cap m = {}
      /\ \A b \in Buses : OnAir(b) \cap m = {}
  BY UnheldIsApart
<1>2. /\ Got(t)' = Got(t) \cup m
      /\ \A c \in Agents \ {t} : Got(c)' = Got(c) /\ job'[c].task = job[c].task
      /\ \A b \in Buses : OnAir(b)' = OnAir(b) /\ transfer'[b].task = transfer[b].task
  BY SameOnAir DEF Session
<1>3. Apart'
  <2>1. ASSUME NEW a \in Agents, NEW c \in Agents, a # c
        PROVE  Got(a)' \cap Got(c)' = {}
    <3>1. Got(a) \cap Got(c) = {}
      BY <2>1 DEF SInv, Apart
    <3>2. CASE a = t
      BY <1>1, <1>2, <2>1, <3>1, <3>2
    <3>3. CASE c = t
      BY <1>1, <1>2, <2>1, <3>1, <3>3
    <3>4. CASE a # t /\ c # t
      BY <1>2, <3>1, <3>4
    <3> QED BY <3>2, <3>3, <3>4
  <2>2. ASSUME NEW a \in Agents, NEW b \in Buses
        PROVE  Got(a)' \cap OnAir(b)' = {}
    <3>1. Got(a) \cap OnAir(b) = {}
      BY DEF SInv, Apart
    <3> QED BY <1>1, <1>2, <3>1
  <2>3. \A b, c \in Buses : b # c => OnAir(b)' \cap OnAir(c)' = {}
    BY <1>2 DEF SInv, Apart
  <2> QED BY <2>1, <2>2, <2>3 DEF Apart
<1>4. Told'
  <2> SUFFICES ASSUME NEW u \in Tasks, NEW x \in Resources
               PROVE  x \in held'[u] <=> \/ \E c \in Agents : job'[c].task = u /\ x \in Got(c)'
                                         \/ \E b \in Buses : transfer'[b].task = u /\ x \in OnAir(b)'
    BY DEF Told
  <2>1. x \in held[u] <=> \/ \E c \in Agents : job[c].task = u /\ x \in Got(c)
                          \/ \E b \in Buses : transfer[b].task = u /\ x \in OnAir(b)
    BY DEF SInv, Told
  <2>2. CASE u = t
    BY <1>0, <1>2, <2>1, <2>2
  <2>3. CASE u # t
    BY <1>0, <1>2, <2>1, <2>3
  <2> QED BY <2>2, <2>3
<1> QED BY <1>3, <1>4

\* An agent gives back what it had.
LEMMA LosesParts ==
  ASSUME SInv, NEW a \in Agents, NEW m, m \subseteq Got(a), Session(a, Got(a) \ m),
         Inside(a)' => job'[a].task = job[a].task,
         \A u \in Tasks : held'[u] = held[u] \ m
  PROVE  Apart' /\ Told'
<1>2. /\ Got(a)' = Got(a) \ m
      /\ \A c \in Agents \ {a} : Got(c)' = Got(c) /\ job'[c].task = job[c].task
      /\ \A b \in Buses : OnAir(b)' = OnAir(b) /\ transfer'[b].task = transfer[b].task
  BY SameOnAir DEF Session
<1>3. /\ \A c \in Agents \ {a} : Got(c) \cap m = {}
      /\ \A b \in Buses : OnAir(b) \cap m = {}
  BY DEF SInv, Apart
<1>4. Apart'
  <2>1. \A c \in Agents : Got(c)' \subseteq Got(c)
    BY <1>2
  <2> QED BY <1>2, <2>1 DEF SInv, Apart
<1>5. Got(a)' # {} => job'[a].task = job[a].task
  BY DEF Got
<1>6. Told'
  <2> SUFFICES ASSUME NEW u \in Tasks, NEW x \in Resources
               PROVE  x \in held'[u] <=> \/ \E c \in Agents : job'[c].task = u /\ x \in Got(c)'
                                         \/ \E b \in Buses : transfer'[b].task = u /\ x \in OnAir(b)'
    BY DEF Told
  <2>1. x \in held[u] <=> \/ \E c \in Agents : job[c].task = u /\ x \in Got(c)
                          \/ \E b \in Buses : transfer[b].task = u /\ x \in OnAir(b)
    BY DEF SInv, Told
  <2>2. CASE x \in m
    <3>1. x \notin held'[u]
      BY <2>2
    <3>2. \A c \in Agents : x \notin Got(c)'
      BY <1>2, <1>3, <2>2
    <3>3. \A b \in Buses : x \notin OnAir(b)'
      BY <1>2, <1>3, <2>2
    <3> QED BY <3>1, <3>2, <3>3
  <2>3. CASE x \notin m
    <3>1. x \in held'[u] <=> x \in held[u]
      BY <2>3
    <3>2. \A c \in Agents : job'[c].task = u /\ x \in Got(c)' <=> job[c].task = u /\ x \in Got(c)
      BY <1>2, <1>5, <2>3
    <3> QED BY <1>2, <2>1, <3>1, <3>2
  <2> QED BY <2>2, <2>3
<1> QED BY <1>4, <1>6

-----------------------------------------------------------------------------
(***************************************************************************)
(* Most steps leave the transfers alone.                                   *)
(***************************************************************************)
Plain(a) ==
  /\ OthersRest(a) /\ UNCHANGED <<transfer, selected, event>>
  /\ at[a] \notin {"event", "callback"} /\ at'[a] \notin {"event", "callback"}
  /\ Inside(a) => \/ Inside(a)' /\ Dev(a)' = Dev(a)
                  \/ /\ owner'[Dev(a)] = Nobody
                     /\ devCount'[Dev(a)] = 0 /\ busCount'[Dev(a)] = 0
  /\ a \in Tasks => at[Isr] = "idle"
  /\ a = Isr => \/ at'[Isr] # "idle" /\ job'[Isr] = job[Isr]
                \/ job[Isr].depth = 1

\* A transfer goes on as it was.
LEMMA PlainTransfer ==
  ASSUME SInv, NEW a \in Agents, Plain(a), NEW b \in Buses
  PROVE  TransferInv(b)'
<1> SUFFICES ASSUME transfer[b] # NoJob
             PROVE  TransferInv(b)'
  BY DEF Plain, TransferInv
<1> DEFINE d == transfer[b].dev
           t == transfer[b].task
<1>1. /\ d \in Devices /\ BusOf[d] = b /\ t \in Tasks /\ transfer[b].depth \in 1 .. 2
      /\ current[b] = d /\ d \in selected
      /\ ~transfer[b].async => at[t] = "event" /\ job[t] = transfer[b]
      /\ transfer[b].async =>
           /\ owner[d] = t
           /\ devCount[d] = transfer[b].depth /\ busCount[d] = transfer[b].depth
           /\ transfer[b].depth = 2 => at[t] = "callback" /\ job[t] = transfer[b]
  BY DEF SInv, Transfers, TransferInv
<1>2. transfer' = transfer /\ selected' = selected /\ OthersRest(a)
      /\ at[a] \notin {"event", "callback"}
  BY DEF Plain
<1>3. current'[b] = current[b]
  <2> SUFFICES ASSUME Inside(a), Bus(a) = b, b \in Got(a)
               PROVE  FALSE
    BY <1>2 DEF OthersRest
  <2> QED BY <1>2, BusIsOwn
<1>4. ASSUME at[t] \in {"event", "callback"}
      PROVE  at'[t] = at[t] /\ job'[t] = job[t]
  <2>1. t \in Agents \ {a}
    BY <1>1, <1>2, <1>4, Kinds
  <2> QED BY <1>2, <2>1 DEF OthersRest
<1>5. ASSUME transfer[b].async
      PROVE  owner'[d] = owner[d] /\ devCount'[d] = devCount[d] /\ busCount'[d] = busCount[d]
  <2>1. Inside(a) => d # Dev(a)
    BY <1>5, OneOnAir DEF SInv
  <2> QED BY <1>1, <1>2, <2>1 DEF OthersRest
<1> QED BY <1>1, <1>2, <1>3, <1>4, <1>5 DEF TransferInv

\* Whoever waits for one is still told of its end.
LEMMA PlainTransfers ==
  ASSUME SInv, NEW a \in Agents, Plain(a)
  PROVE  Transfers'
<1>1. /\ transfer' = transfer /\ selected' = selected /\ event' = event /\ OthersRest(a)
      /\ at[a] \notin {"event", "callback"} /\ at'[a] \notin {"event", "callback"}
  BY DEF Plain
<1>2. \A t \in Tasks \ {a} : /\ at'[t] = at[t] /\ job'[t] = job[t] /\ Bus(t)' = Bus(t)
                             /\ Dev(t)' = Dev(t)
  BY <1>1, Kinds DEF OthersRest, Bus, Dev
<1>3. ASSUME NEW t \in Tasks
      PROVE  WaitInv(t)'
  <2>0. WaitInv(t) /\ AgentInv(t)
    BY Kinds DEF SInv, Transfers
  <2>1. CASE at'[t] = "event"
    BY <1>1, <1>2, <2>0, <2>1 DEF WaitInv
  <2>2. CASE at'[t] = "callback"
    <3>1. t # a /\ at[t] = "callback" /\ job'[t] = job[t] /\ Bus(t)' = Bus(t)
      BY <1>1, <1>2, <2>2
    <3>2. job[t].depth = 2
      BY <2>0, <3>1 DEF AgentInv, JobInv
    <3>3. CASE transfer[Bus(t)] = job[t]
      BY <1>1, <2>2, <3>1, <3>3 DEF WaitInv
    <3>4. CASE at[Isr] # "idle" /\ job[Isr] = job[t]
      <4>1. at'[Isr] # "idle" /\ job'[Isr] = job[Isr]
        <5>1. CASE a = Isr
          BY <3>2, <3>4, <5>1 DEF Plain
        <5>2. CASE a # Isr
          BY <1>1, <3>4, <5>2, Kinds DEF OthersRest
        <5> QED BY <5>1, <5>2
      <4> QED BY <2>2, <3>1, <3>4, <4>1 DEF WaitInv
    <3> QED BY <2>0, <3>1, <3>3, <3>4 DEF WaitInv
  <2> QED BY <2>1, <2>2 DEF WaitInv
<1>4. Events'
  BY <1>1, <1>2 DEF SInv, Transfers, Events
<1>5. Selects'
  BY <1>1, <1>2 DEF SInv, Transfers, Selects
<1> QED BY <1>3, <1>4, <1>5, PlainTransfer DEF Transfers

\* A device that is not used any more is free.
LEMMA PlainFree ==
  ASSUME SInv, NEW a \in Agents, Plain(a)
  PROVE  Free'
<1> SUFFICES ASSUME NEW d \in Devices, Unused(d)'
             PROVE  Zero(d)'
  BY DEF Free
<1>1. OthersRest(a) /\ transfer' = transfer
  BY DEF Plain
<1>2. \A c \in Agents \ {a} : Inside(c) => Dev(c) # d
  BY <1>1, OthersInside DEF Unused
<1>3. \A b \in Buses : transfer[b].async => transfer[b].dev # d
  BY <1>1 DEF Unused
<1>4. CASE Inside(a) /\ Dev(a) = d
  BY <1>4 DEF Plain, Unused, Zero
<1>5. CASE ~(Inside(a) /\ Dev(a) = d)
  <2>1. Unused(d)
    BY <1>2, <1>3, <1>5 DEF Unused
  <2>2. owner'[d] = owner[d] /\ devCount'[d] = devCount[d] /\ busCount'[d] = busCount[d]
    BY <1>1, <1>5 DEF OthersRest
  <2> QED BY <2>1, <2>2 DEF SInv, Free, Zero
<1> QED BY <1>4, <1>5

\* What is left to show of a plain step.
LEMMA PlainStep ==
  ASSUME SInv, NEW a \in Agents, Plain(a), STypeOK', Apart', Told', AgentInv(a)',
         a \in Tasks => CallInv(a)', a = Isr => IsrInv', SetUps'
  PROVE  SInv'
<1>1. OthersRest(a)
  BY DEF Plain
<1>2. \A c \in Agents : AgentInv(c)'
  BY <1>1, OthersInv
<1>3. \A t \in Tasks : CallInv(t)'
  BY <1>1, OthersCall
<1>4. IsrInv'
  <2>1. CASE a \in Tasks
    <3>1. at'[Isr] = "idle"
      BY <1>1, <2>1, Kinds DEF Plain, OthersRest
    <3> QED BY <3>1 DEF IsrInv
  <2> QED BY <2>1 DEF Agents
<1> QED BY <1>2, <1>3, <1>4, PlainTransfers, PlainFree DEF SInv

-----------------------------------------------------------------------------
(***************************************************************************)
(* The steps, one by one.                                                  *)
(***************************************************************************)
\* One agent goes on to another place with the job it has.
LEMMA Moves ==
  ASSUME STypeOK, NEW a \in Agents, NEW place \in Places, Go(a, place), job' = job,
         a = Isr => place \in {"idle"} \cup Releasing
  PROVE  /\ at' \in [Agents -> Places] /\ at'[Isr] \in {"idle"} \cup Releasing
         /\ at'[a] = place /\ \A c \in Agents \ {a} : at'[c] = at[c]
         /\ Dev(a)' = Dev(a) /\ Bus(a)' = Bus(a) /\ Dma(a)' = Dma(a)
  BY Kinds DEF STypeOK, Go, Dev, Bus, Dma

\* What it does to the device of its session and to nothing else.
OwnDevice(a) ==
  /\ owner' \in [Devices -> Agents] /\ devCount' \in [Devices -> Int] /\ busCount' \in [Devices -> Int]
  /\ \A d \in Devices : d # Dev(a) =>
       owner'[d] = owner[d] /\ devCount'[d] = devCount[d] /\ busCount'[d] = busCount[d]
  /\ owner'[Dev(a)] \in {owner[Dev(a)], Nobody, a}

OthersCalls(a) ==
  \A u \in Tasks \ {a} : /\ call'[u] = call[u]
                         /\ call[u].pc # "run" => mask'[call[u].req] = mask[call[u].req]

\* A step of an agent in its session, which it keeps and in which it has set up no bus.
LEMMA InSession ==
  ASSUME SInv, NEW a \in Agents, NEW place \in Places \ {"idle", "event", "callback"},
         Go(a, place), Inside(a), Inside(a)',
         UNCHANGED <<job, busVars>>, OwnDevice(a), OthersCalls(a),
         at[a] # "event", a \in Tasks => at[Isr] = "idle", a = Isr => place \in Releasing
  PROVE  Plain(a) /\ STypeOK' /\ SetUps'
<1>1. /\ at' \in [Agents -> Places] /\ at'[Isr] \in {"idle"} \cup Releasing
      /\ at'[a] = place /\ \A c \in Agents \ {a} : at'[c] = at[c]
      /\ Dev(a)' = Dev(a)
  BY Moves DEF SInv
<1>2. STypeOK'
  BY <1>1 DEF SInv, STypeOK, OwnDevice, busVars
<1>3. SetUps'
  BY DEF SInv, SetUps, busVars
<1>4. OthersRest(a)
  BY <1>1 DEF OthersRest, OwnDevice, OthersCalls, busVars
<1>5. Plain(a)
  BY <1>1, <1>4 DEF Plain, busVars, Inside
<1> QED BY <1>2, <1>3, <1>5

\* A task computes.
LEMMA Computes ==
  ASSUME NEW t \in Tasks, NEW place, Compute(t, place)
  PROVE  /\ at[t] = place /\ at[Isr] = "idle" /\ call[t].pc = "run"
         /\ call' = call /\ mask' = mask /\ held' = held /\ OthersCalls(t)
  BY DEF Compute, TaskAt, rmVars, OthersCalls

\* Of its own session a task knows all.
LEMMA OwnSession ==
  ASSUME SInv, NEW t \in Tasks, Inside(t)
  PROVE  /\ t \in Agents /\ t # Isr /\ t # Nobody /\ Dev(t) \in Devices /\ Bus(t) \in Buses
         /\ job[t].task = t /\ job[t].depth \in 1 .. 2 /\ JobInv(t) /\ Counts(t) /\ SetUp(t)
  BY Kinds, GotIs DEF SInv, AgentInv, JobInv, Inside, Nobody

\* A task counts a nested acquisition of its device,
LEMMA DeviceAgainStep ==
  ASSUME SInv, NEW t \in Tasks, DeviceAgain(t)
  PROVE  SInv'
<1>1. /\ at[t] = "dev" /\ at[Isr] = "idle" /\ call[t].pc = "run" /\ owner[Dev(t)] = t
      /\ call' = call /\ mask' = mask /\ held' = held /\ OthersCalls(t)
      /\ devCount' = [devCount EXCEPT ![Dev(t)] = @ + 1] /\ Go(t, "bus")
      /\ UNCHANGED <<job, owner, busCount, busVars>>
  BY Computes DEF DeviceAgain
<1>2. Inside(t)
  BY <1>1 DEF Inside
<1>3. /\ t \in Agents /\ t # Isr /\ Dev(t) \in Devices /\ Bus(t) \in Buses
      /\ job[t].task = t /\ job[t].depth \in 1 .. 2 /\ JobInv(t) /\ Counts(t) /\ SetUp(t)
  BY <1>2, OwnSession
<1>4. at'[t] = "bus" /\ Dev(t)' = Dev(t) /\ Bus(t)' = Bus(t) /\ Dma(t)' = Dma(t)
  BY <1>1, <1>3, Moves DEF SInv, Places
<1>5. Inside(t)'
  BY <1>4 DEF Inside
<1>6. OwnDevice(t)
  BY <1>1, <1>3 DEF SInv, STypeOK, OwnDevice
<1>7. Plain(t) /\ STypeOK' /\ SetUps'
  BY <1>1, <1>2, <1>3, <1>5, <1>6, InSession DEF Places
<1>8. devCount'[Dev(t)] = 2 /\ busCount'[Dev(t)] = 1 /\ job[t].depth = 2
      /\ owner'[Dev(t)] = t /\ current'[Bus(t)] = Dev(t) /\ busCount[Dev(t)] = 1
  BY <1>1, <1>3 DEF SInv, STypeOK, Counts, Counted, SetUp, busVars
<1>9. AgentInv(t)'
  <2>1. Counts(t)'
    BY <1>1, <1>3, <1>4, <1>8 DEF Counts, Counted
  <2>2. SetUp(t)'
    BY <1>4, <1>8 DEF SetUp
  <2>3. JobInv(t)'
    BY <1>1, <1>3, <1>4 DEF JobInv
  <2> QED BY <2>1, <2>2, <2>3 DEF AgentInv
<1>10. Got(t)' = Got(t)
  BY <1>1, <1>2, <1>4, <1>5, <1>8 DEF Got
<1>11. Session(t, Got(t))
  BY <1>1, <1>3, <1>7, <1>10, OthersGot DEF Session, Plain, busVars
<1>12. Apart' /\ Told'
  BY <1>1, <1>3, <1>11, KeepsParts
<1>13. CallInv(t)'
  BY <1>1, <1>4 DEF SInv, CallInv
<1> QED BY <1>3, <1>7, <1>9, <1>12, <1>13, PlainStep

\* becomes the owner of a device it has got,
LEMMA DeviceOwnStep ==
  ASSUME SInv, NEW t \in Tasks, DeviceOwn(t)
  PROVE  SInv'
<1>1. /\ at[t] = "own" /\ at[Isr] = "idle" /\ call[t].pc = "run"
      /\ call' = call /\ mask' = mask /\ held' = held /\ OthersCalls(t)
      /\ owner' = [owner EXCEPT ![Dev(t)] = t]
      /\ devCount' = [devCount EXCEPT ![Dev(t)] = @ + 1] /\ Go(t, "bus")
      /\ UNCHANGED <<job, busCount, busVars>>
  BY Computes DEF DeviceOwn
<1>2. Inside(t)
  BY <1>1 DEF Inside
<1>3. /\ t \in Agents /\ t # Isr /\ Dev(t) \in Devices /\ Bus(t) \in Buses
      /\ job[t].task = t /\ job[t].depth \in 1 .. 2 /\ JobInv(t) /\ Counts(t) /\ SetUp(t)
  BY <1>2, OwnSession
<1>4. at'[t] = "bus" /\ Dev(t)' = Dev(t) /\ Bus(t)' = Bus(t) /\ Dma(t)' = Dma(t)
  BY <1>1, <1>3, Moves DEF SInv, Places
<1>5. Inside(t)'
  BY <1>4 DEF Inside
<1>6. OwnDevice(t)
  BY <1>1, <1>3 DEF SInv, STypeOK, OwnDevice
<1>7. Plain(t) /\ STypeOK' /\ SetUps'
  BY <1>1, <1>2, <1>3, <1>5, <1>6, InSession DEF Places
<1>8. /\ owner'[Dev(t)] = t /\ devCount'[Dev(t)] = 1 /\ busCount'[Dev(t)] = 0 /\ busCount[Dev(t)] = 0
  BY <1>1, <1>3 DEF SInv, STypeOK, Counts, Counted
<1>9. AgentInv(t)'
  <2>1. Counts(t)'
    BY <1>1, <1>3, <1>4, <1>8 DEF Counts, Counted
  <2>2. SetUp(t)'
    BY <1>4, <1>8 DEF SetUp
  <2>3. JobInv(t)'
    BY <1>1, <1>3, <1>4 DEF JobInv
  <2> QED BY <2>1, <2>2, <2>3 DEF AgentInv
<1>10. Got(t)' = Got(t)
  BY <1>1, <1>2, <1>4, <1>5, <1>8 DEF Got
<1>11. Session(t, Got(t))
  BY <1>1, <1>3, <1>7, <1>10, OthersGot DEF Session, Plain, busVars
<1>12. Apart' /\ Told'
  BY <1>1, <1>3, <1>11, KeepsParts
<1>13. CallInv(t)'
  BY <1>1, <1>4 DEF SInv, CallInv
<1> QED BY <1>3, <1>7, <1>9, <1>12, <1>13, PlainStep

\* counts the bus, for which it has to ask the first time only,
LEMMA BusCountStep ==
  ASSUME SInv, NEW t \in Tasks, BusCount(t)
  PROVE  SInv'
<1> DEFINE place == IF busCount[Dev(t)] = 0 THEN "busRes" ELSE "held"
<1>1. /\ at[t] = "bus" /\ at[Isr] = "idle" /\ call[t].pc = "run"
      /\ call' = call /\ mask' = mask /\ held' = held /\ OthersCalls(t)
      /\ busCount' = [busCount EXCEPT ![Dev(t)] = @ + 1] /\ Go(t, place)
      /\ UNCHANGED <<job, owner, devCount, busVars>>
  BY Computes DEF BusCount
<1>2. Inside(t)
  BY <1>1 DEF Inside
<1>3. /\ t \in Agents /\ t # Isr /\ Dev(t) \in Devices /\ Bus(t) \in Buses
      /\ job[t].task = t /\ job[t].depth \in 1 .. 2 /\ JobInv(t) /\ Counts(t) /\ SetUp(t)
  BY <1>2, OwnSession
<1>4. at'[t] = place /\ Dev(t)' = Dev(t) /\ Bus(t)' = Bus(t) /\ Dma(t)' = Dma(t)
  BY <1>1, <1>3, Moves DEF SInv, Places
<1>5. Inside(t)'
  BY <1>4 DEF Inside
<1>6. OwnDevice(t)
  BY <1>1, <1>3 DEF SInv, STypeOK, OwnDevice
<1>7. Plain(t) /\ STypeOK' /\ SetUps'
  BY <1>1, <1>2, <1>3, <1>5, <1>6, InSession DEF Places
<1>8. PICK n \in 1 .. job[t].depth : Counted(t, n, n - 1)
  BY <1>1, <1>3 DEF Counts
<1>9. /\ owner'[Dev(t)] = t /\ devCount'[Dev(t)] = n /\ busCount'[Dev(t)] = n
      /\ busCount[Dev(t)] = n - 1 /\ job'[t].depth = job[t].depth
  BY <1>1, <1>3, <1>8 DEF SInv, STypeOK, Counts, Counted
<1>10. AgentInv(t)'
  <2>1. Counts(t)'
    BY <1>1, <1>3, <1>4, <1>9 DEF Counts, Counted
  <2>2. SetUp(t)'
    BY <1>1, <1>3, <1>4, <1>9 DEF SetUp, busVars
  <2>3. JobInv(t)'
    BY <1>1, <1>3, <1>4 DEF JobInv
  <2> QED BY <2>1, <2>2, <2>3 DEF AgentInv
<1>11. Got(t)' = Got(t)
  BY <1>1, <1>2, <1>4, <1>5, <1>9 DEF Got
<1>12. Session(t, Got(t))
  BY <1>1, <1>3, <1>7, <1>11, OthersGot DEF Session, Plain, busVars
<1>13. Apart' /\ Told'
  BY <1>1, <1>3, <1>12, KeepsParts
<1>14. CallInv(t)'
  BY <1>1, <1>4 DEF SInv, CallInv
<1> QED BY <1>3, <1>7, <1>10, <1>13, <1>14, PlainStep

\* and has all it needs, or acquires once more.
LEMMA HeldStep ==
  ASSUME SInv, NEW t \in Tasks, Held(t)
  PROVE  SInv'
<1> DEFINE place == IF busCount[Dev(t)] < job[t].depth THEN "dev" ELSE "start"
<1>1. /\ at[t] = "held" /\ at[Isr] = "idle" /\ call[t].pc = "run"
      /\ call' = call /\ mask' = mask /\ held' = held /\ OthersCalls(t)
      /\ Go(t, place) /\ UNCHANGED <<job, owner, devCount, busCount, busVars>>
  BY Computes DEF Held, deviceVars
<1>2. Inside(t)
  BY <1>1 DEF Inside
<1>3. /\ t \in Agents /\ t # Isr /\ Dev(t) \in Devices /\ Bus(t) \in Buses
      /\ job[t].task = t /\ job[t].depth \in 1 .. 2 /\ JobInv(t) /\ Counts(t) /\ SetUp(t)
  BY <1>2, OwnSession
<1>4. at'[t] = place /\ Dev(t)' = Dev(t) /\ Bus(t)' = Bus(t) /\ Dma(t)' = Dma(t)
  BY <1>1, <1>3, Moves DEF SInv, Places
<1>5. owner[Dev(t)] = t
  BY <1>1, <1>3 DEF Counts
<1>6. Inside(t)'
  BY <1>1, <1>4, <1>5 DEF Inside
<1>7. OwnDevice(t)
  BY <1>1, <1>3 DEF SInv, STypeOK, OwnDevice
<1>8. Plain(t) /\ STypeOK' /\ SetUps'
  BY <1>1, <1>2, <1>3, <1>6, <1>7, InSession DEF Places
<1>9. PICK n \in 1 .. job[t].depth : Counted(t, n, n)
  BY <1>1, <1>3 DEF Counts
<1>10. AgentInv(t)'
  <2>1. Counts(t)'
    BY <1>1, <1>3, <1>4, <1>5, <1>9 DEF Counts, Counted
  <2>2. SetUp(t)'
    BY <1>1, <1>3, <1>4 DEF SetUp, busVars
  <2>3. JobInv(t)'
    BY <1>1, <1>3, <1>4 DEF JobInv
  <2> QED BY <2>1, <2>2, <2>3 DEF AgentInv
<1>11. Got(t)' = Got(t)
  BY <1>1, <1>2, <1>4, <1>6 DEF Got
<1>12. Session(t, Got(t))
  BY <1>1, <1>3, <1>8, <1>11, OthersGot DEF Session, Plain, busVars
<1>13. Apart' /\ Told'
  BY <1>1, <1>3, <1>12, KeepsParts
<1>14. CallInv(t)'
  BY <1>1, <1>4 DEF SInv, CallInv
<1> QED BY <1>3, <1>8, <1>10, <1>13, <1>14, PlainStep

\* Of its session an agent knows all.
LEMMA AnySession ==
  ASSUME SInv, NEW a \in Agents, Inside(a)
  PROVE  /\ Dev(a) \in Devices /\ Bus(a) \in Buses
         /\ job[a].task \in Tasks /\ job[a].depth \in 1 .. 2 /\ JobInv(a) /\ Counts(a) /\ SetUp(a)
         /\ a = Isr => IsrInv
         /\ a \in Tasks => CallInv(a)
  BY GotIs DEF SInv, AgentInv, JobInv, Inside

\* The task for which the handler releases stays where it is.
LEMMA HandlerGoesOn ==
  ASSUME SInv, NEW place \in Releasing, Go(Isr, place), job' = job, at[Isr] # "idle",
         job[Isr].task \in Tasks,
         place \in {"relDma", "relBusRes", "relDevRes"} => job[Isr].depth = 1,
         place \in {"relBus", "relDev"} => devCount'[Dev(Isr)] = job[Isr].depth
  PROVE  IsrInv'
<1>1. /\ at'[Isr] = place /\ \A c \in Agents \ {Isr} : at'[c] = at[c]
      /\ Dev(Isr)' = Dev(Isr)
  <2>1. Isr \in Agents /\ place \in Places
    BY Kinds DEF Places
  <2> QED BY <2>1, Moves DEF SInv
<1>2. at'[job[Isr].task] = at[job[Isr].task]
  BY <1>1, Kinds
<1> QED BY <1>1, <1>2 DEF SInv, IsrInv

\* An agent counts the bus down, and gives it back the last time:
LEMMA BusReleaseStep ==
  ASSUME SInv, NEW a \in Agents, BusRelease(a)
  PROVE  SInv'
<1> DEFINE place == IF busCount[Dev(a)] > 1 THEN "relDev" ELSE FirstRelease(a)
<1>1. /\ at[a] = "relBus" /\ (a # Isr => at[Isr] = "idle")
      /\ call' = call /\ mask' = mask /\ held' = held /\ OthersCalls(a)
      /\ busCount' = [busCount EXCEPT ![Dev(a)] = @ - 1] /\ Go(a, place)
      /\ UNCHANGED <<job, owner, devCount, busVars>>
  BY DEF BusRelease, AgentAt, rmVars, OthersCalls
<1>2. Inside(a)
  BY <1>1 DEF Inside
<1>3. /\ Dev(a) \in Devices /\ Bus(a) \in Buses
      /\ job[a].task \in Tasks /\ job[a].depth \in 1 .. 2 /\ JobInv(a) /\ Counts(a) /\ SetUp(a)
      /\ a = Isr => IsrInv
      /\ a \in Tasks => CallInv(a)
  BY <1>2, AnySession
<1>4. place \in {"relDev", "relBusRes", "relDma"}
  BY DEF FirstRelease
<1>5. at'[a] = place /\ Dev(a)' = Dev(a) /\ Bus(a)' = Bus(a) /\ Dma(a)' = Dma(a)
  BY <1>1, <1>3, <1>4, Moves DEF SInv, Places, Releasing
<1>6. Inside(a)'
  BY <1>4, <1>5 DEF Inside
<1>7. OwnDevice(a)
  BY <1>1, <1>3 DEF SInv, STypeOK, OwnDevice
<1>8. Plain(a) /\ STypeOK' /\ SetUps'
  BY <1>1, <1>2, <1>3, <1>4, <1>6, <1>7, InSession, Kinds DEF Places, Releasing
<1>9. PICK n \in 1 .. job[a].depth : Counted(a, n, n)
  BY <1>1, <1>3 DEF Counts
<1>10. /\ owner'[Dev(a)] = job[a].task /\ devCount'[Dev(a)] = n /\ busCount'[Dev(a)] = n - 1
       /\ busCount[Dev(a)] = n /\ job'[a].depth = job[a].depth /\ job'[a].task = job[a].task
  BY <1>1, <1>3, <1>9 DEF SInv, STypeOK, Counts, Counted
<1>11. (place = "relDev" <=> n = 2) /\ (place = "relDma" => Dma(a) # {}) /\ (place = "relBusRes" => Dma(a) = {})
  BY <1>3, <1>10 DEF FirstRelease
<1> HIDE DEF place
<1>12. AgentInv(a)'
  <2>1. Counts(a)'
    BY <1>3, <1>4, <1>5, <1>9, <1>10, <1>11 DEF Counts, Counted
  <2>2. SetUp(a)'
    BY <1>4, <1>5 DEF SetUp
  <2>3. JobInv(a)'
    BY <1>1, <1>3, <1>4, <1>5, <1>11 DEF JobInv
  <2> QED BY <2>1, <2>2, <2>3 DEF AgentInv
<1>13. Got(a)' = Got(a)
  BY <1>1, <1>2, <1>4, <1>5, <1>6, <1>10, <1>11 DEF Got, All, Dma, Bus, Dev
<1>14. Session(a, Got(a))
  BY <1>1, <1>3, <1>8, <1>13, OthersGot DEF Session, Plain, busVars, OthersRest
<1>15. Apart' /\ Told'
  BY <1>1, <1>3, <1>14, KeepsParts
<1>16. a \in Tasks => CallInv(a)'
  BY <1>1, <1>3, <1>4, <1>5 DEF CallInv
<1>17. a = Isr => IsrInv'
  <2> SUFFICES ASSUME a = Isr
               PROVE  IsrInv'
    OBVIOUS
  <2>1. devCount[Dev(Isr)] = job[Isr].depth
    BY <1>1, <1>3 DEF IsrInv
  <2>2. n = job[Isr].depth
    BY <1>9, <2>1 DEF Counted
  <2> QED BY <1>1, <1>3, <1>4, <1>10, <1>11, <2>1, <2>2, HandlerGoesOn DEF Releasing
<1> QED BY <1>8, <1>12, <1>15, <1>16, <1>17, PlainStep

\* the channels,
LEMMA DmaReleaseStep ==
  ASSUME SInv, NEW a \in Agents, DmaRelease(a)
  PROVE  SInv'
<1>1. /\ at[a] = "relDma" /\ (a # Isr => at[Isr] = "idle")
      /\ call' = call /\ mask' = mask /\ OthersCalls(a)
      /\ \A u \in Tasks : held'[u] = held[u] \ Dma(a)
      /\ Go(a, "relBusRes") /\ UNCHANGED <<job, owner, devCount, busCount, busVars>>
  BY HasReleased DEF DmaRelease, AgentAt, OthersCalls, deviceVars
<1>2. Inside(a)
  BY <1>1 DEF Inside
<1>3. /\ Dev(a) \in Devices /\ Bus(a) \in Buses
      /\ job[a].task \in Tasks /\ job[a].depth \in 1 .. 2 /\ JobInv(a) /\ Counts(a) /\ SetUp(a)
      /\ a = Isr => IsrInv
      /\ a \in Tasks => CallInv(a)
  BY <1>2, AnySession
<1>4. at'[a] = "relBusRes" /\ Dev(a)' = Dev(a) /\ Bus(a)' = Bus(a)
  BY <1>1, <1>3, Moves DEF SInv, Places, Releasing
<1>5. Inside(a)'
  BY <1>4 DEF Inside
<1>6. OwnDevice(a)
  BY <1>1, <1>3 DEF SInv, STypeOK, OwnDevice
<1>7. Plain(a) /\ STypeOK' /\ SetUps'
  BY <1>1, <1>2, <1>3, <1>5, <1>6, InSession, Kinds DEF Places, Releasing
<1>8. AgentInv(a)'
  <2>1. Counts(a)'
    BY <1>1, <1>3, <1>4 DEF Counts, Counted
  <2>2. SetUp(a)'
    BY <1>4 DEF SetUp
  <2>3. JobInv(a)'
    BY <1>1, <1>3, <1>4 DEF JobInv
  <2> QED BY <2>1, <2>2, <2>3 DEF AgentInv
<1>9. Got(a) = {Dev(a), Bus(a)} \cup Dma(a) /\ Got(a)' = {Dev(a), Bus(a)}
  BY <1>1, <1>2, <1>4, <1>5 DEF Got, All, Dma, Bus, Dev
<1>10. Dev(a) \notin Dma(a) /\ Bus(a) \notin Dma(a)
  BY <1>3, Kinds DEF Dma, Dev, Bus
<1>11. Session(a, Got(a) \ Dma(a))
  BY <1>1, <1>3, <1>7, <1>9, <1>10, OthersGot DEF Session, Plain, busVars, OthersRest
<1>12. Apart' /\ Told'
  BY <1>1, <1>3, <1>9, <1>11, LosesParts
<1>13. a \in Tasks => CallInv(a)'
  BY <1>1, <1>3, <1>4 DEF CallInv
<1>14. a = Isr => IsrInv'
  BY <1>1, <1>3, HandlerGoesOn DEF Releasing, IsrInv
<1> QED BY <1>7, <1>8, <1>12, <1>13, <1>14, PlainStep

\* the bus.
LEMMA BusResReleaseStep ==
  ASSUME SInv, NEW a \in Agents, BusResRelease(a)
  PROVE  SInv'
<1>1. /\ at[a] = "relBusRes" /\ (a # Isr => at[Isr] = "idle")
      /\ call' = call /\ mask' = mask /\ OthersCalls(a)
      /\ \A u \in Tasks : held'[u] = held[u] \ {Bus(a)}
      /\ Go(a, "relDev") /\ UNCHANGED <<job, owner, devCount, busCount, busVars>>
  BY HasReleased DEF BusResRelease, AgentAt, OthersCalls, deviceVars
<1>2. Inside(a)
  BY <1>1 DEF Inside
<1>3. /\ Dev(a) \in Devices /\ Bus(a) \in Buses
      /\ job[a].task \in Tasks /\ job[a].depth \in 1 .. 2 /\ JobInv(a) /\ Counts(a) /\ SetUp(a)
      /\ a = Isr => IsrInv
      /\ a \in Tasks => CallInv(a)
  BY <1>2, AnySession
<1>4. at'[a] = "relDev" /\ Dev(a)' = Dev(a) /\ Bus(a)' = Bus(a)
  BY <1>1, <1>3, Moves DEF SInv, Places, Releasing
<1>5. Inside(a)'
  BY <1>4 DEF Inside
<1>6. OwnDevice(a)
  BY <1>1, <1>3 DEF SInv, STypeOK, OwnDevice
<1>7. Plain(a) /\ STypeOK' /\ SetUps'
  BY <1>1, <1>2, <1>3, <1>5, <1>6, InSession, Kinds DEF Places, Releasing
<1>8. /\ owner'[Dev(a)] = job[a].task /\ devCount'[Dev(a)] = 1 /\ busCount'[Dev(a)] = 0
      /\ devCount[Dev(a)] = 1
  BY <1>1, <1>3 DEF Counts, Counted
<1>9. AgentInv(a)'
  <2>1. Counts(a)'
    <3>1. 1 \in 1 .. job'[a].depth /\ Counted(a, 1, 1 - 1)'
      BY <1>1, <1>3, <1>4, <1>8 DEF Counted
    <3> QED BY <1>1, <1>4, <1>8, <3>1 DEF Counts
  <2>2. SetUp(a)'
    BY <1>4, <1>8 DEF SetUp
  <2>3. JobInv(a)'
    BY <1>1, <1>3, <1>4 DEF JobInv
  <2> QED BY <2>1, <2>2, <2>3 DEF AgentInv
<1>10. Got(a) = {Dev(a), Bus(a)} /\ Got(a)' = {Dev(a)}
  BY <1>1, <1>2, <1>4, <1>5, <1>8 DEF Got
<1>11. Dev(a) # Bus(a)
  BY <1>3, Kinds
<1>12. Session(a, Got(a) \ {Bus(a)})
  BY <1>1, <1>3, <1>7, <1>10, <1>11, OthersGot DEF Session, Plain, busVars, OthersRest
<1>13. Apart' /\ Told'
  BY <1>1, <1>3, <1>10, <1>12, LosesParts
<1>14. a \in Tasks => CallInv(a)'
  BY <1>1, <1>3, <1>4 DEF CallInv
<1>15. a = Isr => IsrInv'
  BY <1>1, <1>3, <1>8, HandlerGoesOn DEF Releasing, IsrInv
<1> QED BY <1>7, <1>9, <1>13, <1>14, <1>15, PlainStep

\* The last release of a device leaves it without an owner;
LEMMA LastReleaseStep ==
  ASSUME SInv, NEW a \in Agents, DeviceRelease(a), LastUse(Dev(a))
  PROVE  SInv'
<1>1. /\ at[a] = "relDev" /\ (a # Isr => at[Isr] = "idle") /\ devCount[Dev(a)] = 1
      /\ call' = call /\ mask' = mask /\ held' = held /\ OthersCalls(a)
      /\ devCount' = [devCount EXCEPT ![Dev(a)] = @ - 1]
      /\ owner' = [owner EXCEPT ![Dev(a)] = Nobody] /\ Go(a, "relDevRes")
      /\ UNCHANGED <<job, busCount, busVars>>
  BY DEF DeviceRelease, AgentAt, rmVars, OthersCalls, LastUse
<1>2. Inside(a)
  BY <1>1 DEF Inside
<1>3. /\ Dev(a) \in Devices /\ Bus(a) \in Buses
      /\ job[a].task \in Tasks /\ job[a].depth \in 1 .. 2 /\ JobInv(a) /\ Counts(a) /\ SetUp(a)
      /\ a = Isr => IsrInv
      /\ a \in Tasks => CallInv(a)
  BY <1>2, AnySession
<1>4. at'[a] = "relDevRes" /\ Dev(a)' = Dev(a) /\ Bus(a)' = Bus(a)
  BY <1>1, <1>3, Moves DEF SInv, Places, Releasing
<1>5. Inside(a)'
  BY <1>4 DEF Inside
<1>6. OwnDevice(a)
  BY <1>1, <1>3, Kinds DEF SInv, STypeOK, OwnDevice, Nobody
<1>7. Plain(a) /\ STypeOK' /\ SetUps'
  BY <1>1, <1>2, <1>3, <1>5, <1>6, InSession, Kinds DEF Places, Releasing
<1>8. /\ owner'[Dev(a)] = Nobody /\ devCount'[Dev(a)] = 0 /\ busCount'[Dev(a)] = 0
      /\ busCount[Dev(a)] = 0
  BY <1>1, <1>3 DEF SInv, STypeOK, Counts, Counted
<1>9. AgentInv(a)'
  <2>1. Counts(a)'
    BY <1>4, <1>8 DEF Counts, Counted
  <2>2. SetUp(a)'
    BY <1>4 DEF SetUp
  <2>3. JobInv(a)'
    BY <1>1, <1>3, <1>4 DEF JobInv
  <2> QED BY <2>1, <2>2, <2>3 DEF AgentInv
<1>10. Got(a)' = Got(a)
  BY <1>1, <1>2, <1>4, <1>5, <1>8 DEF Got
<1>11. Session(a, Got(a))
  BY <1>1, <1>3, <1>7, <1>10, OthersGot DEF Session, Plain, busVars, OthersRest
<1>12. Apart' /\ Told'
  BY <1>1, <1>3, <1>11, KeepsParts
<1>13. a \in Tasks => CallInv(a)'
  BY <1>1, <1>3, <1>4 DEF CallInv
<1>14. a = Isr => IsrInv'
  BY <1>1, <1>3, HandlerGoesOn DEF Releasing, IsrInv
<1> QED BY <1>7, <1>9, <1>12, <1>13, <1>14, PlainStep

\* after another one a task goes on with the next.
LEMMA ReleaseAgainStep ==
  ASSUME SInv, NEW t \in Tasks, DeviceRelease(t), ~LastUse(Dev(t))
  PROVE  SInv'
<1>1. /\ at[t] = "relDev" /\ at[Isr] = "idle" /\ devCount[Dev(t)] # 1
      /\ call' = call /\ mask' = mask /\ held' = held /\ OthersCalls(t)
      /\ devCount' = [devCount EXCEPT ![Dev(t)] = @ - 1] /\ owner' = owner /\ GoOn(t)
      /\ UNCHANGED <<busCount, busVars>>
  BY Kinds DEF DeviceRelease, AgentAt, rmVars, OthersCalls, LastUse
<1>2. Inside(t)
  BY <1>1 DEF Inside
<1>3. /\ t \in Agents /\ t # Isr /\ Dev(t) \in Devices /\ Bus(t) \in Buses
      /\ job[t].task = t /\ job[t].depth \in 1 .. 2 /\ JobInv(t) /\ Counts(t) /\ SetUp(t)
  BY <1>2, OwnSession
<1>4. devCount[Dev(t)] = 2 /\ busCount[Dev(t)] = 1 /\ owner[Dev(t)] = t
  <2>1. PICK n \in 1 .. job[t].depth : Counted(t, n, n - 1)
    BY <1>1, <1>3 DEF Counts
  <2> QED BY <1>1, <1>3, <2>1 DEF Counted, Counts
<1>5. Go(t, "relBus") /\ job' = job
  BY <1>1, <1>3, <1>4 DEF GoOn
<1>6. at'[t] = "relBus" /\ Dev(t)' = Dev(t) /\ Bus(t)' = Bus(t)
  BY <1>3, <1>5, Moves DEF SInv, Places, Releasing
<1>7. Inside(t)'
  BY <1>6 DEF Inside
<1>8. OwnDevice(t)
  BY <1>1, <1>3 DEF SInv, STypeOK, OwnDevice
<1>9. Plain(t) /\ STypeOK' /\ SetUps'
  BY <1>1, <1>2, <1>3, <1>5, <1>7, <1>8, InSession DEF Places, Releasing
<1>10. /\ owner'[Dev(t)] = t /\ devCount'[Dev(t)] = 1 /\ busCount'[Dev(t)] = 1
  BY <1>1, <1>3, <1>4 DEF SInv, STypeOK
<1>11. AgentInv(t)'
  <2>1. Counts(t)'
    <3>1. 1 \in 1 .. job'[t].depth /\ Counted(t, 1, 1)'
      BY <1>3, <1>5, <1>6, <1>10 DEF Counted
    <3> QED BY <1>3, <1>5, <1>6, <1>10, <3>1 DEF Counts
  <2>2. SetUp(t)'
    BY <1>6 DEF SetUp
  <2>3. JobInv(t)'
    BY <1>1, <1>3, <1>5, <1>6 DEF JobInv
  <2> QED BY <2>1, <2>2, <2>3 DEF AgentInv
<1>12. Got(t)' = Got(t)
  BY <1>1, <1>2, <1>4, <1>6, <1>7 DEF Got
<1>13. Session(t, Got(t))
  BY <1>1, <1>3, <1>5, <1>9, <1>12, OthersGot DEF Session, Plain, busVars
<1>14. Apart' /\ Told'
  BY <1>1, <1>3, <1>5, <1>13, KeepsParts
<1>15. CallInv(t)'
  BY <1>1, <1>6 DEF SInv, CallInv
<1> QED BY <1>3, <1>9, <1>11, <1>14, <1>15, PlainStep

\* The handler does not end the use of a device while a task waits for its callback.
LEMMA NobodyWaits ==
  ASSUME SInv, at[Isr] = "relDevRes"
  PROVE  \A t \in Tasks : at[t] = "callback" => Dev(t) # Dev(Isr)
<1> SUFFICES ASSUME NEW t \in Tasks, at[t] = "callback", Dev(t) = Dev(Isr)
             PROVE  FALSE
  OBVIOUS
<1>1. Isr \in Agents /\ Inside(Isr) /\ job[Isr].depth = 1
  BY Kinds DEF Inside, SInv, IsrInv
<1>2. Dev(Isr) \in Got(Isr) /\ Dev(Isr) \in Devices /\ Bus(t) \in Buses
  BY <1>1, GotIs, Kinds DEF SInv, AgentInv, Bus, Dev
<1>3. job[t].depth = 2 /\ job[t].async
  BY Kinds DEF SInv, AgentInv, JobInv
<1>4. transfer[Bus(t)] = job[t]
  BY <1>1, <1>3 DEF SInv, Transfers, WaitInv
<1>5. Dev(Isr) \in OnAir(Bus(t))
  BY <1>3, <1>4 DEF OnAir, All, Dev
<1> QED BY <1>1, <1>2, <1>5 DEF SInv, Apart

\* Then the device is given back and the session is over.
LEMMA DeviceResReleaseStep ==
  ASSUME SInv, NEW a \in Agents, DeviceResRelease(a)
  PROVE  SInv'
<1>1. /\ at[a] = "relDevRes" /\ (a # Isr => at[Isr] = "idle")
      /\ call' = call /\ mask' = mask /\ OthersCalls(a)
      /\ \A u \in Tasks : held'[u] = held[u] \ {Dev(a)}
      /\ GoOn(a) /\ UNCHANGED <<owner, devCount, busCount, busVars>>
  BY HasReleased DEF DeviceResRelease, AgentAt, OthersCalls, deviceVars
<1>2. Inside(a)
  BY <1>1 DEF Inside
<1>3. /\ Dev(a) \in Devices /\ Bus(a) \in Buses
      /\ job[a].task \in Tasks /\ job[a].depth \in 1 .. 2 /\ JobInv(a) /\ Counts(a) /\ SetUp(a)
      /\ a = Isr => IsrInv
      /\ a \in Tasks => CallInv(a)
  BY <1>2, AnySession
<1>4. owner[Dev(a)] = Nobody /\ devCount[Dev(a)] = 0 /\ busCount[Dev(a)] = 0
  BY <1>1, <1>3 DEF Counts, Counted
<1>5. Leave(a)
  <2>1. CASE a # Isr
    BY <1>1, <1>4, <2>1 DEF GoOn
  <2>2. CASE a = Isr
    <3>1. {t \in Tasks : at[t] = "callback" /\ Dev(t) = Dev(a)} = {}
      BY <1>1, <2>2, NobodyWaits
    <3> QED BY <1>1, <2>2, <3>1 DEF GoOn
  <2> QED BY <2>1, <2>2
<1>6. /\ at' = [at EXCEPT ![a] = "idle"] /\ job' = [job EXCEPT ![a] = NoJob]
      /\ at'[a] = "idle" /\ job'[a] = NoJob
      /\ \A c \in Agents \ {a} : at'[c] = at[c] /\ job'[c] = job[c]
  BY <1>5 DEF Leave, Go, SInv, STypeOK
<1>7. ~Inside(a)'
  BY <1>6 DEF Inside
<1>8. STypeOK'
  BY <1>1, <1>6, NoJobIs DEF SInv, STypeOK, Places, Releasing, busVars
<1>9. Plain(a)
  <2>1. OthersRest(a)
    BY <1>1, <1>6 DEF OthersRest, OthersCalls, busVars
  <2>2. a = Isr => job[Isr].depth = 1
    BY <1>1, <1>3 DEF IsrInv
  <2> QED BY <1>1, <1>4, <1>6, <2>1, <2>2, Kinds DEF Plain, busVars
<1>10. AgentInv(a)'
  BY <1>6, <1>7 DEF AgentInv, JobInv
<1>11. Got(a) = {Dev(a)} /\ Got(a)' = {}
  BY <1>1, <1>2, <1>7 DEF Got
<1>12. Session(a, Got(a) \ {Dev(a)})
  BY <1>1, <1>6, <1>9, <1>11, OthersGot DEF Session, Plain, busVars
<1>13. Apart' /\ Told'
  BY <1>1, <1>7, <1>11, <1>12, LosesParts
<1>14. a \in Tasks => CallInv(a)'
  BY <1>1, <1>3, <1>6 DEF CallInv
<1>15. a = Isr => IsrInv'
  BY <1>6 DEF IsrInv
<1>16. SetUps'
  BY <1>1 DEF SInv, SetUps, busVars
<1> QED BY <1>8, <1>9, <1>10, <1>13, <1>14, <1>15, <1>16, PlainStep

\* A task that asks the manager changes its place only.
LEMMA StepsOn ==
  ASSUME SInv, NEW t \in Tasks, NEW place \in Places \ ({"idle", "event", "callback"} \cup Releasing),
         Go(t, place), UNCHANGED <<job, deviceVars, busVars>>, OthersCalls(t),
         at[t] \notin {"event", "callback"}, at[Isr] = "idle", Inside(t) => Inside(t)'
  PROVE  /\ Plain(t) /\ STypeOK' /\ SetUps'
         /\ at'[t] = place /\ Dev(t)' = Dev(t) /\ Bus(t)' = Bus(t) /\ Dma(t)' = Dma(t)
<1>0. t \in Agents /\ t # Isr
  BY Kinds
<1>1. /\ at' \in [Agents -> Places] /\ at'[Isr] \in {"idle"} \cup Releasing
      /\ at'[t] = place /\ \A c \in Agents \ {t} : at'[c] = at[c]
      /\ Dev(t)' = Dev(t) /\ Bus(t)' = Bus(t) /\ Dma(t)' = Dma(t)
  BY <1>0, Moves DEF SInv
<1>2. STypeOK'
  BY <1>1 DEF SInv, STypeOK, busVars, deviceVars
<1>3. SetUps'
  BY DEF SInv, SetUps, busVars
<1>4. OthersRest(t)
  BY <1>0, <1>1 DEF OthersRest, OthersCalls, busVars, deviceVars
<1>5. Plain(t)
  BY <1>0, <1>1, <1>4 DEF Plain, busVars
<1> QED BY <1>1, <1>2, <1>3, <1>5

\* It is given what nobody had: the device, then the bus, then the channels.
LEMMA ObtainStep ==
  ASSUME SInv, NEW t \in Tasks, NEW m, NEW next,
         \/ /\ at[t] \in {"dev", "devWait"} /\ (at[t] = "dev" => owner[Dev(t)] # t)
            /\ m = {Dev(t)} /\ next = "own"
         \/ at[t] \in {"busRes", "busWait"} /\ m = {Bus(t)} /\ next = "config"
         \/ at[t] \in {"dma", "dmaWait"} /\ m = Dma(t) /\ next = "held",
         at[Isr] = "idle", Go(t, next), UNCHANGED <<job, deviceVars, busVars>>,
         call'[t].pc = "run", call'[t].timedOut = FALSE, OthersCalls(t),
         \A u \in Tasks : m \cap held[u] = {},
         held'[t] = held[t] \cup m, \A u \in Tasks \ {t} : held'[u] = held[u]
  PROVE  SInv'
<1>1. t \in Agents /\ t # Isr /\ AgentInv(t)
  BY Kinds DEF SInv
<1>2. /\ next \in Places \ ({"idle", "event", "callback"} \cup Releasing)
      /\ next \in {"own", "config", "held"} /\ at[t] \notin {"idle", "event", "callback"}
  BY DEF Places, Releasing
<1>3. Inside(t)'
  BY <1>1, <1>2 DEF Inside, Go, SInv, STypeOK
<1>4. /\ Plain(t) /\ STypeOK' /\ SetUps'
      /\ at'[t] = next /\ Dev(t)' = Dev(t) /\ Bus(t)' = Bus(t) /\ Dma(t)' = Dma(t)
  BY <1>2, <1>3, StepsOn
<1>5. /\ Dev(t) \in Devices /\ job[t].task = t /\ job'[t] = job[t]
      /\ owner' = owner /\ devCount' = devCount /\ busCount' = busCount /\ current' = current
      /\ transfer' = transfer
  BY <1>1, <1>2 DEF AgentInv, JobInv, deviceVars, busVars
<1>6. ASSUME at[t] \in {"dev", "devWait"}, at[t] = "dev" => owner[Dev(t)] # t,
             m = {Dev(t)}, next = "own"
      PROVE  AgentInv(t)' /\ Got(t)' = Got(t) \cup m
  <2>1. ~Inside(t)
    BY <1>6 DEF Inside
  <2>2. Unused(Dev(t))
    <3>1. /\ \A c \in Agents : Got(c) \cap m = {}
          /\ \A b \in Buses : OnAir(b) \cap m = {}
      BY UnheldIsApart
    <3>2. \A c \in Agents : Inside(c) => Dev(c) \in Got(c)
      BY GotIs DEF SInv, AgentInv
    <3>3. \A b \in Buses : transfer[b].async => transfer[b].dev \in OnAir(b)
      BY DEF OnAir, All
    <3> QED BY <1>6, <3>1, <3>2, <3>3 DEF Unused
  <2>3. Zero(Dev(t))
    BY <1>5, <2>2 DEF SInv, Free
  <2>4. AgentInv(t)'
    <3>1. Counts(t)'
      BY <1>4, <1>5, <1>6, <2>3 DEF Counts, Counted, Zero
    <3>2. SetUp(t)' /\ JobInv(t)'
      BY <1>1, <1>4, <1>5, <1>6 DEF SetUp, JobInv, AgentInv
    <3> QED BY <3>1, <3>2 DEF AgentInv
  <2>5. Got(t) = {} /\ Got(t)' = {Dev(t)}
    BY <1>3, <1>4, <1>6, <2>1 DEF Got
  <2> QED BY <1>6, <2>4, <2>5
<1>7. ASSUME at[t] \in {"busRes", "busWait"}, m = {Bus(t)}, next = "config"
      PROVE  AgentInv(t)' /\ Got(t)' = Got(t) \cup m
  <2>1. Inside(t)
    BY <1>7 DEF Inside
  <2>2. Counts(t) /\ JobInv(t)
    BY <1>1, <2>1 DEF AgentInv
  <2>3. AgentInv(t)'
    <3>1. Counts(t)'
      BY <1>4, <1>5, <1>7, <2>2 DEF Counts, Counted
    <3>2. SetUp(t)' /\ JobInv(t)'
      BY <1>1, <1>4, <1>5, <1>7, <2>2 DEF SetUp, JobInv
    <3> QED BY <3>1, <3>2 DEF AgentInv
  <2>4. Got(t) = {Dev(t)} /\ Got(t)' = {Dev(t), Bus(t)}
    BY <1>3, <1>4, <1>7, <2>1 DEF Got
  <2> QED BY <1>7, <2>3, <2>4
<1>8. ASSUME at[t] \in {"dma", "dmaWait"}, m = Dma(t), next = "held"
      PROVE  AgentInv(t)' /\ Got(t)' = Got(t) \cup m
  <2>1. Inside(t)
    BY <1>8 DEF Inside
  <2>2. Counts(t) /\ JobInv(t) /\ SetUp(t)
    BY <1>1, <2>1 DEF AgentInv
  <2>3. AgentInv(t)'
    <3>1. Counts(t)'
      <4>1. 1 \in 1 .. job'[t].depth /\ Counted(t, 1, 1)'
        BY <1>4, <1>5, <1>8, <2>2 DEF Counts, Counted, JobInv
      <4> QED BY <1>4, <1>5, <1>8, <2>2, <4>1 DEF Counts
    <3>2. SetUp(t)' /\ JobInv(t)'
      BY <1>1, <1>4, <1>5, <1>8, <2>2 DEF SetUp, JobInv
    <3> QED BY <3>1, <3>2 DEF AgentInv
  <2>4. Got(t) = {Dev(t), Bus(t)} /\ Got(t)' = {Dev(t), Bus(t)} \cup Dma(t)
    BY <1>3, <1>4, <1>8, <2>1 DEF Got, All, Bus, Dma, Dev
  <2> QED BY <1>8, <2>3, <2>4
<1>9. AgentInv(t)' /\ Got(t)' = Got(t) \cup m
  BY <1>6, <1>7, <1>8
<1>10. Session(t, Got(t) \cup m)
  BY <1>1, <1>4, <1>5, <1>9, OthersGot DEF Session, Plain, OthersRest
<1>11. Apart' /\ Told'
  BY <1>5, <1>10, GainsParts
<1>12. CallInv(t)'
  BY <1>2, <1>4 DEF CallInv
<1> QED BY <1>1, <1>4, <1>9, <1>11, <1>12, PlainStep

\* Or it waits for that.
LEMMA AskStep ==
  ASSUME SInv, NEW t \in Tasks, NEW m, NEW waitPlace,
         \/ /\ at[t] = "dev" /\ owner[Dev(t)] # t
            /\ m = {Dev(t)} /\ waitPlace = "devWait"
         \/ at[t] = "busRes" /\ m = {Bus(t)} /\ waitPlace = "busWait"
         \/ at[t] = "dma" /\ m = Dma(t) /\ waitPlace = "dmaWait",
         at[Isr] = "idle", Go(t, waitPlace), UNCHANGED <<job, deviceVars, busVars>>,
         call'[t].pc = "wait", call'[t].timedOut = FALSE, mask'[call'[t].req] = m,
         OthersCalls(t), held' = held
  PROVE  SInv'
<1>1. t \in Agents /\ t # Isr /\ AgentInv(t)
  BY Kinds DEF SInv
<1>2. /\ waitPlace \in Places \ ({"idle", "event", "callback"} \cup Releasing)
      /\ waitPlace \in {"devWait", "busWait", "dmaWait"} /\ at[t] \notin {"idle", "event", "callback"}
  BY DEF Places, Releasing
<1>3. at'[t] = waitPlace
  BY <1>1 DEF Go, SInv, STypeOK
<1>4. Inside(t)' <=> Inside(t)
  BY <1>2, <1>3 DEF Inside
<1>5. /\ Plain(t) /\ STypeOK' /\ SetUps'
      /\ Dev(t)' = Dev(t) /\ Bus(t)' = Bus(t) /\ Dma(t)' = Dma(t)
  BY <1>2, <1>4, StepsOn
<1>6. /\ job[t].task = t /\ job'[t] = job[t]
      /\ owner' = owner /\ devCount' = devCount /\ busCount' = busCount /\ current' = current
      /\ transfer' = transfer
  BY <1>1, <1>2 DEF AgentInv, JobInv, deviceVars, busVars
<1>7. Got(t)' = Got(t)
  BY <1>2, <1>3, <1>4, <1>5, <1>6 DEF Got
<1>8. AgentInv(t)'
  <2>1. JobInv(t)'
    BY <1>1, <1>2, <1>3, <1>5, <1>6 DEF AgentInv, JobInv
  <2>2. ASSUME Inside(t)
        PROVE  Counts(t)' /\ SetUp(t)'
    <3>1. at[t] \in {"busRes", "dma"} /\ waitPlace \in {"busWait", "dmaWait"}
      BY <2>2 DEF Inside
    <3> QED BY <1>1, <1>3, <1>5, <1>6, <2>2, <3>1 DEF AgentInv, Counts, Counted, SetUp
  <2> QED BY <1>4, <2>1, <2>2 DEF AgentInv
<1>9. Session(t, Got(t))
  BY <1>1, <1>5, <1>6, <1>7, OthersGot DEF Session, Plain, OthersRest
<1>10. Apart' /\ Told'
  BY <1>1, <1>6, <1>9, KeepsParts
<1>11. CallInv(t)'
  BY <1>2, <1>3, <1>5 DEF CallInv, Asked
<1> QED BY <1>1, <1>5, <1>8, <1>10, <1>11, PlainStep

\* A call of the manager has ended, or the task has begun to wait.
LEMMA AcquireSteps ==
  ASSUME SInv, IInv, NEW t \in Tasks, NEW m \in SUBSET Resources, NEW place, NEW waitPlace, NEW next,
         AcquireStep(t, m, place, waitPlace, next),
         \/ /\ place = "dev" /\ owner[Dev(t)] # t
            /\ m = {Dev(t)} /\ waitPlace = "devWait" /\ next = "own"
         \/ place = "busRes" /\ m = {Bus(t)} /\ waitPlace = "busWait" /\ next = "config"
         \/ place = "dma" /\ m = Dma(t) /\ waitPlace = "dmaWait" /\ next = "held"
  PROVE  SInv'
<1>1. at[t] = place /\ at[Isr] = "idle" /\ UNCHANGED <<job, deviceVars, busVars>>
  BY DEF AcquireStep, TaskAt
<1>2. CASE AcquireNow(t, m) /\ Go(t, next)
  <2>1. /\ call' = call /\ mask' = mask /\ call[t].pc = "run"
        /\ held'[t] = held[t] \cup m /\ \A u \in Tasks \ {t} : held'[u] = held[u]
        /\ \A u \in Tasks : m \cap held[u] = {}
    BY <1>2, AcquiredNow
  <2>2. call'[t].timedOut = FALSE /\ call'[t].pc = "run" /\ OthersCalls(t)
    BY <2>1 DEF SInv, CallInv, OthersCalls
  <2>3. \/ /\ at[t] \in {"dev", "devWait"} /\ (at[t] = "dev" => owner[Dev(t)] # t)
           /\ m = {Dev(t)} /\ next = "own"
        \/ at[t] \in {"busRes", "busWait"} /\ m = {Bus(t)} /\ next = "config"
        \/ at[t] \in {"dma", "dmaWait"} /\ m = Dma(t) /\ next = "held"
    BY <1>1
  <2> QED BY <1>1, <1>2, <2>1, <2>2, <2>3, ObtainStep
<1>3. CASE Enqueue(t, m, FALSE) /\ Go(t, waitPlace)
  <2>1. /\ held' = held /\ call'[t].pc = "wait" /\ call'[t].timedOut = FALSE
        /\ mask'[call'[t].req] = m /\ OthersCalls(t)
    BY <1>3, HasEnqueued DEF OthersCalls
  <2>2. \/ /\ at[t] = "dev" /\ owner[Dev(t)] # t
           /\ m = {Dev(t)} /\ waitPlace = "devWait"
        \/ at[t] = "busRes" /\ m = {Bus(t)} /\ waitPlace = "busWait"
        \/ at[t] = "dma" /\ m = Dma(t) /\ waitPlace = "dmaWait"
    BY <1>1
  <2> QED BY <1>1, <1>3, <2>1, <2>2, AskStep
<1> QED BY <1>2, <1>3 DEF AcquireStep

\* A task that waited is given what it asked for.
LEMMA GrantSteps ==
  ASSUME SInv, IInv, NEW t \in Tasks, NEW waitPlace, NEW next,
         GrantStep(t, waitPlace, next),
         \/ waitPlace = "devWait" /\ next = "own"
         \/ waitPlace = "busWait" /\ next = "config"
         \/ waitPlace = "dmaWait" /\ next = "held"
  PROVE  SInv'
<1>1. /\ at[t] = waitPlace /\ at[Isr] = "idle" /\ Return(t) /\ Go(t, next)
      /\ UNCHANGED <<job, deviceVars, busVars>>
  BY DEF GrantStep, TaskAt
<1> DEFINE m == mask[call[t].req]
<1>2. CallInv(t)
  BY DEF SInv
<1>3. /\ call'[t].pc = "run" /\ call'[t].timedOut = FALSE
      /\ held'[t] = held[t] \cup m /\ \A u \in Tasks : m \cap held[u] = {}
      /\ \A u \in Tasks \ {t} : held'[u] = held[u]
      /\ OthersCalls(t)
  BY <1>1, <1>2, HasReturned DEF CallInv, OthersCalls
<1>4. m = Asked(t)
  BY <1>1, <1>2 DEF CallInv
<1> HIDE DEF m
<1>5. \/ /\ at[t] \in {"dev", "devWait"} /\ (at[t] = "dev" => owner[Dev(t)] # t)
         /\ m = {Dev(t)} /\ next = "own"
      \/ at[t] \in {"busRes", "busWait"} /\ m = {Bus(t)} /\ next = "config"
      \/ at[t] \in {"dma", "dmaWait"} /\ m = Dma(t) /\ next = "held"
  BY <1>1, <1>4 DEF Asked
<1> QED BY <1>1, <1>3, <1>5, ObtainStep

\* What a task asks for are resources, and there are some.
LEMMA AsksForSome ==
  ASSUME SInv, NEW t \in Tasks, at[t] # "idle"
  PROVE  /\ {Dev(t)} \in SUBSET Resources /\ {Bus(t)} \in SUBSET Resources /\ Dma(t) \in SUBSET Resources
         /\ at[t] \in {"dma", "dmaWait", "relDma"} => Dma(t) # {}
<1>1. JobInv(t)
  BY Kinds DEF SInv, AgentInv
<1>2. Dev(t) \in Devices
  BY <1>1 DEF JobInv
<1> QED BY <1>1, <1>2, SpiAssumption DEF JobInv, Bus, Dma, Dev

\* The device,
LEMMA DeviceAcquireStep ==
  ASSUME SInv, IInv, NEW t \in Tasks, DeviceAcquire(t)
  PROVE  SInv'
<1>1. CASE owner[Dev(t)] # t /\ AcquireStep(t, {Dev(t)}, "dev", "devWait", "own")
  <2>1. {Dev(t)} \in SUBSET Resources
    BY <1>1, AsksForSome DEF AcquireStep, TaskAt
  <2> QED BY <1>1, <2>1, AcquireSteps
<1>2. CASE GrantStep(t, "devWait", "own")
  BY <1>2, GrantSteps
<1> QED BY <1>1, <1>2 DEF DeviceAcquire

\* the bus
LEMMA BusAcquireStep ==
  ASSUME SInv, IInv, NEW t \in Tasks, BusAcquire(t)
  PROVE  SInv'
<1>1. CASE AcquireStep(t, {Bus(t)}, "busRes", "busWait", "config")
  <2>1. {Bus(t)} \in SUBSET Resources
    BY <1>1, AsksForSome DEF AcquireStep, TaskAt
  <2> QED BY <1>1, <2>1, AcquireSteps
<1>2. CASE GrantStep(t, "busWait", "config")
  BY <1>2, GrantSteps
<1> QED BY <1>1, <1>2 DEF BusAcquire

\* and the channels.
LEMMA DmaAcquireStep ==
  ASSUME SInv, IInv, NEW t \in Tasks, DmaAcquire(t)
  PROVE  SInv'
<1>1. CASE AcquireStep(t, Dma(t), "dma", "dmaWait", "held")
  <2>1. Dma(t) \in SUBSET Resources
    BY <1>1, AsksForSome DEF AcquireStep, TaskAt
  <2> QED BY <1>1, <2>1, AcquireSteps
<1>2. CASE GrantStep(t, "dmaWait", "held")
  BY <1>2, GrantSteps
<1> QED BY <1>1, <1>2 DEF DmaAcquire

\* A task that wakes up is still in the manager.
LEMMA SpiWakeStep ==
  ASSUME SInv, IInv, NEW t \in Tasks, SpiWake(t)
  PROVE  SInv'
<1>1. /\ held' = held /\ mask' = mask
      /\ call[t].pc = "wait" /\ call'[t].pc = "woken" /\ call'[t].req = call[t].req
      /\ call'[t].timedOut = call[t].timedOut
      /\ \A u \in Tasks \ {t} : call'[u] = call[u]
  BY HasWoken DEF SpiWake
<1>2. UNCHANGED <<at, job, owner, devCount, busCount, current, config, hw, selected, transfer, event>>
  BY DEF SpiWake, spiVars, deviceVars, busVars
<1>3. \A u \in Tasks : CallInv(u)'
  BY <1>1, <1>2 DEF SInv, CallInv, Asked, Dev, Bus, Dma
<1>4. STypeOK'
  BY <1>2 DEF SInv, STypeOK
<1>5. \A a \in Agents : /\ Inside(a)' <=> Inside(a)
                        /\ Got(a)' = Got(a)
  BY <1>2 DEF Inside, Got, Dev, Bus
<1>6. \A b \in Buses : OnAir(b)' = OnAir(b)
  BY <1>2 DEF OnAir
<1>7. Apart' /\ Told'
  <2>1. Apart'
    BY <1>5, <1>6 DEF SInv, Apart
  <2>2. Told'
    BY <1>1, <1>2, <1>5, <1>6 DEF SInv, Told
  <2> QED BY <2>1, <2>2
<1>8. \A a \in Agents : AgentInv(a)'
  BY <1>2, <1>5 DEF SInv, AgentInv, JobInv, Counts, Counted, SetUp, Dev, Bus, Dma
<1>9. IsrInv'
  BY <1>2 DEF SInv, IsrInv, Dev
<1>10. Transfers'
  BY <1>2 DEF SInv, Transfers, TransferInv, WaitInv, Events, Selects, Bus, Dev
<1>11. Free'
  <2>1. \A d \in Devices : Unused(d)' => Unused(d)
    BY <1>2, <1>5 DEF Unused, Dev
  <2> QED BY <1>2, <2>1 DEF SInv, Free, Zero
<1>12. SetUps'
  BY <1>2 DEF SInv, SetUps
<1> QED BY <1>3, <1>4, <1>7, <1>8, <1>9, <1>10, <1>11, <1>12 DEF SInv

\* The controller is set up by the one task that has the bus.
LEMMA BusConfigStep ==
  ASSUME SInv, NEW t \in Tasks, BusConfig(t)
  PROVE  SInv'
<1> DEFINE place == IF Dma(t) = {} THEN "held" ELSE "dma"
<1>1. /\ at[t] = "config" /\ at[Isr] = "idle" /\ call[t].pc = "run"
      /\ call' = call /\ mask' = mask /\ held' = held /\ OthersCalls(t)
      /\ Go(t, place) /\ UNCHANGED <<job, owner, devCount, busCount, selected, transfer, event>>
  BY Computes DEF BusConfig, deviceVars
<1>2. Inside(t)
  BY <1>1 DEF Inside
<1>3. /\ t \in Agents /\ t # Isr /\ Dev(t) \in Devices /\ Bus(t) \in Buses
      /\ job[t].task = t /\ job[t].depth \in 1 .. 2 /\ JobInv(t) /\ Counts(t)
  BY <1>2, OwnSession
<1>4. /\ at' \in [Agents -> Places] /\ at'[Isr] \in {"idle"} \cup Releasing
      /\ at'[t] = place /\ \A c \in Agents \ {t} : at'[c] = at[c]
      /\ Dev(t)' = Dev(t) /\ Bus(t)' = Bus(t) /\ Dma(t)' = Dma(t)
  <2>1. place \in Places
    BY DEF Places
  <2> QED BY <1>1, <1>3, <2>1, Moves DEF SInv
<1>5. /\ current'[Bus(t)] = Dev(t) /\ \A b \in Buses : b # Bus(t) => current'[b] = current[b]
      /\ current' \in [Buses -> Devices \cup {NoDevice}]
      /\ config' \in [Buses -> Devices \cup {NoDevice}]
  <2>1. CASE LastOnBus(Dev(t))
    BY <1>3, <2>1 DEF BusConfig, LastOnBus, Bus, Dev, SInv, STypeOK
  <2>2. CASE ~LastOnBus(Dev(t))
    BY <1>3, <2>2 DEF BusConfig, SInv, STypeOK
  <2> QED BY <2>1, <2>2
<1>6. SetUps'
  BY <1>3 DEF BusConfig, SInv, STypeOK, SetUps
<1>7. Inside(t)'
  BY <1>4 DEF Inside
<1>8. Got(t) = {Dev(t), Bus(t)}
  BY <1>1, <1>2 DEF Got
<1>9. STypeOK'
  BY <1>1, <1>4, <1>5 DEF SInv, STypeOK
<1>10. Plain(t)
  <2>1. OthersRest(t)
    BY <1>1, <1>2, <1>3, <1>4, <1>5, <1>8 DEF OthersRest, OthersCalls
  <2> QED BY <1>1, <1>3, <1>4, <1>7, <2>1 DEF Plain
<1>11. AgentInv(t)'
  <2>1. Counts(t)'
    <3>1. 1 \in 1 .. job'[t].depth /\ Counted(t, 1, 1)'
      BY <1>1, <1>3, <1>4 DEF Counts, Counted
    <3> QED BY <1>1, <1>3, <1>4, <3>1 DEF Counts
  <2>2. SetUp(t)'
    BY <1>4, <1>5 DEF SetUp
  <2>3. JobInv(t)'
    BY <1>1, <1>3, <1>4 DEF JobInv
  <2> QED BY <2>1, <2>2, <2>3 DEF AgentInv
<1>12. Got(t)' = Got(t)
  BY <1>4, <1>7, <1>8 DEF Got, All, Dma, Bus, Dev
<1>13. Session(t, Got(t))
  BY <1>1, <1>3, <1>10, <1>12, OthersGot DEF Session, Plain
<1>14. Apart' /\ Told'
  BY <1>1, <1>3, <1>13, KeepsParts
<1>15. CallInv(t)'
  BY <1>1, <1>4 DEF SInv, CallInv
<1> QED BY <1>3, <1>6, <1>9, <1>10, <1>11, <1>14, <1>15, PlainStep

\* A task that begins has no session with the device: it is not its owner.
LEMMA BeginStep ==
  ASSUME SInv, NEW t \in Tasks, NEW d \in Devices, NEW async \in BOOLEAN, NEW depth \in 1 .. 2,
         Begin(t, d, async, depth)
  PROVE  SInv'
<1> DEFINE new == [dev |-> d, async |-> async, task |-> t, depth |-> depth]
<1>1. /\ at[t] = "idle" /\ at[Isr] = "idle" /\ call[t].pc = "run"
      /\ call' = call /\ mask' = mask /\ held' = held /\ OthersCalls(t)
      /\ \A b \in Buses : ~(transfer[b].dev = d /\ transfer[b].task = t)
      /\ Go(t, "dev") /\ UNCHANGED <<deviceVars, busVars>>
  BY Computes DEF Begin
<1>2. t \in Agents /\ t # Isr /\ t # Nobody
  BY Kinds DEF Nobody
<1>3. new \in Jobs /\ job' = [job EXCEPT ![t] = new]
  BY <1>2 DEF Jobs, Begin
<1>4. /\ at' \in [Agents -> Places] /\ at'[Isr] \in {"idle"} \cup Releasing /\ at'[t] = "dev"
      /\ job' \in [Agents -> Jobs] /\ job'[t] = new
      /\ \A c \in Agents \ {t} : at'[c] = at[c] /\ job'[c] = job[c]
  BY <1>1, <1>2, <1>3 DEF Go, SInv, STypeOK, Places
<1>5. ~Inside(t)
  BY <1>1 DEF Inside
<1>6. owner[d] # t
  <2> SUFFICES ASSUME owner[d] = t
               PROVE  FALSE
    OBVIOUS
  <2>1. ~Unused(d)
    BY <1>2 DEF SInv, Free, Zero
  <2>2. CASE \E a \in Agents : Inside(a) /\ Dev(a) = d
    <3>1. PICK a \in Agents : Inside(a) /\ Dev(a) = d
      BY <2>2
    <3>2. a # t /\ a # Isr
      BY <1>1, <3>1 DEF Inside
    <3>3. a \in Tasks /\ AgentInv(a)
      BY <3>2 DEF Agents, SInv
    <3>4. owner[d] \in {Nobody, a}
      BY <3>1, <3>3 DEF AgentInv, JobInv, Counts, Inside
    <3> QED BY <1>2, <3>2, <3>4
  <2>3. CASE \E b \in Buses : transfer[b].async /\ transfer[b].dev = d
    <3>1. PICK b \in Buses : transfer[b].async /\ transfer[b].dev = d
      BY <2>3
    <3>2. owner[d] = transfer[b].task
      BY <3>1, NoJobIs DEF SInv, Transfers, TransferInv
    <3> QED BY <1>1, <3>1, <3>2
  <2> QED BY <2>1, <2>2, <2>3 DEF Unused
<1>7. Dev(t)' = d
  BY <1>4 DEF Dev
<1>8. ~Inside(t)'
  BY <1>1, <1>4, <1>6, <1>7 DEF Inside, deviceVars
<1>9. STypeOK'
  BY <1>1, <1>4 DEF SInv, STypeOK, deviceVars, busVars
<1>10. SetUps'
  BY <1>1 DEF SInv, SetUps, busVars
<1>11. Plain(t)
  <2>1. OthersRest(t)
    BY <1>1, <1>4, <1>5 DEF OthersRest, OthersCalls, deviceVars, busVars
  <2> QED BY <1>1, <1>2, <1>4, <1>5, <2>1 DEF Plain, busVars
<1>12. AgentInv(t)'
  <2>1. JobInv(t)'
    BY <1>2, <1>4, <1>7 DEF JobInv
  <2> QED BY <1>8, <2>1 DEF AgentInv
<1>13. Got(t) = {} /\ Got(t)' = {}
  BY <1>5, <1>8 DEF Got
<1>14. Session(t, Got(t))
  BY <1>1, <1>4, <1>11, <1>13, OthersGot DEF Session, Plain, busVars
<1>15. Apart' /\ Told'
  BY <1>1, <1>2, <1>5, <1>14, KeepsParts
<1>16. CallInv(t)'
  BY <1>1, <1>4 DEF SInv, CallInv
<1> QED BY <1>2, <1>9, <1>10, <1>11, <1>12, <1>15, <1>16, PlainStep

\* Nobody who sleeps with a set-up bus needs it afterwards.
LEMMA SleepStep ==
  ASSUME SInv, Sleep
  PROVE  SInv'
<1>1. /\ at[Isr] = "idle" /\ \A t \in Tasks : at[t] = "idle" \/ Waits(t)
      /\ \A b \in Buses : transfer[b] = NoJob
      /\ \A b \in Buses : config[b] # NoDevice => busCount[config[b]] = 0
      /\ current' = [b \in Buses |-> NoDevice] /\ hw' = current'
      /\ UNCHANGED <<call, mask, held, at, job, owner, devCount, busCount, config, selected, transfer, event>>
  BY DEF Sleep, rmVars, deviceVars
<1>2. STypeOK'
  BY <1>1 DEF SInv, STypeOK
<1>3. \A a \in Agents : /\ Inside(a)' <=> Inside(a)
                        /\ Got(a)' = Got(a)
  BY <1>1 DEF Inside, Got, Dev, Bus
<1>4. \A b \in Buses : OnAir(b)' = OnAir(b)
  BY <1>1 DEF OnAir
<1>5. Apart' /\ Told'
  <2>1. Apart'
    BY <1>3, <1>4 DEF SInv, Apart
  <2>2. Told'
    BY <1>1, <1>3, <1>4 DEF SInv, Told
  <2> QED BY <2>1, <2>2
<1>6. ASSUME NEW a \in Agents, Inside(a)
      PROVE  SetUp(a)'
  <2>1. a \in Tasks /\ Waits(a) /\ CallInv(a) /\ AgentInv(a)
    BY <1>1, <1>6 DEF Inside, Agents, SInv
  <2>2. at[a] \in {"busWait", "dmaWait", "event"}
    BY <1>6, <2>1 DEF Waits, CallInv, Inside
  <2>3. at[a] # "dmaWait"
    <3> SUFFICES ASSUME at[a] = "dmaWait"
                 PROVE  FALSE
      OBVIOUS
    <3>1. /\ Bus(a) \in Buses /\ Dev(a) \in Devices /\ busCount[Dev(a)] = 1
          /\ current[Bus(a)] = Dev(a)
      BY <1>6, <2>1, AnySession DEF Counts, Counted, SetUp
    <3>2. config[Bus(a)] = Dev(a) /\ Dev(a) # NoDevice
      BY <3>1, Kinds DEF SInv, SetUps
    <3> QED BY <1>1, <3>1, <3>2
  <2> QED BY <1>1, <2>2, <2>3 DEF SetUp
<1>7. \A a \in Agents : AgentInv(a)'
  BY <1>1, <1>3, <1>6 DEF SInv, AgentInv, JobInv, Counts, Counted, Dev, Bus, Dma
<1>8. IsrInv'
  BY <1>1 DEF SInv, IsrInv, Dev
<1>9. Transfers'
  BY <1>1 DEF SInv, Transfers, TransferInv, WaitInv, Events, Selects, Bus, Dev
<1>10. \A t \in Tasks : CallInv(t)'
  BY <1>1 DEF SInv, CallInv, Asked, Dev, Bus, Dma
<1>11. Free'
  <2>1. \A d \in Devices : Unused(d)' => Unused(d)
    BY <1>1, <1>3 DEF Unused, Dev
  <2> QED BY <1>1, <2>1 DEF SInv, Free, Zero
<1>12. SetUps'
  BY <1>1 DEF SetUps
<1> QED BY <1>2, <1>5, <1>7, <1>8, <1>9, <1>10, <1>11, <1>12 DEF SInv

-----------------------------------------------------------------------------
(***************************************************************************)
(* The steps in which a transfer begins or ends.                           *)
(***************************************************************************)
\* A step of one agent, or of the hardware for one, that changes transfers but no counts.
LEMMA OtherStep ==
  ASSUME SInv, NEW a \in Agents, OthersRest(a), STypeOK', Apart', Told', AgentInv(a)',
         a \in Tasks => CallInv(a)', IsrInv', Transfers', Free', SetUps'
  PROVE  SInv'
  BY OthersInv, OthersCall DEF SInv

\* A task that takes the last step before its transfer is alone on its bus.
LEMMA BusIsIdle ==
  ASSUME SInv, NEW t \in Tasks, at[t] = "start"
  PROVE  /\ Inside(t) /\ Got(t) = All(Dev(t)) /\ Bus(t) \in Got(t)
         /\ transfer[Bus(t)] = NoJob /\ event[Bus(t)] = FALSE
         /\ \A u \in Tasks : at[u] = "event" => Bus(u) # Bus(t)
<1>1. Inside(t) /\ Got(t) = All(Dev(t)) /\ Bus(t) \in Got(t)
  BY DEF Inside, Got, All, Bus, Dev
<1>2. t \in Agents /\ Bus(t) \in Buses
  BY <1>1, OwnSession
<1>3. /\ transfer[Bus(t)] = NoJob \/ (at[t] = "event" /\ transfer[Bus(t)] = job[t])
      /\ \A u \in Tasks : at[u] = "event" /\ Bus(u) = Bus(t) => u = t
  BY <1>1, <1>2, BusIsOwn
<1>4. ~event[Bus(t)]
  BY <1>2, <1>3 DEF SInv, Transfers, Events
<1>5. event[Bus(t)] \in BOOLEAN
  BY <1>2 DEF SInv, STypeOK
<1> QED BY <1>1, <1>3, <1>4, <1>5

\* The session goes to an asynchronous transfer, or stays with the task.
LEMMA StartTransferStep ==
  ASSUME SInv, NEW t \in Tasks, StartTransfer(t)
  PROVE  SInv'
<1> DEFINE place == IF job[t].async /\ job[t].depth = 1 THEN "idle"
                    ELSE IF job[t].async THEN "callback" ELSE "event"
<1>0. at[t] = "start"
  BY Computes DEF StartTransfer
<1> PICK d \in Devices, b \in Buses : d = Dev(t) /\ b = Bus(t)
  BY <1>0, BusIsIdle, OwnSession
<1>1. /\ at[t] = "start" /\ at[Isr] = "idle" /\ call[t].pc = "run"
      /\ call' = call /\ mask' = mask /\ held' = held /\ OthersCalls(t)
      /\ selected' = selected \cup {d}
      /\ transfer' = [transfer EXCEPT ![b] = job[t]]
      /\ UNCHANGED <<owner, devCount, busCount, current, config, hw, event>>
  BY Computes DEF StartTransfer, deviceVars
<1>2. /\ Inside(t) /\ Got(t) = All(d)
      /\ transfer[b] = NoJob /\ event[b] = FALSE
      /\ \A u \in Tasks : at[u] = "event" => Bus(u) # b
  BY <1>1, BusIsIdle
<1>3. /\ t \in Agents /\ t # Isr /\ d \in Devices /\ b \in Buses
      /\ job[t].task = t /\ job[t].depth \in 1 .. 2 /\ JobInv(t) /\ Counts(t) /\ SetUp(t)
  BY <1>2, OwnSession
<1>4. /\ at' \in [Agents -> Places] /\ at'[Isr] \in {"idle"} \cup Releasing
      /\ at'[t] = place /\ \A c \in Agents \ {t} : at'[c] = at[c] /\ job'[c] = job[c]
      /\ job' \in [Agents -> Jobs] /\ job'[t] = IF place = "idle" THEN NoJob ELSE job[t]
  <2>1. CASE place = "idle"
    <3>1. Leave(t)
      BY <2>1 DEF StartTransfer
    <3> QED BY <1>3, <2>1, <3>1, NoJobIs DEF Leave, Go, SInv, STypeOK, Places
  <2>2. CASE place # "idle"
    <3>1. Go(t, place) /\ job' = job /\ place \in Places
      BY <2>2 DEF StartTransfer, Places
    <3> QED BY <1>3, <2>2, <3>1 DEF Go, SInv, STypeOK
  <2> QED BY <2>1, <2>2
<1>5. job[t] \in Jobs /\ (job[t].async \/ ~job[t].async) /\ job[t] # NoJob /\ job[t].dev = d /\ BusOf[d] = b
  BY <1>3, NoJobIs, Kinds DEF SInv, STypeOK, Dev, Bus
<1>6. transfer'[b] = job[t] /\ \A c \in Buses \ {b} : transfer'[c] = transfer[c]
  BY <1>1, <1>3 DEF SInv, STypeOK
<1>7. STypeOK'
  <2>1. transfer' \in [Buses -> Jobs]
    BY <1>1, <1>5 DEF SInv, STypeOK
  <2> QED BY <1>1, <1>3, <1>4, <2>1 DEF SInv, STypeOK
<1>8. OthersRest(t)
  BY <1>1, <1>4 DEF OthersRest, OthersCalls
<1>9. \A c \in Agents \ {t} : /\ Got(c)' = Got(c) /\ (Inside(c)' <=> Inside(c))
                              /\ Dev(c)' = Dev(c) /\ Bus(c)' = Bus(c)
                              /\ at'[c] = at[c] /\ job'[c] = job[c]
  BY <1>3, <1>8, OthersGot, OthersInside
<1>10. /\ owner[d] = t /\ devCount[d] = job[t].depth /\ busCount[d] = job[t].depth
       /\ current[b] = d
  BY <1>1, <1>3 DEF Counts, Counted, SetUp
<1>11. Inside(t)' <=> ~job[t].async
  BY <1>4, <1>5 DEF Inside
<1>12. AgentInv(t)'
  <2>1. CASE job[t].async
    <3>1. JobInv(t)'
      BY <1>3, <1>4, <2>1 DEF JobInv, Dev
    <3> QED BY <1>11, <2>1, <3>1 DEF AgentInv
  <2>2. CASE ~job[t].async
    <3>1. at'[t] = "event" /\ job'[t] = job[t] /\ Dev(t)' = d
      BY <1>4, <2>2 DEF Dev
    <3>2. JobInv(t)'
      BY <1>3, <2>2, <3>1 DEF JobInv
    <3>3. Counts(t)'
      BY <1>1, <1>3, <1>10, <3>1 DEF Counts, Counted
    <3>4. SetUp(t)'
      BY <3>1 DEF SetUp
    <3> QED BY <3>2, <3>3, <3>4 DEF AgentInv
  <2> QED BY <2>1, <2>2
<1>13. /\ Got(t)' = IF job[t].async THEN {} ELSE All(d)
       /\ OnAir(b) = {} /\ OnAir(b)' = IF job[t].async THEN All(d) ELSE {}
       /\ \A c \in Buses \ {b} : OnAir(c)' = OnAir(c)
  <2>1. ~job[t].async => at'[t] = "event" /\ Dev(t)' = d
    BY <1>4, <1>5 DEF Dev
  <2>2. Got(t)' = IF job[t].async THEN {} ELSE All(d)
    BY <1>11, <2>1 DEF Got
  <2> QED BY <1>2, <1>5, <1>6, <2>2, NoJobIs DEF OnAir
<1>14. Apart'
  <2>1. \A a, c \in Agents : a # c => Got(a) \cap Got(c) = {}
    BY DEF SInv, Apart
  <2>2. /\ \A a \in Agents, c \in Buses : Got(a) \cap OnAir(c) = {}
        /\ \A a, c \in Buses : a # c => OnAir(a) \cap OnAir(c) = {}
    BY DEF SInv, Apart
  <2>3. CASE job[t].async
    <3>1. \A a, c \in Agents : a # c => Got(a)' \cap Got(c)' = {}
      BY <1>9, <1>13, <2>1, <2>3
    <3>2. \A a \in Agents, c \in Buses : Got(a)' \cap OnAir(c)' = {}
      BY <1>2, <1>3, <1>9, <1>13, <2>1, <2>2, <2>3
    <3>3. \A a, c \in Buses : a # c => OnAir(a)' \cap OnAir(c)' = {}
      BY <1>2, <1>3, <1>13, <2>2, <2>3
    <3> QED BY <3>1, <3>2, <3>3 DEF Apart
  <2>4. CASE ~job[t].async
    <3>1. (\A a \in Agents : Got(a)' = Got(a)) /\ (\A c \in Buses : OnAir(c)' = OnAir(c))
      BY <1>2, <1>9, <1>13, <2>4
    <3> QED BY <2>1, <2>2, <3>1 DEF Apart
  <2> QED BY <2>3, <2>4
<1>15. Told'
  <2> SUFFICES ASSUME NEW u \in Tasks, NEW x \in Resources
               PROVE  x \in held[u] <=> \/ \E c \in Agents : job'[c].task = u /\ x \in Got(c)'
                                        \/ \E c \in Buses : transfer'[c].task = u /\ x \in OnAir(c)'
    BY <1>1 DEF Told
  <2>1. x \in held[u] <=> \/ \E c \in Agents : job[c].task = u /\ x \in Got(c)
                          \/ \E c \in Buses : transfer[c].task = u /\ x \in OnAir(c)
    BY DEF SInv, Told
  <2>2. CASE job[t].async
    <3>1. (\E c \in Agents : job'[c].task = u /\ x \in Got(c)')
            <=> (\E c \in Agents \ {t} : job[c].task = u /\ x \in Got(c))
      BY <1>9, <1>13, <2>2
    <3>2. (\E c \in Buses : transfer'[c].task = u /\ x \in OnAir(c)')
            <=> \/ job[t].task = u /\ x \in All(d)
                \/ \E c \in Buses : transfer[c].task = u /\ x \in OnAir(c)
      BY <1>3, <1>6, <1>13, <2>2
    <3> QED BY <1>2, <1>3, <2>1, <3>1, <3>2
  <2>3. CASE ~job[t].async
    <3>1. (\A c \in Agents : Got(c)' = Got(c) /\ job'[c] = job[c])
      BY <1>2, <1>4, <1>9, <1>13, <2>3
    <3>2. \A c \in Buses : x \in OnAir(c)' => x \in OnAir(c) /\ c # b
      BY <1>13, <2>3
    <3>3. \A c \in Buses : x \in OnAir(c) => x \in OnAir(c)' /\ c # b
      BY <1>13, <2>3
    <3> QED BY <1>6, <2>1, <3>1, <3>2, <3>3
  <2> QED BY <2>2, <2>3
<1>16. Transfers'
  <2>1. ASSUME NEW c \in Buses
        PROVE  TransferInv(c)'
    <3>1. CASE c = b
      BY <1>1, <1>3, <1>4, <1>5, <1>6, <1>10, <3>1 DEF TransferInv
    <3>2. CASE c # b /\ transfer[c] # NoJob
      <4>1. TransferInv(c) /\ transfer'[c] = transfer[c]
        BY <1>6, <3>2 DEF SInv, Transfers
      <4>2. \A u \in Tasks : at[u] \in {"event", "callback"} => at'[u] = at[u] /\ job'[u] = job[u]
        BY <1>1, <1>4, Kinds
      <4> QED BY <1>1, <3>2, <4>1, <4>2 DEF TransferInv
    <3> QED BY <1>6, <3>1, <3>2 DEF TransferInv
  <2>2. ASSUME NEW u \in Tasks
        PROVE  WaitInv(u)'
    <3>1. CASE u = t
      BY <1>1, <1>2, <1>4, <1>6, <3>1 DEF WaitInv, Bus
    <3>2. CASE u # t
      <4>1. /\ at'[u] = at[u] /\ job'[u] = job[u] /\ Bus(u)' = Bus(u) /\ WaitInv(u)
            /\ AgentInv(u)
        BY <1>9, <3>2, Kinds DEF SInv, Transfers
      <4>2. at[u] \in {"event", "callback"} => Bus(u) \in Buses
        BY <4>1, Kinds DEF AgentInv, JobInv, Bus, Dev
      <4>3. at[u] = "event" => Bus(u) # b
        BY <1>2
      <4>4. at[u] = "callback" => transfer[Bus(u)] = job[u] /\ job[u].async
        BY <1>1, <4>1 DEF WaitInv, AgentInv, JobInv
      <4>5. at[u] = "callback" => Bus(u) # b
        BY <1>2, <4>4, NoJobIs
      <4> QED BY <1>1, <1>6, <4>1, <4>2, <4>3, <4>4, <4>5 DEF WaitInv
    <3> QED BY <3>1, <3>2
  <2>3. Events'
    BY <1>1, <1>9, Kinds DEF SInv, Transfers, Events
  <2>4. Selects'
    <3> SUFFICES ASSUME NEW e \in selected', e # d
                 PROVE  transfer'[BusOf[e]].dev = e \/ \E u \in Tasks : at'[u] = "event" /\ Dev(u)' = e
      BY <1>5, <1>6 DEF Selects
    <3>1. e \in selected /\ e \in Devices
      BY <1>1 DEF SInv, STypeOK
    <3>2. transfer[BusOf[e]].dev = e \/ \E u \in Tasks : at[u] = "event" /\ Dev(u) = e
      BY <3>1 DEF SInv, Transfers, Selects
    <3>3. CASE transfer[BusOf[e]].dev = e
      BY <1>2, <1>6, <3>1, <3>3, NoJobIs, Kinds
    <3>4. CASE \E u \in Tasks : at[u] = "event" /\ Dev(u) = e
      BY <1>1, <1>9, <3>4, Kinds
    <3> QED BY <3>2, <3>3, <3>4
  <2> QED BY <2>1, <2>2, <2>3, <2>4 DEF Transfers
<1>17. Free'
  <2> SUFFICES ASSUME NEW e \in Devices, Unused(e)'
               PROVE  Zero(e)'
    BY DEF Free
  <2>1. e # d
    <3>1. CASE job[t].async
      BY <1>3, <1>5, <1>6, <3>1 DEF Unused
    <3>2. CASE ~job[t].async
      BY <1>3, <1>4, <1>11, <3>2 DEF Unused, Dev
    <3> QED BY <3>1, <3>2
  <2>2. \A a \in Agents : Inside(a) => Dev(a) # e
    BY <1>9, <2>1 DEF Unused
  <2>3. \A c \in Buses : transfer[c].async => transfer[c].dev # e
    BY <1>2, <1>6, NoJobIs DEF Unused
  <2>4. Zero(e)
    BY <2>2, <2>3 DEF Unused, SInv, Free
  <2> QED BY <1>1, <2>4 DEF Zero
<1>18. CallInv(t)'
  BY <1>1, <1>4 DEF SInv, CallInv
<1>19. IsrInv'
  BY <1>1, <1>3, <1>4, Kinds DEF IsrInv
<1>20. SetUps'
  BY <1>1 DEF SInv, SetUps
<1> QED BY <1>3, <1>7, <1>8, <1>12, <1>14, <1>15, <1>16, <1>17, <1>18, <1>19, <1>20, OtherStep

\* The one task that waits for a synchronous transfer is told of its end,
LEMMA SyncEndStep ==
  ASSUME SInv, NEW b \in Buses, SyncEnd(b)
  PROVE  SInv'
<1>1. /\ at[Isr] = "idle" /\ transfer[b] # NoJob /\ ~transfer[b].async
      /\ transfer' = [transfer EXCEPT ![b] = NoJob] /\ event' = [event EXCEPT ![b] = TRUE]
      /\ UNCHANGED <<call, mask, held, at, job, owner, devCount, busCount, current, config, hw, selected>>
  BY DEF SyncEnd, rmVars, deviceVars
<1> PICK t \in Tasks : t = transfer[b].task
  BY <1>1 DEF SInv, Transfers, TransferInv
<1>2. at[t] = "event" /\ job[t] = transfer[b] /\ Bus(t) = b /\ t \in Agents
  BY <1>1, Kinds DEF SInv, Transfers, TransferInv, Bus
<1>3. \A u \in Tasks : at[u] = "event" /\ Bus(u) = b => u = t
  <2>1. Inside(t) /\ Bus(t) \in Got(t)
    BY <1>2 DEF Inside, Got, All, Bus, Dev
  <2> QED BY <1>2, <2>1, BusIsOwn
<1>4. transfer'[b] = NoJob /\ event'[b] = TRUE
      /\ \A c \in Buses \ {b} : transfer'[c] = transfer[c] /\ event'[c] = event[c]
  BY <1>1 DEF SInv, STypeOK
<1>5. STypeOK'
  BY <1>1, NoJobIs DEF SInv, STypeOK
<1>6. \A a \in Agents : /\ Inside(a)' <=> Inside(a)
                        /\ Got(a)' = Got(a)
  BY <1>1 DEF Inside, Got, Dev, Bus
<1>7. OnAir(b) = {} /\ \A c \in Buses : OnAir(c)' = OnAir(c)
  BY <1>1, <1>4, NoJobIs DEF OnAir
<1>8. Apart' /\ Told'
  <2>1. Apart'
    BY <1>6, <1>7 DEF SInv, Apart
  <2>2. Told'
    BY <1>1, <1>4, <1>6, <1>7 DEF SInv, Told
  <2> QED BY <2>1, <2>2
<1>9. \A a \in Agents : AgentInv(a)'
  BY <1>1, <1>6 DEF SInv, AgentInv, JobInv, Counts, Counted, SetUp, Dev, Bus, Dma
<1>10. IsrInv'
  BY <1>1 DEF IsrInv
<1>11. Transfers'
  <2>1. \A c \in Buses : TransferInv(c)'
    BY <1>1, <1>4 DEF SInv, Transfers, TransferInv
  <2>2. ASSUME NEW u \in Tasks
        PROVE  WaitInv(u)'
    <3>1. WaitInv(u) /\ Bus(u)' = Bus(u) /\ AgentInv(u)
      BY <1>1, Kinds DEF SInv, Transfers, Bus
    <3>2. at[u] \in {"event", "callback"} => Bus(u) \in Buses
      BY <3>1, Kinds DEF AgentInv, JobInv, Bus, Dev
    <3>3. CASE at[u] = "event"
      <4>1. CASE Bus(u) = b
        BY <1>1, <1>4, <3>1, <3>3, <4>1 DEF WaitInv
      <4>2. CASE Bus(u) # b
        BY <1>1, <1>4, <3>1, <3>2, <3>3, <4>2 DEF WaitInv
      <4> QED BY <4>1, <4>2
    <3>4. CASE at[u] = "callback"
      <4>1. transfer[Bus(u)] = job[u] /\ job[u].async
        BY <1>1, <3>1, <3>4 DEF WaitInv, AgentInv, JobInv
      <4>2. Bus(u) # b
        BY <1>1, <4>1
      <4> QED BY <1>1, <1>4, <3>1, <3>2, <3>4, <4>1, <4>2 DEF WaitInv
    <3> QED BY <1>1, <3>3, <3>4 DEF WaitInv
  <2>3. Events'
    BY <1>1, <1>2, <1>4 DEF SInv, Transfers, Events, Bus
  <2>4. Selects'
    <3> SUFFICES ASSUME NEW e \in selected
                 PROVE  transfer'[BusOf[e]].dev = e \/ \E u \in Tasks : at[u] = "event" /\ Dev(u) = e
      BY <1>1 DEF Selects, Dev
    <3>1. transfer[BusOf[e]].dev = e \/ \E u \in Tasks : at[u] = "event" /\ Dev(u) = e
      BY DEF SInv, Transfers, Selects
    <3>2. BusOf[e] \in Buses
      BY Kinds DEF SInv, STypeOK
    <3> QED BY <1>2, <1>4, <3>1, <3>2 DEF Dev
  <2> QED BY <2>1, <2>2, <2>3, <2>4 DEF Transfers
<1>12. \A u \in Tasks : CallInv(u)'
  BY <1>1 DEF SInv, CallInv, Asked, Dev, Bus, Dma
<1>13. Free'
  <2>1. \A d \in Devices : Unused(d)' => Unused(d)
    BY <1>1, <1>4, <1>6 DEF Unused, Dev
  <2> QED BY <1>1, <2>1 DEF SInv, Free, Zero
<1>14. SetUps'
  BY <1>1 DEF SInv, SetUps
<1> QED BY <1>5, <1>8, <1>9, <1>10, <1>11, <1>12, <1>13, <1>14 DEF SInv

\* and goes on to release.
LEMMA TransferDoneStep ==
  ASSUME SInv, NEW t \in Tasks, TransferDone(t)
  PROVE  SInv'
<1>0. at[t] = "event"
  BY Computes DEF TransferDone
<1>a. Inside(t)
  BY <1>0 DEF Inside
<1> PICK d \in Devices, b \in Buses : d = Dev(t) /\ b = Bus(t)
  BY <1>a, OwnSession
<1>1. /\ at[Isr] = "idle" /\ call[t].pc = "run" /\ event[b]
      /\ call' = call /\ mask' = mask /\ held' = held /\ OthersCalls(t)
      /\ event' = [event EXCEPT ![b] = FALSE] /\ selected' = selected \ {d} /\ Go(t, "relBus")
      /\ UNCHANGED <<job, owner, devCount, busCount, current, config, hw, transfer>>
  BY Computes DEF TransferDone, deviceVars
<1>2. /\ t \in Agents /\ t # Isr /\ BusOf[d] = b
      /\ job[t].task = t /\ job[t].depth \in 1 .. 2 /\ JobInv(t) /\ Counts(t)
  BY <1>a, OwnSession DEF Bus, Dev
<1>3. /\ at' \in [Agents -> Places] /\ at'[Isr] \in {"idle"} \cup Releasing
      /\ at'[t] = "relBus" /\ \A c \in Agents \ {t} : at'[c] = at[c]
      /\ Dev(t)' = d /\ Bus(t)' = b
  <2>1. "relBus" \in Places
    BY DEF Places, Releasing
  <2> QED BY <1>1, <1>2, <2>1, Moves DEF SInv
<1>4. /\ transfer[b] = NoJob /\ \A u \in Tasks : at[u] = "event" /\ Bus(u) = b => u = t
  <2>1. Bus(t) \in Got(t)
    BY <1>a, <1>0 DEF Got, All, Bus, Dev
  <2>2. WaitInv(t)
    BY DEF SInv, Transfers
  <2> QED BY <1>a, <1>0, <1>1, <1>2, <2>1, <2>2, BusIsOwn DEF WaitInv
<1>5. event'[b] = FALSE /\ \A c \in Buses \ {b} : event'[c] = event[c]
  BY <1>1 DEF SInv, STypeOK
<1>6. STypeOK'
  BY <1>1, <1>3 DEF SInv, STypeOK
<1>7. OthersRest(t)
  BY <1>1, <1>3 DEF OthersRest, OthersCalls
<1>8. \A c \in Agents \ {t} : /\ (Inside(c)' <=> Inside(c)) /\ at'[c] = at[c] /\ job'[c] = job[c]
                              /\ Dev(c)' = Dev(c) /\ Bus(c)' = Bus(c)
  BY <1>2, <1>7, OthersInside
<1>9. Inside(t)' /\ Got(t)' = Got(t)
  <2>1. Inside(t)'
    BY <1>3 DEF Inside
  <2> QED BY <1>a, <1>0, <1>3, <2>1 DEF Got
<1>10. Session(t, Got(t))
  BY <1>1, <1>2, <1>7, <1>9, OthersGot DEF Session
<1>11. Apart' /\ Told'
  BY <1>1, <1>2, <1>10, KeepsParts
<1>12. AgentInv(t)'
  <2>1. JobInv(t)'
    BY <1>0, <1>1, <1>2, <1>3 DEF JobInv
  <2>2. Counts(t)'
    BY <1>0, <1>1, <1>2, <1>3 DEF Counts, Counted
  <2>3. SetUp(t)'
    BY <1>3 DEF SetUp
  <2> QED BY <2>1, <2>2, <2>3 DEF AgentInv
<1>13. Transfers'
  <2>1. ASSUME NEW c \in Buses, transfer[c] # NoJob
        PROVE  TransferInv(c)'
    <3>1. c # b /\ TransferInv(c)
      BY <1>4, <2>1 DEF SInv, Transfers
    <3>2. \A u \in Tasks \ {t} : at'[u] = at[u]
      BY <1>3, Kinds
    <3>3. ~transfer[c].async => transfer[c].task # t
      BY <2>1, <3>1 DEF TransferInv, Bus
    <3>4. transfer[c].depth = 2 /\ transfer[c].async => transfer[c].task # t
      BY <1>0, <2>1, <3>1 DEF TransferInv
    <3> QED BY <1>1, <1>2, <2>1, <3>1, <3>2, <3>3, <3>4 DEF TransferInv
  <2>2. \A c \in Buses : TransferInv(c)'
    BY <1>1, <2>1 DEF TransferInv
  <2>3. ASSUME NEW u \in Tasks
        PROVE  WaitInv(u)'
    <3>1. CASE u = t
      BY <1>3, <3>1 DEF WaitInv
    <3>2. CASE u # t
      <4>1. /\ at'[u] = at[u] /\ Bus(u)' = Bus(u) /\ WaitInv(u) /\ AgentInv(u)
        BY <1>8, <3>2, Kinds DEF SInv, Transfers
      <4>2. at[u] = "event" => Bus(u) \in Buses \ {b}
        BY <1>4, <3>2, <4>1, Kinds DEF AgentInv, JobInv, Bus, Dev
      <4>3. at[u] = "event" => event'[Bus(u)] = event[Bus(u)]
        BY <1>5, <4>2
      <4> QED BY <1>1, <4>1, <4>3 DEF WaitInv
    <3> QED BY <3>1, <3>2
  <2>4. Events'
    BY <1>3, <1>5, <1>8, Kinds DEF SInv, Transfers, Events
  <2>5. Selects'
    BY <1>1, <1>8, Kinds DEF SInv, Transfers, Selects
  <2> QED BY <2>2, <2>3, <2>4, <2>5 DEF Transfers
<1>14. Free'
  <2>1. \A e \in Devices : Unused(e)' => Unused(e)
    BY <1>1, <1>3, <1>8, <1>9 DEF Unused
  <2> QED BY <1>1, <2>1 DEF SInv, Free, Zero
<1>15. CallInv(t)'
  BY <1>1, <1>3 DEF SInv, CallInv
<1>16. IsrInv'
  BY <1>1, <1>2, <1>3, Kinds DEF IsrInv
<1>17. SetUps'
  BY <1>1 DEF SInv, SetUps
<1> QED BY <1>2, <1>6, <1>7, <1>11, <1>12, <1>13, <1>14, <1>15, <1>16, <1>17, OtherStep

\* The session of an asynchronous transfer goes to the handler.
LEMMA AsyncEndStep ==
  ASSUME SInv, NEW b \in Buses, AsyncEnd(b)
  PROVE  SInv'
<1>1. /\ at[Isr] = "idle" /\ transfer[b] # NoJob /\ transfer[b].async = TRUE
      /\ transfer' = [transfer EXCEPT ![b] = NoJob]
      /\ selected' = selected \ {transfer[b].dev}
      /\ job' = [job EXCEPT ![Isr] = transfer[b]] /\ Go(Isr, "relBus")
      /\ UNCHANGED <<call, mask, held, owner, devCount, busCount, current, config, hw, event>>
  <2>1. transfer[b].async \in BOOLEAN
    BY DEF SInv, STypeOK, Jobs
  <2> QED BY <2>1 DEF AsyncEnd, rmVars, deviceVars
<1> PICK j \in Jobs : j = transfer[b]
  BY DEF SInv, STypeOK
<1> PICK d \in Devices : d = j.dev
  BY <1>1 DEF SInv, Transfers, TransferInv
<1>2. /\ BusOf[d] = b /\ j.task \in Tasks /\ j.depth \in 1 .. 2 /\ j.async = TRUE
      /\ owner[d] = j.task /\ devCount[d] = j.depth /\ busCount[d] = j.depth
      /\ j.depth = 2 => at[j.task] = "callback" /\ job[j.task] = j
  BY <1>1 DEF SInv, Transfers, TransferInv
<1>3. /\ at' \in [Agents -> Places] /\ job' \in [Agents -> Jobs]
      /\ at'[Isr] = "relBus" /\ job'[Isr] = j
      /\ \A c \in Agents \ {Isr} : at'[c] = at[c] /\ job'[c] = job[c]
  BY <1>1, Kinds DEF Go, SInv, STypeOK, Places, Releasing
<1>4. transfer'[b] = NoJob /\ \A c \in Buses \ {b} : transfer'[c] = transfer[c]
  BY <1>1 DEF SInv, STypeOK
<1>5. STypeOK'
  BY <1>1, <1>3, NoJobIs DEF SInv, STypeOK, Releasing
<1>6. ~Inside(Isr) /\ Inside(Isr)' /\ Dev(Isr)' = d /\ Bus(Isr)' = b
  BY <1>1, <1>2, <1>3 DEF Inside, Dev, Bus
<1>7. OthersRest(Isr)
  BY <1>1, <1>3, <1>6 DEF OthersRest
<1>8. \A c \in Agents \ {Isr} : /\ Got(c)' = Got(c) /\ (Inside(c)' <=> Inside(c))
                                /\ at'[c] = at[c] /\ job'[c] = job[c]
                                /\ Dev(c)' = Dev(c) /\ Bus(c)' = Bus(c)
  BY <1>7, Kinds, OthersGot, OthersInside
<1>9. /\ Got(Isr) = {} /\ Got(Isr)' = All(d) /\ OnAir(b) = All(d) /\ OnAir(b)' = {}
      /\ \A c \in Buses \ {b} : OnAir(c)' = OnAir(c)
  <2>1. Got(Isr) = {} /\ Got(Isr)' = All(d)
    BY <1>3, <1>6 DEF Got
  <2>2. OnAir(b) = All(d) /\ OnAir(b)' = {}
    BY <1>1, <1>4, NoJobIs DEF OnAir
  <2> QED BY <1>4, <2>1, <2>2 DEF OnAir
<1>10. Apart'
  <2>1. /\ \A a, c \in Agents : a # c => Got(a) \cap Got(c) = {}
        /\ \A a \in Agents, c \in Buses : Got(a) \cap OnAir(c) = {}
        /\ \A a, c \in Buses : a # c => OnAir(a) \cap OnAir(c) = {}
    BY DEF SInv, Apart
  <2>2. \A a, c \in Agents : a # c => Got(a)' \cap Got(c)' = {}
    BY <1>8, <1>9, <2>1
  <2>3. \A a \in Agents, c \in Buses : Got(a)' \cap OnAir(c)' = {}
    BY <1>8, <1>9, <2>1
  <2>4. \A a, c \in Buses : a # c => OnAir(a)' \cap OnAir(c)' = {}
    BY <1>9, <2>1
  <2> QED BY <2>2, <2>3, <2>4 DEF Apart
<1>11. Told'
  <2> SUFFICES ASSUME NEW u \in Tasks, NEW x \in Resources
               PROVE  x \in held[u] <=> \/ \E c \in Agents : job'[c].task = u /\ x \in Got(c)'
                                        \/ \E c \in Buses : transfer'[c].task = u /\ x \in OnAir(c)'
    BY <1>1 DEF Told
  <2>1. x \in held[u] <=> \/ \E c \in Agents : job[c].task = u /\ x \in Got(c)
                          \/ \E c \in Buses : transfer[c].task = u /\ x \in OnAir(c)
    BY DEF SInv, Told
  <2>2. (\E c \in Agents : job'[c].task = u /\ x \in Got(c)')
          <=> \/ j.task = u /\ x \in All(d)
              \/ \E c \in Agents : job[c].task = u /\ x \in Got(c)
    BY <1>3, <1>8, <1>9, Kinds
  <2>3. (\E c \in Buses : transfer'[c].task = u /\ x \in OnAir(c)')
          <=> (\E c \in Buses \ {b} : transfer[c].task = u /\ x \in OnAir(c))
    BY <1>4, <1>9
  <2> QED BY <1>9, <2>1, <2>2, <2>3
<1>12. AgentInv(Isr)'
  <2>1. JobInv(Isr)'
    BY <1>2, <1>3, <1>6, Kinds DEF JobInv
  <2>2. Counts(Isr)'
    <3>1. j.depth \in 1 .. job'[Isr].depth /\ Counted(Isr, j.depth, j.depth)'
      BY <1>1, <1>2, <1>3, <1>6 DEF Counted
    <3> QED BY <1>1, <1>2, <1>3, <1>6, <3>1 DEF Counts
  <2>3. SetUp(Isr)'
    BY <1>3 DEF SetUp
  <2> QED BY <2>1, <2>2, <2>3 DEF AgentInv
<1>13. IsrInv'
  BY <1>1, <1>2, <1>3, <1>6, Kinds DEF IsrInv
<1>14. Transfers'
  <2>1. ASSUME NEW c \in Buses
        PROVE  TransferInv(c)'
    <3>1. CASE c = b
      BY <1>4, <3>1 DEF TransferInv
    <3>2. CASE c # b /\ transfer[c] # NoJob
      <4>1. TransferInv(c) /\ transfer'[c] = transfer[c] /\ transfer[c].dev # d
        BY <1>2, <1>4, <3>2 DEF SInv, Transfers, TransferInv
      <4> QED BY <1>1, <1>3, <3>2, <4>1, Kinds DEF TransferInv
    <3> QED BY <1>4, <3>1, <3>2 DEF TransferInv
  <2>2. ASSUME NEW u \in Tasks
        PROVE  WaitInv(u)'
    <3>1. /\ at'[u] = at[u] /\ job'[u] = job[u] /\ Bus(u)' = Bus(u) /\ WaitInv(u) /\ AgentInv(u)
      BY <1>8, Kinds DEF SInv, Transfers
    <3>2. at[u] \in {"event", "callback"} => Bus(u) \in Buses
      BY <3>1, Kinds DEF AgentInv, JobInv, Bus, Dev
    <3>3. CASE at[u] = "event"
      <4>1. ~job[u].async
        BY <3>1, <3>3 DEF AgentInv, JobInv
      <4>2. Bus(u) # b
        BY <1>1, <3>1, <3>3, <4>1 DEF WaitInv
      <4> QED BY <1>1, <1>4, <3>1, <3>2, <3>3, <4>2 DEF WaitInv
    <3>4. CASE at[u] = "callback"
      <4>1. transfer[Bus(u)] = job[u]
        BY <1>1, <3>1, <3>4 DEF WaitInv
      <4>2. CASE Bus(u) = b
        BY <1>3, <3>1, <3>4, <4>1, <4>2 DEF WaitInv
      <4>3. CASE Bus(u) # b
        BY <1>4, <3>1, <3>2, <3>4, <4>1, <4>3 DEF WaitInv
      <4> QED BY <4>2, <4>3
    <3> QED BY <3>1, <3>3, <3>4 DEF WaitInv
  <2>3. Events'
    BY <1>1, <1>8, Kinds DEF SInv, Transfers, Events
  <2>4. Selects'
    <3> SUFFICES ASSUME NEW e \in selected'
                 PROVE  transfer'[BusOf[e]].dev = e \/ \E u \in Tasks : at'[u] = "event" /\ Dev(u)' = e
      BY DEF Selects
    <3>1. e \in selected /\ e # d /\ BusOf[e] \in Buses
      BY <1>1, Kinds DEF SInv, STypeOK
    <3>2. transfer[BusOf[e]].dev = e \/ \E u \in Tasks : at[u] = "event" /\ Dev(u) = e
      BY <3>1 DEF SInv, Transfers, Selects
    <3> QED BY <1>4, <1>8, <3>1, <3>2, Kinds
  <2> QED BY <2>1, <2>2, <2>3, <2>4 DEF Transfers
<1>15. Free'
  <2> SUFFICES ASSUME NEW e \in Devices, Unused(e)'
               PROVE  Zero(e)'
    BY DEF Free
  <2>1. e # d
    BY <1>6, Kinds DEF Unused
  <2>2. \A a \in Agents : Inside(a) => Dev(a) # e
    BY <1>6, <1>8 DEF Unused
  <2>3. \A c \in Buses : transfer[c].async => transfer[c].dev # e
    BY <1>4, <2>1 DEF Unused
  <2>4. Zero(e)
    BY <2>2, <2>3 DEF Unused, SInv, Free
  <2> QED BY <1>1, <2>4 DEF Zero
<1>16. SetUps'
  BY <1>1 DEF SInv, SetUps
<1> QED BY <1>5, <1>7, <1>10, <1>11, <1>12, <1>13, <1>14, <1>15, <1>16, Kinds, OtherStep

\* The handler leaves its session to the one task that waits for the callback.
LEMMA HandOverStep ==
  ASSUME SInv, DeviceRelease(Isr), ~LastUse(Dev(Isr))
  PROVE  SInv'
<1>0. at[Isr] = "relDev" /\ Isr \in Agents /\ Inside(Isr) /\ devCount[Dev(Isr)] # 1
  BY Kinds DEF DeviceRelease, AgentAt, Inside, LastUse
<1> PICK j \in Jobs : j = job[Isr]
  BY <1>0 DEF SInv, STypeOK
<1> PICK d \in Devices, b \in Buses : d = j.dev /\ b = BusOf[d]
  BY <1>0, AnySession DEF Dev, Bus
<1> PICK t \in Tasks : t = j.task
  BY <1>0, AnySession
<1>1. /\ t \in Agents /\ t # Isr /\ j.depth = 2 /\ devCount[d] = 2 /\ busCount[d] = 1 /\ owner[d] = t
      /\ at[t] = "callback" /\ job[t] = j /\ Dev(t) = d /\ Dev(Isr) = d
  <2>1. Counts(Isr) /\ j.depth \in 1 .. 2
    BY <1>0, AnySession
  <2>2. devCount[d] = j.depth
    BY <1>0 DEF SInv, IsrInv, Dev
  <2>3. j.depth = 2
    BY <1>0, <2>1, <2>2 DEF Dev
  <2>4. PICK n \in 1 .. 2 : Counted(Isr, n, n - 1)
    BY <1>0, <2>1, <2>3 DEF Counts
  <2> QED BY <1>0, <2>1, <2>2, <2>3, <2>4, Kinds DEF SInv, IsrInv, Counts, Counted, Dev
<1>2. \A u \in Tasks \ {t} : at[u] = "callback" => Dev(u) # d /\ transfer[Bus(u)] = job[u]
  <2> SUFFICES ASSUME NEW u \in Tasks \ {t}, at[u] = "callback"
               PROVE  Dev(u) # d /\ transfer[Bus(u)] = job[u]
    OBVIOUS
  <2>1. JobInv(u) /\ WaitInv(u)
    BY Kinds DEF SInv, AgentInv, Transfers
  <2>2. job[u].task = u /\ job[u].async /\ Dev(u) \in Devices /\ Bus(u) \in Buses
    BY <2>1, Kinds DEF JobInv, Bus, Dev
  <2>3. transfer[Bus(u)] = job[u]
    BY <2>1, <2>2 DEF WaitInv
  <2>4. Dev(u) \in OnAir(Bus(u)) /\ d \in Got(Isr)
    BY <1>0, <1>1, <2>2, <2>3, GotIs DEF OnAir, All, Dev, SInv, AgentInv
  <2> QED BY <1>0, <2>2, <2>3, <2>4 DEF SInv, Apart
<1>3. /\ devCount' = [devCount EXCEPT ![d] = @ - 1] /\ owner' = owner /\ GoOn(Isr)
      /\ UNCHANGED <<call, mask, held, busCount, current, config, hw, selected, transfer, event>>
  BY <1>1 DEF DeviceRelease, rmVars, LastUse, busVars
<1>4. {u \in Tasks : at[u] = "callback" /\ Dev(u) = Dev(Isr)} = {t}
  BY <1>1, <1>2
<1>5. /\ at' = [x \in Agents |-> IF x = Isr THEN "idle" ELSE IF x = t THEN "relBus" ELSE at[x]]
      /\ job' = [job EXCEPT ![Isr] = NoJob]
  BY <1>3, <1>4 DEF GoOn
<1>6. /\ at' \in [Agents -> Places] /\ job' \in [Agents -> Jobs]
      /\ at'[Isr] = "idle" /\ job'[Isr] = NoJob /\ at'[t] = "relBus" /\ job'[t] = j
      /\ \A c \in Agents \ {t, Isr} : at'[c] = at[c] /\ job'[c] = job[c]
  BY <1>0, <1>1, <1>5, NoJobIs DEF SInv, STypeOK, Places, Releasing
<1>7. devCount'[d] = 1 /\ \A e \in Devices \ {d} : devCount'[e] = devCount[e]
  BY <1>1, <1>3 DEF SInv, STypeOK
<1>8. STypeOK'
  BY <1>1, <1>3, <1>6 DEF SInv, STypeOK
<1>9. /\ ~Inside(Isr)' /\ Inside(t)' /\ ~Inside(t) /\ Dev(t)' = d /\ Bus(t)' = b
  BY <1>1, <1>6 DEF Inside, Dev, Bus
<1>10. \A c \in Agents \ {t, Isr} : Dev(c)' = Dev(c) /\ Bus(c)' = Bus(c) /\ Dma(c)' = Dma(c)
                                    /\ (Inside(c)' <=> Inside(c)) /\ (Inside(c) => Dev(c) # d)
  <2>1. \A c \in Agents \ {t, Isr} : Inside(c) => Dev(c) # d
    BY <1>0, <1>1, OneSession DEF SInv
  <2> QED BY <1>3, <1>6, <2>1 DEF Inside, Dev, Bus, Dma
<1>11. /\ Got(Isr) = All(d) /\ Got(Isr)' = {} /\ Got(t) = {} /\ Got(t)' = All(d)
       /\ \A c \in Agents \ {t, Isr} : Got(c)' = Got(c)
       /\ \A c \in Buses : OnAir(c)' = OnAir(c)
  <2>1. Got(Isr) = All(d) /\ Got(Isr)' = {} /\ Got(t) = {} /\ Got(t)' = All(d)
    BY <1>0, <1>1, <1>6, <1>9 DEF Got
  <2>2. \A c \in Agents \ {t, Isr} : Got(c)' = Got(c)
    BY <1>3, <1>6, <1>10 DEF Got
  <2> QED BY <1>3, <2>1, <2>2 DEF OnAir
<1>12. Apart'
  <2>1. /\ \A a, c \in Agents : a # c => Got(a) \cap Got(c) = {}
        /\ \A a \in Agents, c \in Buses : Got(a) \cap OnAir(c) = {}
        /\ \A a, c \in Buses : a # c => OnAir(a) \cap OnAir(c) = {}
    BY DEF SInv, Apart
  <2>2. \A a, c \in Agents : a # c => Got(a)' \cap Got(c)' = {}
    BY <1>0, <1>1, <1>11, <2>1
  <2>3. \A a \in Agents, c \in Buses : Got(a)' \cap OnAir(c)' = {}
    BY <1>0, <1>1, <1>11, <2>1
  <2> QED BY <1>11, <2>1, <2>2, <2>3 DEF Apart
<1>13. Told'
  <2> SUFFICES ASSUME NEW u \in Tasks, NEW x \in Resources
               PROVE  x \in held[u] <=> \/ \E c \in Agents : job'[c].task = u /\ x \in Got(c)'
                                        \/ \E c \in Buses : transfer'[c].task = u /\ x \in OnAir(c)'
    BY <1>3 DEF Told
  <2>1. x \in held[u] <=> \/ \E c \in Agents : job[c].task = u /\ x \in Got(c)
                          \/ \E c \in Buses : transfer[c].task = u /\ x \in OnAir(c)
    BY DEF SInv, Told
  <2>2. (\E c \in Agents : job'[c].task = u /\ x \in Got(c)')
          <=> \/ t = u /\ x \in All(d)
              \/ \E c \in Agents \ {t, Isr} : job[c].task = u /\ x \in Got(c)
    BY <1>1, <1>6, <1>11
  <2>3. (\E c \in Agents : job[c].task = u /\ x \in Got(c))
          <=> \/ t = u /\ x \in All(d)
              \/ \E c \in Agents \ {t, Isr} : job[c].task = u /\ x \in Got(c)
    BY <1>0, <1>1, <1>11
  <2> QED BY <1>3, <1>11, <2>1, <2>2, <2>3
<1>14. \A a \in Agents : AgentInv(a)'
  <2>1. AgentInv(Isr)'
    BY <1>6, <1>9 DEF AgentInv, JobInv
  <2>2. AgentInv(t)'
    <3>1. JobInv(t) /\ JobInv(t)'
      <4>1. JobInv(t)
        BY <1>1 DEF SInv, AgentInv
      <4> QED BY <1>1, <1>6, <1>9, <4>1 DEF JobInv
    <3>2. Counts(t)'
      <4>1. 1 \in 1 .. job'[t].depth /\ Counted(t, 1, 1)'
        BY <1>1, <1>3, <1>6, <1>7, <1>9 DEF Counted
      <4> QED BY <1>1, <1>3, <1>6, <1>9, <4>1 DEF Counts
    <3>3. SetUp(t)'
      BY <1>6 DEF SetUp
    <3> QED BY <3>1, <3>2, <3>3 DEF AgentInv
  <2>3. ASSUME NEW c \in Agents \ {t, Isr}
        PROVE  AgentInv(c)'
    <3>1. AgentInv(c) /\ at'[c] = at[c] /\ job'[c] = job[c] /\ Dev(c)' = Dev(c) /\ Bus(c)' = Bus(c)
          /\ Dma(c)' = Dma(c) /\ (Inside(c)' <=> Inside(c))
      BY <1>6, <1>10 DEF SInv
    <3>2. Inside(c) => devCount'[Dev(c)] = devCount[Dev(c)]
      BY <1>7, <1>10, GotIs DEF SInv, AgentInv
    <3> QED BY <1>3, <3>1, <3>2 DEF AgentInv, JobInv, Counts, Counted, SetUp
  <2> QED BY <2>1, <2>2, <2>3
<1>15. IsrInv'
  BY <1>6 DEF IsrInv
<1>16. Transfers'
  <2>1. ASSUME NEW c \in Buses, transfer[c] # NoJob
        PROVE  TransferInv(c)'
    <3>1. TransferInv(c) /\ transfer'[c] = transfer[c]
      BY <1>3 DEF SInv, Transfers
    <3>2. transfer[c].async => transfer[c].dev # d
      <4>1. transfer[c].async => transfer[c].dev \in OnAir(c)
        BY DEF OnAir, All
      <4>2. d \in Got(Isr)
        BY <1>11 DEF All
      <4> QED BY <1>0, <4>1, <4>2 DEF SInv, Apart
    <3>3. \A u \in Tasks \ {t} : at'[u] = at[u] /\ job'[u] = job[u]
      BY <1>6, Kinds
    <3>4. ~transfer[c].async => transfer[c].task # t
      BY <1>1, <2>1, <3>1 DEF TransferInv
    <3>5. transfer[c].async /\ transfer[c].depth = 2 => transfer[c].task # t
      BY <1>1, <2>1, <3>1, <3>2 DEF TransferInv, Dev
    <3>6. transfer[c].async => devCount'[transfer[c].dev] = devCount[transfer[c].dev]
      BY <1>7, <2>1, <3>1, <3>2 DEF TransferInv
    <3> QED BY <1>3, <2>1, <3>1, <3>3, <3>4, <3>5, <3>6 DEF TransferInv
  <2>2. \A c \in Buses : TransferInv(c)'
    BY <1>3, <2>1 DEF TransferInv
  <2>3. ASSUME NEW u \in Tasks
        PROVE  WaitInv(u)'
    <3>1. CASE u = t
      BY <1>6, <3>1 DEF WaitInv
    <3>2. CASE u # t
      <4>1. /\ at'[u] = at[u] /\ job'[u] = job[u] /\ Bus(u)' = Bus(u) /\ WaitInv(u)
        BY <1>6, <1>10, <3>2, Kinds DEF SInv, Transfers
      <4> QED BY <1>2, <1>3, <3>2, <4>1 DEF WaitInv
    <3> QED BY <3>1, <3>2
  <2>4. \A u \in Tasks : at[u] = "event" => at'[u] = "event" /\ Dev(u)' = Dev(u) /\ Bus(u)' = Bus(u)
    BY <1>1, <1>6, <1>10, Kinds
  <2>5. Events' /\ Selects'
    BY <1>3, <2>4 DEF SInv, Transfers, Events, Selects
  <2> QED BY <2>2, <2>3, <2>5 DEF Transfers
<1>17. \A u \in Tasks : CallInv(u)'
  <2> SUFFICES ASSUME NEW u \in Tasks
               PROVE  CallInv(u)'
    OBVIOUS
  <2>1. CallInv(u) /\ call' = call /\ mask' = mask
    BY <1>3 DEF SInv
  <2>2. CASE u = t
    BY <1>1, <1>6, <2>1, <2>2 DEF CallInv
  <2>3. CASE u # t
    <3>1. at'[u] = at[u] /\ Dev(u)' = Dev(u) /\ Bus(u)' = Bus(u) /\ Dma(u)' = Dma(u)
      BY <1>6, <1>10, <2>3, Kinds
    <3> QED BY <2>1, <3>1 DEF CallInv, Asked
  <2> QED BY <2>2, <2>3
<1>18. Free'
  <2> SUFFICES ASSUME NEW e \in Devices, Unused(e)'
               PROVE  Zero(e)'
    BY DEF Free
  <2>1. e # d
    BY <1>1, <1>9 DEF Unused
  <2>2. \A a \in Agents : Inside(a) => Dev(a) # e
    BY <1>1, <1>9, <1>10, <2>1 DEF Unused
  <2>3. \A c \in Buses : transfer[c].async => transfer[c].dev # e
    BY <1>3 DEF Unused
  <2>4. Zero(e)
    BY <2>2, <2>3 DEF Unused, SInv, Free
  <2> QED BY <1>3, <1>7, <2>1, <2>4 DEF Zero
<1>19. SetUps'
  BY <1>3 DEF SInv, SetUps
<1> QED BY <1>8, <1>12, <1>13, <1>14, <1>15, <1>16, <1>17, <1>18, <1>19 DEF SInv

-----------------------------------------------------------------------------
(***************************************************************************)
(* The adapter as a caller of the manager.                                 *)
(***************************************************************************)
\* An acquisition is one that the manager expects.
LEMMA CallsAcquire ==
  ASSUME SInv, NEW t \in Tasks, at[t] # "idle", NEW m, NEW place, NEW waitPlace, NEW next,
         \/ AcquireStep(t, m, place, waitPlace, next) /\ m \in (SUBSET Resources) \ {{}}
         \/ GrantStep(t, waitPlace, next)
  PROVE  RmNext
<1>1. CASE AcquireStep(t, m, place, waitPlace, next) /\ m \in (SUBSET Resources) \ {{}}
  BY <1>1 DEF AcquireStep, RmNext
<1>2. CASE GrantStep(t, waitPlace, next)
  BY <1>2 DEF GrantStep, RmNext
<1> QED BY <1>1, <1>2

\* A release gives back what a task has.
LEMMA CallsRelease ==
  ASSUME SInv, NEW a \in Agents, Inside(a), NEW m, m \subseteq Got(a), Release(m)
  PROVE  RmNext
<1>1. job[a].task \in Tasks /\ m \subseteq held[job[a].task] /\ m \in SUBSET Resources /\ m # {}
  BY SessionsAreHeld DEF Release
<1> QED BY <1>1 DEF RmNext

\* So every step of the adapter is one of the manager.
LEMMA CallsManager ==
  ASSUME SInv, [Next]_vars
  PROVE  [RmNext]_rmVars
<1>1. ASSUME NEW t \in Tasks, SpiTask(t)
      PROVE  [RmNext]_rmVars
  <2>1. CASE DeviceAgain(t) \/ DeviceOwn(t) \/ BusCount(t) \/ BusConfig(t) \/ Held(t)
             \/ StartTransfer(t) \/ TransferDone(t)
    BY <2>1 DEF DeviceAgain, DeviceOwn, BusCount, BusConfig, Held, StartTransfer, TransferDone, Compute
  <2>2. CASE DeviceAcquire(t)
    <3>1. at[t] # "idle" /\ {Dev(t)} # {}
      BY <2>2 DEF DeviceAcquire, GrantStep, TaskAt
    <3>2. {Dev(t)} \in SUBSET Resources
      BY <3>1, AsksForSome
    <3> QED BY <2>2, <3>1, <3>2, CallsAcquire DEF DeviceAcquire
  <2>3. CASE BusAcquire(t)
    <3>1. at[t] # "idle" /\ {Bus(t)} # {}
      BY <2>3 DEF BusAcquire, AcquireStep, GrantStep, TaskAt
    <3>2. {Bus(t)} \in SUBSET Resources
      BY <3>1, AsksForSome
    <3> QED BY <2>3, <3>1, <3>2, CallsAcquire DEF BusAcquire
  <2>4. CASE DmaAcquire(t)
    <3>1. at[t] \in {"dma", "dmaWait"}
      BY <2>4 DEF DmaAcquire, AcquireStep, GrantStep, TaskAt
    <3>2. Dma(t) \in SUBSET Resources /\ Dma(t) # {}
      BY <3>1, AsksForSome
    <3> QED BY <2>4, <3>1, <3>2, CallsAcquire DEF DmaAcquire
  <2> QED BY <1>1, <2>1, <2>2, <2>3, <2>4 DEF SpiTask
<1>2. ASSUME NEW a \in Agents, SpiRelease(a)
      PROVE  [RmNext]_rmVars
  <2>1. CASE BusRelease(a) \/ DeviceRelease(a)
    BY <2>1 DEF BusRelease, DeviceRelease
  <2>2. CASE DmaRelease(a)
    <3>1. Inside(a) /\ Dma(a) \subseteq Got(a)
      BY <2>2 DEF DmaRelease, AgentAt, Inside, Got, All, Dma, Dev
    <3> QED BY <2>2, <3>1, CallsRelease DEF DmaRelease
  <2>3. CASE BusResRelease(a)
    <3>1. Inside(a) /\ {Bus(a)} \subseteq Got(a)
      BY <2>3 DEF BusResRelease, AgentAt, Inside, Got
    <3> QED BY <2>3, <3>1, CallsRelease DEF BusResRelease
  <2>4. CASE DeviceResRelease(a)
    <3>1. Inside(a) /\ {Dev(a)} \subseteq Got(a)
      BY <2>4 DEF DeviceResRelease, AgentAt, Inside, Got
    <3> QED BY <2>4, <3>1, CallsRelease DEF DeviceResRelease
  <2> QED BY <1>2, <2>1, <2>2, <2>3, <2>4 DEF SpiRelease
<1>3. ASSUME NEW t \in Tasks, SpiWake(t)
      PROVE  RmNext
  BY <1>3 DEF SpiWake, RmNext
<1>4. ASSUME NEW t \in Tasks,
             \E d \in Devices, async \in BOOLEAN, depth \in 1 .. 2 : Begin(t, d, async, depth)
      PROVE  UNCHANGED rmVars
  BY <1>4 DEF Begin, Compute
<1>5. ASSUME NEW b \in Buses, SpiHardware(b)
      PROVE  UNCHANGED rmVars
  BY <1>5 DEF SpiHardware, SyncEnd, AsyncEnd
<1>6. Sleep => UNCHANGED rmVars
  BY DEF Sleep
<1>7. UNCHANGED vars => UNCHANGED rmVars
  BY DEF vars
<1> QED BY <1>1, <1>2, <1>3, <1>4, <1>5, <1>6, <1>7 DEF Next

-----------------------------------------------------------------------------
(***************************************************************************)
(* The invariant.                                                          *)
(***************************************************************************)
\* They hold before anybody has called the adapter.
LEMMA SpiInitInv == Init => IInv /\ SInv
<1> SUFFICES ASSUME Init
             PROVE  IInv /\ SInv
  OBVIOUS
<1>1. /\ at = [a \in Agents |-> "idle"] /\ job = [a \in Agents |-> NoJob]
      /\ owner = [d \in Devices |-> Nobody]
      /\ devCount = [d \in Devices |-> 0] /\ busCount = [d \in Devices |-> 0]
      /\ current = [b \in Buses |-> NoDevice] /\ config = current /\ hw = current
      /\ transfer = [b \in Buses |-> NoJob] /\ selected = {}
      /\ event = [b \in Buses |-> FALSE]
  BY DEF Init, SpiInit
<1>2. call = [t \in Tasks |-> Running] /\ held = [t \in Tasks |-> {}]
  BY DEF Init, RmInit
<1>3. STypeOK
  BY <1>1, NoJobIs, Kinds DEF STypeOK, Places, Nobody
<1>4. \A a \in Agents : ~Inside(a) /\ Got(a) = {}
  BY <1>1 DEF Inside, Got
<1>5. \A b \in Buses : OnAir(b) = {} /\ transfer[b] = NoJob
  BY <1>1, NoJobIs DEF OnAir
<1>6. Apart /\ Told
  BY <1>2, <1>4, <1>5 DEF Apart, Told
<1>7. \A a \in Agents : AgentInv(a)
  BY <1>1, <1>4 DEF AgentInv, JobInv
<1>8. IsrInv
  BY <1>1, Kinds DEF IsrInv
<1>9. Transfers
  BY <1>1, Kinds DEF Transfers, TransferInv, WaitInv, Events, Selects
<1>10. \A t \in Tasks : CallInv(t)
  BY <1>1, <1>2, Kinds DEF CallInv, Running
<1>11. Free /\ SetUps
  BY <1>1 DEF Free, Zero, SetUps
<1> QED BY <1>3, <1>6, <1>7, <1>8, <1>9, <1>10, <1>11, InitInv DEF SInv, Init

\* Nothing happens.
LEMMA SpiStutter == ASSUME SInv, UNCHANGED vars PROVE SInv'
<1>1. UNCHANGED <<call, mask, held, at, job, owner, devCount, busCount, current, config, hw, selected,
                  transfer, event>>
  BY DEF vars, rmVars, spiVars, deviceVars, busVars
<1>2. STypeOK' /\ SetUps'
  BY <1>1 DEF SInv, STypeOK, SetUps
<1>3. \A a \in Agents : (Inside(a)' <=> Inside(a)) /\ Got(a)' = Got(a)
  BY <1>1 DEF Inside, Got, Dev, Bus
<1>4. \A b \in Buses : OnAir(b)' = OnAir(b)
  BY <1>1 DEF OnAir
<1>5. Apart'
  BY <1>3, <1>4 DEF SInv, Apart
<1>6. Told'
  BY <1>1, <1>3, <1>4 DEF SInv, Told
<1>7. \A a \in Agents : AgentInv(a)'
  BY <1>1, <1>3 DEF SInv, AgentInv, JobInv, Counts, Counted, SetUp, Dev, Bus, Dma
<1>8. IsrInv'
  BY <1>1 DEF SInv, IsrInv, Dev
<1>9. Transfers'
  BY <1>1 DEF SInv, Transfers, TransferInv, WaitInv, Events, Selects, Bus, Dev
<1>10. \A t \in Tasks : CallInv(t)'
  BY <1>1 DEF SInv, CallInv, Asked, Dev, Bus, Dma
<1>11. Free'
  <2>1. \A d \in Devices : Unused(d)' => Unused(d)
    BY <1>1, <1>3 DEF Unused, Dev
  <2> QED BY <1>1, <2>1 DEF SInv, Free, Zero
<1> QED BY <1>2, <1>5, <1>6, <1>7, <1>8, <1>9, <1>10, <1>11 DEF SInv

\* Every step keeps both invariants,
LEMMA SpiStepInv ==
  ASSUME IInv, SInv, [Next]_vars
  PROVE  IInv' /\ SInv'
<1>1. IInv'
  BY CallsManager, StepInv
<1>2. ASSUME NEW t \in Tasks, SpiTask(t)
      PROVE  SInv'
  BY <1>2, DeviceAgainStep, DeviceAcquireStep, DeviceOwnStep, BusCountStep, BusAcquireStep,
     BusConfigStep, DmaAcquireStep, HeldStep, StartTransferStep, TransferDoneStep DEF SpiTask
<1>3. ASSUME NEW a \in Agents, SpiRelease(a)
      PROVE  SInv'
  <2>1. CASE DeviceRelease(a)
    <3>1. CASE LastUse(Dev(a))
      BY <2>1, <3>1, LastReleaseStep
    <3>2. CASE ~LastUse(Dev(a)) /\ a \in Tasks
      BY <2>1, <3>2, ReleaseAgainStep
    <3>3. CASE ~LastUse(Dev(a)) /\ a = Isr
      BY <2>1, <3>3, HandOverStep
    <3> QED BY <3>1, <3>2, <3>3 DEF Agents
  <2> QED BY <1>3, <2>1, BusReleaseStep, DmaReleaseStep, BusResReleaseStep, DeviceResReleaseStep
       DEF SpiRelease
<1>4. ASSUME NEW t \in Tasks, NEW d \in Devices, NEW async \in BOOLEAN, NEW depth \in 1 .. 2,
             Begin(t, d, async, depth)
      PROVE  SInv'
  BY <1>4, BeginStep
<1>5. ASSUME NEW b \in Buses, SpiHardware(b)
      PROVE  SInv'
  BY <1>5, SyncEndStep, AsyncEndStep DEF SpiHardware
<1>6. \A t \in Tasks : SpiWake(t) => SInv'
  BY SpiWakeStep
<1> QED BY <1>1, <1>2, <1>3, <1>4, <1>5, <1>6, SleepStep, SpiStutter DEF Next

(* so both hold whatever the tasks and interrupts of ad_spi.c do. *)
THEOREM SpiInvariance == Spec => [](IInv /\ SInv)
  BY SpiInitInv, SpiStepInv, PTL DEF Spec

-----------------------------------------------------------------------------
(***************************************************************************)
(* The theorems.                                                           *)
(***************************************************************************)
(* Every resource_acquire and resource_release of ad_spi.c, also those of   *)
(* the interrupt handler, is one the resource manager is made for.          *)
THEOREM ManagerIsUsed == Spec => UsesManager
<1>1. Init => RmInit
  BY DEF Init
<1>2. IInv /\ SInv /\ [Next]_vars => [RmNext]_rmVars
  BY CallsManager
<1> QED BY <1>1, <1>2, SpiInvariance, PTL DEF Spec, UsesManager, RmSpec

(* A transfer of ad_spi.c has its device, bus and channels, the controller   *)
(* set up for the device and no other chip select active on the bus.        *)
THEOREM TransfersOwn == Spec => []TransferOwnsBus
<1>1. SInv => TransferOwnsBus
  <2> SUFFICES ASSUME SInv, NEW b \in Buses, transfer[b] # NoJob
               PROVE  LET d == transfer[b].dev IN
                      /\ owner[d] = transfer[b].task
                      /\ {d, b} \cup DmaOf[d] \subseteq held[owner[d]]
                      /\ current[b] = d /\ hw[b] = d
                      /\ {e \in selected : BusOf[e] = b} = {d}
    BY DEF TransferOwnsBus
  <2> DEFINE d == transfer[b].dev
             t == transfer[b].task
  <2>1. /\ d \in Devices /\ BusOf[d] = b /\ t \in Tasks /\ current[b] = d /\ d \in selected
        /\ ~transfer[b].async => at[t] = "event" /\ job[t] = transfer[b]
        /\ transfer[b].async => owner[d] = t
    BY DEF SInv, Transfers, TransferInv
  <2>2. owner[d] = t /\ All(d) \subseteq held[t]
    <3>1. CASE transfer[b].async
      BY <2>1, <3>1, SessionsAreHeld DEF OnAir
    <3>2. CASE ~transfer[b].async
      <4>1. t \in Agents /\ Inside(t) /\ Got(t) = All(d) /\ Dev(t) = d
        BY <2>1, <3>2, Kinds DEF Inside, Got, Dev
      <4>2. owner[d] = t /\ job[t].task = t
        BY <2>1, <3>2, <4>1, OwnSession DEF Counts
      <4> QED BY <4>1, <4>2, SessionsAreHeld
    <3> QED BY <3>1, <3>2
  <2>3. ASSUME NEW e \in selected, BusOf[e] = b
        PROVE  e = d
    <3>1. CASE transfer[b].dev = e
      BY <3>1
    <3>2. CASE \E u \in Tasks : at[u] = "event" /\ Dev(u) = e
      <4>1. PICK u \in Tasks : at[u] = "event" /\ Dev(u) = e
        BY <3>2
      <4>2. transfer[b] = job[u]
        BY <2>3, <4>1 DEF SInv, Transfers, WaitInv, Bus, Dev
      <4> QED BY <4>1, <4>2 DEF Dev
    <3> QED BY <2>3, <3>1, <3>2 DEF SInv, Transfers, Selects
  <2>4. hw[b] = d
    BY <2>1 DEF SInv, SetUps
  <2>5. {e \in selected : BusOf[e] = b} = {d}
    BY <2>1, <2>3
  <2>6. {d, b} \cup DmaOf[d] \subseteq held[owner[d]]
    BY <2>1, <2>2 DEF All
  <2> QED BY <2>1, <2>2, <2>4, <2>5, <2>6
<1> QED BY <1>1, SpiInvariance, PTL

\* What is acquired is in a session, or will be in that of a task that waits.
LEMMA AcquiredIsUsed ==
  ASSUME IInv, SInv, NEW x \in acquired
  PROVE  \/ \E a \in Agents : Inside(a) /\ x \in Got(a)
         \/ \E b \in Buses : transfer[b].async /\ x \in OnAir(b)
         \/ \E t \in Tasks : /\ at[t] \in {"devWait", "busWait", "dmaWait"} /\ x \in Asked(t)
                             /\ granted[call[t].req] = TRUE /\ call[t].pc # "run"
<1>1. x \in Resources
  BY DEF IInv, RmTypeOK
<1>2. CASE \E t \in Tasks : x \in held[t]
  <2>1. \/ \E a \in Agents : x \in Got(a)
        \/ \E b \in Buses : x \in OnAir(b)
    BY <1>1, <1>2 DEF SInv, Told
  <2> QED BY <2>1 DEF Got, OnAir
<1>3. CASE \E r \in Requests : granted[r] = TRUE /\ x \in mask[r]
  <2>1. PICK r \in Requests : granted[r] = TRUE /\ x \in mask[r]
    BY <1>3
  <2>2. r \in Listed
    BY <2>1 DEF IInv, Flags, Lists
  <2>3. PICK t \in Tasks : call[t].pc # "run" /\ call[t].req = r
    BY <2>2 DEF IInv, Callers
  <2>4. at[t] \in {"devWait", "busWait", "dmaWait"} /\ mask[r] = Asked(t)
    BY <2>3 DEF SInv, CallInv
  <2> QED BY <2>1, <2>3, <2>4
<1> QED BY <1>2, <1>3 DEF IInv, Shares

(* When no task and no transfer uses a device of ad_spi.c its counts are zero *)
(* and it is free, and when none is used so are the buses and channels.     *)
THEOREM AllGivenBack == Spec => []NothingLeaks
<1>1. IInv /\ SInv => NothingLeaks
  <2> SUFFICES ASSUME IInv, SInv
               PROVE  NothingLeaks
    OBVIOUS
  <2>1. \A t \in Tasks : t \in Agents /\ (at[t] # "idle" => Dev(t) \in Devices)
    BY Kinds DEF SInv, AgentInv, JobInv
  <2>2. ASSUME NEW x \in acquired
        PROVE  \E d \in Devices : Using(d) /\ x \in All(d)
    <3>1. CASE \E a \in Agents : Inside(a) /\ x \in Got(a)
      <4>1. PICK a \in Agents : Inside(a) /\ x \in Got(a)
        BY <3>1
      <4>2. Dev(a) \in Devices /\ at[a] # "idle" /\ x \in All(Dev(a))
        BY <4>1, GotIs DEF SInv, AgentInv
      <4> QED BY <4>2 DEF Using
    <3>2. CASE \E b \in Buses : transfer[b].async /\ x \in OnAir(b)
      <4>1. PICK b \in Buses : transfer[b].async /\ x \in OnAir(b)
        BY <3>2
      <4>2. transfer[b].dev \in Devices
        BY <4>1, NoJobIs DEF SInv, Transfers, TransferInv
      <4> QED BY <4>1, <4>2 DEF Using, OnAir
    <3>3. CASE \E t \in Tasks : at[t] \in {"devWait", "busWait", "dmaWait"} /\ x \in Asked(t)
      <4>1. PICK t \in Tasks : at[t] \in {"devWait", "busWait", "dmaWait"} /\ x \in Asked(t)
        BY <3>3
      <4>2. at[t] # "idle" /\ x \in All(Dev(t))
        BY <4>1 DEF Asked, All, Bus, Dma, Dev
      <4> QED BY <2>1, <4>2 DEF Using
    <3> QED BY <3>1, <3>2, <3>3, AcquiredIsUsed
  <2>3. ASSUME NEW d \in Devices, ~Using(d)
        PROVE  devCount[d] = 0 /\ busCount[d] = 0 /\ owner[d] = Nobody /\ d \notin acquired
    <3>1. Unused(d)
      BY <2>3 DEF Using, Unused, Inside
    <3>2. Zero(d)
      BY <3>1 DEF SInv, Free
    <3>3. \A e \in Devices : d \in All(e) => e = d
      BY Kinds DEF All
    <3> QED BY <2>2, <2>3, <3>2, <3>3 DEF Zero
  <2> QED BY <2>2, <2>3 DEF NothingLeaks
<1> QED BY <1>1, SpiInvariance, PTL

(* However many tasks use however many devices and buses of ad_spi.c, they    *)
(* never all wait for what the others have.                                 *)
THEOREM NoDeadlock == Spec => []NoCircularWait
<1>1. IInv /\ SInv => NoCircularWait
  <2> SUFFICES ASSUME IInv, SInv, NEW t0 \in Tasks, at[t0] # "idle", at[Isr] = "idle",
                      \A t \in Tasks : at[t] # "idle" => Waits(t),
                      \A b \in Buses : transfer[b] = NoJob
               PROVE  FALSE
    BY DEF NoCircularWait
  <2>1. ASSUME NEW t \in Tasks, at[t] # "idle"
        PROVE  /\ at[t] \in {"devWait", "busWait", "dmaWait"} /\ granted[call[t].req] = FALSE
               /\ call[t].pc = "wait" /\ call[t].req \in Listed /\ mask[call[t].req] = Asked(t)
    <3>1. t \in Agents /\ JobInv(t) /\ WaitInv(t) /\ CallInv(t) /\ Waits(t)
      BY <2>1, Kinds DEF SInv, AgentInv, Transfers
    <3>2. Dev(t) \in Devices /\ Bus(t) \in Buses /\ job[t] # NoJob
      BY <2>1, <3>1, Kinds, NoJobIs DEF JobInv, Bus, Dev
    <3>3. transfer[Bus(t)] # job[t]
      BY <3>2
    <3>4. ~(at[t] = "event" /\ ~event[Bus(t)]) /\ at[t] # "callback"
      BY <3>1, <3>3 DEF WaitInv
    <3>5. call[t].pc = "wait" /\ ~signalled[call[t].req]
      BY <3>1, <3>4 DEF Waits
    <3>6. at[t] \in {"devWait", "busWait", "dmaWait"} /\ mask[call[t].req] = Asked(t)
      BY <3>1, <3>5 DEF CallInv
    <3>7. call[t].req \in Listed /\ call[t].req \in Requests
      BY <3>5 DEF IInv, Callers, Lists
    <3>8. signalled[call[t].req] = granted[call[t].req] /\ granted[call[t].req] \in BOOLEAN
      BY <3>5, <3>7 DEF IInv, Flags, RmTypeOK
    <3> QED BY <3>5, <3>6, <3>7, <3>8
  <2>2. ASSUME NEW t \in Tasks, at[t] # "idle"
        PROVE  \E u \in Tasks : Asked(t) \cap Got(u) # {} /\ Inside(u) /\ at[u] \in {"busWait", "dmaWait"}
    <3>1. PICK x \in acquired : x \in Asked(t)
      BY <2>1, <2>2 DEF IInv, Lacks
    <3>2. ~\E b \in Buses : transfer[b].async /\ x \in OnAir(b)
      BY NoJobIs
    <3>3. ~\E u \in Tasks : /\ at[u] \in {"devWait", "busWait", "dmaWait"} /\ x \in Asked(u)
                            /\ granted[call[u].req] = TRUE /\ call[u].pc # "run"
      BY <2>1
    <3>4. PICK u \in Agents : Inside(u) /\ x \in Got(u)
      BY <3>2, <3>3, AcquiredIsUsed
    <3>5. u \in Tasks /\ at[u] # "idle" /\ at[u] # "devWait"
      BY <3>4 DEF Agents, Inside
    <3> QED BY <2>1, <3>1, <3>4, <3>5
  <2>3. ASSUME NEW t \in Tasks, at[t] = "dmaWait"
        PROVE  FALSE
    <3>1. PICK u \in Tasks : Asked(t) \cap Got(u) # {} /\ Inside(u) /\ at[u] \in {"busWait", "dmaWait"}
      BY <2>2, <2>3
    <3>2. Got(u) \subseteq {Dev(u), Bus(u)}
      BY <3>1 DEF Got
    <3>3. Dev(t) \in Devices /\ Dev(u) \in Devices
      BY <2>3, <3>1, Kinds DEF SInv, AgentInv, JobInv
    <3>4. Asked(t) = DmaOf[Dev(t)]
      BY <2>3 DEF Asked, Dma, Dev
    <3> QED BY <3>1, <3>2, <3>3, <3>4, Kinds DEF Bus, Dev
  <2>4. ASSUME NEW t \in Tasks, at[t] = "busWait"
        PROVE  FALSE
    <3>1. PICK u \in Tasks : Asked(t) \cap Got(u) # {} /\ Inside(u) /\ at[u] = "busWait"
      BY <2>2, <2>3, <2>4
    <3>2. Got(u) = {Dev(u)} /\ Asked(t) = {Bus(t)}
      BY <2>4, <3>1 DEF Got, Asked
    <3>3. Bus(t) \in Buses /\ Dev(u) \in Devices
      BY <2>4, <3>1, Kinds DEF SInv, AgentInv, JobInv, Bus, Dev
    <3> QED BY <3>1, <3>2, <3>3, Kinds
  <2> QED BY <2>2, <2>3, <2>4
<1> QED BY <1>1, SpiInvariance, PTL
=============================================================================
