----------------------------- MODULE SpiAdapter -----------------------------
(***************************************************************************)
(* The SPI adapter (ad_spi.c) in its default configuration: several        *)
(* devices on a bus, resources managed, devices not opened exclusively.    *)
(* A transfer takes the device, then the bus, then the DMA channels of the *)
(* device, one resource_acquire each, with nested acquisitions counted; a  *)
(* synchronous transfer is released by its task and an asynchronous one by *)
(* the interrupt that ends it.                                             *)
(*                                                                         *)
(* An agent is a task or the interrupt handler.  What an agent does        *)
(* between two calls of the resource manager is one step; no task moves    *)
(* while the handler runs.                                                 *)
(***************************************************************************)
EXTENDS ResourceManager

CONSTANTS
    Devices,    \* devices are also the identifiers of their resources,
    Buses,      \* and so are the buses
    BusOf,      \* the bus of each device
    DmaOf,      \* its DMA channels, none for most
    NoDevice,
    Isr         \* the agent that ends asynchronous transfers

ASSUME SpiAssumption ==
    /\ Devices \cup Buses \subseteq Resources /\ Devices \cap Buses = {}
    /\ BusOf \in [Devices -> Buses]
    /\ DmaOf \in [Devices -> SUBSET (Resources \ (Devices \cup Buses))]
    /\ NoDevice \notin Devices /\ Isr \notin Tasks

Agents == Tasks \cup {Isr}

VARIABLES
    at,         \* where each agent is: idle, or a step of the functions below
    job,        \* the device it works on and how
    owner,      \* data->owner of each device
    devCount,   \* data->dev_acquire_count, 0 .. 2 as an acquisition is nested once
    busCount,   \* data->bus_acquire_count, the same
    current,    \* bus_data->current_device of each bus
    config,     \* current_config
    hw,         \* the device the controller is set up for, lost in sleep
    selected,   \* devices with an active chip select
    transfer,   \* the job of the transfer in progress on each bus
    event       \* bus_data->event

deviceVars == <<owner, devCount, busCount>>
busVars == <<current, config, hw, selected, transfer, event>>
spiVars == <<at, job, deviceVars, busVars>>

NoJob == [dev |-> NoDevice, async |-> FALSE, task |-> Isr, depth |-> 0]

(* Isr as an owner stands for NULL: no task has it. *)
Nobody == Isr

SpiInit ==
    /\ at = [a \in Agents |-> "idle"]
    /\ job = [a \in Agents |-> NoJob]
    /\ owner = [d \in Devices |-> Nobody]
    /\ devCount = [d \in Devices |-> 0]
    /\ busCount = [d \in Devices |-> 0]
    /\ current = [b \in Buses |-> NoDevice]
    /\ config = current
    /\ hw = current
    /\ transfer = [b \in Buses |-> NoJob]
    /\ selected = {}
    /\ event = [b \in Buses |-> FALSE]

Dev(a) == job[a].dev
Bus(a) == BusOf[job[a].dev]
Dma(a) == DmaOf[job[a].dev]

Go(a, place) == at' = [at EXCEPT ![a] = place]

Leave(a) == Go(a, "idle") /\ job' = [job EXCEPT ![a] = NoJob]

(* Tasks run when no interrupt handler does. *)
TaskAt(t, place) == at[t] = place /\ at[Isr] = "idle"

Compute(t, place) == TaskAt(t, place) /\ call[t].pc = "run" /\ UNCHANGED rmVars

----------------------------------------------------------------------------
(* One resource_acquire without a time limit: it is given the resources or  *)
(* waits for them.                                                         *)
AcquireStep(t, m, place, waitPlace, next) ==
    /\ TaskAt(t, place)
    /\ \/ AcquireNow(t, m) /\ Go(t, next)
       \/ Enqueue(t, m, FALSE) /\ Go(t, waitPlace)
    /\ UNCHANGED <<job, deviceVars, busVars>>

GrantStep(t, waitPlace, next) ==
    /\ TaskAt(t, waitPlace)
    /\ Return(t)
    /\ Go(t, next)
    /\ UNCHANGED <<job, deviceVars, busVars>>

(* A task transfers with a device, alone or inside an acquisition of its     *)
(* own.  It does not use a device whose asynchronous transfer it started    *)
(* and that has not completed, as the header asks.                         *)
Begin(t, d, async, depth) ==
    /\ Compute(t, "idle")
    /\ \A b \in Buses : ~(transfer[b].dev = d /\ transfer[b].task = t)
    /\ job' = [job EXCEPT ![t] = [dev |-> d, async |-> async, task |-> t, depth |-> depth]]
    /\ Go(t, "dev")
    /\ UNCHANGED <<deviceVars, busVars>>

(* ad_spi_device_acquire *)
DeviceAgain(t) ==
    /\ Compute(t, "dev") /\ owner[Dev(t)] = t
    /\ devCount' = [devCount EXCEPT ![Dev(t)] = @ + 1]
    /\ Go(t, "bus")
    /\ UNCHANGED <<job, owner, busCount, busVars>>

DeviceAcquire(t) ==
    \/ at[t] = "dev" /\ owner[Dev(t)] # t /\ AcquireStep(t, {Dev(t)}, "dev", "devWait", "own")
    \/ GrantStep(t, "devWait", "own")

DeviceOwn(t) ==
    /\ Compute(t, "own")
    /\ owner' = [owner EXCEPT ![Dev(t)] = t]
    /\ devCount' = [devCount EXCEPT ![Dev(t)] = @ + 1]
    /\ Go(t, "bus")
    /\ UNCHANGED <<job, busCount, busVars>>

(* ad_spi_bus_acquire *)
BusCount(t) ==
    /\ Compute(t, "bus")
    /\ busCount' = [busCount EXCEPT ![Dev(t)] = @ + 1]
    /\ Go(t, IF busCount[Dev(t)] = 0 THEN "busRes" ELSE "held")
    /\ UNCHANGED <<job, owner, devCount, busVars>>

BusAcquire(t) ==
    \/ AcquireStep(t, {Bus(t)}, "busRes", "busWait", "config")
    \/ GrantStep(t, "busWait", "config")

(* Faulty variant: the device that was set up last is looked at, although a  *)
(* sleep has undone it.                                                    *)
StillConfigured(d) == config[BusOf[d]] = d

LastOnBus(d) == current[BusOf[d]] = d

(* ad_spi_bus_apply_config, unless the device was the last on the bus *)
BusConfig(t) ==
    /\ Compute(t, "config")
    /\ IF LastOnBus(Dev(t))
         THEN UNCHANGED <<current, config, hw>>
         ELSE /\ current' = [current EXCEPT ![Bus(t)] = Dev(t)]
              /\ config' = [config EXCEPT ![Bus(t)] = Dev(t)]
              /\ hw' = [hw EXCEPT ![Bus(t)] = Dev(t)]
    /\ Go(t, IF Dma(t) = {} THEN "held" ELSE "dma")
    /\ UNCHANGED <<job, deviceVars, selected, transfer, event>>

DmaAcquire(t) ==
    \/ AcquireStep(t, Dma(t), "dma", "dmaWait", "held")
    \/ GrantStep(t, "dmaWait", "held")

(* The transfer is inside the acquisition of the task: the adapter acquires *)
(* once more.                                                              *)
Held(t) ==
    /\ Compute(t, "held")
    /\ Go(t, IF busCount[Dev(t)] < job[t].depth THEN "dev" ELSE "start")
    /\ UNCHANGED <<job, deviceVars, busVars>>

(* Chip select and start of the transfer.  The task of an asynchronous       *)
(* transfer goes on, or waits for the callback to release what it acquired. *)
StartTransfer(t) ==
    /\ Compute(t, "start")
    /\ selected' = selected \cup {Dev(t)}
    /\ transfer' = [transfer EXCEPT ![Bus(t)] = job[t]]
    /\ IF job[t].async /\ job[t].depth = 1
         THEN Leave(t)
         ELSE Go(t, IF job[t].async THEN "callback" ELSE "event") /\ UNCHANGED job
    /\ UNCHANGED <<deviceVars, current, config, hw, event>>

(* The transfer ends: ad_spi_wait_event, or the end of ad_spi_async_do. *)
SyncEnd(b) ==
    /\ at[Isr] = "idle"
    /\ transfer[b] # NoJob /\ ~transfer[b].async
    /\ transfer' = [transfer EXCEPT ![b] = NoJob]
    /\ event' = [event EXCEPT ![b] = TRUE]
    /\ UNCHANGED <<rmVars, at, job, deviceVars, current, config, hw, selected>>

AsyncEnd(b) ==
    /\ at[Isr] = "idle"
    /\ transfer[b] # NoJob /\ transfer[b].async
    /\ transfer' = [transfer EXCEPT ![b] = NoJob]
    /\ selected' = selected \ {transfer[b].dev}
    /\ job' = [job EXCEPT ![Isr] = transfer[b]]
    /\ Go(Isr, "relBus")
    /\ UNCHANGED <<rmVars, deviceVars, current, config, hw, event>>

TransferDone(t) ==
    /\ Compute(t, "event") /\ event[Bus(t)]
    /\ event' = [event EXCEPT ![Bus(t)] = FALSE]
    /\ selected' = selected \ {Dev(t)}
    /\ Go(t, "relBus")
    /\ UNCHANGED <<job, deviceVars, current, config, hw, transfer>>

----------------------------------------------------------------------------
(* Releasing, by an agent: the handler before every task. *)
AgentAt(a, place) == at[a] = place /\ (a # Isr => at[Isr] = "idle")

(* Faulty variant: the channels are not released. *)
KeepChannels(a) == "relBusRes"

FirstRelease(a) == IF Dma(a) = {} THEN "relBusRes" ELSE "relDma"

(* ad_spi_bus_release *)
BusRelease(a) ==
    /\ AgentAt(a, "relBus")
    /\ busCount' = [busCount EXCEPT ![Dev(a)] = @ - 1]
    /\ Go(a, IF busCount[Dev(a)] > 1 THEN "relDev" ELSE FirstRelease(a))
    /\ UNCHANGED <<rmVars, job, owner, devCount, busVars>>

DmaRelease(a) ==
    /\ AgentAt(a, "relDma")
    /\ Release(Dma(a))
    /\ Go(a, "relBusRes")
    /\ UNCHANGED <<job, deviceVars, busVars>>

BusResRelease(a) ==
    /\ AgentAt(a, "relBusRes")
    /\ Release({Bus(a)})
    /\ Go(a, "relDev")
    /\ UNCHANGED <<job, deviceVars, busVars>>

(* Whoever released goes on: a task that had acquired twice releases once    *)
(* more; the callback of the handler lets the task that waits for it do so. *)
GoOn(a) ==
    LET waits == {t \in Tasks : at[t] = "callback" /\ Dev(t) = Dev(a)} IN
    IF a # Isr /\ devCount[Dev(a)] > 1
    THEN Go(a, "relBus") /\ UNCHANGED job
    ELSE IF a = Isr /\ waits # {}
    THEN /\ at' = [x \in Agents |-> IF x = Isr THEN "idle" ELSE IF x \in waits THEN "relBus" ELSE at[x]]
         /\ job' = [job EXCEPT ![Isr] = NoJob]
    ELSE Leave(a)

(* Faulty variant: the first of two nested releases frees the device. *)
AnyUse(d) == TRUE

LastUse(d) == devCount[d] = 1

(* ad_spi_device_release *)
DeviceRelease(a) ==
    /\ AgentAt(a, "relDev")
    /\ devCount' = [devCount EXCEPT ![Dev(a)] = @ - 1]
    /\ IF LastUse(Dev(a))
         THEN owner' = [owner EXCEPT ![Dev(a)] = Nobody] /\ Go(a, "relDevRes") /\ UNCHANGED job
         ELSE owner' = owner /\ GoOn(a)
    /\ UNCHANGED <<rmVars, busCount, busVars>>

DeviceResRelease(a) ==
    /\ AgentAt(a, "relDevRes")
    /\ Release({Dev(a)})
    /\ GoOn(a)
    /\ UNCHANGED <<deviceVars, busVars>>

----------------------------------------------------------------------------
(* A task that sleeps until another agent does something. *)
Waits(t) ==
    \/ call[t].pc = "wait" /\ ~signalled[call[t].req]
    \/ at[t] = "event" /\ ~event[Bus(t)]
    \/ at[t] = "callback"

(* The idle task: every task is blocked and ad_spi_prepare_for_sleep finds no *)
(* transfer and the last device not in use.  The controller loses its        *)
(* set-up.                                                                 *)
Sleep ==
    /\ at[Isr] = "idle" /\ \A t \in Tasks : at[t] = "idle" \/ Waits(t)
    /\ \A b \in Buses : /\ transfer[b] = NoJob
                        /\ config[b] # NoDevice => busCount[config[b]] = 0
    /\ current' = [b \in Buses |-> NoDevice]
    /\ hw' = current'
    /\ UNCHANGED <<rmVars, at, job, deviceVars, config, selected, transfer, event>>

SpiTask(t) ==
    \/ DeviceAgain(t) \/ DeviceAcquire(t) \/ DeviceOwn(t)
    \/ BusCount(t) \/ BusAcquire(t) \/ BusConfig(t) \/ DmaAcquire(t)
    \/ Held(t) \/ StartTransfer(t) \/ TransferDone(t)

SpiRelease(a) ==
    \/ BusRelease(a) \/ DmaRelease(a) \/ BusResRelease(a)
    \/ DeviceRelease(a) \/ DeviceResRelease(a)

SpiHardware(b) == SyncEnd(b) \/ AsyncEnd(b)

(* The kernel lets a task go on that waited for a resource. *)
SpiWake(t) == at[Isr] = "idle" /\ Wake(t) /\ UNCHANGED spiVars

vars == <<rmVars, spiVars>>

Init == RmInit /\ SpiInit

Next ==
    \/ \E t \in Tasks :
          \/ SpiTask(t) \/ SpiWake(t)
          \/ \E d \in Devices, async \in BOOLEAN, depth \in 1 .. 2 : Begin(t, d, async, depth)
    \/ \E a \in Agents : SpiRelease(a)
    \/ \E b \in Buses : SpiHardware(b)
    \/ Sleep

Spec == Init /\ [][Next]_vars

----------------------------------------------------------------------------
(* A transfer runs on behalf of the one task that has its device, its bus    *)
(* and its channels, with the controller set up for the device, now and not *)
(* before a sleep, and with no other chip select active on the bus.         *)
TransferOwnsBus ==
    \A b \in Buses : transfer[b] # NoJob =>
        LET d == transfer[b].dev IN
        /\ owner[d] = transfer[b].task
        /\ {d, b} \cup DmaOf[d] \subseteq held[owner[d]]
        /\ current[b] = d /\ hw[b] = d
        /\ {e \in selected : BusOf[e] = b} = {d}

(* When no task and no transfer uses a device, it is free and its counts are *)
(* zero; when no device of a bus is used, the bus and the channels are free. *)
Using(d) ==
    \/ \E a \in Agents : at[a] # "idle" /\ Dev(a) = d
    \/ \E b \in Buses : transfer[b].dev = d

NothingLeaks ==
    /\ \A d \in Devices : ~Using(d) =>
           devCount[d] = 0 /\ busCount[d] = 0 /\ owner[d] = Nobody /\ d \notin acquired
    /\ (\A d \in Devices : ~Using(d)) => acquired \cap (Buses \cup UNION {DmaOf[d] : d \in Devices}) = {}

(* The adapter is a caller as the manager expects: a release, also one by    *)
(* the interrupt handler, gives back what one task holds.                  *)
UsesManager == RmSpec

(* Tasks do not wait for each other in a circle: the order device, bus,      *)
(* channels, and the hand-over in the release, leave someone who can go on. *)
NoCircularWait ==
    (\E t \in Tasks : at[t] # "idle") =>
        \/ \E t \in Tasks : at[t] # "idle" /\ ~Waits(t)
        \/ \E b \in Buses : transfer[b] # NoJob
        \/ at[Isr] # "idle"
============================================================================
