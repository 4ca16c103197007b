# A verification model of the BLE framework

This directory holds TLA+ specifications of the firmware in `src/`: small Bluetooth Low Energy
applications for the Dialog DA14683 (`src/apps`) and the SDK they are built with (`src/sdk`). Four
parts of it carry logic that is hard to test, and are modelled:

* the **BLE framework**: a library that application tasks call, a manager task, an adapter task and a
  binary BLE stack, connected by FreeRTOS queues, notifications and mutexes, in the configuration
  that the applications choose: `BLE_MGR_DIRECT_ACCESS = 1` (the handler of a command runs in the task
  that issues it) and `BLE_MGR_USE_EVT_LIST = 1` (events are kept in an unbounded list);
* the application **security-request-pair-service**, which pairs inside the handler of a read;
* the **resource manager** and two adapters that share the hardware through it, SPI and the converter;
* the **Virtual EEPROM** (VES), the storage below bonds and parameters, with loss of power.

The repository has no tests. What the code should do was taken from the code itself, its assertions
and the comments on them, and the descriptions of the functions in the headers.

Paths below are relative to `src/sdk/sdk/interfaces/ble/src` unless they start with `apps` or `bsp`.

## 1. Inventory

| Part | State | Operations | Meets others through |
|---|---|---|---|
| Command execution (`ble_common.c`, `manager/ble_mgr_helper.c`) | none of its own | `ble_cmd_execute`: lock the interface, run the handler, wait for the response, unlock | `ble_interface_lock`, `rsp_q` |
| Manager (`manager/ble_mgr.c`, `ble_mgr_common.c`, `ble_mgr_ad_msg.c`) | event list, response queue of length 1, `app_task`, `reset`, own notifications, blocked flag | task loop, event posting and reading, registration, initialisation, reset | both tasks' queues, notifications |
| GTL messages (`manager/ble_mgr_gtl.c`) | wait queue of 5 elements | add, match, flush, event dispatch | callbacks into all handlers |
| Adapter (`adapter/ad_ble.c`) | command queue and event queue of 8, stored TX done callback, sleep status | task loop, delivery to the stack, `ble_stack_io_write`, wake-up of the core | stack callbacks, interrupts |
| GAP (`manager/ble_mgr_gap.c`) | device parameters, `updating`, advertising and scanning state, pairing data | 40 commands, 25 event handlers | wait queue, storage, events |
| GATT and L2CAP (`manager/ble_mgr_gatt*.c`, `ble_mgr_l2cap.c`) | attribute database under construction, channels and credits | commands and event handlers | the same |
| Storage (`manager/storage*.c`, `ble_storage.c`) | list of devices, bonds, application values, dirty and flush flags | lookup, bonding, eviction, write-back | storage lock, commit notification, VES |
| Utilities (`util/list.c`, `util/queue.c`) | linked lists | push, pop, unlink, filter | everywhere |
| BLE stack (binary, `stack/`) | links, procedures | takes messages, answers, indicates | adapter |
| Applications (`apps/*`) | loop of one task, timers, services | handle events, serve reads and writes, pair on a read | BLE API, watchdog |
| Resource manager (`bsp/osal/resmgmt.c`) | acquired resources, list of waiting requests, free requests | acquire with and without a time limit, release | semaphore of each request, critical sections |
| SPI adapter (`bsp/adapters/src/ad_spi.c`) | owner and counts of each device, set-up of each bus | nested acquisition, synchronous and asynchronous transfers, sleep | resource manager, DMA interrupt, power manager |
| Converter adapter (`bsp/adapters/src/ad_gpadc.c`) | owner, count, current source, reading in progress | the same for readings, with a time limit | resource manager, converter interrupt, power manager |
| VES driver (`bsp/adapters/src/ad_nvms_ves.c`) | container table, dirty counts, free sectors, current sector | start-up scan, read, write, garbage collection | flash, partition mutex |
| Other system parts (`bsp/system`, other adapters) | watchdog, power, clock, charger, partitions | drivers and managers | the applications and the storage |

What is hard about it:

* **Interleavings.** Three kinds of task and two interrupts communicate by FreeRTOS notifications,
  which hold one bit mask and one pending flag per task. A notification is not a count; a task that
  waits for one bit consumes the pending flag of all.
* **Blocking without a time limit.** A caller waits on the response queue forever, with the BLE
  interface locked. Whatever loses a completion stops BLE for all tasks.
* **Order.** Completions are matched to requests by kind only, so the order of the wait queue and of
  the stack decides who gets which.
* **Failure.** Links vanish between any two steps; a reset drops messages; the stack is stopped by a
  full queue and has to be restarted; the supply fails between two flash operations, during the
  recovery from an earlier failure too.
* **Time limits.** A task whose time is up races with the release that serves it; the expiry of a
  timer of an earlier wait races with the next.
* **Loops within loops.** `block_state_pair` takes events inside the handler of an event.
* **Interrupts that give back** what a task has acquired, with counts that no critical section guards.
* **Shared variables that are replaced for a while** (`app_task` in `ble_mgr_event_queue_get`).

The list `hazards` of `PROJECT.json` names each at its line, with the properties that cover it. What
makes each component correct:

| Component | Properties |
|---|---|
| Command execution | own responses, one command at a time, no lost caller, calls return (*the first three proved; the last checked*) |
| Manager | no lost wake-up, events announced (*proved, the second without resets: a reset can break it*), events delivered (*checked*) |
| Wait queue | a blocked caller has an element (*proved*); own completions, complete flush, callers served, capacity (*proved for a peripheral that is not reset; the flush is violated with the central role*) |
| Adapter | no lost wake-up, no overflow of the event queue (*proved*), blocked stack restarted (*checked*) |
| Pairing application | no event taken from an empty list, none slept on, data only to peers that have paired, a timer of its own, connectable again (*checked and proved*); the wait for a bond ends (*checked*); every read answered (*violated*) |
| Resource manager | exclusive use, no request forgotten, events that mean something (*checked and proved*) |
| SPI adapter | a transfer owns its bus and finds it set up, nothing leaks, no circular wait, proper use of the manager (*checked and proved*) |
| Converter adapter | the converter is locked, a reading is of its own source, all is freed (*proved*), a time limit is kept (*checked*) |
| VES | refines an atomic store across losses of power, tables agree with the flash, no bit set by programming, asserts hold (*checked and proved; violated if power fails between the data and the index of a new container*); a collection ends (*checked*) |
| GAP locks, bonds of several links, storage write-back, lists | no circular wait, limit of bonds, an acknowledged bond survives (*not covered, see the hazards*) |

## 2. Modules

| Module | Contents |
|---|---|
| `BleCommandService` | Abstract specification: commands are served one at a time and each is answered once, with its own answer |
| `BleManager` | Callers, manager, adapter, interrupts and stack in one specification |
| `MCBleManager` | Instances of it for TLC |
| `BleManagerProofs` | Type correctness, lemmas on queues, the inductive invariant of the command exchange, own responses, no lost caller; `BleManager` implements `BleCommandService` |
| `BleManagerWakeups` | Neither task of the framework sleeps on its work; no assertion of the transport fails; without resets events are announced, and never asked of an empty list |
| `GtlWaitqueue` | The wait queue with its order, capacity and flush, links, commands and the manager's requests |
| `MCGtlWaitqueue` | Instances of it for TLC |
| `GtlWaitqueueProofs` | Its inductive invariants and six theorems |
| `PairingApp` | The task of security-request-pair-service with its two event loops and timers, links, pairings and advertising |
| `PairingAppProofs` | Its inductive invariant and six theorems |
| `ResourceManager` | Acquisition, time-outs and releases, one action per critical section or wait; the adapters extend it |
| `ResourceManagerProofs` | Its inductive invariant and five theorems |
| `SpiAdapter`, `MCSpiAdapter` | The SPI adapter over `ResourceManager`, and its instance |
| `SpiAdapterProofs` | The SPI adapter as a caller of the resource manager: four theorems and their inductive invariant |
| `GpadcAdapter`, `MCGpadcAdapter` | The converter adapter over `ResourceManager`, and its instance |
| `GpadcAdapterProofs` | The converter adapter as a caller of the resource manager, and its exclusion |
| `VesStore` | Abstract specification: a memory whose addresses are written one at a time, whatever power does |
| `Ves`, `MCVes` | The VES driver on NOR flash, and its instance |
| `VesProofs` | Its inductive invariant, assertions, tables and bits; `Ves` implements `VesStore` |

### BleManager

The variables are those of the code: `ifLock` is the owner of `ble_interface_lock`, `rspQ` is
`mgr_if.rsp_q`, `evtList` is `mgr_if.evt_q`, `appTask` is `app_task`, `adCmdQ` and `adEvtQ` are the
queues of the adapter, `txDoneCb` says that `ble_stack_io_tx_done_cb` is set, `sleep` is
`sleep_status`. `notif` and `pend` are the FreeRTOS notification value and state of a task. For the
manager and the adapter one set suffices, because they wait for all of their bits and clear them. `waitq`
is the GTL and adapter wait queues as a set: this module needs only who waits for what.

Commands are reduced to what the framework does with them:

| Kind | Commands | Handler |
|---|---|---|
| `register`, `enable` | `ble_register_app`, `ble_enable` | as named |
| `imm` | getters, storage access, attribute values | answers at once |
| `fire` | start advertising, connect, disconnect | sends to the stack, answers at once, its end is an event |
| `cfg` | role, MTU, address, appearance, database | queues an element, sends, is answered by the completion |
| `reset` | `ble_reset` | drains the events, sets `reset`, then as `cfg` |

A call goes through `acquire`, `handler`, (`drain`, `doReset`), `send`, `notify`, `wait`, `release`:
between any two of these the other tasks may run. The loop of `ble_peripheral_task` is
`idle`, `get`, (`empty`, `got` or `missed`), `handle`, `check`; `ble_mgr_event_queue_get` is split where
it leaves its critical section. The manager task is `MgrWake`, one of four ways to deal with a
message, `MgrMore` (its look at the rest of the queue) and `MgrUnblockAdapter`. The adapter task is
`AdWake`, `AdCommand`, the inner loop of `AdPost`, `AdTxDone` and `AdNextCommand`, and `AdPark`; the post
to the event queue and the test of the space left are separate steps, because the manager may take
a message between them.

The tasks have priorities (adapter above manager above applications). The model lets them interleave
freely, which includes every schedule of the priorities. One step relies on them: posting an event
and notifying its reader is one step, since the reader cannot preempt the manager.

The stack is external: it answers every command it was handed, once; it is stopped while a callback
is stored; a reset makes it forget what was pending; the core may sleep while nothing has to be
written and nothing goes on but procedures on the air.

### GtlWaitqueue

`queue` is the array of the wait queue in its order. The handlers of the manager run to their end
before the application does (it has the higher priority), so each is one action. A command of the
application is checked, added and sent in three steps, except that the configuration handlers hold
the device parameters, which the handlers of connection and disconnection also take (`DevParamsHeld`).
Requests carry a serial number, by which `OwnCompletion` tells a completion from another; the code
has none. `Removed` computes which elements the loop of `ble_gtl_waitqueue_flush` removes, with its step
over the element after a removed one.

The stack is external: requests about a link that is down are lost, equal requests are answered in
order, and a link that goes down takes its requests with it. `IndexFree` assumes that a connection
index is not used again before the manager has handled the disconnection and a request that was
already on its way has reached the stack. `QuickResolve` adds, where it is TRUE, that a link is handled and
its address resolved before the next one comes up: a peripheral does not advertise while it is connecting,
and connects again only when the application, which has handled the connection by then, has started the
advertising anew (`manager/ble_mgr_gap.c:990`, `1072`, `1107`). Only the capacity of the queue depends on it.

The peripheral configuration (`Central = FALSE`) is that of the applications
(`apps/*/config/custom_config_qspi.h`); `Central = TRUE` is the default of the SDK (`ble_config.h:80`).

### PairingApp

`at` is where the task is. The main loop of `ble_peripheral_task` is `wait` (`OS_TASK_NOTIFY_WAIT`),
`get` (`ble_get_event`), `handle`, `check` (`ble_has_event`, the notification to itself); the two
commands in `handle_evt_gap_disconnected` are two steps (`restart` lies between them), because the
manager may finish the first before the second. The handler of a read enters `block_state_pair`:
`blockWait` and `blockGet` are its loop over notifications and events, `arm` the reset of its timer,
`poll` the loop over `ble_gap_is_bonded`, `answer` the confirmation. A poll that changes nothing is
a stutter, so `PollEnds` is the only step there.

`active` is `active_conn_idx`, `timer` and `expired` are `timer_handle` and `timer_expired`. The
manager and the peers are the environment: `link`, `bonded`, `paired`, `pairing` and `adv` are what
`ble_mgr_gap.c` keeps about connections, bonds and advertising, and each of its handlers is one action
that changes them and posts its event, because the manager has the higher priority. `Reply` and `HandleRead`
are commands of the application, which run in its task. `missed` is a history variable: `block_state_pair` has
dropped an event that the main loop acts on.

Links may come and go, and pairings end, at any place of the task, also between the last poll and the
answer. The only assumption on time, stated at `ArmTimer`, is that the five seconds of the timer do not pass
while it is being armed.

`DataOnlyToPaired` is what the check of the bond is worth at the answer. The bond itself may be gone: a
pairing without keys that ends in between clears it (`manager/ble_mgr_gap.c:2781`). That the peer has paired is
forgotten only with its link, so the property makes an exception for a link whose end is still in the
event list.

### ResourceManager

`resource_acquire` is `AcquireNow`, `Refused` or `Enqueue` (its first critical section), then `Wake` or
`TimeOut` (the wait on the semaphore of the request), then `Return` (the second critical section). `Return` has
the late case: a task whose time was up and whose request was granted meanwhile takes the
resources all the same, and clears the semaphore by a second wait (`LateEvent`). `Release` is one critical section that walks the list, as `resource_release` does. `held` records what
each task has been told; the code has no such record, the properties need it.

### SpiAdapter

An agent is a task or the interrupt (`Isr`), and `at` its place in `ad_spi_device_acquire`,
`ad_spi_bus_acquire`, the transfer, `ad_spi_bus_release` and `ad_spi_device_release`: one step per call of the
resource manager, with the code between two calls in the step before or after. `owner`, `devCount` and
`busCount` are the fields of `spi_device_data`, `current`, `config`, `transfer` and `event` those of the bus, `hw`
what the controller registers are set for. A task that starts an asynchronous transfer goes on, or
waits for its callback; the interrupt then releases in its place. `Sleep` is the idle task. Tasks do not
start a second transfer on a device while an asynchronous one of theirs runs, as the header asks.

### GpadcAdapter

`gAt` is the place of a task in `ad_gpadc_read_to` or `ad_gpadc_read_async`. The count of
acquisitions is loaded and stored in two steps (`GLoad`, `GStore`, `GRelLoad`, `GRelStore`), since the interrupt, `GInterrupt`,
counts too. `Nested` says whether a task may call again while its own asynchronous reading
runs. It is FALSE in the run and in the theorems: a restriction on the callers that neither the header asks for nor
the code enforces, and without which the converter is not locked (section 3, Weaknesses).

### Ves

The driver runs under one mutex, so one operation is under way at a time. An action is one iteration of one of its
loops, or one flash operation with the assignments around it; `PowerLoss` may come between any two. `phase` is the
function that runs and `step` what it does next; `sec`, `con` and `count` are the loop variables of the scan and
the collector, `index`, `from` and `to` the container that is being moved or written, `request` and `nth` the write.

| Actions | Code |
|---|---|
| `Boot`, `ScanUnused` to `ScanDone` | `ves_init`, `ves_read_cat`, and the recovery of moves that were interrupted |
| `Wipe`, `Prepare`, `ScanPrepared`, `GcPrepared` | `ves_init_sector`, for the scan and for the collector |
| `ChooseVictim` to `Rescued`, `Collected` | `ves_gc` |
| `Retire`, `Store`, `Clear` | the three index writes of `ves_move_container` and `ves_container_write` |
| `Write`, `UpdateInPlace`, `GetFreeContainer`, `WriteData`, `Return` | `ad_nvms_ves_write` |

`flash` gives each container the state of its index field and the set of the bits of its payload that are still 1;
programming intersects. `LosesAfterData` allows a loss of power between the data and the index of a new container,
where the driver is not safe (`ves_torn`); with FALSE it may come anywhere else, also during a recovery.
`WidthAssumption` leaves out the sizes at which the byte-wide indices and counts of the code overflow, which the
model, with its plain integers and a `NoEntry` that is no container, does not have.

`ImplementsStore` is the refinement of `VesStore` under the mapping `Contents`: for each address the payload
that the next start would find.

## 3. Runs

Passing runs, with the sizes of their state spaces:

| Run | Shows | States |
|---|---|---|
| `manager_two_apps` | Two tasks with competing commands and resets get their own answers, nobody waits in vain; the service is implemented | 976 000 |
| `manager_traffic` | Timers, all kinds of command but reset, and traffic through an event queue that fills up: no wake-up is lost, no assertion fails | 1 653 000 |
| `manager_live` | With queues of length one and a core that sleeps, every call returns and the messages of the stack get through to the application | 320 000 |
| `gtl_peripheral` | Two links, no central role: own completions, complete flush, callers released; without reset two elements are enough, so there is slack below the five of the code | 201 000 |
| `gtl_all_commands` | Default configuration of the SDK, all commands: a blocked caller has an element or a response | 158 000 |
| `ves` | Writes, updates, collections and recoveries with losses of power refine the store; tables, asserts and bits are right | 458 000 |
| `spi` | Transfers own what they use, nothing leaks, no circular wait; the adapter uses the resource manager as that expects | 310 000 |
| `gpadc` | Three tasks share the converter: exclusion, no forgotten request, own source; time limits are kept | 181 000 |
| `pairing` | Two links and two peers around the two loops of the application | 260 000 |

Runs that TLC refutes, each the counterexample to a statement of the repository (`findings` has the
quotations):

| Run | What happens |
|---|---|
| `gtl_flush_skips` | The flush skips the element after one it removed, and its caller waits forever |
| `ves_torn` | Power fails after the data of a new container and before its index: the container still looks unused, the next write to it leaves the bits common to both payloads |
| `pairing_again` | A bonded peer reads: nobody asks it to pair, the application waits for its request all the same, and neither this read nor anything else is answered |

Weaknesses that can be followed in the models, where not said otherwise, but are given no run, since they contradict no
statement or repeat a finding:

* *Reset.* After an event that was read without its notification being consumed, `ble_reset` drains the
  list, takes the stale notification, and reaches `OS_ASSERT(0)` in `ble_mgr_event_queue_get`. A reset by
  another task takes over `app_task`; an event posted then is announced to that task only. An event
  posted between the drain and `ble_mgr_set_reset` survives the reset. Resets during address
  resolution leave elements in the wait queue, and five fill it.
* *Wait queue.* A link lost between the check and the addition leaves an element that nobody completes.
  The MTU command is queued under connection index 0, and the flush of link 0 calls its callback with a
  NULL message.
* *Pairing application.* `block_state_pair` drops a disconnection or the end of the advertising like any
  event that is not a pairing request, after which the device may never advertise again; it leaves
  queued events without a notification; `ble_gap_pair` is called for connection 0 whoever reads; a wait
  that times out leaves the read unanswered. Two requests on two links that are both replied to
  before either pairing ends leave more bonds than `BLE_GAP_MAX_BONDED`. Between the last poll and the answer the bond may be cleared
  by a pairing without keys; and the link may end and its index be given to another peer, which gets the
  value without having paired, if it reads too.
* *Resource manager.* Requests are served from the newest: with three tasks the oldest can wait for ever,
  so only time-limited waits are shown to return.
* *Converter.* A task that calls `ad_gpadc_read_async` while its own reading runs may use a converter it
  no longer holds: the interrupt releases it between the comparison of the owner and the count
  (`Nested = TRUE` breaks `GpadcLocked`). A temperature read inside an acquisition of the task itself has
  the sensor off, for which `ReadsOwnSource` makes an exception.
* *VES.* With a threshold that no sector reaches, a collection takes the sector it started from, live or not. After a
  loss of power that can be the current one, into which it then rescues (`bsp/adapters/src/ad_nvms_ves.c:353`). With the containers of 16 bytes that
  line 124 names there are 256 in a sector, and container 255 has the index of `CAT_ENTRY_NONE` (149); the
  dirty count of a full sector does not fit into `max_dirty_count` (354), the loop at 330 does not end, and half of
  the dirty counts start with what the heap held (724). The models leave this out (`WidthAssumption`).
* *Not modelled, found while reading.* `list_filter` (`util/list.c:149`), which nobody calls, frees an element that is still linked. With
  secure connections the size of a key is taken from the local key, which may not exist (`manager/ble_mgr_gap.c:3143`).

**Bounds.** `MaxCmds`, `MaxInds`, `MaxReqs` and `MaxLinks` bound the commands, indications, requests and links of
a behaviour of the framework. Three or four commands are the registration, the start of the stack and
then two in competition; reset needs one before and one after it. The queues of the adapter have
length 1 or 2 in the runs rather than 8, so that full queues occur with few messages; the code nowhere
depends on the length. `manager_live` has one task: with two, a caller also waits for the interface
lock, which fairness of the mutex grants it once the other call has returned. The wait queue has its
real length but in `gtl_peripheral`, which shows two places of the five to be enough. Two links allow the reuse
of an index while another link is up.

`pairing` has two links and two peers, of whom one may be bonded (`MaxBonded = 1`); `MaxMoves = 4` bounds the
connections, disconnections, reads and unasked or failed pairings. Four are a connection of each peer, a read
and one more of any kind. A second peer that takes over an index between the poll and the answer and reads
takes five; with five the properties hold too, in 3.2 million states and too long for a run that is
repeated. The theorems about `PairingApp` hold for any number of each.
`spi` has two tasks and three devices, two on one bus, two with a DMA channel in common: every kind of
sharing occurs. `gpadc` has three tasks and three requests, as two cannot overtake one another in the
list, with one reading of each kind (`FewReadings`): time-limited, asynchronous, and asynchronous inside an acquisition.
`ves` has three sectors of five containers and two addresses, the smallest size at which collections rescue and
`Configured` (section 4) holds as it does in the shipped configuration; one payload bit is enough, since bits do
not influence each other. The theorems hold for every size that is `Configured`,
with fewer than 256 containers in a sector.

Deadlock is not checked: a behaviour ends when its bounds are used up, a failed assertion stops the
system, and a device without requests rests.

**Fairness** (`FairSpec` of `BleManager`). Each task that can run gets to run: all tasks block in their loops
and no task polls. The mutex of FreeRTOS is passed on in priority order and first come first
served, hence strong fairness for `Acquire`. The core wakes up if it was asked to, or if a procedure
on the air goes on; a command that is handed over to a sleeping core wakes it only through
`ad_ble_wake_up`. The stack answers every command it has (strong fairness, as the core may sleep
in between). Nothing is assumed of the application: it may issue no command and start no timer.
Liveness is checked without resets; with them an event announced to the wrong task may wait forever.

In `GpadcAdapter` the tasks, wake-ups, expiries of time limits and the interrupt happen if they can; no
fairness is assumed between tasks. In `PairingApp` the task and its timers run, advertising that was
stopped ends, a peer that is asked to pair does, and a pairing both sides agreed on ends: the last
two only make the counterexample of `pairing_again` stronger, as `PollReturns` rests on the task and the block timer. `Ves` assumes that an operation
that runs goes on (weak fairness of `Work`), and neither that one begins nor that power stays. `SpiAdapter` has safety properties only.

Every property of a passing run has a mutant in `PROJECT.json`: a faulty variant of a definition, stated
beside it in the module ("Faulty variant"), under which the same run refutes the property.

## 4. Proofs

The theorems hold for every value of the constants: any number of applications, tasks, resources,
devices, connections and peers, any lengths of the queues and any bounds. They rest on `AppsAssumption` and
`SizesAssumption` of `BleManager`, `ConnsAssumption` and `QueueAssumption` of `GtlWaitqueue`, `ResourceAssumption`,
`SpiAssumption`, `GpadcAssumption`, `PairingAssumption` and `VesAssumption` only (`WidthAssumption` is in no proof: it
says for which sizes `Ves` stands for the code), except for five hypotheses, which stand in
the theorems that need them; section 3 says what happens otherwise:

* the two theorems about events in `BleManagerWakeups`: no task resets BLE;
* `GpadcAdapterProofs`: no task calls again while its own asynchronous reading runs;
* `GtlWaitqueueProofs`, but for its first two theorems: `Peripheral`, that is no central role and commands of the kinds `config`
  and `rssi`, which are those the applications issue. With the central role the flush is incomplete (`gtl_flush_skips`);
* `QueueHasRoom`: also `QuickResolve`, and two places (the code has five);
* `VesProofs`: `Configured`, which is no threshold of the collector (the default, `bsp/adapters/include/ad_nvms_ves.h:100`), no loss of power between
  the data and the index of a new container (`ves_torn`), and `2 * CatMax < (SectorCount - 2) * PerSector`: two copies
  of everything leave room in all sectors but two. With the default multiplier of 8 (`bsp/adapters/src/ad_nvms_ves.c:713`), containers
  of 64 bytes and sectors of 4096, a partition of n sectors has about 8.3 n addresses, and that holds from three
  sectors on.

* `TypeCorrect` (`BleManagerProofs`): `TypeOK`, which includes the capacities of all queues. Its
  inductive form `TypeInv` adds `CmdInv`, that a task inside a call has a command of a kind which fits
  where it is.
* `ResponsesAreOwn`, `AnswersAreOnTheirWay` (`BleManagerProofs`): `OwnResponse` and `AnswerOnItsWay`. Neither is
  inductive: that a response fits depends on the path of the completion through five queues and two
  tasks. The invariant `Inv` is `TypeInv` with
  * `LockInv`: exactly the task that owns the interface is between acquire and release;
  * `ExchangeInv`: either nobody waits for a completion and none is anywhere, or one task does, the
    wait queue holds its element only, and its completion is in exactly one place, once;
  * `ResponseInv`: the response queue is empty, or holds the response of the owner, who expects it.

  The heart of it is that completions are matched by kind, which is right only as long as a single
  one is under way, and that this follows from the interface lock.
* `Implements` (`BleManagerProofs`): `Spec => Service!Spec` under the mapping at the end of `BleManager`: a
  command is in service while its task owns the interface, and answered when it has taken the
  response. `CountInv` adds that serial numbers are never used twice.
* `ManagerStaysAwake`, `AdapterStaysAwake`, `AssertsHold` (`BleManagerWakeups`): `ManagerAwake`, `AdapterAwake` and
  `TransportAsserts`. A task clears all of its notification bits but takes one message at a time, so what
  has to be invariant is who will set a bit again:
  * `MgrTold`: a message the manager has finished looking for is announced, or the adapter is about to;
  * `CmdSeen`: a command is announced, being looked at, or waits for a core that has been asked to wake;
  * `TxSeen`: while a callback is stored, the adapter is blocked and the manager will tell it of space;
  * `Transport`: before it is started the adapter has nothing to write to, one message comes out of the
    start-up, and afterwards a stack that is not stopped has room in the event queue. The op code of a
    response is right by `ResponseInv` above.
* `EventsAreAnnounced`, `NoListIsFoundEmpty` (`BleManagerWakeups`): `EventNotified` and `NoEmptyPop`, without resets.
  * `NoResets`, `Registered`: only the registered task takes events, and `app_task` names nobody else;
  * `Announced`: an event is announced or the task is in its loop, which looks again before it ends; and a
    bit that is set stands for an event which is still there when the one at hand has been taken.
* `TypesOK`, `CallerIsNotForgotten` (`GtlWaitqueueProofs`): `TypeOK` and `CallerHasWaiter`, for every mix of commands, links and
  resets. `CallerInv` follows a caller from the check of its connection to its response.
* `CompletionsAreOwn`, `FlushesAreComplete`, `CallersAreServed`, `QueueHasRoom` (`GtlWaitqueueProofs`): `OwnCompletion`, `FlushComplete`,
  `CallerIsServed` and `RoomInQueue`, for a peripheral. The queue matches by kind and connection and not by request, so the
  argument is that little of one kind is ever under way. The parts of `PeripheralInv`:
  * `Shapes`: what such a device asks its stack for, and is told;
  * `Links`: what the manager knows of a link is true, or put right by a message that is on its way; news of a link end
    with its disconnection;
  * `Answers`: the application has one request at a time, which is in one place on its way to the stack and back, once;
  * `Resolves`: the resolutions of addresses in the queue are those under way, and in the same order everywhere, so the
    first element that fits is the right one. This needs positions in a queue from which elements are removed: the
    lemmas about `Nth` and `Remaining` say that what stays keeps its order;
  * `Served`: the manager knows the link of a blocked request until it has flushed the element;
  * `Room`, with `QuickResolve`: one resolution at a time, and the news of the next link behind its answer.

  The flush skips the neighbour of what it removes, and is complete because a peripheral has at most one element
  of a link: the resolutions are queued under no connection.
* `Exclusion`, `NoneForgotten`, `CleanEvents`, `EnoughRequests`, `RmTypeCorrect` (`ResourceManagerProofs`). The invariant
  `IInv` is the types with
  * `Lists`: a request is free or in the list, once;
  * `Callers`: a request in the list belongs to exactly one task inside `resource_acquire`;
  * `Flags`: the semaphore of a request agrees with its granted flag, except for a task that has just
    been woken by it;
  * `Shares`: what is acquired is divided among the tasks and the granted requests;
  * `Lacks`: a request that is not granted lacks a resource.

  They are proved of `RmSpec`, whose steps are those of any callers that release what one task holds. That the
  two adapters are such callers is `UsesManager`, the property `RmSpec` of their runs, proved for both below; with it the
  theorems carry over to them.
* `ManagerIsUsed`, `TransfersOwn`, `AllGivenBack`, `NoDeadlock` (`SpiAdapterProofs`): `UsesManager`, `TransferOwnsBus`, `NothingLeaks` and
  `NoCircularWait`. The idea is that of a session: what is done with a device between its acquisition and its last
  release. A session belongs to a task, is handed to an asynchronous transfer, from there to the interrupt, and from
  the interrupt back to a task that waits for its callback. `Got` and `OnAir` say what has been acquired in a
  session. The parts of `SInv`, which is inductive together with `IInv`:
  * `Apart`, `Told`: sessions have nothing in common, and together they are what the manager has given to the tasks.
    So a release gives back what one task holds, whoever makes it, and nobody else is on the bus of a session;
  * `AgentInv`: the owner and the counts of a device, and the set-up of its bus, follow from the place of whoever
    has the session (`Counts`, `SetUp`). For that the counts need no critical section: nobody else changes them;
  * `IsrInv`, `TransferInv`, `WaitInv`: a transfer is the session of one task, a nested one leaves one release to the task that
    waits, and whoever waits is told;
  * `CallInv`: what a task that waits has asked for;
  * `Free`: a device without a session has no owner and zero counts;
  * `SetUps`: what is set up is what was set up last, or nothing after a sleep.

  That there is no circle follows from the order of the acquisitions, read off `Got`: what a task waits for is
  in no session of a task that waits for the same or less. It takes `Lacks` and `Flags` of the manager, that a
  task which waits lacks something, and that what is acquired is in a session or about to be.
* `UsesTheManager`, `ConverterIsLocked`, `OwnSourceIsRead`, `ConverterIsFreed` (`GpadcAdapterProofs`): `UsesManager`,
  `GpadcLocked`, `ReadsOwnSource` and `GpadcFreed`. The first two depend on each other, as the manager excludes the
  tasks only if they release what they hold: `IInv` and `GInv` are proved together. The parts of `GInv`:
  * `PlaceInv`, `CallInv`: which reading, and which call of the manager, a task can have at each place;
  * `HoldInv`: a task that holds the converter, by its place or by the interrupt that converts for it, is the
    one the manager gave it to; the count is then `Depth`, how often that task has counted itself, and what it
    has read of the count is still true when it writes;
  * `ReadInv`, `SensorInv`: what is set up is what is measured, and the sensor is on for that only;
  * `Unused`, `Conversion`: nothing is left behind.
* `NoNullEvent`, `NoEventLeft`, `TimerOfItsOwn`, `OnlyToPaired`, `StaysConnectable`, `TypesOK` (`PairingAppProofs`). The parts of
  the invariant:
  * `Announced`: a notification stands for an event that is there, and one that comes while a loop is
    about to take an event stands for another one;
  * `Trusted` (`OneLink`, `BondsPaired`, `Answers`): between the last poll and the answer the peer stays one that has
    paired, or the end of its link is in the list, from which the task takes nothing meanwhile. The end of another link
    is that of another peer;
  * `Begun`: if a connection in the list is gone already, its disconnection is behind it in the list;
  * `Advertises`, `Ends`: advertising that is off and an active link that is gone are in the list, or being
    handled.

  Order in the list is what `StaysConnectable` hangs on: the loop handles a connection after the link
  has gone, takes the link for active, and is put right by the event behind it.

* `AssertionsHold`, `TablesTrue`, `BitsAreOnlyCleared`, `StoreImplemented`, `TypeCorrect` (`VesProofs`): `AssertsHold`, `TablesExact`,
  `OnlyClearsBits`, `ImplementsStore` and the types. A loss of power forgets everything but the flash, so the invariant has
  a part about the flash alone, from which the next start rebuilds the rest. The parts of `IInv`:
  * `Cells`, `OneEach`: an address has one current and one old copy at most, and what is not written is erased;
  * `OffInv`: `Shapes`, that sectors are filled from the first container to the last and at most one is half full; and
    `Recoverable`, that there is a sector without anything live, or an interrupted collection can be redone
    (`CanResume`): the sector it filled has room for what is still to be rescued from another one, which is not sector 0,
    as the first collection after a start does not look there;
  * `ScanInv`: the tables agree with the part of the flash that was scanned, and the rest keeps `Recoverable` true;
  * `Tables` (`CatExact`, `DirtyExact`, `FreeExact`, `CurrentExact`): they agree with all of it from then on;
  * `GcInv`: `RescueRoom`, that what is still to be rescued fits, also when the collection is done again. That
    the dirtiest sector leaves room is a matter of counting: if no sector did, the copies of all sectors but two would be
    more than there are of all addresses, which is where the size of the partition comes in;
  * `WriteInv`, `ReadyInv`: a write finds a free sector, and what it has programmed is what was asked.

  The refinement follows the copy that counts (`KeptAt`): the current one, or the old one if there is no other. Of the
  steps of a move only `Store` changes which one that is, and it is a step of the store in a write, and none in a
  collection or a recovery. `Progress`, that the pairs of a write before the one at hand are written and that their
  addresses differ, is needed for the end of a write; it was checked with `IInv` on an instance before the proof.

Only model-checked: all liveness, which is out of the reach of the proof system, as is ENABLED, among it
`CollectionEnds`; and what the hypotheses leave out, like a threshold of the collector. No module uses RECURSIVE operators. The one recursive function of `GtlWaitqueue`, `Removed`,
is reasoned about by its equation at each position, without induction.

## 5. Not modelled

* Queue variants that the applications do not configure (`BLE_MGR_USE_EVT_LIST = 0`, passthrough), the
  commit bit of the storage, NVPARAM and clock requests of the adapter.
* Contents of messages and events, error codes, allocation failures (the heap asserts).
* The stack, beyond what is said above; FreeRTOS, beyond the meaning of its calls.
* Resource manager: `CONFIG_RESOURCE_MANAGEMENT_DYNAMIC_MEMORY`, and `resource_add`, a counter. SPI: opening and
  closing, one device per bus, exclusive opening. Converter: its registers beyond the source and the
  sensor. VES: the optional CRC, a program operation that is itself torn, two sectors.
* I2C adapter: its acquisition and release are those of the SPI adapter line by line.
* The components listed `not_modelled` in `PROJECT.json`, with the reason for each.

## 6. What could come next

1. `LockOrder`: the locks of the storage, the device parameters, the wait queue and the interface, and
   the response queue, as each handler takes them; circular waits of two tasks.
2. `GapBonding`: the limit of bonds with several links, keys, reconnections; then `BondStorage`: dirty flags,
   the commit by the manager task over `VesStore`, restarts.
3. A measure for the collections of `Ves`: each one gains a container, so that it ends also without a model checker.
4. The charger state machine and the system watchdog.
