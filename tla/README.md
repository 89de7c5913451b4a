# TLA+ verification of esp-matter

This directory holds TLA+ models of the parts of esp-matter that have a protocol
of their own: state kept across restarts, tasks that share data, and requests
that live across callbacks. TLC checks them on small instances; TLAPS checks the
proofs of theorems that hold for every instance. File names below are relative
to `components/` unless they begin with `examples/` or `docs/`.

## The system

An application links the library, builds a *node* of *endpoints*, each with
clusters and attributes, and calls `esp_matter::start()`. From then on the
Matter task serves controllers (read, write, invoke), and tasks of the
application change attributes and add or remove endpoints. Bridges add endpoints
at run time, one for each device of another network, and bring them back after a
restart. A node can also be a controller of other nodes, or provide firmware
images to them.

| Part | State | Operations that change it | Where |
|---|---|---|---|
| Endpoint list and ids | endpoint list, `min_unused_endpoint_id` in RAM and NVS | create, resume, destroy, enable, disable, set_parent_endpoint | `esp_matter/data_model/esp_matter_data_model.cpp` |
| Node start, factory reset | started flag, the KVS namespace, the init task | start, factory_reset | `esp_matter/esp_matter_core.cpp` |
| Stack lock | the SDK's mutex and the nesting of scopes | ScopedChipStackLock | `esp_matter/esp_matter_core.cpp`, `.h` |
| Bridge library | id array in RAM and NVS, info of each device in NVS | initialize, create_device, resume_device, remove_device, factory_reset | `esp_matter_bridge/esp_matter_bridge.cpp` |
| Console bridge | list of devices | add, remove and reset commands, resume at boot | `esp_matter_bridge/esp_matter_console_bridge.cpp` |
| Bridge application | device list and count, address and type of each device in NVS | create, remove, resume at boot, reset button | `examples/common/app_bridge/app_bridged_device.cpp` |
| Zigbee bridge | two tasks and two locks | device found, attribute written | `examples/bridge_apps/zigbee_bridge/main/` |
| Attribute store | values in RAM and NVS, bounds, deferred-write timers | create, destroy, update, report, set_val, add_bounds, set_deferred_persistence | `esp_matter_data_model.cpp`, `private/esp_matter_nvs.cpp`, `esp_matter_attribute_utils.cpp` |
| Data model provider | init callbacks, data versions | Startup, WriteAttribute, walks of the list | `esp_matter/data_model_provider/` |
| Client | one pair of pending callbacks, request handles | connect, its two callbacks | `esp_matter/esp_matter_client.cpp` |
| Controller commands | one object per command in flight | send, connection and response callbacks, resubscription | `esp_matter_controller/commands/` |
| OTA provider | requestors, candidate cache, task and queue, BDX session, download | query, apply, notify, block transfer | `esp_matter_ota_provider/src/` |

How they meet: an endpoint id is part of every attribute key in NVS and of every
bridge record, so all of them rest on ids being unique and not reused. The
console bridge and the bridge application call the bridge library, which calls
the endpoint list. A factory reset erases the node's namespace and leaves the
bridge's. Setting an attribute calls the application before and after. The
stack lock is what keeps tasks apart in the endpoint list; it is also what the
OTA provider's candidate task and the Zigbee task wait for.

What is hard about it: nearly every operation is several NVS writes and power
can fail between any two; results of NVS writes are often ignored; keys have
moved between firmware versions and are migrated at boot; a firmware update can
change the endpoints an image creates; callbacks set attributes from within a
set; the endpoint list is walked by one task and changed by others; objects
delete themselves in whichever callback comes last. `hazards` in `PROJECT.json`
lists these line by line.

Correctness, in short: ids are unique and are not given out twice; what the
bridge has acknowledged comes back and what was removed does not; NVS is
consistent wherever the power fails; values stay within bounds, come back after
a restart and agree with what the hardware was told; tasks do not follow freed
pointers and do not wait for each other; what is sent to a node is the image it
was offered; every request ends and its memory is freed once.

## Modules

| Module | Models |
|---|---|
| `EndpointTable` | endpoint list, id counter, start, factory reset, restart, update; one step per call |
| `Bridge` (extends it) | the bridge library, cut at its NVS writes |
| `ConsoleBridge` (extends `Bridge`) | the console commands and the resume loop |
| `AppBridge` (extends `Bridge`) | the bridge application and its own records |
| `StackLock` | ScopedChipStackLock and the mutex below it |
| `NodeTasks` (extends it) | start(), the Matter task and application tasks, access by access |
| `ZigbeeBridge` (extends `StackLock`) | the two tasks of the Zigbee bridge and their locks |
| `AttributeStore` | attributes the data model stores, the NVS copy, callbacks, timers |
| `OtaCandidates` | the candidate task, its queue, cache and timer |
| `OtaBdxSender` | the block transfer and the HTTP download that feeds it |
| `OtaProvider` (extends both) | requestor list, query, apply and notify handlers |
| `OtaService` | what the provider promises a node, abstractly |
| `ClientRequests` | connect() and the self-deleting commands, over the SDK's sessions |
| `*_proofs` | theorems about the module of that name; `ConsoleLimit_proofs` has the one about `ConsoleBridge` that counts |
| `MC*` | constants of the TLC runs |

**EndpointTable.** `endpoints` maps heap objects to what they hold; `minUnused`,
`nvMin` and `nvMinOld` are the counter in RAM, in NVS and under its previous
namespace; `phase` says how far the boot is; `image` is the list of endpoints
the firmware creates before `start()`. `issued` is a history variable.
`CreateStatic`, `Create`, `Resume`, `Destroy`, `Enable`, `Disable`, `SetParent`,
`Start`, `FinishMigration`, `FactoryReset` and `Reboot` are the operations.
The counter wraps at 2^16 as in the code (`NextId`). An update from a firmware
with the previous namespace is assumed to create no more static endpoints than
the counter it left allows for (`LegacyFits`).

**Bridge.** Operations are sequences of steps with at most one NVS write each;
`pc` is the place in the code and `cur` the `device_t` being worked on, so that
`Reboot` comes between any two writes. `Outcome` is what a write can come to:
written, lost (the library overwrites the result of `nvs_set_blob` by that of
`nvs_commit`) or refused (`nvs_open` failed). A reset of the bridge can clear the
array in RAM and fail to store it. Setting the device type stores attribute
values, and a live endpoint may store one at any time (`StoreAttribute`), also
after a node reset has erased NVS and before the restart that follows. History:
`acked` (devices whose creation returned), `gone` (ids whose removal returned)
and `late` (ids with values stored between a reset and its restart).

**ConsoleBridge, AppBridge** add the callers: their lists, the resume loop over a
copy of the array, and what they do with the library's result. `told` of
`AppBridge` is history: the devices the application reported as created, unless
the id has two slots (`Doubled`), which only a node reset brings about.

**StackLock.** `holder` is the task that has the SDK's mutex, `scopes` the nested
`ScopedChipStackLock` objects of each task with the status each got. `Lock` and
`Unlock` are constructor and destructor: only the scope that took the mutex
gives it back.

**NodeTasks.** Each task has a `pc`; a step is one access to shared memory or NVS,
so `heap` and `next` are the objects and pointers themselves and a task can hold
a pointer (`mine`, `at`) into memory another has freed. `Start` is the main task
with the init task and its notification, `MatterTask` the walk of the list that
serves an interaction, `CallStep` the calls of application tasks. `Holding` says
which calls are made with the stack lock held, as `docs/en/faq.rst` advises, and
`Early` which tasks call while `start()` runs. After `start()` the main task is
one more application task.

**ZigbeeBridge.** The Zigbee task and the Matter task, the Zigbee lock
(`zbHolder`) and the stack lock; where each task takes which is the whole model.

**AttributeStore.** `attrs` maps heap objects to path, value, maximal size and
flags; `stack` holds the calls of `set_val_internal` between the assignment and
the NVS write, which is where POST_UPDATE runs and may set values again;
`timers` are the active deferred writes; `freed` is what memory holds of objects
freed with their timer active; `nv` and `nvOld` are NVS under the current and
the previous key; `driver` is what the application last drove the hardware to.
A report comes after the hardware has changed; one outside the bounds fails and
leaves the hardware as it is. History: `durable` (values counted as stored),
`failed` (paths whose last write got no further than PRE_UPDATE or whose last
report failed), `dangling` (paths destroyed with a deferred
write pending). A string restored from NVS goes through an uninitialised value
in the code, so `Restored` chooses its size and maximum from `Garbage`.

**OtaCandidates.** `queue` and `cache` are the FreeRTOS queue and the cache of
ledger records, `task` the result the candidate task is about to hand to its
callback. `Fetch` is one query of the task, with expiry, eviction and lookups of
the ledger that may fail; `UpdateCache` is the periodic action.

**OtaBdxSender.** The fields of the sender, the state of the SDK's transfer
session, and `pos`, how far the HTTP connection was read. An image is a sequence
of units, the first being its header; a block is what the reads put into the
buffer, and what they did not write is `Junk`. `got` is what the node received.
The file that the init message names is not looked at. A session that waits for
its init message has no timer, nor one whose init message was not accepted
(`stalled`): only from the acceptance on does it end by itself (`Begun`).

**OtaProvider, OtaService.** The query handler keeps one command handle
(`handle`), the Matter task waits for room in the queue with the stack lock held
(`sending`), and the candidate task looks the requestor's entry up and writes it
without the lock, in two steps (`FindEntry`, `WriteEntry`), before it takes the
lock to answer (`Send...`). An entry freed between the two makes the write a
stray one, into free memory or into an entry made since. `Crash` is an entry
removed and created again meanwhile: its URL is empty, `strrchr` returns a null
pointer and the device faults and restarts. `offered` is history, the last offer
made. `OtaService` has only the query being worked on, the node that may
download and the last answer; the refinement mapping is `handle`, the sender's
node while it is initialised, and `answer`.

**ClientRequests.** `live` is what is allocated; `waiting` says whose session a
Callback of the SDK waits for, `context` what the static pair of `connect()`
points to, `reader` what the interaction client of a command is doing, `invokes`
how many invokes still carry the address of a `cluster_command`, which is deleted
when it is sent. A session that comes up runs all callbacks that wait for it in one step, as the SDK does.

## Runs

Seven runs pass, with deadlock checking on.

| Run | Question | Distinct states |
|---|---|---|
| `console_crash` | With working NVS, no previous keys, a restart or a reset at any step, and updates that drop the aggregator and bring it back: is what was acknowledged stored and back after a restart, does what was removed stay away, is no other record erased, and is no id given out twice? | 104319 |
| `console_faults` | With any NVS write or open failing, after an update from a firmware with the previous keys: is every bridged endpoint held by the console, and are live ids unique? | 138688 |
| `app_crash` | With a restart at any step and resets of the node between operations: do the devices the bridge application reported come back with their address and one slot each, and does a new endpoint start without old attribute values? | 299178 |
| `attr_store` | Do bounds, persistence, deferral and the hardware agree, with nested updates, destruction and restarts? | 234080 |
| `ota_provider` | With two nodes, lost answers, failing lookups and connections, timeouts and entries that come and go: does an offer fit the query, is what is sent what was offered last, is every query taken on answered, does every transfer that was begun end, and is it an `OtaService`? | 162678 |
| `node_tasks` | With three tasks interleaved access by access and power loss at any of them, callers holding the lock: is no freed memory followed, do init callbacks run once, do `start()` (unless the init task gives up) and all calls return, and do the tasks implement `EndpointTable`? | 54920 |
| `client` | Whatever sessions and peers do: has every command exactly one owner that will delete it, is the end of a subscription told, are retries bounded, and does every command come to an end or to a subscription that stands? | 226480 |

Five runs end in a violation, each of one property that a line of the
repository states; `findings` in `PROJECT.json` quotes it.

| Run | What TLC shows |
|---|---|
| `console_array_move` | The id array is erased under its previous key before it is stored under the current one; a restart in between loses the devices. |
| `app_stale_slot` | A restart inside a creation leaves a slot; a node reset restarts the ids; the reused id gets a second slot; at the next boot the second resume is refused and erases the record of the live device (`esp_matter_bridge.cpp:379`). The application skips such a slot at boot for want of an address; the console resumes every slot it finds and is not affected. |
| `start_window` | A task creates an endpoint while `start()` runs on a device that was started before. Its id comes from the counter of the static endpoints; `start()` then overwrites the counter by the stored one, and the next endpoint gets an id in use. Holding the stack lock does not help, as `start()` does not take it there. |
| `zigbee_deadlock` | The Zigbee task enables an endpoint, which takes the stack lock, under the Zigbee lock; the Matter task, with the stack lock, waits for the Zigbee lock to pass a command on. |
| `client_two` | `connect()` has one static pair of callbacks (`esp_matter_client.cpp:94-100`): a second request takes it away from the first, whose session comes up without its callback being called, and whose handle is not freed. |

A run lists the properties it is there for. `AppTypeOK`, `ProvTypeOK`,
`TasksTypeOK` and `ClientTypeOK`, the proved `TableTypeOK`,
`IdsStayReserved`, `OneObjectPerPath`, `SlotConsistent` and `HeldByOutermost`,
and `TableSpec` for the console bridge hold on the same
instances and can be added to the configurations as they are.

### What the passing runs assume

Several passing runs hold for one choice of constants and not for another. The
choice is where the code relies on something it does not check. Each line names
the change to a configuration with which TLC finds the property violated, when
it is checked alone.

| Change | Property | What happens |
|---|---|---|
| `console_crash` with `NoBridge == <<"root", "aggregator", "other">>` | `UniqueIds` | After an update that adds a static endpoint, `start()` (`esp_matter_core.cpp:401`) loads a counter below the ids just used and the next `endpoint::create` takes a live id; `esp_matter_data_model.h:180` promises a unique one. |
| `app_crash` with `INVARIANT FullMeansFull` | that | The device count is not decremented on removal (`app_bridged_device.cpp:261`): the list is called full while it has room. |
| `attr_store` with `INVARIANT DriverFollows` | that | `WriteAttribute` calls PRE_UPDATE before its checks: a refused write has already driven the hardware, while `docs/en/developing.rst:684-689` says that the database follows the driver. |
| `attr_store` with `Nonvolatile = {level, label}` | `StoredComesBack` | A non-volatile string comes back longer than it was stored if the uninitialised size it is read into is larger (`esp_matter_nvs.cpp:68`). It depends on what the stack holds: the model says it can happen, not how often. |
| `ota_provider` with `PROPERTY BusyMeansTransfer` | that | If preparing the transfer fails, the sender stays reserved for its node with no session that could end (`esp_matter_ota_provider.cpp:138`): other nodes are told to wait for a transfer that is not there, until that node asks again. |
| `ota_provider` with `HttpFaults = TRUE` | `BlocksAreImage` | A read cut short is taken for a full block or for the end of the image (`esp_matter_ota_http_downloader.cpp:135`). |
| `node_tasks` with `Holding` without `"update"` | `NoDangling` | An attribute found by one task is written after another has destroyed its endpoint. |

The runs and theorems about `NodeTasks` are about callers that keep calls apart,
by holding the stack lock around each as `docs/en/faq.rst` advises, and that make
no call before `start()` has returned. The library does not see to either, and
some callers in the repository do not hold the lock:
`app_bridge_create_bridged_device` and `app_bridge_remove_device`
(`examples/common/app_bridge/app_bridged_device.cpp:192`, `290`), unless their
own caller does, and the driver of the light
(`examples/light/main/app_driver.cpp:78`, which destroys nothing). For those the
models promise nothing; `PointersStayValid` says that a dangling pointer takes
two calls that overlap. An init task that gives up
(`esp_matter_core.cpp:186-189`) does not notify, and `start()` waits for ever;
`StartReturns` names that case (`InitGaveUp`) and excludes all others.

### Bounds

* `Handle`: four or five heap objects. With `MaxEndpoints` 4, one root and one
  aggregator this leaves two bridged devices, so the array can be full with
  both orders of slots, and one object more than the limit.
* `IdBound` 3 to 5: no endpoint is created at or beyond this id. Five allows
  three creations after boot, so a removed id, a reused slot and a fresh id
  coexist. `app_crash` has 4, which with node resets that restart the ids is
  enough for a reused id with two slots. `console_faults` has 3: the migrated device is joined by another only
  when a reset, or a counter that cannot be read, restarts the ids. The wrap of
  the 16-bit counter is out of reach.
* `MaxDepth` 2: an update inside a callback, and none inside that one; a callback
  makes one update at most. The theorems hold for every depth.
* `attr_store`: two objects, one number (bounds 1 to 2, an older firmware's 3 in
  NVS, inputs 0, 2 and null) and one string (inputs empty, as long as allowed,
  too long). Two objects let a timer outlive its object while another, or the
  same path, lives at that or another address.
* `node_tasks`: the main task, the Matter task and one more; a root endpoint and
  one other (`MaxEndpoints` 2, four objects), so that two tasks create, destroy
  and update the same endpoint. Ids up to 3.
* `ota_provider`: two nodes of one product, one of which was updated before, two
  newer versions that apply to different old ones, images of three units in
  blocks of two, so that there is a first, a last and a short block; a queue of
  one, so that it is full; an age of one (`MaxLife`). With one product no record
  is evicted from the cache; the theorems cover eviction.
* `client`: two commands, one request, two peers, one retry, one unanswered invoke
  per address: commands meet at one peer or wait for different ones, an address
  is used again while an invoke carries it, and a subscription can use up its
  retries. `client_two` has two requests and one command.
* `Symmetry` permutes `Handle` only, in runs without liveness properties.

### Fairness

Nothing is assumed of callers, controllers, peers or restarts: none has to act.

* `EventuallyStored`: `WF(Persist)`, a call of `set_val_internal` that has begun
  goes on; `SF(TimerFire(a))`, a timer is not enabled while a call is in
  progress, and the event loop of the Matter task runs due timers between
  events; new updates do not restart an active timer, so they cannot put it off.
* `StartReturns`, `CallsReturn`: a task that can run does (WF); a task that waits
  for the mutex gets it if it becomes free time and again (SF). FreeRTOS hands a
  mutex to a waiting task, and the Matter task sleeps between events.
* `ImplementsService`, `TransferEnds`: the candidate task runs when it can (WF),
  the Matter task gets its turn at the queue (SF; it competes with a timer of 36
  hours only), and a transfer that its node has begun ends or times out after
  five minutes (SF, as other commands come between). Nothing is assumed of a
  session whose node has not begun, which no timer ends and which can keep the
  sender for ever; `TransferEnds` lets a begun transfer end in such a session, as
  a node that asks anew gets one.
* `CommandsSettle`: the SDK ends every session set-up and
  every exchange, with a result or by its timer, and its resubscription timer
  fires (WF, per peer and per command).

## Refinement

* `ConsoleBridge` and `AppBridge` implement `TableSpec`, the specification of
  `EndpointTable`; they share its variables, so the mapping is the identity
  (proved for `ConsoleBridge`; for `AppBridge` it can be added to `app_crash` as
  `PROPERTY TableSpec`).
* `NodeTasks` implements `TableSpec` too (`ImplementsTable`, checked): although a
  call is a dozen accesses, it looks like one step. The mapping counts an
  endpoint from the moment its id is saved until it is unlinked.
* `OtaProvider` implements `OtaService`: the safety part is proved for every
  ledger, cache and set of nodes, the promise that every query is answered is
  checked (`ImplementsService`).

## Theorems

For every value of the constants that satisfies the named assumptions of the
modules (`ConstantsAssumption`, `BridgeAssumption`, `AttrAssumption`,
`CandidatesAssumption`, `BdxAssumption`, `ProviderAssumption`,
`StackLockAssumption`, `TasksAssumption`, `NilAssumption`,
`ClientAssumption`), which TLC evaluates in the runs:

| Theorem | States | Further assumption |
|---|---|---|
| `TypeCorrect` | `TableSpec => []TableTypeOK` | |
| `IdsUnique` | `TableSpec => []UniqueIds` | `NonGrowing` |
| `IdsReserved` | `TableSpec => []IdsStayReserved` | `NonGrowing`, `ReliableNvs` |
| `NeverReissued` | `TableSpec => IdsNeverReissued` | `NonGrowing`, `ReliableNvs` |
| `ConsoleTypeCorrect` | `Spec => []ConsoleTypeOK` | |
| `ConsoleImplementsTable` | `Spec => TableSpec` | |
| `ConsoleIdsUnique` | `Spec => []UniqueIds` | `NonGrowing` |
| `CrashConsistent` | `Spec => []ArrayHasInfo` | `ReliableNvs` |
| `NothingOrphaned` | `Spec => []NoOrphans` | |
| `WalksEnd`, `ConsoleWalksEnd` | `TableSpec => []ParentWalkEnds`, `Spec => []ParentWalkEnds` | `RootFirst` |
| `RemovedStayRemoved` | `Spec => []GoneStaysGone` | `NonGrowing`, `ReliableNvs`, `AggregatorsStay` |
| `RecordsInStep` | `Spec => []RecordsAgree` | the same |
| `ErasesOnlyItsOwn` | `Spec => []ErasesOnlyRemoved` | the same |
| `CreatedPersist` | `Spec => []AckedPersisted` | the same, `TypesKept` |
| `CreatedComeBack` | `Spec => []AckedComesBack` | the same, `TypesKept` |
| `NodeWithinLimit` | `Spec => []WithinLimit` | `NonGrowing`, `ReliableNvs`, `AggregatorsStay`, `StaticsFit` |
| `AttrTypeCorrect` | `Spec => []AttrTypeOK` | |
| `OneObject` | `Spec => []OneObjectPerPath` | |
| `StaysWithinBounds` | `Spec => []WithinBounds` | |
| `StoredReturns` | `Spec => []StoredComesBack` | `NumbersOnly` |
| `HardwareAgrees` | `Spec => []DriverMatches` | |
| `NoDeadlock` | `Spec => []NeverBothWait` | |
| `OffersFit` | `Spec => []OfferFits` | |
| `EntriesFilled` | `Spec => []FilledBeforeOffered` | |
| `CacheUnique` | `Spec => []OneRecordPerProduct` | |
| `SenderConsistent` | `Spec => [](SlotConsistent /\ DownloadIsOffer)` | |
| `ProviderImplements` | `Spec => Service!Spec` | |
| `ImageIsSent` | `Spec => []BlocksAreImage` | `HttpFaults = FALSE` |
| `ScopesNest` | `Spec => []HeldByOutermost` | |
| `DisciplineExcludes` | `Spec => [](OneInside /\ NoOverlap)` | `Disciplined` |
| `PointersStayValid` | `Spec /\ []NoOverlap => []NoDangling` | |
| `CallbacksRunOnce` | `Spec /\ []NoOverlap => []InitOnce` | `QuietStart` |
| `CommandsOwned` | `Spec => []CommandOwned` | |
| `RetriesAreBounded` | `Spec => []RetriesBounded` | |
| `EndsAreTold` | `Spec => []EndIsTold` | |

* `NonGrowing`: no update installs an image with more static endpoints.
* `ReliableNvs`: NVS does not fail and no previous firmware left its keys.
* `RootFirst`: every image creates an endpoint; `node::create` makes the root first.
* `AggregatorsStay`: two images that have aggregators have the same ones; an
  update may still drop all of them and another bring them back.
* `TypesKept`: an update knows the device types of the image it replaces.
* `StaticsFit`: an image creates at most the root and `AggregatorCount` endpoints,
  the count `MAX_BRIDGED_DEVICE_COUNT` is derived from.
* `NumbersOnly`: no non-volatile attribute is a string.
* `HttpFaults = FALSE`: a read returns as much as was asked for.
* `Disciplined`: every call is made with the stack lock held.
* `QuietStart`: no task calls before `start()` returns, and the init task succeeds.

Without `NonGrowing`, `NumbersOnly` and `HttpFaults = FALSE` the property fails: see "What the passing runs assume".

**Uniqueness.** `UniqueIds` is not inductive: `Create` would break it if the
counter were at or below a live id, and `Start` if NVS held such a value.
`CounterAbove` adds that the counter is above every live id and that every
stored copy is at or above the number of endpoints the image creates.

**Reserved ids.** `ReservedInv` adds that the stored counter is the one in RAM
once the node is up, unless a factory reset has just erased it.

**Console bridge.** Every step is a step of `TableNext` or leaves the table's
variables alone. This needs the type invariant: the endpoint an operation works
on is live and bridged (`CurOK`). `UniqueIds` follows for the console bridge
without a second proof.

**Crash consistency.** `ArrayInv` says that RAM and NVS hold the same array, that
every stored id has its info, and what holds half-way: the info is stored before
the array (`c_array`), and the array is cleared before the info (`e_info`).

**Parents and orphans.** `StaticInv` says that the endpoints that are not bridged
are those of the image, without a parent and never destroyed; `ParentsInv` that
a bridged endpoint has no parent, an aggregator, or the root (`resume` allocates
a zeroed endpoint). `OrphanInv` says that the bridged endpoints are those of the
console's list and the one in `cur`, at every label; `NoOrphans` is the case of
an idle console.

**Records of the bridge.** The five theorems on what is stored, removed and comes
back rest on one invariant, `BridgeInv`: which ids the array, the infos, the
copy the boot loop goes through (`todo`) and the list hold at each label, that no
id is in two slots, and that ids of removed devices are below the counter.
`AckedInv` adds that no image refuses an acknowledged device, and that what is
being erased is not one. `AggregatorsStay` is needed because of devices whose
aggregator the image lacks: they keep their slot and have no endpoint. For
`WithinLimit`, each bridged endpoint has an id of its own in the array
(`BridgedStored`), and the array has `MaxBridged` slots; `resume` checks no limit.

**Stored values.** `StoredComesBack` speaks of idle states only. `StoredInv` says
of every state that NVS holds what was counted as stored (`NvsAgrees`), that a
value that differs from it has its timer or its call still to come
(`WriteToCome`), and that a timer without its object belongs to a dangling path
(`RemainsDangle`). The step of storing uses `WithinBounds`: a stored value is in
bounds, so adding them after a restart leaves it alone.

**Hardware.** `DriverMatches` speaks of attributes that exist. `DriverInv` adds
that the hardware is not driven before the bounds are added (they may change the
value) nor while no object has the path (a later one starts from its default).
A call drives one path, and by `OneObject` no other object shares it.

**OTA provider.** One invariant carries all of its theorems. `CallInv` says where
the query in progress is: with the Matter task, in the queue or with the
candidate task, in one of them only, so that the Matter task is not waiting for
room while the candidate task waits for the lock. `CacheInv` says that every
record is a version of the ledger (`Sound`) and no product has two; it needs
that a search which finds no record to use has expired the one there was
(`SearchedClean`). `FoundInv` carries the fit from the cache to the answer,
`EntryInv` from the answer to the requestor's entry, `SlotInv` to the sender.
`ImageInv` adds for `ImageIsSent` that the blocks received are the image up to
the position of the connection.

**Stack lock.** `DepthInv` gives the number of open scopes at each label: none
outside a call, one inside, two where the library takes the lock itself. With
`HeldByOutermost` it follows that a task inside a call holds the mutex.

**Pointers.** The endpoint list is the least set that has the head of the list and
is closed under `next`, so no induction along it is needed. `PointerInv` says
that listed objects are allocated, and for the labels of a task what its
pointers refer to (`PlaceOK`): a listed object, one not yet linked, or one just
unlinked. With `NoOverlap` (at most one task is inside a call) a step of one task
leaves the places of the others alone; whether a lock or something else keeps
calls apart plays no part, and `Disciplined` is one way to have it. Calls during `start()` and a failing init task are allowed.

**Init callbacks.** `StartInv` says that the init task is scheduled once, before
`start()` returns. `CountInv` says that no callbacks have run before it, and that
afterwards they ran once for every object except the one a task is creating.

**Client.** `CommandOwned` and `EndIsTold` need `ToldInv` (nothing is told of a
command that waits for its session); `RetriesBounded` needs `RetryInv` (the
count runs one ahead of the resubscriptions sent while the timer runs).

The leaves of the proofs are for Zenon, which each module makes the default; the
ones that need arithmetic, sequences or records name SMT. `tlapm` checks each
module in a few minutes.

Checked by TLC only: everything that needs fairness (`EventuallyStored`,
`TransferEnds`, `StartReturns`, `CallsReturn`, `CommandsSettle`,
the liveness of `ImplementsService`), which is beyond the
prover; and `NoLeftoverAttrs`, `ImplementsTable` and all of
`AppBridge`, for which no inductive invariant has been worked out.

## What the models leave out

* Failing allocations, everywhere. NVS failures are in `EndpointTable` and
  `Bridge`; `AttributeStore` and `NodeTasks` assume that NVS works.
* `Bridge` has one calling task and resets from another; several tasks are in
  `NodeTasks`, for the endpoint list. All users of the lock wait without a
  timeout, so its `FAILED` status is not reached there; lock tracking is assumed
  to be compiled in. Static endpoints are created before any other task runs. An
  `abort` on an error of `chip_init` is a restart.
* Clusters as objects; endpoints stand for them. Arrays, override callbacks and
  attributes managed by the SDK. Numeric widths of values: they are abstract
  numbers compared with bounds, null being one of them.
* In `StoredComesBack` and `EventuallyStored`, paths destroyed with a deferred
  write pending: the timer then reads freed memory and may store an old value
  under the erased path. No example both defers an attribute and destroys its
  endpoint. `DriverMatches` exempts strings: setting an empty string succeeds
  and leaves the old one.
* An attribute value whose migration is cut off between erase and store is lost,
  as with the id array; `StoredComesBack` counts it as stored from the second
  write on. The id counter has the same window, so `IdsNeverReissued` is stated
  for nodes without a previous namespace.
* OTA: delays, the update action and `mHasNewVersion`, which only fill fields of
  answers; a task that cannot be created after its queue was (queries are then
  taken on and not answered); ledger entries without a URL; ages of cached
  records beyond 255, where an 8-bit comparison comes into play; reads that
  return nothing for ever, on which the download loops. The SDK keeps a command
  alive while its handle is held, so the branch for a lost handle is not reached.
* Client: group requests and their settings, the binding manager, the values and
  data reports, `keep_subscription`. A command whose send fails is deleted and the
  application is not told. `cluster_command` passes its own address to callbacks
  and is deleted after the call; the callbacks of the repository do not follow it.

## Not modelled

The `not_modelled` components of `PROJECT.json` with their reasons. The models
cover the protocols of the library, some 3400 lines. Most of the repository is
of another kind, and a state machine of it would say nothing:

* `esp_matter/data_model/generated` and `legacy`, 89000 lines of constructors:
  ids, defaults and feature checks per cluster and device type. They call
  `cluster::create`, `attribute::create` and `endpoint::create` before the node
  starts; what those calls do is modelled once, for any cluster.
* Cluster integrations, delegate callbacks and ZAP glue, a file per cluster that
  hands calls to a server of the Matter SDK, which is not in the repository.
* Examples, 48000 lines: applications and drivers. The bridge application and the
  Zigbee bridge, which have protocols of their own, are modelled; the other
  bridges translate callbacks of radio stacks that are not in the repository.
* `tools`: scripts that run on a host.
* Controller: `pairing_command`, group settings and the commissioning window
  opener are callbacks of the SDK's commissioner, whose order is not visible in
  this code. By reading: the pairing delegate stays registered when a discovery
  cannot be started or the result of `PairDevice` is ignored, and later pairings
  are then refused; removing a key set shifts the indices being iterated over.
* Console, RainMaker, HAL, attestation store, JSON and TLV conversion: parsing and
  I/O without state of their own.
