# Verification of the HomeKit lock with NFC access

This directory holds TLA+ models of the nRF Connect port of the HomeKit ADK
(`src/adk/PAL/nRFConnect`) and of the applications on top of it
(`src/samples`), TLC configurations that check them on small instances, and
proofs that TLAPS checks for every size. The models are written from the code;
the repository has no unit tests, so the properties come from what the code's
comments and assertions promise and from what a controller of the home sees.

## Inventory

| Component | Source | State | Operations | What makes it hard |
|---|---|---|---|---|
| NFC access lists | `HAPPlatformNfcAccess.c` | three lists and a 16 bit configuration state in RAM, four flash records | add, remove, list of issuer, credential and reader keys; create; purge | several flash writes per change and a power loss in between; counts kept by hand; LRU eviction; a cascade from issuers to credentials |
| Lock application, pairing and NFC | `samples/lock/src/app.c` | none of its own; the ADK's pairings | export at start, pairing callbacks, factory reset | two stores that must agree, callbacks lost by a restart, an answer that is only logged |
| Lock application, state and keypad | `samples/lock/src/app.c` | target and current state with their context, keypad, log of attempts and timer, one stored record | characteristic handlers, codes, NFC, a hand at the lock, the keypad's timer, start | a clock that starts over, two threads that save one record, two windows |
| Timer | `HAPPlatformTimer.c` | pool of 32 slots, list, kernel timer, work item, black list | register, deregister, interrupt, work handler, teardown | interrupt, work queue and client threads; one callback per submission; references that are reused |
| Key-value store | `HAPPlatformKeyValueStore.c` | flash records, one shared I/O buffer, busy flag | get, set, remove, enumerate, purge | state read after an unlock, a purge that calls itself |
| Run loop | `HAPPlatformRunLoop.c`, `...Concurrency.c`, `...Mutex.c` | queue of 16 events, heap of contexts, run state | schedule, run, stop, release | a queue at its limit, stop against run |
| BLE peripheral manager | `HAPPlatformBLEPeripheralManager.c`, `HAPPlatformBLE.c` | GATT database, connection, pending read or write, indication flag | publish, advertise, authorize read and write, indicate, MTU exchange | Bluetooth threads against the run loop, events that arrive late |
| Firmware update | `samples/common/src/bluetooth_smp.c` | update mode, pause flag, sleep of the external flash, three timers | enter, DFU events, time-outs, resets | the SMP server's preemptible thread, two cooperative threads and an interrupt work on the same flags; time-outs that race with the transfer |
| Light bulb application | `samples/light_bulb/src/app.c` | one value per characteristic, what was notified last, the stored record, the LED | characteristic handlers, button, callbacks of adaptive lighting, start | transitions in another thread change the values while a write is being saved; changes that are not saved |
| Setup, MFi, Thread, service discovery, UARP, log, random numbers | the rest of the port | provisioned data | adapters | I/O |

How they interact. The ADK (not in this repository) calls the port's functions
on the main thread, under the run loop; it calls the application back when a
pairing changes. The application keeps the issuer keys of the NFC lists in step
with the pairings. The lists are saved in the key-value store, one record each.
Bluetooth, the interrupt of the kernel timer and the system work queue reach
the main thread through the run loop's queue or through the timer's work item.
A firmware update sets a mode that makes the timer drop some callbacks, and
every way to restart the accessory wakes the external flash for the boot loader.

What makes each component correct:

- NFC access lists: counts agree with entries; an identifier names one entry;
  no credential without its issuer; eviction takes the oldest; flash and RAM
  agree between requests; every change is counted.
- Lock, pairing: home users' keys are those of paired controllers; an unpaired
  lock is empty; what a restart cut short is made up for.
- Timer: no slot leaks, no wake-up is missed, every timer is served, nobody
  removes somebody else's timer.
- Key-value store: a call takes effect once and as a whole, with two threads at
  once; a purge ends with an empty domain, an enumeration visits every key; the
  busy flag is cleared on every return.
- Run loop: stop is honoured, and not in the middle of a write; contexts are
  freed once.
- BLE: handles lead back to their attributes; a read is whole; a central that
  keeps to the protocol is served; indications are held back exactly while one
  is to be confirmed; the end of a connection stops nothing.
- Lock state and keypad: the stored record keeps up; the context names the
  actor; a lock-out lasts as long as it should, and ends; a restart is survived.
- Firmware update: the flash is awake when it is used, and one that sleeps is
  marked so that the next chunk wakes it; a time-out resets the accessory neither
  too early nor never.
- Light bulb: LED, record and values agree between requests; a subscriber is told
  every change; what a controller wrote stays.

## Modules

```
AccessLists            what the lists promise: atomic, no flash, no counters
  ^ refined by
NfcAccess              HAPPlatformNfcAccess.c, one step per flash write
  ^ extended by          ^ proofs: NfcAccessProofs
LockNfcAccess          the lock's callbacks, pairings, restarts
                         ^ proofs: LockNfcAccessProofs
LockState              the lock's own state and its keypad
                         ^ proofs: LockStateProofs
PlatformTimer          HAPPlatformTimer.c and the update mode
                         ^ proofs: PlatformTimerProofs
RecordStore            what the store promises: each call atomic
  ^ refined by
KeyValueStore          HAPPlatformKeyValueStore.c, two threads
  ^ extended by
RunLoop                HAPPlatformRunLoop.c, which waits for the store
                         ^ proofs: RunLoopProofs
FirmwareUpdate         bluetooth_smp.c: update mode, time-outs, sleeping flash
                         ^ proofs: FirmwareUpdateProofs
LightBulb              the light bulb's values, record and transitions
                         ^ proofs: LightBulbProofs
GattDatabase           the services of the accessory as they are built
  ^ extended by
PeripheralManager      the connection of a central with them
                         ^ proofs: PeripheralManagerProofs
MC...                  model values and symmetry for TLC
```

### NfcAccess

`issuerKeyList`, `credentialList`, `readerKey` and `configurationState` are the
statics of the same names; `flash` has one field per record of the store
domain. A handler of the code is a first step up to and including its first
flash write (`IssuerKeyAdd`, `IssuerKeyRemove`, `DeviceCredentialKeyAdd`,
`DeviceCredentialKeyRemove`, `ReaderKeyAdd`, `ReaderKeyRemove`, `Purge`),
followed by `IncrementConfigurationState`, the end of every change, and by
`RemoveIssuedCredentials` after the removal of an issuer. `pc` says where the
handler stands. The handlers run on the main thread only, so no second request
starts before the first ends; `PowerLoss` can come at any of these points.
A purge deletes one record after the other (`PurgeRecord`), as
`HAPPlatformKeyValueStorePurgeDomain` does.

Abstractions and assumptions:

- A key stands for its identifier: the truncated SHA-256 is taken to be
  injective on the keys in use. Only the reader's zeroed slot is an identifier
  of no key (`NoKey`).
- The arrays are sets. Their order is not observable: entries are found by
  identifier, and the one to evict by its counter. The removal loops copy the
  tail down with the ADK's `HAPRawBufferCopyBytes`, taken to be safe for
  overlapping buffers.
- The length of the array is `numEntries`, derived in the model, as in the
  code, from the two counts. An append past `ListSize` leads to `"overrun"`,
  where nothing is specified any more: there the system stops, and the runs that
  can get there say `CHECK_DEADLOCK FALSE`.
- Writes succeed. The code aborts, or returns an error after it has changed the
  cache, when the flash fails; that is not modelled.
- `CounterLimit` bounds the number of adds and updates. The code's counter has
  64 bits and its overflow is a TODO there. `ConfigurationModulus` is 2^16 in
  the code and 2 in the runs, so that the wrap-around happens.
- The List operations read only and are `Contents` in LockNfcAccess. The two
  setters of `HAP_TESTING` that shrink the limits for tests are not modelled.

### LockNfcAccess

Adds the pairings of the ADK (`pairings`), the pairings that the export of
`AppCreate` has still to pass on (`toExport`), the callbacks that the ADK has
still to make (`due`), and `view`, the copy of the lists some controller made
with the configuration state it had then. The ADK stores or drops a pairing
first and calls the application afterwards; that order is an assumption about
code outside of this repository, as is that every controller is an admin. All
of `app.c`'s NFC handlers are here with the calls they make. The previous
firmware may have had pairings without lists, so any set of pairings is initial.
`cutShort` remembers that the power failed in the middle of a request or before
a callback: what that leaves in the flash is NfcAccess's subject; three of the
four properties are about the time before, and no copy is followed after it.

### LockState

`state` is `accessoryConfiguration.state` without the battery and diagnostics
values, `flash` the record it is saved in, `thread` where the HAP thread and the
work queue are: idle, waiting for the store's mutex (`"save"`), in the flash
(`"write"`, with the copy that the store made), or, for the HAP thread, before
`SetKeypadStatus` (`"status"`) and before `EnableKeypadDisableTimer`
(`"timer"`). A handler is one step up to its save: `ValidateAccessCode` with a
wrong code is `WrongCode`, a save, `SetKeypadStatus` with the time read at the
beginning, a save if the keypad was closed, `EnableKeypadDisableTimer`. The
timer's callback runs in the work queue in between. The three assertions and the
`HAPFatalError` that the handlers can reach end in `failure`; only a restart
follows. The threads are taken to switch at saves only; a preemptible HAP thread
could be interrupted in other places too, but the keypad's callback, which is
all the work queue does here, touches `active` and the timer's reference, and
the save is the only place between `SetKeypadStatus`'s look at the one and
`EnableKeypadDisableTimer`'s look at the other that it can hit.

Times are in units of which a window has a few. `closedBy` and `early` are
history: who closed the keypad, and whether it was opened while its timer was
running. `actor` is whom the last request for a target state named. Right and
wrong codes come from the ADK's access code list (external). LEDs and events
change no state here and are left out, and so is identify, a timer and an LED.
`useAAD` is a choice of the build.

### PlatformTimer

`timerRepo` and `submittedTimers` are the pool and the list; `kernelTimer` is
the expiry of the kernel timer; `workPending` says that the work item is queued;
`worker` is what the system work queue is at: idle, between the unlock of
`WorkHandler` and the call of the callback ("picked"), or in the callback.
`calling` holds the clients that are past the `Initialize` of a call, which takes
and gives back the mutex by itself (`Call`), with the reference they call with;
`Register` and `Deregister` are the rest. `submitting` holds the threads between
the unlock in `HAPPlatformTimerRegister` and `k_work_submit`. `handle` is the variable in which a client keeps the
reference of its timer, used the way the code's clients use theirs
(`IdentifyTimerExpired`, `DeviceIdentify`). `preemptible` is chosen at the start
and says whether threads switch at those three places (after `Initialize`, before
`k_work_submit`, before the callback): the threads that use the
timer have cooperative priorities (`hap.c:51` and the system work queue's
default), so in this build they do not; the properties that depend on it say so.
`k_work_init` on a queued work item, which the kernel does not define, clears the
item's flags and its link in the queue. It may lose the item's place or not: both
outcomes are steps. That it could cut off other items behind it in the system
work queue is not modelled.

### KeyValueStore and RunLoop

`store` is the flash; `busy`, `mutex` and `shared` (the buffer, the name and the
arguments of the load) are the statics the operations share; `op` and `enum` are
what each thread is in. Two threads use the store: the HAP thread, from the
callbacks of the run loop, and the system work queue, from the keypad's timer
(`app.c:1094`). Both are cooperative, so an action is what a thread does from one
blocking point (the mutex, the flash) to the next. The mutex is handed to a
waiter. RunLoop adds the message queue, the heap of contexts, and `position`,
where the HAP thread is in `HAPPlatformRunLoopRun`; `Wait` is its one second
time-out. After the loop ends the accessory restarts, which is an initial state.
The text form of a name, the padding of a value and failing flash writes are
abstracted, and with them the returns of a get for a record that is corrupted
(`HAPPlatformKeyValueStore.c:350`): the flash gives back what a set wrote. Callbacks
are scheduled by the two threads only, as nothing in the port or the samples
does it from an interrupt; a context that is too large changes nothing. A callback
that finds the queue full leaks its context, as in the
code; `ContextsAccounted` says that the heap grows beyond the events that have a
context in exactly this case.

`RecordStore` is what a caller may expect: a call begins, takes effect in one
step, and returns. The mapping shows a record as it is in the flash, and of a
thread only the call it is in (`CallOf`): waiting for the mutex is part of the
call, a set takes effect at `SetWrite` and returns at `SetFinish`, and of a purge
each deletion is a step, because the keys go one by one there, too.

### GattDatabase and PeripheralManager

`db` holds the attributes and counters of the static arrays, `uuidBases` the
memory for UUIDs, `halted` what `HAPFatalError` was called for. The ADK adds
services, characteristics and descriptors in any order it may, publishes,
removes everything and starts again. `ccc_gatt` has a place per service, but
`AddCharacteristic` compares its count with half the number of attributes
(`HAPPlatformBLEPeripheralManager.c:771`): a step that goes past the array leads to
`Overrun`, after which nothing is said of the database. PeripheralManager adds the connection:
`link` is what the radio knows, `connected` what the event handlers know, and
the two differ between the loss of a link and its event. `client` is a central
that keeps to the ATT protocol. The host calls from threads of its own, but its handlers do
not block before they have changed the state, so each is an action; the order of
events is what remains of the concurrency. Sending an indication is two steps,
because `bt_gatt_indicate` may wait for a buffer: `sending` says that it does, and
`IndicationSent` ends it, sets the flag, or stops the accessory, because the link
is lost or, with the link alive, because there is no memory.

`exchange` is what became of the exchange of the MTU that the accessory asks for:
never asked, outstanding, answered, or failed. The handler of the answer is the
only place that tells the accessory an MTU; what the central asks for reaches the
host alone. `client.unaware` says that the last response was sent with the
accessory's MTU still the smallest one while the link's was larger and no answer
had come. `ReadsGiveWholeValues` and `ConformingCentralServed` except the read such
a response belongs to and the request after it, in their words as in their
formulas; the findings say what happens there. The MTU is not clamped to the
buffer (`:1162`): the L2CAP MTUs of the build, 158 or 498 with an update's overlay,
are below it. A second
connection, for which `CONFIG_BT_MAX_CONN=2` has room, does not come: advertising
ends with a connection and starts after its end, so the assertion at `:1218` holds
(`OneConnection` proves that the handler is called without a connection only).

### FirmwareUpdate

`updateMode`, `isDfuPaused` and the three timers are the statics of
`bluetooth_smp.c`; a timer is the number of ticks it has left, 0 when it is due.
`flashAwake` is what the calls of `pm_qspi_nor_wake_up` and `..._go_to_sleep`
made of the external flash. `smp` is where the SMP server's thread is in an
upload request: it is preemptible, so each look at a flag, each assignment and
each call is a step of its own (`ChunkAnnounced`, `DfuStarted`, `SetUpdateMode`,
`WakeAndSchedule`, `CancelNotStarted`, `WriteChunk`, `DfuStopped`).
`EnterUpdateMode` and `HapRestart` are the HAP thread's, `ExitDfuMode` the work
queue's; they are cooperative and come as a whole. `DfuPaused` is the interrupt
of the pause timer: as soon as the timer is due nothing else runs (`Running`).
`resetting` says that the flash was woken for the boot loader and `sys_reboot`
is next. The server announces a chunk, then the start, then writes, as the
mcumgr library does (external); which chunk of an image comes is the central's
choice, a failure is possible at each, and `OsReset` is its reset command.

The HAP thread can enter the mode between the server's look at `update_mode` and
its assignment. Work items that are scheduled are then initialised again, which
the kernel does not define; the model has the step, into a state of which
nothing is said. `age`, `began` and `pausedSince` are histories that only the
properties read.

### LightBulb

`bulb`, `prevValue` and `record` are `state`, `prevNotificationValue` and the
stored record; `hap` is where the HAP thread is: idle, waiting for the flash with
the copy that the store made (`"saving"`), before
`HAPCharacteristicUpdateDerivedTransitionValue` (`"derived"`), or in the purge of
the transitions. A write is `WriteNew` up to the flash and `SaveEnd` after it, or
`WriteSame` if the value is the old one. Transitions are the ADK's: which are
active, and the events it has still to send, are modelled from the calls that
the application makes and gets. A transition may calculate any number, also out
of range; the capping, with its unsigned comparison, is the code's. Restarts come
anywhere, and a record that was being written is the old or the new one.
Identify is left out (its timer is PlatformTimer's subject), and so is the
diagnostics value. `wrote`, `unsaved` and `overtaken` are histories.

`MCSamples` extends both modules, which share no variable, and follows one of them
in each behaviour: all that an update does to the light bulb is a restart, and
LightBulb has one at every point.

## Runs

| Run | Specification and bounds | Shows |
|---|---|---|
| NfcLists | `Spec`; 2 issuers, 4 devices, 1 reader key, 2 active and 1 suspended slot, 4 adds or updates | refinement of AccessLists, counts, cascade, eviction |
| LockNfc | `LockSpec`; 3 issuer keys, 2 of them controllers', 2 issuer slots, 1 device, 1 reader key, power loss anywhere | identifiers, cache against flash; pairings against keys, empty lock, configuration state, the export's repairs |
| LockState | `Spec`; 2 attempts in the short window of 1, 3 in the long one of 3, wrong codes until 2 | record, context, length and end of a lock-out |
| TimerThreads | `FairSpec`; 2 clients, 2 slots, 1 black-listed client, time 0..2 | slots, wake-ups, service, references |
| BleConnection | `Spec`; 2 types, 5 attributes, 3 services, MTU 3 or 4, the exchange of the MTU answered, failed or not asked for, values of at most 4 bytes | handles, types, long reads, indications |
| RunLoop | `Spec`; 2 threads, 2 keys, 2 values, purge by 1 key, queue of 1, heap of 2, 4 operations or callbacks | refinement of RecordStore, enumerations, contexts, stop |
| Samples | `SamplesSpec`; pause after 2 ticks, time-outs after 2 and 5, images of 3 chunks; brightness and a colour temperature that follows it, values 0 and 1 and one beyond each end | sleeping flash, time-outs; record, events and written values of the bulb |
| ArrayBound, CascadeCrash, BleLinkLoss, StopPending, KeypadRestart | one property each, violated | the findings below |

Why the bounds are enough. The NFC lists need a fourth device to evict from a
full active list while a suspended one is kept, a second issuer to see that a
cascade stops at its own credentials, and a counter that goes past the sum of
the slots so that slots are used again. With modulus 2 or 3 the configuration
state wraps after as many changes. TLAPS proves the properties of all
the modules for every bound, but for liveness. Type
invariants that follow from the ones that are run, or are proved (`TypeOK` and
`CountersOrderEntries` of NfcAccess, `TypeOK` of RunLoop, `UpdateTypeOK`), are not
run again. In LockNfc a third issuer key, which no controller has, fills the
list by request. For the keypad, two wrong codes close it for the short window
and a third one, after it, for the rest of the long window, so that both
windows matter; the clock goes on to the deadline of a registered timer. For the
timer, two clients share and reuse two slots, and time 2 gives a past, a present
and a future deadline. For BLE, a value of 4 bytes takes up to three requests of
MTU 3, fills one response exactly or leaves one byte, and a database of two
services is removed and built again. For the store, a purge that reads one key
at a time has to come back for the second, as the code's does after ten, and
four operations give each thread two that overlap with the other's; a queue of
one is full after one event. In an update the pause is as long as the
first time-out, so both come in either order, and the second time-out leaves
room for three chunks and the pauses between them. Of the bulb's values the
properties only tell equal from different and inside from outside.

Restarts. LockNfc, LockState and LightBulb allow a power loss at every step, as
does `CrashSpec` of NfcAccess. RunLoop, PeripheralManager and FirmwareUpdate
restart where the code does. Two things do not
survive a power loss in the middle of a request, and no run claims them: the
count of a change, when the power fails between a list and the configuration
state, so that a controller that compares states does not see the change; and
the end of a purge, when it fails after the last pairing is dropped, so that
keys stay in a lock nobody is paired with. Nothing at start-up looks for either.

Fairness. Three runs need it. TimerThreads: time passes, a pending interrupt is
taken, a thread that is in a call goes on with it (all
weak), and the work queue's thread, when it has work, runs after one of the times
that the cooperative others block (strong: the handler's step is not enabled while
one of them is between the steps of a call). Registering and deregistering are the
clients' choice and are not fair; so `EveryTimerIsServed` says that a timer
leaves the list even if other clients register immediate timers all the time:
the list is in the order of registration and the handler takes the first expired
one. RunLoop: a thread in an operation that does not wait goes on, and the run
loop takes events, returns from callbacks and looks at its state at least once a
second; the bound on work ends the stream of new callbacks, which the loop
empties before it ends. Samples: the SMP server runs, the interrupt and the work
items are served, `sys_reboot` follows the wake-up, and time passes; nobody has
to send a request, to restart or to leave the update mode, so `UpdateModeEnds` is
the work of the time-outs alone.

Mutants. Each property of a passing run has a variant of one definition, beside
that definition in its module, that makes it fail: a reversed comparison, a
count not kept, a write left out, a guard dropped.

## Findings

- ArrayBound: `UpdateDeviceCredentialEntryState` changes the state of an
  existing credential without a look at the limit of its new state. Suspending
  one more than the maximum frees an active slot while the array is full; the
  next new active credential is written past the end of `entries`. With the
  real sizes: 20 suspended and 10 active ones, suspend one of the active ones,
  add a new active one. (Reactivating does the same to the documented maximum of
  active ones.)
- CascadeCrash: the power fails between the write of the issuer list and that of
  the credential list; the credentials of the removed issuer stay, and are valid
  again when the issuer is added again.
- BleLinkLoss: an indication that is sent after the link is lost and before the
  event of the disconnection has come finds a connection that is no more;
  `bt_gatt_indicate` fails and `HAPFatalError` stops the accessory, although the
  same function holds back indications when the accessory itself disconnects.
- StopPending: a thread that waits for the store's mutex while another one ends
  its operation has not set the busy flag again; the run loop may end, and the
  accessory restart, before its data are written.
- KeypadRestart: the times of wrong codes are stored, the clock starts over with
  a restart. One wrong code, no change of the lock since, and a restart: the
  assertion `loggedTime <= currentTime` stops the accessory in `AppCreate`, at
  every start until the clock would have passed the logged time, which it never
  does. The log is written only by `HAP_TESTING` code, which
  `overlay-hk-defaults.conf:64` turns on.

Seen while modelling, without a run of their own:

- A keypad that a controller or a change of the lock opens during a lock-out
  keeps its timer (`app.c:1111`): the next lock-out registers none and ends with
  the old one; the log is full then, and the next wrong code fails an assertion
  (`app.c:1187`). `LockoutLasts` is stated for the other executions (`early`).
- With additional authorization data, a refused write of the target state leaves
  its context (`app.c:918` comes before `app.c:942`).
- In update mode the work handler drops a blocked timer without telling its
  owner, whose reference then names a slot that another client may get, and
  whose deregistration removes that client's timer (`HAPPlatformTimer.c:330`).
- `AddHapPairingLtpkAsIssuerKey` only logs an answer other than success, so with
  a full issuer list a paired controller stays without a key;
  `ExportRestoresPairings` makes the exception.
- A callback that is turned away by a full queue leaves the copy of its context in
  the heap (`HAPPlatformRunLoop.c:222`), until none can be allocated;
  `ContextsAccounted` makes the exception.
- The pause timer goes on while a request is handled (`bluetooth_smp.c:107`): it
  may send the flash to sleep after the chunk was announced and before it is
  written, or between the wake-up for the boot loader and the reset. It takes a
  second between the two, such as an erasure; `pausedSince` is the exception of
  `FlashAwakeWhenUsed`. The reset that mcumgr makes on request does not wake the
  flash at all.
- The HAP thread can enter the update mode between the SMP server's look at
  `update_mode` and its assignment (`bluetooth_smp.c:141`), which initialises work
  items that are scheduled.
- A write of the value that the bulb has only by a transition ends the transition
  and does no more: the value is neither saved nor told, and a restart brings
  back the last saved one (`light_bulb/src/app.c:600`).
- A transition that changes the value while a write of it is being saved wins; the
  handler then takes the written value for the one that subscribers know
  (`app.c:602`). Both are the exceptions `unsaved` and `overtaken` of LightBulb's
  properties.
- The accessory learns the MTU from the answer to its own exchange only
  (`HAPPlatformBLEPeripheralManager.c:425`). If that exchange fails or was never
  asked for, and the central exchanges the MTU itself, the accessory's stays the
  smallest one for the whole connection: a value that fits the link's MTU but fills
  the smallest one keeps the accessory waiting for a Read Blob Request, the next
  Read Request meets the pending operation, and the central is disconnected; a
  longer value is cut. The exception is `client.unaware`, which also stands for a
  response sent while the answer is outstanding.
- `ccc_gatt` has `kMaxServicesCount` places, but the check before an append allows
  half of the attributes (`:771`). `ConfigurationsFit` says when the array is enough:
  a characteristic with events takes three attributes, so if a third of
  `kServiceAttrMaxDepth` is at most one more than `kMaxServicesCount`. Both come from
  the build's configuration.
- With preemptible threads, a teardown between the `Initialize` of a registration and
  its lock leaves a registered timer in a module that is not initialized; the next
  `Initialize` drops it without a call of its callback (`HAPPlatformTimer.c:138`).
- The accessory asks for an exchange of the MTU once in a connection, and then its
  MTU is the smallest one; so `secondClientMTU` stays 0, and what the code does for
  a second MTU (`HAPPlatformBLEPeripheralManager.c:248`, `:442` and `:1166`) is
  never reached. `OneMtu` proves it.
- A calculated colour temperature below zero is capped to the maximum, because it
  is compared as an unsigned number (`app.c:712`).

## Proofs

Each theorem holds for all constants that satisfy the assumptions of its module.
NfcAccess (`KeysAssumption`, `SizesAssumption`): the zeroed key is no issuer's or
reader's, the limits are natural numbers, and there is at least one active slot;
nothing is assumed about the finiteness of the sets of keys. LockNfcAccess
(`ControllersAssumption`): a controller's key is a possible issuer key. LockState
(`LockStateAssumption`, `ValueAssumption`): the limits and the short window are
positive, the long window is at least as long; `None` is no record.
PlatformTimer (`TimerAssumption`): there is a slot, and the worker's "none" is no
client; the threads may be preemptible or not. GattDatabase and PeripheralManager
(`DatabaseAssumption`, `MtuAssumption`): the Bluetooth base is none of the ADK's
types, the arrays have a place and handle 0 is not given out, no MTU is below
`MtuMin`, and that is at least 3. KeyValueStore and
RunLoop (`StoreAssumption`, `RunLoopAssumption`): a record is a pair, there are
finitely many, and nobody and no value are neither a thread nor a value; the
number of threads is arbitrary. FirmwareUpdate (`UpdateAssumption`): the first
time-out is not after the second. LightBulb (`BulbAssumption`): which
characteristics have transitions and follow the brightness.

- `NfcAccessProofs`: `TypeCorrect`, `CountsCorrect`, `CountersCorrect`,
  `KeysUnique` and `RestartSafe`, all for `CrashSpec`, from one inductive
  invariant `IInv`. None of the invariants is inductive alone: that a count does
  not go below zero needs that it is the number of entries and that the entries
  are finitely many; that an update removes its old entry and leaves the other
  ones needs unique keys; and for the cached and the stored list alike it has to
  be known how they differ at each value of `pc`, because a power loss replaces
  the one by the other. `IInv` says all of that. The steps are shown by lemmas
  about `Inserted` and `Deleted`, which the handlers share.
  `EvictionIdle`: the evicted entry has the
  smallest counter of at least `MaximumActive` active entries whose counters
  differ and lie below the list's counter; a count of the numbers in between
  gives the bound.
  `IssuersVouch`, for `Spec`: the strengthening says which
  credentials may be without an issuer while a removal is under way: only those
  of `removedIssuer`, and none anywhere else, in the flash neither.
  `Implementation`, `Spec => ImplementsLists`: the mapping
  shows a change from its first flash write on: the configuration state is
  already the next one while `pc = "configuration"`, and the credentials of a
  removed issuer are already gone. So each handler's first step maps to the one
  abstract step, and all the later ones to a stutter. It rests on `IInv` and on
  the invariant of the cascade.
- `LockNfcAccessProofs`: `LockUsesLists`, `LockSpec => CrashSpec`: each step of
  the lock is a step of the lists or leaves them alone, so the theorems about
  NfcAccess hold of the lock (`LockKeysUnique`, `LockRestartSafe`,
  `LockCountsCorrect`, `LockEvictionIdle`, and without a power loss
  `LockIssuersVouch` and `LockImplementsLists`, two refinements on top of each
  other). `HomeKeysPaired`, `UnpairedIsEmpty`, `StateTracksLists` and
  `ExportRestores` rest on `LockInv`. They speak of moments at which the lock
  serves requests, and what comes back after a restart is what the flash holds;
  so `LockInv` follows the records in the flash, in each phase of a handler. For
  the configuration state it says how far the stored state is from the one that a
  controller has read, with no modulus: as long as fewer than
  `ConfigurationModulus` changes were made there are only two numbers that it can
  be. For the export it says that the pairings that have been exported have
  their key, or the list is full.
- `LockStateProofs`: `KeypadReopens`, for `Spec` of LockState and every limit and
  window. `LockoutEnds` alone is not inductive: a referenced timer must be a
  registered one (`TimerIsReal`), and the HAP thread, between closing the keypad
  and registering the timer, must neither take a request nor look at the log
  (`TimerComesNext`). Each request is then a step from a state where the timer
  is there already.
  `LockStateTypeCorrect`, `QuietIsSaved`, `ContextIsActor` and `LockoutHolds`, from
  `SInv`. It says that one thread writes at a time, and that unless a save is
  still to begin the stored record, or the copy that replaces it, is the state
  (`OneWriter`, `SaveUnderWay`); so the two saves may come in any order.
  `LockoutLasts` speaks of moments with nothing under way, and it does not say
  why the keypad opens when it does. `LockoutInv` does: a timer runs until the first
  time of each full log has left its window. That holds because
  `LongestDisableTime` is not less than either log needs and `RefreshedLog` takes
  times from the front only; between the look at the log and the start of the
  timer the HAP thread carries that time with it. (The order of the logs does
  not matter to it.)
- `PlatformTimerProofs`: `TimerTypeCorrect`, `SlotsKept`, `NoMissedWakeup`,
  `CallbackOwnsTimer` and `OwnTimerRemoved`, from `TimerInv`. The list has no slot
  twice, so that removing one removes it; the proofs about `RemoveFirst` and
  `Expired` are about positions. `WakeupArranged` holds over `k_work_init`, which may
  take the work item off its queue, because the list is cleared in the same step.
  What a client finds and removes needs
  cooperative threads: nothing comes between a call's `Initialize` and its lock
  (`CallsUndisturbed`), each timer is the one its client refers to
  (`TimersAreReferenced`), and, without an update, a reference is that of a timer
  or of the callback about to start (`ReferencesAreTimers`).
- `PeripheralManagerProofs`: `PeripheralTypeCorrect`, `HandlesCorrect`,
  `TypesCorrect`, `ConfigurationsFit`, `ReadsWhole`, `CentralServed`,
  `IndicationsFlagged` and `OneMtu`.
  The database (`HandlesInv`, `BasesInv`): the attributes up to `start` have the
  host's numbers, without a gap, and the ones behind wait for theirs; the first
  service begins at the host's first handle, so the difference kept is right for
  all of them; a type stays where its attribute points as long as services are
  added, because the memory is cleared only when all are published or none is
  begun. The connection (`LinkInv`, `ReadInv`): unless the last response was sent while
  the accessory did not know the central's MTU (`client.unaware`: the link's is not
  the smallest one, and the accessory's exchange has no answer), both sides are at
  the same place of the same value, and between two reads nothing is left of an
  operation; a response that fills the MTU leaves one on either side, a shorter one
  on neither. That there is no second MTU is part of it. A configuration comes
  behind a declaration and a value, and a service has an attribute of its own, so
  three times the number of configurations is no more than that of the attributes
  (`ConfigurationsInv`).
- `RunLoopProofs`: `StoreImplemented`, `EnumerationComplete`, `WritesFinished`,
  `ContextsKept` and `RunLoopTypeCorrect`. That each call is atomic rests on one
  invariant, `OwnerInv`: only the owner of the mutex is in an operation beyond the
  wait, the shared name and buffer are what it was called with, and the busy flag
  is set as long as it may write. So a handler that reads the shared name after a
  wait for the flash reads its own, and the end of one thread's operation, which
  clears the flag, can not be in the middle of another's. For a purge it has to be
  known that the keys still to delete are keys of the domain, all of them unless
  it has to come back. The mapping has one step for each action: one of
  `RecordStore`, or a stutter. The contexts are counted over the queue as a
  sequence: appending adds one element to the set of positions with a context,
  and taking the first one moves the others by a bijection.
- `FirmwareUpdateProofs`: `UpdateTypeCorrect`, `SleepFlagged`, `FlashAwake` and
  `NoEarlyReset`, from `UpdateInv`. The flags alone are not inductive: the
  invariant says where the server's thread is when the flash sleeps without the
  flag (`FlashInv`), that a request is in update mode before it uses the flash
  (`RequestInv`), and that what is left of a time-out and the age of the mode make
  up the whole delay (`DelayInv`).
- `LightBulbProofs`: `BulbTypeCorrect`, `BulbStored`, `SubscribersTold` and
  `WrittenStays`, from `BulbInv`. It follows the copy that is being saved
  (`SettledInv`), says that a value that was written has no transition left to
  change it (`WroteInv`), and that a subscriber is told, or an event is on its way
  with, the value of `prevNotificationValue` (`ToldInv`).

Only model-checked: liveness, which is out of the prover's reach
(`StopHonoured`, `UpdateModeEnds`, `EveryTimerIsServed`). Every other property of
a passing run is a theorem.

## Plan

1. Done: NfcAccess with its abstract specification, LockNfcAccess, LockState,
   PlatformTimer, KeyValueStore with its abstract specification, RunLoop,
   GattDatabase, PeripheralManager, FirmwareUpdate and LightBulb, each with the
   proofs of its safety properties.
2. To come: an abstract specification of the timer (a set of deadlines, each
   called at most once) and of a long read, with the proofs that PlatformTimer and
   PeripheralManager implement them; the safety parts that the liveness properties
   rest on, such as that a reset after a time-out is never called off.

## Not modelled

- MFi authentication: transfers to a chip with retries, and two flash records
  with one caller each. What is right about them is in the chip and the ADK.
- Accessory setup: reads provisioned data that nothing here writes and copies it
  to a tag.
- Service discovery and EUI: each call of the ADK is translated into one of
  OpenThread or SRP, which keep the state. `HAPPlatformUARP.c` swaps bytes and logs.
- The concurrency wrappers, log, abort and random numbers: one call of the kernel
  each. The mutexes are part of the modules that use them.
- The NFC tag reader of the lock sample: a thread that initialises the reader chip
  and then only prints.
- In the modelled parts: failing flash writes, the LEDs, identify, the battery and
  diagnostics values, and the two setters of `HAP_TESTING` that shrink the limits of
  the NFC lists.
