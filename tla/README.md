# Verification of the ESP32-S3 device firmware

TLA+ models of the firmware in `src/main/`, the TLC runs that check them, and
TLAPS proofs of every safety property that a passing run checks. The firmware connects a device to an IoT server
over MQTT, is provisioned over a soft AP, and updates itself over HTTPS. It is
one C program of about 4,500 lines on ESP-IDF v4.4 (two cores, FreeRTOS, 100 Hz
tick, no rollback, a panic restarts the device). `damda_esp32_project.c`
includes the other C files of the SDK, so their globals are shared by all tasks.

## 1. Inventory

### Tasks

| Task | Code | Works on |
|------|------|----------|
| `app_main` | `damda_esp32_project.c` 1971 | boots, provisions or connects, registers, starts `main_task` |
| `main_task` | 1888 | every 200 s: notification, report of a failed update, reset of a refused device |
| UART task | `damda_uart.c`, `UART_Command` 1041 | commands `a` to `y` |
| MQTT task | `esp-mqtt`; `mqtt_event_handler`, `messageArrived`, `customMQTTMsgReceive` | connection events, messages of the server |
| OTA tasks | `damda_ota.c` 66, one per firmware message | download, selection, record, restart |
| web server | `esp_http_server`; the handlers at 331, 357, 435 | receives the credentials |
| event task | `event_handler`, `wifi_event_handler` | Wi-Fi events |
| user tasks | `damda_user_task.c` | nothing (they sleep) |

No lock of the program's own protects anything: the tasks share globals.

### Components

| Component | State | Operations | What makes it correct |
|-----------|-------|------------|------------------------|
| Firmware update | slots, otadata; `ota_url`, `ota_version`, `flash_info`, `retry_count` | firmware message, attempt, write, select, record, announce, give up, restart | there is always an image to start; record, announcement and image agree; a failed update is reported, once |
| Application record | NVS blob, RAM copy `flash_info` | `write_flash`, `read_flash`, `reset_flash` | no task's change is lost; kept across restarts |
| SDK messages | `sequence`, local counters | register, deregister, delete, update, time, notify | every parameter once; distinct numbers |
| Provisioning | NVS record and credentials, `booting_mode`, buffers, `ap_state`, `s_retry_num` | boot, soft AP, POST link/start and link/set, connect, retry, factory reset | normal mode implies credentials and identity; a reset forgets everything |
| MQTT connection | `client`, `damdaConnectedStatus`, `damdaConnectedErrorStatus`, `mqtt_err_count` | connect, disconnect, events, publish, reset of a refused device | one client, never used after it is freed; a truthful status; no unjustified reset |
| Message dispatch | `callbackFunc`, `busy_flag`, `ucnotify_flag`, the client's outbox; at the server: whether it knows the device | classification, acknowledgement, response, update, deletion, wipe; registration and notification towards the server | a request is answered once at most; acknowledged means done; a wipe has a reason; device and server agree on a deletion |
| UART console | - | a, b (disconnect, soft AP), c (connect), d, q (register, delete), e, f, k to n, x, y (notify), g, h (periodic reports on, off), n (re-read the record), o (factory reset) | a command given at the wrong moment does no lasting harm |
| Time synchronisation | the system clock, the SNTP client, `retry` | `obtain_time`, in three tasks at once | the wait ends; a time is returned only from a set clock; no call leaves the client running |

### Interactions

* The MQTT task writes `ota_url` and `ota_version` and starts an OTA task that
  reads them later, by pointer (`config.url`) and after the download.
* OTA tasks, `main_task`, the web server and the UART task (command `n`) read and
  write `flash_info`, and save all of it.
* Three tasks can erase NVS: MQTT (delete, unknown device), UART (`o`) and main
  (refused connection). Until the restart NVS is closed and every save is a no-op.
* `app_main` and the UART task both write `client`; five tasks publish through it.
* `app_main` (then `main_task`), the MQTT task and the UART task start, await and stop one
  SNTP client.
* Events of the MQTT client set flags that `app_main` and `main_task` poll.
* The MQTT task calls `messageArrived`, which answers some requests itself and then
  calls `customMQTTMsgReceive`, which answers others, starts updates and wipes.
* The server sends a message to the device only in a session (QoS 0); the device
  publishes into an outbox that may be drained later, out of order, or expire (QoS 1).

### Hard behaviour

Overlapping updates; power cuts between the selection of a slot and the save of
its version, between a report and the save that clears it, between the mode and
the credentials, and between SSID and password; saves while NVS is erased, and writes that
it refuses; a download that erases the slot another one has selected; two
resets at once; a handle used while it is destroyed; flags polled long after the
event; the unlocked counter; the splitting loop at multiples of five; a message
queued while offline that expires or is passed by a later one; a request before the
callback is installed; a restart between the confirmation of a deletion and the
erasure; a body in two pieces, or without one of its strings. `PROJECT.json`
("hazards") lists each at its line with the properties that cover it.

## 2. Plan

In this order:

1. `OtaUpdate` with the abstract `UpdateContract`: the most consequential part, a
   mistake costs the device. *Modelled, checked, proved.*
2. `Notify` with the abstract `NotifyContract`: the counter and the splitting. *Modelled, checked, proved.*
3. `Provisioning`, and the abstract `RecordStore` that it shares with `OtaUpdate`: boot,
   credentials, resets, the record. *Modelled, checked, proved.*
4. `MqttLink`: the client handle, flags, registration. *Modelled, checked, proved.*
5. `Messages` and `Dispatch` with the abstract `DeviceContract`: classification of
   messages, dispatcher, callback, and the server and network around them.
   *Modelled, checked, proved.*
6. `TimeSync`: the SNTP client. *Modelled, checked, proved.*
7. Left: one composition of `MqttLink`, `Dispatch` and `OtaUpdate`. They share the
   session, the client and the reset today only by what each assumes of the others
   (`Connect` and `Disconnect` in `Dispatch` are the events of `MqttLink`; `StartUpdate` is
   `OtaUpdate`'s `CopyUrl` and `OtaTaskInit`; `Wipe` in all of them is `Provisioning`'s reset).

The abstract specifications are what the device owes its owner: an image that was
offered (`UpdateContract`), and credentials that are forgotten for a reason only
(`DeviceContract`); and what the code owes its own callers: parameters that are sent in
order and once (`NotifyContract`), and a record of which NVS holds what RAM held at a save
(`RecordStore`). `OtaUpdate` implements the first and the last, `Dispatch` the second,
`Notify` the third and `Provisioning` the last.

## 3. Modules

Mutants: definitions named `X_fault` are faulty versions of `X`, used to see that
each property fails when the code is broken in that way. No specification uses them.

### OtaUpdate

State: flash (`slots` piece by piece, `otadata`, the record `nvs` reduced to
version and failure flag, `nvs_erased`) and RAM (the partition that runs,
`flash_info`, `ota_url`, `ota_version`, the MQTT task's progress `rx`, each OTA
task's `ota`, main_task's `reporter`, `task_count`, `mqtt_start_flag`).
Histories: offers received, a failure not yet reported (`owed`), the kinds of
ill-timed events so far (`lapses`), the use of bounds (`spent`).

An offer is a URL together with the version of its image, so "the record matches
the image" is an equation. One action per step between which another task can
run: the MQTT task's two `strcpy` and `xTaskCreate`; the attempt (which reads the
URL), the erasure of each piece and its writing, the selection, the copy of the version, its save, the
announcement, the restart; main_task's round, report, clear, save. `Boot` is the
bootloader's choice with `damda_nvs_init`. External definitions are what the code
relies on: `TargetSlot` (`esp_ota_get_next_update_partition`: never the running
one), `Complete` (image verification), `BootSlot` (the bootloader falls back to
the slots before the selected one, in the end to the factory image; rollback is
not configured), and `EraseChunk` and `WriteChunk`. `esp_https_ota` erases a sector when the
download reaches it and then writes it, so a second download of an image leaves the slot
that the first one has selected blank in part, and a restart at that moment falls back. A
piece that is written over other content without an erasure in between is `Garbled`.
`WriteFlash` may fail without its caller noticing: NVS is closed, or has no room.

`lapses` names the windows in which the code does not keep a promise, by their
cause: `overlap` (a message during an update), `report` (an update and a failure
report at once), `offline` (a report that expired in the outbox), `cut` (power
lost inside a save window), `reread` (command `n` over an unsaved record),
`erase`, and `unsaved` (NVS refused a write). A property that names a lapse holds until one happens.

Not in the model: `ucnotify_flag = 0`, which silences notifications for the last
second; the free memory that makes `xTaskCreate` fail is a choice.

`UpdateContract` is the abstract specification: only a restart changes the image
that runs, and the next image is the current one, the factory image, or one that
was offered since the start. The mapping reads the image from `slots[running]`
and the next one from what the bootloader would choose.

### RecordStore

What the tasks that share `flash_info` may expect of `damda_nvs.c`, as an abstract
specification with three variables: the record in RAM, the one in NVS, and whether NVS is
open. A save writes all of the record in RAM; an erasure leaves no record and closes NVS,
and nothing is saved until `nvs_flash_init` or a restart opens it; a restart reads the
record, or writes the factory record where there is none. `OtaUpdate` sees the version and
the failure flag of the record, `Provisioning` the mode and the MAC address. Each
implements it with its own part, without exception for any lapse. In `OtaUpdate` the record
in NVS counts as absent from the erasure on, in `Provisioning` a second reset may open NVS
again (`Reopen`).

### Notify

`sequence = (sequence + 1) % MAX_SEQUENCE` is a load, a store and, in the
`sprintf`, another load, as the tasks may interleave. A call is the loop of
`damda_Notify_DeviceStatus` with its variables `iter_count`, `remainder`, `j`;
`damda_Notify_DeviceStatuArr` and the requests are the same loop with one round.
`times` counts how often each parameter was sent. Up to 50 parameters, the length
of `paramsJson`; the callers pass 1, 2, 3 and 11.

`NotifyContract` is the abstract specification of a call: it sends the next parameters, as
many as it likes at once, and returns 1 when all were sent, or fails at any point. The
mapping drops messages, rounds and the counter, and keeps `times`.

### Provisioning

NVS is the record (mode, MAC known) and one string per credential; a value is
named by the request it came from. The server's address and port, which are
written one after the other, are one key: a body that names the address alone counts as one
without server, and its new address next to the old port is not told apart.
`phase` is app_main's progress, `http` the web server's through one POST, `resetter` each task's through a factory reset. Writing the
mode, its save, opening NVS and each `nvs_set_str` are separate steps; NVS entries
are durable when they are written. `http.found` is the number of strings, in the order of
their saving, that the body names before the first one it lacks: all, some, or none when it
does not parse. `SavePanics` is the panic on the missing one, when those before it are saved.
`nvs_flash_erase` closes NVS and every open
handle. A string of uninitialised length is `None`: `strlen` of it may panic or
yield some other network, both of which are modelled. The station handlers are
unregistered once an address is obtained (`Unregister`), so a lost link stays lost. An
attempt to connect ends in the association (`Associate`) or in `StaDisconnected`; the
address comes later (`GotIp`), or never. Writes of the record and of a string may fail
without a word (`WriteFlash`, `SetStr`); `nvs_flash_erase`, and the factory record that `Boot`
writes into an empty NVS, succeed.

`lapses`: `partial` (a request of which NVS holds a part only: the body lacks strings, or
the device restarted unplanned while it saved them, or link/set came before link/start),
`reread` (command `n` changed the record in RAM), `race` (a reset begun after another one
erased NVS), `unsaved` (NVS refused a write). `Recorded`
chooses which of them the history keeps, so that runs that do not need it are
smaller; it constrains no action.

Left out: the GET handler (no state), command `a` before the boot path is through,
command `b`'s code after its abort, and the station branches of `event_handler`.
While the device is a station that handler is not registered; command `a` registers
it, when the station goes down.

### MqttLink

`client` is the global handle; `state` is what the library knows of each client.
`damdaMQTTDisConnect` is the check for NULL with the stop, the destruction, and the
assignment, three steps, each of which reads `client` anew; `damdaMQTTConnect` is
two. `app_main` and the UART task run them. A notification looks at the
connection (`CheckConnected`) long before it publishes; a publication reads the handle
(`LoadClient`) and uses it (`Publish`). `Disconnected` also follows every failed
attempt to connect; `Refused` and `TlsError` are the two error events. The MQTT task's own
publications are left out: the library does not end a client's task while its
handler runs. `ucnotify_flag` is left out: it can only suppress a notification.
`Wipe` is main_task's reset; what follows is the initial state.
`lapses`: `overlap` (both writers at once), `abandoned` (a new client while the old
one has no session and is not stopped). `stale`: the device stopped a client and no
event came since; esp-mqtt reports a stop to nobody.

### Messages

A message is a record: what its topic says (`kind`, `opr`), its operation `o`, return
and error code, and the entries with resource name and string value. The operators
are the SDK's getters: `MessageType` with the precedence of the firmware update over
the operation (`getMessageType`, `isFirmwareUpdateMessage`), `ReturnCode` and
`ErrorCode` with their defaults, `StringValueByResourceUri`, which takes the first
entry of a name. A getter that finds nothing leaves its buffer alone, hence `Unset`.

### Dispatch

The device side: `boot` is app_main's progress up to `main_task`, `handler` the MQTT
task's progress through one message. `messageArrived` answers a synchronous deletion
(`AnswerDelete`), asks the server to deregister it (`RequestDelete`) or acknowledges a
firmware message (`Acknowledge`) before the callback (`Control`, `StartUpdate`,
`PassOn`, then `Wipe` or `Return`). Each publication and each answer is a step of its
own, because the device may restart between them and other tasks publish meanwhile.
`Dropped` and `Unread` are the early returns: no callback yet, or no memory.
`ControlPanics` is the copy from a pointer that was never set; the copy may as well
succeed, which is `Control`.

The server side: it knows the device or not (`registered`), sends each of `Requests`
at any time in a session, and answers what reaches it with one of `Replies`, or with
`NotFound` when it does not know the device. `OwnerDeletes` removes the device there.
A reply may be lost. `Publish` either reaches the server, or waits in the outbox, which
`Drain` empties in order and `Expire` from its oldest end; at `MaxOutbox` messages it
is full and a publication is dropped.

Histories: `answers` and `done` per request, `silent` (control requests without an
answer), `reasons` why the server wants the device wiped in this session, and
`lapses`, the windows in which a promise is not kept: `early` (a task sends before
the registration), `overtaken` (a message passes a waiting registration or deletion),
`expired` (a registration is thrown away), `lost` (a deletion does not reach the
server at once), `deleted` (the server forgets the device unasked), `again` (a
registration while the server has a reason to see the device wiped), `window` (a
request before the callback), `cut` (a restart inside the handler), `memory`.
`Recorded` chooses which of them the history keeps; it constrains no action.

Simplifications: answers take no room in the outbox and the server does nothing with
them; a message of QoS 1 arrives once (a duplicate registration or notification has
the effect of the first); messages that do not parse, lack an operation, exceed the
client's buffer or carry more than ten entries are left out. The client handle is
`MqttLink`'s, the steps of a wipe are `Provisioning`'s, the update is `OtaUpdate`'s.

`DeviceContract` is the abstract specification: three variables, whether the server
knows the device, whether the device has forgotten its credentials, and the reasons
of this session. A wipe needs a reason, and a wiped device is not registered before
it is provisioned. The mapping is the identity on the variables of these names.

### TimeSync

`obtain_time` as three tasks interleave in it: `app_main` is followed by `main_task`, so
they are one. `pc` is each task's place in the function, with a step for each call
into the SNTP client and one for each look at the clock; `retry` is the local variable.
`sntp_setoperatingmode` asserts that the client does not run (lwIP; `sdkconfig` 149 enables
assertions), so it is `SetMode` or `Abort`. `sntp_init` and `sntp_stop` do nothing to a
client that runs, or does not. `Synchronise` may happen whenever the client runs, or
never. The clock survives a panic, not a loss of power (`Restart`). `shared` is a
history: whether a call had the function to itself.

That two tasks meet here, and the device restarts, is what the code does, and the model
says no more than when. In the other modules it is one of the restarts that they
allow at any time, and a call is a step that takes time and ends (`CallEnds`).

### MC modules

`MCOtaUpdate`, `MCProvisioning`, `MCMqttLink` add the symmetry sets (offers and OTA
tasks; requests; clients), used in the safety runs only; `MCNotify` adds nothing, and `TimeSync`
has no module of its own: the names of its tasks are strings.
`MCDispatch` defines the messages: deletions of both kinds, an update with URL and
version, one with the URL alone, a control request with a value and one without, and
the replies 404/40400 (an error about something else) and 404/40443 (unknown device).

## 4. Runs

| Run | Shows | Bounds, and why they are enough |
|-----|-------|--------------------------------|
| `ota_safety` | `AlwaysBootable`, `RecordMatchesImage`, `FailureNotLost`, `NoSpuriousReport`, `InformsInstalledVersionAlone` (also when one offer is repeated during its update), `ImplementsContract` | 2 offers, 2 tasks, 2 pieces per image, 2 retries, a report after 2 rounds, 1 power cut, 1 re-read: two overlapping updates mix slots, and after each restart the roles of the slots change |
| `ota_live` | `UpdateEnds`, `FailureReported`, `ImplementsStore` (with an erasure) | 1 task, 2 offers, 1 erasure; no symmetry, no cut: a bounded number of cuts only delays |
| `ota_inform` | violation of `InformsInstalledVersion` | 2 offers, 2 tasks |
| `notify` | `EveryParameterOnce`, `SequenceAdvances`, `CallReturns`, `ImplementsContract` | 2 tasks, MaxSequence 3 so that the counter wraps; 0, 1, 5 and 11 parameters: none, fewer than five, a multiple of five, and two full messages with a rest |
| `provisioning_safety` | `NormalModeProvisioned`, `WifiPairTogether`, `NormalModeHasIdentity`, `ResetForgets`, `PostTakesEffect`, `ImplementsStore` | 2 requests (an old and a new set of credentials), 3 resetters, unlimited cuts, 1 retry for 2: one attempt that is repeated and one that is not |
| `provisioning_live` | `StationBootEnds`, `ResetEnds` | 1 request, 2 retries as in the code |
| `link_safety` | `OneClient`, `StatusTruthful`, `DestroyedNotReused`, `BootBounded`, `WipeNeedsRefusals` | 3 clients, so that one is stopped, one abandoned and one current; senders app_main and main_task; 2 tolerated refusals for 5, 2 looks for 100: both only count |
| `link_live` | `BootEnds`, `RefusedDeviceWiped` | 2 clients |
| `link_reuse` | violation of `NullPreventsReuse` | 2 clients with all four senders |
| `time_sync` | `AbortNeedsOverlap`, `NobodyWaitsInVain`, `CallEnds` | 3 tasks, as many as the code has; 3 looks for 100: a first, a last and one between; no bound on restarts and calls |
| `dispatch_wipe` | `StrangerExplained`, `NoGhost`, `DeletionSticks`, `ImplementsContract`, `UnknownDeviceForgets` | 1 deletion, both kinds of reply, 1 message in each queue: enough to lose, delay and pass a registration or a deletion; restarts, owners' deletions and provisioning without limit |
| `dispatch_requests` | `AcknowledgedIsDone`, `AnsweredOnce`, `OneControlSilent`, `UpdateHasUrlAndVersion` | 5 requests, each sent once, in any order: both deletions' branches differ only in the answer, and the other run has the synchronous one (that what it answers with 200 is done is left to `AcknowledgedDone`); no room in the outbox, so that every deregistration can be lost |

Every run takes below two and a half minutes with two workers. Deadlock is checked in all of
them.

`TypeOK` of every module, and `RunningImageIntact`, `WithinArray` and `TimeIsReal`, which
follow from the shape of few actions, are proved and not part of a run.

Findings (`PROJECT.json`) are the two runs that expect a violation; each quotes
the comment in the code that the code does not keep.

### Fairness

* Every task that is ready is scheduled: weak fairness of the OTA task's steps, of
  main_task's rounds and of app_main. They have different priorities, but none of
  them spins: each sleeps or blocks in its loop, so lower ones run.
* `esp_https_ota` and `obtain_time` end: the first by its timeouts (5 s per
  operation), the second after 100 looks, which
  `CallEnds` shows from the scheduling of its callers alone. A step that may fail, like an attempt,
  is fair only in that it ends somehow.
* `MqttConnected` in `ota_live`: the client reconnects for ever; the report of a
  failure needs a broker that accepts one day. No other run assumes it; `BootEnds`
  and `UpdateEnds` hold without.
* In `Provisioning` the radio reports how each attempt ends (`AttemptEnds`), and a reset
  waits for nothing. Nothing says that an associated station ever gets an address:
  `wifi_init_sta` waits with `portMAX_DELAY`, so `StationBootEnds` leaves out the behaviours
  in which the device stays associated and waits for ever. The web server
  has no fairness: a client that sends no body holds it for ever (`continue` on a timeout, `damda_esp32_project.c` 380).
* In `Dispatch`, app_main and the handler are scheduled (their only wait, `obtain_time`,
  is bounded), the client reconnects for ever, and, as strong fairness, a session
  lasts now and then for a notification and the reply to it. Without that the server
  could never tell a device that it does not know it.
* Users, resets and the power supply are never fair, nor are the server's requests.

## 5. Proofs

Six modules prove, for every value of the constants, what TLC checks on small
instances: every invariant and every action property of every passing run, and the
five refinements (`UpdateContract`, `DeviceContract`, `NotifyContract`, and `RecordStore`
twice). Assumptions: `ImagesAssumption` (names of images are distinct),
`SizesAssumption`, `BoundsAssumption`, `LinkAssumption`, `ProvisioningAssumption`
(counts are natural, no value is also a name for its absence), `RetryAssumption` (there is a look), `SendersAssumption` (at
most 50 parameters), `MessagesAssumption` (only replies are responses, and a server
that knows the device does not call it unknown) and `ValuesAssumption`. A theorem about a property
that names lapses assumes that `Recorded` contains those: without a record there is
nothing to excuse a violation with.

For `OtaUpdate` the properties are not inductive, and each has a strengthening:

* `TypeInv`, by cases over the actions, gives `TypesHold`.
* `FlashInv`: besides a complete running image and factory slot, a selection of
  `ota_1` is never left behind by a device that still runs the factory image (so the
  bootloader's fallback is a slot that was written before), and every piece a
  downloading task has written comes from an offer that was received. `TargetSlot` is
  never the running one, which gives `Bootable` and, step by step, `RunningIntact`.
* `UpdateInv`: as long as no update overlapped and no record was re-read, at most one
  OTA task lives, the MQTT task is idle beside it, and the URL, the version, the
  record and the content of the target slot come from one offer.
* `SameOfferInv`: when all offers since the start are one and the same, any number of
  tasks may erase and write the same slot at once and select it while another one writes:
  every piece is blank or that offer's, and so are the URL and the version. With
  `UpdateInv`, `InformsTruly`, which asks in this case that the selected slot is whole at
  the moment of the announcement: the code does not see to that.
* `RecordInv`: while no lapse touches the record, its copies in RAM and in NVS hold
  the version in the selected slot, except between the selection and the save. Hence
  `RecordMatches`.
* `FailInv` relates `owed`, the flag in RAM, the flag in NVS and main_task's
  progress. Hence `FailureKept` and `ReportsTruly`.
* `Implements`: every action maps to `Receive`, `Restage`, `Restart` or a stutter;
  `FlashInv`'s last part makes every image that is selected one that was received.
* `ImplementsRecord`: every action maps to `Change`, `Save`, `Erase`, `Restart` or a
  stutter of `RecordStore`; a save after the erasure is a stutter.

For `Notify`, `LoopInv` says of a call that while the loop runs
`j + 5 * iter_count + remainder = count`, and that exactly the parameters up to `j`
have been sent, once each (`SentOnce`, `StaysWithinArray`). `CounterInv` says that,
unless `raced`, at most one task is between reading the counter and printing it, and
how its copy and the last number relate to the counter (`NumbersDiffer`). `Implements` maps
a round to `Send`, from `j` parameters to `j + max_iter`; `LoopInv` makes both the number
that `times` shows, and the last round's the whole array.

`Provisioning_proofs` sorts the steps into restarts, steps of the station, of the web
server and of all others (`NextCases`), and proves of each:

* `ShapeInv`: a request exists only on the soft AP, its credentials are written from the
  first, and NVS is open unless it was erased and the device not restarted yet.
* `IdentityInv`: in every phase from which the mode can become NORMAL, both copies of
  the record know the MAC address (`IdentityCorrect`).
* `ErasedInv`: between an erasure and the restart NVS is empty and nothing can write
  it, the handle of the web server included (`ResetCorrect`).
* `PairInv`: SSID and password agree except when the server is about to write the
  password, and then the SSID is the request's; and a body that lacks a string gets past
  `Receive` only with the lapse `partial` (`PairCorrect`).
* `SavedInv`: while NVS is not erased, mode and credentials are saved in order, each
  present before the next begins, as long as NVS takes what it is given (`PostCorrect`).
* `ProvInv`, over the three before it: wherever the mode may become NORMAL - in NVS, in
  RAM, in the branch app_main took - the credentials are complete or the server is
  still writing them. Its last step, the last key, is where `SavedInv` is used
  (`ProvisionedCorrect`).
* `ImplementsRecord`: each of these kinds of step, as a step of `RecordStore`.

`MqttLink_proofs`: `RefusalInv` (the counter never exceeds the refusals since the start)
gives `WipeCorrect`. `HandleInv` says that the handle names a destroyed client only while
some writer is about to clear it, and gives `HandleCorrect` even for two writers at
once; `BootInv`, where app_main publishes, keeps its progress apart from its use of the
connection. `ClientInv` says that the two writers are never both inside, that the
handle names the only client there is, and that there is none before one is created
(`OneClientCorrect`, `StatusCorrect`).

`Dispatch_proofs`:

* `HandlerInv` and `TrackInv`: a request is unsent, on its way, in the handler or past it,
  in one place only, and not answered before its branch (`OneAnswer`); `SilentInv` equates
  the unanswered control requests with the busy flag (`SilentOnce`).
* `AckInv`: a request answered with 200 and not done is with the handler, past the answer
  and before the effect (`AcknowledgedDone`).
* `ReasonInv`: a message that wipes the device is on its way only in a session in which
  the server had a reason; `Implements` adds that each step is one of the contract's.
* `AskedInv` and `RegisterInv`: unless something excused was recorded, a device that is past
  its registration and not known is being deleted, or its registration is the next
  message in the outbox (`StrangerCorrect`).
* `GhostInv` and `DeletedInv`: what the server and the device know of a deletion, at each
  point of the handler (`GhostCorrect`, `DeletionCorrect`).
* `UpdateComplete` counts the entries of a message: two that name firmware resources, and
  each at most once, name both.

`TimeSync_proofs`: `RunInv` (a client that runs has a task that will stop it) gives
`AbortCorrect`; `AloneInv` (a call that was not shared is the only one, and its client runs)
gives `WaitCorrect`; `CountInv` and `ClockInv` relate the count of looks to the clock and
give `TimeCorrect`.

### Liveness

Fairness and ENABLED are outside what the proof system reasons about here, so the
properties `UpdateEnds`, `FailureReported`, `CallReturns`, `StationBootEnds`, `ResetEnds`,
`BootEnds`, `RefusedDeviceWiped`, `UnknownDeviceForgets` and `CallEnds` are only
model-checked. For six of them the part that needs no fairness is proved: a count of the steps
left, which is bounded, becomes smaller with every step of the task in question, and is not
raised by any other step. What the runs add is that the task is scheduled and can go on.

| Theorem | Bound | For |
|---------|-------|-----|
| `UpdateCounts` | `MaxRetries * (2 * NumChunks + 2) + 4` steps of an OTA task | `UpdateEnds` |
| `CallCounts` of `Notify_proofs` | 45 steps of a notification: four for each of eleven messages, and the return | `CallReturns` |
| `StationCounts` | `2 * (WifiMaximumRetry + 1)` reports, of an association, an address or a lost link; and a station that waits has always an attempt under way or is owed an address | `StationBootEnds` |
| `ResetCounts` | two steps of the task that resets | `ResetEnds` |
| `BootCounts` | `MaxAttempts + 12` steps of app_main | `BootEnds` |
| `CallCounts` of `TimeSync_proofs` | `RetryCount + 3` steps of `obtain_time` | `CallEnds` |
| `HandlerCounts` | four steps of the MQTT task for a message; if it orders a wipe and the callback is installed, the last one is the wipe | a step of `UnknownDeviceForgets` |

`FailureReported`, `RefusedDeviceWiped` and the rest of `UnknownDeviceForgets` depend on
events outside the task that waits for them (a broker that accepts, a reply that arrives),
for which there is no such count.

## 6. Not modelled

* The getters that only copy a string (`getSid`, `getSeq`, `getTime`, `getResourceUri`, the
  topic getters), the text of answers and notifications, and
  `damda_Rsp_RemoteControl`, which nothing calls.
* A message in several `MQTT_EVENT_DATA` events: each piece fails to parse, and the only
  outcome of the code is a panic.
* A client of the web server that announces a body and never sends it: it holds the
  server, and no property of the code forbids that.
* The backup of the Wi-Fi credentials (`esp_nvs_set_backupData`) and `initialize_sntp`: only
  the station branches of `event_handler` call them, and the station registers another handler.
* Logging, menus, the user tasks.
* `src/build` (generated), `sdk_auto_verify.py`, `resource_profile` and
  `device_rsc.h`: host-side tools and their data.
* ESP-IDF itself, except for the contracts named above.
