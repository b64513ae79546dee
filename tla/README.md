# Verification of pico_sensor_aggregator

TLA+ models of the firmware in `src/`, TLC configurations that check them on
small instances, and TLAPS proofs of their main safety properties.

## 1. The system

A Raspberry Pi Pico W with two cores:

* **core0** (`main`, `src/main.c:407-453`) runs the sensor loop. It prepares
  and reads the sensors (`src/sensors.c`), pushes one `queue_entry_t` per
  reading into `sensor_data_queue` with `queue_add_blocking`, which holds 10
  entries. It then checks `reset_core` under `reset_core_mutex` and, when the
  flag is set, lets the watchdog reboot the chip.
* **core1** (`core1_entry`, `src/main.c:373-396`) owns the network. At boot it
  reads the settings from flash, or writes the defaults. It then enters one of
  two modes:
  * **AP mode** (`httpd_ap_mode`), when the button is held: a configuration
    portal. Its POST handlers (`src/access_point_httpd/http_control.c`) fill
    `mqtt_settings` field by field (`process_post_field`) and set
    `store_settings_flag`. The loop then writes the settings to flash and sets
    `reset_core` for core0.
  * **STA mode** (`mqtt_sta_mode`): the MQTT client engine
    (`src/tls_mqtt_client.c`) connects to the broker through lwIP. It
    subscribes to the two control topics (water, light) and publishes every
    sensor reading and actuator state every 3 s. Commands on a control topic
    toggle an actuator (`server_command_handler` → `set_water` / `set_light`).
    Watering is cut by a 10 s alarm on core1's alarm pool.

Both modes drain the sensor queue (`try_read_data_from_queue`) on every loop
pass.

### Shared state and concurrency

| State | Written by | Read by |
|---|---|---|
| `sensor_data_queue` | core0 (blocking add) | core1 (try-remove) |
| `reset_core` (mutex) | core1 after a store | core0 once per iteration |
| `store_settings_flag`, `settings_changed` | POST callbacks | AP loop |
| `MQTT_CLIENT_T`, `topics_sessions` | lwIP callbacks | main loop of STA mode |
| flash settings sector | core1, with core0 locked out | core1 at boot |
| `current_control_state`, `water_pump_alarm` | command handler, alarm IRQ | both |

lwIP's callbacks run on core1. With the poll architecture they run inside
`cyw43_arch_poll`; with the background architecture they run in an interrupt
between any two statements of the main loop that are outside
`cyw43_arch_lwip_begin/end`. The models allow the interleavings of the
background architecture, which include those of the poll architecture.

### Hard behaviours

* lwIP delivers an incoming message as a header callback followed by chunks.
  The connection may drop in the middle of a message.
* Connections close at any time: TCP errors, keep-alive or connect timeouts,
  refused CONNACKs. The engine reconnects from inside the close callback.
* lwIP keeps at most `MQTT_REQ_MAX_IN_FLIGHT` requests. A request is refused
  at once when that list or the output buffer is full. A pending request calls
  back exactly once, unless the connection closes first.
* The alarm IRQ and the command handler both enter `set_water`.
* Power can be lost between the flash erase and the flash program.

## 2. Modules

| Module | Models | Status |
|---|---|---|
| `MqttReassembly` | `tls_mqtt_incoming_publish_cb` and `tls_mqtt_incoming_data_cb`; lwIP's delivery and connection loss | done, proved |
| `MqttReassemblyProofs` | TLAPS proofs about `MqttReassembly` | done |
| `MqttClient` | connect, the connection callback, subscribe/unsubscribe and its retry, publish and its callback, the publish loop of `mqtt_sta_mode`; lwIP's request list and the broker's clean session | done (init and DNS not modelled), proved |
| `MqttClientProofs` | TLAPS proofs about `MqttClient` | done |
| `Actuators` | `set_water`, `water_alarm_callback`, `set_light`; the try-lock and the alarm pool | done, proved |
| `ActuatorsProofs` | TLAPS proofs about `Actuators` | done |
| `AtomicSettings` | what the settings store promises: a register that holds one whole version or none | done |
| `SettingsStore` | `write_settings_in_flash` / `write_in_non_volatile` (erase, program), `read_settings_from_flash`, the boot read, the save, power loss; refines `AtomicSettings` | done, proved |
| `SettingsStoreProofs` | TLAPS proofs about `SettingsStore`, the refinement included | done |
| `ConfigPortalProofs` | TLAPS proofs about `ConfigPortal` | done |
| `SensorPipeline` | core0's `init_sensors`, collect, `transfer_data_sensors` into `sensor_data_queue`, the `reset_core` check and `deinit_clean_sensors`; core1's start, `try_read_data_from_queue`, the AP exit and the STA NULL fault | done (sensor I/O abstracted), proved |
| `SensorPipelineProofs` | TLAPS proofs about `SensorPipeline` | done |
| `ConfigPortal` | `httpd_post_begin`, `httpd_post_receive_data`, `httpd_post_finished` and `parse_buffer` over the shared buffer; the store-flag loop and exit of `httpd_ap_mode`; core0's `reset_core` check | done (field contents abstracted) |

Each module `M` has an instance `MC_M` that gives its constants the values TLC
uses.

### MqttReassembly

**State.** The variables `topic_incom_data`, `err_state`, and per topic
`topic_buffer_length` and `data_in` are the fields of the same names. The
ghost `memory_fault` records a write outside a topic buffer or through the
uninitialised `session` pointer. The ghost `handled` is the sequence of
`pass_incom_data` calls.

**lwIP side.** `inMsg` is the message being delivered and `delivered` the
messages lwIP completed. Payload bytes are abstracted to counts, since the
properties only need where each write starts and ends.

**Actions.**
* `Header` (the publish callback, `IncomingPublish`).
* `Chunk` (the data callback, `IncomingData`). It covers every split of a
  message into chunks. An empty message arrives as one empty LAST chunk.
* `ConnectionLost`. The close callback's `tls_mqtt_connect` resets `err_state`
  if the reconnect is accepted.

### MqttClient

**State.**
* `is_connected` and `is_subscribed` are the engine's fields.
* `heap` is the set of allocated `MQTTMessage` blocks.
* `round` is the position of the main loop inside `publish_topic_data`. Each
  `tls_mqtt_publish` is a step of its own, because callbacks may run between
  them.
* `retries` is a ghost count of re-issues of the current sub/unsub request.

**lwIP and broker side.**
* `conn` is the connection state.
* `reqs` is the pending request list.
* `brokerSubs` is the broker's session.

**How lwIP is modelled.** lwIP is not in this repository, so it is modelled
as I understand its MQTT client (`mqtt.c`):
* `mqtt_client_connect` is refused unless disconnected.
* A request's slot is released only after its callback returns. A retry from
  inside the callback therefore competes for slots.
* SUBACK failures and request timeouts call back with an error.
* The session is always clean.
* `mqtt_close` drops pending requests. The constant `CloseCallsBack` says
  whether it calls them back first. The code's comment at
  `tls_mqtt_client.c:389` assumes it does; lwIP's `mqtt_clear_requests` does
  not.

### Actuators

**State.**
* `water_pin`/`light_pin` are the outputs.
* `water_text`/`light_text` are the `topic_data` strings, abstracted to
  `"ON"`/`"OFF"`.
* `locked` is `water_pump_mutex`.
* `water_pump_alarm` is the alarm id: 0 means none, -1 means arming failed.
* `armed` is the set of alarms the pool will still fire.
* `nextAlarm` counts the ids handed out.

**Actions.** The command context's `set_water` is split where the alarm
interrupt may come in:
* `CommandWater` is the try-lock.
* `Cancel` is the alarm cancel.
* `Decide` is the toggle, through `WaterOn`/`WaterOff`. Arming may fail.
* `Exit` is `mutex_exit`.

`AlarmFires(a)` is `water_alarm_callback`, which runs `set_water` to
completion in the timer interrupt. `CommandLight` is `set_light`.

**Fairness.** There is weak fairness on each alarm, because the hardware
timer fires every armed alarm. There is also weak fairness on the command
context's steps, because a started `set_water` runs to its end. Commands get
no fairness.

### SettingsStore and AtomicSettings

`AtomicSettings` is the store's contract:
* `record` is one whole version of the settings, or `None`.
* A write invalidates the old record, then commits the new one.
* A power loss may come before or after the invalidation.
* Boot uses the record, or the defaults when there is none.

`SettingsStore` is the code. Sizes are in pages. The constants follow the
real proportions: the record is about 6960 bytes, a sector 4096 bytes and a
page 256 bytes. So the model uses a record of 7 pages and sectors of 4
pages: two sectors, the second in part.

**State.**
* `page` gives each page of the erased region. A page holds a version, is
  `"erased"`, or is `"garbled"`, meaning neither old nor new bits.
* `step` is the place of `write_in_non_volatile`: one step per sector erased
  (`flash_range_erase`), then one per page programmed (`flash_range_program`).
* `ReadSettings` is `read_settings_from_flash`. It accepts the record when
  the first page and the last page show the flag word. An accepted record
  that is not one version throughout is `Mixed`.
* `Programmed` says that only an erased page takes new data.

**Actions.**
* `Boot` is `core1_entry`: read, and write the defaults if the record is
  rejected.
* `Save` is the write at the end of `httpd_ap_mode`.
* `WriteStep` does one erase or program step.
* `Down` is a power loss or a reset at any step. The pages it was changing
  are left in `TornStates`.

**Refinement.** The mapping is `record <- ReadSettings(page)`;
`RefinesAtomicSettings` checks `Abstract!ASpec`:
* the first erase of a write is `AInvalidate`;
* the last page programmed is `ACommit`;
* the other steps stutter.

The constant `TornKeepsFlag` says whether a torn erase or program may leave a
flag word readable.

`RunsWithWrittenSettings` says that the settings core1 runs with are one
version written whole, or the defaults' `None`, and never `Mixed`.

### ConfigPortal

**State.**
* `buf` is `post_data_buffer`. Each byte is 0, or the id of the POST that
  wrote it. Keys and values are abstracted to whether the parse changed a
  field.
* `idx` is `post_data_index`, shared by all connections.
* `left` is each POST's remaining Content-Length.
* `changed` is `settings_changed` and `store_flag` is `store_settings_flag`.
* `pc` is core1's place in `httpd_ap_mode`.
* `saved`, `reset_core` and `rebooting` trace the restart handshake.
* `foreign` is a ghost that records a parse reading another POST's bytes.

**Callbacks.** `PostBegin`, `ReceiveData` and `PostAborted` run while httpd
is up:
* in the poll build (`Background = FALSE`), only inside `cyw43_arch_poll`;
* in the background build, between any two statements of the loop until
  `cyw43_arch_deinit`.

As I understand lwIP's httpd:
* an error from the receive callback ends the POST and calls
  `httpd_post_finished`;
* a connection closed in the middle may or may not be finished, and both
  are allowed.

**Loop and exit.**
* `ApStart` includes the early return on a failed `malloc`.
* `CheckStoreFlag`, `CheckChanged` and `ClearStoreFlag` are the loop's test
  of the two flags.
* `Deinit`, `StoreSettings` and `SetResetCore` are the exit.
* `Core0CheckReset` is core0's check under `reset_core_mutex`.

**Fairness.** Weak fairness on core1's steps, because its loop never blocks,
and on core0's check, because core0 looks every iteration. None on the
browser.

### SensorPipeline

The two cores around `sensor_data_queue` (`src/main.c`, `src/sensors.c`).
A reading is abstracted to a number per sensor that counts its collects. A
queue entry `<<topic_index, data>>` is `[topic |-> s, n |-> k]`.

**State.**
* `connected`: the sensors whose `init_fn` succeeded.
* `pc0`: core0's place in `main`.
* `batch`: the sensors whose fresh reading is still to be queued.
* `reading`: each sensor's `topic_data`.
* `queue`: `sensor_data_queue`.
* `slot`: `current_sensor_data`.
* `pc1`: core1's place in `core1_entry`.
* `reset_core`.
* `windowCheck`: a history variable, true once core0 has checked
  `reset_core` since core1 left the AP loop.

**Core0.**
* `InitSensors`: any subset of sensors may fail to initialise.
* `Collect`: `prepare_sensors` and `collect_data_sensors`.
* `Transfer`: one `queue_add_blocking` of `transfer_data_sensors`, in
  index order (`NextSensor`). It waits while the queue holds `QueueCap`
  entries.
* `CheckReset`: the check under `reset_core_mutex`. When the flag is set it
  clears it, calls `deinit_clean_sensors`, and goes on to the watchdog wait.
  Under `ShutdownWithinLoop` it cannot check a second time while core1 is
  still between `ApLeave` and `ApSave` (see Timing).

**Core1.**
* `Core1Start` picks the mode and its early outcomes:
  * `ap`;
  * `ap_returned`, the failed `malloc`;
  * `sta`;
  * `sta_null`, a failed `tls_mqtt_init`.
* `TryReadData`: one successful `try_read_data_from_queue`.
* `ApLeave`: the `break` out of `httpd_ap_mode`'s loop (main.c:307-328),
  taken when a drain found the queue empty. It also covers the `free` and
  the DNS, DHCP and cyw43 deinits that follow. From then on nothing drains
  the queue.
* `ApSave`: `write_settings_in_flash`, then `reset_core = true` under the
  mutex (main.c:329-336). Core0 is locked out during the flash write. Its
  interleaving with the POST callbacks is `ConfigPortal`'s subject.
* `StaNullFault`: the hard fault that may follow the NULL dereference.

**Fairness.** Weak fairness on every core0 step, and on core1's start,
read and `ApSave`. Both loops run without sleeping on anything but the
full queue and the mutex, and core1's shutdown is straight-line code.
There is no fairness on `ApLeave`, which needs a user's POST, nor on the
fault.

**Timing.** Core0 sleeps 5 s per loop: `sleep_ms(3000)` after its check and
`sleep_ms(2000)` before it collects. Core1's shutdown (three deinits and
one flash write) takes far less. The constant `ShutdownWithinLoop` states
this: core0 does not pass its reset check twice between `ApLeave` and
`ApSave`. This is a hypothesis about the hardware, not something the code
enforces. With it FALSE, TLC finds core0 blocked forever in
`queue_add_blocking`: it fills the undrained queue before `reset_core` is
ever set.

**Capacity.** Even with the timing hypothesis, core0 can pass on two rounds
after `ApLeave`: one before its first check, one after it. So
`RestartCompletes` needs `QueueCap >= 2 x |Sensors|`. TLC finds the
deadlock with two sensors and `QueueCap = 3`. The firmware queues at most
4 entries a round (4 topics) and has 10 slots.

## 3. Runs

| Run | cfg | Expect | Shows |
|---|---|---|---|
| reassembly | MqttReassembly.cfg | pass | buffers never overrun; the handler gets whole messages only |
| reassembly_empty_message | MqttReassemblyEmpty.cfg | violation | an empty command is dropped |
| actuators | Actuators.cfg | pass | a running pump always has its alarm armed; the alarm never starts the pump; a running pump is always stopped eventually |
| pipeline | SensorPipeline.cfg | pass | the queue and `current_sensor_data` lose, duplicate and reorder no reading; a restart request always reaches the watchdog wait, if core1's shutdown ends within one loop of core0 |
| settings_store | SettingsStore.cfg | pass | the flash store implements `AtomicSettings` through power loss at any step; core1 never runs with a mixed record |
| settings_store_torn | SettingsStoreTorn.cfg | violation | a torn erase that keeps a flag word makes boot trust a mixed record |
| portal | ConfigPortal.cfg | pass | poll build: reboot only after the write; every change is saved and followed by the restart |
| portal_store_race | ConfigPortalRace.cfg | violation | background build: a change can be lost between the loop's two flag tests |
| portal_shared_buffer | ConfigPortalShared.cfg | violation | two POSTs share the buffer, and one parses the other's bytes |
| client | MqttClient.cfg | pass | is_connected tracks lwIP; no freed message is called back; pending sub/unsub requests match the flags |
| client_publish_leak | MqttClientLeak.cfg | violation | a refused publish leaks its message |
| client_resubscribe | MqttClientResubscribe.cfg | violation | no resubscription after a reconnect |

**Bounds.**
* **Reassembly runs.** Two control topics and one unknown topic, which is
  enough for messages on different topics to interleave with a cut-off
  message. A buffer of 3 bytes (capacity 2), lengths up to 3 (one over
  capacity, so the exceeded path and the exact-fit edge both occur), and
  three messages.
* **Client runs.** The two real topics and two publishes per round. The
  request list has three slots, so publishes can fill it while a subscribe
  is pending. Three allocations and two closes, so a reconnect after a
  completed subscription happens.
* **Actuator runs.** Five alarm ids, enough for the pool to run out (the
  arming failure) after several commands and alarms.
* **Settings runs.** Three versions, so a save overwrites a different
  version. Three power losses, enough to cut a write, reboot, rewrite the
  defaults and cut that write too.
* **Pipeline run.** Two sensors, a queue of capacity 4 (two rounds) and
  three readings per sensor, with `ShutdownWithinLoop = TRUE`. Six readings
  against four slots, so the queue fills and core0 blocks when core1 is
  slow or gone. Readings of both sensors interleave in it. Core1 takes
  every mode, and `ApLeave` can come at any point of core0's loop. A
  capacity of 3, or the hypothesis FALSE, makes `RestartCompletes` fail.
* **Portal runs.** A buffer of 3 bytes and two POSTs, so one can complete
  between the loop's two tests, or share the buffer with the other. A POST
  may ask for one byte more than the buffer, which is the refused case.

Each run names every property it checks. Each property of a pass run has a
mutant of the modelled code that TLC shows breaks it; the mutants are listed
in `PROJECT.json`.

**Deadlock.**
* The client runs set `CHECK_DEADLOCK FALSE` because the node really stops.
  After a refused CONNACK, or a failed first connect, the main loop idles
  forever by design: "terminal until reconfiguration".
* The portal runs set it too. After `httpd_ap_mode` returns, core1 stops,
  and core0 only repeats iterations that change nothing, or waits for the
  watchdog.
* The pipeline run sets it too. Core0 stops in the watchdog wait. With
  core1 stopped or faulted and the queue full, core0 blocks in
  `queue_add_blocking` for good, which is what the firmware does.

## 4. Findings

Each finding is shown by a violation run.

1. **Empty commands are dropped** (`tls_mqtt_client.c:188`).
   * Run: `reassembly_empty_message`.
   * The spec says any message toggles.
2. **A refused publish leaks its message** (`tls_mqtt_client.c:367`).
   * Run: `client_publish_leak`.
3. **No resubscription after a reconnect** (`tls_mqtt_client.c:317`).
   * Run: `client_resubscribe`.
   * `is_subscribed` is never cleared on disconnect.
4. **A torn flash write can be trusted at boot** (`non_volatile.c:44`).
   * Run: `settings_store_torn`.
   * `read_settings_from_flash` checks only the flag words, at the start and
     the end of the record.
   * An erase or program cut by power loss can leave a flag word readable
     while the middle pages hold other data. Boot then runs with a record
     no one wrote.
   * In TLC's trace, a torn erase of sector 1 garbles all of its pages but
     keeps the start flag word of the first one. Sector 2 is untouched and
     still holds the previous version's end flag, so both flags check out.
   * With the real sizes, only a torn erase that keeps a flag word, or a
     program that leaves bits set, can produce this.
   * Nothing in the record (no CRC) detects it.
5. **A posted change can be lost in the background build**
   (`main.c:315`).
   * Run: `portal_store_race`.
   * The loop tests `store_settings_flag` and then `settings_changed`. A
     POST that completes between the two tests, when it is the first
     change, sets both flags after the loop has already chosen to clear
     `store_settings_flag`.
   * In the poll build, callbacks run only inside `cyw43_arch_poll`, and
     the `portal` run shows that the change is always saved.
6. **Two POSTs share one buffer** (`http_control.c:29`).
   * Run: `portal_shared_buffer`.
   * `post_data_buffer` and `post_data_index` are global.
   * A second POST accepted while the first is still receiving rewinds
     `post_data_index` to 0 but leaves the buffer as it is. The two
     requests then write over each other's bytes, and a parse reads bytes
     of the other request.

Found by reading and listed as hazards in `PROJECT.json`:
* the NULL `state` dereference after a failed init (`main.c:357`);
* `free` of the static settings (`tls_mqtt_client.c:430`);
* the DNS wait that never ends on `ERR_ARG` (`tls_mqtt_client.c:600`);
* the POST parser's `'0'` test (`http_control.c:70`);
* a synchronous failure of the reconnect, which is never retried
  (`tls_mqtt_client.c:117`);
* the sub/unsub retry, which is not bounded to one
  (`tls_mqtt_client.c:268`).

## 5. Proofs

All proofs are checked by `tlapm`. Each theorem holds for every value of the
constants that satisfies the module's `ASSUME`.

### MqttReassemblyProofs

* `MemorySafety == Spec => []NoMemoryFault`
* `TypeCorrect == Spec => []TypeOK`
* `WholeMessages == Spec => HandlerGetsWholeMessage`, an action property

`NoMemoryFault` is not inductive by itself. A state where `err_state` is OK,
a message is in flight, and the session already holds bytes near capacity
would let the next chunk overrun, and nothing in `NoMemoryFault` excludes it.
The strengthening `Room` says that while a message is in flight and
`err_state` is OK:

* the receiving session is that message's topic;
* its `data_in` equals the bytes lwIP still has to deliver;
* those bytes fit in what is left of the buffer.

`IInv == TypeOK /\ NoMemoryFault /\ Room` was first checked by TLC as an
invariant, then proved:
* to hold initially;
* to be preserved by every action, with one lemma per action.

`HandlerGetsWholeMessage` needs one more fact, `Filled`. While a message
is accepted and in delivery, the session's buffered length plus the bytes
lwIP has still to send equals the message's length. With `Room` (the
session is the message's topic and expects exactly those bytes), the last
chunk passes the handler the message's topic and full length. The theorem
shows that every step satisfies `HandlerStep` under `IInv /\ Filled`.
TLC checked `Filled` as an invariant of the reassembly configuration
first.

### ActuatorsProofs

* `TypeCorrect == Spec => []TypeOK`
* `PumpCutOffArmed == Spec => []WaterCutOffArmed`
* `AlarmNeverStartsPump == Spec => AlarmOnlyStopsWater`

`WaterCutOffArmed` speaks only of idle states. The steps inside `set_water`
need facts about the states in between, so `OneAlarm` adds:
* the pin always equals `text = "ON"`;
* the mutex is held exactly while `set_water` runs;
* at most one alarm is armed, and it is `water_pump_alarm`;
* an armed alarm means the pin is high;
* at `cancel` a high pin has a real alarm id;
* at `decide` the id is 0.

The last three conjuncts are what the cancel and the toggle need.
`AlarmOnlyStopsWater` follows from the same invariant: an alarm that fires
is armed, so the pin is high.

### ConfigPortalProofs

* `TypeCorrect == Spec => []TypeOK`: `post_data_index` stays within the
  buffer.
* `RestartAfterWrite == Spec => []RebootOnlyAfterSave`

`RebootOnlyAfterSave` is not inductive. A state where core1 is about to
set `reset_core`, or has set it, without a write would lead to a reboot
without a save. `SaveBeforeReset` says that `saved` holds at the place
before the flag is set, while the flag is set, and during the reboot.

`IInv == TypeOK /\ SaveBeforeReset` is proved preserved by:
* each POST callback;
* each step of core1;
* core0's check.

The callbacks leave the restart variables alone.

### SensorPipelineProofs

* `TypeCorrect == Spec => []TypeOK`: the queue never holds more than
  `QueueCap` entries.
* `ReadingsInOrder == Spec => []QueueCarriesEveryReading`

These hold for every set of sensors and every capacity, with or without
the timing hypothesis `ShutdownWithinLoop`: it only restricts when core0
checks `reset_core`, which no queue step depends on.
`QueueCarriesEveryReading` speaks of `Sent`, which depends on whether a
reading waits in `batch`. The strengthening adds two facts:
* `BatchOnlyInTransfer`: the batch is empty outside
  `transfer_data_sensors`;
* `BatchedCollected`: every batched reading is at least 1, so `Sent` is a
  natural number.

The queue reasoning is done once, for any sequence, slots and sent counts
(`QC`):
* `QCAppend`: core0's append of the next reading;
* `QCTail`: core1's remove and copy.

`QCEIsQC` connects `QC` to the invariant. `NextSensorInBatch` shows, by
well-foundedness of `<` on `Nat`, that the `CHOOSE` of the least batched
sensor exists.

### SettingsStoreProofs

* `TypeCorrect == Spec => []TypeOK`
* `StoreRefinesAtomicSettings == ASSUME ~TornKeepsFlag PROVE Spec => RefinesAtomicSettings`
* `WrittenSettingsOnly == ASSUME ~TornKeepsFlag PROVE Spec => []RunsWithWrittenSettings`

These hold for every record length, sector size and set of versions.

**The hypothesis.** `~TornKeepsFlag` says that a page cut by a power loss
reads as erased. The settings_store_torn run shows that the two theorems
are false without it: a torn erase that keeps a flag word makes boot trust
a mixed record. The firmware's check of the first and last flag words is
sound only under this hypothesis, so it is stated, not assumed away.

**The inductive invariant.** `IInv` adds four facts to `TypeOK`:
* `UpIdle`: no write is in progress while the node is down.
* `WriteProgress`: at step `stp` of a write, the sectors before it are
  erased and the pages before it are programmed with the new version.
  It is stated as `WP(page, step, writing)` so that the same lemma
  (`ProgressFacts`) serves the state before and after a step.
* `FlaggedWhole`: whenever the first and the last page carry the flag, all
  pages hold one version. This is what makes `ReadSettings` never `Mixed`.
* `SettingsWhole`: the settings in use are a version or `None`.

`FlaggedWhole` is preserved by a power loss only because the pages the loss
touches read as erased (`DownRejects`). That is where the hypothesis enters.

**The refinement.** `record` maps to `ReadSettings(page)`. The initial
states map to `AInit`. Each step is shown to map to a step of
`AtomicSettings` or a stutter (`StepRefines`):
* the erase of sector 1 is `AInvalidate`, since page 1 becomes erased;
* the other erases and the programs up to the last page stutter, since
  page 1 or the last page stays erased;
* the last page programmed is `ACommit(writing)`;
* `Down` is `ADown` and `Boot` is `ABoot`;
* `Save` only starts a write, so it stutters.

`StoreAssumption` states that the markers `"erased"` and `"garbled"` are
not versions. Without it, a page's contents could be read as a version.

### MqttClientProofs

* `TypeCorrect == Spec => []TypeOK`: lwIP never holds more than
  `MaxInFlight` requests.
* `ConnectedFlagAlwaysSound == Spec => []ConnectedFlagSound`
* `NoUseAfterFreeAlways == Spec => []NoUseAfterFree`
* `SubRequestsMatchFlags == Spec => []SubRequestMatchesFlag`

These hold for every topic set, list size and bound with
`Cardinality(Topics) <= MaxInFlight`, and with or without
`CloseCallsBack`. TLC checked the inductive invariant on the client
configuration with both values of `CloseCallsBack`, and on a list of two
slots with three publishes per round.

`TypeOK` is not inductive. The connection callback adds up to one
subscribe per topic, which would overflow a list that already held
requests. `IInv` adds two facts:
* `ReqsOnlyConnected`: lwIP holds no request unless it is Connected.
  Publishes need `is_connected`, subscribes come from the CONNACK or from
  a retry of a pending request, and `mqtt_close` empties the list. So the
  callback always starts from an empty list.
* `IsFiniteSet(reqs)`, so that `FiniteSetTheorems` can count the list.

`IInv` also holds the three client invariants. `SubRequestMatchesFlag` gives
`OneRequestPerTopic`: a pending sub/unsub request is fixed by its topic and
the topic's flag, so a topic has at most one. Hence a success that flips
the flag leaves no stale request of that topic. A retry re-issues exactly
the request that failed, so the list is unchanged. `RequestFacts` says a
request is determined by its fields.

### Only model-checked

Every safety property of a passing run is now also a theorem. What stays
with TLC:
* The liveness properties `WaterEventuallyOff`, `PostedChangeSaved` and
  `RestartCompletes`. Liveness needs ENABLED and fairness, which the prover
  does not handle here.
* The properties of the violation runs. They are false of the code, and
  TLC's counterexamples are the findings of section 4.

## 6. Not modelled

* **Wi-Fi bring-up** (`wifi_arch.c`), the **sensor wrappers' bus I/O** and
  the **DS18B20 driver** (`ds18b20_pio`). These are hardware I/O. The loops
  of `sensors.c` over them are in `SensorPipeline`.
* **The text of a reading.** A collect yields a new reading or its null
  placeholder, and the model does not tell the two apart.
* **TLS configuration.**
* **`tls_mqtt_deinit` / `tls_mqtt_clean`**, which are never called on a
  successful path.
* **DNS** (see hazards).
* **The parsing of key/value text in the portal.** It is abstracted to
  "changed or not".

## 7. Plan

1. Compose `ConfigPortal` with `SettingsStore`, so that the save at the end
   of the portal is the store's `Save`.
2. Model core0's publishing loop against `MqttClient`'s request list.
3. Compose `SensorPipeline`'s core1 with `MqttClient`'s publish loop, which
   reads `current_sensor_data`.
