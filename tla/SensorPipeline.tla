---------------------------- MODULE SensorPipeline ----------------------------
(***************************************************************************)
(* The two cores around the sensor queue (src/main.c, src/sensors.c).      *)
(*                                                                         *)
(* Core0 (main) initializes the sensors once, then loops: prepare and      *)
(* collect every connected sensor, pass each reading to sensor_data_queue  *)
(* with queue_add_blocking, and check reset_core under reset_core_mutex;   *)
(* if it is set, tear the sensors down and spin until the watchdog resets  *)
(* the chip.                                                               *)
(*                                                                         *)
(* Core1 (core1_entry) runs either httpd_ap_mode or mqtt_sta_mode.  Both   *)
(* loops drain the queue with try_read_data_from_queue into                *)
(* current_sensor_data, the latest reading per topic, which the portal's   *)
(* SSI handler and publish_topic_data read.  httpd_ap_mode leaves its loop *)
(* once a POST changed the settings, writes them and sets reset_core;      *)
(* it returns at once if its malloc fails.  mqtt_sta_mode dereferences     *)
(* the client state even when tls_mqtt_init failed and left it NULL.       *)
(*                                                                         *)
(* A reading is a number per sensor, counting its collects: the queue      *)
(* entry <<topic_index, data>> is [topic |-> s, n |-> k].                  *)
(***************************************************************************)
EXTENDS Naturals, Sequences

CONSTANTS
  Sensors,     \* topic numbers of sensors_arr
  QueueCap,    \* element count given to queue_init (10)
  MaxReadings, \* bound: collects per sensor over a run
  ShutdownWithinLoop \* timing: core1's shutdown after it leaves the AP
                     \* loop ends before core0 passes its reset check twice

ASSUME PipelineAssumption ==
  /\ Sensors \subseteq Nat
  /\ QueueCap \in Nat \ {0}
  /\ MaxReadings \in Nat
  /\ ShutdownWithinLoop \in BOOLEAN

VARIABLES
  connected, \* sensors whose init_fn succeeded (disconnected = false)
  pc0,       \* core0's place in main
  batch,     \* sensors with a fresh reading still to pass to the queue
  reading,   \* per sensor, the reading in its topic_data
  queue,     \* sensor_data_queue
  slot,      \* per sensor, the reading in current_sensor_data[topic]
  pc1,       \* core1's place in core1_entry
  reset_core, \* the restart request, under reset_core_mutex
  windowCheck \* history: core0 has checked reset_core since core1 left
              \* the AP loop

vars == <<connected, pc0, batch, reading, queue, slot, pc1, reset_core,
          windowCheck>>

Entry == [topic : Sensors, n : 0..MaxReadings]

-----------------------------------------------------------------------------
(* Core0.                                                                 *)

\* multicore_launch_core1, then init_sensors: each init_fn returns 0, or 1
\* when its malloc fails (the DS18B20 wrapper also passes on the driver's
\* error); a sensor that failed stays disconnected for the whole run.
InitSensors ==
  /\ pc0 = "init"
  /\ pc0' = "collect"
  /\ \E ok \in SUBSET Sensors : connected' = ok
  /\ UNCHANGED <<batch, reading, queue, slot, pc1, reset_core, windowCheck>>

\* prepare_sensors and collect_data_sensors: every connected sensor writes
\* a new reading (or its null placeholder) into its topic_data.  A sensor
\* past the bound of the run is left out, as if disconnected.
Collect ==
  /\ pc0 = "collect"
  /\ LET fresh == {s \in connected : reading[s] < MaxReadings} IN
       /\ batch' = fresh
       /\ reading' = [s \in Sensors |->
                        IF s \in fresh THEN reading[s] + 1 ELSE reading[s]]
  /\ pc0' = "transfer"
  /\ UNCHANGED <<connected, queue, slot, pc1, reset_core, windowCheck>>

\* The next sensor transfer_data_sensors passes on, in index order.
NextSensor == CHOOSE s \in batch : \A r \in batch : s <= r

\* Plausible bug of pass_sensor_data_to_queue: queue_try_add in place of
\* queue_add_blocking, dropping the reading when the queue is full.
Mutant_TransferTryAdd ==
  /\ pc0 = "transfer"
  /\ IF batch = {}
     THEN /\ pc0' = "check"
          /\ UNCHANGED <<batch, queue>>
     ELSE /\ queue' = IF Len(queue) < QueueCap
                      THEN Append(queue, [topic |-> NextSensor,
                                          n |-> reading[NextSensor]])
                      ELSE queue
          /\ batch' = batch \ {NextSensor}
          /\ UNCHANGED pc0
  /\ UNCHANGED <<connected, reading, slot, pc1, reset_core, windowCheck>>

\* Plausible bug of the queue: an add that does not wait for a free element
\* and writes past the capacity given to queue_init.
Mutant_TransferNoWait ==
  /\ pc0 = "transfer"
  /\ IF batch = {}
     THEN /\ pc0' = "check"
          /\ UNCHANGED <<batch, queue>>
     ELSE /\ queue' = Append(queue, [topic |-> NextSensor,
                                     n |-> reading[NextSensor]])
          /\ batch' = batch \ {NextSensor}
          /\ UNCHANGED pc0
  /\ UNCHANGED <<connected, reading, slot, pc1, reset_core, windowCheck>>

\* transfer_data_sensors(pass_sensor_data_to_queue): queue_add_blocking
\* waits while the queue is full.
Transfer ==
  /\ pc0 = "transfer"
  /\ IF batch = {}
     THEN /\ pc0' = "check"
          /\ UNCHANGED <<batch, queue>>
     ELSE /\ Len(queue) < QueueCap
          /\ queue' = Append(queue, [topic |-> NextSensor,
                                     n |-> reading[NextSensor]])
          /\ batch' = batch \ {NextSensor}
          /\ UNCHANGED pc0
  /\ UNCHANGED <<connected, reading, slot, pc1, reset_core, windowCheck>>

\* deinit_clean_sensors: clean_fn of every connected sensor frees its
\* driver state; none is used again before the reset.
DeinitCleanSensors == connected' = {}

\* Plausible bug of the check: the flag cleared before it is copied, so
\* restart is always false.
Mutant_CheckResetClearFirst ==
  /\ pc0 = "check"
  /\ ~(ShutdownWithinLoop /\ pc1 = "ap_shutdown" /\ windowCheck)
  /\ windowCheck' = (windowCheck \/ pc1 = "ap_shutdown")
  /\ reset_core' = FALSE
  /\ pc0' = "collect"
  /\ UNCHANGED <<connected, batch, reading, queue, slot, pc1>>

\* The check under reset_core_mutex: restart = reset_core; if set, clear
\* it and deinit_clean_sensors, then watchdog_enable and spin.  Core0
\* sleeps 5 s between two checks (sleep_ms(3000) after the check and
\* sleep_ms(2000) before the collect); under ShutdownWithinLoop core1's
\* shutdown, which lasts far less, sees at most one check.
CheckReset ==
  /\ pc0 = "check"
  /\ ~(ShutdownWithinLoop /\ pc1 = "ap_shutdown" /\ windowCheck)
  /\ windowCheck' = (windowCheck \/ pc1 = "ap_shutdown")
  /\ IF reset_core
     THEN /\ reset_core' = FALSE
          /\ DeinitCleanSensors
          /\ pc0' = "reboot"
     ELSE /\ pc0' = "collect"
          /\ UNCHANGED <<reset_core, connected>>
  /\ UNCHANGED <<batch, reading, queue, slot, pc1>>

-----------------------------------------------------------------------------
(* Core1.                                                                 *)

\* core1_entry: after the settings, the button chooses the mode.
\* httpd_ap_mode returns at once when the malloc of copy_settings fails;
\* mqtt_sta_mode runs with state NULL when tls_mqtt_init failed.
Core1Start ==
  /\ pc1 = "boot"
  /\ pc1' \in {"ap", "ap_returned", "sta", "sta_null"}
  /\ UNCHANGED <<connected, pc0, batch, reading, queue, slot,
                 reset_core, windowCheck>>

\* Plausible bug of the read: the newest entry taken instead of the oldest.
Mutant_TryReadNewest ==
  /\ pc1 \in {"ap", "sta", "sta_null"}
  /\ queue # <<>>
  /\ slot' = [slot EXCEPT ![queue[Len(queue)].topic] = queue[Len(queue)].n]
  /\ queue' = SubSeq(queue, 1, Len(queue) - 1)
  /\ UNCHANGED <<connected, pc0, batch, reading, pc1, reset_core, windowCheck>>

\* One try_read_data_from_queue that finds an entry: queue_try_remove, then
\* the copy into current_sensor_data[topic_index].
TryReadData ==
  /\ pc1 \in {"ap", "sta", "sta_null"}
  /\ queue # <<>>
  /\ slot' = [slot EXCEPT ![Head(queue).topic] = Head(queue).n]
  /\ queue' = Tail(queue)
  /\ UNCHANGED <<connected, pc0, batch, reading, pc1, reset_core, windowCheck>>

\* httpd_ap_mode, once try_read_data_from_queue found the queue empty and
\* a POST had set store_settings_flag and settings_changed: leave the loop,
\* free copy_settings and deinit the DNS and DHCP servers and cyw43.  From
\* here on core1 no longer drains the queue.
ApLeave ==
  /\ pc1 = "ap"
  /\ queue = <<>>
  /\ pc1' = "ap_shutdown"
  /\ UNCHANGED <<connected, pc0, batch, reading, queue, slot, reset_core,
                 windowCheck>>

\* The end of httpd_ap_mode: write_settings_in_flash, with core0 locked out
\* (multicore_lockout), then set reset_core under the mutex.  Core1 then
\* returns from core1_entry.
ApSave ==
  /\ pc1 = "ap_shutdown"
  /\ reset_core' = TRUE
  /\ pc1' = "stopped"
  /\ UNCHANGED <<connected, pc0, batch, reading, queue, slot, windowCheck>>

\* mqtt_sta_mode with state NULL reads state->is_connected from address 0
\* (boot ROM) and, if that byte is not zero, calls publish_topic_data with
\* a garbage settings pointer: core1 may hard-fault there.
StaNullFault ==
  /\ pc1 = "sta_null"
  /\ pc1' = "halted"
  /\ UNCHANGED <<connected, pc0, batch, reading, queue, slot,
                 reset_core, windowCheck>>

-----------------------------------------------------------------------------

\* main: queue_init, mutex_init, core1 launched; current_sensor_data is
\* zero-filled static memory.
Init ==
  /\ connected = {}
  /\ pc0 = "init"
  /\ batch = {}
  /\ reading = [s \in Sensors |-> 0]
  /\ queue = <<>>
  /\ slot = [s \in Sensors |-> 0]
  /\ pc1 = "boot"
  /\ reset_core = FALSE
  /\ windowCheck = FALSE

Next ==
  \/ InitSensors \/ Collect \/ Transfer \/ CheckReset
  \/ Core1Start \/ TryReadData \/ ApLeave \/ ApSave \/ StaNullFault

\* Both cores run their loops without blocking each other except at the
\* full queue and the mutex, and core1's shutdown is straight-line code.
\* Nothing forces the user to save from the portal, nor core1 to fault.
Fairness ==
  /\ WF_vars(InitSensors) /\ WF_vars(Collect) /\ WF_vars(Transfer)
  /\ WF_vars(CheckReset)
  /\ WF_vars(Core1Start) /\ WF_vars(TryReadData) /\ WF_vars(ApSave)

Spec == Init /\ [][Next]_vars /\ Fairness

-----------------------------------------------------------------------------
(* Properties.                                                            *)

TypeOK ==
  /\ connected \subseteq Sensors
  /\ pc0 \in {"init", "collect", "transfer", "check", "reboot"}
  /\ batch \subseteq connected
  /\ reading \in [Sensors -> 0..MaxReadings]
  /\ queue \in Seq(Entry) /\ Len(queue) <= QueueCap
  /\ slot \in [Sensors -> 0..MaxReadings]
  /\ pc1 \in {"boot", "ap", "ap_returned", "sta", "sta_null", "ap_shutdown",
              "stopped", "halted"}
  /\ reset_core \in BOOLEAN
  /\ windowCheck \in BOOLEAN

\* The readings of sensor s that core0 has passed to the queue.
Sent(s) == IF s \in batch THEN reading[s] - 1 ELSE reading[s]

\* Entry i is the first, or the last, entry of its sensor in the queue;
\* entry j is the one of the same sensor next after entry i.
IsFirst(i) == \A j \in 1..(i - 1) : queue[j].topic # queue[i].topic
IsLast(i) == \A j \in (i + 1)..Len(queue) : queue[j].topic # queue[i].topic
NextOf(i, j) ==
  /\ i < j
  /\ queue[j].topic = queue[i].topic
  /\ \A k \in (i + 1)..(j - 1) : queue[k].topic # queue[i].topic

\* Spec (SensorQueue): the queue loses, duplicates and reorders nothing,
\* and current_sensor_data is last-write-wins.  For every sensor the
\* entries waiting in the queue are exactly the readings after the one in
\* its slot, in order, up to the last one core0 passed on: the first
\* follows the slot, each follows the one before, the last is the last
\* sent, and with none waiting the slot holds the last sent.
QueueCarriesEveryReading ==
  /\ \A i \in 1..Len(queue) :
       IsFirst(i) => queue[i].n = slot[queue[i].topic] + 1
  /\ \A i, j \in 1..Len(queue) : NextOf(i, j) => queue[j].n = queue[i].n + 1
  /\ \A i \in 1..Len(queue) : IsLast(i) => queue[i].n = Sent(queue[i].topic)
  /\ \A s \in Sensors :
       (\A i \in 1..Len(queue) : queue[i].topic # s) => Sent(s) = slot[s]

\* Spec (RestartHandshake): once core1 has saved the settings and set
\* reset_core, core0 reaches the watchdog wait, whatever its place in the
\* loop.  Core1 stops draining the queue when it leaves the AP loop, well
\* before it sets reset_core, so queue_add_blocking could keep core0 from
\* the check for good: this holds only if core1's shutdown ends before
\* core0's second check (ShutdownWithinLoop) and the queue, empty when
\* core1 leaves, has room for the readings core0 adds until it checks.
RestartCompletes == reset_core ~> (pc0 = "reboot")

=============================================================================
