------------------------------ MODULE Actuators ------------------------------
(***************************************************************************)
(* The two actuators of src/main.c: the light, a plain toggle (set_light), *)
(* and the water pump, a toggle guarded by water_pump_mutex and cut off by *)
(* a safety alarm on the net core's alarm pool (set_water,                 *)
(* water_alarm_callback).                                                  *)
(*                                                                         *)
(* Commands reach set_water/set_light from server_command_handler, in the  *)
(* lwIP callback context of core1.  The alarm runs set_water from the      *)
(* timer interrupt of core1, which preempts the command context and runs   *)
(* to completion, so it is one step here, while the command's set_water is *)
(* split where the alarm may come in: after mutex_try_enter, after the     *)
(* cancel, and after the pin and text are written.  The alarm is armed for *)
(* WATERING_TIME_MS (10 s) and cannot fire before the set_water that armed *)
(* it returns.  The text of the topic ("ON"/"OFF", topic_data) is what     *)
(* set_water tests, and what is published.                                 *)
(***************************************************************************)
EXTENDS Integers

CONSTANTS
  MaxAlarms   \* bound: alarms the pool hands out over a run (ids 1..MaxAlarms)

ASSUME ActuatorAssumption == MaxAlarms \in Nat

VARIABLES
  water_pin,        \* WATER_PIN output
  water_text,       \* current_control_state[water].topic_data
  light_pin,        \* LIGHT_PIN output
  light_text,       \* current_control_state[light].topic_data
  locked,           \* water_pump_mutex is held
  water_pump_alarm, \* id of the safety alarm: 0 none, -1 arming failed
  armed,            \* ids of the alarms the pool will still fire
  pc,               \* the command context's place in set_water
  nextAlarm         \* ids handed out so far

vars == <<water_pin, water_text, light_pin, light_text, locked,
          water_pump_alarm, armed, pc, nextAlarm>>

AlarmIds == 1..MaxAlarms
Texts == {"ON", "OFF"}

-----------------------------------------------------------------------------
(* The two branches of set_water after the cancel.                        *)

\* What alarm_pool_add_alarm_in_ms may return: a fresh id, or -1 when the
\* pool has no free slot.
ArmResults == IF nextAlarm < MaxAlarms THEN {nextAlarm + 1, -1} ELSE {-1}

\* Plausible bugs of set_water's two branches, used to show that the
\* properties below can fail: the pin driven high even when the alarm could
\* not be armed, and "OFF" copied with the length of "ON".
Mutant_WaterOnIgnoreArmFailure(base) ==
  \E id \in ArmResults :
    /\ water_pump_alarm' = id
    /\ nextAlarm' = IF id > 0 THEN id ELSE nextAlarm
    /\ armed' = IF id > 0 THEN base \cup {id} ELSE base
    /\ water_pin' = TRUE
    /\ water_text' = "ON"

Mutant_WaterOffShortCopy ==
  /\ water_pin' = FALSE
  /\ water_text' = "OF"

\* Text "OFF": arm the safety alarm; only if that worked (id >= 0) drive the
\* pin high and write "ON".  Base is the set of armed alarms to add to.
WaterOn(base) ==
  \E id \in ArmResults :
    /\ water_pump_alarm' = id
    /\ nextAlarm' = IF id > 0 THEN id ELSE nextAlarm
    /\ armed' = IF id > 0 THEN base \cup {id} ELSE base
    /\ water_pin' = IF id >= 0 THEN TRUE ELSE water_pin
    /\ water_text' = IF id >= 0 THEN "ON" ELSE water_text

\* Any other text: pin low, "OFF".
WaterOff ==
  /\ water_pin' = FALSE
  /\ water_text' = "OFF"

-----------------------------------------------------------------------------
(* set_water in the command context, one step per part the alarm may      *)
(* separate.                                                               *)

\* server_command_handler(water) calls set_water: mutex_try_enter, and
\* return at once if the mutex is held.
CommandWater ==
  /\ pc = "idle"
  /\ IF locked THEN UNCHANGED <<locked, pc>>
               ELSE /\ locked' = TRUE
                    /\ pc' = "cancel"
  /\ UNCHANGED <<water_pin, water_text, light_pin, light_text,
                 water_pump_alarm, armed, nextAlarm>>

\* Plausible bug of the cancel: the alarm id cleared without cancelling.
Mutant_CancelNoCancel ==
  /\ pc = "cancel"
  /\ pc' = "decide"
  /\ water_pump_alarm' = 0
  /\ UNCHANGED <<water_pin, water_text, light_pin, light_text, locked, armed,
                 nextAlarm>>

\* if (water_pump_alarm) { alarm_pool_cancel_alarm; water_pump_alarm = 0; }
Cancel ==
  /\ pc = "cancel"
  /\ pc' = "decide"
  /\ IF water_pump_alarm # 0
     THEN /\ armed' = armed \ {water_pump_alarm}
          /\ water_pump_alarm' = 0
     ELSE UNCHANGED <<armed, water_pump_alarm>>
  /\ UNCHANGED <<water_pin, water_text, light_pin, light_text, locked,
                 nextAlarm>>

\* The toggle on the text.
Decide ==
  /\ pc = "decide"
  /\ pc' = "exit"
  /\ IF water_text = "OFF"
     THEN WaterOn(armed)
     ELSE /\ WaterOff
          /\ UNCHANGED <<water_pump_alarm, armed, nextAlarm>>
  /\ UNCHANGED <<light_pin, light_text, locked>>

\* Plausible bug of the exit: set_water returns without mutex_exit.
Mutant_ExitNoUnlock ==
  /\ pc = "exit"
  /\ pc' = "idle"
  /\ UNCHANGED <<water_pin, water_text, light_pin, light_text, locked,
                 water_pump_alarm, armed, nextAlarm>>

\* mutex_exit at the end of set_water.
Exit ==
  /\ pc = "exit"
  /\ pc' = "idle"
  /\ locked' = FALSE
  /\ UNCHANGED <<water_pin, water_text, light_pin, light_text,
                 water_pump_alarm, armed, nextAlarm>>

-----------------------------------------------------------------------------
(* The alarm interrupt and the light.                                     *)

\* The alarm a fires: water_alarm_callback runs set_water to completion; if
\* the command context holds the mutex it returns at once.  Either way the
\* callback returns 0 and the alarm is not rescheduled.  An alarm armed by
\* the set_water still in progress is 10 s away and cannot fire yet.
AlarmFires(a) ==
  /\ a \in armed
  /\ ~(pc = "exit" /\ a = water_pump_alarm)
  /\ IF locked
     THEN /\ armed' = armed \ {a}
          /\ UNCHANGED <<water_pin, water_text, water_pump_alarm, nextAlarm>>
     ELSE IF water_text = "OFF"
     THEN WaterOn(armed \ {a})
     ELSE /\ WaterOff
          /\ water_pump_alarm' = 0
          /\ armed' = armed \ {a}
          /\ UNCHANGED nextAlarm
  /\ UNCHANGED <<light_pin, light_text, locked, pc>>

\* server_command_handler(light) runs set_light: toggle on the text.
CommandLight ==
  /\ pc = "idle"
  /\ light_pin' = (light_text = "OFF")
  /\ light_text' = IF light_text = "OFF" THEN "ON" ELSE "OFF"
  /\ UNCHANGED <<water_pin, water_text, locked, water_pump_alarm, armed, pc,
                 nextAlarm>>

\* init_net_hardware and current_control_state: pins low, texts "OFF".
Init ==
  /\ water_pin = FALSE
  /\ water_text = "OFF"
  /\ light_pin = FALSE
  /\ light_text = "OFF"
  /\ locked = FALSE
  /\ water_pump_alarm = 0
  /\ armed = {}
  /\ pc = "idle"
  /\ nextAlarm = 0

Next ==
  \/ CommandWater \/ Cancel \/ Decide \/ Exit
  \/ \E a \in AlarmIds : AlarmFires(a)
  \/ CommandLight

\* The hardware timer fires every armed alarm, and a started set_water runs
\* to its end.
Fairness ==
  /\ \A a \in AlarmIds : WF_vars(AlarmFires(a))
  /\ WF_vars(Cancel) /\ WF_vars(Decide) /\ WF_vars(Exit)

Spec == Init /\ [][Next]_vars /\ Fairness

-----------------------------------------------------------------------------
(* Properties.                                                            *)

TypeOK ==
  /\ water_pin \in BOOLEAN
  /\ water_text \in Texts
  /\ light_pin \in BOOLEAN
  /\ light_text \in Texts
  /\ locked \in BOOLEAN
  /\ water_pump_alarm \in {-1, 0} \cup AlarmIds
  /\ armed \subseteq AlarmIds
  /\ pc \in {"idle", "cancel", "decide", "exit"}
  /\ nextAlarm \in 0..MaxAlarms

\* Between commands the pump output agrees with the published text, and a
\* running pump always has its safety alarm armed under the id set_water
\* will cancel: set_water drives the pin high only once the alarm is armed,
\* and every path that disarms it drives the pin low.
WaterCutOffArmed ==
  pc = "idle" =>
    /\ water_pin = (water_text = "ON")
    /\ water_pin => water_pump_alarm \in armed

\* The safety alarm only ever stops the pump: water_alarm_callback never
\* finds the pump off and starts it (which would happen if an alarm
\* outlived the command that stopped the pump).
AlarmOnlyStopsWater ==
  [][\A a \in AlarmIds : AlarmFires(a) => ~(~water_pin /\ water_pin')]_vars

\* Spec (Water): whatever the commands and wherever the alarm interrupts
\* set_water, a running pump is eventually stopped (by a command or by the
\* alarm of WATERING_TIME_MS).
WaterEventuallyOff == water_pin ~> ~water_pin

=============================================================================
