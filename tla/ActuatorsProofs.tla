---------------------------- MODULE ActuatorsProofs ----------------------------
(***************************************************************************)
(* Proofs about Actuators for every number of alarm ids: the state keeps  *)
(* its types, a running pump always has its safety alarm armed between     *)
(* commands, and the alarm never starts the pump.                          *)
(*                                                                         *)
(* WaterCutOffArmed is not inductive: it says nothing while a command is   *)
(* inside set_water, where the alarm may fire.  The strengthening records  *)
(* what set_water keeps at each of its places: the mutex is held exactly   *)
(* while the command is inside set_water; the pin always agrees with the   *)
(* text; at most one alarm is armed, the one water_pump_alarm names, and   *)
(* only while the pump runs; after the cancel the id is 0.                 *)
(***************************************************************************)
EXTENDS Actuators, TLAPS

OneAlarm ==
  /\ water_pin = (water_text = "ON")
  /\ locked = (pc # "idle")
  /\ armed \subseteq {water_pump_alarm}
  /\ armed # {} => water_pin
  /\ pc \in {"idle", "exit"} /\ water_pin => water_pump_alarm \in armed
  /\ pc = "cancel" /\ water_pin => water_pump_alarm \in AlarmIds
  /\ pc = "decide" => water_pump_alarm = 0

IInv == TypeOK /\ OneAlarm

-----------------------------------------------------------------------------
\* The initial state satisfies the inductive invariant.
LEMMA InitIInv == Init => IInv
  <1> SUFFICES ASSUME Init PROVE IInv
    OBVIOUS
  <1>1. TypeOK
    <2>1. water_pump_alarm \in {-1, 0} \cup AlarmIds
      BY DEF Init
    <2>2. nextAlarm \in 0..MaxAlarms
      BY ActuatorAssumption DEF Init
    <2>3. water_text \in Texts /\ light_text \in Texts
      BY DEF Init, Texts
    <2>4. armed \subseteq AlarmIds /\ pc \in {"idle", "cancel", "decide", "exit"}
      BY DEF Init
    <2>5. QED
      BY <2>1, <2>2, <2>3, <2>4 DEF Init, TypeOK
  <1>2. OneAlarm
    BY DEF Init, OneAlarm
  <1>3. QED
    BY <1>1, <1>2 DEF IInv

\* The try-lock of a command: at idle the mutex is free, so it is taken.
LEMMA CommandWaterIInv == IInv /\ CommandWater => IInv'
  <1> SUFFICES ASSUME IInv, CommandWater PROVE IInv'
    OBVIOUS
  <1>1. /\ pc = "idle" /\ ~locked /\ pc' = "cancel" /\ locked'
        /\ UNCHANGED <<water_pin, water_text, light_pin, light_text,
                       water_pump_alarm, armed, nextAlarm>>
    BY DEF IInv, OneAlarm, CommandWater
  <1>2. TypeOK'
    BY <1>1 DEF IInv, TypeOK
  <1>3. OneAlarm'
    BY <1>1 DEF IInv, OneAlarm, TypeOK
  <1>4. QED
    BY <1>2, <1>3 DEF IInv

\* The cancel leaves no alarm armed and the id 0.
LEMMA CancelIInv == IInv /\ Cancel => IInv'
  <1> SUFFICES ASSUME IInv, Cancel PROVE IInv'
    OBVIOUS
  <1>1. /\ pc = "cancel" /\ pc' = "decide"
        /\ water_pump_alarm' = 0
        /\ UNCHANGED <<water_pin, water_text, light_pin, light_text, locked,
                       nextAlarm>>
    BY DEF Cancel
  <1>2. armed' = {}
    <2>1. CASE water_pump_alarm # 0
      BY <2>1 DEF IInv, OneAlarm, Cancel
    <2>2. CASE water_pump_alarm = 0
      BY <2>2 DEF IInv, TypeOK, OneAlarm, Cancel, AlarmIds
    <2>3. QED
      BY <2>1, <2>2
  <1>3. TypeOK'
    BY <1>1, <1>2 DEF IInv, TypeOK, AlarmIds
  <1>4. OneAlarm'
    BY <1>1, <1>2 DEF IInv, OneAlarm
  <1>5. QED
    BY <1>3, <1>4 DEF IInv

\* The toggle: arming a fresh alarm (or failing to) when the text is "OFF",
\* stopping the pump otherwise; no alarm is armed before it.
LEMMA DecideIInv == IInv /\ Decide => IInv'
  <1> SUFFICES ASSUME IInv, Decide PROVE IInv'
    OBVIOUS
  <1>1. /\ water_pump_alarm = 0
        /\ pc = "decide" /\ pc' = "exit" /\ locked /\ locked'
        /\ UNCHANGED <<light_pin, light_text>>
    BY DEF IInv, OneAlarm, Decide
  <1>2. armed = {}
    BY <1>1 DEF IInv, TypeOK, OneAlarm, AlarmIds
  <1>3. CASE water_text = "OFF"
    <2>1. PICK id \in ArmResults :
            /\ water_pump_alarm' = id
            /\ nextAlarm' = IF id > 0 THEN id ELSE nextAlarm
            /\ armed' = IF id > 0 THEN armed \cup {id} ELSE armed
            /\ water_pin' = IF id >= 0 THEN TRUE ELSE water_pin
            /\ water_text' = IF id >= 0 THEN "ON" ELSE water_text
      BY <1>3 DEF Decide, WaterOn
    <2>2. id \in AlarmIds \cup {-1}
      BY ActuatorAssumption DEF ArmResults, AlarmIds, IInv, TypeOK
    <2>3. ~water_pin
      BY <1>3 DEF IInv, OneAlarm
    <2>4. CASE id = -1
      <3>1. /\ water_pump_alarm' = -1 /\ armed' = {}
            /\ UNCHANGED <<nextAlarm, water_pin, water_text>>
        BY <1>2, <2>1, <2>4
      <3>2. TypeOK'
        BY <1>1, <3>1 DEF IInv, TypeOK
      <3>3. OneAlarm'
        BY <1>1, <2>3, <3>1 DEF IInv, OneAlarm
      <3>4. QED
        BY <3>2, <3>3 DEF IInv
    <2>5. CASE id \in AlarmIds
      <3>1. /\ water_pump_alarm' = id /\ armed' = {id} /\ nextAlarm' = id
            /\ water_pin' = TRUE /\ water_text' = "ON"
        BY <1>2, <2>1, <2>5 DEF AlarmIds
      <3>2. TypeOK'
        BY <1>1, <2>5, <3>1 DEF IInv, TypeOK, Texts, AlarmIds
      <3>3. OneAlarm'
        BY <1>1, <3>1 DEF OneAlarm
      <3>4. QED
        BY <3>2, <3>3 DEF IInv
    <2>6. QED
      BY <2>2, <2>4, <2>5
  <1>4. CASE water_text # "OFF"
    <2>1. /\ water_pin' = FALSE /\ water_text' = "OFF"
          /\ UNCHANGED <<water_pump_alarm, armed, nextAlarm>>
      BY <1>4 DEF Decide, WaterOff
    <2>2. TypeOK'
      BY <1>1, <2>1 DEF IInv, TypeOK, Texts
    <2>3. OneAlarm'
      BY <1>1, <1>2, <2>1 DEF OneAlarm
    <2>4. QED
      BY <2>2, <2>3 DEF IInv
  <1>5. QED
    BY <1>3, <1>4

\* mutex_exit: back to idle with the mutex free.
LEMMA ExitIInv == IInv /\ Exit => IInv'
  <1> SUFFICES ASSUME IInv, Exit PROVE IInv'
    OBVIOUS
  <1>1. /\ pc = "exit" /\ pc' = "idle" /\ locked' = FALSE
        /\ UNCHANGED <<water_pin, water_text, light_pin, light_text,
                       water_pump_alarm, armed, nextAlarm>>
    BY DEF Exit
  <1>2. QED
    <2>1. TypeOK'
      BY <1>1 DEF IInv, TypeOK, OneAlarm
    <2>2. OneAlarm'
      BY <1>1 DEF IInv, TypeOK, OneAlarm
    <2>3. QED
      BY <2>1, <2>2 DEF IInv

\* The alarm: it can only be the one water_pump_alarm names, which is armed
\* only while the pump runs; it stops the pump, or gives up while a command
\* holds the mutex, and in both cases is no longer armed.
LEMMA AlarmFiresIInv == ASSUME NEW a \in AlarmIds
                        PROVE  IInv /\ AlarmFires(a) => IInv'
  <1> SUFFICES ASSUME IInv, AlarmFires(a) PROVE IInv'
    OBVIOUS
  <1>1. a = water_pump_alarm /\ water_pin /\ water_text = "ON" /\ armed = {a}
    BY DEF IInv, OneAlarm, AlarmFires
  <1>2. pc # "exit" /\ pc # "decide" /\ UNCHANGED <<light_pin, light_text, locked, pc>>
    BY <1>1 DEF IInv, OneAlarm, AlarmFires, AlarmIds
  <1>3. CASE locked
    <2>1. /\ armed' = {} /\ pc = "cancel"
          /\ UNCHANGED <<water_pin, water_text, water_pump_alarm, nextAlarm>>
      BY <1>1, <1>2, <1>3 DEF IInv, TypeOK, OneAlarm, AlarmFires
    <2>2. QED
      BY <1>1, <1>2, <2>1 DEF IInv, TypeOK, OneAlarm
  <1>4. CASE ~locked
    <2>1. /\ armed' = {} /\ pc = "idle" /\ water_pump_alarm' = 0
          /\ water_pin' = FALSE /\ water_text' = "OFF" /\ nextAlarm' = nextAlarm
      BY <1>1, <1>2, <1>4 DEF IInv, OneAlarm, AlarmFires, WaterOff
    <2>2. QED
      <3>1. TypeOK'
        BY <1>2, <2>1 DEF IInv, TypeOK, OneAlarm, Texts
      <3>2. OneAlarm'
        BY <1>2, <2>1 DEF IInv, TypeOK, OneAlarm, Texts
      <3>3. QED
        BY <3>1, <3>2 DEF IInv
  <1>5. QED
    BY <1>3, <1>4

\* set_light touches none of the water state.
LEMMA CommandLightIInv == IInv /\ CommandLight => IInv'
  BY DEF IInv, TypeOK, OneAlarm, CommandLight, Texts

\* Every step keeps the inductive invariant.
LEMMA NextIInv == IInv /\ [Next]_vars => IInv'
  <1> SUFFICES ASSUME IInv, [Next]_vars PROVE IInv'
    OBVIOUS
  <1>1. CASE CommandWater
    BY <1>1, CommandWaterIInv
  <1>2. CASE Cancel
    BY <1>2, CancelIInv
  <1>3. CASE Decide
    BY <1>3, DecideIInv
  <1>4. CASE Exit
    BY <1>4, ExitIInv
  <1>5. CASE \E a \in AlarmIds : AlarmFires(a)
    BY <1>5, AlarmFiresIInv
  <1>6. CASE CommandLight
    BY <1>6, CommandLightIInv
  <1>7. CASE UNCHANGED vars
    BY <1>7 DEF IInv, TypeOK, OneAlarm, vars
  <1>8. QED
    BY <1>1, <1>2, <1>3, <1>4, <1>5, <1>6, <1>7 DEF Next

\* The inductive invariant holds in every reachable state.
LEMMA AlwaysIInv == Spec => []IInv
  BY InitIInv, NextIInv, PTL DEF Spec

-----------------------------------------------------------------------------
\* The actuator state keeps its types: in particular water_pump_alarm is
\* always 0, -1 or an id alarm_pool_add_alarm_in_ms handed out.
THEOREM TypeCorrect == Spec => []TypeOK
  <1>1. IInv => TypeOK
    BY DEF IInv
  <1>2. QED
    BY <1>1, AlwaysIInv, PTL

\* Between commands a running pump has its safety alarm armed under the id
\* set_water cancels, and the pin agrees with the published text, wherever
\* water_alarm_callback interrupted set_water.
THEOREM PumpCutOffArmed == Spec => []WaterCutOffArmed
  <1>1. IInv => WaterCutOffArmed
    BY DEF IInv, OneAlarm, WaterCutOffArmed
  <1>2. QED
    BY <1>1, AlwaysIInv, PTL

\* water_alarm_callback never starts the pump: an armed alarm exists only
\* while the pump runs.
THEOREM AlarmNeverStartsPump == Spec => AlarmOnlyStopsWater
  <1>1. IInv => \A a \in AlarmIds : AlarmFires(a) => water_pin
    BY DEF IInv, OneAlarm, AlarmFires
  <1>2. IInv /\ [Next]_vars =>
          [\A a \in AlarmIds : AlarmFires(a) => ~(~water_pin /\ water_pin')]_vars
    BY <1>1
  <1>3. QED
    BY <1>2, AlwaysIInv, PTL DEF AlarmOnlyStopsWater, Spec

=============================================================================
