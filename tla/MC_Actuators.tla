---------------------------- MODULE MC_Actuators ----------------------------
(***************************************************************************)
(* Model-checking instance of Actuators.  Five alarm ids are enough for a  *)
(* pump started and stopped by commands and by its alarm several times,    *)
(* with commands arriving while an alarm is due; after them the pool is    *)
(* out of alarms, so the failed-arming path (-1) occurs too.               *)
(***************************************************************************)
EXTENDS Actuators

=============================================================================
