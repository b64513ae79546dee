------------------------- MODULE MC_MqttReassembly -------------------------
(* Model-checking instance of MqttReassembly: two control topics (water,  *)
(* light) and one foreign topic; a 3-byte buffer, so payloads of up to 2  *)
(* bytes are accepted and a 3-byte payload exceeds it; three messages, so *)
(* a message cut off by a lost connection can be followed by another on   *)
(* the same topic and by a third.                                         *)
EXTENDS MqttReassembly, TLC

CONSTANTS water, light, other

MCTopics == {water, light}
MCUnknown == {other}
MCSymmetry == Permutations(MCTopics)
=============================================================================
