---------------------------- MODULE MC_MqttClient ----------------------------
(***************************************************************************)
(* Model-checking instance of MqttClient: the two control topics of        *)
(* topics[] (water, light) as model values; the publish loop of            *)
(* publish_topic_data cut to two calls, and a request list of three slots, *)
(* so that the list can fill with publishes while a subscribe is pending   *)
(* and a subscribe retry can find it full.                                 *)
(***************************************************************************)
EXTENDS MqttClient, TLC

CONSTANTS water, light

MCTopics == {water, light}
MCSymmetry == Permutations(MCTopics)

=============================================================================
