--------------------------- MODULE MCMqttHousehold ---------------------------
(* Instances of MqttHousehold for TLC.                                      *)
EXTENDS MqttHousehold
==============================================================================
