----------------------------- MODULE MCMqttSetup -----------------------------
(* Instances of MqttSetup for TLC.                                           *)
EXTENDS MqttSetup
=============================================================================
