---------------------------- MODULE MCConfigFlow ----------------------------
(* Instances of ConfigFlow for TLC: two nodes of one household.              *)
EXTENDS ConfigFlow, TLC

CONSTANT TheirHome
AllAtHome == [d \in Devices |-> TheirHome]
FlowSymmetry == Permutations(Flows)
=============================================================================
