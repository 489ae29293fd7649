---------------------------- MODULE MCCoordinator ----------------------------
(* Instances of Coordinator for TLC.                                        *)
EXTENDS Coordinator
==============================================================================
