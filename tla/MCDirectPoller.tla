--------------------------- MODULE MCDirectPoller ----------------------------
(* Instances of DirectPoller for TLC.                                       *)
EXTENDS DirectPoller
==============================================================================
