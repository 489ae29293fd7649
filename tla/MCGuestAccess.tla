---------------------------- MODULE MCGuestAccess ----------------------------
(* Instances of GuestAccess for TLC.                                         *)
EXTENDS GuestAccess
=============================================================================
