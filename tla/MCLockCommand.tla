---------------------------- MODULE MCLockCommand ----------------------------
(* Instances of LockCommand for TLC.                                         *)
EXTENDS LockCommand
=============================================================================
