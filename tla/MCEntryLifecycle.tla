-------------------------- MODULE MCEntryLifecycle ---------------------------
(* Instances of EntryLifecycle for TLC.                                     *)
EXTENDS EntryLifecycle
==============================================================================
