---------------------------- MODULE MCBackupStore ----------------------------
(* Instances of BackupStore for TLC: each entry reaches a node of its own,   *)
(* and each node is a household of its own.                                  *)
EXTENDS BackupStore, TLC

EntryItself == [e \in Entries |-> e]
JobSymmetry == Permutations(Jobs)
=============================================================================
