---------------------------- MODULE RollingCopies ----------------------------
(***************************************************************************)
(* What the backup store promises, without jobs, entries or requests: of   *)
(* each node the newest Keep copies, in memory and, as of the last time    *)
(* they were written, on disk; a crash goes back to the disk; and nobody   *)
(* is told that a copy is stored before it is on the disk.                 *)
(*                                                                         *)
(* A copy is the ordinal at which it was kept.                             *)
(***************************************************************************)
EXTENDS Naturals, FiniteSets

CONSTANTS Nodes, Keep

VARIABLES
    window,     \* node -> its copies in memory
    disk,       \* node -> its copies on disk
    confirmed   \* node -> the copies somebody was told are stored

rollingVars == <<window, disk, confirmed>>

Later(copies, c) == {d \in copies : d > c}

Newest(copies) == {c \in copies : Cardinality(Later(copies, c)) < Keep}

RollingInit ==
    /\ window = [n \in Nodes |-> {}]
    /\ disk = [n \in Nodes |-> {}]
    /\ confirmed = [n \in Nodes |-> {}]

\* A copy of n that is newer than all of its copies so far.
Add(n) ==
    /\ \E c \in window'[n] :
        /\ \A d \in window[n] \cup disk[n] : d < c
        /\ window' = [window EXCEPT ![n] = Newest(@ \cup {c})]
    /\ UNCHANGED <<disk, confirmed>>

Persist ==
    /\ disk' = window
    /\ UNCHANGED <<window, confirmed>>

Confirm(n) ==
    /\ \E c \in disk[n] : confirmed' = [confirmed EXCEPT ![n] = @ \cup {c}]
    /\ UNCHANGED <<window, disk>>

Crash ==
    /\ window' = disk
    /\ UNCHANGED <<disk, confirmed>>

RollingNext == (\E n \in Nodes : Add(n) \/ Confirm(n)) \/ Persist \/ Crash

RollingSpec == RollingInit /\ [][RollingNext]_rollingVars
=============================================================================
