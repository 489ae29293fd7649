----------------------------- MODULE BackupStore -----------------------------
(***************************************************************************)
(* Backups of nodes (backup.py): jobs that ask nodes for a copy and keep   *)
(* it, the store that keeps the newest few per node and writes them to     *)
(* disk, and the restore that hands one back, which may move a node to     *)
(* the household its copy is of.                                           *)
(*                                                                         *)
(* A job is a service call, a button or the daily schedule, going through  *)
(* its entries one by one; jobs run concurrently and suspend at every      *)
(* request to a node and while the file is written.  The list of backups   *)
(* is a set of records whose pos is the order they were appended in.       *)
(***************************************************************************)
EXTENDS Naturals, FiniteSets

CONSTANTS
    Entries,        \* config entries
    Direct,         \* those of the direct transport; the others are MQTT
                    \* entries with the node's address in their options
    NodeOf,         \* entry -> the node it reaches
    HouseholdOf,    \* entry -> its household, None for one without
    Households,     \* households, and being in none at all
    HomeOf,         \* node -> the household it is in at first
    Jobs,           \* backup jobs that can be in progress together
    BACKUP_KEEP,
    MaxMade,        \* bound on the copies nodes make in one run
    MaxCrashes,
    MaxMoves,       \* bound on the moves of nodes by hand
    MaxRestoring,   \* bound on the restores in progress together
    None            \* the empty node or household id

ASSUME BackupAssumption ==
    /\ Direct \subseteq Entries
    /\ None \notin {NodeOf[e] : e \in Entries}
    /\ None \notin Households
    /\ HouseholdOf \in [Entries -> Households \cup {None}]
    /\ HomeOf \in [{NodeOf[e] : e \in Entries} -> Households]
    /\ BACKUP_KEEP \in Nat \ {0}
    /\ MaxMade \in Nat
    /\ MaxCrashes \in Nat
    /\ MaxMoves \in Nat
    /\ MaxRestoring \in Nat

VARIABLES
    backups,    \* BackupStore._backups
    adds,       \* number of records ever appended
    handed,     \* the data handed to the Store and not yet written, if any
    file,       \* the storage file
    jobs,       \* job -> where it is
    loaded,     \* entries with a runtime in hass.data
    known,      \* direct entries whose poller has learned its node id
    made,       \* copies nodes have made so far; a blob is its ordinal
    restoring,  \* entry -> the blob on its way to its node, 0 for none
    home,       \* node -> the household it is really in
    origin,     \* blob -> the household its node was in when it made it
    moves,
    moved,      \* ghost: the nodes somebody has moved by hand
    crashes,
    durable     \* ghost: records whose async_add has returned

storeVars == <<backups, adds, handed, file, durable>>
homeVars == <<restoring, home, origin, moves, moved>>
vars == <<storeVars, homeVars, jobs, loaded, known, made, crashes>>

Nodes == {NodeOf[e] : e \in Entries}
NodeIds == Nodes \cup {None}
Record == [node : NodeIds, household : {HouseholdOf[e] : e \in Entries},
           blob : 1..MaxMade, pos : Nat]
Kind == {"schedule", "service"}
Phase == {"idle", "next", "asking", "dating", "saving"}
Job == [phase : Phase, kind : Kind, todo : SUBSET Entries,
        entry : Entries \cup {None}, node : NodeIds, blob : 0..MaxMade]
IdleJob == [phase |-> "idle", kind |-> "schedule", todo |-> {},
            entry |-> None, node |-> None, blob |-> 0]

BackupInit ==
    /\ backups = {}
    /\ adds = 0
    /\ handed = {}
    /\ file = {}
    /\ jobs = [j \in Jobs |-> IdleJob]
    /\ loaded = {e \in Entries : e \in Direct => HomeOf[NodeOf[e]] = HouseholdOf[e]}
    /\ known = {}
    /\ made = 0
    /\ restoring = [e \in Entries |-> 0]
    /\ home = HomeOf
    /\ origin = [b \in 1..MaxMade |-> None]
    /\ moves = 0
    /\ moved = {}
    /\ crashes = 0
    /\ durable = {}

-----------------------------------------------------------------------------
(* The store.                                                                *)

for_node(bs, n) == {b \in bs : b.node = n}

Newer(bs, b) == {c \in bs : c.pos > b.pos}

BugPrune(bs, n) ==
    {b \in bs : b.node # n \/ Cardinality(Newer(for_node(bs, n), b)) <= BACKUP_KEEP}
BugPruneAll(bs, n) == {b \in bs : Cardinality(Newer(bs, b)) < BACKUP_KEEP}

\* The newest BACKUP_KEEP of this node stay; other nodes are left alone.
prune(bs, n) ==
    {b \in bs : b.node # n \/ Cardinality(Newer(for_node(bs, n), b)) < BACKUP_KEEP}

\* A record without a node id is unreadable.
from_dict(bs) == {b \in bs : b.node # None}

latest(bs) == CHOOSE b \in bs : Newer(bs, b) = {}

-----------------------------------------------------------------------------
(* A job.                                                                    *)

Step(j, job) == jobs' = [jobs EXCEPT ![j] = job]

\* To the next entry.
Onward(job) == [job EXCEPT !.phase = "next", !.entry = None, !.node = None, !.blob = 0]

\* _target_entry_ids: all of them, or the one a service call or a button names.
Targets(kind) ==
    {loaded} \cup (IF kind = "service" THEN {{e} : e \in loaded} ELSE {})

\* _back_up_now and _scheduled; with no entry to back up there is no job.
Start(j) ==
    /\ jobs[j].phase = "idle"
    /\ made < MaxMade
    /\ loaded # {}
    /\ \E kind \in Kind : \E targets \in Targets(kind) :
        Step(j, [IdleJob EXCEPT !.phase = "next", !.kind = kind, !.todo = targets])
    /\ UNCHANGED <<storeVars, homeVars, loaded, known, made, crashes>>

\* The next entry: its settings and its poller's node id are read now, and the
\* node is asked for a copy.
NextEntry(j) ==
    /\ jobs[j].phase = "next"
    /\ \E e \in jobs[j].todo :
        IF e \in loaded
        THEN Step(j, [jobs[j] EXCEPT
                 !.phase = "asking", !.todo = @ \ {e}, !.entry = e,
                 !.node = IF e \in Direct \ known THEN None ELSE NodeOf[e]])
        ELSE Step(j, IF jobs[j].kind = "service" THEN IdleJob
                     ELSE [jobs[j] EXCEPT !.todo = @ \ {e}])
    /\ UNCHANGED <<storeVars, homeVars, loaded, known, made, crashes>>

EndJob(j) ==
    /\ jobs[j].phase = "next"
    /\ jobs[j].todo = {}
    /\ Step(j, IdleJob)
    /\ UNCHANGED <<storeVars, homeVars, loaded, known, made, crashes>>

\* The node hands its copy over, and is asked when it was taken.
Created(j) ==
    /\ jobs[j].phase = "asking"
    /\ made < MaxMade
    /\ made' = made + 1
    /\ origin' = [origin EXCEPT ![made + 1] = home[NodeOf[jobs[j].entry]]]
    /\ Step(j, [jobs[j] EXCEPT !.phase = "dating", !.blob = made + 1])
    /\ UNCHANGED <<storeVars, restoring, home, moves, moved, loaded, known, crashes>>

BugNewRecord(j) == [node |-> jobs[j].node, household |-> jobs[j].node,
                    blob |-> jobs[j].blob, pos |-> adds + 1]

NewRecord(j) == [node |-> jobs[j].node, household |-> HouseholdOf[jobs[j].entry],
                 blob |-> jobs[j].blob, pos |-> adds + 1]

BugAdd(j) ==
    /\ jobs[j].phase = "dating"
    /\ backups' = prune(backups \cup {NewRecord(j)}, jobs[j].node)
    /\ adds' = adds + 1
    /\ handed' = {backups'}
    /\ durable' = durable \cup {NewRecord(j)}
    /\ Step(j, Onward(jobs[j]))
    /\ UNCHANGED <<homeVars, file, loaded, known, made, crashes>>

\* The node's stamp arrives, or does not: the copy is kept either way.  It is
\* appended, the node's window is pruned, and the list is handed to the Store.
async_add(j) ==
    /\ jobs[j].phase = "dating"
    /\ backups' = prune(backups \cup {NewRecord(j)}, jobs[j].node)
    /\ adds' = adds + 1
    /\ handed' = {backups'}
    /\ Step(j, [jobs[j] EXCEPT !.phase = "saving"])
    /\ UNCHANGED <<homeVars, file, durable, loaded, known, made, crashes>>

\* The Store writes what it was handed last.
Write ==
    /\ file' \in handed
    /\ handed' = {}
    /\ UNCHANGED <<homeVars, backups, adds, durable, jobs, loaded, known, made, crashes>>

\* async_add returns once nothing is left to write.
Saved(j) ==
    /\ jobs[j].phase = "saving"
    /\ handed = {}
    /\ durable' = durable \cup {b \in backups : b.blob = jobs[j].blob}
    /\ Step(j, Onward(jobs[j]))
    /\ UNCHANGED <<homeVars, backups, adds, handed, file, loaded, known, made, crashes>>

\* The node cannot be reached: the schedule moves on, a service call stops.
TransportError(j) ==
    /\ jobs[j].phase = "asking"
    /\ Step(j, IF jobs[j].kind = "service" THEN IdleJob
               ELSE Onward(jobs[j]))
    /\ UNCHANGED <<storeVars, homeVars, loaded, known, made, crashes>>

\* A reply that is not JSON is no DirectTransportError: either job stops.
Garbage(j) ==
    /\ jobs[j].phase \in {"asking", "dating"}
    /\ Step(j, IdleJob)
    /\ UNCHANGED <<storeVars, homeVars, loaded, known, made, crashes>>

-----------------------------------------------------------------------------
(* Restore, and what happens around the store.                               *)

BugCandidates(e) == backups
Candidates(e) ==
    {b \in backups : HouseholdOf[e] = None \/ b.household = HouseholdOf[e]}

\* A direct entry is only set up while its node is in the entry's household.
CanLoad(e, homes) == e \in Direct => homes[NodeOf[e]] = HouseholdOf[e]

\* async_restore_entry without a copy of the caller's: the newest stored one that
\* fits the entry's household goes to the node.
async_restore_entry(e) ==
    /\ e \in loaded
    /\ restoring[e] = 0
    /\ Cardinality({f \in Entries : restoring[f] # 0}) < MaxRestoring
    /\ Candidates(e) # {}
    /\ restoring' = [restoring EXCEPT ![e] = latest(Candidates(e)).blob]
    /\ UNCHANGED <<storeVars, home, origin, moves, moved, jobs, loaded, known,
                   made, crashes>>

\* The node joins the household of the copy it was sent.
HomesAfter(e) == [home EXCEPT ![NodeOf[e]] = origin[restoring[e]]]

\* The node takes the copy, and the entry is set up again, if that succeeds.
Restored(e) ==
    /\ restoring[e] # 0
    /\ home' = HomesAfter(e)
    /\ restoring' = [restoring EXCEPT ![e] = 0]
    /\ \/ CanLoad(e, HomesAfter(e)) /\ loaded' = loaded \cup {e}
       \/ loaded' = loaded \ {e}
    /\ known' = known \ {e}
    /\ UNCHANGED <<storeVars, origin, moves, moved, jobs, made, crashes>>

\* The node is not reached, refuses the copy or answers something that is not
\* JSON, and may have taken it all the same: the entry stays as it is.
RestoreFails(e) ==
    /\ restoring[e] # 0
    /\ home' \in {home, HomesAfter(e)}
    /\ restoring' = [restoring EXCEPT ![e] = 0]
    /\ UNCHANGED <<storeVars, origin, moves, moved, jobs, loaded, known, made, crashes>>

\* Somebody moves a node to another household, in its Web UI or with a copy of
\* their own.
MovedByHand(n) ==
    /\ moves < MaxMoves
    /\ moves' = moves + 1
    /\ moved' = moved \cup {n}
    /\ \E h \in Households \ {home[n]} : home' = [home EXCEPT ![n] = h]
    /\ UNCHANGED <<storeVars, restoring, origin, jobs, loaded, known, made, crashes>>

\* A first poll of a direct entry has succeeded.
PollSucceeds(e) ==
    /\ e \in Direct \ known
    /\ e \in loaded
    /\ known' = known \cup {e}
    /\ UNCHANGED <<storeVars, homeVars, jobs, loaded, made, crashes>>

EntryUnloads(e) ==
    /\ e \in loaded
    /\ loaded' = loaded \ {e}
    /\ known' = known \ {e}
    /\ UNCHANGED <<storeVars, homeVars, jobs, made, crashes>>

EntryLoads(e) ==
    /\ e \notin loaded
    /\ CanLoad(e, home)
    /\ loaded' = loaded \cup {e}
    /\ UNCHANGED <<storeVars, homeVars, jobs, known, made, crashes>>

\* Home Assistant stops and starts: async_setup loads the file.
Restart ==
    /\ crashes < MaxCrashes
    /\ crashes' = crashes + 1
    /\ backups' = from_dict(file)
    /\ handed' = {}
    /\ jobs' = [j \in Jobs |-> IdleJob]
    /\ restoring' = [e \in Entries |-> 0]
    /\ loaded' = {e \in Entries : CanLoad(e, home)}
    /\ known' = {}
    /\ UNCHANGED <<adds, file, durable, home, origin, moves, moved, made>>

BackupNext ==
    \/ \E j \in Jobs : \/ Start(j) \/ NextEntry(j) \/ EndJob(j) \/ Created(j)
                       \/ async_add(j) \/ Saved(j)
                       \/ TransportError(j) \/ Garbage(j)
    \/ Write
    \/ \E e \in Entries : \/ async_restore_entry(e) \/ Restored(e) \/ RestoreFails(e)
                          \/ PollSucceeds(e) \/ EntryUnloads(e) \/ EntryLoads(e)
    \/ \E n \in Nodes : MovedByHand(n)
    \/ Restart

BackupSpec == BackupInit /\ [][BackupNext]_vars

-----------------------------------------------------------------------------
(* Properties.                                                               *)

\* The store and the jobs are well typed.
BackupTypeOK ==
    /\ backups \subseteq Record
    /\ adds \in Nat
    /\ \A data \in handed : data \subseteq Record
    /\ file \subseteq Record
    /\ jobs \in [Jobs -> Job]
    /\ loaded \subseteq Entries
    /\ known \subseteq Direct
    /\ made \in 0..MaxMade
    /\ restoring \in [Entries -> 0..MaxMade]
    /\ home \in [Nodes -> Households \cup {None}]
    /\ origin \in [1..MaxMade -> Households \cup {None}]

\* "Newest 7 copies per node are kept" (docs): in memory and on disk, no node
\* has more than BACKUP_KEEP copies (BackupStore._prune).
RetentionHolds ==
    \A n \in NodeIds :
        /\ Cardinality(for_node(backups, n)) <= BACKUP_KEEP
        /\ Cardinality(for_node(file, n)) <= BACKUP_KEEP

\* The store as its users see it: by node, the copies of the nodes with a name.
CopiesOf(bs) == [n \in Nodes |-> {b.pos : b \in for_node(bs, n)}]

Rolling == INSTANCE RollingCopies WITH
    Nodes <- Nodes, Keep <- BACKUP_KEEP,
    window <- CopiesOf(backups), disk <- CopiesOf(file),
    confirmed <- CopiesOf(durable)

\* Through concurrent jobs, late stamps, slow writes, unloads and crashes the
\* store is one that keeps each node's newest copies: an addition costs no other
\* node a copy and its own node only the oldest of a full window, a write brings
\* the disk to the memory and nothing else, and no copy is confirmed that is not
\* on the disk (BackupStore.async_add, _prune, async_save, async_load).
StoreIsRolling == Rolling!RollingSpec

\* On disk, or replaced there by enough newer copies of its node.
Kept(b) ==
    \/ b \in file
    \/ Cardinality(Newer(for_node(file, b.node), b)) >= BACKUP_KEEP

\* A copy somebody was told is stored survives a crash at any later moment,
\* whatever other jobs append and write meanwhile, if it was stored under the
\* name of its node (BackupStore.async_add, async_load).
NamedIsDurable == \A b \in durable : b.node # None => Kept(b)

\* A household whose nodes began in it, are reached by entries of it alone and
\* were never moved by hand.
Settled(h) ==
    /\ h # None
    /\ \A e, f \in Entries :
          HouseholdOf[e] = h /\ NodeOf[f] = NodeOf[e] =>
              /\ HouseholdOf[f] = h
              /\ HomeOf[NodeOf[e]] = h
              /\ NodeOf[e] \notin moved

\* No node of such a household is ever taken out of it: whatever is backed up,
\* kept, lost in a crash and restored meanwhile, and wherever the nodes of the
\* other households go, the copies its nodes are sent are of their own household
\* (async_fetch_backup, async_restore_entry).
NodesStayHome ==
    \A e \in Entries : Settled(HouseholdOf[e]) => home[NodeOf[e]] = HouseholdOf[e]

-----------------------------------------------------------------------------
(* What the repository says and the code does not do: these are false of the *)
(* specification (see README.md).                                            *)

\* "must not lose the copies already kept" (__init__.py async_setup): neither
\* does one of a direct entry that had not learned its node's name yet.
StoredIsDurable == \A b \in durable : Kept(b)

\* "A stored backup for the household" (docs/BACKUP_AND_RESTORE.md): a copy is
\* of the household it is kept under.
CopiesAreOfTheirHousehold ==
    \A b \in backups : b.household # None => origin[b.blob] = b.household

\* "The newest few backups per node, newest last" (backup.py): of one node's
\* copies, the one further back in the list was made later.
NewestLast ==
    \A b, c \in backups :
        b.node = c.node /\ b.pos < c.pos => b.blob < c.blob

\* "The scheduled run logs and moves on" (backup.py): a scheduled job only ends
\* when it has been through all its entries.
ScheduleReachesAll ==
    [][\A j \in Jobs :
          jobs[j].kind = "schedule" /\ jobs'[j].phase = "idle"
            /\ crashes' = crashes
          => jobs[j].todo = {}]_vars
=============================================================================
