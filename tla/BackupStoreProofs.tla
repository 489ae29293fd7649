-------------------------- MODULE BackupStoreProofs --------------------------
(***************************************************************************)
(* Retention, durability, the way of restored copies and the refinement of *)
(* RollingCopies, for every number of copies to keep, every set of entries *)
(* and jobs, and every interleaving of jobs, writes, restores and crashes. *)
(*                                                                         *)
(* The strengthening has two layers.  What is in memory or on disk is a    *)
(* finite set of records in distinct places, none of them ahead of the     *)
(* number of records appended so far.  Beyond that, memory and disk have   *)
(* the same named copies whenever nothing is left to write, a blob belongs *)
(* to one copy, and what was confirmed is kept in both.                    *)
(***************************************************************************)
EXTENDS BackupStore, FiniteSetTheorems, WellFoundedInduction, TLAPS

Sound(bs, k) ==
    /\ bs \subseteq Record
    /\ IsFiniteSet(bs)
    /\ \A b \in bs : b.pos <= k
    /\ \A b, c \in bs : b.pos = c.pos => b = c
    /\ \A n \in NodeIds : Cardinality(for_node(bs, n)) <= BACKUP_KEEP

JobOK(job) ==
    /\ job.phase \in {"asking", "dating", "saving"} => job.entry \in Entries
    /\ job.phase \in {"dating", "saving"} => job.blob \in 1..MaxMade

BackupInv ==
    /\ BackupTypeOK
    /\ Sound(backups, adds)
    /\ handed = {} \/ handed = {backups}
    /\ Sound(file, adds)
    /\ \A j \in Jobs : JobOK(jobs[j])

\* What the assumptions say of the bound on copies and of the nodes.
LEMMA KeepIsPositive == BACKUP_KEEP \in Nat \ {0} /\ MaxMade \in Nat
BY BackupAssumption

LEMMA NodesAreNamed ==
    /\ \A e \in Entries : NodeOf[e] \in Nodes
    /\ None \notin Nodes
    /\ NodeIds = Nodes \cup {None}
BY BackupAssumption DEF Nodes, NodeIds

\* A nonempty set of records has an oldest one (the head of the list).
LEMMA OldestExists ==
    ASSUME NEW S, S \subseteq Record, S # {}
    PROVE  \E b \in S : \A c \in S : b.pos <= c.pos
<1> DEFINE T == {b.pos : b \in S}
<1>1. T \subseteq Nat /\ T # {}
  BY DEF Record
<1>2. \E x \in T : \A y \in T : ~(<<y, x>> \in OpToRel(<, Nat))
  BY <1>1, NatLessThanWellFounded, WFMin
<1>3. PICK x \in T : \A y \in T : ~(<<y, x>> \in OpToRel(<, Nat))
  BY <1>2
<1>4. \A y \in T : ~(y < x)
  BY <1>1, <1>3 DEF OpToRel
<1>5. \A y \in T : x <= y
  BY <1>1, <1>4
<1>6. PICK b \in S : b.pos = x
  OBVIOUS
<1> QED
  BY <1>5, <1>6

\* One record more than the window: pruning drops the oldest (_prune).
LEMMA PrunedFits ==
    ASSUME NEW S, S \subseteq Record, IsFiniteSet(S),
           \A b, c \in S : b.pos = c.pos => b = c,
           Cardinality(S) <= BACKUP_KEEP + 1
    PROVE  Cardinality({b \in S : Cardinality(Newer(S, b)) < BACKUP_KEEP})
               <= BACKUP_KEEP
<1> USE KeepIsPositive
<1> DEFINE K == {b \in S : Cardinality(Newer(S, b)) < BACKUP_KEEP}
<1>1. K \subseteq S /\ IsFiniteSet(K) /\ Cardinality(K) <= Cardinality(S)
      /\ Cardinality(S) \in Nat /\ Cardinality(K) \in Nat
  BY FS_Subset, FS_CardinalityType
<1>2. CASE Cardinality(S) <= BACKUP_KEEP
  BY <1>1, <1>2
<1>3. CASE Cardinality(S) = BACKUP_KEEP + 1
  <2>1. S # {}
    BY <1>3, FS_EmptySet
  <2>2. PICK b \in S : \A c \in S : b.pos <= c.pos
    BY <2>1, OldestExists
  <2>3. Newer(S, b) = S \ {b}
    <3>1. \A c \in S : c.pos \in Nat
      BY DEF Record
    <3> QED
      BY <2>2, <3>1 DEF Newer
  <2>4. IsFiniteSet(S \ {b}) /\ Cardinality(S \ {b}) = BACKUP_KEEP
    <3>1. /\ IsFiniteSet(S \ {b})
          /\ Cardinality(S \ {b}) = IF b \in S THEN Cardinality(S) - 1
                                     ELSE Cardinality(S)
      BY FS_RemoveElement
    <3>2. Cardinality(S \ {b}) = BACKUP_KEEP + 1 - 1
      BY <3>1, <1>3
    <3> QED
      BY <3>1, <3>2
  <2>5. b \notin K
    BY <2>3, <2>4
  <2>6. K \subseteq S \ {b}
    BY <2>5
  <2> QED
    BY <2>4, <2>6, FS_Subset
<1> QED
  BY <1>1, <1>2, <1>3

\* Appending a record and pruning its node keeps the list sound (async_add).
LEMMA AddIsSound ==
    ASSUME NEW bs, NEW k \in Nat, Sound(bs, k), NEW r \in Record, r.pos = k + 1
    PROVE  Sound(prune(bs \cup {r}, r.node), k + 1)
<1> USE KeepIsPositive
<1> DEFINE all == bs \cup {r}
           kept == prune(all, r.node)
<1>1. all \subseteq Record /\ IsFiniteSet(all)
  BY FS_AddElement DEF Sound
<1>2. kept \subseteq all /\ IsFiniteSet(kept)
  BY <1>1, FS_Subset DEF prune
<1>3. \A b \in bs : b.pos \in Nat /\ b.pos <= k
  BY DEF Sound, Record
<1>4. \A b \in all : b.pos <= k + 1
  BY <1>3
<1>5. \A b, c \in all : b.pos = c.pos => b = c
  BY <1>3 DEF Sound
<1>6. ASSUME NEW n \in NodeIds
      PROVE  Cardinality(for_node(kept, n)) <= BACKUP_KEEP
  <2>1. IsFiniteSet(for_node(bs, n)) /\ Cardinality(for_node(bs, n)) <= BACKUP_KEEP
        /\ Cardinality(for_node(bs, n)) \in Nat
    <3>1. for_node(bs, n) \subseteq bs
      BY DEF for_node
    <3> QED
      BY <3>1, FS_Subset, FS_CardinalityType DEF Sound
  <2>2. CASE n = r.node
    <3> DEFINE S == for_node(all, n)
    <3>1. S = for_node(bs, n) \cup {r}
      BY <2>2 DEF for_node
    <3>2. IsFiniteSet(S) /\ Cardinality(S) <= BACKUP_KEEP + 1
      <4>1. /\ IsFiniteSet(for_node(bs, n) \cup {r})
            /\ Cardinality(for_node(bs, n) \cup {r})
                 = IF r \in for_node(bs, n) THEN Cardinality(for_node(bs, n))
                   ELSE Cardinality(for_node(bs, n)) + 1
        BY <2>1, FS_AddElement
      <4> HIDE DEF S
      <4> QED
        BY <2>1, <3>1, <4>1
    <3>3. for_node(kept, n) = {b \in S : Cardinality(Newer(S, b)) < BACKUP_KEEP}
      BY <2>2 DEF for_node, prune
    <3>4. S \subseteq Record /\ \A b, c \in S : b.pos = c.pos => b = c
      BY <1>1, <1>5 DEF for_node
    <3> HIDE DEF S
    <3> QED
      BY <3>2, <3>3, <3>4, PrunedFits
  <2>3. CASE n # r.node
    <3>1. for_node(kept, n) \subseteq for_node(bs, n)
      BY <2>3 DEF for_node, prune
    <3>2. IsFiniteSet(for_node(kept, n))
      BY <3>1, <2>1, FS_Subset
    <3>3. Cardinality(for_node(kept, n)) <= Cardinality(for_node(bs, n))
      BY <3>1, <2>1, FS_Subset
    <3>4. Cardinality(for_node(kept, n)) \in Nat
      BY <3>2, FS_CardinalityType
    <3> QED
      BY <3>3, <3>4, <2>1
  <2> QED
    BY <2>2, <2>3
<1> QED
  BY <1>1, <1>2, <1>4, <1>5, <1>6 DEF Sound

\* A sound list stays sound when records are left out of it (from_dict).
LEMMA SubsetIsSound ==
    ASSUME NEW bs, NEW cs, NEW k \in Nat, Sound(bs, k), cs \subseteq bs
    PROVE  Sound(cs, k)
<1> USE KeepIsPositive
<1>1. IsFiniteSet(cs)
  BY FS_Subset DEF Sound
<1>2. ASSUME NEW n \in NodeIds
      PROVE  Cardinality(for_node(cs, n)) <= BACKUP_KEEP
  <2>1. for_node(cs, n) \subseteq for_node(bs, n) /\ for_node(bs, n) \subseteq bs
    BY DEF for_node
  <2>2. IsFiniteSet(for_node(bs, n)) /\ IsFiniteSet(for_node(cs, n))
    BY <2>1, FS_Subset DEF Sound
  <2> QED
    BY <2>1, <2>2, FS_Subset, FS_CardinalityType DEF Sound
<1> QED
  BY <1>1, <1>2 DEF Sound

\* A list stays sound as the count of appended records grows.
LEMMA LaterIsSound ==
    ASSUME NEW bs, NEW k \in Nat, Sound(bs, k)
    PROVE  Sound(bs, k + 1)
BY DEF Sound, Record

\* A job starts with the entries that are loaded (_back_up_now, _scheduled).
LEMMA FirstJob ==
    ASSUME NEW kind \in Kind, NEW todo \in SUBSET Entries
    PROVE  LET job == [IdleJob EXCEPT !.phase = "next", !.kind = kind, !.todo = todo]
           IN job \in Job /\ job.phase = "next"
<1>1. IdleJob \in Job
  BY BackupAssumption DEF IdleJob, Job, Phase, Kind, NodeIds
<1> QED
  BY <1>1 DEF Job, Phase

\* An entry is taken off the list; its poller may not know its node yet.
LEMMA AskingJob ==
    ASSUME NEW job \in Job, NEW e \in Entries, NEW n \in NodeIds
    PROVE  LET asking == [job EXCEPT !.phase = "asking", !.todo = @ \ {e},
                                     !.entry = e, !.node = n]
           IN asking \in Job /\ asking.entry = e /\ asking.phase = "asking"
BY DEF Job, Phase

\* A job that goes on to its next entry keeps its kind and its list.
LEMMA OnwardJob ==
    ASSUME NEW job \in Job
    PROVE  /\ Onward(job) \in Job /\ Onward(job).phase = "next"
           /\ Onward(job).todo = job.todo /\ Onward(job).kind = job.kind
<1>1. 0 \in 0..MaxMade /\ None \in NodeIds
  BY KeepIsPositive, NodesAreNamed
<1> QED
  BY <1>1 DEF Onward, Job, Phase

\* What an entry does, or somebody to a node, leaves store and jobs alone.
EntryStep(e) ==
    \/ async_restore_entry(e) \/ Restored(e) \/ RestoreFails(e)
    \/ PollSucceeds(e) \/ EntryUnloads(e) \/ EntryLoads(e)

LEMMA EntryStepsAreQuiet ==
    ASSUME (\E e \in Entries : EntryStep(e)) \/ (\E n \in Nodes : MovedByHand(n))
    PROVE  UNCHANGED jobs /\ UNCHANGED storeVars /\ UNCHANGED made
BY DEF EntryStep, async_restore_entry, Restored, RestoreFails, PollSucceeds,
       EntryUnloads, EntryLoads, MovedByHand

\* Replacing one job by a well-formed one keeps all of them well formed.
LEMMA JobStep ==
    ASSUME jobs \in [Jobs -> Job], \A i \in Jobs : JobOK(jobs[i]),
           NEW j \in Jobs, NEW job \in Job, JobOK(job),
           jobs' = [jobs EXCEPT ![j] = job]
    PROVE  jobs' \in [Jobs -> Job] /\ \A i \in Jobs : JobOK(jobs'[i])
OBVIOUS

\* A list that is not empty has a newest record, which latest returns.
LEMMA LatestIsOne ==
    ASSUME NEW S, S \subseteq Record, S # {}, NEW k \in Nat, \A b \in S : b.pos <= k
    PROVE  latest(S) \in S
<1> DEFINE T == {k - b.pos : b \in S}
<1>0. \A b \in S : b.pos \in Nat
  BY DEF Record
<1>1. T \subseteq Nat /\ T # {}
  BY <1>0
<1>2. PICK x \in T : \A y \in T : ~(<<y, x>> \in OpToRel(<, Nat))
  BY <1>1, NatLessThanWellFounded, WFMin
<1>3. \A y \in T : ~(y < x)
  BY <1>1, <1>2 DEF OpToRel
<1>4. PICK b \in S : x = k - b.pos
  OBVIOUS
<1>5. ASSUME NEW c \in S PROVE ~(c.pos > b.pos)
  <2>1. k - c.pos \in T
    OBVIOUS
  <2> HIDE DEF T
  <2>2. ~(k - c.pos < k - b.pos)
    BY <1>3, <1>4, <2>1
  <2> QED
    BY <1>0, <2>2
<1>6. Newer(S, b) = {}
  BY <1>5 DEF Newer
<1> QED
  BY <1>6 DEF latest

\* The list in memory, the data on its way to disk and the file stay sound, and
\* every job that holds a copy knows which entry it is of.
LEMMA BackupInvariance == BackupSpec => []BackupInv
<1> USE KeepIsPositive
<1>1. BackupInit => BackupInv
  <2> SUFFICES ASSUME BackupInit PROVE BackupInv
    OBVIOUS
  <2>1. Sound({}, 0)
    <3>1. \A n \in NodeIds : for_node({}, n) = {}
      BY DEF for_node
    <3> QED
      BY <3>1, FS_EmptySet DEF Sound
  <2>2. IdleJob \in Job
    BY DEF IdleJob, Job, Phase, Kind, NodeIds
  <2>3. JobOK(IdleJob)
    BY DEF IdleJob, JobOK
  <2> QED
    <3>1. /\ home \in [Nodes -> Households \cup {None}]
          /\ restoring \in [Entries -> 0..MaxMade] /\ made \in 0..MaxMade
          /\ origin \in [1..MaxMade -> Households \cup {None}]
      BY BackupAssumption DEF BackupInit, Nodes
    <3>2. jobs \in [Jobs -> Job] /\ \A j \in Jobs : JobOK(jobs[j])
      BY <2>2, <2>3 DEF BackupInit
    <3>3. loaded \subseteq Entries /\ known \subseteq Direct
      BY DEF BackupInit
    <3> QED
      BY <2>1, <3>1, <3>2, <3>3 DEF BackupInit, BackupInv, BackupTypeOK
<1>2. BackupInv /\ [BackupNext]_vars => BackupInv'
  <2> SUFFICES ASSUME BackupInv, [BackupNext]_vars
               PROVE  BackupInv'
    OBVIOUS
  <2> USE DEF BackupInv, BackupTypeOK, homeVars
  <2>0. IdleJob \in Job
    BY DEF IdleJob, Job, Phase, Kind, NodeIds
  <2>1. ASSUME NEW j \in Jobs, Start(j) PROVE BackupInv'
    <3>1. PICK kind \in Kind, todo \in SUBSET Entries :
              jobs' = [jobs EXCEPT ![j] = [IdleJob EXCEPT !.phase = "next",
                                             !.kind = kind, !.todo = todo]]
      <4>1. \A kind \in Kind : Targets(kind) \subseteq SUBSET Entries
        BY DEF Targets
      <4>2. \E kind \in Kind, todo \in SUBSET Entries :
                Step(j, [IdleJob EXCEPT !.phase = "next", !.kind = kind, !.todo = todo])
        BY <2>1, <4>1, Zenon DEF Start
      <4> QED
        BY <4>2 DEF Step
    <3> DEFINE job == [IdleJob EXCEPT !.phase = "next", !.kind = kind, !.todo = todo]
    <3>2. job \in Job /\ job.phase = "next"
      BY FirstJob
    <3> HIDE DEF job
    <3>3. JobOK(job)
      BY <3>2 DEF JobOK
    <3>4. UNCHANGED <<storeVars, homeVars, loaded, known, made>>
      BY <2>1 DEF Start
    <3>5. jobs' \in [Jobs -> Job] /\ \A i \in Jobs : JobOK(jobs'[i])
      BY <3>1, <3>2, <3>3, JobStep DEF job
    <3> QED
      BY <3>4, <3>5 DEF storeVars
  <2>2. ASSUME NEW j \in Jobs, NextEntry(j) PROVE BackupInv'
    <3>1. jobs[j] \in Job
      OBVIOUS
    <3>2. PICK e \in jobs[j].todo :
              IF e \in loaded
              THEN jobs' = [jobs EXCEPT ![j] = [jobs[j] EXCEPT
                       !.phase = "asking", !.todo = @ \ {e}, !.entry = e,
                       !.node = IF e \in Direct \ known THEN None ELSE NodeOf[e]]]
              ELSE jobs' = [jobs EXCEPT ![j] =
                       IF jobs[j].kind = "service" THEN IdleJob
                       ELSE [jobs[j] EXCEPT !.todo = @ \ {e}]]
      BY <2>2 DEF NextEntry, Step
    <3>3. e \in Entries /\ NodeOf[e] \in NodeIds /\ None \in NodeIds
      BY <3>1, NodesAreNamed DEF Job
    <3>4. UNCHANGED <<storeVars, homeVars, loaded, known, made>>
      BY <2>2 DEF NextEntry
    <3>5. PICK job : /\ jobs' = [jobs EXCEPT ![j] = job]
                     /\ job \in Job
                     /\ job.phase = "asking" => job.entry \in Entries
                     /\ job.phase \in {"idle", "next", "asking"}
      <4>1. CASE e \in loaded
        <5> DEFINE n == IF e \in Direct \ known THEN None ELSE NodeOf[e]
        <5>1. n \in NodeIds
          BY <3>3
        <5> DEFINE asking == [jobs[j] EXCEPT !.phase = "asking", !.todo = @ \ {e},
                                             !.entry = e, !.node = n]
        <5>2. jobs' = [jobs EXCEPT ![j] = asking]
          BY <3>2, <4>1
        <5>3. asking \in Job /\ asking.entry = e /\ asking.phase = "asking"
          <6>1. \A m \in NodeIds : LET a == [jobs[j] EXCEPT !.phase = "asking",
                                       !.todo = @ \ {e}, !.entry = e, !.node = m]
                                   IN a \in Job /\ a.entry = e /\ a.phase = "asking"
            BY <3>1, <3>3, AskingJob
          <6> QED
            BY <5>1, <6>1
        <5> HIDE DEF asking
        <5> QED
          BY <5>2, <5>3, <3>3
      <4>2. CASE e \notin loaded /\ jobs[j].kind = "service"
        <5>1. IdleJob.phase = "idle"
          BY DEF IdleJob
        <5> QED
          BY <2>0, <3>2, <4>2, <5>1, Zenon
      <4>3. CASE e \notin loaded /\ jobs[j].kind # "service"
        <5> DEFINE skipped == [jobs[j] EXCEPT !.todo = @ \ {e}]
        <5>1. jobs' = [jobs EXCEPT ![j] = skipped]
          BY <3>2, <4>3
        <5>2. skipped \in Job /\ skipped.phase = "next"
          BY <2>2, <3>1 DEF Job, NextEntry
        <5> HIDE DEF skipped
        <5> QED
          BY <5>1, <5>2, Zenon
      <4> QED
        BY <4>1, <4>2, <4>3
    <3> QED
      BY <3>4, <3>5, JobStep DEF storeVars, JobOK
  <2>3. ASSUME NEW j \in Jobs, EndJob(j) PROVE BackupInv'
    BY <2>0, <2>3 DEF EndJob, Step, storeVars, IdleJob, JobOK
  <2>4. ASSUME NEW j \in Jobs, Created(j) PROVE BackupInv'
    <3>1. jobs[j] \in Job /\ made + 1 \in 1..MaxMade /\ jobs[j].entry \in Entries
      BY <2>4 DEF Created, JobOK
    <3> DEFINE job == [jobs[j] EXCEPT !.phase = "dating", !.blob = made + 1]
    <3>2. /\ job \in Job /\ job.phase = "dating"
          /\ job.entry \in Entries /\ job.blob \in 1..MaxMade
      <4>1. 1..MaxMade \subseteq 0..MaxMade
        OBVIOUS
      <4> QED
        BY <3>1, <4>1 DEF Job, Phase
    <3>3. jobs' = [jobs EXCEPT ![j] = job] /\ made' \in 0..MaxMade
          /\ UNCHANGED <<storeVars, restoring, home, loaded, known>>
      BY <2>4, <3>1 DEF Created, Step
    <3> HIDE DEF job
    <3>4. origin' \in [1..MaxMade -> Households \cup {None}]
      <4>1. NodeOf[jobs[j].entry] \in Nodes
        BY <3>1 DEF Nodes
      <4> QED
        BY <2>4, <3>1, <4>1 DEF Created
    <3> QED
      BY <3>2, <3>3, <3>4, JobStep DEF storeVars, JobOK
  <2>5. ASSUME NEW j \in Jobs, async_add(j) PROVE BackupInv'
    <3>1. jobs[j] \in Job /\ jobs[j].entry \in Entries /\ jobs[j].blob \in 1..MaxMade
      BY <2>5 DEF async_add, JobOK
    <3>2. NewRecord(j) \in Record /\ NewRecord(j).pos = adds + 1
          /\ NewRecord(j).node = jobs[j].node
      BY <3>1 DEF NewRecord, Record, Job
    <3>3. Sound(backups', adds')
      BY <2>5, <3>2, AddIsSound DEF async_add, JobOK
    <3>4. Sound(file', adds')
      <4>1. Sound(file, adds + 1)
        <5>1. Sound(file, adds) /\ adds \in Nat
          OBVIOUS
        <5> QED
          BY <5>1, LaterIsSound
      <4>2. file' = file /\ adds' = adds + 1
        BY <2>5 DEF async_add
      <4> QED
        BY <4>1, <4>2
    <3>5. backups' \subseteq Record /\ adds' \in Nat /\ file' \subseteq Record
      <4>1. adds' \in Nat
        BY <2>5 DEF async_add
      <4> QED
        BY <3>3, <3>4, <4>1 DEF Sound
    <3>6. /\ jobs' \in [Jobs -> Job]
          /\ \A i \in Jobs : JobOK(jobs'[i])
      BY <2>5, <3>1 DEF async_add, Step, Job, Phase, JobOK
    <3>7. handed' = {backups'} /\ UNCHANGED <<homeVars, loaded, known, made>>
      BY <2>5 DEF async_add, JobOK
    <3> QED
      BY <3>3, <3>4, <3>5, <3>6, <3>7
  <2>6. ASSUME NEW j \in Jobs, Saved(j) PROVE BackupInv'
    <3>1. jobs[j] \in Job
      OBVIOUS
    <3> QED
      BY <2>6, <3>1, OnwardJob DEF Saved, Step, JobOK
  <2>7. ASSUME NEW j \in Jobs, TransportError(j) PROVE BackupInv'
    <3>1. jobs[j] \in Job
      OBVIOUS
    <3> QED
      BY <2>0, <2>7, <3>1, OnwardJob DEF TransportError, Step, storeVars, IdleJob, JobOK
  <2>8. ASSUME NEW j \in Jobs, Garbage(j) PROVE BackupInv'
    BY <2>0, <2>8 DEF Garbage, Step, storeVars, IdleJob, JobOK
  <2>9. CASE Write
    BY <2>9 DEF Write
  <2>10. ASSUME NEW e \in Entries, EntryStep(e) PROVE BackupInv'
    <3>1. UNCHANGED jobs /\ UNCHANGED storeVars /\ UNCHANGED made
      BY <2>10, EntryStepsAreQuiet
    <3>2. /\ loaded' \subseteq Entries /\ known' \subseteq Direct
          /\ origin' \in [1..MaxMade -> Households \cup {None}]
      BY <2>10 DEF EntryStep, async_restore_entry, Restored, RestoreFails,
                   PollSucceeds, EntryUnloads, EntryLoads
    <3>3. restoring' \in [Entries -> 0..MaxMade]
      <4>1. CASE async_restore_entry(e)
        <5>1. /\ Candidates(e) \subseteq Record /\ Candidates(e) # {} /\ adds \in Nat
              /\ \A b \in Candidates(e) : b.pos <= adds
          BY <4>1 DEF async_restore_entry, Candidates, Sound
        <5>2. latest(Candidates(e)) \in Record
          BY <5>1, LatestIsOne
        <5>3. latest(Candidates(e)).blob \in 0..MaxMade
          BY <5>2 DEF Record
        <5> QED
          BY <4>1, <5>3 DEF async_restore_entry
      <4>2. CASE Restored(e) \/ RestoreFails(e)
        BY <4>2 DEF Restored, RestoreFails
      <4> QED
        BY <2>10, <4>1, <4>2 DEF EntryStep, PollSucceeds, EntryUnloads, EntryLoads
    <3>4. home' \in [Nodes -> Households \cup {None}]
      <4>1. restoring[e] # 0 => HomesAfter(e) \in [Nodes -> Households \cup {None}]
        <5>1. restoring[e] # 0 => origin[restoring[e]] \in Households \cup {None}
          BY <2>10, KeepIsPositive
        <5> QED
          BY <5>1 DEF HomesAfter
      <4> QED
        BY <2>10, <4>1 DEF EntryStep, async_restore_entry, Restored, RestoreFails,
                           PollSucceeds, EntryUnloads, EntryLoads
    <3> QED
      BY <3>1, <3>2, <3>3, <3>4 DEF storeVars
  <2>11. ASSUME NEW n \in Nodes, MovedByHand(n) PROVE BackupInv'
    <3>1. UNCHANGED <<jobs, storeVars, made, restoring, origin, loaded, known>>
      BY <2>11 DEF MovedByHand
    <3>2. home' \in [Nodes -> Households \cup {None}]
      BY <2>11 DEF MovedByHand
    <3> QED
      BY <3>1, <3>2 DEF storeVars
  <2>13. CASE Restart
    <3>1. from_dict(file) \subseteq file
      BY DEF from_dict
    <3>2. Sound(backups', adds')
      BY <2>13, <3>1, SubsetIsSound DEF Restart
    <3>3. backups' \subseteq Record
      BY <3>2 DEF Sound
    <3> QED
      BY <2>0, <2>13, <3>2, <3>3 DEF Restart, IdleJob, JobOK
  <2>14. CASE UNCHANGED vars
    BY <2>14 DEF vars, storeVars
  <2> QED
    BY <2>1, <2>2, <2>3, <2>4, <2>5, <2>6, <2>7, <2>8, <2>9, <2>10, <2>11,
       <2>13, <2>14 DEF BackupNext, EntryStep
<1> QED
  BY <1>1, <1>2, PTL DEF BackupSpec

\* The store, the jobs and the file stay well typed (backup.py).
THEOREM BackupTypeCorrect == BackupSpec => []BackupTypeOK
BY BackupInvariance, PTL DEF BackupInv

\* For every BACKUP_KEEP no node ever has more copies than that, in memory or
\* on disk, whatever jobs run together and wherever a crash falls
\* (BackupStore.async_add, _prune, async_load).
THEOREM RetentionIsBounded == BackupSpec => []RetentionHolds
<1>1. BackupInv => RetentionHolds
  BY DEF BackupInv, Sound, RetentionHolds
<1> QED
  BY <1>1, BackupInvariance, PTL

-----------------------------------------------------------------------------
(* Which copies a window loses.                                              *)

\* A window that is not over full loses nothing; one that is loses its oldest
\* copy and no other (_prune).
LEMMA PruneShape ==
    ASSUME NEW S, S \subseteq Record, IsFiniteSet(S),
           \A b, c \in S : b.pos = c.pos => b = c,
           Cardinality(S) <= BACKUP_KEEP + 1
    PROVE  LET K == {b \in S : Cardinality(Newer(S, b)) < BACKUP_KEEP}
           IN \/ Cardinality(S) <= BACKUP_KEEP /\ K = S
              \/ /\ Cardinality(S) = BACKUP_KEEP + 1
                 /\ \E o \in S : /\ K = S \ {o}
                                 /\ Cardinality(K) = BACKUP_KEEP
                                 /\ Newer(S, o) = K
<1> USE BackupAssumption
<1> DEFINE K == {b \in S : Cardinality(Newer(S, b)) < BACKUP_KEEP}
<1>1. Cardinality(S) \in Nat /\ \A c \in S : c.pos \in Nat
  BY FS_CardinalityType DEF Record
<1>2. ASSUME NEW b \in S
      PROVE  /\ Newer(S, b) \in SUBSET (S \ {b}) /\ IsFiniteSet(S \ {b})
             /\ Cardinality(S \ {b}) = Cardinality(S) - 1
             /\ Cardinality(Newer(S, b)) \in Nat
             /\ Cardinality(Newer(S, b)) <= Cardinality(S) - 1
  <2>1. IsFiniteSet(S \ {b}) /\ Cardinality(S \ {b}) = Cardinality(S) - 1
    BY FS_RemoveElement
  <2>2. Newer(S, b) \in SUBSET (S \ {b})
    BY <1>1 DEF Newer
  <2>3. /\ IsFiniteSet(Newer(S, b))
        /\ Cardinality(Newer(S, b)) <= Cardinality(S \ {b})
    BY <2>1, <2>2, FS_Subset
  <2> QED
    BY <2>1, <2>2, <2>3, FS_CardinalityType
<1>3. CASE Cardinality(S) <= BACKUP_KEEP
  <2>1. ASSUME NEW b \in S PROVE Cardinality(Newer(S, b)) < BACKUP_KEEP
    <3>1. /\ Cardinality(Newer(S, b)) \in Nat
          /\ Cardinality(Newer(S, b)) <= Cardinality(S) - 1
      BY <1>2
    <3> HIDE DEF K
    <3> QED
      BY <1>1, <1>3, <3>1
  <2> QED
    BY <1>3, <2>1
<1>4. CASE Cardinality(S) = BACKUP_KEEP + 1
  <2>1. S # {}
    BY <1>4, FS_EmptySet
  <2>2. PICK o \in S : \A c \in S : o.pos <= c.pos
    BY <2>1, OldestExists
  <2>3. Newer(S, o) = S \ {o}
    BY <1>1, <2>2 DEF Newer
  <2>4. Cardinality(S \ {o}) = BACKUP_KEEP /\ IsFiniteSet(S \ {o})
    BY <1>2, <1>4
  <2>5. ASSUME NEW c \in S \ {o}
        PROVE  Cardinality(Newer(S, c)) < BACKUP_KEEP
    <3>1. Newer(S, c) \in SUBSET ((S \ {o}) \ {c})
      BY <1>1, <2>2 DEF Newer
    <3>2. IsFiniteSet((S \ {o}) \ {c}) /\ Cardinality((S \ {o}) \ {c}) = BACKUP_KEEP - 1
      BY <2>4, FS_RemoveElement
    <3>3. Cardinality(Newer(S, c)) <= BACKUP_KEEP - 1
      BY <3>1, <3>2, FS_Subset
    <3>4. Cardinality(Newer(S, c)) \in Nat
      BY <1>2
    <3> HIDE DEF K
    <3> QED
      BY <3>3, <3>4
  <2>6. K = S \ {o}
    <3>1. ~(Cardinality(Newer(S, o)) < BACKUP_KEEP)
      BY <2>3, <2>4
    <3> QED
      BY <2>5, <3>1
  <2> QED
    BY <1>4, <2>3, <2>4, <2>6
<1> QED
  BY <1>1, <1>3, <1>4

\* In bs, or replaced there by enough newer copies of its node.
KeptIn(bs, b) ==
    \/ b \in bs
    \/ Cardinality(Newer(for_node(bs, b.node), b)) >= BACKUP_KEEP

\* A copy that is kept stays kept when another one is added: only a full window
\* loses one, and then to newer ones (async_add).
LEMMA AddKeeps ==
    ASSUME NEW bs, NEW k \in Nat, Sound(bs, k), NEW r \in Record, r.pos = k + 1,
           NEW b \in Record, b.pos <= k, KeptIn(bs, b)
    PROVE  KeptIn(prune(bs \cup {r}, r.node), b)
<1> USE BackupAssumption
<1> DEFINE all == bs \cup {r}
           kept == prune(all, r.node)
<1>1. CASE b.node # r.node
  <2>1. for_node(kept, b.node) = for_node(bs, b.node)
    BY <1>1 DEF for_node, prune
  <2>2. b \in bs => b \in kept
    BY <1>1 DEF prune
  <2> QED
    BY <2>1, <2>2 DEF KeptIn
<1>2. CASE b.node = r.node
  <2> DEFINE n == r.node
             B == for_node(bs, n)
             S == for_node(all, n)
             K == {c \in S : Cardinality(Newer(S, c)) < BACKUP_KEEP}
  <2>1. n \in NodeIds /\ b.pos \in Nat /\ r.node = n
    BY DEF Record
  <2>2. /\ B \subseteq bs /\ IsFiniteSet(B) /\ Cardinality(B) \in Nat
        /\ Cardinality(B) <= BACKUP_KEEP
    <3>1. B \in SUBSET bs
      BY DEF for_node
    <3> QED
      BY <2>1, <3>1, FS_Subset, FS_CardinalityType DEF Sound
  <2>3. S = B \cup {r}
    BY DEF for_node
  <2>4. r \notin B /\ \A c \in B : c.pos \in Nat /\ c.pos <= k
    BY <2>2 DEF Sound, Record
  <2>5. IsFiniteSet(S) /\ Cardinality(S) = Cardinality(B) + 1
    <3> HIDE DEF B, S
    <3> QED
      BY <2>2, <2>3, <2>4, FS_AddElement
  <2>6. S \subseteq Record /\ \A c, d \in S : c.pos = d.pos => c = d
    <3>1. B \subseteq Record /\ \A c, d \in B : c.pos = d.pos => c = d
      BY <2>2 DEF Sound
    <3>2. \A c \in B : c.pos # r.pos
      BY <2>4
    <3> HIDE DEF B, S
    <3> QED
      BY <2>3, <3>1, <3>2
  <2>7. for_node(kept, n) = K
    BY DEF for_node, prune
  <2>8. \/ Cardinality(S) <= BACKUP_KEEP /\ K = S
        \/ /\ Cardinality(S) = BACKUP_KEEP + 1
           /\ \E o \in S : /\ K = S \ {o}
                           /\ Cardinality(K) = BACKUP_KEEP
                           /\ Newer(S, o) = K
    <3> HIDE DEF S
    <3> QED
      BY <2>2, <2>5, <2>6, PruneShape
  <2>9. CASE b \in bs
    <3>1. b \in S
      BY <1>2, <2>9 DEF for_node
    <3>2. CASE b \in K
      BY <2>7, <3>2 DEF KeptIn, for_node
    <3>3. CASE b \notin K
      <4>1. Newer(S, b) = K /\ Cardinality(K) = BACKUP_KEEP
        <5> HIDE DEF K, S
        <5> QED
          BY <2>8, <3>1, <3>3
      <4>2. Newer(K, b) = K
        <5>1. Newer(K, b) \subseteq K /\ K \subseteq Newer(K, b)
          BY <4>1 DEF Newer
        <5> QED
          BY <5>1
      <4> HIDE DEF K
      <4>3. Cardinality(Newer(for_node(kept, b.node), b)) >= BACKUP_KEEP
        BY <1>2, <2>7, <4>1, <4>2
      <4> QED
        BY <4>3 DEF KeptIn
    <3> QED
      BY <3>2, <3>3
  <2>10. CASE b \notin bs
    <3>1. Cardinality(Newer(B, b)) >= BACKUP_KEEP
      BY <1>2, <2>10 DEF KeptIn
    <3>2. Newer(B, b) \in SUBSET B
      BY DEF Newer
    <3>3. B = Newer(B, b) /\ Cardinality(B) = BACKUP_KEEP
      <4> HIDE DEF B
      <4>1. IsFiniteSet(Newer(B, b)) /\ Cardinality(Newer(B, b)) <= Cardinality(B)
            /\ (Cardinality(B) = Cardinality(Newer(B, b)) => B = Newer(B, b))
        BY <2>2, <3>2, FS_Subset
      <4>2. Cardinality(Newer(B, b)) \in Nat
        BY <4>1, FS_CardinalityType
      <4> QED
        BY <2>2, <3>1, <4>1, <4>2
    <3>4. \A c \in S : c.pos > b.pos
      <4>1. \A c \in B : c.pos > b.pos
        BY <3>3 DEF Newer
      <4>2. r.pos > b.pos
        BY <2>1
      <4> QED
        BY <2>3, <4>1, <4>2
    <3>5. Cardinality(S) = BACKUP_KEEP + 1
      BY <2>5, <3>3
    <3>6. K \subseteq S /\ Cardinality(K) = BACKUP_KEEP
      <4> HIDE DEF S
      <4> QED
        BY <2>8, <3>5
    <3>7. Newer(K, b) = K
      <4> HIDE DEF K, S
      <4> QED
        BY <3>4, <3>6 DEF Newer
    <3> HIDE DEF K
    <3> QED
      BY <1>2, <2>7, <3>6, <3>7 DEF KeptIn
  <2> QED
    BY <2>9, <2>10
<1> QED
  BY <1>1, <1>2
-----------------------------------------------------------------------------
(* Memory, disk and what was confirmed.                                      *)

\* With nothing left to write, memory and disk have the same named copies.
InStep == handed = {} => from_dict(backups) = from_dict(file)

\* A copy is kept once: its blob tells it from every other.
OneBlobEach ==
    /\ \A b, c \in backups : b.blob = c.blob => b = c
    /\ \A b, c \in file : b.blob = c.blob => b = c
    /\ \A b \in backups \cup file : b.blob <= made

\* A copy that is not in the list yet has a blob of its own.
DatingIsNew ==
    /\ \A j \in Jobs : jobs[j].phase = "dating" =>
          jobs[j].blob <= made /\ \A b \in backups : b.blob # jobs[j].blob
    /\ \A i, j \in Jobs :
          i # j /\ jobs[i].phase = "dating" /\ jobs[j].phase = "dating"
          => jobs[i].blob # jobs[j].blob

\* What was confirmed is kept on disk, and in memory, from where it will be
\* written next.
DurableIsKept ==
    \A b \in durable : /\ b \in Record /\ b.pos <= adds
                       /\ b.node # None => KeptIn(file, b) /\ KeptIn(backups, b)

StoreInv == InStep /\ OneBlobEach /\ DatingIsNew /\ DurableIsKept

\* Steps that leave the store alone, and take no copy from a node.
LEMMA QuietStoreStep ==
    ASSUME StoreInv, UNCHANGED storeVars, UNCHANGED made,
           \A i \in Jobs : jobs'[i].phase = "dating" => jobs'[i] = jobs[i]
    PROVE  StoreInv'
<1>1. UNCHANGED <<backups, adds, handed, file, durable>>
  BY DEF storeVars
<1>2. DatingIsNew'
  BY <1>1 DEF StoreInv, DatingIsNew
<1> QED
  BY <1>1, <1>2 DEF StoreInv, InStep, OneBlobEach, DurableIsKept

\* Such are the steps of a job up to the node's answer, and of the entries.
LEMMA JobStepsAreQuiet ==
    ASSUME BackupInv,
           \/ \E j \in Jobs : \/ Start(j) \/ NextEntry(j) \/ EndJob(j)
                              \/ TransportError(j) \/ Garbage(j)
           \/ \E e \in Entries : EntryStep(e)
           \/ \E n \in Nodes : MovedByHand(n)
           \/ UNCHANGED vars
    PROVE  /\ UNCHANGED storeVars /\ UNCHANGED made
           /\ \A i \in Jobs : jobs'[i].phase = "dating" => jobs'[i] = jobs[i]
<1>1. jobs \in [Jobs -> Job]
  BY DEF BackupInv, BackupTypeOK
<1>2. IdleJob.phase = "idle"
  BY DEF IdleJob
<1>3. ASSUME NEW j \in Jobs, NEW job, jobs' = [jobs EXCEPT ![j] = job],
             job.phase # "dating"
      PROVE  \A i \in Jobs : jobs'[i].phase = "dating" => jobs'[i] = jobs[i]
  BY <1>1, <1>3
<1>4. ASSUME NEW j \in Jobs, Start(j)
      PROVE  \A i \in Jobs : jobs'[i].phase = "dating" => jobs'[i] = jobs[i]
  <2>1. PICK kind, todo :
           Step(j, [IdleJob EXCEPT !.phase = "next", !.kind = kind, !.todo = todo])
    BY <1>4 DEF Start
  <2>2. [IdleJob EXCEPT !.phase = "next", !.kind = kind, !.todo = todo].phase = "next"
    BY DEF IdleJob
  <2> QED
    BY <1>3, <2>1, <2>2 DEF Step
<1>5. ASSUME NEW j \in Jobs, NextEntry(j)
      PROVE  \A i \in Jobs : jobs'[i].phase = "dating" => jobs'[i] = jobs[i]
  <2>1. jobs[j] \in Job /\ jobs[j].phase = "next"
    BY <1>1, <1>5 DEF NextEntry
  <2>2. PICK job : jobs' = [jobs EXCEPT ![j] = job] /\ job.phase # "dating"
    <3>1. PICK e \in jobs[j].todo :
            IF e \in loaded
            THEN Step(j, [jobs[j] EXCEPT
                     !.phase = "asking", !.todo = @ \ {e}, !.entry = e,
                     !.node = IF e \in Direct \ known THEN None ELSE NodeOf[e]])
            ELSE Step(j, IF jobs[j].kind = "service" THEN IdleJob
                         ELSE [jobs[j] EXCEPT !.todo = @ \ {e}])
      BY <1>5 DEF NextEntry
    <3>2. \A n : [jobs[j] EXCEPT !.phase = "asking", !.todo = @ \ {e}, !.entry = e,
                                 !.node = n].phase = "asking"
      BY <2>1 DEF Job
    <3>3. [jobs[j] EXCEPT !.todo = @ \ {e}].phase = "next"
      BY <2>1 DEF Job
    <3>4. CASE e \in loaded
      BY <3>1, <3>2, <3>4 DEF Step
    <3>5. CASE e \notin loaded /\ jobs[j].kind = "service"
      BY <1>2, <3>1, <3>5 DEF Step
    <3>6. CASE e \notin loaded /\ jobs[j].kind # "service"
      BY <3>1, <3>3, <3>6 DEF Step
    <3> QED
      BY <3>4, <3>5, <3>6
  <2> QED
    BY <1>3, <2>2
<1>6. ASSUME NEW j \in Jobs, EndJob(j) \/ Garbage(j)
      PROVE  \A i \in Jobs : jobs'[i].phase = "dating" => jobs'[i] = jobs[i]
  BY <1>2, <1>3, <1>6 DEF EndJob, Garbage, Step
<1>7. ASSUME NEW j \in Jobs, TransportError(j)
      PROVE  \A i \in Jobs : jobs'[i].phase = "dating" => jobs'[i] = jobs[i]
  <2>1. jobs[j] \in Job
    BY <1>1
  <2>2. Onward(jobs[j]).phase = "next"
    BY <2>1, OnwardJob
  <2>3. CASE jobs[j].kind = "service"
    BY <1>2, <1>3, <1>7, <2>3 DEF TransportError, Step
  <2>4. CASE jobs[j].kind # "service"
    BY <1>3, <1>7, <2>2, <2>4 DEF TransportError, Step
  <2> QED
    BY <2>3, <2>4
<1>9. ASSUME NEW j \in Jobs,
             Start(j) \/ NextEntry(j) \/ EndJob(j) \/ TransportError(j) \/ Garbage(j)
      PROVE  UNCHANGED storeVars /\ UNCHANGED made
  BY <1>9 DEF Start, NextEntry, EndJob, TransportError, Garbage
<1> QED
  BY <1>4, <1>5, <1>6, <1>7, <1>9, EntryStepsAreQuiet DEF vars

\* The node hands a copy over: its blob is new.
LEMMA CreatedStep ==
    ASSUME BackupInv, StoreInv, NEW j \in Jobs, Created(j)
    PROVE  StoreInv'
<1>1. jobs \in [Jobs -> Job] /\ jobs[j] \in Job /\ made \in Nat
      /\ backups \subseteq Record /\ file \subseteq Record
  BY BackupAssumption DEF BackupInv, BackupTypeOK
<1> DEFINE job == [jobs[j] EXCEPT !.phase = "dating", !.blob = made + 1]
<1>2. jobs' = [jobs EXCEPT ![j] = job] /\ made' = made + 1 /\ UNCHANGED storeVars
  BY DEF Created, Step
<1>3. job.blob = made + 1
  BY <1>1 DEF Job
<1> HIDE DEF job
<1>4. UNCHANGED <<backups, adds, handed, file, durable>>
  BY <1>2 DEF storeVars
<1>5. \A b \in backups \cup file : b.blob \in Nat /\ b.blob <= made
  BY <1>1, BackupAssumption DEF StoreInv, OneBlobEach, Record
<1>6. \A i \in Jobs : jobs[i].blob \in Nat
  BY <1>1, BackupAssumption DEF Job
<1>7. OneBlobEach'
  BY <1>1, <1>2, <1>4, <1>5 DEF StoreInv, OneBlobEach
<1>8. DatingIsNew'
  <2>1. ASSUME NEW i \in Jobs, jobs'[i].phase = "dating"
        PROVE  jobs'[i].blob <= made' /\ \A b \in backups' : b.blob # jobs'[i].blob
    <3>1. CASE i = j
      BY <1>1, <1>2, <1>3, <1>4, <1>5, <3>1
    <3>2. CASE i # j
      BY <1>1, <1>2, <1>4, <1>6, <2>1, <3>2 DEF StoreInv, DatingIsNew
    <3> QED
      BY <3>1, <3>2
  <2>2. \A i \in Jobs : jobs[i].phase = "dating" => jobs[i].blob # made + 1
    BY <1>1, <1>6 DEF StoreInv, DatingIsNew
  <2>3. \A i, k \in Jobs :
           i # k /\ jobs'[i].phase = "dating" /\ jobs'[k].phase = "dating"
           => jobs'[i].blob # jobs'[k].blob
    BY <1>1, <1>2, <1>3, <2>2 DEF StoreInv, DatingIsNew
  <2> QED
    BY <2>1, <2>3 DEF DatingIsNew
<1> QED
  BY <1>4, <1>7, <1>8 DEF StoreInv, InStep, DurableIsKept

\* The copy enters the list with its blob; what was kept stays kept.
LEMMA AddStep ==
    ASSUME BackupInv, StoreInv, NEW j \in Jobs, async_add(j)
    PROVE  StoreInv'
<1> DEFINE r == NewRecord(j)
<1>1. /\ jobs \in [Jobs -> Job] /\ jobs[j] \in Job /\ jobs[j].phase = "dating"
      /\ jobs[j].entry \in Entries /\ jobs[j].blob \in 1..MaxMade /\ adds \in Nat
      /\ Sound(backups, adds)
  BY DEF BackupInv, BackupTypeOK, JobOK, async_add
<1>2. r \in Record /\ r.pos = adds + 1 /\ r.node = jobs[j].node /\ r.blob = jobs[j].blob
  BY <1>1 DEF NewRecord, Record, Job
<1> DEFINE job == [jobs[j] EXCEPT !.phase = "saving"]
<1>3. /\ backups' = prune(backups \cup {r}, r.node) /\ adds' = adds + 1
      /\ handed' = {backups'} /\ UNCHANGED <<file, durable, made>>
      /\ jobs' = [jobs EXCEPT ![j] = job]
  BY <1>2 DEF async_add, Step
<1>4. job.phase = "saving"
  BY <1>1 DEF Job
<1> HIDE DEF r, job
<1>5. backups' \subseteq backups \cup {r}
  BY <1>3 DEF prune
<1>6. OneBlobEach'
  <2>1. r.blob <= made /\ \A b \in backups : b.blob # r.blob
    BY <1>1, <1>2 DEF StoreInv, DatingIsNew
  <2>2. \A b, c \in backups \cup {r} : b.blob = c.blob => b = c
    BY <2>1 DEF StoreInv, OneBlobEach
  <2>3. \A b \in backups \cup {r} \cup file : b.blob <= made
    BY <2>1 DEF StoreInv, OneBlobEach
  <2>4. \A b, c \in file : b.blob = c.blob => b = c
    BY DEF StoreInv, OneBlobEach
  <2>5. OneBlobEach' = ( /\ \A b, c \in backups' : b.blob = c.blob => b = c
                         /\ \A b, c \in file : b.blob = c.blob => b = c
                         /\ \A b \in backups' \cup file : b.blob <= made )
    BY <1>3 DEF OneBlobEach
  <2> QED
    BY <1>5, <2>2, <2>3, <2>4, <2>5
<1>7. DatingIsNew'
  BY <1>1, <1>2, <1>3, <1>4, <1>5 DEF StoreInv, DatingIsNew
<1>8. DurableIsKept'
  <2>1. SUFFICES ASSUME NEW b \in durable
                 PROVE  /\ b \in Record /\ b.pos <= adds + 1
                        /\ b.node # None => KeptIn(file, b) /\ KeptIn(backups', b)
    BY <1>3 DEF DurableIsKept
  <2>2. /\ b \in Record /\ b.pos <= adds
        /\ b.node # None => KeptIn(file, b) /\ KeptIn(backups, b)
    BY DEF StoreInv, DurableIsKept
  <2>3. b.pos \in Nat
    BY <2>2 DEF Record
  <2> QED
    BY <1>1, <1>2, <1>3, <2>2, <2>3, AddKeeps
<1> QED
  BY <1>3, <1>6, <1>7, <1>8 DEF StoreInv, InStep
\* A write, the end of one, and a restart.
LEMMA DiskSteps ==
    ASSUME BackupInv, StoreInv, Write \/ Restart \/ \E j \in Jobs : Saved(j)
    PROVE  StoreInv'
<1>0. jobs \in [Jobs -> Job] /\ backups \subseteq Record /\ file \subseteq Record
      /\ (handed = {} \/ handed = {backups})
  BY DEF BackupInv, BackupTypeOK
<1>1. CASE Write
  <2>1. file' = backups /\ UNCHANGED <<backups, adds, durable, jobs, made>>
    BY <1>0, <1>1 DEF Write
  <2> QED
    BY <2>1 DEF StoreInv, InStep, OneBlobEach, DatingIsNew, DurableIsKept
<1>2. ASSUME NEW j \in Jobs, Saved(j) PROVE StoreInv'
  <2> DEFINE job == Onward(jobs[j])
  <2>1. /\ UNCHANGED <<backups, adds, handed, file, made>> /\ handed = {}
        /\ durable' = durable \cup {b \in backups : b.blob = jobs[j].blob}
        /\ jobs' = [jobs EXCEPT ![j] = job]
    BY <1>2 DEF Saved, Step
  <2>2. jobs[j] \in Job
    BY <1>0
  <2>3. job.phase = "next"
    BY <2>2, OnwardJob
  <2> HIDE DEF job
  <2>4. DatingIsNew'
    BY <1>0, <2>1, <2>3 DEF StoreInv, DatingIsNew
  <2>5. DurableIsKept'
    <3>1. ASSUME NEW b \in backups, b.node # None
          PROVE  KeptIn(file, b) /\ KeptIn(backups, b)
      BY <2>1, <3>1 DEF StoreInv, InStep, from_dict, KeptIn
    <3>2. \A b \in backups : b \in Record /\ b.pos <= adds
      BY <1>0 DEF BackupInv, Sound
    <3> QED
      BY <2>1, <3>1, <3>2 DEF StoreInv, DurableIsKept
  <2> QED
    BY <2>1, <2>4, <2>5 DEF StoreInv, InStep, OneBlobEach
<1>3. CASE Restart
  <2>1. /\ backups' = from_dict(file) /\ UNCHANGED <<adds, file, made, durable>>
        /\ \A j \in Jobs : jobs'[j] = IdleJob
    BY <1>3 DEF Restart
  <2>2. DatingIsNew'
    BY <2>1 DEF DatingIsNew, IdleJob
  <2>3. InStep'
    BY <2>1 DEF InStep, from_dict
  <2>4. backups' \subseteq file
    BY <2>1 DEF from_dict
  <2>5. OneBlobEach'
    BY <2>1, <2>4 DEF StoreInv, OneBlobEach
  <2>6. ASSUME NEW b \in durable, b.node # None, KeptIn(file, b)
        PROVE  KeptIn(backups', b)
    <3>1. for_node(backups', b.node) = for_node(file, b.node)
      BY <2>1, <2>6 DEF for_node, from_dict
    <3>2. b \in file => b \in backups'
      BY <2>1, <2>6 DEF from_dict
    <3> QED
      BY <2>6, <3>1, <3>2 DEF KeptIn
  <2>7. DurableIsKept'
    BY <2>1, <2>6 DEF StoreInv, DurableIsKept
  <2> QED
    BY <2>2, <2>3, <2>5, <2>7 DEF StoreInv
<1> QED
  BY <1>1, <1>2, <1>3

\* What is said of memory, disk and confirmations holds of every run.
LEMMA StoreInvariance == BackupSpec => []StoreInv
<1>1. BackupInit => StoreInv
  BY DEF BackupInit, StoreInv, InStep, OneBlobEach, DatingIsNew, DurableIsKept, IdleJob
<1>2. ASSUME BackupInv, StoreInv, [BackupNext]_vars
      PROVE  StoreInv'
  BY <1>2, JobStepsAreQuiet, QuietStoreStep, CreatedStep, AddStep, DiskSteps
  DEF BackupNext, EntryStep
<1> QED
  BY <1>1, <1>2, BackupInvariance, PTL DEF BackupSpec

\* A copy that somebody was told is stored, under the name of its node, is on
\* disk or replaced there by newer ones, for every window, whatever jobs add
\* and write meanwhile and wherever a crash falls (BackupStore.async_add,
\* async_save, async_load).
THEOREM ConfirmedCopiesSurvive == BackupSpec => []NamedIsDurable
<1>1. StoreInv => NamedIsDurable
  BY DEF StoreInv, DurableIsKept, NamedIsDurable, KeptIn, Kept
<1> QED
  BY <1>1, StoreInvariance, PTL

-----------------------------------------------------------------------------
(* Where restores take the nodes.                                            *)

\* What is kept, in a job's hands or on its way to a node under the name of an
\* undisturbed household is of that household, and its nodes are in it.
HomeInv ==
    /\ \A b \in backups \cup file :
          Settled(b.household) => origin[b.blob] = b.household
    /\ \A j \in Jobs :
          LET h == HouseholdOf[jobs[j].entry]
          IN jobs[j].phase = "dating" /\ Settled(h) => origin[jobs[j].blob] = h
    /\ \A e \in Entries :
          /\ restoring[e] <= made
          /\ restoring[e] # 0 /\ Settled(HouseholdOf[e])
               => origin[restoring[e]] = HouseholdOf[e]
    /\ NodesStayHome

\* A household that is undisturbed after a step was so before.
LEMMA SettledWas ==
    ASSUME moved \subseteq moved', NEW h, Settled(h)'
    PROVE  Settled(h)
BY DEF Settled

\* No step that makes no copy and moves no node disturbs this, if it hands no
\* copy to a job or to the list either.
LEMMA QuietHomeStep ==
    ASSUME HomeInv, backups' \subseteq backups \cup file, file' \subseteq backups \cup file,
           UNCHANGED <<made, home, origin, moved>>,
           \A e \in Entries : restoring'[e] \in {restoring[e], 0},
           \A i \in Jobs : jobs'[i].phase = "dating" => jobs'[i] = jobs[i],
           made \in Nat
    PROVE  HomeInv'
<1>1. \A h : Settled(h)' <=> Settled(h)
  BY DEF Settled
<1>2. NodesStayHome'
  BY <1>1 DEF HomeInv, NodesStayHome
<1> QED
  BY <1>1, <1>2 DEF HomeInv

\* The copy a node makes is of the household it is in.
LEMMA CreatedAtHome ==
    ASSUME BackupInv, StoreInv, HomeInv, NEW j \in Jobs, Created(j)
    PROVE  HomeInv'
<1>1. /\ jobs \in [Jobs -> Job] /\ jobs[j] \in Job /\ made \in Nat
      /\ jobs[j].entry \in Entries /\ made + 1 \in 1..MaxMade
      /\ origin \in [1..MaxMade -> Households \cup {None}]
  BY BackupAssumption DEF BackupInv, BackupTypeOK, JobOK, Created
<1> DEFINE job == [jobs[j] EXCEPT !.phase = "dating", !.blob = made + 1]
           h == home[NodeOf[jobs[j].entry]]
<1>2. /\ jobs' = [jobs EXCEPT ![j] = job] /\ made' = made + 1
      /\ origin' = [origin EXCEPT ![made + 1] = h]
      /\ UNCHANGED <<backups, file, restoring, home, moved>>
  BY DEF Created, Step, storeVars
<1>3. job.blob = made + 1 /\ job.entry = jobs[j].entry
  BY <1>1 DEF Job
<1> HIDE DEF job
<1>4. origin'[made + 1] = h /\ \A k : k # made + 1 => origin'[k] = origin[k]
  BY <1>1, <1>2
<1>5. \A hh : Settled(hh)' <=> Settled(hh)
  BY <1>2 DEF Settled
<1>6. NodesStayHome'
  BY <1>2, <1>5 DEF HomeInv, NodesStayHome
<1>7. \A b \in backups \cup file : b.blob # made + 1
  <2>1. \A b \in backups \cup file : b.blob \in Nat /\ b.blob <= made
    BY BackupAssumption DEF BackupInv, BackupTypeOK, StoreInv, OneBlobEach, Record
  <2> QED
    BY <1>1, <2>1
<1>8. ASSUME NEW i \in Jobs, jobs'[i].phase = "dating",
             Settled(HouseholdOf[jobs'[i].entry])
      PROVE  origin'[jobs'[i].blob] = HouseholdOf[jobs'[i].entry]
  <2>1. CASE i = j
    <3>1. jobs'[i] = job
      BY <1>1, <1>2, <2>1
    <3> QED
      BY <1>1, <1>3, <1>4, <1>8, <3>1 DEF HomeInv, NodesStayHome
  <2>2. CASE i # j
    <3>1. jobs'[i] = jobs[i] /\ jobs[i].blob \in Nat
      BY <1>1, <1>2, <2>2, BackupAssumption DEF Job
    <3>2. jobs[i].blob # made + 1
      BY <1>1, <1>8, <3>1 DEF StoreInv, DatingIsNew
    <3> QED
      BY <1>4, <1>8, <3>1, <3>2 DEF HomeInv
  <2> QED
    BY <2>1, <2>2
<1>9. ASSUME NEW e \in Entries
      PROVE  /\ restoring'[e] <= made'
             /\ restoring'[e] # 0 /\ Settled(HouseholdOf[e])
                  => origin'[restoring'[e]] = HouseholdOf[e]
  <2>1. restoring[e] \in Nat /\ restoring[e] <= made
    BY BackupAssumption DEF BackupInv, BackupTypeOK, HomeInv
  <2> QED
    BY <1>1, <1>2, <1>4, <2>1 DEF HomeInv
<1> QED
  BY <1>2, <1>4, <1>5, <1>6, <1>7, <1>8, <1>9 DEF HomeInv

\* It is kept under the household of the entry that asked for it.
LEMMA AddedAtHome ==
    ASSUME BackupInv, HomeInv, NEW j \in Jobs, async_add(j)
    PROVE  HomeInv'
<1>1. jobs \in [Jobs -> Job] /\ jobs[j] \in Job /\ jobs[j].phase = "dating"
  BY DEF BackupInv, BackupTypeOK, async_add
<1> DEFINE job == [jobs[j] EXCEPT !.phase = "saving"]
           r == NewRecord(j)
<1>2. /\ jobs' = [jobs EXCEPT ![j] = job] /\ backups' \subseteq backups \cup {r}
      /\ UNCHANGED <<file, made, restoring, home, origin, moved>>
  BY DEF async_add, Step, prune, homeVars
<1>3. job.phase = "saving"
  BY <1>1 DEF Job
<1>4. r.blob = jobs[j].blob /\ r.household = HouseholdOf[jobs[j].entry]
  BY DEF NewRecord
<1> HIDE DEF job, r
<1>5. \A h : Settled(h)' <=> Settled(h)
  BY <1>2 DEF Settled
<1>6. NodesStayHome'
  BY <1>2, <1>5 DEF HomeInv, NodesStayHome
<1>7. Settled(r.household) => origin[r.blob] = r.household
  BY <1>1, <1>4 DEF HomeInv
<1>8. \A i \in Jobs : jobs'[i].phase = "dating" => jobs'[i] = jobs[i]
  BY <1>1, <1>2, <1>3
<1> QED
  BY <1>2, <1>5, <1>6, <1>7, <1>8 DEF HomeInv

\* A restore sends a copy kept under the entry's household, and takes the node
\* to the household that copy is of.
LEMMA EntryStepsKeepHome ==
    ASSUME BackupInv, StoreInv, HomeInv, NEW e \in Entries, EntryStep(e)
    PROVE  HomeInv'
<1>0. /\ UNCHANGED <<jobs, backups, file, made, origin, moved>> /\ made \in Nat
      /\ restoring \in [Entries -> 0..MaxMade] /\ home \in [Nodes -> Households \cup {None}]
  BY EntryStepsAreQuiet, BackupAssumption
  DEF storeVars, BackupInv, BackupTypeOK, EntryStep, async_restore_entry, Restored,
      RestoreFails, PollSucceeds, EntryUnloads, EntryLoads, homeVars
<1>1. \A h : Settled(h)' <=> Settled(h)
  BY <1>0 DEF Settled
<1>2. CASE async_restore_entry(e)
  <2> DEFINE b == latest(Candidates(e))
  <2>1. restoring' = [restoring EXCEPT ![e] = b.blob] /\ home' = home
    BY <1>2 DEF async_restore_entry
  <2>2. b \in Candidates(e)
    <3>1. /\ Candidates(e) \subseteq Record /\ Candidates(e) # {} /\ adds \in Nat
          /\ \A c \in Candidates(e) : c.pos <= adds
      BY <1>2 DEF async_restore_entry, Candidates, BackupInv, BackupTypeOK, Sound
    <3> QED
      BY <3>1, LatestIsOne
  <2>3. /\ b.blob <= made
        /\ Settled(HouseholdOf[e]) => origin[b.blob] = HouseholdOf[e]
    BY <2>2 DEF Candidates, HomeInv, Settled, StoreInv, OneBlobEach
  <2> HIDE DEF b
  <2>4. \A f \in Entries :
          /\ restoring'[f] <= made
          /\ restoring'[f] # 0 /\ Settled(HouseholdOf[f])
               => origin[restoring'[f]] = HouseholdOf[f]
    BY <1>0, <2>1, <2>3 DEF HomeInv
  <2>5. NodesStayHome'
    BY <1>1, <2>1 DEF HomeInv, NodesStayHome
  <2> QED
    BY <1>0, <1>1, <2>4, <2>5 DEF HomeInv
<1>3. CASE Restored(e) \/ RestoreFails(e)
  <2>1. /\ restoring[e] # 0 /\ home' \in {home, HomesAfter(e)}
        /\ restoring' = [restoring EXCEPT ![e] = 0]
    BY <1>3 DEF Restored, RestoreFails
  <2>2. ASSUME NEW f \in Entries, Settled(HouseholdOf[f])
        PROVE  home'[NodeOf[f]] = HouseholdOf[f]
    <3>1. home[NodeOf[f]] = HouseholdOf[f] /\ NodeOf[f] \in Nodes
      BY <2>2 DEF HomeInv, NodesStayHome, Nodes
    <3>2. CASE NodeOf[f] = NodeOf[e]
      <4>1. HouseholdOf[e] = HouseholdOf[f]
        BY <2>2, <3>2 DEF Settled
      <4>2. origin[restoring[e]] = HouseholdOf[f]
        BY <2>1, <2>2, <4>1 DEF HomeInv
      <4> QED
        BY <1>0, <2>1, <3>1, <3>2, <4>2 DEF HomesAfter
    <3>3. CASE NodeOf[f] # NodeOf[e]
      BY <1>0, <2>1, <3>1, <3>3 DEF HomesAfter
    <3> QED
      BY <3>2, <3>3
  <2>3. NodesStayHome'
    BY <1>1, <2>2 DEF NodesStayHome
  <2>4. \A f \in Entries : restoring'[f] \in {restoring[f], 0}
    BY <1>0, <2>1
  <2> QED
    BY <1>0, <1>1, <2>3, <2>4 DEF HomeInv
<1>4. CASE PollSucceeds(e) \/ EntryUnloads(e) \/ EntryLoads(e)
  <2>1. UNCHANGED <<home, restoring>>
    BY <1>4 DEF PollSucceeds, EntryUnloads, EntryLoads, homeVars
  <2> QED
    BY <1>0, <2>1, QuietHomeStep
<1> QED
  BY <1>2, <1>3, <1>4 DEF EntryStep

\* A node somebody moves is not one of an undisturbed household.
LEMMA MovingKeepsHome ==
    ASSUME BackupInv, HomeInv, NEW n \in Nodes, MovedByHand(n)
    PROVE  HomeInv'
<1>1. /\ UNCHANGED <<jobs, backups, file, made, origin, restoring>>
      /\ moved' = moved \cup {n} /\ \A m \in Nodes \ {n} : home'[m] = home[m]
  BY DEF MovedByHand, storeVars, BackupInv, BackupTypeOK
<1>2. \A h : Settled(h)' => Settled(h)
  BY <1>1, SettledWas
<1>3. ASSUME NEW e \in Entries, Settled(HouseholdOf[e])'
      PROVE  home'[NodeOf[e]] = HouseholdOf[e]
  <2>1. NodeOf[e] \in Nodes /\ NodeOf[e] \notin moved'
    BY <1>3 DEF Settled, Nodes
  <2> QED
    BY <1>1, <1>2, <1>3, <2>1 DEF HomeInv, NodesStayHome
<1>4. NodesStayHome'
  BY <1>3 DEF NodesStayHome
<1> QED
  BY <1>1, <1>2, <1>4 DEF HomeInv

\* Whatever is backed up, pruned, lost in a crash and restored, and wherever
\* nodes of other households are taken, no node of a household whose nodes
\* nobody moves by hand leaves it: for every set of entries and households, those
\* of entries without a household among them (async_fetch_backup,
\* async_restore_entry).
THEOREM RestoresKeepNodesHome == BackupSpec => []NodesStayHome
<1>1. BackupInit => HomeInv
  BY BackupAssumption DEF BackupInit, HomeInv, NodesStayHome, Settled, IdleJob
<1>2. ASSUME BackupInv, StoreInv, HomeInv, [BackupNext]_vars
      PROVE  HomeInv'
  <2>0. made \in Nat /\ (handed = {} \/ handed = {backups}) /\ jobs \in [Jobs -> Job]
    BY <1>2, BackupAssumption DEF BackupInv, BackupTypeOK
  <2>1. CASE \/ \E j \in Jobs : \/ Start(j) \/ NextEntry(j) \/ EndJob(j)
                                \/ TransportError(j) \/ Garbage(j)
             \/ UNCHANGED vars
    <3>1. UNCHANGED <<storeVars, homeVars, made>>
      BY <2>1 DEF Start, NextEntry, EndJob, TransportError, Garbage, vars
    <3>2. \A i \in Jobs : jobs'[i].phase = "dating" => jobs'[i] = jobs[i]
      BY <1>2, <2>1, JobStepsAreQuiet
    <3> QED
      BY <1>2, <2>0, <3>1, <3>2, QuietHomeStep DEF storeVars, homeVars
  <2>2. ASSUME NEW j \in Jobs, Saved(j) PROVE HomeInv'
    <3>1. Onward(jobs[j]).phase = "next"
      BY <2>0, OnwardJob
    <3>2. \A i \in Jobs : jobs'[i].phase = "dating" => jobs'[i] = jobs[i]
      BY <2>0, <2>2, <3>1 DEF Saved, Step
    <3> QED
      BY <1>2, <2>0, <2>2, <3>2, QuietHomeStep DEF Saved, homeVars
  <2>3. CASE Write
    BY <1>2, <2>0, <2>3, QuietHomeStep DEF Write, homeVars
  <2>4. CASE Restart
    BY <1>2, <2>0, <2>4, QuietHomeStep DEF Restart, from_dict, IdleJob
  <2> QED
    BY <1>2, <2>1, <2>2, <2>3, <2>4, CreatedAtHome, AddedAtHome, EntryStepsKeepHome,
       MovingKeepsHome DEF BackupNext, EntryStep
<1>3. HomeInv => NodesStayHome
  BY DEF HomeInv
<1> QED
  BY <1>1, <1>2, <1>3, BackupInvariance, StoreInvariance, PTL DEF BackupSpec

-----------------------------------------------------------------------------
(* The store implements RollingCopies.                                       *)

\* Both modules count alike.
LEMMA SameCount == \A T : Rolling!Cardinality(T) = Cardinality(T)
BY DEF Rolling!Cardinality, Cardinality

\* Records of one list are ranked as their places are.
LEMMA SameRank ==
    ASSUME NEW S, S \subseteq Record, IsFiniteSet(S),
           \A b, c \in S : b.pos = c.pos => b = c, NEW b \in S
    PROVE  Cardinality(Rolling!Later({c.pos : c \in S}, b.pos))
               = Cardinality(Newer(S, b))
<1> DEFINE N == Newer(S, b)
           T == Rolling!Later({c.pos : c \in S}, b.pos)
           f == [c \in N |-> c.pos]
<1>1. N \in SUBSET S /\ IsFiniteSet(N)
  BY FS_Subset DEF Newer
<1>2. T = {c.pos : c \in N}
  BY DEF Newer, Rolling!Later
<1> HIDE DEF T, N
<1>3. f \in [N -> T] /\ \A c \in N : f[c] = c.pos
  BY <1>2
<1>4. DOMAIN f = N
  OBVIOUS
<1> HIDE DEF f
<1>5. IsInjective(f)
  BY <1>1, <1>3, <1>4 DEF IsInjective
<1>6. \A t \in T : \E c \in N : f[c] = t
  BY <1>2, <1>3
<1>7. f \in Bijection(N, T)
  BY <1>3, <1>5, <1>6 DEF Bijection, Injection, Surjection
<1>8. ExistsBijection(N, T)
  BY <1>7 DEF ExistsBijection
<1> QED
  BY <1>1, <1>8, FS_Bijection DEF T, N

\* Copies of other nodes, and copies without a node, are not seen by a node.
LEMMA CopiesOfOne ==
    ASSUME NEW bs, NEW n \in Nodes
    PROVE  CopiesOf(bs)[n] = {b.pos : b \in for_node(bs, n)}
BY DEF CopiesOf

\* The list of a node after an addition is its newest copies (async_add).
LEMMA AddIsRolling ==
    ASSUME BackupInv, NEW j \in Jobs, async_add(j)
    PROVE  Rolling!RollingNext \/ UNCHANGED Rolling!rollingVars
<1> DEFINE r == NewRecord(j)
           n == jobs[j].node
<1>1. /\ jobs[j] \in Job /\ jobs[j].entry \in Entries
      /\ jobs[j].blob \in 1..MaxMade /\ adds \in Nat
      /\ Sound(backups, adds) /\ Sound(file, adds)
  BY DEF BackupInv, BackupTypeOK, JobOK, async_add
<1>2. r \in Record /\ r.pos = adds + 1 /\ r.node = n /\ n \in NodeIds
  BY <1>1 DEF NewRecord, Record, Job
<1>3. backups' = prune(backups \cup {r}, n) /\ UNCHANGED <<file, durable>>
  BY DEF async_add
<1> HIDE DEF r, n
<1>4. CopiesOf(file)' = CopiesOf(file) /\ CopiesOf(durable)' = CopiesOf(durable)
  BY <1>3 DEF CopiesOf
<1>5. \A m \in Nodes : m # n => for_node(backups', m) = for_node(backups, m)
  BY <1>2, <1>3 DEF for_node, prune
<1>6. CASE n = None
  <2>1. \A m \in Nodes : for_node(backups', m) = for_node(backups, m)
    BY <1>5, <1>6, NodesAreNamed
  <2>2. CopiesOf(backups)' = CopiesOf(backups)
    BY <2>1 DEF CopiesOf
  <2> QED
    BY <1>4, <2>2 DEF Rolling!rollingVars
<1>7. CASE n # None
  <2> DEFINE B == for_node(backups, n)
             S == for_node(backups \cup {r}, n)
             K == {c \in S : Cardinality(Newer(S, c)) < BACKUP_KEEP}
             P == {b.pos : b \in B}
             Q == {b.pos : b \in S}
  <2>0. n \in Nodes
    BY <1>1, <1>2, <1>7, NodesAreNamed DEF Job
  <2>1. S = B \cup {r} /\ B \subseteq backups
    BY <1>2 DEF for_node
  <2>2. for_node(backups', n) = K
    BY <1>3 DEF for_node, prune
  <2>3. /\ \A b \in B : b \in Record /\ b.pos \in Nat /\ b.pos <= adds
        /\ \A b, c \in B : b.pos = c.pos => b = c
    BY <1>1, <2>1 DEF Sound, Record
  <2>4. S \subseteq Record /\ \A b, c \in S : b.pos = c.pos => b = c
    <3> HIDE DEF B, S
    <3> QED
      BY <1>1, <1>2, <2>1, <2>3
  <2>5. IsFiniteSet(S)
    <3>1. S \in SUBSET (backups \cup {r}) /\ IsFiniteSet(backups \cup {r})
      BY <1>1, FS_AddElement DEF Sound, for_node
    <3> QED
      BY <3>1, FS_Subset
  <2>6. \A b \in S : Cardinality(Rolling!Later(Q, b.pos)) = Cardinality(Newer(S, b))
    <3> HIDE DEF S
    <3> QED
      BY <2>4, <2>5, SameRank
  <2>7. {b.pos : b \in K} = Rolling!Newest(Q)
    <3> HIDE DEF S
    <3> QED
      BY <2>6, SameCount DEF Rolling!Newest
  <2>8. Q = P \cup {adds + 1}
    <3> HIDE DEF B, S
    <3> QED
      BY <1>2, <2>1
  <2>9. r \in K
    <3>1. Newer(S, r) = {}
      <4> HIDE DEF B, S
      <4> QED
        BY <1>1, <1>2, <2>1, <2>3 DEF Newer
    <3>2. Cardinality({}) = 0
      BY FS_EmptySet
    <3> QED
      BY <2>1, <3>1, <3>2, KeepIsPositive
  <2> DEFINE w == CopiesOf(backups)
  <2>10. w[n] = P /\ CopiesOf(backups')[n] = {b.pos : b \in K}
    BY <2>0, <2>2, CopiesOfOne
  <2>11. CopiesOf(backups') = [w EXCEPT ![n] = Rolling!Newest(@ \cup {adds + 1})]
    <3>1. CopiesOf(backups')[n] = Rolling!Newest(w[n] \cup {adds + 1})
      <4> HIDE DEF K, P, Q, w
      <4> QED
        BY <2>7, <2>8, <2>10
    <3>2. \A m \in Nodes : m # n => CopiesOf(backups')[m] = w[m]
      BY <1>5, CopiesOfOne
    <3>3. /\ CopiesOf(backups') = [m \in Nodes |-> CopiesOf(backups')[m]]
          /\ w = [m \in Nodes |-> w[m]]
      BY DEF CopiesOf
    <3> HIDE DEF w
    <3> QED
      BY <2>0, <3>1, <3>2, <3>3
  <2>12. adds + 1 \in CopiesOf(backups')[n]
    <3> HIDE DEF K
    <3> QED
      BY <1>2, <2>9, <2>10
  <2>13. \A d \in w[n] \cup CopiesOf(file)[n] : d < adds + 1
    <3>1. \A b \in for_node(file, n) \cup for_node(backups, n) :
             b.pos \in Nat /\ b.pos <= adds
      BY <1>1 DEF Sound, Record, for_node
    <3>2. CopiesOf(file)[n] = {b.pos : b \in for_node(file, n)}
          /\ w[n] = {b.pos : b \in for_node(backups, n)}
      BY <2>0, CopiesOfOne
    <3> HIDE DEF w
    <3> QED
      BY <1>1, <3>1, <3>2
  <2>14. CopiesOf(backups)' = CopiesOf(backups')
    BY DEF CopiesOf
  <2>15. Rolling!Add(n)
    <3> HIDE DEF K, P, Q, B, S
    <3> QED
      BY <1>4, <2>11, <2>12, <2>13, <2>14 DEF Rolling!Add
  <2> QED
    BY <2>0, <2>15 DEF Rolling!RollingNext
<1> QED
  BY <1>6, <1>7

\* A job that is told its copy is stored confirms one copy that is on disk, or
\* one that nobody sees, or one that newer copies have replaced already.
LEMMA SavedIsRolling ==
    ASSUME BackupInv, StoreInv, NEW j \in Jobs, Saved(j)
    PROVE  Rolling!RollingNext \/ UNCHANGED Rolling!rollingVars
<1> DEFINE D == {b \in backups : b.blob = jobs[j].blob}
<1>1. UNCHANGED <<backups, file>> /\ handed = {} /\ durable' = durable \cup D
  BY DEF Saved
<1>2. CopiesOf(backups)' = CopiesOf(backups) /\ CopiesOf(file)' = CopiesOf(file)
      /\ CopiesOf(durable)' = CopiesOf(durable')
  BY <1>1 DEF CopiesOf
<1>3. CASE \A b \in D : b.node \notin Nodes
  <2>1. \A n \in Nodes : for_node(durable', n) = for_node(durable, n)
    BY <1>1, <1>3 DEF for_node
  <2>2. CopiesOf(durable') = CopiesOf(durable)
    BY <2>1 DEF CopiesOf
  <2> QED
    BY <1>2, <2>2 DEF Rolling!rollingVars
<1>4. ASSUME NEW b \in D, b.node \in Nodes
      PROVE  Rolling!RollingNext
  <2> DEFINE n == b.node
             old == CopiesOf(durable)
  <2>1. D = {b}
    BY DEF StoreInv, OneBlobEach
  <2>2. b \in for_node(file, n)
    BY <1>1, <1>4, NodesAreNamed DEF StoreInv, InStep, from_dict, for_node
  <2>3. b.pos \in CopiesOf(file)[n]
    BY <1>4, <2>2, CopiesOfOne
  <2>4. CopiesOf(durable') = [old EXCEPT ![n] = @ \cup {b.pos}]
    <3>1. for_node(durable', n) = for_node(durable, n) \cup {b}
      BY <1>1, <2>1 DEF for_node
    <3>2. \A m \in Nodes : m # n => for_node(durable', m) = for_node(durable, m)
      BY <1>1, <2>1 DEF for_node
    <3>3. CopiesOf(durable')[n] = old[n] \cup {b.pos}
      BY <1>4, <3>1, CopiesOfOne
    <3>4. \A m \in Nodes : m # n => CopiesOf(durable')[m] = old[m]
      BY <3>2, CopiesOfOne
    <3>5. /\ CopiesOf(durable') = [m \in Nodes |-> CopiesOf(durable')[m]]
          /\ old = [m \in Nodes |-> old[m]]
      BY DEF CopiesOf
    <3> HIDE DEF old, n
    <3> QED
      BY <3>3, <3>4, <3>5
  <2>5. Rolling!Confirm(n)
    BY <1>2, <2>3, <2>4 DEF Rolling!Confirm
  <2> QED
    BY <1>4, <2>5 DEF Rolling!RollingNext
<1> QED
  BY <1>3, <1>4

\* Through concurrent jobs, slow writes, unloads and crashes the store is one
\* that keeps each node's newest copies (BackupStore.async_add, _prune,
\* async_save, async_load).
THEOREM StoreImplementsRolling == BackupSpec => StoreIsRolling
<1>1. BackupInit => Rolling!RollingInit
  <2>1. CopiesOf({}) = [n \in Nodes |-> {}]
    BY DEF CopiesOf, for_node
  <2> QED
    BY <2>1 DEF BackupInit, Rolling!RollingInit
<1>2. ASSUME BackupInv, StoreInv, [BackupNext]_vars
      PROVE  [Rolling!RollingNext]_(Rolling!rollingVars)
  <2>1. ASSUME UNCHANGED storeVars PROVE UNCHANGED Rolling!rollingVars
    BY <2>1 DEF storeVars, CopiesOf, Rolling!rollingVars
  <2>2. CASE Write
    <3>1. file' = backups /\ UNCHANGED <<backups, durable>>
      BY <1>2, <2>2 DEF Write, BackupInv
    <3>2. CopiesOf(file)' = CopiesOf(backups) /\ CopiesOf(backups)' = CopiesOf(backups)
          /\ CopiesOf(durable)' = CopiesOf(durable)
      BY <3>1 DEF CopiesOf
    <3> QED
      BY <3>2 DEF Rolling!RollingNext, Rolling!Persist
  <2>3. CASE Restart
    <3>1. backups' = from_dict(file) /\ UNCHANGED <<file, durable>>
      BY <2>3 DEF Restart
    <3>2. \A n \in Nodes : for_node(backups', n) = for_node(file, n)
      BY <3>1, NodesAreNamed DEF for_node, from_dict
    <3>3. CopiesOf(backups)' = CopiesOf(file) /\ CopiesOf(file)' = CopiesOf(file)
          /\ CopiesOf(durable)' = CopiesOf(durable)
      BY <3>1, <3>2 DEF CopiesOf
    <3> QED
      BY <3>3 DEF Rolling!RollingNext, Rolling!Crash
  <2>4. ASSUME NEW j \in Jobs, Created(j) PROVE UNCHANGED storeVars
    BY <2>4 DEF Created
  <2> QED
    BY <1>2, <2>1, <2>2, <2>3, <2>4, JobStepsAreQuiet, AddIsRolling, SavedIsRolling
    DEF BackupNext, EntryStep
<1> QED
  BY <1>1, <1>2, BackupInvariance, StoreInvariance, PTL
  DEF BackupSpec, StoreIsRolling, Rolling!RollingSpec

-----------------------------------------------------------------------------
(* What keeps the disagreements in their place: an entry that is asked before*)
(* its node has a name, and two jobs that hold copies of one node at once.   *)

\* No node is asked for a copy before its entry has learned its name.
AskedByName == \A j \in Jobs : jobs[j].phase = "asking" => jobs[j].node # None

\* Every copy is kept under a name.
CopiesAreNamed ==
    /\ \A j \in Jobs : jobs[j].phase = "dating" => jobs[j].node # None
    /\ \A b \in backups \cup file \cup durable : b.node # None

\* A named copy is kept as one, and only such copies are written, read back and
\* confirmed (async_add, async_load).
LEMMA NamingStep ==
    ASSUME BackupInv, CopiesAreNamed, AskedByName, [BackupNext]_vars
    PROVE  CopiesAreNamed'
<1>0. jobs \in [Jobs -> Job] /\ (handed = {} \/ handed = {backups})
  BY DEF BackupInv, BackupTypeOK
<1>1. ASSUME UNCHANGED storeVars,
             \A i \in Jobs : jobs'[i].phase = "dating" => jobs'[i] = jobs[i]
      PROVE  CopiesAreNamed'
  BY <1>1 DEF storeVars, CopiesAreNamed
<1>2. ASSUME NEW j \in Jobs, Created(j)
      PROVE  CopiesAreNamed'
  <2> DEFINE job == [jobs[j] EXCEPT !.phase = "dating", !.blob = made + 1]
  <2>1. jobs[j] \in Job /\ jobs[j].node # None
    BY <1>0, <1>2 DEF Created, AskedByName
  <2>2. job.node # None
    BY <2>1 DEF Job
  <2>3. jobs' = [jobs EXCEPT ![j] = job] /\ UNCHANGED storeVars
    BY <1>2 DEF Created, Step
  <2> HIDE DEF job
  <2> QED
    BY <1>0, <2>2, <2>3 DEF storeVars, CopiesAreNamed
<1>3. ASSUME NEW j \in Jobs, async_add(j)
      PROVE  CopiesAreNamed'
  <2> DEFINE job == [jobs[j] EXCEPT !.phase = "saving"]
  <2>1. jobs[j] \in Job /\ jobs[j].node # None
    BY <1>0, <1>3 DEF async_add, CopiesAreNamed
  <2>2. job.phase = "saving" /\ NewRecord(j).node # None
    BY <2>1 DEF Job, NewRecord
  <2>3. /\ jobs' = [jobs EXCEPT ![j] = job] /\ UNCHANGED <<file, durable>>
        /\ backups' \subseteq backups \cup {NewRecord(j)}
    BY <1>3 DEF async_add, Step, prune
  <2> HIDE DEF job
  <2> QED
    BY <1>0, <2>2, <2>3 DEF CopiesAreNamed
<1>4. ASSUME NEW j \in Jobs, Saved(j)
      PROVE  CopiesAreNamed'
  <2> DEFINE job == Onward(jobs[j])
  <2>1. jobs[j] \in Job
    BY <1>0
  <2>2. job.phase = "next"
    BY <2>1, OnwardJob
  <2>3. /\ jobs' = [jobs EXCEPT ![j] = job] /\ UNCHANGED <<backups, file>>
        /\ durable' \subseteq durable \cup backups
    BY <1>4 DEF Saved, Step
  <2> HIDE DEF job
  <2> QED
    BY <1>0, <2>2, <2>3 DEF CopiesAreNamed
<1>5. CASE Write
  BY <1>0, <1>5 DEF Write, CopiesAreNamed
<1>6. CASE Restart
  BY <1>6 DEF Restart, from_dict, IdleJob, CopiesAreNamed
<1> QED
  BY <1>1, <1>2, <1>3, <1>4, <1>5, <1>6, JobStepsAreQuiet
  DEF BackupNext, EntryStep

\* "must not lose the copies already kept" (__init__.py async_setup) is true while
\* no node is asked before its entry knows its name: then every copy somebody was
\* told is stored survives, and not only the named ones (_backup_entry).
THEOREM NamedJobsLoseNothing == BackupSpec /\ []AskedByName => []StoredIsDurable
<1>1. BackupInit => CopiesAreNamed
  BY DEF BackupInit, IdleJob, CopiesAreNamed
<1>2. BackupInv /\ CopiesAreNamed /\ AskedByName /\ [BackupNext]_vars => CopiesAreNamed'
  BY NamingStep
<1>3. CopiesAreNamed /\ NamedIsDurable => StoredIsDurable
  BY DEF CopiesAreNamed, NamedIsDurable, StoredIsDurable
<1> QED
  BY <1>1, <1>2, <1>3, BackupInvariance, ConfirmedCopiesSurvive, PTL DEF BackupSpec

\* An MQTT entry has its node's name in its options, so a Home Assistant without
\* direct entries loses no copy it has confirmed (_target_entry_ids,
\* _backup_entry).
THEOREM MqttCopiesAreDurable == Direct = {} => (BackupSpec => []StoredIsDurable)
<1> SUFFICES ASSUME Direct = {} PROVE BackupSpec => []StoredIsDurable
  OBVIOUS
<1>1. BackupInit => AskedByName
  BY DEF BackupInit, IdleJob, AskedByName
<1>2. ASSUME BackupInv, AskedByName, [BackupNext]_vars
      PROVE  AskedByName'
  <2>0. jobs \in [Jobs -> Job] /\ IdleJob.phase = "idle"
    BY <1>2 DEF BackupInv, BackupTypeOK, IdleJob
  <2>1. ASSUME NEW j \in Jobs, NEW job, jobs' = [jobs EXCEPT ![j] = job],
               job.phase = "asking" => job.node # None
        PROVE  AskedByName'
    BY <1>2, <2>0, <2>1 DEF AskedByName
  <2>2. ASSUME NEW j \in Jobs, Start(j)
        PROVE  AskedByName'
    <3>1. PICK kind, todo :
             Step(j, [IdleJob EXCEPT !.phase = "next", !.kind = kind, !.todo = todo])
      BY <2>2 DEF Start
    <3>2. [IdleJob EXCEPT !.phase = "next", !.kind = kind, !.todo = todo].phase = "next"
      BY DEF IdleJob
    <3> QED
      BY <2>1, <3>1, <3>2 DEF Step
  <2>3. ASSUME NEW j \in Jobs, NextEntry(j)
        PROVE  AskedByName'
    <3>1. jobs[j] \in Job /\ jobs[j].phase = "next"
      BY <2>0, <2>3 DEF NextEntry
    <3>2. PICK e \in jobs[j].todo :
            IF e \in loaded
            THEN Step(j, [jobs[j] EXCEPT
                     !.phase = "asking", !.todo = @ \ {e}, !.entry = e,
                     !.node = IF e \in Direct \ known THEN None ELSE NodeOf[e]])
            ELSE Step(j, IF jobs[j].kind = "service" THEN IdleJob
                         ELSE [jobs[j] EXCEPT !.todo = @ \ {e}])
      BY <2>3 DEF NextEntry
    <3>3. e \in Entries
      BY <3>1 DEF Job
    <3>4. NodeOf[e] # None /\ e \notin Direct
      BY <3>3, BackupAssumption
    <3>5. \A n : [jobs[j] EXCEPT !.phase = "asking", !.todo = @ \ {e}, !.entry = e,
                                 !.node = n].node = n
      BY <3>1 DEF Job
    <3>6. [jobs[j] EXCEPT !.todo = @ \ {e}].phase = "next"
      BY <3>1 DEF Job
    <3>7. CASE e \in loaded
      <4> DEFINE job == [jobs[j] EXCEPT !.phase = "asking", !.todo = @ \ {e},
                                        !.entry = e, !.node = NodeOf[e]]
      <4>1. Step(j, job)
        BY <3>2, <3>4, <3>7
      <4>2. job.node = NodeOf[e]
        BY <3>5
      <4> HIDE DEF job
      <4> QED
        BY <2>1, <3>4, <4>1, <4>2 DEF Step
    <3>8. CASE e \notin loaded /\ jobs[j].kind = "service"
      BY <2>0, <2>1, <3>2, <3>8 DEF Step
    <3>9. CASE e \notin loaded /\ jobs[j].kind # "service"
      BY <2>1, <3>2, <3>6, <3>9 DEF Step
    <3> QED
      BY <3>7, <3>8, <3>9
  <2>4. ASSUME NEW j \in Jobs, EndJob(j) \/ Garbage(j)
        PROVE  AskedByName'
    BY <2>0, <2>1, <2>4 DEF EndJob, Garbage, Step
  <2>5. ASSUME NEW j \in Jobs,
               Created(j) \/ async_add(j) \/ Saved(j) \/ TransportError(j)
        PROVE  AskedByName'
    <3>1. jobs[j] \in Job
      BY <2>0
    <3>2. /\ [jobs[j] EXCEPT !.phase = "dating", !.blob = made + 1].phase = "dating"
          /\ [jobs[j] EXCEPT !.phase = "saving"].phase = "saving"
          /\ Onward(jobs[j]).phase = "next"
      BY <3>1, OnwardJob DEF Job
    <3>3. CASE Created(j)
      BY <2>1, <3>2, <3>3 DEF Created, Step
    <3>4. CASE async_add(j)
      BY <2>1, <3>2, <3>4 DEF async_add, Step
    <3>5. CASE Saved(j)
      BY <2>1, <3>2, <3>5 DEF Saved, Step
    <3>6. CASE TransportError(j)
      BY <2>0, <2>1, <3>2, <3>6 DEF TransportError, Step
    <3> QED
      BY <2>5, <3>3, <3>4, <3>5, <3>6
  <2>7. UNCHANGED jobs => AskedByName'
    BY <1>2 DEF AskedByName
  <2>8. Restart => AskedByName'
    BY <2>0 DEF Restart, AskedByName
  <2>9. Write \/ UNCHANGED vars => UNCHANGED jobs
    BY DEF Write, vars
  <2> QED
    BY <1>2, <2>2, <2>3, <2>4, <2>5, <2>7, <2>8, <2>9, EntryStepsAreQuiet
    DEF BackupNext, EntryStep
<1>3. BackupInv /\ AskedByName /\ [BackupNext]_vars => AskedByName'
  BY <1>2
<1> QED
  BY <1>1, <1>3, BackupInvariance, NamedJobsLoseNothing, PTL DEF BackupSpec

\* No two jobs hold a copy of one node that is yet to enter the list.
CopiesTakeTurns ==
    \A i, j \in Jobs :
        /\ jobs[i].phase = "dating" /\ jobs[j].phase = "dating"
        /\ jobs[i].node = jobs[j].node
        => i = j

\* A node's copies are in the order they were made, and one that a job holds is
\* younger than all of them.
AgesInOrder ==
    /\ \A b, c \in backups \cup file :
          b.node = c.node /\ b.pos < c.pos => b.blob < c.blob
    /\ \A j \in Jobs : jobs[j].phase = "dating" =>
          \A b \in backups \cup file : b.node = jobs[j].node => b.blob < jobs[j].blob

\* A copy that enters the list last was made last (async_add).
LEMMA AgeStep ==
    ASSUME BackupInv, StoreInv, AgesInOrder, CopiesTakeTurns, [BackupNext]_vars
    PROVE  AgesInOrder'
<1>0. /\ jobs \in [Jobs -> Job] /\ (handed = {} \/ handed = {backups})
      /\ backups \subseteq Record /\ file \subseteq Record /\ made \in Nat /\ adds \in Nat
      /\ MaxMade \in Nat
  BY BackupAssumption DEF BackupInv, BackupTypeOK
<1>1. \A b \in backups \cup file :
         /\ b.blob \in Nat /\ b.pos \in Nat /\ b.blob <= made /\ b.pos <= adds
  BY <1>0 DEF BackupInv, Sound, StoreInv, OneBlobEach, Record
<1>2. ASSUME UNCHANGED storeVars,
             \A i \in Jobs : jobs'[i].phase = "dating" => jobs'[i] = jobs[i]
      PROVE  AgesInOrder'
  BY <1>2 DEF storeVars, AgesInOrder
<1>3. ASSUME NEW j \in Jobs, Created(j)
      PROVE  AgesInOrder'
  <2> DEFINE job == [jobs[j] EXCEPT !.phase = "dating", !.blob = made + 1]
  <2>1. jobs[j] \in Job
    BY <1>0
  <2>2. job.blob = made + 1
    BY <2>1 DEF Job
  <2>3. jobs' = [jobs EXCEPT ![j] = job] /\ UNCHANGED <<backups, file>>
    BY <1>3 DEF Created, Step, storeVars
  <2> HIDE DEF job
  <2>4. \A i \in Jobs \ {j} : jobs'[i] = jobs[i]
    BY <1>0, <2>3
  <2>5. jobs'[j].blob = made + 1
    BY <1>0, <2>2, <2>3
  <2>6. \A b \in backups \cup file : b.blob < jobs'[j].blob
    BY <1>0, <1>1, <2>5
  <2>7. ASSUME NEW i \in Jobs, jobs'[i].phase = "dating",
               NEW b \in backups \cup file, b.node = jobs'[i].node
        PROVE  b.blob < jobs'[i].blob
    BY <2>4, <2>6, <2>7 DEF AgesInOrder
  <2> QED
    BY <2>3, <2>7 DEF AgesInOrder
<1>4. ASSUME NEW j \in Jobs, async_add(j)
      PROVE  AgesInOrder'
  <2> DEFINE job == [jobs[j] EXCEPT !.phase = "saving"]
             r == NewRecord(j)
  <2>1. jobs[j] \in Job /\ jobs[j].phase = "dating"
    BY <1>0, <1>4 DEF async_add
  <2>2. /\ job.phase = "saving" /\ r.node = jobs[j].node /\ r.blob = jobs[j].blob
        /\ r.pos = adds + 1
    BY <2>1 DEF Job, NewRecord
  <2>3. jobs' = [jobs EXCEPT ![j] = job] /\ UNCHANGED file
        /\ backups' \subseteq backups \cup {r}
    BY <1>4 DEF async_add, Step, prune
  <2> HIDE DEF job, r
  <2>4. ASSUME NEW b \in backups \cup file \cup {r}, NEW c \in backups \cup file \cup {r},
               b.node = c.node, b.pos < c.pos
        PROVE  b.blob < c.blob
    <3>1. CASE b = r
      <4>1. c = r \/ c.pos <= adds
        BY <1>1
      <4> QED
        BY <1>0, <1>1, <2>2, <2>4, <3>1, <4>1
    <3>2. CASE b # r /\ c = r
      BY <2>1, <2>2, <2>4, <3>2 DEF AgesInOrder
    <3>3. CASE b # r /\ c # r
      BY <2>4, <3>3 DEF AgesInOrder
    <3> QED
      BY <3>1, <3>2, <3>3
  <2>5. ASSUME NEW i \in Jobs, jobs'[i].phase = "dating",
               NEW b \in backups \cup file \cup {r}, b.node = jobs'[i].node
        PROVE  b.blob < jobs'[i].blob
    <3>1. i # j /\ jobs'[i] = jobs[i]
      BY <1>0, <2>2, <2>3, <2>5
    <3>2. b # r
      BY <2>1, <2>2, <2>5, <3>1 DEF CopiesTakeTurns
    <3> QED
      BY <2>5, <3>1, <3>2 DEF AgesInOrder
  <2>6. backups' \cup file' \subseteq backups \cup file \cup {r}
    BY <2>3
  <2> QED
    BY <2>4, <2>5, <2>6 DEF AgesInOrder
<1>5. ASSUME NEW j \in Jobs, Saved(j)
      PROVE  AgesInOrder'
  <2> DEFINE job == Onward(jobs[j])
  <2>1. jobs[j] \in Job
    BY <1>0
  <2>2. job.phase = "next"
    BY <2>1, OnwardJob
  <2>3. jobs' = [jobs EXCEPT ![j] = job] /\ UNCHANGED <<backups, file>>
    BY <1>5 DEF Saved, Step
  <2> HIDE DEF job
  <2> QED
    BY <1>0, <2>2, <2>3 DEF AgesInOrder
<1>6. CASE Write
  <2>1. file' = backups /\ UNCHANGED <<backups, jobs>>
    BY <1>0, <1>6 DEF Write
  <2> QED
    BY <2>1 DEF AgesInOrder
<1>7. CASE Restart
  <2>1. backups' \subseteq file /\ file' = file /\ \A i \in Jobs : jobs'[i] = IdleJob
    BY <1>7 DEF Restart, from_dict
  <2> QED
    BY <2>1 DEF AgesInOrder, IdleJob
<1> QED
  BY <1>2, <1>3, <1>4, <1>5, <1>6, <1>7, JobStepsAreQuiet
  DEF BackupNext, EntryStep

\* "The newest few backups per node, newest last" (backup.py) is true while jobs
\* take turns with a node: a copy is out of its place, and restored or dropped in
\* the wrong order, only when two jobs hold copies of one node at once
\* (BackupStore.async_add, latest).
THEOREM TurnsKeepTheOrder == BackupSpec /\ []CopiesTakeTurns => []NewestLast
<1>1. BackupInit => AgesInOrder
  BY DEF BackupInit, IdleJob, AgesInOrder
<1>2. BackupInv /\ StoreInv /\ AgesInOrder /\ CopiesTakeTurns /\ [BackupNext]_vars
        => AgesInOrder'
  BY AgeStep
<1>3. AgesInOrder => NewestLast
  BY DEF AgesInOrder, NewestLast
<1> QED
  BY <1>1, <1>2, <1>3, BackupInvariance, StoreInvariance, PTL DEF BackupSpec

-----------------------------------------------------------------------------
(* What can cut a scheduled run short.                                       *)

\* A job that is not running has nothing to do.
IdleIsDone == \A j \in Jobs : jobs[j].phase = "idle" => jobs[j].todo = {}

\* What becomes of one job in a step that is no restart: it goes on, or it ends,
\* and when it ends with entries left it was a service call or met an answer that
\* nobody catches.
GoesOnOrEnds(j) ==
    \E job : /\ Step(j, job)
             /\ \/ job.phase # "idle"
                \/ /\ job = IdleJob
                   /\ jobs[j].kind = "service" \/ jobs[j].todo = {} \/ Garbage(j)

\* The steps of a job.
LEMMA JobGoesOnOrEnds ==
    ASSUME BackupTypeOK, NEW j \in Jobs,
           \/ Start(j) \/ NextEntry(j) \/ EndJob(j) \/ Created(j) \/ async_add(j)
           \/ Saved(j) \/ TransportError(j) \/ Garbage(j)
    PROVE  GoesOnOrEnds(j)
<1> USE DEF GoesOnOrEnds
<1>1. jobs[j] \in Job
  BY DEF BackupTypeOK
<1>2. /\ \A p \in Phase : [jobs[j] EXCEPT !.phase = p].phase = p
      /\ [jobs[j] EXCEPT !.phase = "dating", !.blob = made + 1].phase = "dating"
      /\ \A T, e, n : [jobs[j] EXCEPT !.phase = "asking", !.todo = T, !.entry = e,
                                      !.node = n].phase = "asking"
      /\ \A T : [jobs[j] EXCEPT !.todo = T].phase = jobs[j].phase
      /\ jobs[j].kind \in Kind
  BY <1>1 DEF Job
<1>3. CASE Start(j)
  <2>1. \A k, T : [IdleJob EXCEPT !.phase = "next", !.kind = k, !.todo = T].phase = "next"
    BY DEF IdleJob
  <2> QED
    BY <1>3, <2>1 DEF Start
<1>4. CASE NextEntry(j)
  <2>1. PICK e \in jobs[j].todo :
          IF e \in loaded
          THEN Step(j, [jobs[j] EXCEPT
                   !.phase = "asking", !.todo = @ \ {e}, !.entry = e,
                   !.node = IF e \in Direct \ known THEN None ELSE NodeOf[e]])
          ELSE Step(j, IF jobs[j].kind = "service" THEN IdleJob
                       ELSE [jobs[j] EXCEPT !.todo = @ \ {e}])
    BY <1>4 DEF NextEntry
  <2> DEFINE asked == [jobs[j] EXCEPT
                         !.phase = "asking", !.todo = @ \ {e}, !.entry = e,
                         !.node = IF e \in Direct \ known THEN None ELSE NodeOf[e]]
             skipped == [jobs[j] EXCEPT !.todo = @ \ {e}]
  <2>2. asked.phase = "asking" /\ skipped.phase = "next"
    BY <1>1, <1>4 DEF NextEntry, Job
  <2>3. \/ Step(j, asked)
        \/ jobs[j].kind = "service" /\ Step(j, IdleJob)
        \/ Step(j, skipped)
    BY <2>1
  <2> HIDE DEF asked, skipped
  <2> QED
    BY <2>2, <2>3
<1>5. CASE EndJob(j)
  BY <1>5 DEF EndJob
<1>6. CASE Created(j)
  BY <1>2, <1>6 DEF Created
<1>7. CASE async_add(j)
  BY <1>2, <1>7 DEF async_add, Phase
<1>8. CASE Saved(j)
  BY <1>1, <1>8, OnwardJob DEF Saved
<1>9. CASE TransportError(j)
  BY <1>1, <1>9, OnwardJob DEF TransportError
<1>10. CASE Garbage(j)
  BY <1>10 DEF Garbage
<1> QED
  BY <1>3, <1>4, <1>5, <1>6, <1>7, <1>8, <1>9, <1>10

\* One step keeps idle jobs without work, and ends no scheduled job that has
\* entries left, but by a restart or by an answer that is not JSON.
LEMMA StepGoesOnOrEnds ==
    ASSUME BackupTypeOK, IdleIsDone, [BackupNext]_vars
    PROVE  /\ IdleIsDone'
           /\ \A j \in Jobs :
                jobs[j].kind = "schedule" /\ jobs'[j].phase = "idle"
                  /\ crashes' = crashes /\ jobs[j].todo # {} => Garbage(j)
<1> USE DEF IdleIsDone
<1>1. jobs \in [Jobs -> Job]
  BY DEF BackupTypeOK
<1>2. IdleJob.phase = "idle" /\ IdleJob.todo = {}
  BY DEF IdleJob
<1>3. ASSUME UNCHANGED jobs
      PROVE  /\ IdleIsDone'
             /\ \A j \in Jobs : jobs'[j].phase = "idle" => jobs[j].todo = {}
  BY <1>3
<1>4. ASSUME NEW i \in Jobs, GoesOnOrEnds(i)
      PROVE  /\ IdleIsDone'
             /\ \A j \in Jobs :
                  jobs[j].kind = "schedule" /\ jobs'[j].phase = "idle"
                    /\ jobs[j].todo # {} => Garbage(j)
  <2>1. PICK job : /\ jobs' = [jobs EXCEPT ![i] = job]
                   /\ \/ job.phase # "idle"
                      \/ /\ job = IdleJob
                         /\ jobs[i].kind = "service" \/ jobs[i].todo = {} \/ Garbage(i)
    BY <1>4 DEF GoesOnOrEnds, Step
  <2>2. jobs'[i] = job /\ \A j \in Jobs \ {i} : jobs'[j] = jobs[j]
    BY <1>1, <2>1
  <2> QED
    BY <1>2, <2>1, <2>2
<1>5. ASSUME Restart
      PROVE  IdleIsDone' /\ crashes' # crashes
  <2>1. \A j \in Jobs : jobs'[j] = IdleJob
    BY <1>5 DEF Restart
  <2>2. crashes' # crashes
    BY <1>5 DEF Restart
  <2> QED
    BY <1>2, <2>1, <2>2
<1>7. Write \/ UNCHANGED vars => UNCHANGED jobs
  BY DEF Write, vars
<1> QED
  BY <1>3, <1>4, <1>5, <1>7, EntryStepsAreQuiet, JobGoesOnOrEnds
  DEF BackupNext, EntryStep

\* "The scheduled run logs and moves on" (backup.py): neither an entry that is
\* unloaded or reloaded in the middle, nor a node that does not answer, nor
\* another job ends a scheduled run before it has been through all its entries.
\* An answer that is not JSON is the one thing that does.
THEOREM OnlyGarbageCutsASchedule ==
    BackupSpec /\ [][\A j \in Jobs : ~Garbage(j)]_vars => ScheduleReachesAll
<1>1. BackupInit => IdleIsDone
  BY DEF BackupInit, IdleIsDone, IdleJob
<1>2. BackupTypeOK /\ IdleIsDone /\ [BackupNext]_vars => IdleIsDone'
  BY StepGoesOnOrEnds
<1>3. BackupTypeOK /\ IdleIsDone /\ [BackupNext]_vars
        /\ [\A j \in Jobs : ~Garbage(j)]_vars
      => [\A j \in Jobs :
            jobs[j].kind = "schedule" /\ jobs'[j].phase = "idle" /\ crashes' = crashes
              => jobs[j].todo = {}]_vars
  BY StepGoesOnOrEnds
<1> QED
  BY <1>1, <1>2, <1>3, BackupTypeCorrect, PTL DEF BackupSpec, ScheduleReachesAll
=============================================================================
