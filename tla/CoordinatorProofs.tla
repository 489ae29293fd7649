-------------------------- MODULE CoordinatorProofs --------------------------
(***************************************************************************)
(* Proofs about Coordinator, for every set of nodes, people and payloads   *)
(* and every order of messages.  The work is in AcceptedShape: whatever    *)
(* message is accepted, one node changes, at most one entry is logged, and *)
(* the entry and the node's mark satisfy what the invariants ask of them.  *)
(***************************************************************************)
EXTENDS Coordinator, TLAPS

\* An entry that the two attribution paths may write about node n.
GoodEntry(e, n) ==
    /\ e \in LogEntry
    /\ e.node = n
    /\ e.source \in DEVICE_INITIATED_SOURCES
    /\ e.actor # e.source => e.source = "homekey" /\ e.stamp # None

Matches(e, key) ==
    /\ e.stamp = key.stamp
    /\ e.current = key.current
    /\ e.source = key.source

\* What an accepted message about node n does: n becomes nd, at most one entry
\* is written, and the mark of nd is the old one or that of the entry.
Shape(out, ns, n, nd) ==
    /\ nd \in Node
    /\ out.nodes = [ns EXCEPT ![n] = nd]
    /\ out.updated = TRUE
    /\ \/ /\ out.logged = <<>>
          /\ nd.attributed_lock_change = ensure_node(ns, n)[n].attributed_lock_change
       \/ \E e \in LogEntry :
             /\ GoodEntry(e, n)
             /\ out.logged = <<e>>
             /\ \/ nd.attributed_lock_change
                     = ensure_node(ns, n)[n].attributed_lock_change
                \/ /\ nd.attributed_lock_change # None
                   /\ Matches(e, nd.attributed_lock_change)

-----------------------------------------------------------------------------
\* The node _ensure_node makes is well typed.
LEMMA NewNodeType == NewNode \in Node
  BY DEF NewNode, Node

\* Ensuring a node keeps the registry well typed (_ensure_node).
LEMMA EnsureType ==
  ASSUME NEW ns \in NodeDict, NEW n \in NodeIds
  PROVE  ensure_node(ns, n)[n] \in Node
  BY NewNodeType DEF ensure_node, NodeDict

\* A handler that only stores a field keeps the mark and logs nothing.
LEMMA UpdatedShape ==
  ASSUME NEW ns \in NodeDict, NEW n \in NodeIds, NEW nd \in Node,
         nd.attributed_lock_change = ensure_node(ns, n)[n].attributed_lock_change
  PROVE  Shape(Updated(ns, n, nd), ns, n, nd)
  BY DEF Shape, Updated

\* Every entry _async_log_lock_cause writes is well typed.
LEMMA EntryType ==
  ASSUME NEW n \in NodeIds, NEW nd \in Node, nd.lock_change # None,
         nd.lock_change.source \in DEVICE_INITIATED_SOURCES
  PROVE  /\ GoodEntry(async_log_lock_cause(n, nd), n)
         /\ Matches(async_log_lock_cause(n, nd), lock_change_key(nd))
         /\ lock_change_key(nd) \in ChangeKey
  <1>1. nd.lock_change \in LockChange
    BY DEF Node
  <1>2. nd.last_auth # None => nd.last_auth \in LastAuth
    BY DEF Node
  <1>3. actor_for(nd, nd.lock_change) \in Source \cup Issuers
    BY <1>1, <1>2 DEF actor_for, LockChange, LastAuth
  <1>4. actor_for(nd, nd.lock_change) # nd.lock_change.source =>
            nd.lock_change.source = "homekey" /\ nd.lock_change.stamp # None
    BY DEF actor_for
  <1>5. async_log_lock_cause(n, nd) \in LogEntry
    BY <1>1, <1>3 DEF async_log_lock_cause, LogEntry, LockChange
  <1>. QED
    BY <1>1, <1>4, <1>5
    DEF async_log_lock_cause, GoodEntry, Matches, lock_change_key, ChangeKey,
        LockChange

-----------------------------------------------------------------------------
\* A status message has the shape (_handle_node_status).
LEMMA StatusShape ==
  ASSUME NEW ns \in NodeDict, NEW m, m.node \in NodeIds, m.body \in BOOLEAN
  PROVE  \E nd \in Node : Shape(handle_node_status(ns, m), ns, m.node, nd)
  <1>. DEFINE old == ensure_node(ns, m.node)[m.node]
              nd == [old EXCEPT !.online = m.body, !.last_seen = TRUE]
  <1>1. old \in Node
    BY EnsureType
  <1>2. nd \in Node /\ nd.attributed_lock_change = old.attributed_lock_change
    BY <1>1 DEF Node
  <1>. QED
    BY <1>2, UpdatedShape DEF handle_node_status

\* A state document has the shape (Node.from_state, _merge_node).
LEMMA StateShape ==
  ASSUME NEW ns \in NodeDict, NEW m, m.node \in NodeIds, m.body \in NodeState
  PROVE  \E nd \in Node : Shape(handle_state(ns, m), ns, m.node, nd)
  <1>. DEFINE old == ensure_node(ns, m.node)[m.node]
              new == merge_node(old.state, m.body)
              nd == [old EXCEPT !.state = new]
  <1>1. old \in Node
    BY EnsureType
  <1>2. new \in NodeState
    BY <1>1 DEF merge_node, Node, NodeState
  <1>3. nd \in Node /\ nd.attributed_lock_change = old.attributed_lock_change
    BY <1>1, <1>2 DEF Node
  <1>4. handle_state(ns, m) = Updated(ns, m.node, nd)
    BY <1>1 DEF handle_state, Node
  <1>. QED
    BY <1>3, <1>4, UpdatedShape

\* A last_auth message has the shape, whatever it is paired with.
LEMMA AuthShape ==
  ASSUME NEW ns \in NodeDict, NEW m, m.node \in NodeIds, m.body \in LastAuth
  PROVE  \E nd \in Node : Shape(handle_last_auth(ns, m), ns, m.node, nd)
  <1>. DEFINE old == ensure_node(ns, m.node)[m.node]
              nd == [old EXCEPT !.last_auth = m.body]
  <1>1. old \in Node
    BY EnsureType
  <1>2. nd \in Node /\ nd.attributed_lock_change = old.attributed_lock_change
    BY <1>1 DEF Node
  <1>. QED
    BY <1>2, UpdatedShape DEF handle_last_auth

\* A stored report has the shape (_handle_security, _handle_backup_status).
LEMMA ReportShape ==
  ASSUME NEW ns \in NodeDict, NEW m, m.node \in NodeIds,
         m.topic \in ReportTopics, m.body \in ReportValues
  PROVE  \E nd \in Node : Shape(handle_report(ns, m), ns, m.node, nd)
  <1>. DEFINE old == ensure_node(ns, m.node)[m.node]
              nd == [old EXCEPT !.reports[m.topic] = m.body]
  <1>1. old \in Node
    BY EnsureType
  <1>2. [old.reports EXCEPT ![m.topic] = m.body]
            \in [ReportTopics -> ReportValues \cup {None}]
    BY <1>1 DEF Node
  <1>3. nd \in Node /\ nd.attributed_lock_change = old.attributed_lock_change
    BY <1>1, <1>2 DEF Node
  <1>. QED
    BY <1>3, UpdatedShape DEF handle_report

\* A health snapshot has the shape (_attribute_lock_change).
LEMMA HealthShape ==
  ASSUME NEW ns \in NodeDict, NEW m, m.node \in NodeIds, m.body \in Health
  PROVE  \E nd \in Node : Shape(handle_health(ns, m), ns, m.node, nd)
  <1>. DEFINE old == ensure_node(ns, m.node)[m.node]
              previous == IF old.health = None THEN None ELSE old.health.current
              nd == take_snapshot(old, m.body)
              news == attribute_lock_change(nd, previous)
              e == async_log_lock_cause(m.node, nd)
  <1>1. old \in Node
    BY EnsureType
  <1>2. nd \in Node /\ nd.attributed_lock_change = old.attributed_lock_change
    BY <1>1 DEF take_snapshot, Node
  <1>3. handle_health(ns, m) = Logging(Updated(ns, m.node, nd), m.node, nd, news)
    BY DEF handle_health
  <1>. HIDE DEF nd, news, old, previous
  <1>4. CASE news
    <2>1. GoodEntry(e, m.node)
      BY <1>2, <1>4, EntryType DEF attribute_lock_change, news
    <2>. QED
      BY <1>2, <1>3, <1>4, <2>1 DEF Shape, Logging, Updated, GoodEntry, old
  <1>5. CASE ~news
    BY <1>2, <1>3, <1>5 DEF Shape, Logging, Updated, old
  <1>. QED
    BY <1>4, <1>5

\* A lock event has the shape, and its mark comes with its entry
\* (_attribute_lock_event).
LEMMA LockLastShape ==
  ASSUME NEW ns \in NodeDict, NEW m, m.node \in NodeIds,
         m.body \in LockChange, m.body # None, NEW hz
  PROVE  \E nd \in Node : Shape(handle_lock_last(ns, m, hz), ns, m.node, nd)
  <1>. DEFINE old == ensure_node(ns, m.node)[m.node]
              nd == take_event(old, m.body)
              news == attribute_lock_event(nd, hz)
              e == async_log_lock_cause(m.node, nd)
              marked == mark_attributed(nd, news)
  <1>1. old \in Node
    BY EnsureType
  <1>2. /\ nd \in Node
        /\ nd.attributed_lock_change = old.attributed_lock_change
        /\ nd.lock_change # None
    BY <1>1 DEF take_event, Node
  <1>3. handle_lock_last(ns, m, hz)
          = Logging(Updated(ns, m.node, marked), m.node, nd, news)
    BY DEF handle_lock_last
  <1>. HIDE DEF nd, news, old
  <1>4. CASE news
    <2>1. /\ GoodEntry(e, m.node)
          /\ Matches(e, lock_change_key(nd))
          /\ lock_change_key(nd) \in ChangeKey
      BY <1>2, <1>4, EntryType DEF attribute_lock_event, news
    <2>2. /\ marked \in Node
          /\ marked.attributed_lock_change = lock_change_key(nd)
      BY <1>2, <1>4, <2>1 DEF mark_attributed, Node
    <2>3. lock_change_key(nd) # None
      BY <2>1, KeyAssumption
    <2>. HIDE DEF marked, e
    <2>4. e \in LogEntry
      BY <2>1 DEF GoodEntry
    <2>5. Logging(Updated(ns, m.node, marked), m.node, nd, news).logged = <<e>>
      BY <1>4 DEF Logging, Updated, e
    <2>. QED
      BY <1>3, <2>1, <2>2, <2>3, <2>4, <2>5 DEF Shape, Logging, Updated
  <1>5. CASE ~news
    <2>1. marked = nd
      BY <1>5 DEF mark_attributed
    <2>. QED
      BY <1>2, <1>3, <1>5, <2>1 DEF Shape, Logging, Updated, old
  <1>. QED
    BY <1>4, <1>5

\* A legacy status has the shape (_handle_legacy_status).
LEMMA LegacyShape ==
  ASSUME NEW ns \in NodeDict, NEW m, m.node \in NodeIds, m.body \in BOOLEAN
  PROVE  \/ /\ handle_legacy_status(ns, m).nodes = ns
            /\ handle_legacy_status(ns, m).updated = TRUE
            /\ handle_legacy_status(ns, m).logged = <<>>
         \/ \E nd \in Node : Shape(handle_legacy_status(ns, m), ns, m.node, nd)
  <1>1. CASE ns[m.node] = None
    BY <1>1 DEF handle_legacy_status
  <1>2. CASE ns[m.node] # None
    <2>. DEFINE old == ns[m.node]
                nd == [old EXCEPT !.lwt_online = m.body,
                                  !.last_seen = @ \/ m.body]
    <2>1. old \in Node /\ ensure_node(ns, m.node)[m.node] = old
      BY <1>2 DEF NodeDict, ensure_node
    <2>2. (old.last_seen \/ m.body) \in BOOLEAN
      OBVIOUS
    <2>3. nd \in Node /\ nd.attributed_lock_change = old.attributed_lock_change
      BY <2>1, <2>2 DEF Node
    <2>4. handle_legacy_status(ns, m) = Updated(ns, m.node, nd)
      BY <1>2 DEF handle_legacy_status
    <2>. QED
      BY <2>1, <2>3, <2>4, UpdatedShape
  <1>. QED
    BY <1>1, <1>2

\* Every accepted message has the shape, or is a will for an unknown node.
LEMMA AcceptedShape ==
  ASSUME NEW ns \in NodeDict, NEW t \in AllTopics, NEW m \in Message(t),
         m.form = "ok", NEW hz
  PROVE  \/ /\ dispatch(ns, m, hz).nodes = ns
            /\ dispatch(ns, m, hz).updated = TRUE
            /\ dispatch(ns, m, hz).logged = <<>>
         \/ \E nd \in Node : Shape(dispatch(ns, m, hz), ns, m.node, nd)
  <1>1. m.topic = t /\ m.node \in NodeIds /\ m.body \in Body(t)
    BY DEF Message
  <1>2. CASE t = "legacy_status"
    <2>1. m.body \in BOOLEAN
      BY <1>1, <1>2 DEF Body
    <2>2. dispatch(ns, m, hz) = handle_legacy_status(ns, m)
      BY <1>1, <1>2 DEF dispatch, ReportTopics
    <2>. QED
      BY <1>1, <2>1, <2>2, LegacyShape
  <1>3. CASE t = "status"
    <2>1. m.body \in BOOLEAN
      BY <1>1, <1>3 DEF Body
    <2>2. dispatch(ns, m, hz) = handle_node_status(ns, m)
      BY <1>1, <1>3 DEF dispatch, ReportTopics
    <2>. QED
      BY <1>1, <2>1, <2>2, StatusShape
  <1>4. CASE t = "state"
    <2>1. m.body \in NodeState
      BY <1>1, <1>4 DEF Body
    <2>2. dispatch(ns, m, hz) = handle_state(ns, m)
      BY <1>1, <1>4 DEF dispatch, ReportTopics
    <2>. QED
      BY <1>1, <2>1, <2>2, StateShape
  <1>5. CASE t = "health"
    <2>1. m.body \in Health
      BY <1>1, <1>5 DEF Body
    <2>2. dispatch(ns, m, hz) = handle_health(ns, m)
      BY <1>1, <1>5 DEF dispatch, ReportTopics
    <2>. QED
      BY <1>1, <2>1, <2>2, HealthShape
  <1>6. CASE t = "lock/last"
    <2>1. m.body \in LockChange /\ m.body # None
      BY <1>1, <1>6, KeyAssumption DEF Body
    <2>2. dispatch(ns, m, hz) = handle_lock_last(ns, m, hz)
      BY <1>1, <1>6 DEF dispatch, ReportTopics
    <2>. QED
      BY <1>1, <2>1, <2>2, LockLastShape
  <1>7. CASE t = "last_auth"
    <2>1. m.body \in LastAuth
      BY <1>1, <1>7 DEF Body
    <2>2. dispatch(ns, m, hz) = handle_last_auth(ns, m)
      BY <1>1, <1>7 DEF dispatch, ReportTopics
    <2>. QED
      BY <1>1, <2>1, <2>2, AuthShape
  <1>8. CASE t \in ReportTopics
    <2>1. m.body \in ReportValues
      BY <1>1, <1>8 DEF Body, ReportTopics
    <2>2. dispatch(ns, m, hz) = handle_report(ns, m)
      BY <1>1, <1>8 DEF dispatch, ReportTopics
    <2>. QED
      BY <1>1, <1>8, <2>1, <2>2, ReportShape
  <1>. QED
    BY <1>2, <1>3, <1>4, <1>5, <1>6, <1>7, <1>8 DEF AllTopics

-----------------------------------------------------------------------------
(* Handle as an operator on the coordinator's state, for the transports.     *)

\* The coordinator's state as Handle takes and returns it.
CoordRecord == [nodes : NodeDict, pool : NodeDict, entities : SUBSET NodeIds,
                log : Seq(LogEntry)]

\* An update is pooled and pushed to the entities.
Pushed(c, out) == [nodes |-> out.nodes, pool |-> out.nodes,
                   entities |-> add_new_nodes(out.nodes),
                   log |-> c.log \o out.logged]

\* What an update does to the coordinator's state (async_handle_message).
LEMMA HandleUpdates ==
  ASSUME NEW c, NEW m, NEW hz, m.form # "foreign",
         dispatch(c.nodes, m, hz).updated = TRUE
  PROVE  Handle(c, m, hz) = Pushed(c, dispatch(c.nodes, m, hz))
  BY Zenon DEF Handle, Pushed

\* Handling one message that is accepted keeps the coordinator's state well
\* typed (async_handle_message).
LEMMA HandleType ==
  ASSUME NEW c \in CoordRecord, NEW t \in AllTopics, NEW m \in Message(t),
         m.form = "ok", NEW hz
  PROVE  Handle(c, m, hz) \in CoordRecord
  <1>. DEFINE out == dispatch(c.nodes, m, hz)
  <1>1. m.node \in NodeIds
    BY DEF Message
  <1>2. c.nodes \in NodeDict /\ c.log \in Seq(LogEntry)
    BY DEF CoordRecord
  <1>3. \/ out.nodes = c.nodes /\ out.updated = TRUE /\ out.logged = <<>>
        \/ \E nd \in Node : Shape(out, c.nodes, m.node, nd)
    BY <1>1, <1>2, AcceptedShape
  <1>. HIDE DEF out
  <1>4. out.updated = TRUE
    BY <1>3 DEF Shape
  <1>5. out.nodes \in NodeDict
    BY <1>1, <1>2, <1>3 DEF Shape, NodeDict
  <1>6. out.logged = <<>> \/ \E e \in LogEntry : out.logged = <<e>>
    BY <1>3 DEF Shape
  <1>7. c.log \o out.logged \in Seq(LogEntry)
    <2>1. CASE out.logged = <<>>
      BY <1>2, <2>1
    <2>2. ASSUME NEW e \in LogEntry, out.logged = <<e>>
          PROVE  c.log \o out.logged \in Seq(LogEntry)
      BY <1>2, <2>2
    <2>. QED
      BY <1>6, <2>1, <2>2
  <1>8. Handle(c, m, hz) = Pushed(c, out)
    BY <1>4, HandleUpdates DEF out
  <1>9. add_new_nodes(out.nodes) \in SUBSET NodeIds
    BY DEF add_new_nodes
  <1>. QED
    BY <1>5, <1>7, <1>8, <1>9 DEF CoordRecord, Pushed

\* A status message decides whether its node is online (_handle_node_status).
LEMMA StatusIsShown ==
  ASSUME NEW c \in CoordRecord, NEW m \in Message("status"), m.form = "ok", NEW hz
  PROVE  Handle(c, m, hz).nodes[m.node].online = m.body
  <1>. DEFINE old == ensure_node(c.nodes, m.node)[m.node]
              nd == [old EXCEPT !.online = m.body, !.last_seen = TRUE]
              out == dispatch(c.nodes, m, hz)
  <1>1. c.nodes \in NodeDict /\ m.node \in NodeIds /\ m.topic = "status"
    BY DEF CoordRecord, Message
  <1>2. old \in Node
    BY <1>1, EnsureType
  <1>3. nd.online = m.body
    BY <1>2 DEF Node
  <1>4. out = handle_node_status(c.nodes, m)
    BY <1>1 DEF dispatch, ReportTopics
  <1>5. out = Updated(c.nodes, m.node, nd)
    BY <1>4 DEF handle_node_status
  <1>. HIDE DEF nd, out
  <1>6. out.updated = TRUE /\ out.nodes = [c.nodes EXCEPT ![m.node] = nd]
    BY <1>5 DEF Updated
  <1>7. Handle(c, m, hz) = Pushed(c, out)
    BY <1>6, HandleUpdates DEF out
  <1>8. Handle(c, m, hz).nodes = out.nodes
    BY <1>7 DEF Pushed
  <1>. QED
    BY <1>1, <1>3, <1>6, <1>8 DEF NodeDict

-----------------------------------------------------------------------------
(* The invariant, one conjunct per theorem; the type and the log's contents  *)
(* are needed by the mark.                                                   *)

CoordInv ==
    /\ CoordTypeOK
    /\ PoolIsCurrent
    /\ MarkedIsAttributed
    /\ LogClaimsOnlyDeviceChanges

\* The invariant holds when the coordinator starts.
LEMMA InitInv == CoordInit => CoordInv
  BY StampAssumption, LogbookAssumption
  DEF CoordInit, CoordInv, CoordTypeOK, PoolIsCurrent, MarkedIsAttributed, CauseAt,
      LogClaimsOnlyDeviceChanges, Blank, NodeDict

\* A rejected message: at most an empty node appears.
LEMMA RejectKeepsInv ==
  ASSUME CoordInv, NEW t \in AllTopics, NEW m \in Message(t), m.form # "ok",
         async_handle_message(m)
  PROVE  CoordInv'
  <1>1. m.node \in NodeIds
    BY DEF Message
  <1>2. /\ nodes' = nodes \/ nodes' = ensure_node(nodes, m.node)
        /\ UNCHANGED <<pool, entities, log, logbook, horizon>>
    BY DEF async_handle_message, Become, Handle, dispatch, Rejected, reject,
           CoordState
  <1>3. \/ UNCHANGED nodes
        \/ nodes[m.node] = None /\ nodes' = [nodes EXCEPT ![m.node] = NewNode]
    BY <1>2 DEF ensure_node
  <1>4. CASE UNCHANGED nodes
    BY <1>2, <1>4 DEF CoordInv, CoordTypeOK, PoolIsCurrent, MarkedIsAttributed,
                      CauseAt, LogClaimsOnlyDeviceChanges
  <1>5. CASE nodes[m.node] = None /\ nodes' = [nodes EXCEPT ![m.node] = NewNode]
    <2>1. nodes' \in NodeDict
      BY <1>1, <1>5, NewNodeType DEF CoordInv, CoordTypeOK, NodeDict
    <2>2. CoordTypeOK'
      BY <1>2, <2>1 DEF CoordInv, CoordTypeOK
    <2>3. \A n \in NodeIds : n # m.node => nodes'[n] = nodes[n]
      BY <1>5 DEF CoordInv, CoordTypeOK, NodeDict
    <2>4. nodes'[m.node] = NewNode
      BY <1>1, <1>5 DEF CoordInv, CoordTypeOK, NodeDict
    <2>5. pool[m.node] \in {None, NewNode}
      BY <1>1, <1>5 DEF CoordInv, PoolIsCurrent
    <2>6. PoolIsCurrent'
      BY <1>2, <2>3, <2>4, <2>5 DEF CoordInv, PoolIsCurrent
    <2>7. NewNode.attributed_lock_change = None
      BY DEF NewNode
    <2>8. MarkedIsAttributed'
      BY <1>2, <2>3, <2>4, <2>7 DEF CoordInv, MarkedIsAttributed, CauseAt
    <2>9. LogClaimsOnlyDeviceChanges'
      BY <1>2 DEF CoordInv, LogClaimsOnlyDeviceChanges
    <2>. QED
      BY <2>2, <2>6, <2>8, <2>9 DEF CoordInv
  <1>. QED
    BY <1>3, <1>4, <1>5

\* CoordInv of the state as one record, for the transports' steps of several
\* messages.
Pooled(c) ==
    \A n \in NodeIds : \/ c.pool[n] = c.nodes[n]
                       \/ c.pool[n] = None /\ c.nodes[n] = NewNode

MarksStand(ns, lg) ==
    \A n \in NodeIds : ns[n] # None /\ ns[n].attributed_lock_change # None =>
        \E i \in DOMAIN lg : lg[i].node = n
                               /\ Matches(lg[i], ns[n].attributed_lock_change)

Honest(lg) ==
    \A i \in DOMAIN lg :
        /\ lg[i].source \in DEVICE_INITIATED_SOURCES
        /\ lg[i].actor # lg[i].source => lg[i].source = "homekey" /\ lg[i].stamp # None

GoodRecord == {c \in CoordRecord : Pooled(c) /\ MarksStand(c.nodes, c.log) /\ Honest(c.log)}

\* The two say the same.
LEMMA InvOfRecord ==
  CoordInv <=> CoordState \in GoodRecord /\ logbook \in Logbook /\ horizon \in 0..MaxStamp
  BY DEF CoordInv, CoordTypeOK, PoolIsCurrent, MarkedIsAttributed, CauseAt, Matches,
         LogClaimsOnlyDeviceChanges, GoodRecord, CoordRecord, CoordState, Pooled,
         MarksStand, Honest

\* Becoming a good state is keeping the invariant.
LEMMA BecomeKeepsInv ==
  ASSUME NEW c \in GoodRecord, Become(c), logbook' \in Logbook, horizon' \in 0..MaxStamp
  PROVE  CoordInv'
  BY DEF CoordInv, CoordTypeOK, PoolIsCurrent, MarkedIsAttributed, CauseAt, Matches, Become,
         LogClaimsOnlyDeviceChanges, GoodRecord, CoordRecord, Pooled, MarksStand, Honest

\* So does leaving all but the logbook and the clock alone.
LEMMA StillKeepsInv ==
  ASSUME CoordInv, UNCHANGED <<nodes, pool, entities, log>>, logbook' \in Logbook,
         horizon' \in 0..MaxStamp
  PROVE  CoordInv'
  BY DEF CoordInv, CoordTypeOK, PoolIsCurrent, MarkedIsAttributed, CauseAt,
         LogClaimsOnlyDeviceChanges

\* A node that changes keeps its mark or gets that of the entry which is written.
LEMMA ShapeIsAnnounced ==
  ASSUME NEW ns \in NodeDict, NEW lg \in Seq(LogEntry), NEW n \in NodeIds, NEW out,
         NEW nd \in Node, Shape(out, ns, n, nd), MarksStand(ns, lg), Honest(lg)
  PROVE  MarksStand(out.nodes, lg \o out.logged) /\ Honest(lg \o out.logged)
  <1>. DEFINE mark == nd.attributed_lock_change
              before == ensure_node(ns, n)[n].attributed_lock_change
              longer == lg \o out.logged
  <1>1. /\ out.nodes[n] = nd
        /\ \A k \in NodeIds : k # n => out.nodes[k] = ns[k]
    BY DEF Shape, NodeDict
  <1>2. before # None => ns[n] # None /\ ns[n].attributed_lock_change = before
    BY DEF ensure_node, NodeDict, NewNode
  <1>. HIDE DEF mark, before
  <1>3. CASE out.logged = <<>> /\ mark = before
    <2>1. longer = lg
      BY <1>3
    <2>. QED
      BY <1>1, <1>2, <1>3, <2>1 DEF MarksStand, mark
  <1>4. ASSUME NEW e \in LogEntry, GoodEntry(e, n), out.logged = <<e>>,
               mark = before \/ (mark # None /\ Matches(e, mark))
        PROVE  MarksStand(out.nodes, longer) /\ Honest(longer)
    <2>1. longer = Append(lg, e)
      BY <1>4
    <2>. HIDE DEF longer
    <2>2. /\ DOMAIN longer = DOMAIN lg \cup {Len(lg) + 1}
          /\ \A i \in DOMAIN lg : longer[i] = lg[i]
          /\ longer[Len(lg) + 1] = e
      BY <2>1
    <2>3. Honest(longer)
      BY <1>4, <2>2 DEF Honest, GoodEntry
    <2>4. ASSUME NEW k \in NodeIds, out.nodes[k] # None,
                 out.nodes[k].attributed_lock_change # None
          PROVE  \E i \in DOMAIN longer :
                    longer[i].node = k
                      /\ Matches(longer[i], out.nodes[k].attributed_lock_change)
      <3>1. CASE k # n
        BY <1>1, <2>2, <2>4, <3>1 DEF MarksStand
      <3>2. CASE k = n /\ mark = before
        BY <1>1, <1>2, <2>2, <2>4, <3>2 DEF MarksStand, mark
      <3>3. CASE k = n /\ Matches(e, mark)
        BY <1>1, <1>4, <2>2, <3>3 DEF mark, GoodEntry
      <3>. QED
        BY <1>4, <3>1, <3>2, <3>3
    <2>. QED
      BY <2>3, <2>4 DEF MarksStand
  <1>. QED
    BY <1>3, <1>4 DEF Shape, mark, before

\* Handling a message that is accepted keeps a good state good
\* (async_handle_message).
LEMMA HandleIsGood ==
  ASSUME NEW c \in GoodRecord, NEW t \in AllTopics, NEW m \in Message(t),
         m.form = "ok", NEW hz
  PROVE  Handle(c, m, hz) \in GoodRecord
  <1>. DEFINE out == dispatch(c.nodes, m, hz)
  <1>1. /\ m.node \in NodeIds /\ c \in CoordRecord
        /\ c.nodes \in NodeDict /\ c.log \in Seq(LogEntry)
    BY DEF Message, GoodRecord, CoordRecord
  <1>2. \/ out.nodes = c.nodes /\ out.updated = TRUE /\ out.logged = <<>>
        \/ \E nd \in Node : Shape(out, c.nodes, m.node, nd)
    BY <1>1, AcceptedShape
  <1>. HIDE DEF out
  <1>3. Handle(c, m, hz) = Pushed(c, out)
    BY <1>2, HandleUpdates DEF out, Shape
  <1>4. MarksStand(c.nodes, c.log) /\ Honest(c.log)
    BY DEF GoodRecord
  <1>5. MarksStand(out.nodes, c.log \o out.logged) /\ Honest(c.log \o out.logged)
    <2>1. CASE out.nodes = c.nodes /\ out.logged = <<>>
      <3>1. c.log \o out.logged = c.log
        BY <1>1, <2>1
      <3>. QED
        BY <1>4, <2>1, <3>1
    <2>2. CASE \E nd \in Node : Shape(out, c.nodes, m.node, nd)
      BY <1>1, <1>4, <2>2, ShapeIsAnnounced
    <2>. QED
      BY <1>2, <2>1, <2>2
  <1>6. Pushed(c, out) \in CoordRecord
    BY <1>1, <1>3, HandleType
  <1>7. /\ Pushed(c, out).nodes = out.nodes /\ Pushed(c, out).pool = out.nodes
        /\ Pushed(c, out).log = c.log \o out.logged
    BY DEF Pushed
  <1>8. Pooled(Pushed(c, out))
    BY <1>7 DEF Pooled
  <1>. QED
    BY <1>3, <1>5, <1>6, <1>7, <1>8 DEF GoodRecord

\* An accepted message keeps the invariant (_dispatch).
LEMMA AcceptKeepsInv ==
  ASSUME CoordInv, NEW t \in AllTopics, NEW m \in Message(t), m.form = "ok",
         async_handle_message(m)
  PROVE  CoordInv'
  <1>1. CoordState \in GoodRecord /\ logbook \in Logbook /\ horizon \in 0..MaxStamp
    BY InvOfRecord
  <1>2. Handle(CoordState, m, horizon) \in GoodRecord
    BY <1>1, HandleIsGood
  <1>3. /\ Become(Handle(CoordState, m, horizon))
        /\ logbook' = logbook /\ horizon' = horizon
    BY DEF async_handle_message
  <1>. QED
    BY <1>1, <1>2, <1>3, BecomeKeepsInv

\* Every step keeps the invariant.
LEMMA StepKeepsInv == CoordInv /\ [CoordNext]_coordVars => CoordInv'
  <1>. SUFFICES ASSUME CoordInv, [CoordNext]_coordVars
                PROVE  CoordInv'
    OBVIOUS
  <1>1. CASE Receive
    <2>1. PICK t \in Topics : \E m \in Message(t) : async_handle_message(m)
      BY <1>1 DEF Receive
    <2>2. PICK m \in Message(t) : async_handle_message(m)
      BY <2>1
    <2>3. t \in AllTopics
      BY TopicAssumption
    <2>. QED
      BY <2>2, <2>3, RejectKeepsInv, AcceptKeepsInv
  <1>2. CASE TimePasses
    BY <1>2, StampAssumption, StillKeepsInv DEF TimePasses, CoordInv, CoordTypeOK
  <1>3. CASE LogbookChanges
    BY <1>3, StillKeepsInv DEF LogbookChanges, CoordInv, CoordTypeOK
  <1>4. CASE UNCHANGED coordVars
    BY <1>4, StillKeepsInv DEF coordVars, CoordInv, CoordTypeOK
  <1>. QED
    BY <1>1, <1>2, <1>3, <1>4 DEF CoordNext

\* The strengthened invariant holds of every run.
LEMMA CoordInvariance == CoordSpec => []CoordInv
  BY InitInv, StepKeepsInv, PTL DEF CoordSpec

-----------------------------------------------------------------------------
\* The coordinator stays well typed under any messages (coordinator.py
\* async_handle_message, _dispatch).
THEOREM CoordTypeCorrect == CoordSpec => []CoordTypeOK
  BY CoordInvariance, PTL DEF CoordInv

\* The pool is never behind the node dictionary, and a rejected payload never
\* changes a node that is known (_dispatch, _pool_state).
THEOREM PoolStaysCurrent == CoordSpec => []PoolIsCurrent
  BY CoordInvariance, PTL DEF CoordInv

\* A de-duplication mark always stands for a cause the logbook was given, over
\* readings it refused to describe (_attribute_lock_event).
THEOREM MarksAreAttributed == CoordSpec => []MarkedIsAttributed
  BY CoordInvariance, PTL DEF CoordInv

\* Home Assistant's own changes are never claimed for the device, and a person
\* is only named for a stamped tap (_attribute_lock_change, _actor_for).
THEOREM LogIsHonest == CoordSpec => []LogClaimsOnlyDeviceChanges
  BY CoordInvariance, PTL DEF CoordInv

-----------------------------------------------------------------------------
(* What keeps a disagreement in its place.                                   *)

\* A node of which nothing is known appears because a health or lock/last payload
\* about it did not pass validation, and only if it was unknown.
LeftByReject(n) ==
    /\ nodes[n] = None
    /\ \E t \in Topics \cap {"health", "lock/last"} : \E m \in Message(t) :
          m.node = n /\ m.form = "invalid" /\ async_handle_message(m)

\* What an accepted payload stores is not what a new node has (_handle_health and
\* the other branches of _dispatch).
LEMMA AcceptedIsStored ==
  ASSUME NEW ns \in NodeDict, NEW t \in AllTopics, NEW m \in Message(t),
         m.form = "ok", NEW hz
  PROVE  /\ \/ dispatch(ns, m, hz).nodes = ns
            \/ dispatch(ns, m, hz).nodes[m.node] # NewNode
         /\ \A k \in NodeIds \ {m.node} : dispatch(ns, m, hz).nodes[k] = ns[k]
  <1>. DEFINE out == dispatch(ns, m, hz)
              old == ensure_node(ns, m.node)[m.node]
  <1>1. m.topic = t /\ m.node \in NodeIds /\ m.body \in Body(t) /\ old \in Node
    BY EnsureType DEF Message
  <1>2. ASSUME NEW nd, out.nodes = [ns EXCEPT ![m.node] = nd], nd # NewNode
        PROVE  /\ out.nodes[m.node] # NewNode
               /\ \A k \in NodeIds \ {m.node} : out.nodes[k] = ns[k]
    <2>. HIDE DEF out
    <2>. QED
      BY <1>1, <1>2 DEF NodeDict
  <1>3. CASE t = "legacy_status"
    <2>. DEFINE nd == [ns[m.node] EXCEPT !.lwt_online = m.body,
                                         !.last_seen = @ \/ m.body]
    <2>1. m.body \in BOOLEAN /\ out = handle_legacy_status(ns, m)
      BY <1>1, <1>3 DEF Body, dispatch, ReportTopics
    <2>2. CASE ns[m.node] = None
      BY <2>1, <2>2 DEF handle_legacy_status
    <2>3. CASE ns[m.node] # None
      <3>1. ns[m.node] \in Node
        BY <1>1, <2>3 DEF NodeDict
      <3>2. nd.lwt_online = m.body
        BY <3>1 DEF Node
      <3>3. nd # NewNode
        BY <2>1, <3>2, NoneAssumption DEF NewNode
      <3>4. out = Updated(ns, m.node, nd)
        BY <2>1, <2>3 DEF handle_legacy_status
      <3>5. out.nodes = [ns EXCEPT ![m.node] = nd]
        BY <3>4 DEF Updated
      <3>. HIDE DEF nd, out
      <3>. QED
        BY <1>2, <3>3, <3>5 DEF out
    <2>. QED
      BY <2>2, <2>3
  <1>4. CASE t = "status"
    <2>. DEFINE nd == [old EXCEPT !.online = m.body, !.last_seen = TRUE]
    <2>1. nd.last_seen = TRUE
      BY <1>1 DEF Node
    <2>2. nd # NewNode
      BY <2>1 DEF NewNode
    <2>3. out = handle_node_status(ns, m)
      BY <1>1, <1>4 DEF dispatch, ReportTopics
    <2>4. out.nodes = [ns EXCEPT ![m.node] = nd]
      BY <2>3 DEF handle_node_status, Updated
    <2>. HIDE DEF nd, out
    <2>. QED
      BY <1>2, <2>2, <2>4 DEF out
  <1>5. CASE t = "state"
    <2>. DEFINE new == merge_node(old.state, m.body)
                nd == [old EXCEPT !.state = new]
    <2>1. m.body \in NodeState /\ out = handle_state(ns, m)
      BY <1>1, <1>5 DEF Body, dispatch, ReportTopics
    <2>2. new \in NodeState
      BY <1>1, <2>1 DEF merge_node, Node, NodeState
    <2>3. nd.state = new
      BY <1>1 DEF Node
    <2>4. nd # NewNode
      BY <2>2, <2>3, NoneAssumption DEF NewNode
    <2>5. out = Updated(ns, m.node, nd)
      BY <1>1, <2>1 DEF handle_state, Node
    <2>6. out.nodes = [ns EXCEPT ![m.node] = nd]
      BY <2>5 DEF Updated
    <2>. HIDE DEF nd, out
    <2>. QED
      BY <1>2, <2>4, <2>6 DEF out
  <1>6. CASE t = "health"
    <2>. DEFINE nd == take_snapshot(old, m.body)
    <2>1. m.body \in Health /\ out = handle_health(ns, m)
      BY <1>1, <1>6 DEF Body, dispatch, ReportTopics
    <2>2. nd.health = m.body
      BY <1>1 DEF take_snapshot, Node
    <2>3. nd # NewNode
      BY <2>1, <2>2, KeyAssumption DEF NewNode
    <2>4. out.nodes = [ns EXCEPT ![m.node] = nd]
      BY <2>1 DEF handle_health, Logging, Updated
    <2>. HIDE DEF nd, out
    <2>. QED
      BY <1>2, <2>3, <2>4 DEF out
  <1>7. CASE t = "lock/last"
    <2>. DEFINE taken == take_event(old, m.body)
                news == attribute_lock_event(taken, hz)
                nd == mark_attributed(taken, news)
    <2>1. m.body \in LockChange /\ out = handle_lock_last(ns, m, hz)
      BY <1>1, <1>7 DEF Body, dispatch, ReportTopics
    <2>2. taken \in Node /\ taken.lock_change = m.body
      BY <1>1, <2>1 DEF take_event, Node
    <2>3. out.nodes = [ns EXCEPT ![m.node] = nd]
      BY <2>1 DEF handle_lock_last, Logging, Updated
    <2>. HIDE DEF taken, news
    <2>4. nd.lock_change = m.body
      BY <2>2 DEF mark_attributed, Node
    <2>5. nd # NewNode
      BY <2>1, <2>4, KeyAssumption DEF NewNode
    <2>. HIDE DEF nd, out
    <2>. QED
      BY <1>2, <2>3, <2>5 DEF out
  <1>8. CASE t = "last_auth"
    <2>. DEFINE nd == [old EXCEPT !.last_auth = m.body]
    <2>1. m.body \in LastAuth /\ out = handle_last_auth(ns, m)
      BY <1>1, <1>8 DEF Body, dispatch, ReportTopics
    <2>2. nd.last_auth = m.body
      BY <1>1 DEF Node
    <2>3. nd # NewNode
      BY <2>1, <2>2, KeyAssumption DEF NewNode
    <2>4. out.nodes = [ns EXCEPT ![m.node] = nd]
      BY <2>1 DEF handle_last_auth, Updated
    <2>. HIDE DEF nd, out
    <2>. QED
      BY <1>2, <2>3, <2>4 DEF out
  <1>9. CASE t \in ReportTopics
    <2>. DEFINE nd == [old EXCEPT !.reports[m.topic] = m.body]
    <2>1. m.body \in ReportValues /\ out = handle_report(ns, m)
      BY <1>1, <1>9 DEF Body, dispatch, ReportTopics
    <2>2. nd.reports[m.topic] = m.body
      BY <1>1, <1>9 DEF Node
    <2>3. nd # NewNode
      BY <1>1, <1>9, <2>1, <2>2, NoneAssumption DEF NewNode
    <2>4. out.nodes = [ns EXCEPT ![m.node] = nd]
      BY <2>1 DEF handle_report, Updated
    <2>. HIDE DEF nd, out
    <2>. QED
      BY <1>2, <2>3, <2>4 DEF out
  <1>. QED
    BY <1>3, <1>4, <1>5, <1>6, <1>7, <1>8, <1>9 DEF AllTopics

\* Of an empty node that appears nothing else than a rejected payload is the
\* cause.
LEMMA EmptyNodesAreRejects ==
  ASSUME CoordInv, [CoordNext]_coordVars, NEW n \in NodeIds,
         nodes[n] # NewNode, nodes'[n] = NewNode
  PROVE  LeftByReject(n)
  <1>1. CASE TimePasses \/ LogbookChanges \/ UNCHANGED coordVars
    BY <1>1 DEF TimePasses, LogbookChanges, coordVars
  <1>2. CASE Receive
    <2>1. PICK t \in Topics : \E m \in Message(t) : async_handle_message(m)
      BY <1>2 DEF Receive
    <2>2. PICK m \in Message(t) : async_handle_message(m)
      BY <2>1
    <2>3. /\ m.topic = t /\ m.node \in NodeIds /\ t \in AllTopics
          /\ nodes \in NodeDict
      BY TopicAssumption DEF Message, CoordInv, CoordTypeOK
    <2>4. CASE m.form = "ok"
      <3>. DEFINE out == dispatch(nodes, m, horizon)
      <3>1. \/ out.nodes = nodes /\ out.updated = TRUE
            \/ \E nd \in Node : Shape(out, nodes, m.node, nd)
        BY <2>3, <2>4, AcceptedShape
      <3>2. out.updated = TRUE
        BY <3>1 DEF Shape
      <3>3. CoordState.nodes = nodes
        BY DEF CoordState
      <3>4. nodes' = out.nodes
        <4>1. Handle(CoordState, m, horizon) = Pushed(CoordState, out)
          BY <2>4, <3>2, <3>3, HandleUpdates
        <4>. QED
          BY <2>2, <4>1 DEF async_handle_message, Become, Pushed
      <3>5. /\ out.nodes = nodes \/ out.nodes[m.node] # NewNode
            /\ \A k \in NodeIds \ {m.node} : out.nodes[k] = nodes[k]
        BY <2>3, <2>4, AcceptedIsStored
      <3>. HIDE DEF out
      <3>. QED
        BY <3>4, <3>5
    <2>5. CASE m.form # "ok"
      <3>1. nodes' = nodes \/ nodes' = reject(nodes, m)
        BY <2>2, <2>5 DEF async_handle_message, Become, Handle, dispatch, Rejected,
                          CoordState
      <3>2. /\ m.form = "invalid" /\ m.topic \in {"health", "lock/last"}
            /\ nodes' = ensure_node(nodes, m.node)
        BY <3>1 DEF reject
      <3>3. m.node = n /\ nodes[n] = None
        BY <2>3, <3>2 DEF ensure_node, NodeDict
      <3>. QED
        BY <2>2, <2>3, <3>2, <3>3 DEF LeftByReject
    <2>. QED
      BY <2>4, <2>5
  <1>. QED
    BY <1>1, <1>2 DEF CoordNext

\* "No node may be created from a payload that failed to parse"
\* (tests/test_coordinator_state.py) fails by two branches only: a node of which
\* nothing is known was left by a rejected health or lock/last payload about a
\* node that was unknown, and by nothing else that the coordinator does.
THEOREM OnlyRejectsLeaveEmptyNodes ==
  CoordSpec => [][\A n \in NodeIds : nodes[n] # NewNode /\ nodes'[n] = NewNode
                                       => LeftByReject(n)]_coordVars
  <1>1. CoordInv /\ [CoordNext]_coordVars
          => [\A n \in NodeIds : nodes[n] # NewNode /\ nodes'[n] = NewNode
                                   => LeftByReject(n)]_coordVars
    BY EmptyNodesAreRejects
  <1>. QED
    BY <1>1, CoordInvariance, PTL DEF CoordSpec

\* As long as those two topics bring no invalid payload, every node was created
\* from one that was accepted (_handle_health, _handle_lock_last).
THEOREM AcceptedPayloadsCreateNodes ==
  CoordSpec /\ [][\A n \in NodeIds : ~LeftByReject(n)]_coordVars
    => []NoNodeFromRejectedPayload
  <1>1. CoordInit => NoNodeFromRejectedPayload
    BY NewNodeType, NoneAssumption
    DEF CoordInit, Blank, NoNodeFromRejectedPayload
  <1>2. CoordInv /\ NoNodeFromRejectedPayload /\ [CoordNext]_coordVars
          /\ [\A n \in NodeIds : ~LeftByReject(n)]_coordVars
        => NoNodeFromRejectedPayload'
    BY EmptyNodesAreRejects DEF NoNodeFromRejectedPayload, coordVars
  <1>. QED
    BY <1>1, <1>2, CoordInvariance, PTL DEF CoordSpec

-----------------------------------------------------------------------------
(* What a mark is worth while the logbook works.                             *)

\* Every cause in the log was taken by the logbook.
AllWritten == \A i \in DOMAIN log : log[i].written

\* What is given to the logbook while it takes entries is written
\* (_async_log_lock_cause).
LEMMA LoggedIsWritten ==
  ASSUME NEW ns, NEW t \in AllTopics, NEW m \in Message(t), NEW hz,
         logbook = "takes"
  PROVE  \/ dispatch(ns, m, hz).logged = <<>>
         \/ \E e : e.written = TRUE /\ dispatch(ns, m, hz).logged = <<e>>
  <1>. DEFINE out == dispatch(ns, m, hz)
  <1>1. \A n, nd : async_log_lock_cause(n, nd).written = TRUE
    BY DEF async_log_lock_cause
  <1>2. m.topic = t
    BY DEF Message
  <1>3. CASE m.form # "ok"
    BY <1>3 DEF dispatch, Rejected
  <1>4. CASE m.form = "ok" /\ t = "health"
    <2>1. out = handle_health(ns, m)
      BY <1>2, <1>4 DEF dispatch, ReportTopics
    <2>. DEFINE old == ensure_node(ns, m.node)[m.node]
                previous == IF old.health = None THEN None ELSE old.health.current
                nd == take_snapshot(old, m.body)
    <2>2. out = Logging(Updated(ns, m.node, nd), m.node, nd,
                        attribute_lock_change(nd, previous))
      BY <2>1 DEF handle_health
    <2>3. out.logged = <<>> \/ out.logged = <<async_log_lock_cause(m.node, nd)>>
      BY <2>2 DEF Logging, Updated
    <2>. HIDE DEF out, nd
    <2>. QED
      BY <1>1, <2>3 DEF out
  <1>5. CASE m.form = "ok" /\ t = "lock/last"
    <2>1. out = handle_lock_last(ns, m, hz)
      BY <1>2, <1>5 DEF dispatch, ReportTopics
    <2>. DEFINE nd == take_event(ensure_node(ns, m.node)[m.node], m.body)
                news == attribute_lock_event(nd, hz)
    <2>2. out = Logging(Updated(ns, m.node, mark_attributed(nd, news)), m.node, nd, news)
      BY <2>1 DEF handle_lock_last
    <2>3. out.logged = <<>> \/ out.logged = <<async_log_lock_cause(m.node, nd)>>
      BY <2>2 DEF Logging, Updated
    <2>. HIDE DEF out, nd
    <2>. QED
      BY <1>1, <2>3 DEF out
  <1>6. CASE m.form = "ok" /\ t \notin {"health", "lock/last"}
    BY <1>2, <1>6
    DEF dispatch, AllTopics, ReportTopics, handle_legacy_status, handle_node_status,
        handle_state, handle_last_auth, handle_report, Updated
  <1>. QED
    BY <1>3, <1>4, <1>5, <1>6

\* While the logbook takes entries, every cause in the log stays written.
LEMMA HandlingIsWritten ==
  ASSUME CoordInv, AllWritten, logbook = "takes", NEW t \in AllTopics,
         NEW m \in Message(t), async_handle_message(m)
  PROVE  AllWritten'
  <1>. DEFINE out == dispatch(nodes, m, horizon)
  <1>1. log' = log \/ log' = log \o out.logged
    BY DEF async_handle_message, Become, Handle, CoordState
  <1>2. log \in Seq(LogEntry)
    BY DEF CoordInv, CoordTypeOK
  <1>3. CASE out.logged = <<>>
    BY <1>1, <1>2, <1>3 DEF AllWritten
  <1>4. ASSUME NEW e, e.written = TRUE, out.logged = <<e>>
        PROVE  AllWritten'
    <2>1. CASE log' = log
      BY <2>1 DEF AllWritten
    <2>2. CASE log' = log \o <<e>>
      <3>1. /\ DOMAIN log' = 1..(Len(log) + 1) /\ Len(log) \in Nat
            /\ \A i \in 1..Len(log) : log'[i] = log[i]
            /\ log'[Len(log) + 1] = e
        BY <1>2, <2>2
      <3>2. \A i \in 1..Len(log) : log[i].written
        BY <1>2 DEF AllWritten
      <3>3. \A i \in 1..(Len(log) + 1) : i \in 1..Len(log) \/ i = Len(log) + 1
        BY <3>1
      <3>. QED
        BY <1>4, <3>1, <3>2, <3>3 DEF AllWritten
    <2>. QED
      BY <1>1, <1>4, <2>1, <2>2
  <1>5. \/ out.logged = <<>>
        \/ \E e : e.written = TRUE /\ out.logged = <<e>>
    BY LoggedIsWritten
  <1>. QED
    BY <1>3, <1>4, <1>5

\* "This cause was already recorded" (coordinator.py) fails through the logbook
\* only: as long as it takes what it is given, a mark stands for an entry that
\* was written (_attribute_lock_event, _async_log_lock_cause).
THEOREM MarksAreWritten ==
  CoordSpec /\ [](logbook = "takes") => []MarkedIsWritten
  <1>1. CoordInit => AllWritten
    BY DEF CoordInit, AllWritten
  <1>2. CoordInv /\ AllWritten /\ logbook = "takes" /\ [CoordNext]_coordVars
        => AllWritten'
    <2>. SUFFICES ASSUME CoordInv, AllWritten, logbook = "takes",
                         [CoordNext]_coordVars
                  PROVE  AllWritten'
      OBVIOUS
    <2>1. CASE Receive
      BY <2>1, TopicAssumption, HandlingIsWritten DEF Receive
    <2>2. CASE TimePasses \/ LogbookChanges \/ UNCHANGED coordVars
      BY <2>2 DEF TimePasses, LogbookChanges, coordVars, AllWritten
    <2>. QED
      BY <2>1, <2>2 DEF CoordNext
  <1>3. CoordInv /\ AllWritten => MarkedIsWritten
    BY DEF CoordInv, AllWritten, MarkedIsAttributed, MarkedIsWritten
  <1>. QED
    BY <1>1, <1>2, <1>3, CoordInvariance, PTL DEF CoordSpec

-----------------------------------------------------------------------------
(* What is announced although it is old.                                     *)

\* The entry e is of a node whose snapshot has just moved to what e says.
ExplainsAMove(e) ==
    /\ nodes[e.node] # None
    /\ nodes[e.node].health # None
    /\ nodes[e.node].health.current \notin {None, e.current}
    /\ nodes'[e.node].health.current = e.current

\* What one accepted message logs is recent, or says what the snapshot it brings
\* says and the one before it did not (_handle_health, _handle_lock_last).
LEMMA LoggedIsRecentOrMoved ==
  ASSUME NEW ns \in NodeDict, NEW t \in AllTopics, NEW m \in Message(t),
         m.form = "ok", NEW hz
  PROVE  LET out == dispatch(ns, m, hz)
         IN \/ out.logged = <<>>
            \/ \E e : /\ out.logged = <<e>>
                      /\ \/ is_recent(e.stamp, hz)
                         \/ /\ e.node = m.node
                            /\ ns[e.node] # None
                            /\ ns[e.node].health # None
                            /\ ns[e.node].health.current \notin {None, e.current}
                            /\ out.nodes[e.node].health.current = e.current
  <1>. DEFINE out == dispatch(ns, m, hz)
              old == ensure_node(ns, m.node)[m.node]
  <1>1. m.topic = t /\ m.node \in NodeIds /\ m.body \in Body(t) /\ old \in Node
    BY EnsureType DEF Message
  <1>2. CASE t = "health"
    <2>. DEFINE previous == IF old.health = None THEN None ELSE old.health.current
                nd == take_snapshot(old, m.body)
                news == attribute_lock_change(nd, previous)
                e == async_log_lock_cause(m.node, nd)
    <2>1. out = handle_health(ns, m)
      BY <1>1, <1>2 DEF dispatch, ReportTopics
    <2>2. /\ out.nodes = [ns EXCEPT ![m.node] = nd]
          /\ out.logged = IF news THEN <<e>> ELSE <<>>
      BY <2>1 DEF handle_health, Logging, Updated
    <2>3. out.nodes[m.node] = nd
      <3>. HIDE DEF nd, out, news, e
      <3>. QED
        BY <1>1, <2>2 DEF NodeDict
    <2>4. ASSUME news
          PROVE  /\ ns[m.node] # None
                 /\ ns[m.node].health # None
                 /\ ns[m.node].health.current \notin {None, e.current}
                 /\ nd.health.current = e.current
      <3>1. /\ previous # None
            /\ nd.health.current \notin {None, previous}
            /\ nd.lock_change.current = nd.health.current
        BY <2>4 DEF attribute_lock_change
      <3>2. e.current = nd.lock_change.current
        BY DEF async_log_lock_cause
      <3>3. old.health # None /\ previous = old.health.current
        BY <3>1
      <3>4. ns[m.node] # None /\ old = ns[m.node]
        BY <1>1, <3>3 DEF ensure_node, NodeDict, NewNode
      <3>. HIDE DEF nd, e, previous, old
      <3>. QED
        BY <3>1, <3>2, <3>3, <3>4
    <2>5. e.node = m.node
      BY DEF async_log_lock_cause
    <2>. HIDE DEF nd, e, news, out
    <2>6. CASE news
      <3>1. out.logged = <<e>>
        BY <2>2, <2>6
      <3>2. out.nodes[e.node].health.current = e.current
        BY <2>3, <2>4, <2>5, <2>6
      <3>. QED
        BY <2>4, <2>5, <2>6, <3>1, <3>2 DEF out
    <2>7. CASE ~news
      BY <2>2, <2>7 DEF out
    <2>. QED
      BY <2>6, <2>7
  <1>3. CASE t = "lock/last"
    <2>. DEFINE nd == take_event(old, m.body)
                news == attribute_lock_event(nd, hz)
                e == async_log_lock_cause(m.node, nd)
    <2>1. out = handle_lock_last(ns, m, hz)
      BY <1>1, <1>3 DEF dispatch, ReportTopics
    <2>2. out.logged = IF news THEN <<e>> ELSE <<>>
      BY <2>1 DEF handle_lock_last, Logging, Updated
    <2>3. news => is_recent(e.stamp, hz)
      BY DEF attribute_lock_event, async_log_lock_cause
    <2>. HIDE DEF nd, e, news
    <2>. QED
      BY <2>2, <2>3
  <1>4. CASE t \notin {"health", "lock/last"}
    <2>1. out.logged = <<>>
      BY <1>1, <1>4
      DEF dispatch, handle_legacy_status, handle_node_status, handle_state,
          handle_last_auth, handle_report, Updated, AllTopics
    <2>. QED
      BY <2>1
  <1>. QED
    BY <1>2, <1>3, <1>4

\* The same of the step of the coordinator that handles the message.
LEMMA HandlingIsRecentOrMoved ==
  ASSUME CoordTypeOK, NEW t \in AllTopics, NEW m \in Message(t),
         async_handle_message(m), Len(log') > Len(log)
  PROVE  LET e == log'[Len(log')]
         IN is_recent(e.stamp, horizon) \/ ExplainsAMove(e)
  <1>. DEFINE out == dispatch(nodes, m, horizon)
  <1>1. /\ m.topic = t /\ m.node \in NodeIds /\ nodes \in NodeDict
        /\ log \in Seq(LogEntry) /\ Len(log) \in Nat
        /\ CoordState.nodes = nodes /\ CoordState.log = log
    BY DEF Message, CoordTypeOK, CoordState
  <1>2. m.form = "ok"
    <2>1. ASSUME m.form # "ok" PROVE log' = log
      BY <2>1
      DEF async_handle_message, Become, Handle, dispatch, Rejected, CoordState
    <2>. QED
      BY <1>1, <2>1
  <1>3. \/ out.nodes = nodes /\ out.updated = TRUE
        \/ \E nd \in Node : Shape(out, nodes, m.node, nd)
    BY <1>1, <1>2, AcceptedShape
  <1>4. out.updated = TRUE
    BY <1>3 DEF Shape
  <1>5. Handle(CoordState, m, horizon) = Pushed(CoordState, out)
    BY <1>1, <1>2, <1>4, HandleUpdates
  <1>6. nodes' = out.nodes /\ log' = log \o out.logged
    BY <1>1, <1>5 DEF async_handle_message, Become, Pushed
  <1>7. \/ out.logged = <<>>
        \/ \E e : /\ out.logged = <<e>>
                  /\ \/ is_recent(e.stamp, horizon)
                     \/ /\ e.node = m.node
                        /\ nodes[e.node] # None
                        /\ nodes[e.node].health # None
                        /\ nodes[e.node].health.current \notin {None, e.current}
                        /\ out.nodes[e.node].health.current = e.current
    BY <1>1, <1>2, LoggedIsRecentOrMoved
  <1>. HIDE DEF out
  <1>8. out.logged # <<>>
    BY <1>1, <1>6
  <1>9. PICK e : /\ out.logged = <<e>>
                 /\ is_recent(e.stamp, horizon) \/ ExplainsAMove(e)
    BY <1>6, <1>7, <1>8 DEF ExplainsAMove
  <1>10. log'[Len(log')] = e
    BY <1>1, <1>6, <1>9
  <1>. QED
    BY <1>9, <1>10

\* "An event older than this window is history rather than news" (const.py) fails
\* in one way only: an old event is announced when a snapshot has just moved to
\* the state it explains, never for its own arrival (_attribute_lock_change,
\* _attribute_lock_event).
THEOREM OldNewsExplainsAMove ==
  CoordSpec => [][Len(log') > Len(log) =>
                    LET e == log'[Len(log')]
                    IN is_recent(e.stamp, horizon) \/ ExplainsAMove(e)]_coordVars
  <1>1. ASSUME CoordInv, CoordNext, Len(log') > Len(log)
        PROVE  LET e == log'[Len(log')]
               IN is_recent(e.stamp, horizon) \/ ExplainsAMove(e)
    <2>1. CASE TimePasses \/ LogbookChanges
      BY <1>1, <2>1 DEF TimePasses, LogbookChanges, CoordInv, CoordTypeOK
    <2>2. CASE Receive
      BY <1>1, <2>2, TopicAssumption, HandlingIsRecentOrMoved DEF Receive, CoordInv
    <2>. QED
      BY <1>1, <2>1, <2>2 DEF CoordNext
  <1>2. CoordInv /\ [CoordNext]_coordVars
          => [Len(log') > Len(log) =>
                LET e == log'[Len(log')]
                IN is_recent(e.stamp, horizon) \/ ExplainsAMove(e)]_coordVars
    BY <1>1
  <1>. QED
    BY <1>2, CoordInvariance, PTL DEF CoordSpec
=============================================================================
