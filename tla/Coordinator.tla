----------------------------- MODULE Coordinator -----------------------------
(***************************************************************************)
(* HomeKeyHouseholdCoordinator (coordinator.py) together with the Node     *)
(* record it maintains (models.py): how one message of the household       *)
(* namespace changes what Home Assistant knows about a node, and what is   *)
(* written to the activity log because of it.                              *)
(*                                                                         *)
(* async_handle_message never suspends, so one message is one step.  The   *)
(* whole effect of a message on the coordinator is the function Handle, of *)
(* the coordinator's state and the message; the transports (MQTT, direct   *)
(* poll) are modelled in modules that extend this one and decide which     *)
(* messages arrive and in which order.                                     *)
(***************************************************************************)
EXTENDS Naturals, Sequences, FiniteSets

CONSTANTS
    NodeIds,        \* node ids of this household
    Issuers,        \* names given to HomeKey controllers
    ReportValues,   \* values of the payloads that are only stored
    MaxStamp,       \* largest clock reading a node puts on a message
    MaxSeq,         \* number of physical changes of a lock that are followed
    Clocks,         \* what a node's stamps are: "wall" time, "uptime" seconds
    Topics,         \* subtopics the open environment of this module sends
    MaxLog,         \* bound on the activity log
    Logbook,        \* what the logbook does with an entry: see logbook
    None            \* Python's None

ASSUME StampAssumption == MaxStamp \in Nat /\ MaxSeq \in Nat
ASSUME LogAssumption == MaxLog \in Nat
ASSUME LogbookAssumption == Logbook \subseteq {"takes", "raises"} /\ "takes" \in Logbook
ASSUME ClockAssumption ==
    Clocks \subseteq {"wall", "uptime"} /\ None \notin {"wall", "uptime"}

VARIABLES
    nodes,      \* HomeKeyData.nodes: node id -> Node, or None when not in the dict
    pool,       \* hass.data[_pool_key]: the copy kept for a reload
    entities,   \* nodes that entities were added for (discovery.py)
    log,        \* causes given to async_log_lock_cause; those the logbook took
                \* are the entries of the activity log
    logbook,    \* it "takes" an entry, or async_log_entry "raises" (external)
    horizon     \* wall stamps up to here are more than LOCK_EVENT_MAX_AGE old

coordVars == <<nodes, pool, entities, log, logbook, horizon>>

-----------------------------------------------------------------------------
(* Data.  Lock states are the values of LOCK_STATE_MAP that the properties   *)
(* tell apart.  seq is a ghost: the ordinal of the physical change a report  *)
(* describes.  No definition that models code reads it.                      *)

Current == {"unlocked", "locked", "jammed"}
\* "mqtt" stands for mqtt, api and unknown, which the code treats alike.
Source == {"homekit", "homekey", "mqtt", "device"}
DEVICE_INITIATED_SOURCES == {"homekit", "homekey", "device"}

Stamp == [clock : Clocks, at : 1..MaxStamp]
Health == [current : Current \cup {None}, seq : 0..MaxSeq]
LockChange == [current : Current, source : Source,
               stamp : Stamp \cup {None}, seq : 0..MaxSeq]
LastAuth == [issuer : Issuers \cup {None}, stamp : Stamp \cup {None}, seq : 0..MaxSeq]
ChangeKey == [stamp : Stamp \cup {None}, current : Current, source : Source]
NodeState == [name : ReportValues, generation : ReportValues \cup {None}]

\* None is none of the records.
ASSUME KeyAssumption ==
    /\ None \notin ChangeKey /\ None \notin LockChange
    /\ None \notin Health /\ None \notin LastAuth /\ None \notin Stamp

\* Topics whose validated payload is stored and nothing else.
ReportTopics == {"security", "backup/status", "backup/last", "guest/status"}

Node == [online : BOOLEAN,
         lwt_online : BOOLEAN \cup {None},
         last_seen : BOOLEAN,
         state : NodeState \cup {None},
         health : Health \cup {None},
         lock_change : LockChange \cup {None},
         lock_change_is_fresh : BOOLEAN,
         attributed_lock_change : ChangeKey \cup {None},
         last_auth : LastAuth \cup {None},
         reports : [ReportTopics -> ReportValues \cup {None}]]

\* None is no node either, and no value that an accepted payload stores.
ASSUME NoneAssumption ==
    /\ None \notin Node /\ None \notin NodeState
    /\ None \notin ReportValues /\ None \notin BOOLEAN

LogEntry == [node : NodeIds, current : Current, source : Source,
             stamp : Stamp \cup {None}, actor : Source \cup Issuers, seq : 0..MaxSeq,
             written : BOOLEAN]

\* The dataclass defaults of Node.
NewNode == [online |-> FALSE, lwt_online |-> None, last_seen |-> FALSE, state |-> None,
            health |-> None, lock_change |-> None,
            lock_change_is_fresh |-> FALSE, attributed_lock_change |-> None,
            last_auth |-> None, reports |-> [t \in ReportTopics |-> None]]

\* What a message carries.  form "not_json" fails in _decode_json, "invalid"
\* fails in a validator, "foreign" is of another household.
Form == {"ok", "not_json", "invalid", "foreign"}

Body(t) == CASE t \in {"status", "legacy_status"} -> BOOLEAN
             [] t = "state" -> NodeState
             [] t = "health" -> Health
             [] t = "lock/last" -> LockChange
             [] t = "last_auth" -> LastAuth
             [] OTHER -> ReportValues

AllTopics == {"status", "legacy_status", "state", "health", "lock/last",
              "last_auth"} \cup ReportTopics

ASSUME TopicAssumption == Topics \subseteq AllTopics

Message(t) == [node : NodeIds, topic : {t}, form : Form, body : Body(t)]

-----------------------------------------------------------------------------
(* Views of a node (models.py).                                              *)

lock_change_key(nd) ==
    IF nd.lock_change = None THEN None
    ELSE [stamp |-> nd.lock_change.stamp, current |-> nd.lock_change.current,
          source |-> nd.lock_change.source]

\* The fresh event, else the snapshot, else unknown.
lock_state(nd) ==
    IF nd.lock_change_is_fresh /\ nd.lock_change # None
    THEN nd.lock_change.current
    ELSE IF nd.health = None THEN None ELSE nd.health.current

available(nd) == nd.online /\ nd.lwt_online # FALSE

-----------------------------------------------------------------------------
(* Attribution.                                                              *)

\* A stamp that is missing or too small for a wall clock says nothing of age.
is_recent(stamp, hz) ==
    \/ stamp = None
    \/ stamp.clock = "uptime"
    \/ stamp.at > hz

BugActorFor(nd, change) ==
    IF /\ change.source = "homekey"
       /\ nd.last_auth # None
       /\ nd.last_auth.issuer # None
    THEN nd.last_auth.issuer
    ELSE change.source

BugActorUnnamed(nd, change) ==
    IF /\ change.source = "homekey"
       /\ nd.last_auth # None
       /\ nd.last_auth.stamp = change.stamp
    THEN nd.last_auth.issuer
    ELSE change.source

\* The person, when the authorisation carries the stamp of the change.
actor_for(nd, change) ==
    IF /\ change.source = "homekey"
       /\ nd.last_auth # None
       /\ nd.last_auth.issuer # None
       /\ nd.last_auth.stamp # None
       /\ nd.last_auth.stamp = change.stamp
    THEN nd.last_auth.issuer
    ELSE change.source

\* The logbook takes the entry, or raises: the caller of the attribution
\* swallows that, and what it has done to the node stands.
async_log_lock_cause(n, nd) ==
    LET change == nd.lock_change
    IN [node |-> n, current |-> change.current, source |-> change.source,
        stamp |-> change.stamp, actor |-> actor_for(nd, change),
        seq |-> change.seq, written |-> logbook = "takes"]

BugSnapshotCause(nd, previous) ==
    /\ previous # None
    /\ nd.health.current \notin {None, previous}
    /\ nd.lock_change # None
    /\ nd.attributed_lock_change # lock_change_key(nd)
    /\ nd.lock_change.source \in DEVICE_INITIATED_SOURCES

\* nd already holds the new snapshot.
attribute_lock_change(nd, previous) ==
    /\ previous # None
    /\ nd.health.current \notin {None, previous}
    /\ nd.lock_change # None
    /\ nd.lock_change.current = nd.health.current
    /\ nd.attributed_lock_change # lock_change_key(nd)
    /\ nd.lock_change.source \in DEVICE_INITIATED_SOURCES

BugEventWithoutSource(nd, hz) ==
    /\ nd.attributed_lock_change # lock_change_key(nd)
    /\ is_recent(nd.lock_change.stamp, hz)

BugEventWithoutDedupe(nd, hz) ==
    /\ nd.lock_change.source \in DEVICE_INITIATED_SOURCES
    /\ is_recent(nd.lock_change.stamp, hz)

\* nd already holds the new event.
attribute_lock_event(nd, hz) ==
    /\ nd.lock_change.source \in DEVICE_INITIATED_SOURCES
    /\ nd.attributed_lock_change # lock_change_key(nd)
    /\ is_recent(nd.lock_change.stamp, hz)

BugMarkAttributed(nd, news) ==
    [nd EXCEPT !.attributed_lock_change = lock_change_key(nd)]

\* The event that is announced is remembered, before the logbook is asked and
\* whatever it answers; a silent one is not.
mark_attributed(nd, news) ==
    IF news THEN [nd EXCEPT !.attributed_lock_change = lock_change_key(nd)]
    ELSE nd

-----------------------------------------------------------------------------
(* dispatch, one operator per subtopic.  Each maps the node dictionary and   *)
(* the message to the new dictionary, whether listeners are updated, and     *)
(* what is logged.                                                           *)

ensure_node(ns, n) == IF ns[n] = None THEN [ns EXCEPT ![n] = NewNode] ELSE ns

Rejected(ns) == [nodes |-> ns, updated |-> FALSE, logged |-> <<>>]
Updated(ns, n, nd) ==
    [nodes |-> [ns EXCEPT ![n] = nd], updated |-> TRUE, logged |-> <<>>]
BugLogging(out, n, nd, news) ==
    [out EXCEPT !.updated = ~news \/ logbook = "takes",
                !.logged = IF news THEN <<async_log_lock_cause(n, nd)>> ELSE <<>>]

\* A description of an update that is published with it or without it.
Logging(out, n, nd, news) ==
    [out EXCEPT !.logged = IF news THEN <<async_log_lock_cause(n, nd)>> ELSE <<>>]

BugNodeStatus(ns, m) ==
    Updated(ns, m.node, [ensure_node(ns, m.node)[m.node] EXCEPT
                            !.online = IF m.body THEN TRUE ELSE None,
                            !.last_seen = TRUE])

handle_node_status(ns, m) ==
    Updated(ns, m.node, [ensure_node(ns, m.node)[m.node] EXCEPT
                            !.online = m.body, !.last_seen = TRUE])

\* The will's topic carries no household identity and creates no node.
handle_legacy_status(ns, m) ==
    IF ns[m.node] = None
    THEN [nodes |-> ns, updated |-> TRUE, logged |-> <<>>]
    ELSE Updated(ns, m.node, [ns[m.node] EXCEPT
                                 !.lwt_online = m.body,
                                 !.last_seen = @ \/ m.body])

\* A field the node does not report does not erase the one it reported.
merge_node(old, incoming) ==
    IF old = None \/ incoming.generation # None THEN incoming
    ELSE [incoming EXCEPT !.generation = old.generation]

handle_state(ns, m) ==
    Updated(ns, m.node, [ensure_node(ns, m.node)[m.node] EXCEPT
                            !.state = merge_node(@, m.body)])

BugTakeSnapshot(nd, body) == [nd EXCEPT !.health = body]

\* From here on the state comes from the snapshot again.
take_snapshot(nd, body) ==
    [nd EXCEPT !.health = body, !.lock_change_is_fresh = FALSE]

handle_health(ns, m) ==
    LET old == ensure_node(ns, m.node)[m.node]
        previous == IF old.health = None THEN None ELSE old.health.current
        nd == take_snapshot(old, m.body)
    IN Logging(Updated(ns, m.node, nd), m.node, nd,
               attribute_lock_change(nd, previous))

BugTakeEvent(nd, body) == [nd EXCEPT !.lock_change = body]

take_event(nd, body) ==
    [nd EXCEPT !.lock_change = body, !.lock_change_is_fresh = TRUE]

handle_lock_last(ns, m, hz) ==
    LET nd == take_event(ensure_node(ns, m.node)[m.node], m.body)
        news == attribute_lock_event(nd, hz)
    IN Logging(Updated(ns, m.node, mark_attributed(nd, news)),
               m.node, nd, news)

handle_last_auth(ns, m) ==
    Updated(ns, m.node, [ensure_node(ns, m.node)[m.node] EXCEPT
                            !.last_auth = m.body])

\* security, backup/status, backup/last and guest/status.
handle_report(ns, m) ==
    Updated(ns, m.node, [ensure_node(ns, m.node)[m.node] EXCEPT
                            !.reports[m.topic] = m.body])

\* What a payload that fails validation leaves behind: the health and lock/last
\* branches look the node up, and so create it, before they parse.
reject(ns, m) ==
    IF m.form = "invalid" /\ m.topic \in {"health", "lock/last"}
    THEN ensure_node(ns, m.node)
    ELSE ns

dispatch(ns, m, hz) ==
    CASE m.form # "ok" -> Rejected(reject(ns, m))
      [] m.form = "ok" /\ m.topic = "legacy_status" -> handle_legacy_status(ns, m)
      [] m.form = "ok" /\ m.topic = "status" -> handle_node_status(ns, m)
      [] m.form = "ok" /\ m.topic = "state" -> handle_state(ns, m)
      [] m.form = "ok" /\ m.topic = "health" -> handle_health(ns, m)
      [] m.form = "ok" /\ m.topic = "lock/last" -> handle_lock_last(ns, m, hz)
      [] m.form = "ok" /\ m.topic = "last_auth" -> handle_last_auth(ns, m)
      [] m.form = "ok" /\ m.topic \in ReportTopics -> handle_report(ns, m)

\* Every node in the dictionary has had its entities added.
add_new_nodes(ns) == {n \in NodeIds : ns[n] # None}

\* async_handle_message on the coordinator's state c.  An update is pooled and
\* pushed to the entities, which are added for every node now in the dictionary.
Handle(c, m, hz) ==
    LET out == dispatch(c.nodes, m, hz)
    IN IF m.form = "foreign" THEN c
       ELSE IF ~out.updated THEN [c EXCEPT !.nodes = out.nodes]
       ELSE [nodes |-> out.nodes, pool |-> out.nodes,
             entities |-> add_new_nodes(out.nodes),
             log |-> c.log \o out.logged]

CoordState == [nodes |-> nodes, pool |-> pool, entities |-> entities, log |-> log]

Become(c) ==
    /\ nodes' = c.nodes
    /\ pool' = c.pool
    /\ entities' = c.entities
    /\ log' = c.log

Blank == [n \in NodeIds |-> None]

-----------------------------------------------------------------------------
(* The coordinator open to any message.                                      *)

CoordInit ==
    /\ nodes = Blank
    /\ pool = Blank
    /\ entities = {}
    /\ log = <<>>
    /\ logbook = "takes"
    /\ horizon = 0

async_handle_message(m) ==
    /\ Become(Handle(CoordState, m, horizon))
    /\ UNCHANGED <<logbook, horizon>>

Receive ==
    /\ Len(log) < MaxLog
    /\ \E t \in Topics : \E m \in Message(t) : async_handle_message(m)

\* The wall clock moves on: more stamps fall out of the announcement window.
TimePasses ==
    /\ horizon < MaxStamp
    /\ horizon' = horizon + 1
    /\ UNCHANGED <<nodes, pool, entities, log, logbook>>

\* The logbook stops taking entries, or takes them again.
LogbookChanges ==
    /\ logbook' \in Logbook \ {logbook}
    /\ UNCHANGED <<nodes, pool, entities, log, horizon>>

CoordNext == Receive \/ TimePasses \/ LogbookChanges

CoordSpec == CoordInit /\ [][CoordNext]_coordVars

-----------------------------------------------------------------------------
(* Properties.                                                               *)

NodeDict == [NodeIds -> Node \cup {None}]

\* Every reachable state of the coordinator is well typed (coordinator.py).
CoordTypeOK ==
    /\ nodes \in NodeDict
    /\ pool \in NodeDict
    /\ entities \in SUBSET NodeIds
    /\ log \in Seq(LogEntry)
    /\ logbook \in Logbook
    /\ horizon \in 0..MaxStamp

\* The pool a reload would start from is never behind the dictionary: a reading
\* is published whether or not the logbook takes its description, a payload that
\* is rejected changes no field of a node that is already known, and leaves at
\* most an empty node behind (_dispatch, _pool_state).
PoolIsCurrent ==
    \A n \in NodeIds : \/ pool[n] = nodes[n]
                       \/ pool[n] = None /\ nodes[n] = NewNode

\* i is the place in the log of a cause of node n with this key.
CauseAt(i, n, key) ==
    /\ log[i].node = n
    /\ log[i].stamp = key.stamp
    /\ log[i].current = key.current
    /\ log[i].source = key.source

\* A node's de-duplication mark always stands for a cause that was given to the
\* logbook: an event that was passed over is never taken for one that was
\* attributed, so the snapshot that follows can still attribute it
\* (_attribute_lock_event).  That the logbook took it is MarkedIsWritten.
MarkedIsAttributed ==
    \A n \in NodeIds :
        nodes[n] # None /\ nodes[n].attributed_lock_change # None =>
            \E i \in DOMAIN log : CauseAt(i, n, nodes[n].attributed_lock_change)

\* A change Home Assistant asked for is never claimed for the device, on either
\* of the two paths that write the log, and a person is named only for a tap
\* that carries a stamp (_attribute_lock_change, _attribute_lock_event,
\* _actor_for).
LogClaimsOnlyDeviceChanges ==
    \A i \in DOMAIN log :
        /\ log[i].source \in DEVICE_INITIATED_SOURCES
        /\ log[i].actor # log[i].source =>
               log[i].source = "homekey" /\ log[i].stamp # None

-----------------------------------------------------------------------------
(* What the repository says and the code does not do: these are false of the *)
(* specification (see README.md).                                            *)

\* "No node may be created from a payload that failed to parse"
\* (tests/test_coordinator_state.py): every accepted payload sets a field, so a
\* node equal to the dataclass defaults came from a rejected one.
NoNodeFromRejectedPayload ==
    \A n \in NodeIds : nodes[n] # NewNode

\* "This cause was already recorded when the node reported the event itself"
\* (coordinator.py, where the snapshot passes over a marked event): the mark is
\* set before the logbook is asked, so a cause it refused is not offered again.
MarkedIsWritten ==
    \A n \in NodeIds :
        nodes[n] # None /\ nodes[n].attributed_lock_change # None =>
            \E i \in DOMAIN log :
                log[i].written /\ CauseAt(i, n, nodes[n].attributed_lock_change)
=============================================================================
