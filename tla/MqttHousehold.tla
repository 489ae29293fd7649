---------------------------- MODULE MqttHousehold ----------------------------
(***************************************************************************)
(* The coordinator behind an MQTT broker.  The nodes' firmware and the     *)
(* broker are not part of the repository; they are modelled from what the  *)
(* code and its documents say of them: lock/last and last_auth are         *)
(* retained and published at the moment of a change, health is sampled on  *)
(* a cadence, is not retained, and is the only report that knows about a   *)
(* jam; every (re)connection is answered with the retained messages, in    *)
(* any order; what is published while Home Assistant is away is lost.      *)
(***************************************************************************)
EXTENDS Coordinator, SequencesExt

CONSTANTS
    Sources,        \* what moves the bolt in this instance
    Stamping,       \* how its nodes stamp: members of Clocks, or None
    MaxQueue,       \* messages on their way from the broker to Home Assistant
    MaxDrops,       \* lost connections to the broker
    MaxRestarts     \* restarts of Home Assistant

ASSUME DoorAssumption ==
    Sources \subseteq Source /\ Stamping \subseteq Clocks \cup {None}
ASSUME BrokerAssumption ==
    MaxQueue \in Nat /\ MaxDrops \in Nat /\ MaxRestarts \in Nat

\* A new subscription can be sent all that is retained; no stamp is too large.
ASSUME RoomAssumption ==
    /\ IsFiniteSet(NodeIds)
    /\ 2 * Cardinality(NodeIds) <= MaxQueue
    /\ MaxSeq <= MaxStamp

VARIABLES
    phys,       \* the bolt of each node
    last,       \* ordinal of the last physical change of each node
    seq,        \* ordinal of the last thing that happened at any door
    clock,      \* what a node stamps with: a member of Stamping
    up,         \* its uptime reading, used when it has no wall clock
    rebooted,   \* the nodes whose uptime has started again
    tapper,     \* who tapped, per ordinal
    retained,   \* the broker's retained messages, per node and topic
    queue,      \* messages in flight to Home Assistant
    connected,
    drops, restarts,
    session     \* length of the log when this run of Home Assistant began

clockVars == <<clock, up, rebooted>>
doorVars == <<phys, last, seq, clockVars, tapper>>
brokerVars == <<retained, queue, connected, drops>>
haVars == <<restarts, session>>
vars == <<coordVars, doorVars, brokerVars, haVars>>

RetainedTopics == {"lock/last", "last_auth"}

MqttInit ==
    /\ CoordInit
    /\ phys = [n \in NodeIds |-> "locked"]
    /\ last = [n \in NodeIds |-> 0]
    /\ seq = 0
    /\ clock \in [NodeIds -> Stamping]
    /\ up = [n \in NodeIds |-> 0]
    /\ rebooted = {}
    /\ tapper = [i \in 1..MaxSeq |-> None]
    /\ retained = [n \in NodeIds |-> [t \in RetainedTopics |-> None]]
    /\ queue = <<>>
    /\ connected = TRUE
    /\ drops = 0
    /\ restarts = 0
    /\ session = 0

-----------------------------------------------------------------------------
(* The broker.                                                               *)

Envelope(n, t, b) == [node |-> n, topic |-> t, form |-> "ok", body |-> b]

\* A node publishes msgs, in this order; the retained topics are kept.
Publish(n, msgs) ==
    /\ connected => Len(queue) + Len(msgs) <= MaxQueue
    /\ queue' = IF connected THEN queue \o msgs ELSE queue
    /\ retained' = [retained EXCEPT ![n] = [t \in RetainedTopics |->
           IF \E i \in DOMAIN msgs : msgs[i].topic = t
           THEN LET i == CHOOSE j \in DOMAIN msgs : msgs[j].topic = t
                IN msgs[i].body
           ELSE @[t]]]
    /\ UNCHANGED <<connected, drops>>

\* The orders in which a new subscription can be sent the retained messages.
Replays ==
    LET kept == {p \in NodeIds \X RetainedTopics : retained[p[1]][p[2]] # None}
    IN {[i \in DOMAIN order |-> Envelope(order[i][1], order[i][2],
                                         retained[order[i][1]][order[i][2]])] :
           order \in SetToSeqs(kept)}

Disconnect ==
    /\ connected
    /\ drops < MaxDrops
    /\ drops' = drops + 1
    /\ connected' = FALSE
    /\ queue' = <<>>
    /\ UNCHANGED <<coordVars, doorVars, retained, haVars>>

Reconnect ==
    /\ ~connected
    /\ connected' = TRUE
    /\ queue' \in Replays
    /\ UNCHANGED <<coordVars, doorVars, retained, drops, haVars>>

-----------------------------------------------------------------------------
(* A node.                                                                   *)

\* What its clock reads for the thing that happens now.
StampNow(n) ==
    IF clock[n] = None THEN None
    ELSE [clock |-> clock[n],
          at |-> IF clock[n] = "wall" THEN seq + 1 ELSE up[n] + 1]

Stamped(n) ==
    /\ up' = [up EXCEPT ![n] = IF clock[n] = "uptime" THEN @ + 1 ELSE @]
    /\ UNCHANGED <<clock, rebooted>>

\* The bolt moves because of source, and the node says so; a HomeKey tap is
\* also reported as an authorisation, with the same stamp, before or after.
LockEvent(n) ==
    /\ seq < MaxSeq
    /\ \E current \in {"unlocked", "locked"} \ {phys[n]}, source \in Sources,
          who \in Issuers \cup {None} :
        LET stamp == StampNow(n)
            change == Envelope(n, "lock/last",
                          [current |-> current, source |-> source,
                           stamp |-> stamp, seq |-> seq + 1])
            auth == Envelope(n, "last_auth",
                          [issuer |-> who, stamp |-> stamp, seq |-> seq + 1])
        IN /\ source # "homekey" => who = None
           /\ \/ source # "homekey" /\ Publish(n, <<change>>)
              \/ source = "homekey" /\ Publish(n, <<auth, change>>)
              \/ source = "homekey" /\ Publish(n, <<change, auth>>)
           /\ phys' = [phys EXCEPT ![n] = current]
           /\ tapper' = [tapper EXCEPT ![seq + 1] = who]
    /\ Stamped(n)
    /\ last' = [last EXCEPT ![n] = seq + 1]
    /\ seq' = seq + 1
    /\ UNCHANGED <<coordVars, haVars>>

\* A tap that does not move the bolt is reported as an authorisation only.
TapOnly(n) ==
    /\ seq < MaxSeq
    /\ \E who \in Issuers :
        /\ Publish(n, <<Envelope(n, "last_auth",
                            [issuer |-> who, stamp |-> StampNow(n),
                             seq |-> seq + 1])>>)
        /\ tapper' = [tapper EXCEPT ![seq + 1] = who]
    /\ Stamped(n)
    /\ seq' = seq + 1
    /\ UNCHANGED <<coordVars, phys, last, haVars>>

\* The bolt stops short of where it was sent: no event, only health knows.
Jam(n) ==
    /\ seq < MaxSeq
    /\ phys[n] # "jammed"
    /\ phys' = [phys EXCEPT ![n] = "jammed"]
    /\ last' = [last EXCEPT ![n] = seq + 1]
    /\ seq' = seq + 1
    /\ UNCHANGED <<coordVars, clockVars, tapper, brokerVars, haVars>>

\* The cadence: a health document with the bolt as it is.
Sample(n) ==
    /\ connected
    /\ Publish(n, <<Envelope(n, "health",
                        [current |-> phys[n], seq |-> last[n]])>>)
    /\ UNCHANGED <<coordVars, doorVars, haVars>>

\* A node without a wall clock counts from its boot.
Reboot(n) ==
    /\ up[n] > 0
    /\ up' = [up EXCEPT ![n] = 0]
    /\ rebooted' = rebooted \cup {n}
    /\ UNCHANGED <<coordVars, phys, last, seq, clock, tapper, brokerVars, haVars>>

-----------------------------------------------------------------------------
(* Home Assistant.                                                           *)

Deliver ==
    /\ queue # <<>>
    /\ Become(Handle(CoordState, Head(queue), horizon))
    /\ queue' = Tail(queue)
    /\ UNCHANGED <<logbook, horizon, doorVars, retained, connected, drops, haVars>>

ClockMoves ==
    /\ horizon < seq
    /\ horizon' = horizon + 1
    /\ UNCHANGED <<nodes, pool, entities, log, logbook, doorVars, brokerVars, haVars>>

LogbookTurns ==
    /\ LogbookChanges
    /\ UNCHANGED <<doorVars, brokerVars, haVars>>

\* Everything in memory is lost; the activity log is kept.
Restart ==
    /\ restarts < MaxRestarts
    /\ restarts' = restarts + 1
    /\ nodes' = Blank
    /\ pool' = Blank
    /\ entities' = {}
    /\ connected' = TRUE
    /\ queue' \in Replays
    /\ session' = Len(log)
    /\ UNCHANGED <<log, logbook, horizon, doorVars, retained, drops>>

MqttNext ==
    \/ \E n \in NodeIds : LockEvent(n) \/ TapOnly(n) \/ Jam(n) \/ Sample(n)
                          \/ Reboot(n)
    \/ Disconnect
    \/ Reconnect
    \/ Deliver
    \/ ClockMoves
    \/ LogbookTurns
    \/ Restart

MqttSpec == MqttInit /\ [][MqttNext]_vars

\* The broker reconnects (Home Assistant's client retries for ever), what is in
\* flight arrives, and a node keeps its health cadence.  Nothing else has to
\* happen.
MqttFairness ==
    /\ WF_vars(Reconnect)
    /\ WF_vars(Deliver)
    /\ \A n \in NodeIds : WF_vars(Sample(n))

MqttFairSpec == MqttSpec /\ MqttFairness

-----------------------------------------------------------------------------
(* Properties.                                                               *)

\* The state around the coordinator is well typed.
MqttTypeOK ==
    /\ CoordTypeOK
    /\ phys \in [NodeIds -> Current]
    /\ last \in [NodeIds -> 0..MaxSeq]
    /\ seq \in 0..MaxSeq
    /\ clock \in [NodeIds -> Stamping]
    /\ up \in [NodeIds -> 0..MaxSeq]
    /\ rebooted \subseteq NodeIds
    /\ tapper \in [1..MaxSeq -> Issuers \cup {None}]
    /\ retained \in [NodeIds -> [RetainedTopics -> LockChange \cup LastAuth \cup {None}]]
    /\ queue \in Seq([node : NodeIds, topic : RetainedTopics \cup {"health"},
                      form : Form, body : LockChange \cup LastAuth \cup Health])
    /\ \A i \in DOMAIN queue : queue[i] \in Message(queue[i].topic)
    /\ Len(queue) <= MaxQueue
    /\ connected \in BOOLEAN
    /\ session \in 0..Len(log)

Reported(n) == nodes[n] # None /\ nodes[n].health # None
                 /\ nodes[n].lock_change # None

\* A snapshot outranks the event (lock_change_is_fresh is cleared) only when it
\* is at least as new, so a door that has just moved is never shown as it was
\* before because of a sample taken earlier (models.py lock_state).
SnapshotNeverHidesEvent ==
    \A n \in NodeIds : Reported(n) /\ ~nodes[n].lock_change_is_fresh =>
        nodes[n].health.seq >= nodes[n].lock_change.seq

\* Within one run of Home Assistant the log follows the door: each node's
\* entries describe changes in the order they happened, none of them twice,
\* over redelivery of retained messages and both paths that write the log.
LogFollowsTheDoor ==
    \A i, j \in (session + 1)..Len(log) :
        i < j /\ log[i].node = log[j].node => log[i].seq < log[j].seq

\* A cause is only ever claimed for the change it belongs to: what an entry
\* names is the newest change that has been reported of that door, so the cause
\* of an earlier change never explains a later one (_attribute_lock_change).
CauseIsOfTheNewestChange ==
    [][Len(log') > Len(log) =>
         LET e == log'[Len(log')]
             nd == nodes'[e.node]
         IN nd.health # None => nd.health.seq <= e.seq]_vars

\* "less specific, and never wrong" (README): a person named in the log is the
\* one who tapped for that change (_actor_for), whichever clock the node stamps
\* with and in whatever order taps and changes arrive.  Only a node that counts
\* from its boot and has booted again can repeat a stamp.
PersonIsTheTapper ==
    \A i \in DOMAIN log :
        LET e == log[i]
        IN e.actor # e.source /\ (e.stamp.clock = "wall" \/ e.node \notin rebooted)
             => e.actor = tapper[e.seq]

\* Once the door is left alone, Home Assistant comes to show it as it is, jams
\* included, whatever was lost or redelivered on the way (lock_state).
EventuallyShowsTheDoor ==
    \A n \in NodeIds :
        <>[](nodes[n] # None /\ lock_state(nodes[n]) = phys[n])

-----------------------------------------------------------------------------
(* What the repository says and the code does not do: these are false of the *)
(* specification (see README.md).                                            *)

\* "True while lock_change is newer than the health snapshot" (models.py): the
\* flag never puts an event in front of a snapshot that is newer than it.
FreshMeansNewer ==
    \A n \in NodeIds : Reported(n) /\ nodes[n].lock_change_is_fresh =>
        nodes[n].lock_change.seq >= nodes[n].health.seq

\* "an event older than this window is history rather than news" (const.py):
\* nothing is announced once its stamp is older than the window.
OldEventsAreHistory ==
    [][Len(log') > Len(log) =>
         is_recent(log'[Len(log')].stamp, horizon)]_vars

\* "The same event must not be announced as news twice" (coordinator.py), also
\* when the replay follows a restart.
NeverAnnouncedTwice ==
    \A i, j \in DOMAIN log :
        log[i].node = log[j].node /\ log[i].seq = log[j].seq => i = j

\* "less specific, and never wrong" (README), for every node: two boots of a node
\* without a clock give a tap and an unrelated change the same stamp.
NeverTheWrongPerson ==
    \A i \in DOMAIN log :
        log[i].actor # log[i].source => log[i].actor = tapper[log[i].seq]
=============================================================================
