------------------------- MODULE MqttHouseholdProofs -------------------------
(***************************************************************************)
(* MqttHousehold, for any number of nodes, people, changes, lost           *)
(* connections and restarts.                                               *)
(*                                                                         *)
(* The argument has three layers.  Facts: what is said of a door by the    *)
(* reports that are about, in flight, retained or in memory, agrees with   *)
(* the door and with itself.  Order: reports of a node are behind each     *)
(* other in the order in which they were made, and what is in flight or    *)
(* retained is not older than what Home Assistant knows.  Records: the     *)
(* log, which only needs the first two.                                    *)
(***************************************************************************)
EXTENDS MqttHousehold, CoordinatorProofs, FiniteSetTheorems

-----------------------------------------------------------------------------
(* What Home Assistant knows of a node; nothing of one that is not there.    *)

Known(n, field) == IF nodes[n] = None THEN None ELSE nodes[n][field]

Event(n) == Known(n, "lock_change")
Snapshot(n) == Known(n, "health")
Auth(n) == Known(n, "last_auth")
Mark(n) == Known(n, "attributed_lock_change")
KeyOf(c) == [stamp |-> c.stamp, current |-> c.current, source |-> c.source]

About(i, n, t) == i \in DOMAIN queue /\ queue[i].node = n /\ queue[i].topic = t
Kept(n) == retained[n]["lock/last"]

\* The reports of a node that are about.
InFlight(n, t) == {queue[i].body : i \in {j \in DOMAIN queue : About(j, n, t)}}
Changes(n) == (InFlight(n, "lock/last") \cup {Kept(n), Event(n)}) \ {None}
Auths(n) ==
    (InFlight(n, "last_auth") \cup {retained[n]["last_auth"], Auth(n)}) \ {None}
Samples(n) == (InFlight(n, "health") \cup {Snapshot(n)}) \ {None}

-----------------------------------------------------------------------------
(* Types.                                                                    *)

WireTopics == RetainedTopics \cup {"health"}
Wire == UNION {Message(t) : t \in WireTopics}

DoorTypes ==
    /\ phys \in [NodeIds -> Current]
    /\ last \in [NodeIds -> 0..MaxSeq]
    /\ seq \in 0..MaxSeq
    /\ clock \in [NodeIds -> Stamping]
    /\ up \in [NodeIds -> 0..MaxSeq]
    /\ rebooted \subseteq NodeIds
    /\ tapper \in [1..MaxSeq -> Issuers \cup {None}]
    /\ \A n \in NodeIds : last[n] <= seq /\ up[n] <= seq

BrokerTypes ==
    /\ retained \in [NodeIds -> [RetainedTopics -> LockChange \cup LastAuth \cup {None}]]
    /\ \A n \in NodeIds : /\ Kept(n) \in LockChange \cup {None}
                          /\ retained[n]["last_auth"] \in LastAuth \cup {None}
    /\ queue \in Seq(Wire)
    /\ Len(queue) <= MaxQueue
    /\ \A i \in DOMAIN queue : queue[i].form = "ok"
    /\ connected \in BOOLEAN
    /\ ~connected => queue = <<>>

TypeInv == CoordTypeOK /\ DoorTypes /\ BrokerTypes /\ session \in 0..Len(log)

-----------------------------------------------------------------------------
(* Facts.                                                                    *)

\* A stamp is that of its node's clock at the time; one without wall time has
\* not reached a reading that it has not had since its boot.
StampFits(n, x) ==
    IF clock[n] = None THEN x.stamp = None
    ELSE /\ x.stamp # None
         /\ x.stamp.clock = clock[n]
         /\ clock[n] = "wall" => x.stamp.at = x.seq
         /\ clock[n] = "uptime" /\ n \notin rebooted => x.stamp.at <= up[n]

ChangesAreTrue ==
    \A n \in NodeIds : \A c \in Changes(n) :
        /\ c.seq \in 1..last[n]
        /\ c.current # "jammed"
        /\ c.seq = last[n] => c.current = phys[n]
        /\ StampFits(n, c)

HealthIsTrue ==
    \A n \in NodeIds : \A h \in Samples(n) :
        h.seq <= last[n] /\ (h.seq = last[n] => h.current = phys[n])

AuthsAreTrue ==
    \A n \in NodeIds : \A a \in Auths(n) :
        /\ a.seq \in 1..seq
        /\ a.issuer = tapper[a.seq]
        /\ StampFits(n, a)

\* Two reports of one change say the same.
ReportsAgree ==
    \A n \in NodeIds :
        /\ \A c, d \in Changes(n) : c.seq = d.seq => c = d
        /\ \A h \in Samples(n), c \in Changes(n) :
              h.seq = c.seq => h.current = c.current
        /\ \A h, g \in Samples(n) : h.seq = g.seq => h.current = g.current

\* A tap and a change with one stamp are one.
StampsIdentify ==
    \A n \in NodeIds : clock[n] = "uptime" /\ n \notin rebooted =>
        \A c \in Changes(n), a \in Auths(n) : c.stamp = a.stamp => c.seq = a.seq

FactInv == ChangesAreTrue /\ HealthIsTrue /\ AuthsAreTrue /\ ReportsAgree
             /\ StampsIdentify

-----------------------------------------------------------------------------
(* Order.                                                                    *)

\* A change is newer than what precedes it, a sample at least as new.
QueueOrder ==
    \A n \in NodeIds : \A i, j \in DOMAIN queue :
        /\ i < j
        /\ About(i, n, "lock/last") \/ About(i, n, "health")
        => /\ About(j, n, "lock/last") => queue[i].body.seq < queue[j].body.seq
           /\ About(j, n, "health") => queue[i].body.seq <= queue[j].body.seq

NotBehindEvent(n, x) == Event(n) # None => Event(n).seq <= x.seq
IsEvent(n, c) == Event(n) # None /\ Event(n).seq = c.seq
\* A change that Home Assistant does not know is newer than its snapshot.
NewsOf(n, c) == Snapshot(n) = None \/ Snapshot(n).seq < c.seq \/ IsEvent(n, c)

QueueIsAhead ==
    \A n \in NodeIds : \A i \in DOMAIN queue :
        /\ About(i, n, "health") =>
              /\ NotBehindEvent(n, queue[i].body)
              /\ Snapshot(n) # None => Snapshot(n).seq <= queue[i].body.seq
        /\ About(i, n, "lock/last") =>
              /\ NotBehindEvent(n, queue[i].body)
              /\ NewsOf(n, queue[i].body)
              /\ Kept(n) # None /\ queue[i].body.seq <= Kept(n).seq

RetainedIsAhead ==
    \A n \in NodeIds :
        /\ Kept(n) # None =>
              /\ NotBehindEvent(n, Kept(n))
              /\ NewsOf(n, Kept(n))
              /\ connected => Kept(n) \in InFlight(n, "lock/last") \/ IsEvent(n, Kept(n))
        /\ phys[n] # "jammed" /\ last[n] > 0 =>
              Kept(n) # None /\ Kept(n).seq = last[n]

\* Where a sample does not show a jam or the start, its change is known or is in
\* front of it.
SamplesAreExplained ==
    \A n \in NodeIds : \A j \in DOMAIN queue : About(j, n, "health") =>
        \/ queue[j].body.current = "jammed"
        \/ queue[j].body.seq = 0
        \/ IsEvent(n, queue[j].body)
        \/ \E i \in DOMAIN queue : i < j /\ About(i, n, "lock/last")
                                    /\ queue[i].body.seq = queue[j].body.seq

OrderInv == QueueOrder /\ QueueIsAhead /\ RetainedIsAhead /\ SamplesAreExplained

-----------------------------------------------------------------------------
(* Records.                                                                  *)

InSession(i) == i \in DOMAIN log /\ i > session

\* A change of the device's own that Home Assistant knows was announced, or was
\* too old to be.
EventIsDealtWith ==
    \A n \in NodeIds :
        Event(n) # None /\ Event(n).source \in DEVICE_INITIATED_SOURCES =>
            Mark(n) = KeyOf(Event(n)) \/ ~is_recent(Event(n).stamp, horizon)

\* The log of this session is not ahead of what is known; what it took from a
\* snapshot it takes once, for the snapshot has moved on.
LogIsNotAhead ==
    \A n \in NodeIds : \A i \in DOMAIN log : InSession(i) /\ log[i].node = n =>
        /\ Event(n) # None
        /\ log[i].seq <= Event(n).seq
        /\ log[i].seq = Event(n).seq /\ Mark(n) # KeyOf(Event(n)) =>
              Snapshot(n) # None /\ Snapshot(n).seq >= Event(n).seq

LogSeqs == \A i \in DOMAIN log : log[i].seq \in 1..seq

\* PersonIsTheTapper, and the stamp it reads is there.
PersonIsReal ==
    \A i \in DOMAIN log : log[i].actor # log[i].source =>
        /\ log[i].stamp # None
        /\ log[i].stamp.clock = clock[log[i].node]
        /\ clock[log[i].node] = "wall" \/ log[i].node \notin rebooted =>
              log[i].actor = tapper[log[i].seq]

RecordInv == SnapshotNeverHidesEvent /\ EventIsDealtWith /\ LogIsNotAhead
               /\ LogSeqs /\ LogFollowsTheDoor /\ PersonIsReal

MqttInv == TypeInv /\ FactInv /\ OrderInv /\ RecordInv

-----------------------------------------------------------------------------
(* Messages.                                                                 *)

\* The bodies of the three topics.
LEMMA WireBodies ==
  ASSUME NEW m \in Wire
  PROVE  /\ m.node \in NodeIds /\ m.topic \in WireTopics /\ m.topic \in AllTopics
         /\ m \in Message(m.topic)
         /\ m.topic = "lock/last" => m.body \in LockChange
         /\ m.topic = "last_auth" => m.body \in LastAuth
         /\ m.topic = "health" => m.body \in Health
  <1>1. PICK t \in WireTopics : m \in Message(t)
    BY DEF Wire
  <1>2. m.node \in NodeIds /\ m.topic = t /\ m.body \in Body(t)
    BY <1>1 DEF Message
  <1>3. t \in {"lock/last", "last_auth", "health"} /\ t \in AllTopics
    BY DEF WireTopics, RetainedTopics, AllTopics
  <1>. QED
    BY <1>1, <1>2, <1>3 DEF Body

\* What the nodes publish is on the wire as they wrote it.
LEMMA EnvelopeIsWire ==
  ASSUME NEW n \in NodeIds, NEW t \in WireTopics, NEW b \in Body(t)
  PROVE  /\ Envelope(n, t, b) \in Wire
         /\ Envelope(n, t, b).node = n
         /\ Envelope(n, t, b).topic = t
         /\ Envelope(n, t, b).body = b
         /\ Envelope(n, t, b).form = "ok"
  <1>1. Envelope(n, t, b) \in Message(t)
    BY DEF Envelope, Message, Form
  <1>. QED
    BY <1>1 DEF Envelope, Wire

\* The bodies by topic.
LEMMA WireBody ==
  /\ Body("lock/last") = LockChange
  /\ Body("last_auth") = LastAuth
  /\ Body("health") = Health
  /\ {"lock/last", "last_auth", "health"} = WireTopics
  BY DEF Body, WireTopics, RetainedTopics

-----------------------------------------------------------------------------
(* What publishing the messages Ms of node n does, and what a replay is.     *)

Published(n, Ms) ==
    /\ connected' = connected
    /\ \A i \in DOMAIN queue : i \in DOMAIN queue' /\ queue'[i] = queue[i]
    /\ \A i \in DOMAIN queue' : i \notin DOMAIN queue =>
          queue'[i] \in Ms /\ connected /\ \A j \in DOMAIN queue : j < i
    /\ \A i, j \in DOMAIN queue' :
          i \notin DOMAIN queue /\ j \notin DOMAIN queue /\ i # j =>
            queue'[i] # queue'[j]
    /\ connected => \A m \in Ms : \E i \in DOMAIN queue' : queue'[i] = m
    /\ \A t \in RetainedTopics :
          \/ \E m \in Ms : m.topic = t /\ retained'[n][t] = m.body
          \/ (\A m \in Ms : m.topic # t) /\ retained'[n][t] = retained[n][t]
    /\ \A k \in NodeIds \ {n} : retained'[k] = retained[k]

\* The retained messages after a publish.
LEMMA PublishRetains ==
  ASSUME TypeInv, NEW n \in NodeIds, NEW msgs \in Seq(Wire), Publish(n, msgs)
  PROVE  /\ retained' \in [NodeIds -> [RetainedTopics ->
                              LockChange \cup LastAuth \cup {None}]]
         /\ \A t \in RetainedTopics :
              \/ \E i \in DOMAIN msgs :
                    msgs[i].topic = t /\ retained'[n][t] = msgs[i].body
              \/ /\ \A i \in DOMAIN msgs : msgs[i].topic # t
                 /\ retained'[n][t] = retained[n][t]
         /\ \A k \in NodeIds \ {n} : retained'[k] = retained[k]
  <1>. DEFINE Sends(t) == \E i \in DOMAIN msgs : msgs[i].topic = t
              pick(t) == CHOOSE j \in DOMAIN msgs : msgs[j].topic = t
              row == [t \in RetainedTopics |->
                        IF Sends(t) THEN msgs[pick(t)].body ELSE retained[n][t]]
  <1>1. retained \in [NodeIds -> [RetainedTopics ->
                          LockChange \cup LastAuth \cup {None}]]
    BY DEF TypeInv, BrokerTypes
  <1>2. retained' = [retained EXCEPT ![n] = row]
    BY <1>1 DEF Publish
  <1>3. \A t : Sends(t) => pick(t) \in DOMAIN msgs /\ msgs[pick(t)].topic = t
    OBVIOUS
  <1>4. ASSUME NEW t \in RetainedTopics, Sends(t)
        PROVE  msgs[pick(t)].body \in LockChange \cup LastAuth
    <2>1. pick(t) \in DOMAIN msgs /\ msgs[pick(t)].topic = t
      BY <1>3, <1>4
    <2>2. msgs[pick(t)] \in Wire
      BY <2>1
    <2>. HIDE DEF pick
    <2>. QED
      BY <2>1, <2>2, WireBodies DEF RetainedTopics
  <1>. HIDE DEF pick
  <1>5. row \in [RetainedTopics -> LockChange \cup LastAuth \cup {None}]
    BY <1>1, <1>4
  <1>6. ASSUME NEW t \in RetainedTopics
        PROVE  \/ \E i \in DOMAIN msgs :
                     msgs[i].topic = t /\ row[t] = msgs[i].body
               \/ /\ \A i \in DOMAIN msgs : msgs[i].topic # t
                  /\ row[t] = retained[n][t]
    BY <1>3
  <1>. HIDE DEF row
  <1>7. retained'[n] = row /\ \A k \in NodeIds \ {n} : retained'[k] = retained[k]
    BY <1>1, <1>2
  <1>8. retained' \in [NodeIds -> [RetainedTopics ->
                          LockChange \cup LastAuth \cup {None}]]
    BY <1>1, <1>2, <1>5
  <1>. QED
    BY <1>6, <1>7, <1>8

\* One message, or two of different topics, of node n.
Messages(n, msgs, Ms) ==
    /\ msgs \in Seq(Wire)
    /\ \A m \in Ms : m.node = n /\ m.form = "ok"
    /\ \/ \E m \in Wire : msgs = <<m>> /\ Ms = {m}
       \/ \E m, o \in Wire : msgs = <<m, o>> /\ Ms = {m, o} /\ m.topic # o.topic

\* Publishing appends to the queue while Home Assistant listens, and replaces
\* what is retained.
LEMMA PublishEffect ==
  ASSUME TypeInv, NEW n \in NodeIds, NEW msgs, NEW Ms, Messages(n, msgs, Ms),
         Publish(n, msgs)
  PROVE  Published(n, Ms)
  <1>1. /\ DOMAIN msgs = 1..Len(msgs)
        /\ \A i \in DOMAIN msgs : msgs[i] \in Ms
        /\ \A m \in Ms : \E i \in DOMAIN msgs : msgs[i] = m
        /\ \A i, j \in DOMAIN msgs : i # j => msgs[i] # msgs[j]
        /\ msgs \in Seq(Wire)
    <2>1. CASE \E m \in Wire : msgs = <<m>> /\ Ms = {m}
      BY <2>1 DEF Messages
    <2>2. ASSUME NEW m \in Wire, NEW o \in Wire, msgs = <<m, o>>, Ms = {m, o},
                 m.topic # o.topic
          PROVE  /\ DOMAIN msgs = 1..Len(msgs)
                 /\ \A i \in DOMAIN msgs : msgs[i] \in Ms
                 /\ \A q \in Ms : \E i \in DOMAIN msgs : msgs[i] = q
                 /\ \A i, j \in DOMAIN msgs : i # j => msgs[i] # msgs[j]
                 /\ msgs \in Seq(Wire)
      <3>1. m # o
        BY <2>2
      <3>2. /\ DOMAIN msgs = 1..2 /\ Len(msgs) = 2
            /\ msgs[1] = m /\ msgs[2] = o
        BY <2>2
      <3>. QED
        BY <2>2, <3>1, <3>2 DEF Messages
    <2>. QED
      BY <2>1, <2>2 DEF Messages
  <1>2. queue \in Seq(Wire)
    BY DEF TypeInv, BrokerTypes
  <1>3. /\ \A t \in RetainedTopics :
              \/ \E m \in Ms : m.topic = t /\ retained'[n][t] = m.body
              \/ (\A m \in Ms : m.topic # t) /\ retained'[n][t] = retained[n][t]
        /\ \A k \in NodeIds \ {n} : retained'[k] = retained[k]
    BY <1>1, PublishRetains
  <1>4. connected' = connected /\ queue' = IF connected THEN queue \o msgs ELSE queue
    BY DEF Publish
  <1>5. CASE connected
    <2>1. /\ queue' = queue \o msgs
          /\ DOMAIN queue = 1..Len(queue)
          /\ DOMAIN queue' = 1..(Len(queue) + Len(msgs))
          /\ Len(queue) \in Nat /\ Len(msgs) \in Nat
      BY <1>1, <1>2, <1>4, <1>5
    <2>2. \A i \in DOMAIN queue : i \in DOMAIN queue' /\ queue'[i] = queue[i]
      BY <1>1, <1>2, <2>1
    <2>3. \A i \in DOMAIN queue' : i \notin DOMAIN queue =>
             /\ i - Len(queue) \in DOMAIN msgs
             /\ queue'[i] = msgs[i - Len(queue)]
             /\ \A j \in DOMAIN queue : j < i
      BY <1>1, <1>2, <2>1
    <2>4. \A m \in Ms : \E i \in DOMAIN queue' : queue'[i] = m
      <3>1. TAKE m \in Ms
      <3>2. PICK j \in DOMAIN msgs : msgs[j] = m
        BY <1>1
      <3>3. Len(queue) + j \in DOMAIN queue' /\ queue'[Len(queue) + j] = m
        BY <1>1, <1>2, <2>1, <3>2
      <3>. QED
        BY <3>3
    <2>5. \A i, j \in DOMAIN queue' :
             i \notin DOMAIN queue /\ j \notin DOMAIN queue /\ i # j =>
               queue'[i] # queue'[j]
      <3>1. TAKE i, j \in DOMAIN queue'
      <3>2. HAVE i \notin DOMAIN queue /\ j \notin DOMAIN queue /\ i # j
      <3>3. i - Len(queue) # j - Len(queue)
        BY <2>1, <3>2
      <3>. QED
        BY <1>1, <2>3, <3>2, <3>3
    <2>. QED
      BY <1>1, <1>3, <1>4, <1>5, <2>2, <2>3, <2>4, <2>5 DEF Published
  <1>6. CASE ~connected
    BY <1>3, <1>4, <1>6 DEF Published
  <1>. QED
    BY <1>5, <1>6

\* Publishing keeps the broker well typed.
LEMMA PublishTypes ==
  ASSUME TypeInv, NEW n \in NodeIds, NEW msgs, NEW Ms, Messages(n, msgs, Ms),
         Publish(n, msgs)
  PROVE  BrokerTypes'
  <1>1. queue \in Seq(Wire) /\ msgs \in Seq(Wire) /\ Ms \subseteq Wire
    BY DEF TypeInv, BrokerTypes, Messages
  <1>2. retained' \in [NodeIds -> [RetainedTopics ->
                          LockChange \cup LastAuth \cup {None}]]
    BY <1>1, PublishRetains
  <1>3. Published(n, Ms)
    BY PublishEffect
  <1>4. ASSUME NEW k \in NodeIds
        PROVE  /\ Kept(k)' \in LockChange \cup {None}
               /\ retained'[k]["last_auth"] \in LastAuth \cup {None}
    <2>1. CASE k # n
      BY <1>3, <2>1 DEF Published, TypeInv, BrokerTypes, Kept
    <2>2. CASE k = n
      <3>1. "lock/last" \in RetainedTopics /\ "last_auth" \in RetainedTopics
        BY DEF RetainedTopics
      <3>2. Kept(n)' \in LockChange \cup {None}
        BY <1>1, <1>3, <3>1, WireBodies DEF Published, TypeInv, BrokerTypes, Kept
      <3>3. retained'[n]["last_auth"] \in LastAuth \cup {None}
        BY <1>1, <1>3, <3>1, WireBodies DEF Published, TypeInv, BrokerTypes
      <3>. QED
        BY <2>2, <3>2, <3>3
    <2>. QED
      BY <2>1, <2>2
  <1>5. queue' \in Seq(Wire) /\ Len(queue') <= MaxQueue
    BY <1>1 DEF Publish, TypeInv, DoorTypes, BrokerTypes
  <1>6. \A i \in DOMAIN queue' : queue'[i].form = "ok"
    BY <1>3 DEF Published, Messages, TypeInv, BrokerTypes
  <1>7. connected' \in BOOLEAN /\ (~connected' => queue' = <<>>)
    BY DEF Publish, TypeInv, DoorTypes, BrokerTypes
  <1>. QED
    BY <1>2, <1>4, <1>5, <1>6, <1>7 DEF BrokerTypes, Kept

\* What a new subscription is sent: each retained message, once.
Replay(q) ==
    /\ q \in Seq(Wire)
    /\ Len(q) <= MaxQueue
    /\ \A i \in DOMAIN q :
          /\ q[i].form = "ok"
          /\ q[i].topic \in RetainedTopics
          /\ q[i].body = retained[q[i].node][q[i].topic]
          /\ q[i].body # None
    /\ \A i, j \in DOMAIN q :
          q[i].node = q[j].node /\ q[i].topic = q[j].topic => i = j
    /\ \A n \in NodeIds, t \in RetainedTopics : retained[n][t] # None =>
          \E i \in DOMAIN q : q[i].node = n /\ q[i].topic = t

\* There are at most two retained messages of a node.
LEMMA KeptIsFinite ==
  ASSUME NEW S \in SUBSET (NodeIds \X RetainedTopics)
  PROVE  IsFiniteSet(S) /\ Cardinality(S) \in Nat /\ Cardinality(S) <= MaxQueue
  <1>1. IsFiniteSet(RetainedTopics) /\ Cardinality(RetainedTopics) = 2
    <2>1. RetainedTopics = {"lock/last"} \cup {"last_auth"}
      BY DEF RetainedTopics
    <2>2. IsFiniteSet({"lock/last"}) /\ Cardinality({"lock/last"}) = 1
      BY FS_Singleton
    <2>. QED
      BY <2>1, <2>2, FS_AddElement
  <1>2. IsFiniteSet(NodeIds) /\ Cardinality(NodeIds) \in Nat
    BY RoomAssumption, FS_CardinalityType
  <1>3. /\ IsFiniteSet(NodeIds \X RetainedTopics)
        /\ Cardinality(NodeIds \X RetainedTopics) = Cardinality(NodeIds) * 2
    BY <1>1, <1>2, FS_Product
  <1>4. /\ IsFiniteSet(S)
        /\ Cardinality(S) <= Cardinality(NodeIds \X RetainedTopics)
    BY <1>3, FS_Subset
  <1>5. Cardinality(S) \in Nat
    BY <1>4, FS_CardinalityType
  <1>. QED
    BY <1>2, <1>3, <1>4, <1>5, RoomAssumption, BrokerAssumption

\* An arrangement of a finite set names each member, once.
LEMMA Arrangement ==
  ASSUME NEW S, IsFiniteSet(S), NEW f \in SetToSeqs(S)
  PROVE  /\ f \in [1..Cardinality(S) -> S]
         /\ \A i, j \in 1..Cardinality(S) : f[i] = f[j] => i = j
         /\ \A x \in S : \E i \in 1..Cardinality(S) : f[i] = x
  <1>. DEFINE D == 1..Cardinality(S)
  <1>1. f \in [D -> S] /\ \A i, j \in D : i # j => f[i] # f[j]
    BY DEF SetToSeqs
  <1>2. Cardinality(S) \in Nat
    BY FS_CardinalityType
  <1>3. IsFiniteSet(D) /\ Cardinality(D) = Cardinality(S)
    BY <1>2, FS_Interval
  <1>. HIDE DEF D
  <1>4. f \in Injection(D, S)
    BY <1>1 DEF Injection, IsInjective
  <1>5. f \in Surjection(D, S)
    BY <1>3, <1>4, FS_Injection
  <1>6. \A x \in S : \E i \in D : f[i] = x
    BY <1>5 DEF Surjection
  <1>. QED
    BY <1>1, <1>6 DEF D

\* A new subscription is sent what Replay says (mqtt.py async_subscribe).
LEMMA ReplaysAreReplays ==
  ASSUME TypeInv, NEW q \in Replays
  PROVE  Replay(q)
  <1>. DEFINE kept == {p \in NodeIds \X RetainedTopics : retained[p[1]][p[2]] # None}
              N == Cardinality(kept)
  <1>1. IsFiniteSet(kept) /\ N \in Nat /\ N <= MaxQueue
    BY KeptIsFinite
  <1>2. PICK order \in SetToSeqs(kept) :
            q = [i \in DOMAIN order |-> Envelope(order[i][1], order[i][2],
                                           retained[order[i][1]][order[i][2]])]
    BY DEF Replays
  <1>. HIDE DEF kept
  <1>3. /\ order \in [1..N -> kept]
        /\ \A i, j \in 1..N : order[i] = order[j] => i = j
        /\ \A x \in kept : \E i \in 1..N : order[i] = x
    BY <1>1, <1>2, Arrangement
  <1>. USE DEF kept
  <1>4. /\ DOMAIN order = 1..N
        /\ q = [i \in 1..N |-> Envelope(order[i][1], order[i][2],
                                        retained[order[i][1]][order[i][2]])]
    BY <1>2, <1>3
  <1>5. ASSUME NEW i \in 1..N
        PROVE  /\ q[i] \in Wire /\ q[i].form = "ok"
               /\ q[i].node = order[i][1] /\ q[i].topic = order[i][2]
               /\ q[i].topic \in RetainedTopics
               /\ q[i].body = retained[q[i].node][q[i].topic]
               /\ q[i].body # None
               /\ order[i] = <<q[i].node, q[i].topic>>
    <2>. DEFINE k == order[i][1]
                t == order[i][2]
                b == retained[k][t]
    <2>1. order[i] \in kept
      BY <1>3
    <2>2. k \in NodeIds /\ t \in RetainedTopics /\ b # None /\ order[i] = <<k, t>>
      BY <2>1
    <2>3. q[i] = Envelope(k, t, b)
      BY <1>4
    <2>. HIDE DEF k, t
    <2>4. b \in Body(t) /\ t \in WireTopics
      BY <2>2, WireBody DEF TypeInv, BrokerTypes, Kept, RetainedTopics
    <2>5. /\ q[i] \in Wire /\ q[i].form = "ok" /\ q[i].node = k /\ q[i].topic = t
          /\ q[i].body = b
      BY <2>2, <2>3, <2>4, EnvelopeIsWire
    <2>. QED
      BY <2>2, <2>5 DEF k, t
  <1>. HIDE DEF kept, N
  <1>6. DOMAIN q = 1..N /\ q \in Seq(Wire) /\ Len(q) = N
    <2>1. q \in [1..N -> Wire]
      BY <1>4, <1>5
    <2>. QED
      BY <1>1, <2>1
  <1>7. ASSUME NEW n \in NodeIds, NEW t \in RetainedTopics, retained[n][t] # None
        PROVE  \E i \in DOMAIN q : q[i].node = n /\ q[i].topic = t
    <2>1. <<n, t>> \in kept
      BY <1>7 DEF kept
    <2>2. PICK i \in 1..N : order[i] = <<n, t>>
      BY <1>3, <2>1
    <2>. QED
      BY <1>5, <1>6, <2>2
  <1>8. \A i, j \in DOMAIN q :
           q[i].node = q[j].node /\ q[i].topic = q[j].topic => i = j
    <2>1. TAKE i, j \in DOMAIN q
    <2>2. HAVE q[i].node = q[j].node /\ q[i].topic = q[j].topic
    <2>3. i \in 1..N /\ j \in 1..N
      BY <1>6
    <2>4. order[i] = order[j]
      <3>1. order[i] = <<q[i].node, q[i].topic>> /\ order[j] = <<q[j].node, q[j].topic>>
        BY <1>5, <2>3
      <3>. QED
        BY <2>2, <3>1
    <2>. QED
      BY <1>3, <2>3, <2>4
  <1>. QED
    BY <1>1, <1>5, <1>6, <1>7, <1>8 DEF Replay

-----------------------------------------------------------------------------
(* What a delivery does.                                                     *)

\* The head of the queue is a message of one of the three topics, and the rest
\* moves up by one.
LEMMA HeadIsGone ==
  ASSUME TypeInv, Deliver
  PROVE  /\ queue # <<>> /\ queue[1] \in Wire /\ queue[1].form = "ok"
         /\ 1 \in DOMAIN queue
         /\ queue' \in Seq(Wire) /\ Len(queue') <= MaxQueue
         /\ DOMAIN queue' \subseteq DOMAIN queue
         /\ \A i \in DOMAIN queue' : i + 1 \in DOMAIN queue /\ queue'[i] = queue[i + 1]
         /\ \A i \in DOMAIN queue : i # 1 => i - 1 \in DOMAIN queue'
         /\ Become(Handle(CoordState, queue[1], horizon))
  <1>1. queue \in Seq(Wire) /\ queue # <<>> /\ Len(queue) <= MaxQueue
    BY DEF TypeInv, BrokerTypes, Deliver
  <1>2. /\ Len(queue) \in Nat /\ Len(queue) > 0 /\ DOMAIN queue = 1..Len(queue)
        /\ Head(queue) = queue[1] /\ queue' = Tail(queue)
    BY <1>1 DEF Deliver
  <1>3. /\ queue' \in Seq(Wire) /\ Len(queue') = Len(queue) - 1
        /\ DOMAIN queue' = 1..(Len(queue) - 1)
        /\ \A i \in DOMAIN queue' : queue'[i] = queue[i + 1]
    BY <1>1, <1>2
  <1>4. queue[1] \in Wire
    BY <1>1, <1>2
  <1>5. 1 \in DOMAIN queue /\ queue[1].form = "ok"
    <2>1. 1 \in DOMAIN queue
      BY <1>2
    <2>. QED
      BY <2>1 DEF TypeInv, BrokerTypes
  <1>6. Become(Handle(CoordState, queue[1], horizon))
    BY <1>2 DEF Deliver
  <1>7. MaxQueue \in Nat
    BY BrokerAssumption
  <1>. QED
    BY <1>1, <1>2, <1>3, <1>4, <1>5, <1>6, <1>7

\* What Home Assistant holds of a node, one that is not there included.
Seen(n) == ensure_node(nodes, n)[n]

\* The four fields that the argument is about.
LEMMA SeenIsKnown ==
  ASSUME TypeInv, NEW n \in NodeIds
  PROVE  /\ Seen(n) \in Node
         /\ Event(n) = Seen(n).lock_change
         /\ Snapshot(n) = Seen(n).health
         /\ Auth(n) = Seen(n).last_auth
         /\ Mark(n) = Seen(n).attributed_lock_change
         /\ Event(n) \in LockChange \cup {None}
         /\ Snapshot(n) \in Health \cup {None}
         /\ Auth(n) \in LastAuth \cup {None}
         /\ Mark(n) \in ChangeKey \cup {None}
  <1>1. nodes \in NodeDict
    BY DEF TypeInv, CoordTypeOK
  <1>2. Seen(n) \in Node
    BY <1>1, EnsureType DEF Seen
  <1>3. /\ Event(n) = Seen(n).lock_change
        /\ Snapshot(n) = Seen(n).health
        /\ Auth(n) = Seen(n).last_auth
        /\ Mark(n) = Seen(n).attributed_lock_change
    <2>1. CASE nodes[n] = None
      <3>1. Seen(n) = NewNode
        BY <1>1, <2>1 DEF Seen, ensure_node, NodeDict
      <3>. QED
        BY <2>1, <3>1 DEF NewNode, Event, Snapshot, Auth, Mark, Known
    <2>2. CASE nodes[n] # None
      BY <2>2 DEF Seen, ensure_node, Event, Snapshot, Auth, Mark, Known
    <2>. QED
      BY <2>1, <2>2
  <1>. QED
    BY <1>2, <1>3 DEF Node

\* Node n is replaced by nd; what is logged is appended.
Replaced(n, nd, logged) ==
    /\ nd \in Node
    /\ nodes' = [nodes EXCEPT ![n] = nd]
    /\ log' = log \o logged
    /\ \A k \in NodeIds \ {n} : nodes'[k] = nodes[k]
    /\ nodes'[n] = nd /\ nd # None
    /\ Event(n)' = nd.lock_change
    /\ Snapshot(n)' = nd.health
    /\ Auth(n)' = nd.last_auth
    /\ Mark(n)' = nd.attributed_lock_change

\* Where dispatch updates one node, that node is replaced.
LEMMA UpdateReplaces ==
  ASSUME TypeInv, NEW m, m.node \in NodeIds, m.form = "ok", NEW nd \in Node, NEW logged,
         dispatch(nodes, m, horizon)
             = [nodes |-> [nodes EXCEPT ![m.node] = nd], updated |-> TRUE,
                logged |-> logged],
         Become(Handle(CoordState, m, horizon))
  PROVE  Replaced(m.node, nd, logged)
  <1>. DEFINE out == dispatch(nodes, m, horizon)
              n == m.node
  <1>1. nodes \in NodeDict /\ CoordState.nodes = nodes /\ CoordState.log = log
    BY DEF TypeInv, CoordTypeOK, CoordState
  <1>2. /\ out.nodes = [nodes EXCEPT ![n] = nd]
        /\ out.updated = TRUE /\ out.logged = logged
    OBVIOUS
  <1>. HIDE DEF out, n
  <1>3. Handle(CoordState, m, horizon) = Pushed(CoordState, out)
    <2>. DEFINE c == CoordState
    <2>1. out = dispatch(c.nodes, m, horizon) /\ m.form # "foreign"
      BY <1>1 DEF out
    <2>. HIDE DEF c
    <2>2. dispatch(c.nodes, m, horizon).updated = TRUE
      BY <1>2, <2>1
    <2>3. Handle(c, m, horizon) = Pushed(c, dispatch(c.nodes, m, horizon))
      BY <2>1, <2>2, HandleUpdates
    <2>. QED
      BY <2>1, <2>3 DEF c
  <1>4. nodes' = [nodes EXCEPT ![n] = nd] /\ log' = log \o logged
    BY <1>1, <1>2, <1>3 DEF Become, Pushed
  <1>5. nd # None
    BY NoneAssumption
  <1>6. nodes'[n] = nd /\ \A k \in NodeIds \ {n} : nodes'[k] = nodes[k]
    BY <1>1, <1>4 DEF NodeDict, n
  <1>7. /\ Event(n)' = nd.lock_change
        /\ Snapshot(n)' = nd.health
        /\ Auth(n)' = nd.last_auth
        /\ Mark(n)' = nd.attributed_lock_change
    BY <1>5, <1>6 DEF Event, Snapshot, Auth, Mark, Known
  <1>. QED
    BY <1>4, <1>5, <1>6, <1>7 DEF Replaced, n

\* The person named for change c of node n, and the entry about it.
Actor(n, c) ==
    IF /\ c.source = "homekey"
       /\ Auth(n) # None /\ Auth(n).issuer # None /\ Auth(n).stamp # None
       /\ Auth(n).stamp = c.stamp
    THEN Auth(n).issuer
    ELSE c.source

Entry(n, c) ==
    [node |-> n, current |-> c.current, source |-> c.source, stamp |-> c.stamp,
     actor |-> Actor(n, c), seq |-> c.seq, written |-> logbook = "takes"]

\* The event of node n is announced.
Announced(n, c) ==
    /\ c.source \in DEVICE_INITIATED_SOURCES
    /\ Mark(n) # KeyOf(c)
    /\ is_recent(c.stamp, horizon)

\* What the snapshot h of node n explains.
Explained(n, h) ==
    /\ Snapshot(n) # None /\ Snapshot(n).current # None
    /\ h.current \notin {None, Snapshot(n).current}
    /\ Event(n) # None
    /\ Event(n).current = h.current
    /\ Mark(n) # KeyOf(Event(n))
    /\ Event(n).source \in DEVICE_INITIATED_SOURCES

Others(n) == \A k \in NodeIds \ {n} : nodes'[k] = nodes[k]

\* A change is remembered, and announced or not (_handle_lock_last).
TakesEvent(n, c) ==
    /\ nodes'[n] # None /\ nodes'[n].lock_change_is_fresh = TRUE /\ Others(n)
    /\ Event(n)' = c /\ Snapshot(n)' = Snapshot(n) /\ Auth(n)' = Auth(n)
    /\ IF Announced(n, c)
       THEN log' = log \o <<Entry(n, c)>> /\ Mark(n)' = KeyOf(c)
       ELSE log' = log \o <<>> /\ Mark(n)' = Mark(n)

\* A snapshot is remembered, and explained or not (_handle_health).
TakesSnapshot(n, h) ==
    /\ nodes'[n] # None /\ nodes'[n].lock_change_is_fresh = FALSE /\ Others(n)
    /\ Event(n)' = Event(n) /\ Snapshot(n)' = h /\ Auth(n)' = Auth(n)
    /\ Mark(n)' = Mark(n)
    /\ log' = log \o IF Explained(n, h) THEN <<Entry(n, Event(n))>> ELSE <<>>

\* An authorisation is remembered (_handle_last_auth).
TakesAuth(n, a) ==
    /\ nodes'[n] # None /\ Others(n)
    /\ nodes'[n].lock_change_is_fresh = Seen(n).lock_change_is_fresh
    /\ Event(n)' = Event(n) /\ Snapshot(n)' = Snapshot(n) /\ Auth(n)' = a
    /\ Mark(n)' = Mark(n)
    /\ log' = log \o <<>>

\* What an entry about the change in nd says.
LEMMA EntryOfEvent ==
  ASSUME NEW n \in NodeIds, NEW nd \in Node, nd.lock_change # None,
         nd.last_auth = Auth(n)
  PROVE  async_log_lock_cause(n, nd) = Entry(n, nd.lock_change)
  BY DEF async_log_lock_cause, actor_for, Entry, Actor

\* A delivered change is taken.
LEMMA EventIsTaken ==
  ASSUME TypeInv, Deliver, queue[1].topic = "lock/last"
  PROVE  \E n \in NodeIds, c \in LockChange :
            /\ queue[1].node = n /\ queue[1].body = c /\ c # None
            /\ TakesEvent(n, c)
  <1>0. PICK m : m = queue[1]
    OBVIOUS
  <1>. DEFINE n == m.node
              c == m.body
              old == Seen(n)
              nd == take_event(old, c)
              news == attribute_lock_event(nd, horizon)
              marked == mark_attributed(nd, news)
  <1>1. /\ n \in NodeIds /\ c \in LockChange /\ c # None
        /\ m.form = "ok" /\ m.topic = "lock/last"
        /\ Become(Handle(CoordState, m, horizon))
    BY <1>0, HeadIsGone, WireBodies, KeyAssumption
  <1>2. dispatch(nodes, m, horizon) = handle_lock_last(nodes, m, horizon)
    BY <1>1 DEF dispatch, ReportTopics
  <1>3. handle_lock_last(nodes, m, horizon)
          = Logging(Updated(nodes, n, marked), n, nd, news)
    BY DEF handle_lock_last, Seen
  <1>. HIDE DEF n, c, old
  <1>4. /\ old \in Node /\ old.lock_change = Event(n) /\ old.health = Snapshot(n)
        /\ old.last_auth = Auth(n) /\ old.attributed_lock_change = Mark(n)
    BY <1>1, SeenIsKnown DEF old
  <1>5. /\ nd \in Node /\ nd.lock_change = c /\ nd.health = Snapshot(n)
        /\ nd.last_auth = Auth(n) /\ nd.attributed_lock_change = Mark(n)
        /\ nd.lock_change_is_fresh = TRUE
    BY <1>1, <1>4 DEF take_event, Node
  <1>. HIDE DEF nd
  <1>6. lock_change_key(nd) = KeyOf(c) /\ KeyOf(c) \in ChangeKey
    BY <1>1, <1>5 DEF lock_change_key, KeyOf, ChangeKey, LockChange
  <1>7. news <=> Announced(n, c)
    BY <1>5, <1>6 DEF attribute_lock_event, Announced
  <1>8. async_log_lock_cause(n, nd) = Entry(n, c)
    BY <1>1, <1>5, EntryOfEvent
  <1>9. CASE news
    <2>1. /\ marked \in Node /\ marked.lock_change = c /\ marked.health = Snapshot(n)
          /\ marked.last_auth = Auth(n)
          /\ marked.attributed_lock_change = KeyOf(c)
          /\ marked.lock_change_is_fresh = TRUE
      BY <1>5, <1>6, <1>9 DEF mark_attributed, Node
    <2>. HIDE DEF marked
    <2>2. dispatch(nodes, m, horizon)
             = [nodes |-> [nodes EXCEPT ![n] = marked], updated |-> TRUE,
                logged |-> <<Entry(n, c)>>]
      BY <1>2, <1>3, <1>8, <1>9 DEF Logging, Updated
    <2>3. Replaced(n, marked, <<Entry(n, c)>>)
      BY <1>1, <2>1, <2>2, UpdateReplaces DEF n
    <2>4. TakesEvent(n, c)
      BY <1>7, <1>9, <2>1, <2>3 DEF TakesEvent, Replaced, Others
    <2>. QED
      BY <1>0, <1>1, <2>4 DEF n, c
  <1>10. CASE ~news
    <2>1. marked = nd
      BY <1>10 DEF mark_attributed
    <2>. HIDE DEF marked
    <2>2. dispatch(nodes, m, horizon)
             = [nodes |-> [nodes EXCEPT ![n] = nd], updated |-> TRUE, logged |-> <<>>]
      BY <1>2, <1>3, <1>10, <2>1 DEF Logging, Updated
    <2>3. Replaced(n, nd, <<>>)
      BY <1>1, <1>5, <2>2, UpdateReplaces DEF n
    <2>4. TakesEvent(n, c)
      BY <1>5, <1>7, <1>10, <2>3 DEF TakesEvent, Replaced, Others
    <2>. QED
      BY <1>0, <1>1, <2>4 DEF n, c
  <1>. QED
    BY <1>9, <1>10

\* A delivered snapshot is taken.
LEMMA SnapshotIsTaken ==
  ASSUME TypeInv, Deliver, queue[1].topic = "health"
  PROVE  \E n \in NodeIds, h \in Health :
            queue[1].node = n /\ queue[1].body = h /\ TakesSnapshot(n, h)
  <1>0. PICK m : m = queue[1]
    OBVIOUS
  <1>. DEFINE n == m.node
              h == m.body
              old == Seen(n)
              previous == IF old.health = None THEN None ELSE old.health.current
              nd == take_snapshot(old, h)
              news == attribute_lock_change(nd, previous)
              logged == IF news THEN <<async_log_lock_cause(n, nd)>> ELSE <<>>
  <1>1. /\ n \in NodeIds /\ h \in Health
        /\ m.form = "ok" /\ m.topic = "health"
        /\ Become(Handle(CoordState, m, horizon))
    BY <1>0, HeadIsGone, WireBodies
  <1>2. dispatch(nodes, m, horizon) = handle_health(nodes, m)
    BY <1>1 DEF dispatch, ReportTopics
  <1>3. handle_health(nodes, m)
          = [nodes |-> [nodes EXCEPT ![n] = nd], updated |-> TRUE, logged |-> logged]
    <2>1. handle_health(nodes, m) = Logging(Updated(nodes, n, nd), n, nd, news)
      BY DEF handle_health, Seen
    <2>. HIDE DEF nd, n, news
    <2>. QED
      BY <2>1 DEF Logging, Updated
  <1>. HIDE DEF n, h, old
  <1>4. /\ old \in Node /\ old.lock_change = Event(n) /\ old.health = Snapshot(n)
        /\ old.last_auth = Auth(n) /\ old.attributed_lock_change = Mark(n)
    BY <1>1, SeenIsKnown DEF old
  <1>5. /\ nd \in Node /\ nd.lock_change = Event(n) /\ nd.health = h
        /\ nd.last_auth = Auth(n) /\ nd.attributed_lock_change = Mark(n)
        /\ nd.lock_change_is_fresh = FALSE
    BY <1>1, <1>4 DEF take_snapshot, Node
  <1>. HIDE DEF nd
  <1>6. Replaced(n, nd, logged)
    BY <1>1, <1>2, <1>3, <1>5, UpdateReplaces DEF n
  <1>7. logged = IF Explained(n, h) THEN <<Entry(n, Event(n))>> ELSE <<>>
    <2>1. Event(n) # None =>
             /\ lock_change_key(nd) = KeyOf(Event(n))
             /\ async_log_lock_cause(n, nd) = Entry(n, Event(n))
      BY <1>1, <1>5, EntryOfEvent DEF lock_change_key, KeyOf
    <2>2. news <=> Explained(n, h)
      BY <1>4, <1>5, <2>1 DEF attribute_lock_change, Explained
    <2>. HIDE DEF news
    <2>3. Explained(n, h) => Event(n) # None
      BY DEF Explained
    <2>. QED
      BY <2>1, <2>2, <2>3
  <1>8. TakesSnapshot(n, h)
    BY <1>5, <1>6, <1>7 DEF TakesSnapshot, Replaced, Others
  <1>. QED
    BY <1>0, <1>1, <1>8 DEF n, h

\* A delivered authorisation is taken.
LEMMA AuthIsTaken ==
  ASSUME TypeInv, Deliver, queue[1].topic = "last_auth"
  PROVE  \E n \in NodeIds, a \in LastAuth :
            queue[1].node = n /\ queue[1].body = a /\ TakesAuth(n, a)
  <1>0. PICK m : m = queue[1]
    OBVIOUS
  <1>. DEFINE n == m.node
              a == m.body
              old == Seen(n)
              nd == [old EXCEPT !.last_auth = a]
  <1>1. /\ n \in NodeIds /\ a \in LastAuth
        /\ m.form = "ok" /\ m.topic = "last_auth"
        /\ Become(Handle(CoordState, m, horizon))
    BY <1>0, HeadIsGone, WireBodies
  <1>2. dispatch(nodes, m, horizon) = handle_last_auth(nodes, m)
    BY <1>1 DEF dispatch, ReportTopics
  <1>3. handle_last_auth(nodes, m)
          = [nodes |-> [nodes EXCEPT ![n] = nd], updated |-> TRUE, logged |-> <<>>]
    BY DEF handle_last_auth, Seen, Updated
  <1>. HIDE DEF n, a, old
  <1>4. /\ old \in Node /\ old.lock_change = Event(n) /\ old.health = Snapshot(n)
        /\ old.attributed_lock_change = Mark(n)
    BY <1>1, SeenIsKnown DEF old
  <1>5. /\ nd \in Node /\ nd.lock_change = Event(n) /\ nd.health = Snapshot(n)
        /\ nd.last_auth = a /\ nd.attributed_lock_change = Mark(n)
        /\ nd.lock_change_is_fresh = old.lock_change_is_fresh
    BY <1>1, <1>4 DEF Node
  <1>. HIDE DEF nd
  <1>6. Replaced(n, nd, <<>>)
    BY <1>1, <1>2, <1>3, <1>5, UpdateReplaces DEF n
  <1>7. TakesAuth(n, a)
    BY <1>5, <1>6 DEF TakesAuth, Replaced, Others, old
  <1>. QED
    BY <1>0, <1>1, <1>7 DEF n, a

-----------------------------------------------------------------------------
(* What happens at a door: a tap, a move of the bolt, or a jam.              *)

\* What message m of node n says of it, while it happens.
Telling(n, m) ==
    /\ m \in Wire /\ m.node = n /\ m.topic \in RetainedTopics /\ m.form = "ok"
    /\ m.body.seq = seq + 1
    /\ IF clock[n] = None THEN m.body.stamp = None
       ELSE /\ m.body.stamp # None
            /\ m.body.stamp.clock = clock[n]
            /\ clock[n] = "wall" => m.body.stamp.at = seq + 1
            /\ clock[n] = "uptime" => /\ m.body.stamp.at = up[n] + 1
                                      /\ up'[n] = up[n] + 1
    /\ m.topic = "last_auth" => m.body.issuer = tapper'[seq + 1]
    /\ m.topic = "lock/last" => m.body.current # "jammed" /\ m.body.current = phys'[n]

\* Node n sends Ms because of the next thing that happens at its door.
DoorStep(n, Ms) ==
    /\ seq < MaxSeq /\ seq' = seq + 1
    /\ UNCHANGED <<clock, rebooted, coordVars, haVars>>
    /\ \A k \in NodeIds \ {n} : /\ phys'[k] = phys[k]
                                /\ last'[k] = last[k]
                                /\ up'[k] = up[k]
    /\ up'[n] \in {up[n], up[n] + 1}
    /\ \/ /\ last'[n] = last[n] /\ phys'[n] = phys[n]
          /\ \A m \in Ms : m.topic # "lock/last"
       \/ /\ last'[n] = seq + 1
          /\ phys'[n] = "jammed" \/ \E m \in Ms : m.topic = "lock/last"
    /\ \A i \in 1..seq : tapper'[i] = tapper[i]
    /\ \A m \in Ms : Telling(n, m)
    /\ \A m, o \in Ms : m.topic = o.topic => m = o
    /\ Published(n, Ms)
    /\ DoorTypes' /\ BrokerTypes'

\* The stamp a node has for what happens now is one.
LEMMA StampNowType ==
  ASSUME TypeInv, NEW n \in NodeIds, seq < MaxSeq
  PROVE  /\ StampNow(n) \in Stamp \cup {None}
         /\ clock[n] = None => StampNow(n) = None
         /\ clock[n] # None =>
              /\ StampNow(n) # None
              /\ StampNow(n).clock = clock[n]
              /\ clock[n] = "wall" => StampNow(n).at = seq + 1
              /\ clock[n] = "uptime" => StampNow(n).at = up[n] + 1
  <1>1. /\ clock[n] \in Clocks \cup {None} /\ seq \in Nat /\ up[n] \in Nat
        /\ up[n] <= seq
    BY DoorAssumption DEF TypeInv, DoorTypes
  <1>2. MaxSeq \in Nat /\ MaxStamp \in Nat /\ MaxSeq <= MaxStamp
    BY StampAssumption, RoomAssumption
  <1>3. CASE clock[n] = None
    BY <1>3 DEF StampNow
  <1>4. CASE clock[n] # None
    BY <1>1, <1>2, <1>4, ClockAssumption, KeyAssumption DEF StampNow, Stamp
  <1>. QED
    BY <1>3, <1>4

\* What a tick does to the readings of node n.
Ticked(n) ==
    /\ \A k \in NodeIds \ {n} : up'[k] = up[k]
    /\ up'[n] \in {up[n], up[n] + 1}
    /\ up' \in [NodeIds -> 0..MaxSeq] /\ \A k \in NodeIds : up'[k] <= seq + 1
    /\ clock[n] = "uptime" => up'[n] = up[n] + 1

\* Stamping takes a reading.
LEMMA StampedTicks ==
  ASSUME TypeInv, NEW n \in NodeIds, seq < MaxSeq, Stamped(n)
  PROVE  Ticked(n)
  <1>1. /\ MaxSeq \in Nat /\ seq \in Nat /\ up \in [NodeIds -> 0..MaxSeq]
        /\ \A k \in NodeIds : up[k] <= seq
    BY StampAssumption DEF TypeInv, DoorTypes
  <1>2. up' = [up EXCEPT ![n] = IF clock[n] = "uptime" THEN up[n] + 1 ELSE up[n]]
    BY DEF Stamped
  <1>3. /\ \A k \in NodeIds \ {n} : up'[k] = up[k]
        /\ up'[n] \in {up[n], up[n] + 1}
        /\ clock[n] = "uptime" => up'[n] = up[n] + 1
        /\ DOMAIN up' = NodeIds /\ up' = [k \in NodeIds |-> up'[k]]
    BY <1>1, <1>2
  <1>4. ASSUME NEW k \in NodeIds
        PROVE  up'[k] \in 0..MaxSeq /\ up'[k] <= seq + 1
    <2>1. up[k] \in Nat /\ up[k] <= seq /\ up'[k] \in {up[k], up[k] + 1}
      BY <1>1, <1>3
    <2>. QED
      BY <1>1, <2>1
  <1>. QED
    BY <1>3, <1>4 DEF Ticked

\* A move of the bolt that is not a jam is a door step (LOCK_LAST in const.py).
LEMMA LockEventIsDoorStep ==
  ASSUME TypeInv, NEW n \in NodeIds, LockEvent(n)
  PROVE  \E Ms : DoorStep(n, Ms)
  <1>1. PICK current \in {"unlocked", "locked"} \ {phys[n]}, source \in Sources,
             who \in Issuers \cup {None} :
        LET stamp == StampNow(n)
            change == Envelope(n, "lock/last",
                          [current |-> current, source |-> source,
                           stamp |-> stamp, seq |-> seq + 1])
            auth == Envelope(n, "last_auth",
                          [issuer |-> who, stamp |-> stamp, seq |-> seq + 1])
        IN /\ source # "homekey" => who = None
           /\ \/ source # "homekey" /\ Publish(n, <<change>>)
              \/ source = "homekey" /\ Publish(n, <<auth, change>>)
              \/ source = "homekey" /\ Publish(n, <<change, auth>>)
           /\ phys' = [phys EXCEPT ![n] = current]
           /\ tapper' = [tapper EXCEPT ![seq + 1] = who]
    BY DEF LockEvent
  <1>. DEFINE stamp == StampNow(n)
              c == [current |-> current, source |-> source, stamp |-> stamp,
                    seq |-> seq + 1]
              a == [issuer |-> who, stamp |-> stamp, seq |-> seq + 1]
              change == Envelope(n, "lock/last", c)
              auth == Envelope(n, "last_auth", a)
  <1>2. /\ seq < MaxSeq /\ seq' = seq + 1
        /\ UNCHANGED <<clock, rebooted, coordVars, haVars>>
        /\ Stamped(n)
        /\ last' = [last EXCEPT ![n] = seq + 1]
    BY DEF LockEvent, Stamped
  <1>3. /\ phys \in [NodeIds -> Current] /\ last \in [NodeIds -> 0..MaxSeq]
        /\ seq \in Nat /\ seq + 1 \in 0..MaxSeq /\ MaxSeq \in Nat
        /\ up \in [NodeIds -> 0..MaxSeq] /\ rebooted \subseteq NodeIds
        /\ clock \in [NodeIds -> Stamping]
        /\ tapper \in [1..MaxSeq -> Issuers \cup {None}]
        /\ \A k \in NodeIds : last[k] <= seq /\ up[k] <= seq
    BY <1>2, StampAssumption DEF TypeInv, DoorTypes
  <1>4. Ticked(n)
    BY <1>2, StampedTicks
  <1>5. /\ stamp \in Stamp \cup {None}
        /\ clock[n] = None => stamp = None
        /\ clock[n] # None =>
              /\ stamp # None
              /\ stamp.clock = clock[n]
              /\ clock[n] = "wall" => stamp.at = seq + 1
              /\ clock[n] = "uptime" => stamp.at = up[n] + 1
    BY <1>2, StampNowType
  <1>6. /\ phys' = [phys EXCEPT ![n] = current]
        /\ tapper' = [tapper EXCEPT ![seq + 1] = who]
        /\ \/ Publish(n, <<change>>)
           \/ Publish(n, <<auth, change>>)
           \/ Publish(n, <<change, auth>>)
    BY <1>1
  <1>. HIDE DEF stamp
  <1>7. c \in LockChange /\ a \in LastAuth /\ current \in Current
    BY <1>3, <1>5, DoorAssumption DEF LockChange, LastAuth, Current
  <1>8. /\ "lock/last" \in WireTopics /\ "last_auth" \in WireTopics
        /\ "lock/last" \in RetainedTopics /\ "last_auth" \in RetainedTopics
    BY DEF WireTopics, RetainedTopics
  <1>9. /\ change \in Wire /\ change.node = n /\ change.topic = "lock/last"
        /\ change.body = c /\ change.form = "ok"
        /\ auth \in Wire /\ auth.node = n /\ auth.topic = "last_auth"
        /\ auth.body = a /\ auth.form = "ok"
    BY <1>7, <1>8, EnvelopeIsWire, WireBody
  <1>10. /\ c.seq = seq + 1 /\ c.stamp = stamp /\ c.current = current
         /\ a.seq = seq + 1 /\ a.stamp = stamp /\ a.issuer = who
    OBVIOUS
  <1>. HIDE DEF c, a, change, auth
  <1>11. /\ \A k \in NodeIds \ {n} : phys'[k] = phys[k] /\ last'[k] = last[k]
         /\ last'[n] = seq + 1 /\ phys'[n] = current /\ current # "jammed"
         /\ tapper'[seq + 1] = who
         /\ \A i \in 1..seq : tapper'[i] = tapper[i]
    BY <1>2, <1>3, <1>6
  <1>12. Telling(n, change) /\ Telling(n, auth)
    BY <1>4, <1>5, <1>8, <1>9, <1>10, <1>11 DEF Telling, Ticked
  <1>13. DoorTypes'
    <2>1. up' \in [NodeIds -> 0..MaxSeq] /\ \A k \in NodeIds : up'[k] <= seq + 1
      BY <1>4 DEF Ticked
    <2>2. last' \in [NodeIds -> 0..MaxSeq] /\ phys' \in [NodeIds -> Current]
      BY <1>2, <1>3, <1>6, <1>7
    <2>3. tapper' \in [1..MaxSeq -> Issuers \cup {None}]
      BY <1>3, <1>6
    <2>4. \A k \in NodeIds : last'[k] <= seq + 1
      BY <1>3, <1>11
    <2>. QED
      BY <1>2, <1>3, <2>1, <2>2, <2>3, <2>4 DEF DoorTypes
  <1>14. ASSUME NEW msgs, NEW Ms, Messages(n, msgs, Ms), Publish(n, msgs),
                Ms \in {{change}, {change, auth}}
         PROVE  DoorStep(n, Ms)
    <2>1. Published(n, Ms) /\ BrokerTypes'
      BY <1>14, PublishEffect, PublishTypes
    <2>2. \A m \in Ms : Telling(n, m)
      BY <1>12, <1>14
    <2>3. \A m, o \in Ms : m.topic = o.topic => m = o
      BY <1>9, <1>14
    <2>4. \E m \in Ms : m.topic = "lock/last"
      BY <1>9, <1>14
    <2>. QED
      BY <1>2, <1>4, <1>11, <1>13, <2>1, <2>2, <2>3, <2>4 DEF DoorStep, Ticked
  <1>15. /\ Messages(n, <<change>>, {change})
         /\ Messages(n, <<auth, change>>, {auth, change})
         /\ Messages(n, <<change, auth>>, {change, auth})
    BY <1>9 DEF Messages
  <1>16. {auth, change} = {change, auth}
    OBVIOUS
  <1>17. CASE Publish(n, <<change>>)
    BY <1>14, <1>15, <1>17
  <1>18. CASE Publish(n, <<auth, change>>)
    BY <1>14, <1>15, <1>16, <1>18
  <1>19. CASE Publish(n, <<change, auth>>)
    BY <1>14, <1>15, <1>19
  <1>. QED
    BY <1>6, <1>17, <1>18, <1>19

\* A tap that moves nothing is a door step (LAST_AUTH in const.py).
LEMMA TapIsDoorStep ==
  ASSUME TypeInv, NEW n \in NodeIds, TapOnly(n)
  PROVE  \E Ms : DoorStep(n, Ms)
  <1>1. PICK who \in Issuers :
        /\ Publish(n, <<Envelope(n, "last_auth",
                            [issuer |-> who, stamp |-> StampNow(n),
                             seq |-> seq + 1])>>)
        /\ tapper' = [tapper EXCEPT ![seq + 1] = who]
    BY DEF TapOnly
  <1>. DEFINE a == [issuer |-> who, stamp |-> StampNow(n), seq |-> seq + 1]
              auth == Envelope(n, "last_auth", a)
  <1>2. /\ seq < MaxSeq /\ seq' = seq + 1
        /\ UNCHANGED <<clock, rebooted, coordVars, haVars, phys, last>>
        /\ Stamped(n)
    BY DEF TapOnly, Stamped
  <1>3. /\ phys \in [NodeIds -> Current] /\ last \in [NodeIds -> 0..MaxSeq]
        /\ seq \in Nat /\ seq + 1 \in 0..MaxSeq /\ MaxSeq \in Nat
        /\ rebooted \subseteq NodeIds /\ clock \in [NodeIds -> Stamping]
        /\ tapper \in [1..MaxSeq -> Issuers \cup {None}]
        /\ \A k \in NodeIds : last[k] <= seq
    BY <1>2, StampAssumption DEF TypeInv, DoorTypes
  <1>4. Ticked(n)
    BY <1>2, StampedTicks
  <1>5. /\ StampNow(n) \in Stamp \cup {None}
        /\ clock[n] = None => StampNow(n) = None
        /\ clock[n] # None =>
              /\ StampNow(n) # None
              /\ StampNow(n).clock = clock[n]
              /\ clock[n] = "wall" => StampNow(n).at = seq + 1
              /\ clock[n] = "uptime" => StampNow(n).at = up[n] + 1
    BY <1>2, StampNowType
  <1>6. a \in LastAuth
    BY <1>3, <1>5 DEF LastAuth
  <1>7. "last_auth" \in WireTopics /\ "last_auth" \in RetainedTopics
    BY DEF WireTopics, RetainedTopics
  <1>8. a.seq = seq + 1 /\ a.stamp = StampNow(n) /\ a.issuer = who
    OBVIOUS
  <1>. HIDE DEF a
  <1>9. /\ auth \in Wire /\ auth.node = n /\ auth.topic = "last_auth"
        /\ auth.body = a /\ auth.form = "ok"
    BY <1>6, <1>7, EnvelopeIsWire, WireBody
  <1>10. Publish(n, <<auth>>)
    BY <1>1 DEF a
  <1>. HIDE DEF auth
  <1>11. /\ tapper'[seq + 1] = who
         /\ \A i \in 1..seq : tapper'[i] = tapper[i]
         /\ tapper' \in [1..MaxSeq -> Issuers \cup {None}]
    BY <1>1, <1>3
  <1>12. Telling(n, auth)
    BY <1>4, <1>5, <1>7, <1>8, <1>9, <1>11 DEF Telling, Ticked
  <1>13. DoorTypes'
    <2>1. \A k \in NodeIds : last'[k] <= seq + 1
      BY <1>2, <1>3
    <2>. QED
      BY <1>2, <1>3, <1>4, <1>11, <2>1 DEF DoorTypes, Ticked
  <1>14. Messages(n, <<auth>>, {auth})
    BY <1>9 DEF Messages
  <1>15. Published(n, {auth}) /\ BrokerTypes'
    BY <1>10, <1>14, PublishEffect, PublishTypes
  <1>16. DoorStep(n, {auth})
    <2>1. /\ \A m \in {auth} : Telling(n, m) /\ m.topic # "lock/last"
          /\ \A m, o \in {auth} : m.topic = o.topic => m = o
      BY <1>9, <1>12
    <2>. QED
      BY <1>2, <1>4, <1>11, <1>13, <1>15, <2>1 DEF DoorStep, Ticked
  <1>. QED
    BY <1>16

\* A jam is a door step that is told to nobody.
LEMMA JamIsDoorStep ==
  ASSUME TypeInv, NEW n \in NodeIds, Jam(n)
  PROVE  DoorStep(n, {})
  <1>1. /\ seq < MaxSeq /\ seq' = seq + 1
        /\ phys' = [phys EXCEPT ![n] = "jammed"]
        /\ last' = [last EXCEPT ![n] = seq + 1]
        /\ UNCHANGED <<coordVars, clock, up, rebooted, tapper, retained, queue,
                       connected, haVars>>
    BY DEF Jam, clockVars, brokerVars
  <1>2. /\ phys \in [NodeIds -> Current] /\ last \in [NodeIds -> 0..MaxSeq]
        /\ seq \in Nat /\ seq + 1 \in 0..MaxSeq /\ MaxSeq \in Nat
        /\ up \in [NodeIds -> 0..MaxSeq]
        /\ \A k \in NodeIds : last[k] <= seq /\ up[k] <= seq
    BY <1>1, StampAssumption DEF TypeInv, DoorTypes
  <1>3. /\ phys' \in [NodeIds -> Current] /\ last' \in [NodeIds -> 0..MaxSeq]
        /\ last'[n] = seq + 1 /\ phys'[n] = "jammed"
        /\ \A k \in NodeIds \ {n} : phys'[k] = phys[k] /\ last'[k] = last[k]
    BY <1>1, <1>2 DEF Current
  <1>4. \A k \in NodeIds : last'[k] <= seq + 1 /\ up'[k] <= seq + 1
    BY <1>1, <1>2, <1>3
  <1>5. DoorTypes'
    BY <1>1, <1>2, <1>3, <1>4 DEF TypeInv, DoorTypes
  <1>6. BrokerTypes'
    BY <1>1 DEF TypeInv, BrokerTypes, Kept
  <1>7. Published(n, {})
    BY <1>1 DEF Published
  <1>. QED
    BY <1>1, <1>3, <1>5, <1>6, <1>7 DEF DoorStep

-----------------------------------------------------------------------------
(* The other steps, and the types.                                           *)

SampleOf(n) == [current |-> phys[n], seq |-> last[n]]

\* Node n says how its bolt is.
SampleStep(n) ==
    /\ connected
    /\ \E m \in Wire : /\ m.node = n /\ m.topic = "health" /\ m.body = SampleOf(n)
                       /\ Published(n, {m})
    /\ BrokerTypes'
    /\ UNCHANGED <<coordVars, doorVars, haVars>>

\* The cadence reports the bolt (HEALTH in const.py).
LEMMA SampleIsSampleStep ==
  ASSUME TypeInv, NEW n \in NodeIds, Sample(n)
  PROVE  SampleStep(n)
  <1>. DEFINE m == Envelope(n, "health", SampleOf(n))
  <1>1. SampleOf(n) \in Health
    BY DEF TypeInv, DoorTypes, SampleOf, Health
  <1>2. /\ m \in Wire /\ m.node = n /\ m.topic = "health"
        /\ m.body = SampleOf(n) /\ m.form = "ok"
    BY <1>1, EnvelopeIsWire, WireBody DEF WireTopics
  <1>3. /\ Publish(n, <<m>>) /\ connected
        /\ UNCHANGED <<coordVars, doorVars, haVars>>
    BY DEF Sample, SampleOf
  <1>. HIDE DEF m
  <1>4. Messages(n, <<m>>, {m})
    BY <1>2 DEF Messages
  <1>5. Published(n, {m}) /\ BrokerTypes'
    BY <1>3, <1>4, PublishEffect, PublishTypes
  <1>. QED
    BY <1>2, <1>3, <1>5 DEF SampleStep

\* Home Assistant subscribes, anew or after a restart.
ReplayStep ==
    /\ Replay(queue')
    /\ connected' = TRUE
    /\ UNCHANGED <<doorVars, retained, log, logbook, horizon>>
    /\ \/ UNCHANGED <<coordVars, session>>
       \/ nodes' = Blank /\ session' = Len(log)

\* Both ways to subscribe are sent the retained messages.
LEMMA SubscribesAreReplays ==
  ASSUME TypeInv, Reconnect \/ Restart
  PROVE  ReplayStep
  <1>1. Replay(queue')
    BY ReplaysAreReplays DEF Reconnect, Restart
  <1>. QED
    BY <1>1 DEF ReplayStep, Reconnect, Restart, coordVars, haVars

\* Types are kept by a delivery.
LEMMA DeliverKeepsTypes ==
  ASSUME TypeInv, Deliver
  PROVE  TypeInv'
  <1>. DEFINE m == queue[1]
              c == Handle(CoordState, m, horizon)
  <1>1. CoordState \in CoordRecord
    BY DEF TypeInv, CoordTypeOK, CoordState, CoordRecord
  <1>2. m.topic \in AllTopics /\ m \in Message(m.topic) /\ m.form = "ok" /\ Become(c)
    BY HeadIsGone, WireBodies
  <1>. HIDE DEF m
  <1>3. c \in CoordRecord
    BY <1>1, <1>2, HandleType
  <1>. HIDE DEF c
  <1>4. /\ nodes' \in NodeDict /\ pool' \in NodeDict /\ entities' \in SUBSET NodeIds
        /\ log' \in Seq(LogEntry)
    BY <1>2, <1>3 DEF Become, CoordRecord
  <1>5. CoordTypeOK'
    BY <1>4 DEF TypeInv, CoordTypeOK, Deliver
  <1>6. DoorTypes'
    BY DEF TypeInv, DoorTypes, Deliver, doorVars, clockVars
  <1>7. BrokerTypes'
    <2>1. queue' \in Seq(Wire) /\ Len(queue') <= MaxQueue
      BY HeadIsGone
    <2>2. \A i \in DOMAIN queue' : queue'[i].form = "ok"
      BY HeadIsGone DEF TypeInv, BrokerTypes
    <2>3. connected' /\ UNCHANGED <<retained, connected>>
      BY DEF Deliver, TypeInv, BrokerTypes
    <2>. QED
      BY <2>1, <2>2, <2>3 DEF TypeInv, BrokerTypes, Kept
  <1>8. Len(log) \in Nat /\ Len(log') \in Nat /\ Len(log) <= Len(log')
    <2>1. \E logged : log' = log \o logged /\ (logged = <<>> \/ \E e : logged = <<e>>)
      <3>1. m.topic \in {"lock/last", "last_auth", "health"}
        BY HeadIsGone, WireBodies DEF WireTopics, RetainedTopics, m
      <3>2. CASE m.topic = "lock/last"
        BY <3>2, EventIsTaken DEF TakesEvent, m
      <3>3. CASE m.topic = "health"
        BY <3>3, SnapshotIsTaken DEF TakesSnapshot, m
      <3>4. CASE m.topic = "last_auth"
        BY <3>4, AuthIsTaken DEF TakesAuth, m
      <3>. QED
        BY <3>1, <3>2, <3>3, <3>4
    <2>2. PICK logged : log' = log \o logged /\ (logged = <<>> \/ \E e : logged = <<e>>)
      BY <2>1
    <2>3. log \in Seq(LogEntry)
      BY DEF TypeInv, CoordTypeOK
    <2>4. CASE logged = <<>>
      BY <2>2, <2>3, <2>4
    <2>5. ASSUME NEW e, logged = <<e>>
          PROVE  Len(log) \in Nat /\ Len(log') \in Nat /\ Len(log) <= Len(log')
      BY <2>2, <2>3, <2>5, <1>4
    <2>. QED
      BY <2>2, <2>4, <2>5
  <1>9. session' \in 0..Len(log')
    BY <1>8 DEF TypeInv, Deliver, haVars
  <1>. QED
    BY <1>5, <1>6, <1>7, <1>9 DEF TypeInv

\* Types hold at the start.
LEMMA InitTypes == MqttInit => TypeInv
  <1>. SUFFICES ASSUME MqttInit PROVE TypeInv
    OBVIOUS
  <1>. USE DEF MqttInit, CoordInit
  <1>1. MaxSeq \in Nat /\ MaxStamp \in Nat /\ MaxQueue \in Nat
    BY StampAssumption, BrokerAssumption
  <1>2. CoordTypeOK
    BY <1>1, LogbookAssumption DEF CoordTypeOK, NodeDict, Blank
  <1>3. DoorTypes
    BY <1>1 DEF DoorTypes, Current
  <1>4. "lock/last" \in RetainedTopics /\ "last_auth" \in RetainedTopics
    BY DEF RetainedTopics
  <1>5. BrokerTypes
    BY <1>1, <1>4 DEF BrokerTypes, Kept
  <1>6. session \in 0..Len(log)
    OBVIOUS
  <1>. QED
    BY <1>2, <1>3, <1>5, <1>6 DEF TypeInv

\* Types are kept by every step.
LEMMA StepKeepsTypes == TypeInv /\ [MqttNext]_vars => TypeInv'
  <1>. SUFFICES ASSUME TypeInv, [MqttNext]_vars PROVE TypeInv'
    OBVIOUS
  <1>1. ASSUME NEW n \in NodeIds, NEW Ms, DoorStep(n, Ms) PROVE TypeInv'
    BY <1>1 DEF DoorStep, TypeInv, CoordTypeOK, coordVars, haVars
  <1>2. ASSUME NEW n \in NodeIds, LockEvent(n) \/ TapOnly(n) \/ Jam(n) PROVE TypeInv'
    BY <1>1, <1>2, LockEventIsDoorStep, TapIsDoorStep, JamIsDoorStep
  <1>3. ASSUME NEW n \in NodeIds, Sample(n) PROVE TypeInv'
    <2>1. SampleStep(n)
      BY <1>3, SampleIsSampleStep
    <2>. QED
      BY <2>1 DEF SampleStep, TypeInv, CoordTypeOK, DoorTypes, coordVars, haVars,
                  doorVars, clockVars
  <1>4. ASSUME NEW n \in NodeIds, Reboot(n) PROVE TypeInv'
    <2>1. MaxSeq \in Nat
      BY StampAssumption
    <2>2. UNCHANGED <<coordVars, phys, last, seq, clock, tapper, brokerVars, haVars>>
      BY <1>4 DEF Reboot
    <2>3. up' = [up EXCEPT ![n] = 0] /\ rebooted' = rebooted \cup {n}
      BY <1>4 DEF Reboot
    <2>4. DoorTypes'
      BY <2>1, <2>2, <2>3 DEF TypeInv, DoorTypes
    <2>. QED
      BY <2>2, <2>4 DEF TypeInv, CoordTypeOK, BrokerTypes, Kept, coordVars, brokerVars,
                        haVars
  <1>5. CASE Disconnect
    <2>1. BrokerTypes'
      <3>1. queue' = <<>> /\ connected' = FALSE /\ retained' = retained
        BY <1>5 DEF Disconnect
      <3>2. queue' \in Seq(Wire) /\ Len(queue') <= MaxQueue /\ DOMAIN queue' = {}
        BY <3>1, BrokerAssumption
      <3>. QED
        BY <3>1, <3>2 DEF TypeInv, BrokerTypes, Kept
    <2>. QED
      BY <1>5, <2>1 DEF Disconnect, TypeInv, CoordTypeOK, DoorTypes, coordVars, haVars,
                        doorVars, clockVars
  <1>6. CASE Reconnect \/ Restart
    <2>1. ReplayStep
      BY <1>6, SubscribesAreReplays
    <2>2. BrokerTypes'
      BY <2>1 DEF ReplayStep, Replay, TypeInv, BrokerTypes, Kept
    <2>3. DoorTypes'
      BY <2>1 DEF ReplayStep, TypeInv, DoorTypes, doorVars, clockVars
    <2>4. CoordTypeOK'
      BY <1>6 DEF Reconnect, Restart, coordVars, TypeInv, CoordTypeOK, NodeDict, Blank
    <2>5. session' \in 0..Len(log')
      BY <2>1 DEF ReplayStep, TypeInv, CoordTypeOK, coordVars
    <2>. QED
      BY <2>2, <2>3, <2>4, <2>5 DEF TypeInv
  <1>7. CASE Deliver
    BY <1>7, DeliverKeepsTypes
  <1>8. CASE ClockMoves
    <2>1. horizon' \in 0..MaxStamp
      BY <1>8, StampAssumption, RoomAssumption
      DEF ClockMoves, TypeInv, CoordTypeOK, DoorTypes
    <2>. QED
      BY <1>8, <2>1 DEF ClockMoves, TypeInv, CoordTypeOK, DoorTypes, BrokerTypes, Kept,
                        doorVars, clockVars, brokerVars, haVars
  <1>9. CASE LogbookTurns
    BY <1>9 DEF LogbookTurns, LogbookChanges, TypeInv, CoordTypeOK, DoorTypes,
                BrokerTypes, Kept, doorVars, clockVars, brokerVars, haVars
  <1>10. CASE UNCHANGED vars
    BY <1>10 DEF TypeInv, CoordTypeOK, DoorTypes, BrokerTypes, Kept, vars, coordVars,
                 doorVars, clockVars, brokerVars, haVars
  <1>. QED
    BY <1>2, <1>3, <1>4, <1>5, <1>6, <1>7, <1>8, <1>9, <1>10 DEF MqttNext

-----------------------------------------------------------------------------
(* The facts.                                                                *)

\* Reports are of their kinds.
LEMMA ReportTypes ==
  ASSUME TypeInv, NEW n \in NodeIds
  PROVE  Changes(n) \subseteq LockChange /\ Auths(n) \subseteq LastAuth
           /\ Samples(n) \subseteq Health
  <1>1. ASSUME NEW i \in DOMAIN queue
        PROVE  /\ About(i, n, "lock/last") => queue[i].body \in LockChange
               /\ About(i, n, "last_auth") => queue[i].body \in LastAuth
               /\ About(i, n, "health") => queue[i].body \in Health
    <2>1. queue[i] \in Wire
      BY DEF TypeInv, BrokerTypes
    <2>. QED
      BY <2>1, WireBodies DEF About
  <1>2. /\ InFlight(n, "lock/last") \subseteq LockChange
        /\ InFlight(n, "last_auth") \subseteq LastAuth
        /\ InFlight(n, "health") \subseteq Health
    BY <1>1 DEF InFlight
  <1>3. /\ Kept(n) \in LockChange \cup {None}
        /\ retained[n]["last_auth"] \in LastAuth \cup {None}
    BY DEF TypeInv, BrokerTypes
  <1>. QED
    BY <1>2, <1>3, SeenIsKnown DEF Changes, Auths, Samples

\* Nothing happens at a door, and no report is new but a sample.
Quiet ==
    /\ UNCHANGED <<phys, last, seq, clock, tapper>>
    /\ rebooted \subseteq rebooted'
    /\ \A n \in NodeIds \ rebooted' : up'[n] = up[n]
    /\ \A n \in NodeIds : /\ Changes(n)' \subseteq Changes(n)
                          /\ Auths(n)' \subseteq Auths(n)
                          /\ Samples(n)' \subseteq Samples(n) \cup {SampleOf(n)}

\* The facts survive a quiet step.
LEMMA QuietKeepsFacts ==
  ASSUME TypeInv, FactInv, Quiet
  PROVE  FactInv'
  <1>1. ASSUME NEW n \in NodeIds
        PROVE  /\ Changes(n)' \subseteq Changes(n)
               /\ Auths(n)' \subseteq Auths(n)
               /\ Samples(n)' \subseteq Samples(n) \cup {SampleOf(n)}
               /\ \A x : StampFits(n, x) => StampFits(n, x)'
               /\ phys'[n] = phys[n] /\ last'[n] = last[n] /\ clock'[n] = clock[n]
    BY DEF Quiet, StampFits
  <1>2. seq' = seq /\ tapper' = tapper /\ rebooted \subseteq rebooted'
    BY DEF Quiet
  <1>3. ASSUME NEW n \in NodeIds PROVE last[n] \in Nat
    BY StampAssumption DEF TypeInv, DoorTypes
  <1>4. ChangesAreTrue'
    BY <1>1 DEF FactInv, ChangesAreTrue
  <1>5. HealthIsTrue'
    BY <1>1, <1>3 DEF FactInv, HealthIsTrue, SampleOf
  <1>6. AuthsAreTrue'
    BY <1>1, <1>2 DEF FactInv, AuthsAreTrue
  <1>7. ReportsAgree'
    <2>1. ASSUME NEW n \in NodeIds
          PROVE  /\ \A c, d \in Changes(n)' : c.seq = d.seq => c = d
                 /\ \A h \in Samples(n)', c \in Changes(n)' :
                       h.seq = c.seq => h.current = c.current
                 /\ \A h, g \in Samples(n)' : h.seq = g.seq => h.current = g.current
      <3>1. /\ \A c, d \in Changes(n) : c.seq = d.seq => c = d
            /\ \A h \in Samples(n), c \in Changes(n) :
                  h.seq = c.seq => h.current = c.current
            /\ \A h, g \in Samples(n) : h.seq = g.seq => h.current = g.current
        BY DEF FactInv, ReportsAgree
      <3>2. /\ \A c \in Changes(n) : c.seq = last[n] => c.current = phys[n]
            /\ \A h \in Samples(n) : h.seq = last[n] => h.current = phys[n]
        BY DEF FactInv, ChangesAreTrue, HealthIsTrue
      <3>3. SampleOf(n).seq = last[n] /\ SampleOf(n).current = phys[n]
        BY DEF SampleOf
      <3>. QED
        BY <1>1, <3>1, <3>2, <3>3
    <2>. QED
      BY <2>1 DEF ReportsAgree
  <1>8. StampsIdentify'
    BY <1>1, <1>2 DEF FactInv, StampsIdentify
  <1>. QED
    BY <1>4, <1>5, <1>6, <1>7, <1>8 DEF FactInv

\* What is in flight after a publish.
LEMMA PublishedReports ==
  ASSUME NEW n \in NodeIds, NEW Ms, Published(n, Ms), UNCHANGED nodes,
         NEW k \in NodeIds
  PROVE  /\ \A t : \A x \in InFlight(k, t)' :
               \/ x \in InFlight(k, t)
               \/ \E m \in Ms : m.node = k /\ m.topic = t /\ m.body = x
         /\ \A x \in Changes(k)' :
               \/ x \in Changes(k)
               \/ \E m \in Ms : /\ m.node = k \/ k = n
                                /\ m.topic = "lock/last" /\ m.body = x
         /\ \A x \in Auths(k)' :
               \/ x \in Auths(k)
               \/ \E m \in Ms : /\ m.node = k \/ k = n
                                /\ m.topic = "last_auth" /\ m.body = x
         /\ \A x \in Samples(k)' :
               \/ x \in Samples(k)
               \/ \E m \in Ms : m.node = k /\ m.topic = "health" /\ m.body = x
  <1>1. ASSUME NEW t, NEW x \in InFlight(k, t)'
        PROVE  \/ x \in InFlight(k, t)
               \/ \E m \in Ms : m.node = k /\ m.topic = t /\ m.body = x
    <2>1. PICK i \in DOMAIN queue' :
              queue'[i].node = k /\ queue'[i].topic = t /\ queue'[i].body = x
      BY <1>1 DEF InFlight, About
    <2>2. CASE i \in DOMAIN queue
      BY <2>1, <2>2 DEF Published, InFlight, About
    <2>3. CASE i \notin DOMAIN queue
      BY <2>1, <2>3 DEF Published
    <2>. QED
      BY <2>2, <2>3
  <1>2. /\ Event(k)' = Event(k) /\ Snapshot(k)' = Snapshot(k) /\ Auth(k)' = Auth(k)
    BY DEF Event, Snapshot, Auth, Known
  <1>3. ASSUME NEW t \in RetainedTopics
        PROVE  \/ retained'[k][t] = retained[k][t]
               \/ \E m \in Ms : k = n /\ m.topic = t /\ m.body = retained'[k][t]
    BY DEF Published
  <1>4. "lock/last" \in RetainedTopics /\ "last_auth" \in RetainedTopics
    BY DEF RetainedTopics
  <1>5. ASSUME NEW x \in Changes(k)'
        PROVE  \/ x \in Changes(k)
               \/ \E m \in Ms : /\ m.node = k \/ k = n
                                /\ m.topic = "lock/last" /\ m.body = x
    <2>1. \/ x \in InFlight(k, "lock/last")'
          \/ x = retained'[k]["lock/last"]
          \/ x = Event(k)'
      BY <1>5 DEF Changes, Kept
    <2>2. x # None
      BY <1>5 DEF Changes
    <2>. QED
      BY <1>1, <1>2, <1>3, <1>4, <2>1, <2>2 DEF Changes, Kept
  <1>6. ASSUME NEW x \in Auths(k)'
        PROVE  \/ x \in Auths(k)
               \/ \E m \in Ms : /\ m.node = k \/ k = n
                                /\ m.topic = "last_auth" /\ m.body = x
    <2>1. \/ x \in InFlight(k, "last_auth")'
          \/ x = retained'[k]["last_auth"]
          \/ x = Auth(k)'
      BY <1>6 DEF Auths
    <2>2. x # None
      BY <1>6 DEF Auths
    <2>. QED
      BY <1>1, <1>2, <1>3, <1>4, <2>1, <2>2 DEF Auths
  <1>7. ASSUME NEW x \in Samples(k)'
        PROVE  \/ x \in Samples(k)
               \/ \E m \in Ms : m.node = k /\ m.topic = "health" /\ m.body = x
    <2>1. x # None /\ (x \in InFlight(k, "health")' \/ x = Snapshot(k)')
      BY <1>7 DEF Samples
    <2>. QED
      BY <1>1, <1>2, <2>1 DEF Samples
  <1>. QED
    BY <1>1, <1>5, <1>6, <1>7

\* What is said of a door that something happens at is new, and the rest is as it
\* was.
LEMMA DoorKeepsFacts ==
  ASSUME TypeInv, FactInv, NEW n \in NodeIds, NEW Ms, DoorStep(n, Ms)
  PROVE  FactInv'
  <1>1. /\ seq \in Nat /\ seq' = seq + 1 /\ clock' = clock /\ rebooted' = rebooted
        /\ nodes' = nodes
        /\ \A i \in 1..seq : tapper'[i] = tapper[i]
        /\ Published(n, Ms)
    BY StampAssumption DEF DoorStep, TypeInv, DoorTypes, coordVars
  <1>2. ASSUME NEW k \in NodeIds
        PROVE  /\ last[k] \in Nat /\ last[k] <= seq /\ up[k] \in Nat
               /\ last'[k] \in {last[k], seq + 1} /\ up'[k] \in Nat /\ up[k] <= up'[k]
               /\ last'[k] = last[k] => phys'[k] = phys[k]
    BY StampAssumption DEF DoorStep, TypeInv, DoorTypes
  <1>3. ASSUME NEW m \in Ms
        PROVE  /\ m.node = n /\ Telling(n, m)
               /\ m.topic \in {"lock/last", "last_auth"}
               /\ m.topic = "lock/last" => last'[n] = seq + 1
    BY DEF DoorStep, Telling, RetainedTopics
  <1>4. ASSUME NEW k \in NodeIds
        PROVE  /\ \A c \in Changes(k)' : c \in Changes(k) \/
                     \E m \in Ms : k = n /\ m.topic = "lock/last" /\ m.body = c
               /\ \A a \in Auths(k)' : a \in Auths(k) \/
                     \E m \in Ms : k = n /\ m.topic = "last_auth" /\ m.body = a
               /\ \A h \in Samples(k)' : h \in Samples(k)
    BY <1>1, <1>3, PublishedReports
  <1>5. ASSUME NEW k \in NodeIds
        PROVE  /\ \A c \in Changes(k) : /\ c.seq \in 1..last[k]
                                        /\ c.current # "jammed"
                                        /\ c.seq = last[k] => c.current = phys[k]
                                        /\ StampFits(k, c)
               /\ \A h \in Samples(k) : /\ h.seq \in Nat /\ h.seq <= last[k]
                                        /\ h.seq = last[k] => h.current = phys[k]
               /\ \A a \in Auths(k) : /\ a.seq \in 1..seq
                                      /\ a.issuer = tapper[a.seq]
                                      /\ StampFits(k, a)
    <2>1. \A h \in Samples(k) : h.seq \in Nat
      BY ReportTypes, StampAssumption DEF Health
    <2>. QED
      BY <2>1 DEF FactInv, ChangesAreTrue, HealthIsTrue, AuthsAreTrue
  <1>6. ASSUME NEW k \in NodeIds, NEW x, StampFits(k, x), x.stamp \in Stamp \cup {None}
        PROVE  StampFits(k, x)'
    <2>1. x.stamp # None /\ clock[k] # None => x.stamp.at \in Nat
      BY <1>6, StampAssumption DEF Stamp
    <2>2. CASE clock[k] = None
      BY <1>1, <1>6, <2>2 DEF StampFits
    <2>3. CASE clock[k] # None /\ clock[k] = "uptime" /\ k \notin rebooted
      <3>1. x.stamp # None /\ x.stamp.at <= up[k]
        BY <1>6, <2>3 DEF StampFits
      <3>2. x.stamp.at <= up'[k]
        BY <1>2, <2>1, <2>3, <3>1
      <3>. QED
        BY <1>1, <1>6, <2>3, <3>2 DEF StampFits
    <2>4. CASE clock[k] # None /\ (clock[k] # "uptime" \/ k \in rebooted)
      BY <1>1, <1>6, <2>4 DEF StampFits
    <2>. QED
      BY <2>2, <2>3, <2>4
  <1>7. ASSUME NEW k \in NodeIds
        PROVE  /\ \A c \in Changes(k) : c.stamp \in Stamp \cup {None}
               /\ \A a \in Auths(k) : a.stamp \in Stamp \cup {None}
    BY ReportTypes DEF LockChange, LastAuth
  <1>8. ASSUME NEW m \in Ms
        PROVE  StampFits(n, m.body)' /\ m.body.seq = seq + 1
    BY <1>1, <1>2, <1>3 DEF Telling, StampFits
  <1>9. ChangesAreTrue'
    <2>1. ASSUME NEW k \in NodeIds, NEW c \in Changes(k)'
          PROVE  /\ c.seq \in 1..last'[k]
                 /\ c.current # "jammed"
                 /\ c.seq = last'[k] => c.current = phys'[k]
                 /\ StampFits(k, c)'
      <3>1. CASE c \in Changes(k)
        BY <1>1, <1>2, <1>5, <1>6, <1>7, <3>1
      <3>2. ASSUME NEW m \in Ms, k = n, m.topic = "lock/last", m.body = c
            PROVE  /\ c.seq \in 1..last'[k]
                   /\ c.current # "jammed"
                   /\ c.seq = last'[k] => c.current = phys'[k]
                   /\ StampFits(k, c)'
        BY <1>1, <1>3, <1>8, <3>2 DEF Telling
      <3>. QED
        BY <1>4, <3>1, <3>2
    <2>. QED
      BY <2>1 DEF ChangesAreTrue
  <1>10. HealthIsTrue'
    <2>1. ASSUME NEW k \in NodeIds, NEW h \in Samples(k)'
          PROVE  h.seq <= last'[k] /\ (h.seq = last'[k] => h.current = phys'[k])
      BY <1>1, <1>2, <1>4, <1>5
    <2>. QED
      BY <2>1 DEF HealthIsTrue
  <1>11. AuthsAreTrue'
    <2>1. ASSUME NEW k \in NodeIds, NEW a \in Auths(k)'
          PROVE  /\ a.seq \in 1..seq'
                 /\ a.issuer = tapper'[a.seq]
                 /\ StampFits(k, a)'
      <3>1. CASE a \in Auths(k)
        BY <1>1, <1>5, <1>6, <1>7, <3>1
      <3>2. ASSUME NEW m \in Ms, k = n, m.topic = "last_auth", m.body = a
            PROVE  /\ a.seq \in 1..seq'
                   /\ a.issuer = tapper'[a.seq]
                   /\ StampFits(k, a)'
        BY <1>1, <1>3, <1>8, <3>2 DEF Telling
      <3>. QED
        BY <1>4, <3>1, <3>2
    <2>. QED
      BY <2>1 DEF AuthsAreTrue
  <1>12. ReportsAgree'
    <2>1. ASSUME NEW k \in NodeIds, NEW c \in Changes(k)', NEW d \in Changes(k)',
                 c.seq = d.seq
          PROVE  c = d
      <3>1. \A x \in Changes(k) : x.seq # seq + 1
        BY <1>1, <1>2, <1>5
      <3>2. CASE c \in Changes(k)
        BY <1>4, <1>8, <2>1, <3>1, <3>2 DEF FactInv, ReportsAgree
      <3>3. CASE d \in Changes(k)
        BY <1>4, <1>8, <2>1, <3>1, <3>3 DEF FactInv, ReportsAgree
      <3>4. CASE c \notin Changes(k) /\ d \notin Changes(k)
        BY <1>4, <2>1, <3>4 DEF DoorStep
      <3>. QED
        BY <3>2, <3>3, <3>4
    <2>2. ASSUME NEW k \in NodeIds, NEW h \in Samples(k)', NEW c \in Changes(k)',
                 h.seq = c.seq
          PROVE  h.current = c.current
      <3>1. h \in Samples(k) /\ h.seq # seq + 1
        BY <1>1, <1>2, <1>4, <1>5
      <3>. QED
        BY <1>4, <1>8, <2>2, <3>1 DEF FactInv, ReportsAgree
    <2>3. ASSUME NEW k \in NodeIds, NEW h \in Samples(k)', NEW g \in Samples(k)',
                 h.seq = g.seq
          PROVE  h.current = g.current
      BY <1>4, <2>3 DEF FactInv, ReportsAgree
    <2>. QED
      BY <2>1, <2>2, <2>3 DEF ReportsAgree
  <1>13. StampsIdentify'
    <2>1. ASSUME NEW k \in NodeIds, clock[k] = "uptime", k \notin rebooted,
                 NEW c \in Changes(k)', NEW a \in Auths(k)', c.stamp = a.stamp
          PROVE  c.seq = a.seq
      <3>1. clock[k] # None /\ up[k] \in Nat
        BY <1>2, <2>1, ClockAssumption
      <3>2. /\ \A x \in Changes(k) \cup Auths(k) :
                  x.stamp.at \in Nat /\ x.stamp.at <= up[k]
            /\ \A m \in Ms : k = n => m.body.stamp.at = up[k] + 1
        <4>1. ASSUME NEW x \in Changes(k) \cup Auths(k)
              PROVE  x.stamp.at \in Nat /\ x.stamp.at <= up[k]
          <5>1. StampFits(k, x) /\ x.stamp \in Stamp \cup {None}
            BY <1>5, <1>7
          <5>. QED
            BY <2>1, <3>1, <5>1 DEF StampFits, Stamp
        <4>2. ASSUME NEW m \in Ms, k = n
              PROVE  m.body.stamp.at = up[k] + 1
          BY <1>3, <2>1, <3>1, <4>2 DEF Telling
        <4>. QED
          BY <4>1, <4>2
      <3>3. CASE c \in Changes(k) /\ a \in Auths(k)
        BY <2>1, <3>3 DEF FactInv, StampsIdentify
      <3>4. CASE c \in Changes(k) /\ a \notin Auths(k)
        BY <1>4, <2>1, <3>1, <3>2, <3>4
      <3>5. CASE c \notin Changes(k) /\ a \in Auths(k)
        BY <1>4, <2>1, <3>1, <3>2, <3>5
      <3>6. CASE c \notin Changes(k) /\ a \notin Auths(k)
        BY <1>4, <1>8, <3>6
      <3>. QED
        BY <3>3, <3>4, <3>5, <3>6
    <2>. QED
      BY <1>1, <2>1 DEF StampsIdentify
  <1>. QED
    BY <1>9, <1>10, <1>11, <1>12, <1>13 DEF FactInv

\* What is known after a delivery was known or is what was delivered.
LEMMA DeliveredViews ==
  ASSUME TypeInv, Deliver, NEW k \in NodeIds
  PROVE  /\ IF About(1, k, "lock/last") THEN Event(k)' = queue[1].body
            ELSE Event(k)' = Event(k)
         /\ IF About(1, k, "health") THEN Snapshot(k)' = queue[1].body
            ELSE Snapshot(k)' = Snapshot(k)
         /\ IF About(1, k, "last_auth") THEN Auth(k)' = queue[1].body
            ELSE Auth(k)' = Auth(k)
         /\ queue[1].node # k => nodes'[k] = nodes[k] /\ Mark(k)' = Mark(k)
  <1>1. 1 \in DOMAIN queue /\ queue[1].topic \in {"lock/last", "last_auth", "health"}
    BY HeadIsGone, WireBodies DEF WireTopics, RetainedTopics
  <1>2. CASE queue[1].node # k
    <2>1. nodes'[k] = nodes[k]
      <3>1. CASE queue[1].topic = "lock/last"
        BY <1>2, <3>1, EventIsTaken DEF TakesEvent, Others
      <3>2. CASE queue[1].topic = "health"
        BY <1>2, <3>2, SnapshotIsTaken DEF TakesSnapshot, Others
      <3>3. CASE queue[1].topic = "last_auth"
        BY <1>2, <3>3, AuthIsTaken DEF TakesAuth, Others
      <3>. QED
        BY <1>1, <3>1, <3>2, <3>3
    <2>2. /\ Event(k)' = Event(k) /\ Snapshot(k)' = Snapshot(k)
          /\ Auth(k)' = Auth(k) /\ Mark(k)' = Mark(k)
      BY <2>1 DEF Event, Snapshot, Auth, Mark, Known
    <2>. QED
      BY <1>2, <2>1, <2>2 DEF About
  <1>3. CASE queue[1].node = k
    <2>1. CASE queue[1].topic = "lock/last"
      BY <1>1, <1>3, <2>1, EventIsTaken DEF TakesEvent, About
    <2>2. CASE queue[1].topic = "health"
      BY <1>1, <1>3, <2>2, SnapshotIsTaken DEF TakesSnapshot, About
    <2>3. CASE queue[1].topic = "last_auth"
      BY <1>1, <1>3, <2>3, AuthIsTaken DEF TakesAuth, About
    <2>. QED
      BY <1>1, <2>1, <2>2, <2>3
  <1>. QED
    BY <1>2, <1>3

\* A delivery makes no report.
LEMMA DeliverIsQuiet ==
  ASSUME TypeInv, Deliver
  PROVE  Quiet
  <1>1. UNCHANGED <<phys, last, seq, clock, tapper, up, rebooted, retained>>
    BY DEF Deliver, doorVars, clockVars
  <1>2. ASSUME NEW k, NEW t PROVE InFlight(k, t)' \subseteq InFlight(k, t)
    BY HeadIsGone DEF InFlight, About
  <1>3. ASSUME NEW k, NEW t, About(1, k, t) PROVE queue[1].body \in InFlight(k, t)
    BY <1>3 DEF InFlight, About
  <1>4. ASSUME NEW k \in NodeIds
        PROVE  /\ Changes(k)' \subseteq Changes(k)
               /\ Auths(k)' \subseteq Auths(k)
               /\ Samples(k)' \subseteq Samples(k)
    <2>1. /\ Event(k)' \in {Event(k)} \cup InFlight(k, "lock/last")
          /\ Snapshot(k)' \in {Snapshot(k)} \cup InFlight(k, "health")
          /\ Auth(k)' \in {Auth(k)} \cup InFlight(k, "last_auth")
      BY <1>3, DeliveredViews
    <2>. QED
      BY <1>1, <1>2, <2>1 DEF Changes, Auths, Samples, Kept
  <1>. QED
    BY <1>1, <1>4 DEF Quiet

\* A subscription makes no report.
LEMMA ReplayIsQuiet ==
  ASSUME TypeInv, ReplayStep
  PROVE  Quiet
  <1>1. UNCHANGED <<phys, last, seq, clock, tapper, up, rebooted, retained>>
    BY DEF ReplayStep, doorVars, clockVars
  <1>2. ASSUME NEW k, NEW t, NEW x \in InFlight(k, t)'
        PROVE  x = retained[k][t] /\ t \in RetainedTopics
    BY <1>2 DEF InFlight, About, ReplayStep, Replay
  <1>3. ASSUME NEW k \in NodeIds
        PROVE  /\ Event(k)' \in {Event(k), None}
               /\ Snapshot(k)' \in {Snapshot(k), None}
               /\ Auth(k)' \in {Auth(k), None}
    BY DEF ReplayStep, coordVars, Event, Snapshot, Auth, Known, Blank
  <1>4. ASSUME NEW k \in NodeIds
        PROVE  /\ Changes(k)' \subseteq Changes(k)
               /\ Auths(k)' \subseteq Auths(k)
               /\ Samples(k)' \subseteq Samples(k)
    BY <1>1, <1>2, <1>3 DEF Changes, Auths, Samples, Kept, RetainedTopics
  <1>. QED
    BY <1>1, <1>4 DEF Quiet

\* A step that leaves the reports alone is quiet.
LEMMA NothingNewIsQuiet ==
  ASSUME UNCHANGED <<phys, last, seq, clock, tapper, nodes, retained>>,
         queue' \in {queue, <<>>},
         rebooted \subseteq rebooted', \A n \in NodeIds \ rebooted' : up'[n] = up[n]
  PROVE  Quiet
  <1>1. ASSUME NEW k, NEW t PROVE InFlight(k, t)' \subseteq InFlight(k, t)
    <2>1. DOMAIN queue' \subseteq DOMAIN queue /\ \A i \in DOMAIN queue' : queue'[i] = queue[i]
      <3>1. DOMAIN <<>> = {}
        OBVIOUS
      <3>. QED
        BY <3>1
    <2>. QED
      BY <2>1 DEF InFlight, About
  <1>2. ASSUME NEW k \in NodeIds
        PROVE  /\ Changes(k)' \subseteq Changes(k)
               /\ Auths(k)' \subseteq Auths(k)
               /\ Samples(k)' \subseteq Samples(k)
    BY <1>1 DEF Changes, Auths, Samples, Kept, Event, Snapshot, Auth, Known
  <1>. QED
    BY <1>2 DEF Quiet

\* A sample is the only report that a quiet step makes.
LEMMA SampleIsQuiet ==
  ASSUME TypeInv, NEW n \in NodeIds, SampleStep(n)
  PROVE  Quiet
  <1>1. PICK m \in Wire : /\ m.node = n /\ m.topic = "health" /\ m.body = SampleOf(n)
                          /\ Published(n, {m})
    BY DEF SampleStep
  <1>2. UNCHANGED <<phys, last, seq, clock, tapper, up, rebooted, nodes>>
    BY DEF SampleStep, doorVars, clockVars, coordVars
  <1>3. ASSUME NEW k \in NodeIds
        PROVE  /\ Changes(k)' \subseteq Changes(k)
               /\ Auths(k)' \subseteq Auths(k)
               /\ Samples(k)' \subseteq Samples(k) \cup {SampleOf(k)}
    BY <1>1, <1>2, PublishedReports
  <1>. QED
    BY <1>2, <1>3 DEF Quiet

\* There are no reports at the start.
LEMMA InitFacts == MqttInit => FactInv
  <1>. SUFFICES ASSUME MqttInit PROVE FactInv
    OBVIOUS
  <1>1. /\ nodes = Blank /\ queue = <<>> /\ DOMAIN queue = {}
        /\ retained = [n \in NodeIds |-> [t \in RetainedTopics |-> None]]
    BY DEF MqttInit, CoordInit
  <1>2. "lock/last" \in RetainedTopics /\ "last_auth" \in RetainedTopics
    BY DEF RetainedTopics
  <1>3. ASSUME NEW n \in NodeIds
        PROVE  Changes(n) = {} /\ Auths(n) = {} /\ Samples(n) = {}
    BY <1>1, <1>2 DEF Changes, Auths, Samples, Kept, InFlight, Event, Snapshot, Auth,
                      Known, Blank
  <1>. QED
    BY <1>3 DEF FactInv, ChangesAreTrue, HealthIsTrue, AuthsAreTrue, ReportsAgree,
                StampsIdentify

\* The steps at which nothing happens at a door but a reboot.
LEMMA OtherStepsAreQuiet ==
  ASSUME TypeInv,
         \/ Disconnect \/ ClockMoves \/ LogbookTurns \/ UNCHANGED vars
         \/ \E n \in NodeIds : Reboot(n)
  PROVE  Quiet
  <1>1. CASE Disconnect
    BY <1>1, NothingNewIsQuiet DEF Disconnect, coordVars, doorVars, clockVars
  <1>2. CASE ClockMoves \/ LogbookTurns
    BY <1>2, NothingNewIsQuiet
    DEF ClockMoves, LogbookTurns, LogbookChanges, doorVars, clockVars, brokerVars
  <1>3. CASE UNCHANGED vars
    BY <1>3, NothingNewIsQuiet DEF vars, coordVars, doorVars, clockVars, brokerVars
  <1>4. ASSUME NEW n \in NodeIds, Reboot(n) PROVE Quiet
    <2>1. /\ UNCHANGED <<phys, last, seq, clock, tapper, nodes, retained, queue>>
          /\ rebooted' = rebooted \cup {n} /\ up' = [up EXCEPT ![n] = 0]
      BY <1>4 DEF Reboot, coordVars, brokerVars
    <2>2. \A k \in NodeIds \ rebooted' : up'[k] = up[k]
      BY <2>1 DEF TypeInv, DoorTypes
    <2>. QED
      BY <2>1, <2>2, NothingNewIsQuiet
  <1>. QED
    BY <1>1, <1>2, <1>3, <1>4

\* The facts are kept by every step.
LEMMA StepKeepsFacts == TypeInv /\ FactInv /\ [MqttNext]_vars => FactInv'
  <1>. SUFFICES ASSUME TypeInv, FactInv, [MqttNext]_vars PROVE FactInv'
    OBVIOUS
  <1>1. ASSUME NEW n \in NodeIds, LockEvent(n) \/ TapOnly(n) \/ Jam(n) PROVE FactInv'
    BY <1>1, DoorKeepsFacts, LockEventIsDoorStep, TapIsDoorStep, JamIsDoorStep
  <1>2. ASSUME NEW n \in NodeIds, Sample(n) PROVE FactInv'
    BY <1>2, SampleIsSampleStep, SampleIsQuiet, QuietKeepsFacts
  <1>3. CASE Reconnect \/ Restart
    BY <1>3, SubscribesAreReplays, ReplayIsQuiet, QuietKeepsFacts
  <1>4. CASE Deliver
    BY <1>4, DeliverIsQuiet, QuietKeepsFacts
  <1>5. CASE \/ Disconnect \/ ClockMoves \/ LogbookTurns \/ UNCHANGED vars
             \/ \E n \in NodeIds : Reboot(n)
    BY <1>5, OtherStepsAreQuiet, QuietKeepsFacts
  <1>. QED
    BY <1>1, <1>2, <1>3, <1>4, <1>5 DEF MqttNext

-----------------------------------------------------------------------------
(* The order.                                                                *)

\* What is in flight, retained or known of a door is not newer than its last
\* change.
LEMMA NothingIsAhead ==
  ASSUME TypeInv, FactInv, NEW n \in NodeIds
  PROVE  /\ last[n] \in Nat /\ last[n] <= seq /\ seq \in Nat
         /\ \A i \in DOMAIN queue :
              /\ About(i, n, "lock/last") =>
                    /\ queue[i].body \in Changes(n) /\ queue[i].body \in LockChange
                    /\ queue[i].body \in InFlight(n, "lock/last")
                    /\ queue[i].body # None
                    /\ queue[i].body.seq \in 1..last[n]
              /\ About(i, n, "health") =>
                    /\ queue[i].body \in Samples(n) /\ queue[i].body \in Health
                    /\ queue[i].body.seq \in 0..last[n]
              /\ About(i, n, "last_auth") =>
                    /\ queue[i].body \in Auths(n)
         /\ Event(n) # None =>
              Event(n) \in Changes(n) /\ Event(n) \in LockChange /\ Event(n).seq \in 1..last[n]
         /\ Kept(n) # None =>
              Kept(n) \in Changes(n) /\ Kept(n) \in LockChange /\ Kept(n).seq \in 1..last[n]
         /\ Snapshot(n) # None =>
              Snapshot(n) \in Samples(n) /\ Snapshot(n) \in Health
                /\ Snapshot(n).seq \in 0..last[n]
         /\ Auth(n) # None => Auth(n) \in Auths(n)
  <1>1. last[n] \in Nat /\ last[n] <= seq /\ seq \in Nat
    BY StampAssumption DEF TypeInv, DoorTypes
  <1>2. /\ Changes(n) \subseteq LockChange /\ Samples(n) \subseteq Health
        /\ Auths(n) \subseteq LastAuth
    BY ReportTypes
  <1>3. \A c \in Changes(n) : c.seq \in 1..last[n]
    BY DEF FactInv, ChangesAreTrue
  <1>4. \A h \in Samples(n) : h.seq \in 0..last[n]
    BY <1>1, <1>2, StampAssumption DEF FactInv, HealthIsTrue, Health
  <1>5. ASSUME NEW i \in DOMAIN queue, NEW t, About(i, n, t)
        PROVE  queue[i].body \in InFlight(n, t)
    BY <1>5 DEF InFlight, About
  <1>6. ASSUME NEW i \in DOMAIN queue
        PROVE  /\ About(i, n, "lock/last") =>
                     queue[i].body \in LockChange /\ queue[i].body # None
               /\ About(i, n, "health") => queue[i].body # None
               /\ About(i, n, "last_auth") => queue[i].body # None
    <2>1. queue[i] \in Wire
      BY DEF TypeInv, BrokerTypes
    <2>. QED
      BY <2>1, WireBodies, KeyAssumption DEF About
  <1>7. ASSUME NEW i \in DOMAIN queue
        PROVE  /\ About(i, n, "lock/last") =>
                     /\ queue[i].body \in Changes(n)
                     /\ queue[i].body \in InFlight(n, "lock/last")
               /\ About(i, n, "health") => queue[i].body \in Samples(n)
               /\ About(i, n, "last_auth") => queue[i].body \in Auths(n)
    BY <1>5, <1>6 DEF Changes, Samples, Auths
  <1>8. /\ Event(n) # None => Event(n) \in Changes(n)
        /\ Kept(n) # None => Kept(n) \in Changes(n)
        /\ Snapshot(n) # None => Snapshot(n) \in Samples(n)
        /\ Auth(n) # None => Auth(n) \in Auths(n)
    BY DEF Changes, Samples, Auths
  <1>. QED
    BY <1>1, <1>2, <1>3, <1>4, <1>6, <1>7, <1>8

\* What is known stays as it is while a node publishes.
LEMMA ViewsStay ==
  ASSUME UNCHANGED nodes
  PROVE  \A k : /\ Event(k)' = Event(k) /\ Snapshot(k)' = Snapshot(k)
                /\ Auth(k)' = Auth(k) /\ Mark(k)' = Mark(k)
  BY DEF Event, Snapshot, Auth, Mark, Known

\* What happens at a door is sent behind what was sent before.
LEMMA DoorKeepsOrder ==
  ASSUME TypeInv, FactInv, OrderInv, NEW n \in NodeIds, NEW Ms, DoorStep(n, Ms)
  PROVE  OrderInv'
  <1>1. Published(n, Ms) /\ UNCHANGED nodes /\ connected' = connected
    BY DEF DoorStep, coordVars, Published
  <1>2. ASSUME NEW m \in Ms
        PROVE  /\ m.node = n /\ m.topic \in {"lock/last", "last_auth"}
               /\ m.body.seq = seq + 1
               /\ m.topic = "lock/last" => /\ m.body \in LockChange /\ m.body # None
                                           /\ \A o \in Ms : o.topic = "lock/last" => o = m
    BY WireBodies, KeyAssumption DEF DoorStep, Telling, RetainedTopics
  <1>3. ASSUME NEW k \in NodeIds, NEW i \in DOMAIN queue', NEW t
        PROVE  /\ i \in DOMAIN queue => /\ About(i, k, t)' <=> About(i, k, t)
                                        /\ queue'[i] = queue[i]
               /\ i \notin DOMAIN queue =>
                     /\ queue'[i] \in Ms /\ connected
                     /\ About(i, k, t)' => k = n /\ queue'[i].topic = t
                     /\ \A j \in DOMAIN queue : j < i
    BY <1>1, <1>2 DEF Published, About
  <1>4. ASSUME NEW k \in NodeIds
        PROVE  /\ Event(k)' = Event(k) /\ Snapshot(k)' = Snapshot(k)
               /\ seq \in Nat
               /\ Event(k) # None => Event(k).seq \in Nat /\ Event(k).seq <= seq
               /\ Snapshot(k) # None => Snapshot(k).seq \in Nat /\ Snapshot(k).seq <= seq
    BY <1>1, ViewsStay, NothingIsAhead
  <1>5. DOMAIN queue \subseteq DOMAIN queue' /\ DOMAIN queue' \subseteq Nat
    BY <1>1 DEF Published, DoorStep, BrokerTypes
  <1>7. ASSUME NEW k \in NodeIds
        PROVE  \/ Kept(k)' = Kept(k) /\ (k = n => \A m \in Ms : m.topic # "lock/last")
               \/ \E m \in Ms : k = n /\ m.topic = "lock/last" /\ Kept(k)' = m.body
    <2>1. "lock/last" \in RetainedTopics
      BY DEF RetainedTopics
    <2>2. CASE k # n
      BY <1>1, <2>2 DEF Published, Kept
    <2>3. CASE k = n
      BY <1>1, <2>1, <2>3 DEF Published, Kept
    <2>. QED
      BY <2>2, <2>3
  <1>8. QueueOrder'
    <2>1. ASSUME NEW k \in NodeIds, NEW i \in DOMAIN queue', NEW j \in DOMAIN queue',
                 i < j, About(i, k, "lock/last")' \/ About(i, k, "health")'
          PROVE  /\ About(j, k, "lock/last")' => queue'[i].body.seq < queue'[j].body.seq
                 /\ About(j, k, "health")' => queue'[i].body.seq <= queue'[j].body.seq
      <3>1. CASE j \in DOMAIN queue
        <4>1. i \in DOMAIN queue
          BY <1>3, <1>5, <2>1, <3>1
        <4>. QED
          BY <1>3, <2>1, <3>1, <4>1 DEF OrderInv, QueueOrder
      <3>2. CASE j \notin DOMAIN queue /\ i \in DOMAIN queue
        <4>1. About(i, k, "lock/last") \/ About(i, k, "health")
          BY <1>3, <2>1, <3>2
        <4>2. queue'[i].body.seq \in Nat /\ queue'[i].body.seq <= seq
          BY <1>3, <3>2, <4>1, NothingIsAhead
        <4>3. ~About(j, k, "health")'
          BY <1>2, <1>3, <3>2
        <4>4. queue'[j].body.seq = seq + 1
          BY <1>2, <1>3, <3>2
        <4>5. seq \in Nat
          BY NothingIsAhead
        <4>. QED
          BY <4>2, <4>3, <4>4, <4>5
      <3>3. CASE j \notin DOMAIN queue /\ i \notin DOMAIN queue
        <4>1. queue'[i] \in Ms /\ queue'[j] \in Ms /\ queue'[i] # queue'[j]
          BY <1>1, <1>3, <1>5, <2>1, <3>3 DEF Published
        <4>2. ~About(i, k, "health")' /\ ~About(j, k, "health")'
          BY <1>2, <1>3, <3>3
        <4>3. ~(About(i, k, "lock/last")' /\ About(j, k, "lock/last")')
          BY <1>2, <1>3, <3>3, <4>1
        <4>. QED
          BY <2>1, <4>2, <4>3
      <3>. QED
        BY <3>1, <3>2, <3>3
    <2>. QED
      BY <2>1 DEF QueueOrder
  <1>9. QueueIsAhead'
    <2>1. ASSUME NEW k \in NodeIds, NEW i \in DOMAIN queue', About(i, k, "health")'
          PROVE  /\ NotBehindEvent(k, queue[i].body)'
                 /\ Snapshot(k)' # None => Snapshot(k)'.seq <= queue'[i].body.seq
      <3>1. i \in DOMAIN queue
        BY <1>2, <1>3, <2>1
      <3>. QED
        BY <1>3, <1>4, <2>1, <3>1 DEF OrderInv, QueueIsAhead, NotBehindEvent
    <2>2. ASSUME NEW k \in NodeIds, NEW i \in DOMAIN queue', About(i, k, "lock/last")'
          PROVE  /\ NotBehindEvent(k, queue[i].body)'
                 /\ NewsOf(k, queue[i].body)'
                 /\ Kept(k)' # None /\ queue'[i].body.seq <= Kept(k)'.seq
      <3>1. CASE i \in DOMAIN queue
        <4>1. /\ About(i, k, "lock/last") /\ queue'[i] = queue[i]
              /\ NotBehindEvent(k, queue[i].body) /\ NewsOf(k, queue[i].body)
              /\ Kept(k) # None /\ queue[i].body.seq <= Kept(k).seq
          BY <1>3, <2>2, <3>1 DEF OrderInv, QueueIsAhead
        <4>2. queue[i].body.seq \in Nat /\ queue[i].body.seq <= seq /\ seq \in Nat
          BY <3>1, <4>1, NothingIsAhead
        <4>. QED
          BY <1>2, <1>4, <1>7, <4>1, <4>2 DEF NotBehindEvent, NewsOf, IsEvent
      <3>2. CASE i \notin DOMAIN queue
        <4>1. k = n /\ queue'[i] \in Ms /\ queue'[i].topic = "lock/last"
          BY <1>3, <2>2, <3>2
        <4>2. queue'[i].body.seq = seq + 1 /\ seq \in Nat
          BY <1>2, <4>1, NothingIsAhead
        <4>3. Kept(k)' = queue'[i].body /\ queue'[i].body # None
          BY <1>2, <1>7, <4>1
        <4>. QED
          BY <1>4, <4>2, <4>3 DEF NotBehindEvent, NewsOf, IsEvent
      <3>. QED
        BY <3>1, <3>2
    <2>. QED
      BY <2>1, <2>2 DEF QueueIsAhead
  <1>10. RetainedIsAhead'
    <2>1. ASSUME NEW k \in NodeIds, Kept(k)' # None
          PROVE  /\ NotBehindEvent(k, Kept(k))'
                 /\ NewsOf(k, Kept(k))'
                 /\ connected' => \/ Kept(k)' \in InFlight(k, "lock/last")'
                                  \/ IsEvent(k, Kept(k))'
      <3>1. CASE Kept(k)' = Kept(k)
        <4>1. /\ Kept(k) # None /\ NotBehindEvent(k, Kept(k)) /\ NewsOf(k, Kept(k))
              /\ connected => Kept(k) \in InFlight(k, "lock/last") \/ IsEvent(k, Kept(k))
          BY <2>1, <3>1 DEF OrderInv, RetainedIsAhead
        <4>2. InFlight(k, "lock/last") \subseteq InFlight(k, "lock/last")'
          BY <1>3, <1>5 DEF InFlight
        <4>. QED
          BY <1>1, <1>4, <3>1, <4>1, <4>2 DEF NotBehindEvent, NewsOf, IsEvent
      <3>2. ASSUME NEW m \in Ms, k = n, m.topic = "lock/last", Kept(k)' = m.body
            PROVE  /\ NotBehindEvent(k, Kept(k))'
                   /\ NewsOf(k, Kept(k))'
                   /\ connected' => Kept(k)' \in InFlight(k, "lock/last")'
        <4>1. Kept(k)'.seq = seq + 1
          BY <1>2, <3>2
        <4>2. ASSUME connected PROVE Kept(k)' \in InFlight(k, "lock/last")'
          <5>1. PICK i \in DOMAIN queue' : queue'[i] = m
            BY <1>1, <4>2 DEF Published
          <5>. QED
            BY <1>2, <3>2, <5>1 DEF InFlight, About
        <4>. QED
          BY <1>1, <1>4, <4>1, <4>2 DEF NotBehindEvent, NewsOf, IsEvent
      <3>. QED
        BY <1>7, <3>1, <3>2
    <2>2. ASSUME NEW k \in NodeIds, phys'[k] # "jammed", last'[k] > 0
          PROVE  Kept(k)' # None /\ Kept(k)'.seq = last'[k]
      <3>1. CASE k = n /\ last'[n] = seq + 1
        <4>1. PICK m \in Ms : m.topic = "lock/last"
          BY <2>2, <3>1 DEF DoorStep, TypeInv, DoorTypes
        <4>. QED
          BY <1>2, <1>7, <3>1, <4>1
      <3>2. CASE k # n \/ last'[n] # seq + 1
        <4>1. phys'[k] = phys[k] /\ last'[k] = last[k] /\ Kept(k)' = Kept(k)
          BY <1>7, <3>2 DEF DoorStep
        <4>. QED
          BY <2>2, <4>1 DEF OrderInv, RetainedIsAhead
      <3>. QED
        BY <3>1, <3>2
    <2>. QED
      BY <2>1, <2>2 DEF RetainedIsAhead
  <1>11. SamplesAreExplained'
    <2>1. ASSUME NEW k \in NodeIds, NEW j \in DOMAIN queue', About(j, k, "health")'
          PROVE  \/ queue'[j].body.current = "jammed"
                 \/ queue'[j].body.seq = 0
                 \/ IsEvent(k, queue[j].body)'
                 \/ \E i \in DOMAIN queue' : /\ i < j /\ About(i, k, "lock/last")'
                                             /\ queue'[i].body.seq = queue'[j].body.seq
      <3>1. j \in DOMAIN queue /\ About(j, k, "health") /\ queue'[j] = queue[j]
        BY <1>2, <1>3, <2>1
      <3>2. \/ queue[j].body.current = "jammed"
            \/ queue[j].body.seq = 0
            \/ IsEvent(k, queue[j].body)
            \/ \E i \in DOMAIN queue : /\ i < j /\ About(i, k, "lock/last")
                                       /\ queue[i].body.seq = queue[j].body.seq
        BY <3>1 DEF OrderInv, SamplesAreExplained
      <3>. QED
        BY <1>3, <1>4, <1>5, <3>1, <3>2 DEF IsEvent
    <2>. QED
      BY <2>1 DEF SamplesAreExplained
  <1>. QED
    BY <1>8, <1>9, <1>10, <1>11 DEF OrderInv

\* A sample is behind what explains it.
LEMMA SampleKeepsOrder ==
  ASSUME TypeInv, FactInv, OrderInv, NEW n \in NodeIds, SampleStep(n)
  PROVE  OrderInv'
  <1>1. PICK m \in Wire : /\ m.node = n /\ m.topic = "health" /\ m.body = SampleOf(n)
                          /\ Published(n, {m})
    BY DEF SampleStep
  <1>2. /\ connected /\ connected' = connected
        /\ UNCHANGED <<nodes, phys, last, seq>>
        /\ m.body.seq = last[n] /\ m.body.current = phys[n]
    BY <1>1 DEF SampleStep, coordVars, doorVars, Published, SampleOf
  <1>3. ASSUME NEW k \in NodeIds, NEW i \in DOMAIN queue', NEW t
        PROVE  /\ i \in DOMAIN queue => /\ About(i, k, t)' <=> About(i, k, t)
                                        /\ queue'[i] = queue[i]
               /\ i \notin DOMAIN queue =>
                     /\ queue'[i] = m
                     /\ About(i, k, t)' <=> k = n /\ t = "health"
                     /\ \A j \in DOMAIN queue : j < i
    BY <1>1 DEF Published, About
  <1>4. ASSUME NEW k \in NodeIds
        PROVE  /\ Event(k)' = Event(k) /\ Snapshot(k)' = Snapshot(k)
               /\ seq \in Nat /\ last[k] \in Nat
               /\ Event(k) # None => Event(k).seq \in Nat /\ Event(k).seq <= last[k]
               /\ Snapshot(k) # None => Snapshot(k).seq \in Nat /\ Snapshot(k).seq <= last[k]
    BY <1>2, ViewsStay, NothingIsAhead
  <1>5. DOMAIN queue \subseteq DOMAIN queue' /\ DOMAIN queue' \subseteq Nat
    BY <1>1 DEF Published, SampleStep, BrokerTypes
  <1>6. ASSUME NEW k \in NodeIds
        PROVE  Kept(k)' = Kept(k)
    <2>1. "lock/last" \in RetainedTopics
      BY DEF RetainedTopics
    <2>. QED
      BY <1>1, <2>1 DEF Published, Kept
  <1>7. \A i, j \in DOMAIN queue' : i \notin DOMAIN queue /\ j \notin DOMAIN queue => i = j
    BY <1>1 DEF Published
  <1>8. QueueOrder'
    <2>1. ASSUME NEW k \in NodeIds, NEW i \in DOMAIN queue', NEW j \in DOMAIN queue',
                 i < j, About(i, k, "lock/last")' \/ About(i, k, "health")'
          PROVE  /\ About(j, k, "lock/last")' => queue'[i].body.seq < queue'[j].body.seq
                 /\ About(j, k, "health")' => queue'[i].body.seq <= queue'[j].body.seq
      <3>1. i \in DOMAIN queue
        BY <1>3, <1>5, <1>7, <2>1
      <3>2. CASE j \in DOMAIN queue
        BY <1>3, <2>1, <3>1, <3>2 DEF OrderInv, QueueOrder
      <3>3. CASE j \notin DOMAIN queue
        <4>1. About(i, k, "lock/last") \/ About(i, k, "health")
          BY <1>3, <2>1, <3>1
        <4>2. queue'[i].body.seq <= last[k]
          BY <1>3, <3>1, <4>1, NothingIsAhead
        <4>. QED
          BY <1>2, <1>3, <3>3, <4>2
      <3>. QED
        BY <3>2, <3>3
    <2>. QED
      BY <2>1 DEF QueueOrder
  <1>9. QueueIsAhead'
    <2>1. ASSUME NEW k \in NodeIds, NEW i \in DOMAIN queue', About(i, k, "health")'
          PROVE  /\ NotBehindEvent(k, queue[i].body)'
                 /\ Snapshot(k)' # None => Snapshot(k)'.seq <= queue'[i].body.seq
      <3>1. CASE i \in DOMAIN queue
        BY <1>3, <1>4, <2>1, <3>1 DEF OrderInv, QueueIsAhead, NotBehindEvent
      <3>2. CASE i \notin DOMAIN queue
        BY <1>2, <1>3, <1>4, <2>1, <3>2 DEF NotBehindEvent
      <3>. QED
        BY <3>1, <3>2
    <2>2. ASSUME NEW k \in NodeIds, NEW i \in DOMAIN queue', About(i, k, "lock/last")'
          PROVE  /\ NotBehindEvent(k, queue[i].body)'
                 /\ NewsOf(k, queue[i].body)'
                 /\ Kept(k)' # None /\ queue'[i].body.seq <= Kept(k)'.seq
      <3>1. i \in DOMAIN queue
        BY <1>3, <2>2
      <3>. QED
        BY <1>3, <1>4, <1>6, <2>2, <3>1
        DEF OrderInv, QueueIsAhead, NotBehindEvent, NewsOf, IsEvent
    <2>. QED
      BY <2>1, <2>2 DEF QueueIsAhead
  <1>10. ASSUME NEW k \in NodeIds
         PROVE  InFlight(k, "lock/last") \subseteq InFlight(k, "lock/last")'
    BY <1>3, <1>5 DEF InFlight
  <1>11. RetainedIsAhead'
    BY <1>2, <1>4, <1>6, <1>10
    DEF OrderInv, RetainedIsAhead, NotBehindEvent, NewsOf, IsEvent
  <1>12. SamplesAreExplained'
    <2>1. ASSUME NEW k \in NodeIds, NEW j \in DOMAIN queue', About(j, k, "health")'
          PROVE  \/ queue'[j].body.current = "jammed"
                 \/ queue'[j].body.seq = 0
                 \/ IsEvent(k, queue[j].body)'
                 \/ \E i \in DOMAIN queue' : /\ i < j /\ About(i, k, "lock/last")'
                                             /\ queue'[i].body.seq = queue'[j].body.seq
      <3>1. CASE j \in DOMAIN queue
        <4>1. \/ queue[j].body.current = "jammed"
              \/ queue[j].body.seq = 0
              \/ IsEvent(k, queue[j].body)
              \/ \E i \in DOMAIN queue : /\ i < j /\ About(i, k, "lock/last")
                                         /\ queue[i].body.seq = queue[j].body.seq
          BY <1>3, <2>1, <3>1 DEF OrderInv, SamplesAreExplained
        <4>. QED
          BY <1>3, <1>4, <1>5, <3>1, <4>1 DEF IsEvent
      <3>2. CASE j \notin DOMAIN queue
        <4>1. k = n /\ queue'[j].body.seq = last[n] /\ queue'[j].body.current = phys[n]
          BY <1>2, <1>3, <2>1, <3>2
        <4>2. CASE phys[n] = "jammed" \/ last[n] = 0
          BY <4>1, <4>2
        <4>3. CASE phys[n] # "jammed" /\ last[n] > 0
          <5>1. /\ Kept(n) # None /\ Kept(n).seq = last[n]
                /\ Kept(n) \in InFlight(n, "lock/last") \/ IsEvent(n, Kept(n))
            BY <1>2, <4>3 DEF OrderInv, RetainedIsAhead
          <5>2. CASE IsEvent(n, Kept(n))
            BY <1>4, <4>1, <5>1, <5>2 DEF IsEvent
          <5>3. CASE Kept(n) \in InFlight(n, "lock/last")
            <6>1. PICK i \in DOMAIN queue : About(i, n, "lock/last") /\ queue[i].body = Kept(n)
              BY <5>3 DEF InFlight
            <6>2. i \in DOMAIN queue' /\ i < j /\ About(i, n, "lock/last")'
                    /\ queue'[i] = queue[i]
              BY <1>3, <1>5, <3>2, <6>1
            <6>. QED
              BY <4>1, <5>1, <6>1, <6>2
          <5>. QED
            BY <5>1, <5>2, <5>3
        <4>. QED
          BY <1>4, <4>2, <4>3
      <3>. QED
        BY <3>1, <3>2
    <2>. QED
      BY <2>1 DEF SamplesAreExplained
  <1>. QED
    BY <1>8, <1>9, <1>11, <1>12 DEF OrderInv

\* A new subscription is sent one change of each node, and no sample.
LEMMA ReplayKeepsOrder ==
  ASSUME TypeInv, FactInv, OrderInv, ReplayStep
  PROVE  OrderInv'
  <1>1. UNCHANGED <<phys, last, seq, retained>> /\ Replay(queue')
    BY DEF ReplayStep, doorVars
  <1>2. ASSUME NEW k \in NodeIds
        PROVE  /\ Kept(k)' = Kept(k)
               /\ \/ Event(k)' = Event(k) /\ Snapshot(k)' = Snapshot(k)
                  \/ Event(k)' = None /\ Snapshot(k)' = None
    BY <1>1 DEF ReplayStep, coordVars, Event, Snapshot, Known, Blank, Kept
  <1>3. ASSUME NEW k \in NodeIds, NEW i \in DOMAIN queue'
        PROVE  /\ ~About(i, k, "health")'
               /\ About(i, k, "lock/last")' => queue'[i].body = Kept(k) /\ Kept(k) # None
               /\ \A j \in DOMAIN queue' :
                     About(i, k, "lock/last")' /\ About(j, k, "lock/last")' => i = j
    BY <1>1 DEF Replay, About, Kept, RetainedTopics
  <1>4. ASSUME NEW k \in NodeIds, Kept(k) # None
        PROVE  /\ Kept(k) \in InFlight(k, "lock/last")'
               /\ NotBehindEvent(k, Kept(k)) /\ NewsOf(k, Kept(k))
               /\ Kept(k).seq \in Nat
    <2>1. "lock/last" \in RetainedTopics
      BY DEF RetainedTopics
    <2>2. PICK i \in DOMAIN queue' : queue'[i].node = k /\ queue'[i].topic = "lock/last"
      BY <1>1, <1>4, <2>1 DEF Replay, Kept
    <2>3. Kept(k) \in InFlight(k, "lock/last")'
      BY <1>3, <2>2 DEF InFlight, About
    <2>4. Kept(k).seq \in Nat
      BY <1>4, NothingIsAhead
    <2>. QED
      BY <1>4, <2>3, <2>4 DEF OrderInv, RetainedIsAhead
  <1>5. QueueOrder'
    <2>1. ASSUME NEW k \in NodeIds, NEW i \in DOMAIN queue', NEW j \in DOMAIN queue', i < j
          PROVE  ~(About(i, k, "lock/last")' /\ About(j, k, "lock/last")')
      <3>1. i # j
        BY <1>1, <2>1 DEF Replay
      <3>. QED
        BY <1>3, <3>1
    <2>. QED
      BY <1>3, <2>1 DEF QueueOrder
  <1>6. QueueIsAhead'
    BY <1>2, <1>3, <1>4 DEF QueueIsAhead, NotBehindEvent, NewsOf, IsEvent
  <1>7. RetainedIsAhead'
    BY <1>1, <1>2, <1>4
    DEF OrderInv, RetainedIsAhead, NotBehindEvent, NewsOf, IsEvent
  <1>8. SamplesAreExplained'
    BY <1>3 DEF SamplesAreExplained
  <1>. QED
    BY <1>5, <1>6, <1>7, <1>8 DEF OrderInv

\* What is delivered was behind all that is still in flight.
LEMMA DeliverKeepsOrder ==
  ASSUME TypeInv, FactInv, OrderInv, Deliver
  PROVE  OrderInv'
  <1>1. /\ UNCHANGED <<phys, last, seq, retained, connected>> /\ connected
        /\ 1 \in DOMAIN queue /\ DOMAIN queue \subseteq Nat \ {0}
        /\ DOMAIN queue' \subseteq Nat \ {0}
    BY HeadIsGone DEF Deliver, doorVars, TypeInv, BrokerTypes
  <1>2. ASSUME NEW k \in NodeIds, NEW i \in DOMAIN queue', NEW t
        PROVE  /\ i + 1 \in DOMAIN queue /\ 1 < i + 1
               /\ About(i, k, t)' <=> About(i + 1, k, t)
               /\ queue'[i] = queue[i + 1]
    BY <1>1, HeadIsGone DEF About
  <1>3. ASSUME NEW k \in NodeIds, NEW i \in DOMAIN queue, NEW t, About(i, k, t), i # 1
        PROVE  i - 1 \in DOMAIN queue' /\ About(i - 1, k, t)' /\ queue'[i - 1] = queue[i]
    BY <1>1, <1>3, HeadIsGone DEF About
  <1>4. ASSUME NEW k \in NodeIds
        PROVE  /\ Kept(k)' = Kept(k)
               /\ Kept(k) # None => Kept(k).seq \in Nat
               /\ Event(k) # None => Event(k).seq \in Nat
               /\ Snapshot(k) # None => Snapshot(k).seq \in Nat
               /\ \A i \in DOMAIN queue :
                     About(i, k, "lock/last") \/ About(i, k, "health") =>
                        queue[i].body.seq \in Nat
               /\ About(1, k, "lock/last") => queue[1].body # None
    BY <1>1, NothingIsAhead DEF Kept
  <1>5. ASSUME NEW k \in NodeIds
        PROVE  \/ Event(k)' = Event(k) /\ Snapshot(k)' = Snapshot(k)
               \/ /\ About(1, k, "lock/last") /\ Event(k)' = queue[1].body
                  /\ Snapshot(k)' = Snapshot(k)
               \/ /\ About(1, k, "health") /\ Snapshot(k)' = queue[1].body
                  /\ Event(k)' = Event(k)
    BY DeliveredViews DEF About
  <1>6. ASSUME NEW k \in NodeIds
        PROVE  /\ About(1, k, "lock/last") =>
                     /\ NotBehindEvent(k, queue[1].body)
                     /\ Kept(k) # None /\ queue[1].body.seq <= Kept(k).seq
               /\ \A j \in DOMAIN queue : 1 < j
                     /\ (About(1, k, "lock/last") \/ About(1, k, "health")) =>
                     /\ About(j, k, "lock/last") => queue[1].body.seq < queue[j].body.seq
                     /\ About(j, k, "health") => queue[1].body.seq <= queue[j].body.seq
    BY <1>1 DEF OrderInv, QueueOrder, QueueIsAhead
  <1>7. QueueOrder'
    <2>1. ASSUME NEW k \in NodeIds, NEW i \in DOMAIN queue', NEW j \in DOMAIN queue',
                 i < j, About(i, k, "lock/last")' \/ About(i, k, "health")'
          PROVE  /\ About(j, k, "lock/last")' => queue'[i].body.seq < queue'[j].body.seq
                 /\ About(j, k, "health")' => queue'[i].body.seq <= queue'[j].body.seq
      <3>1. i + 1 < j + 1
        BY <1>1, <2>1
      <3>. QED
        BY <1>2, <2>1, <3>1 DEF OrderInv, QueueOrder
    <2>. QED
      BY <2>1 DEF QueueOrder
  <1>8. QueueIsAhead'
    <2>1. ASSUME NEW k \in NodeIds, NEW i \in DOMAIN queue', About(i, k, "health")'
          PROVE  /\ NotBehindEvent(k, queue[i].body)'
                 /\ Snapshot(k)' # None => Snapshot(k)'.seq <= queue'[i].body.seq
      <3>1. /\ About(i + 1, k, "health") /\ queue'[i] = queue[i + 1]
            /\ i + 1 \in DOMAIN queue /\ 1 < i + 1
        BY <1>2, <2>1
      <3>2. /\ NotBehindEvent(k, queue[i + 1].body)
            /\ Snapshot(k) # None => Snapshot(k).seq <= queue[i + 1].body.seq
        BY <3>1 DEF OrderInv, QueueIsAhead
      <3>. QED
        BY <1>5, <1>6, <3>1, <3>2 DEF NotBehindEvent
    <2>2. ASSUME NEW k \in NodeIds, NEW i \in DOMAIN queue', About(i, k, "lock/last")'
          PROVE  /\ NotBehindEvent(k, queue[i].body)'
                 /\ NewsOf(k, queue[i].body)'
                 /\ Kept(k)' # None /\ queue'[i].body.seq <= Kept(k)'.seq
      <3>1. /\ About(i + 1, k, "lock/last") /\ queue'[i] = queue[i + 1]
            /\ i + 1 \in DOMAIN queue /\ 1 < i + 1
        BY <1>2, <2>2
      <3>2. /\ NotBehindEvent(k, queue[i + 1].body) /\ NewsOf(k, queue[i + 1].body)
            /\ Kept(k) # None /\ queue[i + 1].body.seq <= Kept(k).seq
        BY <3>1 DEF OrderInv, QueueIsAhead
      <3>3. NotBehindEvent(k, queue[i].body)'
        BY <1>1, <1>4, <1>5, <1>6, <3>1, <3>2 DEF NotBehindEvent
      <3>4. NewsOf(k, queue[i].body)'
        BY <1>1, <1>4, <1>5, <1>6, <3>1, <3>2 DEF NotBehindEvent, NewsOf, IsEvent
      <3>. QED
        BY <1>4, <3>1, <3>2, <3>3, <3>4
    <2>. QED
      BY <2>1, <2>2 DEF QueueIsAhead
  <1>9. RetainedIsAhead'
    <2>1. ASSUME NEW k \in NodeIds, Kept(k) # None
          PROVE  /\ NotBehindEvent(k, Kept(k))'
                 /\ NewsOf(k, Kept(k))'
                 /\ \/ Kept(k)' \in InFlight(k, "lock/last")'
                    \/ IsEvent(k, Kept(k))'
      <3>1. /\ NotBehindEvent(k, Kept(k)) /\ NewsOf(k, Kept(k))
            /\ Kept(k) \in InFlight(k, "lock/last") \/ IsEvent(k, Kept(k))
        BY <1>1, <2>1 DEF OrderInv, RetainedIsAhead
      <3>2. NotBehindEvent(k, Kept(k))'
        BY <1>1, <1>4, <1>5, <1>6, <2>1, <3>1 DEF NotBehindEvent
      <3>3. CASE IsEvent(k, Kept(k))
        <4>1. IsEvent(k, Kept(k))'
          BY <1>1, <1>4, <1>5, <1>6, <2>1, <3>3 DEF NotBehindEvent, IsEvent
        <4>. QED
          BY <3>2, <4>1 DEF NewsOf
      <3>4. CASE Kept(k) \in InFlight(k, "lock/last")
        <4>1. PICK j \in DOMAIN queue : About(j, k, "lock/last") /\ queue[j].body = Kept(k)
          BY <3>4 DEF InFlight
        <4>2. CASE j = 1
          <5>1. Event(k)' = Kept(k)
            BY <4>1, <4>2, DeliveredViews
          <5>2. IsEvent(k, Kept(k))'
            BY <1>4, <2>1, <5>1 DEF IsEvent
          <5>. QED
            BY <3>2, <5>2 DEF NewsOf
        <4>3. CASE j # 1
          <5>1. Kept(k)' \in InFlight(k, "lock/last")'
            BY <1>3, <1>4, <4>1, <4>3 DEF InFlight
          <5>2. 1 < j
            BY <1>1, <4>3
          <5>3. NewsOf(k, Kept(k))'
            BY <1>1, <1>4, <1>5, <1>6, <3>1, <4>1, <5>2 DEF NotBehindEvent, NewsOf, IsEvent
          <5>. QED
            BY <3>2, <5>1, <5>3
        <4>. QED
          BY <4>2, <4>3
      <3>. QED
        BY <3>1, <3>3, <3>4
    <2>. QED
      BY <1>1, <1>4, <2>1 DEF OrderInv, RetainedIsAhead
  <1>10. SamplesAreExplained'
    <2>1. ASSUME NEW k \in NodeIds, NEW j \in DOMAIN queue', About(j, k, "health")'
          PROVE  \/ queue'[j].body.current = "jammed"
                 \/ queue'[j].body.seq = 0
                 \/ IsEvent(k, queue[j].body)'
                 \/ \E i \in DOMAIN queue' : /\ i < j /\ About(i, k, "lock/last")'
                                             /\ queue'[i].body.seq = queue'[j].body.seq
      <3>1. /\ About(j + 1, k, "health") /\ queue'[j] = queue[j + 1]
            /\ j + 1 \in DOMAIN queue /\ 1 < j + 1
        BY <1>2, <2>1
      <3>2. \/ queue[j + 1].body.current = "jammed"
            \/ queue[j + 1].body.seq = 0
            \/ IsEvent(k, queue[j + 1].body)
            \/ \E i \in DOMAIN queue : /\ i < j + 1 /\ About(i, k, "lock/last")
                                       /\ queue[i].body.seq = queue[j + 1].body.seq
        BY <3>1 DEF OrderInv, SamplesAreExplained
      <3>3. CASE IsEvent(k, queue[j + 1].body)
        <4>1. IsEvent(k, queue[j].body)'
          BY <1>1, <1>4, <1>5, <1>6, <3>1, <3>3 DEF NotBehindEvent, IsEvent
        <4>. QED
          BY <4>1
      <3>4. ASSUME NEW i \in DOMAIN queue, i < j + 1, About(i, k, "lock/last"),
                   queue[i].body.seq = queue[j + 1].body.seq
            PROVE  \/ IsEvent(k, queue[j].body)'
                   \/ \E o \in DOMAIN queue' : /\ o < j /\ About(o, k, "lock/last")'
                                               /\ queue'[o].body.seq = queue'[j].body.seq
        <4>1. CASE i = 1
          <5>1. Event(k)' = queue[1].body
            BY <3>4, <4>1, DeliveredViews
          <5>. QED
            BY <1>1, <1>4, <3>1, <3>4, <4>1, <5>1 DEF IsEvent
        <4>2. CASE i # 1
          <5>1. i - 1 < j
            BY <1>1, <2>1, <3>4
          <5>. QED
            BY <1>3, <3>1, <3>4, <4>2, <5>1
        <4>. QED
          BY <4>1, <4>2
      <3>. QED
        BY <3>1, <3>2, <3>3, <3>4
    <2>. QED
      BY <2>1 DEF SamplesAreExplained
  <1>. QED
    BY <1>7, <1>8, <1>9, <1>10 DEF OrderInv

\* The order survives where nothing is sent or delivered, and where all that is
\* in flight is lost with the connection.
LEMMA OtherStepsKeepOrder ==
  ASSUME TypeInv, FactInv, OrderInv,
         \/ Disconnect \/ ClockMoves \/ LogbookTurns \/ UNCHANGED vars
         \/ \E n \in NodeIds : Reboot(n)
  PROVE  OrderInv'
  <1>1. UNCHANGED <<phys, last, nodes, retained>>
    BY DEF Disconnect, ClockMoves, LogbookTurns, LogbookChanges, Reboot, vars, coordVars,
           doorVars, brokerVars
  <1>2. ASSUME NEW k \in NodeIds
        PROVE  Kept(k)' = Kept(k) /\ Event(k)' = Event(k) /\ Snapshot(k)' = Snapshot(k)
    BY <1>1, ViewsStay DEF Kept
  <1>3. \/ queue' = queue /\ connected' = connected
        \/ queue' = <<>> /\ connected' = FALSE
    BY DEF Disconnect, ClockMoves, LogbookTurns, Reboot, vars, brokerVars
  <1>4. CASE queue' = queue /\ connected' = connected
    <2>1. /\ \A k, t, i : About(i, k, t)' <=> About(i, k, t)
          /\ \A k, t : InFlight(k, t)' = InFlight(k, t)
      BY <1>4 DEF About, InFlight
    <2>2. QueueOrder'
      BY <1>4, <2>1 DEF OrderInv, QueueOrder
    <2>3. QueueIsAhead'
      BY <1>2, <1>4, <2>1 DEF OrderInv, QueueIsAhead, NotBehindEvent, NewsOf, IsEvent
    <2>4. RetainedIsAhead'
      BY <1>1, <1>2, <1>4, <2>1
      DEF OrderInv, RetainedIsAhead, NotBehindEvent, NewsOf, IsEvent
    <2>5. SamplesAreExplained'
      BY <1>2, <1>4, <2>1 DEF OrderInv, SamplesAreExplained, IsEvent
    <2>. QED
      BY <2>2, <2>3, <2>4, <2>5 DEF OrderInv
  <1>5. CASE queue' = <<>> /\ connected' = FALSE
    <2>1. DOMAIN queue' = {}
      BY <1>5
    <2>2. QueueOrder' /\ QueueIsAhead' /\ SamplesAreExplained'
      BY <2>1 DEF QueueOrder, QueueIsAhead, SamplesAreExplained
    <2>3. RetainedIsAhead'
      BY <1>1, <1>2, <1>5 DEF OrderInv, RetainedIsAhead, NotBehindEvent, NewsOf, IsEvent
    <2>. QED
      BY <2>2, <2>3 DEF OrderInv
  <1>. QED
    BY <1>3, <1>4, <1>5

\* There is nothing to order at the start.
LEMMA InitOrder == MqttInit => OrderInv
  <1>. SUFFICES ASSUME MqttInit PROVE OrderInv
    OBVIOUS
  <1>1. /\ DOMAIN queue = {}
        /\ retained = [n \in NodeIds |-> [t \in RetainedTopics |-> None]]
        /\ \A n \in NodeIds : last[n] = 0
    BY DEF MqttInit
  <1>2. "lock/last" \in RetainedTopics
    BY DEF RetainedTopics
  <1>3. \A n \in NodeIds : Kept(n) = None /\ ~(last[n] > 0)
    BY <1>1, <1>2 DEF Kept
  <1>. QED
    BY <1>1, <1>3 DEF OrderInv, QueueOrder, QueueIsAhead, RetainedIsAhead,
                      SamplesAreExplained

\* The order is kept by every step.
LEMMA StepKeepsOrder == TypeInv /\ FactInv /\ OrderInv /\ [MqttNext]_vars => OrderInv'
  <1>. SUFFICES ASSUME TypeInv, FactInv, OrderInv, [MqttNext]_vars PROVE OrderInv'
    OBVIOUS
  <1>1. ASSUME NEW n \in NodeIds, LockEvent(n) \/ TapOnly(n) \/ Jam(n) PROVE OrderInv'
    BY <1>1, DoorKeepsOrder, LockEventIsDoorStep, TapIsDoorStep, JamIsDoorStep
  <1>2. ASSUME NEW n \in NodeIds, Sample(n) PROVE OrderInv'
    BY <1>2, SampleIsSampleStep, SampleKeepsOrder
  <1>3. CASE Reconnect \/ Restart
    BY <1>3, SubscribesAreReplays, ReplayKeepsOrder
  <1>4. CASE Deliver
    BY <1>4, DeliverKeepsOrder
  <1>5. CASE \/ Disconnect \/ ClockMoves \/ LogbookTurns \/ UNCHANGED vars
             \/ \E n \in NodeIds : Reboot(n)
    BY <1>5, OtherStepsKeepOrder
  <1>. QED
    BY <1>1, <1>2, <1>3, <1>4, <1>5 DEF MqttNext

-----------------------------------------------------------------------------
(* The records.                                                              *)

\* A person is named for the tap that moved the bolt (_actor_for).
LEMMA ActorIsReal ==
  ASSUME TypeInv, FactInv, NEW n \in NodeIds, NEW c \in Changes(n),
         Actor(n, c) # c.source
  PROVE  /\ c.stamp # None
         /\ c.stamp.clock = clock[n]
         /\ clock[n] = "wall" \/ n \notin rebooted => Actor(n, c) = tapper[c.seq]
  <1>1. /\ Auth(n) # None /\ Auth(n).stamp # None /\ Auth(n).stamp = c.stamp
        /\ Actor(n, c) = Auth(n).issuer
    BY DEF Actor
  <1>2. Auth(n) \in Auths(n)
    BY <1>1, NothingIsAhead
  <1>3. /\ StampFits(n, c) /\ StampFits(n, Auth(n))
        /\ Auth(n).issuer = tapper[Auth(n).seq]
    BY <1>2 DEF FactInv, ChangesAreTrue, AuthsAreTrue
  <1>4. clock[n] # None /\ c.stamp.clock = clock[n]
    BY <1>1, <1>3 DEF StampFits
  <1>5. clock[n] \in {"wall", "uptime"}
    BY <1>4, DoorAssumption, ClockAssumption DEF TypeInv, DoorTypes
  <1>6. clock[n] = "wall" => c.seq = Auth(n).seq
    BY <1>1, <1>3, <1>4 DEF StampFits
  <1>7. clock[n] = "uptime" /\ n \notin rebooted => c.seq = Auth(n).seq
    BY <1>1, <1>2 DEF FactInv, StampsIdentify
  <1>. QED
    BY <1>1, <1>3, <1>4, <1>5, <1>6, <1>7

\* The records survive where Home Assistant keeps what it knows and writes
\* nothing: what is too old to be announced stays so.
LEMMA IdleKeepsRecords ==
  ASSUME TypeInv, RecordInv, UNCHANGED <<nodes, log, session, clock>>,
         seq' \in Nat, seq <= seq', \A i \in 1..seq : tapper'[i] = tapper[i],
         rebooted \subseteq rebooted', horizon' \in {horizon, horizon + 1}
  PROVE  RecordInv'
  <1>1. \A k : /\ Event(k)' = Event(k) /\ Snapshot(k)' = Snapshot(k)
               /\ Mark(k)' = Mark(k)
    BY ViewsStay
  <1>2. seq \in Nat /\ horizon \in Nat
    BY StampAssumption DEF TypeInv, DoorTypes, CoordTypeOK
  <1>3. SnapshotNeverHidesEvent'
    BY DEF RecordInv, SnapshotNeverHidesEvent, Reported
  <1>4. EventIsDealtWith'
    <2>1. ASSUME NEW k \in NodeIds, Event(k) # None, ~is_recent(Event(k).stamp, horizon)
          PROVE  ~is_recent(Event(k).stamp, horizon')
      <3>1. Event(k) \in LockChange
        BY <2>1, SeenIsKnown
      <3>2. Event(k).stamp # None => Event(k).stamp.at \in Nat
        BY <3>1, StampAssumption DEF LockChange, Stamp
      <3>. QED
        BY <1>2, <2>1, <3>2 DEF is_recent
    <2>2. ASSUME NEW k \in NodeIds, Event(k)' # None,
                 Event(k)'.source \in DEVICE_INITIATED_SOURCES
          PROVE  Mark(k)' = KeyOf(Event(k))' \/ ~is_recent(Event(k).stamp, horizon)'
      <3>1. \/ Mark(k) = KeyOf(Event(k))
            \/ ~is_recent(Event(k).stamp, horizon)
        BY <1>1, <2>2 DEF RecordInv, EventIsDealtWith
      <3>2. CASE Mark(k) = KeyOf(Event(k))
        BY <1>1, <3>2 DEF KeyOf
      <3>3. CASE ~is_recent(Event(k).stamp, horizon)
        <4>1. ~is_recent(Event(k).stamp, horizon')
          BY <1>1, <2>1, <2>2, <3>3
        <4>. QED
          BY <1>1, <4>1 DEF is_recent
      <3>. QED
        BY <3>1, <3>2, <3>3
    <2>. QED
      BY <2>2 DEF EventIsDealtWith
  <1>5. LogIsNotAhead'
    BY <1>1 DEF RecordInv, LogIsNotAhead, InSession, KeyOf
  <1>6. LogSeqs'
    BY <1>2 DEF RecordInv, LogSeqs
  <1>7. LogFollowsTheDoor'
    BY DEF RecordInv, LogFollowsTheDoor
  <1>8. PersonIsReal'
    <2>1. \A i \in DOMAIN log : tapper'[log[i].seq] = tapper[log[i].seq]
      BY DEF RecordInv, LogSeqs
    <2>. QED
      BY <2>1 DEF RecordInv, PersonIsReal
  <1>. QED
    BY <1>3, <1>4, <1>5, <1>6, <1>7, <1>8 DEF RecordInv

\* After a restart nothing is known and no entry is of this session.
LEMMA ReplayKeepsRecords ==
  ASSUME TypeInv, RecordInv, ReplayStep
  PROVE  RecordInv'
  <1>1. /\ UNCHANGED <<log, seq, tapper, clock, rebooted, horizon>>
        /\ seq \in Nat
        /\ \/ UNCHANGED <<nodes, session>>
           \/ nodes' = Blank /\ session' = Len(log)
    BY StampAssumption
    DEF ReplayStep, doorVars, clockVars, coordVars, TypeInv, DoorTypes
  <1>2. CASE UNCHANGED <<nodes, session>>
    BY <1>1, <1>2, IdleKeepsRecords
  <1>3. CASE nodes' = Blank /\ session' = Len(log)
    <2>1. log \in Seq(LogEntry)
      BY DEF TypeInv, CoordTypeOK
    <2>2. \A k \in NodeIds : nodes'[k] = None /\ Event(k)' = None
      BY <1>3 DEF Blank, Event, Known
    <2>3. /\ \A i \in DOMAIN log' : ~InSession(i)'
          /\ (session' + 1)..Len(log') = {}
      BY <1>1, <1>3, <2>1 DEF InSession
    <2>4. SnapshotNeverHidesEvent' /\ EventIsDealtWith' /\ LogIsNotAhead'
      BY <2>2, <2>3
      DEF SnapshotNeverHidesEvent, Reported, EventIsDealtWith, LogIsNotAhead
    <2>5. LogSeqs' /\ PersonIsReal'
      BY <1>1 DEF RecordInv, LogSeqs, PersonIsReal
    <2>6. LogFollowsTheDoor'
      BY <2>3 DEF LogFollowsTheDoor
    <2>. QED
      BY <2>4, <2>5, <2>6 DEF RecordInv
  <1>. QED
    BY <1>1, <1>2, <1>3

\* Nothing is known or recorded at the start.
LEMMA InitRecords == MqttInit => RecordInv
  <1>. SUFFICES ASSUME MqttInit PROVE RecordInv
    OBVIOUS
  <1>1. nodes = Blank /\ DOMAIN log = {} /\ (session + 1)..Len(log) = {}
    BY DEF MqttInit, CoordInit
  <1>2. \A k \in NodeIds : nodes[k] = None /\ Event(k) = None
    BY <1>1 DEF Blank, Event, Known
  <1>3. SnapshotNeverHidesEvent /\ EventIsDealtWith
    BY <1>2 DEF SnapshotNeverHidesEvent, Reported, EventIsDealtWith
  <1>4. LogIsNotAhead /\ LogSeqs /\ PersonIsReal
    BY <1>1 DEF LogIsNotAhead, LogSeqs, PersonIsReal
  <1>5. LogFollowsTheDoor
    BY <1>1 DEF LogFollowsTheDoor
  <1>. QED
    BY <1>3, <1>4, <1>5 DEF RecordInv

\* What an entry about change c of node n has to be when it is written: newer
\* than those of this session, and the newest change that has been reported.
News(n, c) ==
    /\ Event(n)' = c
    /\ \A i \in DOMAIN log : InSession(i) /\ log[i].node = n => log[i].seq < c.seq
    /\ Snapshot(n)' # None => Snapshot(n)'.seq <= c.seq
    /\ Mark(n)' = KeyOf(c) \/ (Snapshot(n)' # None /\ Snapshot(n)'.seq >= c.seq)

\* An event is announced once (_attribute_lock_event).
LEMMA AnnouncedIsNews ==
  ASSUME TypeInv, FactInv, OrderInv, RecordInv, Deliver,
         NEW n \in NodeIds, NEW c \in LockChange,
         queue[1].topic = "lock/last", queue[1].node = n, queue[1].body = c,
         TakesEvent(n, c), Announced(n, c)
  PROVE  c \in Changes(n) /\ News(n, c)
  <1>1. 1 \in DOMAIN queue /\ About(1, n, "lock/last")
    BY HeadIsGone DEF About
  <1>2. /\ c \in Changes(n) /\ c.seq \in Nat
        /\ NotBehindEvent(n, c) /\ NewsOf(n, c)
        /\ Event(n) # None => Event(n) \in Changes(n) /\ Event(n).seq \in Nat
    <2>1. /\ c \in Changes(n) /\ c.seq \in Nat
          /\ Event(n) # None => Event(n) \in Changes(n) /\ Event(n).seq \in Nat
      BY <1>1, NothingIsAhead
    <2>2. NotBehindEvent(n, c) /\ NewsOf(n, c)
      BY <1>1 DEF OrderInv, QueueIsAhead
    <2>. QED
      BY <2>1, <2>2
  <1>3. Event(n) # None => Event(n).seq # c.seq
    <2>1. SUFFICES ASSUME Event(n) # None, Event(n).seq = c.seq PROVE FALSE
      OBVIOUS
    <2>2. Event(n) = c
      BY <1>2, <2>1 DEF FactInv, ReportsAgree
    <2>3. Mark(n) = KeyOf(c) \/ ~is_recent(c.stamp, horizon)
      BY <2>1, <2>2 DEF RecordInv, EventIsDealtWith, Announced
    <2>. QED
      BY <2>3 DEF Announced
  <1>4. ASSUME NEW i \in DOMAIN log, InSession(i), log[i].node = n
        PROVE  log[i].seq < c.seq
    <2>1. Event(n) # None /\ log[i].seq <= Event(n).seq
      BY <1>4 DEF RecordInv, LogIsNotAhead
    <2>2. log[i].seq \in Nat
      BY NothingIsAhead DEF RecordInv, LogSeqs
    <2>. QED
      BY <1>2, <1>3, <2>1, <2>2 DEF NotBehindEvent
  <1>5. Snapshot(n) # None => Snapshot(n).seq \in Nat /\ Snapshot(n).seq <= c.seq
    BY <1>2, <1>3, NothingIsAhead DEF NewsOf, IsEvent
  <1>. QED
    BY <1>2, <1>4, <1>5 DEF News, TakesEvent

\* A snapshot explains an event once (_attribute_lock_change).
LEMMA ExplainedIsNews ==
  ASSUME TypeInv, FactInv, OrderInv, RecordInv, Deliver,
         NEW n \in NodeIds, NEW h \in Health,
         queue[1].topic = "health", queue[1].node = n, queue[1].body = h,
         TakesSnapshot(n, h), Explained(n, h), NEW c, c = Event(n)
  PROVE  c \in Changes(n) /\ News(n, c)
  <1>1. 1 \in DOMAIN queue /\ About(1, n, "health") /\ c # None /\ Snapshot(n) # None
    BY HeadIsGone DEF About, Explained
  <1>2. /\ c \in Changes(n) /\ c.seq \in 1..last[n]
        /\ h \in Samples(n) /\ h.seq \in Nat
        /\ Snapshot(n) \in Samples(n) /\ Snapshot(n).seq \in Nat
    BY <1>1, NothingIsAhead
  <1>3. c.seq <= h.seq /\ Snapshot(n).seq <= h.seq
    BY <1>1 DEF OrderInv, QueueIsAhead, NotBehindEvent
  <1>4. h.seq = c.seq
    <2>1. \/ h.current = "jammed"
          \/ h.seq = 0
          \/ IsEvent(n, h)
          \/ \E i \in DOMAIN queue : i < 1
      BY <1>1 DEF OrderInv, SamplesAreExplained
    <2>2. \A i \in DOMAIN queue : ~(i < 1)
      BY DEF TypeInv, BrokerTypes
    <2>3. h.current # "jammed"
      BY <1>2 DEF Explained, FactInv, ChangesAreTrue
    <2>4. h.seq # 0
      BY <1>2, <1>3
    <2>. QED
      BY <2>1, <2>2, <2>3, <2>4 DEF IsEvent
  <1>5. Snapshot(n).seq # h.seq
    BY <1>2 DEF Explained, FactInv, ReportsAgree
  <1>6. ASSUME NEW i \in DOMAIN log, InSession(i), log[i].node = n
        PROVE  log[i].seq < c.seq
    <2>1. /\ log[i].seq <= c.seq
          /\ log[i].seq = c.seq /\ Mark(n) # KeyOf(c) => Snapshot(n).seq >= c.seq
      BY <1>6 DEF RecordInv, LogIsNotAhead
    <2>2. Mark(n) # KeyOf(c)
      BY DEF Explained
    <2>3. log[i].seq \in Nat
      BY NothingIsAhead DEF RecordInv, LogSeqs
    <2>. QED
      BY <1>2, <1>3, <1>4, <1>5, <2>1, <2>2, <2>3
  <1>7. Event(n)' = c /\ Snapshot(n)' = h /\ h # None
    BY KeyAssumption DEF TakesSnapshot
  <1>. QED
    BY <1>2, <1>4, <1>6, <1>7 DEF News

\* A delivery writes nothing, or an entry about the change that is then known.
LEMMA EntryIsNews ==
  ASSUME TypeInv, FactInv, OrderInv, RecordInv, Deliver
  PROVE  \/ log' = log
         \/ \E n \in NodeIds : \E c \in Changes(n) :
               log' = log \o <<Entry(n, c)>> /\ News(n, c)
  <1>1. queue[1].topic \in {"lock/last", "last_auth", "health"}
    BY HeadIsGone, WireBodies DEF WireTopics, RetainedTopics
  <1>2. log \in Seq(LogEntry) /\ log \o <<>> = log
    BY DEF TypeInv, CoordTypeOK
  <1>3. CASE queue[1].topic = "lock/last"
    <2>1. PICK n \in NodeIds, c \in LockChange :
            queue[1].node = n /\ queue[1].body = c /\ c # None /\ TakesEvent(n, c)
      BY <1>3, EventIsTaken
    <2>2. CASE Announced(n, c)
      <3>1. c \in Changes(n) /\ News(n, c)
        BY <1>3, <2>1, <2>2, AnnouncedIsNews
      <3>2. log' = log \o <<Entry(n, c)>>
        BY <2>1, <2>2 DEF TakesEvent
      <3>. QED
        BY <3>1, <3>2
    <2>3. CASE ~Announced(n, c)
      BY <1>2, <2>1, <2>3 DEF TakesEvent
    <2>. QED
      BY <2>2, <2>3
  <1>4. CASE queue[1].topic = "health"
    <2>1. PICK n \in NodeIds, h \in Health :
            queue[1].node = n /\ queue[1].body = h /\ TakesSnapshot(n, h)
      BY <1>4, SnapshotIsTaken
    <2>2. CASE Explained(n, h)
      <3>1. PICK c : c = Event(n)
        OBVIOUS
      <3>2. c \in Changes(n) /\ News(n, c)
        BY <1>4, <2>1, <2>2, <3>1, ExplainedIsNews
      <3>3. log' = log \o <<Entry(n, c)>>
        BY <2>1, <2>2, <3>1 DEF TakesSnapshot
      <3>. QED
        BY <3>2, <3>3
    <2>3. CASE ~Explained(n, h)
      BY <1>2, <2>1, <2>3 DEF TakesSnapshot
    <2>. QED
      BY <2>2, <2>3
  <1>5. CASE queue[1].topic = "last_auth"
    BY <1>2, <1>5, AuthIsTaken DEF TakesAuth
  <1>. QED
    BY <1>1, <1>3, <1>4, <1>5

\* The log after an entry.
LEMMA Appended ==
  ASSUME NEW e, log \in Seq(LogEntry), log' = log \o <<e>>
  PROVE  /\ Len(log) \in Nat /\ Len(log') = Len(log) + 1
         /\ DOMAIN log = 1..Len(log) /\ DOMAIN log' = 1..(Len(log) + 1)
         /\ log'[Len(log) + 1] = e
         /\ \A i \in DOMAIN log : log'[i] = log[i]
  OBVIOUS

\* The log stays in order over a delivery.
LEMMA DeliverKeepsLog ==
  ASSUME TypeInv, FactInv, OrderInv, RecordInv, Deliver
  PROVE  LogSeqs' /\ LogFollowsTheDoor' /\ PersonIsReal'
  <1>1. UNCHANGED <<session, seq, clock, rebooted, tapper>> /\ seq \in Nat
    BY StampAssumption DEF Deliver, haVars, doorVars, clockVars, TypeInv, DoorTypes
  <1>2. CASE log' = log
    BY <1>1, <1>2 DEF RecordInv, LogSeqs, LogFollowsTheDoor, PersonIsReal
  <1>3. ASSUME NEW n \in NodeIds, NEW c \in Changes(n), log' = log \o <<Entry(n, c)>>,
               News(n, c)
        PROVE  LogSeqs' /\ LogFollowsTheDoor' /\ PersonIsReal'
    <2>. DEFINE new == Len(log) + 1
    <2>1. log \in Seq(LogEntry) /\ session \in 0..Len(log)
      BY DEF TypeInv, CoordTypeOK
    <2>2. /\ Len(log) \in Nat /\ Len(log') = new
          /\ DOMAIN log = 1..Len(log) /\ DOMAIN log' = 1..new
          /\ log'[new] = Entry(n, c)
          /\ \A i \in DOMAIN log : log'[i] = log[i]
      BY <1>3, <2>1, Appended
    <2>3. /\ log'[new].node = n /\ log'[new].seq = c.seq /\ log'[new].source = c.source
          /\ log'[new].stamp = c.stamp /\ log'[new].actor = Actor(n, c)
      BY <2>2 DEF Entry
    <2>4. c.seq \in 1..seq
      BY <1>1, NothingIsAhead DEF FactInv, ChangesAreTrue
    <2>. HIDE DEF new
    <2>5. \A i \in DOMAIN log' : i = new \/ i \in DOMAIN log
      BY <2>2 DEF new
    <2>6. LogSeqs'
      BY <1>1, <2>2, <2>3, <2>4, <2>5 DEF RecordInv, LogSeqs
    <2>7. LogFollowsTheDoor'
      <3>1. ASSUME NEW i \in (session + 1)..new, NEW j \in (session + 1)..new,
                   i < j, log'[i].node = log'[j].node
            PROVE  log'[i].seq < log'[j].seq
        <4>1. i \in (session + 1)..Len(log) /\ i \in DOMAIN log /\ InSession(i)
          BY <2>1, <2>2, <3>1 DEF InSession, new
        <4>2. CASE j = new
          BY <1>3, <2>2, <2>3, <3>1, <4>1, <4>2 DEF News
        <4>3. CASE j # new
          <5>1. j \in (session + 1)..Len(log) /\ j \in DOMAIN log
            BY <2>1, <2>2, <3>1, <4>3 DEF new
          <5>. QED
            BY <2>2, <3>1, <4>1, <5>1 DEF RecordInv, LogFollowsTheDoor
        <4>. QED
          BY <4>2, <4>3
      <3>. QED
        BY <1>1, <2>2, <3>1 DEF LogFollowsTheDoor
    <2>8. PersonIsReal'
      <3>1. ASSUME NEW i \in DOMAIN log', log'[i].actor # log'[i].source
            PROVE  /\ log'[i].stamp # None
                   /\ log'[i].stamp.clock = clock[log'[i].node]
                   /\ clock[log'[i].node] = "wall" \/ log'[i].node \notin rebooted =>
                         log'[i].actor = tapper[log'[i].seq]
        <4>1. CASE i = new
          BY <2>3, <3>1, <4>1, ActorIsReal
        <4>2. CASE i \in DOMAIN log
          BY <2>2, <3>1, <4>2 DEF RecordInv, PersonIsReal
        <4>. QED
          BY <2>5, <4>1, <4>2
      <3>. QED
        BY <1>1, <3>1 DEF PersonIsReal
    <2>. QED
      BY <2>6, <2>7, <2>8
  <1>. QED
    BY <1>2, <1>3, EntryIsNews

\* An entry about change number s of node n is not ahead of what is known.
Behind(n, s) ==
    /\ Event(n) # None
    /\ s <= Event(n).seq
    /\ s = Event(n).seq /\ Mark(n) # KeyOf(Event(n)) =>
          Snapshot(n) # None /\ Snapshot(n).seq >= Event(n).seq

\* What is known of a node stays in step with the log over a delivery.
Knowledge(n) ==
    /\ Event(n)' # None /\ Event(n)'.source \in DEVICE_INITIATED_SOURCES =>
          Mark(n)' = KeyOf(Event(n))' \/ ~is_recent(Event(n).stamp, horizon)'
    /\ \A s \in Nat : Behind(n, s) => Behind(n, s)'
    /\ Reported(n)' /\ ~nodes'[n].lock_change_is_fresh =>
          nodes'[n].health.seq >= nodes'[n].lock_change.seq

\* The views of a node that is there are its fields.
LEMMA ViewsAreFields ==
  ASSUME NEW n, nodes'[n] # None
  PROVE  Event(n)' = nodes'[n].lock_change /\ Snapshot(n)' = nodes'[n].health
  BY DEF Event, Snapshot, Known

\* A node that a message is not about is known as before.
LEMMA OthersAreKnown ==
  ASSUME RecordInv, NEW n \in NodeIds, nodes'[n] = nodes[n], horizon' = horizon
  PROVE  Knowledge(n)
  <1>1. /\ Event(n)' = Event(n) /\ Snapshot(n)' = Snapshot(n)
        /\ Mark(n)' = Mark(n)
    BY DEF Event, Snapshot, Mark, Known
  <1>2. Event(n) # None /\ Event(n).source \in DEVICE_INITIATED_SOURCES =>
            Mark(n) = KeyOf(Event(n)) \/ ~is_recent(Event(n).stamp, horizon)
    BY DEF RecordInv, EventIsDealtWith
  <1>3. Reported(n)' /\ ~nodes'[n].lock_change_is_fresh =>
          nodes'[n].health.seq >= nodes'[n].lock_change.seq
    BY DEF RecordInv, SnapshotNeverHidesEvent, Reported
  <1>4. KeyOf(Event(n))' = KeyOf(Event(n))
    BY <1>1 DEF KeyOf
  <1>5. is_recent(Event(n).stamp, horizon)' <=> is_recent(Event(n).stamp, horizon)
    BY <1>1 DEF is_recent
  <1>. QED
    BY <1>1, <1>2, <1>3, <1>4, <1>5 DEF Knowledge, Behind

\* A change that is taken is announced, known already or too old.
LEMMA EventIsKnown ==
  ASSUME TypeInv, FactInv, OrderInv, RecordInv, Deliver,
         NEW n \in NodeIds, NEW c \in LockChange,
         queue[1].topic = "lock/last", queue[1].node = n, queue[1].body = c,
         TakesEvent(n, c)
  PROVE  Knowledge(n)
  <1>1. 1 \in DOMAIN queue /\ About(1, n, "lock/last") /\ horizon' = horizon
    BY HeadIsGone DEF About, Deliver
  <1>2. /\ c \in Changes(n) /\ c.seq \in Nat /\ c # None
        /\ NotBehindEvent(n, c)
        /\ Event(n) # None => Event(n) \in Changes(n) /\ Event(n).seq \in Nat
    <2>1. /\ c \in Changes(n) /\ c.seq \in Nat /\ c # None
          /\ Event(n) # None => Event(n) \in Changes(n) /\ Event(n).seq \in Nat
      BY <1>1, NothingIsAhead
    <2>2. NotBehindEvent(n, c)
      BY <1>1 DEF OrderInv, QueueIsAhead
    <2>. QED
      BY <2>1, <2>2
  <1>3. /\ Event(n)' = c /\ Snapshot(n)' = Snapshot(n)
        /\ nodes'[n].lock_change_is_fresh = TRUE
        /\ IF Announced(n, c) THEN Mark(n)' = KeyOf(c) ELSE Mark(n)' = Mark(n)
    BY DEF TakesEvent
  <1>4. KeyOf(Event(n))' = KeyOf(c)
    BY <1>3 DEF KeyOf
  <1>5. is_recent(Event(n).stamp, horizon)' <=> is_recent(c.stamp, horizon)
    BY <1>1, <1>3 DEF is_recent
  <1>6. c.source \in DEVICE_INITIATED_SOURCES =>
            Mark(n)' = KeyOf(c) \/ ~is_recent(c.stamp, horizon)
    BY <1>3 DEF Announced
  <1>7. ASSUME NEW s \in Nat, Behind(n, s)
        PROVE  Behind(n, s)'
    <2>1. /\ Event(n) # None /\ s <= Event(n).seq /\ Event(n).seq <= c.seq
          /\ s = Event(n).seq /\ Mark(n) # KeyOf(Event(n)) =>
                Snapshot(n) # None /\ Snapshot(n).seq >= Event(n).seq
      BY <1>2, <1>7 DEF Behind, NotBehindEvent
    <2>2. s <= c.seq
      BY <1>2, <2>1
    <2>3. ASSUME s = c.seq, Mark(n)' # KeyOf(c)
          PROVE  Snapshot(n) # None /\ Snapshot(n).seq >= c.seq
      <3>1. s = Event(n).seq /\ Event(n).seq = c.seq
        BY <1>2, <2>1, <2>3
      <3>2. Event(n) = c
        <4>1. Event(n) \in Changes(n) /\ c \in Changes(n)
          BY <1>2, <2>1
        <4>. QED
          BY <3>1, <4>1 DEF FactInv, ReportsAgree
      <3>3. Mark(n) # KeyOf(c)
        BY <1>3, <2>3
      <3>. QED
        BY <2>1, <3>1, <3>2, <3>3
    <2>. QED
      BY <1>2, <1>3, <1>4, <2>2, <2>3 DEF Behind
  <1>. QED
    BY <1>3, <1>4, <1>5, <1>6, <1>7 DEF Knowledge

\* A snapshot that is taken is not behind the event.
LEMMA SnapshotIsKnown ==
  ASSUME TypeInv, FactInv, OrderInv, RecordInv, Deliver,
         NEW n \in NodeIds, NEW h \in Health,
         queue[1].topic = "health", queue[1].node = n, queue[1].body = h,
         TakesSnapshot(n, h)
  PROVE  Knowledge(n)
  <1>1. /\ 1 \in DOMAIN queue /\ About(1, n, "health") /\ horizon' = horizon
        /\ h # None
    BY HeadIsGone, KeyAssumption DEF About, Deliver
  <1>2. Event(n) # None => Event(n).seq <= h.seq /\ Event(n).seq \in Nat /\ h.seq \in Nat
    <2>1. NotBehindEvent(n, h)
      BY <1>1 DEF OrderInv, QueueIsAhead
    <2>. QED
      BY <1>1, <2>1, NothingIsAhead DEF NotBehindEvent
  <1>3. /\ Event(n)' = Event(n) /\ Snapshot(n)' = h /\ Mark(n)' = Mark(n)
        /\ nodes'[n] # None
    BY DEF TakesSnapshot
  <1>4. KeyOf(Event(n))' = KeyOf(Event(n))
    BY <1>3 DEF KeyOf
  <1>5. is_recent(Event(n).stamp, horizon)' <=> is_recent(Event(n).stamp, horizon)
    BY <1>1, <1>3 DEF is_recent
  <1>6. Event(n) # None /\ Event(n).source \in DEVICE_INITIATED_SOURCES =>
            Mark(n) = KeyOf(Event(n)) \/ ~is_recent(Event(n).stamp, horizon)
    BY DEF RecordInv, EventIsDealtWith
  <1>7. Reported(n)' => nodes'[n].health.seq >= nodes'[n].lock_change.seq
    <2>1. nodes'[n].health = h /\ nodes'[n].lock_change = Event(n)
      BY <1>3, ViewsAreFields
    <2>. QED
      BY <1>2, <2>1 DEF Reported
  <1>8. \A s \in Nat : Behind(n, s) => Behind(n, s)'
    BY <1>1, <1>2, <1>3, <1>4 DEF Behind
  <1>. QED
    BY <1>3, <1>4, <1>5, <1>6, <1>7, <1>8 DEF Knowledge

\* An authorisation says nothing of the bolt.
LEMMA AuthIsKnown ==
  ASSUME TypeInv, RecordInv, Deliver,
         NEW n \in NodeIds, NEW a, TakesAuth(n, a)
  PROVE  Knowledge(n)
  <1>1. /\ Event(n)' = Event(n) /\ Snapshot(n)' = Snapshot(n)
        /\ Mark(n)' = Mark(n) /\ nodes'[n] # None /\ horizon' = horizon
        /\ nodes'[n].lock_change_is_fresh = Seen(n).lock_change_is_fresh
    BY DEF TakesAuth, Deliver
  <1>2. Event(n) # None /\ Event(n).source \in DEVICE_INITIATED_SOURCES =>
            Mark(n) = KeyOf(Event(n)) \/ ~is_recent(Event(n).stamp, horizon)
    BY DEF RecordInv, EventIsDealtWith
  <1>3. Reported(n)' /\ ~nodes'[n].lock_change_is_fresh =>
          nodes'[n].health.seq >= nodes'[n].lock_change.seq
    <2>1. nodes'[n].health = Snapshot(n) /\ nodes'[n].lock_change = Event(n)
      BY <1>1, ViewsAreFields
    <2>2. CASE nodes[n] = None
      BY <2>1, <2>2 DEF Reported, Snapshot, Known
    <2>3. CASE nodes[n] # None
      <3>1. /\ Seen(n) = nodes[n] /\ nodes[n].health = Snapshot(n)
            /\ nodes[n].lock_change = Event(n)
        BY <2>3 DEF Seen, ensure_node, Snapshot, Event, Known
      <3>. QED
        BY <1>1, <2>1, <2>3, <3>1 DEF RecordInv, SnapshotNeverHidesEvent, Reported
    <2>. QED
      BY <2>2, <2>3
  <1>4. KeyOf(Event(n))' = KeyOf(Event(n))
    BY <1>1 DEF KeyOf
  <1>5. is_recent(Event(n).stamp, horizon)' <=> is_recent(Event(n).stamp, horizon)
    BY <1>1 DEF is_recent
  <1>. QED
    BY <1>1, <1>2, <1>3, <1>4, <1>5 DEF Knowledge, Behind

\* The records are kept by a delivery.
LEMMA DeliverKeepsRecords ==
  ASSUME TypeInv, FactInv, OrderInv, RecordInv, Deliver
  PROVE  RecordInv'
  <1>1. ASSUME NEW n \in NodeIds PROVE Knowledge(n)
    <2>1. queue[1].topic \in {"lock/last", "last_auth", "health"}
      BY HeadIsGone, WireBodies DEF WireTopics, RetainedTopics
    <2>2. CASE queue[1].node # n
      <3>1. nodes'[n] = nodes[n] /\ horizon' = horizon
        BY <2>2, DeliveredViews DEF Deliver
      <3>. QED
        BY <3>1, OthersAreKnown
    <2>3. CASE queue[1].node = n /\ queue[1].topic = "lock/last"
      <3>1. PICK k \in NodeIds, c \in LockChange :
              queue[1].node = k /\ queue[1].body = c /\ c # None /\ TakesEvent(k, c)
        BY <2>3, EventIsTaken
      <3>2. k = n
        BY <2>3, <3>1
      <3>. QED
        BY <2>3, <3>1, <3>2, EventIsKnown
    <2>4. CASE queue[1].node = n /\ queue[1].topic = "health"
      <3>1. PICK k \in NodeIds, h \in Health :
              queue[1].node = k /\ queue[1].body = h /\ TakesSnapshot(k, h)
        BY <2>4, SnapshotIsTaken
      <3>2. k = n
        BY <2>4, <3>1
      <3>. QED
        BY <2>4, <3>1, <3>2, SnapshotIsKnown
    <2>5. CASE queue[1].node = n /\ queue[1].topic = "last_auth"
      <3>1. PICK k \in NodeIds, a \in LastAuth :
              queue[1].node = k /\ queue[1].body = a /\ TakesAuth(k, a)
        BY <2>5, AuthIsTaken
      <3>2. k = n
        BY <2>5, <3>1
      <3>. QED
        BY <3>1, <3>2, AuthIsKnown
    <2>. QED
      BY <2>1, <2>2, <2>3, <2>4, <2>5
  <1>2. SnapshotNeverHidesEvent'
    BY <1>1 DEF Knowledge, SnapshotNeverHidesEvent
  <1>3. EventIsDealtWith'
    BY <1>1 DEF Knowledge, EventIsDealtWith
  <1>4. session' = session /\ log \in Seq(LogEntry)
    BY DEF Deliver, haVars, TypeInv, CoordTypeOK
  <1>5. ASSUME NEW n \in NodeIds, NEW i \in DOMAIN log, InSession(i), log[i].node = n
        PROVE  Behind(n, log[i].seq) /\ log[i].seq \in Nat
    <2>1. log[i].seq \in Nat
      BY NothingIsAhead DEF RecordInv, LogSeqs
    <2>. QED
      BY <1>5, <2>1 DEF RecordInv, LogIsNotAhead, Behind
  <1>6. LogIsNotAhead'
    <2>1. ASSUME NEW n \in NodeIds, NEW s \in Nat, Behind(n, s)
          PROVE  /\ Event(n)' # None
                 /\ s <= Event(n)'.seq
                 /\ s = Event(n)'.seq /\ Mark(n)' # KeyOf(Event(n))' =>
                       Snapshot(n)' # None /\ Snapshot(n)'.seq >= Event(n)'.seq
      BY <1>1, <2>1 DEF Knowledge, Behind
    <2>2. CASE log' = log
      BY <1>4, <1>5, <2>1, <2>2 DEF LogIsNotAhead, InSession
    <2>3. ASSUME NEW n \in NodeIds, NEW c \in Changes(n),
                 log' = log \o <<Entry(n, c)>>, News(n, c)
          PROVE  LogIsNotAhead'
      <3>. DEFINE new == Len(log) + 1
      <3>1. /\ Len(log) \in Nat /\ DOMAIN log = 1..Len(log) /\ DOMAIN log' = 1..new
            /\ log'[new] = Entry(n, c)
            /\ \A i \in DOMAIN log : log'[i] = log[i]
        BY <1>4, <2>3, Appended
      <3>2. log'[new].node = n /\ log'[new].seq = c.seq
        BY <3>1 DEF Entry
      <3>3. c.seq \in Nat /\ c # None
        BY NothingIsAhead DEF FactInv, ChangesAreTrue, Changes
      <3>4. KeyOf(Event(n))' = KeyOf(c)
        BY <2>3 DEF News, KeyOf
      <3>. HIDE DEF new
      <3>5. ASSUME NEW k \in NodeIds, NEW i \in DOMAIN log', InSession(i)',
                   log'[i].node = k
            PROVE  /\ Event(k)' # None
                   /\ log'[i].seq <= Event(k)'.seq
                   /\ log'[i].seq = Event(k)'.seq /\ Mark(k)' # KeyOf(Event(k))' =>
                         Snapshot(k)' # None /\ Snapshot(k)'.seq >= Event(k)'.seq
        <4>1. CASE i = new
          BY <2>3, <3>2, <3>3, <3>4, <3>5, <4>1 DEF News
        <4>2. CASE i \in DOMAIN log
          BY <1>4, <1>5, <2>1, <3>1, <3>5, <4>2 DEF InSession
        <4>3. i = new \/ i \in DOMAIN log
          BY <3>1 DEF new
        <4>. QED
          BY <4>1, <4>2, <4>3
      <3>. QED
        BY <3>5 DEF LogIsNotAhead
    <2>. QED
      BY <2>2, <2>3, EntryIsNews
  <1>. QED
    BY <1>2, <1>3, <1>6, DeliverKeepsLog DEF RecordInv

\* The records are kept by every step.
LEMMA StepKeepsRecords ==
  TypeInv /\ FactInv /\ OrderInv /\ RecordInv /\ [MqttNext]_vars => RecordInv'
  <1>. SUFFICES ASSUME TypeInv, FactInv, OrderInv, RecordInv, [MqttNext]_vars
                PROVE  RecordInv'
    OBVIOUS
  <1>1. seq \in Nat
    BY StampAssumption DEF TypeInv, DoorTypes
  <1>2. ASSUME NEW n \in NodeIds, NEW Ms, DoorStep(n, Ms) PROVE RecordInv'
    <2>1. /\ UNCHANGED <<nodes, log, session, clock, rebooted, horizon>>
          /\ seq' = seq + 1 /\ \A i \in 1..seq : tapper'[i] = tapper[i]
      BY <1>2 DEF DoorStep, coordVars, haVars
    <2>2. seq' \in Nat /\ seq <= seq'
      BY <1>1, <2>1
    <2>. QED
      BY <2>1, <2>2, IdleKeepsRecords
  <1>3. ASSUME NEW n \in NodeIds, LockEvent(n) \/ TapOnly(n) \/ Jam(n) PROVE RecordInv'
    BY <1>2, <1>3, LockEventIsDoorStep, TapIsDoorStep, JamIsDoorStep
  <1>4. CASE Reconnect \/ Restart
    BY <1>4, SubscribesAreReplays, ReplayKeepsRecords
  <1>5. CASE Deliver
    BY <1>5, DeliverKeepsRecords
  <1>6. CASE \/ Disconnect \/ ClockMoves \/ LogbookTurns \/ UNCHANGED vars
             \/ \E n \in NodeIds : Reboot(n) \/ Sample(n)
    <2>1. /\ UNCHANGED <<nodes, log, session, clock, seq, tapper>>
          /\ rebooted \subseteq rebooted' /\ horizon' \in {horizon, horizon + 1}
      BY <1>6 DEF Disconnect, ClockMoves, LogbookTurns, LogbookChanges, Reboot, Sample, vars,
                  coordVars, doorVars, clockVars, haVars
    <2>. QED
      BY <1>1, <2>1, IdleKeepsRecords
  <1>. QED
    BY <1>3, <1>4, <1>5, <1>6 DEF MqttNext

-----------------------------------------------------------------------------
(* The theorems.                                                             *)

\* The invariant holds at the start and is kept by every step.
LEMMA MqttInvariance == MqttSpec => []MqttInv
  <1>1. MqttInit => MqttInv
    BY InitTypes, InitFacts, InitOrder, InitRecords DEF MqttInv
  <1>2. MqttInv /\ [MqttNext]_vars => MqttInv'
    BY StepKeepsTypes, StepKeepsFacts, StepKeepsOrder, StepKeepsRecords DEF MqttInv
  <1>. QED
    BY <1>1, <1>2, PTL DEF MqttSpec

\* Every reachable state of the household is well typed: the registry, the log,
\* the doors, and what is in flight and retained.
THEOREM MqttTypeCorrect == MqttSpec => []MqttTypeOK
  <1>1. ASSUME MqttInv PROVE MqttTypeOK
    <2>. DEFINE Parts == [node : NodeIds, topic : WireTopics, form : Form,
                          body : LockChange \cup LastAuth \cup Health]
    <2>1. queue \in Seq(Wire)
      BY <1>1 DEF MqttInv, TypeInv, BrokerTypes
    <2>2. ASSUME NEW m \in Wire PROVE m \in Parts /\ m \in Message(m.topic)
      <3>1. PICK t \in WireTopics : m \in Message(t)
        BY DEF Wire
      <3>2. Body(t) \subseteq LockChange \cup LastAuth \cup Health
        BY WireBody
      <3>. QED
        BY <3>1, <3>2 DEF Message
    <2>3. queue \in Seq(Parts)
      <3>1. \A i \in 1..Len(queue) : queue[i] \in Parts
        BY <2>1, <2>2
      <3>. HIDE DEF Parts
      <3>. QED
        BY <2>1, <3>1
    <2>4. \A i \in DOMAIN queue : queue[i] \in Message(queue[i].topic)
      BY <2>1, <2>2
    <2>. QED
      BY <1>1, <2>3, <2>4
      DEF MqttInv, TypeInv, DoorTypes, BrokerTypes, MqttTypeOK, WireTopics
  <1>. QED
    BY <1>1, MqttInvariance, PTL

\* A snapshot only takes the place of an event that it is not behind, for any
\* number of lost connections and restarts (Node.lock_state).
THEOREM EventsStayInFront == MqttSpec => []SnapshotNeverHidesEvent
  <1>1. MqttInv => SnapshotNeverHidesEvent
    BY DEF MqttInv, RecordInv
  <1>. QED
    BY <1>1, MqttInvariance, PTL

\* Within a run of Home Assistant no change is logged twice and none after a
\* later one, on whichever of the two paths (_attribute_lock_event,
\* _attribute_lock_change).
THEOREM LogIsInOrder == MqttSpec => []LogFollowsTheDoor
  <1>1. MqttInv => LogFollowsTheDoor
    BY DEF MqttInv, RecordInv
  <1>. QED
    BY <1>1, MqttInvariance, PTL

\* A person named in the log is the one who tapped for that change, unless two
\* boots of a node without wall time share the stamp (_actor_for).
THEOREM PersonsAreReal == MqttSpec => []PersonIsTheTapper
  <1>1. MqttInv => PersonIsTheTapper
    BY DEF MqttInv, RecordInv, PersonIsReal, PersonIsTheTapper
  <1>. QED
    BY <1>1, MqttInvariance, PTL

\* A step that does not deliver writes nothing to the log.
LEMMA OnlyDeliveriesWrite ==
  ASSUME TypeInv, MqttNext, ~Deliver
  PROVE  log' = log
  <1>1. ASSUME NEW n \in NodeIds, LockEvent(n) \/ TapOnly(n) \/ Jam(n) \/ Sample(n)
                                   \/ Reboot(n)
        PROVE  log' = log
    BY <1>1 DEF LockEvent, TapOnly, Jam, Sample, Reboot, coordVars
  <1>2. CASE Disconnect \/ Reconnect \/ ClockMoves \/ LogbookTurns \/ Restart
    BY <1>2 DEF Disconnect, Reconnect, ClockMoves, LogbookTurns, LogbookChanges,
                Restart, coordVars
  <1>. QED
    BY <1>1, <1>2 DEF MqttNext

\* An entry is only ever written about the newest change that has been reported,
\* so the cause of an earlier change never explains a later one
\* (_attribute_lock_change).
THEOREM CausesAreCurrent == MqttSpec => CauseIsOfTheNewestChange
  <1>. DEFINE e == log'[Len(log')]
              EntryIsCurrent == Len(log') > Len(log) =>
                            (nodes'[e.node].health # None =>
                               nodes'[e.node].health.seq <= e.seq)
  <1>1. MqttInv /\ [MqttNext]_vars => [EntryIsCurrent]_vars
    <2>. SUFFICES ASSUME MqttInv, MqttNext PROVE EntryIsCurrent
      OBVIOUS
    <2>1. log \in Seq(LogEntry)
      BY DEF MqttInv, TypeInv, CoordTypeOK
    <2>2. CASE log' = log
      BY <2>1, <2>2
    <2>3. CASE Deliver
      <3>1. \/ log' = log
            \/ \E n \in NodeIds : \E c \in Changes(n) :
                  log' = log \o <<Entry(n, c)>> /\ News(n, c)
        BY <2>3, EntryIsNews DEF MqttInv
      <3>2. ASSUME NEW n \in NodeIds, NEW c \in Changes(n),
                   log' = log \o <<Entry(n, c)>>, News(n, c)
            PROVE  EntryIsCurrent
        <4>1. e = Entry(n, c)
          BY <2>1, <3>2, Appended
        <4>. HIDE DEF e
        <4>2. e.node = n /\ e.seq = c.seq
          BY <4>1 DEF Entry
        <4>3. c # None /\ Event(n)' = c
          BY <3>2 DEF Changes, News
        <4>4. nodes'[n] # None
          BY <4>3 DEF Event, Known
        <4>5. nodes'[n].health = Snapshot(n)'
          BY <4>4, ViewsAreFields
        <4>. QED
          BY <3>2, <4>2, <4>5 DEF News
      <3>. QED
        BY <2>2, <3>1, <3>2
    <2>. QED
      BY <2>2, <2>3, OnlyDeliveriesWrite DEF MqttInv
  <1>. QED
    BY <1>1, MqttInvariance, PTL DEF MqttSpec, CauseIsOfTheNewestChange

\* What holds of a coordinator that is sent single messages is kept by every step
\* of the household (async_handle_message).
LEMMA StepKeepsCoord ==
  ASSUME TypeInv, TypeInv', CoordInv, [MqttNext]_vars
  PROVE  CoordInv'
  <1>1. logbook' \in Logbook /\ horizon' \in 0..MaxStamp
    BY DEF TypeInv, CoordTypeOK
  <1>2. CASE UNCHANGED vars
    BY <1>1, <1>2, StillKeepsInv DEF vars, coordVars
  <1>3. ASSUME NEW n \in NodeIds, LockEvent(n) \/ TapOnly(n) \/ Jam(n) \/ Sample(n)
                                   \/ Reboot(n)
        PROVE  CoordInv'
    <2>1. UNCHANGED <<nodes, pool, entities, log>>
      BY <1>3 DEF LockEvent, TapOnly, Jam, Sample, Reboot, coordVars
    <2>. QED
      BY <1>1, <2>1, StillKeepsInv
  <1>4. CASE Disconnect \/ Reconnect \/ ClockMoves \/ LogbookTurns
    <2>1. UNCHANGED <<nodes, pool, entities, log>>
      BY <1>4 DEF Disconnect, Reconnect, ClockMoves, LogbookTurns, LogbookChanges,
                  coordVars
    <2>. QED
      BY <1>1, <2>1, StillKeepsInv
  <1>5. CASE Deliver
    <2>. DEFINE m == queue[1]
                c == Handle(CoordState, m, horizon)
    <2>1. m.topic \in AllTopics /\ m \in Message(m.topic) /\ m.form = "ok" /\ Become(c)
      BY <1>5, HeadIsGone, WireBodies
    <2>. HIDE DEF m
    <2>2. CoordState \in GoodRecord
      BY InvOfRecord
    <2>3. c \in GoodRecord
      BY <2>1, <2>2, HandleIsGood
    <2>. HIDE DEF c
    <2>. QED
      BY <1>1, <2>1, <2>3, BecomeKeepsInv
  <1>6. CASE Restart
    <2>1. nodes' = Blank /\ pool' = Blank /\ log' = log
      BY <1>6 DEF Restart
    <2>2. PoolIsCurrent' /\ MarkedIsAttributed'
      BY <2>1 DEF PoolIsCurrent, MarkedIsAttributed, Blank
    <2>3. LogClaimsOnlyDeviceChanges'
      BY <2>1 DEF CoordInv, LogClaimsOnlyDeviceChanges
    <2>. QED
      BY <2>2, <2>3 DEF CoordInv, TypeInv
  <1>. QED
    BY <1>2, <1>3, <1>4, <1>5, <1>6 DEF MqttNext

\* Over a broker that loses and repeats messages, and through restarts that keep
\* only the log, and whether or not the logbook takes what it is given, the pool is
\* current, a mark stands for a cause the logbook was given, and the log claims
\* only what the device did (_dispatch).
THEOREM RedeliveryKeepsTheRecord ==
  MqttSpec => [](PoolIsCurrent /\ MarkedIsAttributed /\ LogClaimsOnlyDeviceChanges)
  <1>1. MqttInit => CoordInv
    BY InitInv DEF MqttInit
  <1>2. MqttInv /\ MqttInv' /\ CoordInv /\ [MqttNext]_vars => CoordInv'
    BY StepKeepsCoord DEF MqttInv
  <1>3. CoordInv => PoolIsCurrent /\ MarkedIsAttributed /\ LogClaimsOnlyDeviceChanges
    BY DEF CoordInv
  <1>. QED
    BY <1>1, <1>2, <1>3, MqttInvariance, PTL DEF MqttSpec

-----------------------------------------------------------------------------
(* The household implements the coordinator that CoordSpec describes alone.  *)

\* A step of CoordNext but for the bound on its log: one message of one topic is
\* handled; the wall clock moves on; the logbook changes its mind.
Hears == \E t \in AllTopics : \E m \in Message(t) : async_handle_message(m)

\* A coordinator begins again in a new run of Home Assistant, beside the activity
\* log of the runs before.
BeginsAgain ==
    /\ nodes' = Blank
    /\ pool' = Blank
    /\ entities' = {}
    /\ UNCHANGED <<log, logbook, horizon>>

\* Whatever the nodes, the broker and Home Assistant do around it, the registry,
\* the pool, the entities and the log move only as one message at a time moves
\* them, with time, with the logbook failing or working again, and in a restart
\* (_on_message, async_handle_message).
THEOREM HouseholdIsACoordinator ==
  MqttSpec =>
    CoordInit /\ [][Hears \/ TimePasses \/ LogbookChanges \/ BeginsAgain]_coordVars
  <1>1. ASSUME MqttInv, [MqttNext]_vars
        PROVE  [Hears \/ TimePasses \/ LogbookChanges \/ BeginsAgain]_coordVars
    <2>1. ASSUME NEW n \in NodeIds, LockEvent(n) \/ TapOnly(n) \/ Jam(n) \/ Sample(n)
                                     \/ Reboot(n)
          PROVE  UNCHANGED coordVars
      BY <2>1 DEF LockEvent, TapOnly, Jam, Sample, Reboot
    <2>2. CASE Disconnect \/ Reconnect \/ UNCHANGED vars
      BY <2>2 DEF Disconnect, Reconnect, vars
    <2>3. CASE Deliver
      <3>. DEFINE m == queue[1]
      <3>1. /\ m.topic \in AllTopics /\ m \in Message(m.topic)
            /\ Become(Handle(CoordState, m, horizon))
        BY <1>1, <2>3, HeadIsGone, WireBodies DEF MqttInv
      <3>2. UNCHANGED <<logbook, horizon>>
        BY <2>3 DEF Deliver
      <3>3. async_handle_message(m)
        BY <3>1, <3>2 DEF async_handle_message
      <3>. HIDE DEF m
      <3>. QED
        BY <3>1, <3>3 DEF Hears
    <2>4. CASE ClockMoves
      <3>1. horizon \in 0..MaxStamp /\ seq \in 0..MaxSeq
        BY <1>1 DEF MqttInv, TypeInv, CoordTypeOK, DoorTypes
      <3>2. horizon < MaxStamp
        BY <2>4, <3>1, RoomAssumption, StampAssumption DEF ClockMoves
      <3>. QED
        BY <2>4, <3>2 DEF ClockMoves, TimePasses
    <2>5. CASE Restart
      BY <2>5 DEF Restart, BeginsAgain
    <2>6. CASE LogbookTurns
      BY <2>6 DEF LogbookTurns
    <2>. QED
      BY <1>1, <2>1, <2>2, <2>3, <2>4, <2>5, <2>6 DEF MqttNext
  <1>. QED
    BY <1>1, MqttInvariance, PTL DEF MqttSpec, MqttInit

-----------------------------------------------------------------------------
(* What keeps the disagreements in their place: each documented claim that   *)
(* the specification violates is true while one cause of it stays away.      *)

\* No node stamps two things alike: none counts from its boot and has booted
\* again.
NoStampTwice == \A n \in NodeIds : clock[n] = "uptime" => n \notin rebooted

\* "less specific, and never wrong" (README) holds until a node without a clock
\* boots again: whoever is named in the log is the one who tapped (_actor_for).
THEOREM NeverWrongWithoutReboots ==
  MqttSpec => [](NoStampTwice => NeverTheWrongPerson)
  <1>1. ASSUME MqttInv, NoStampTwice, NEW i \in DOMAIN log, log[i].actor # log[i].source
        PROVE  log[i].actor = tapper[log[i].seq]
    <2>1. log[i].node \in NodeIds /\ log[i].stamp \in Stamp \cup {None}
      <3>1. log \in Seq(LogEntry)
        BY <1>1 DEF MqttInv, TypeInv, CoordTypeOK
      <3>2. log[i] \in LogEntry
        BY <3>1
      <3>. QED
        BY <3>2 DEF LogEntry
    <2>2. /\ log[i].stamp # None
          /\ log[i].stamp.clock = clock[log[i].node]
          /\ clock[log[i].node] = "wall" \/ log[i].node \notin rebooted =>
                log[i].actor = tapper[log[i].seq]
      BY <1>1 DEF MqttInv, RecordInv, PersonIsReal
    <2>3. clock[log[i].node] \in {"wall", "uptime"}
      BY <2>1, <2>2, ClockAssumption DEF Stamp
    <2>. QED
      BY <1>1, <2>1, <2>2, <2>3 DEF NoStampTwice
  <1>2. MqttInv => (NoStampTwice => NeverTheWrongPerson)
    BY <1>1 DEF NeverTheWrongPerson
  <1>. QED
    BY <1>2, MqttInvariance, PTL

\* Losses and restarts are counted from nothing, and the log of the first run of
\* Home Assistant is the whole log.
CountsOK == drops \in Nat /\ restarts \in Nat /\ (restarts = 0 => session = 0)

\* The counts are kept by every step.
LEMMA CountsInvariance == MqttSpec => []CountsOK
  <1>1. MqttInit => CountsOK
    BY DEF MqttInit, CountsOK
  <1>2. CountsOK /\ [MqttNext]_vars => CountsOK'
    <2>. SUFFICES ASSUME CountsOK, [MqttNext]_vars PROVE CountsOK'
      OBVIOUS
    <2>1. ASSUME NEW n \in NodeIds, LockEvent(n) PROVE CountsOK'
      BY <2>1 DEF LockEvent, Publish, haVars, CountsOK
    <2>2. ASSUME NEW n \in NodeIds, TapOnly(n) \/ Jam(n) \/ Sample(n) \/ Reboot(n)
          PROVE  CountsOK'
      BY <2>2 DEF TapOnly, Jam, Sample, Reboot, Publish, brokerVars, haVars, CountsOK
    <2>3. CASE \/ Disconnect \/ Reconnect \/ Deliver \/ ClockMoves \/ LogbookTurns
               \/ Restart \/ UNCHANGED vars
      BY <2>3
      DEF Disconnect, Reconnect, Deliver, ClockMoves, LogbookTurns, Restart, vars, brokerVars, haVars,
          CountsOK
    <2>. QED
      BY <2>1, <2>2, <2>3 DEF MqttNext
  <1>. QED
    BY <1>1, <1>2, PTL DEF MqttSpec

\* "The same event must not be announced as news twice" (coordinator.py) holds
\* for as long as Home Assistant is not restarted, however often the broker is
\* lost and repeats what it retains (attributed_lock_change).
THEOREM NeverTwiceInOneRun == MqttSpec => [](restarts = 0 => NeverAnnouncedTwice)
  <1>1. ASSUME MqttInv, CountsOK, restarts = 0 PROVE NeverAnnouncedTwice
    <2>1. session = 0 /\ log \in Seq(LogEntry)
      BY <1>1 DEF CountsOK, MqttInv, TypeInv, CoordTypeOK
    <2>2. Len(log) \in Nat /\ DOMAIN log = 1..Len(log)
      BY <2>1
    <2>3. \A i \in DOMAIN log : log[i].seq \in Nat
      BY <1>1, NothingIsAhead, StampAssumption
      DEF MqttInv, TypeInv, DoorTypes, RecordInv, LogSeqs
    <2>4. \A i, j \in DOMAIN log :
             i < j /\ log[i].node = log[j].node => log[i].seq < log[j].seq
      BY <1>1, <2>1, <2>2 DEF MqttInv, RecordInv, LogFollowsTheDoor
    <2>5. ASSUME NEW i \in DOMAIN log, NEW j \in DOMAIN log,
                 log[i].node = log[j].node, log[i].seq = log[j].seq, i # j
          PROVE  FALSE
      BY <2>2, <2>3, <2>4, <2>5
    <2>. QED
      BY <2>5 DEF NeverAnnouncedTwice
  <1>2. MqttInv /\ CountsOK => (restarts = 0 => NeverAnnouncedTwice)
    BY <1>1
  <1>. QED
    BY <1>2, MqttInvariance, CountsInvariance, PTL

\* An event is in front of a snapshot that is newer than it.
Hides(n) == /\ Reported(n)
            /\ nodes[n].lock_change_is_fresh
            /\ nodes[n].lock_change.seq < nodes[n].health.seq

\* What is known of a node changes only with a delivery, or is forgotten.
LEMMA OnlyDeliveriesTell ==
  ASSUME MqttNext, ~Deliver
  PROVE  nodes' = nodes \/ nodes' = Blank
  <1>1. ASSUME NEW n \in NodeIds, LockEvent(n) \/ TapOnly(n) \/ Jam(n) \/ Sample(n)
                                   \/ Reboot(n)
        PROVE  nodes' = nodes
    BY <1>1 DEF LockEvent, TapOnly, Jam, Sample, Reboot, coordVars
  <1>2. CASE Disconnect \/ Reconnect \/ ClockMoves \/ LogbookTurns \/ Restart
    BY <1>2 DEF Disconnect, Reconnect, ClockMoves, LogbookTurns, LogbookChanges,
                Restart, coordVars
  <1>. QED
    BY <1>1, <1>2 DEF MqttNext

\* What a delivery puts in front of a newer snapshot is the event it delivers,
\* which Home Assistant has had before.
LEMMA HidingIsRepeating ==
  ASSUME TypeInv, FactInv, OrderInv, Deliver, NEW n \in NodeIds, Hides(n)', ~Hides(n)
  PROVE  About(1, n, "lock/last") /\ IsEvent(n, queue[1].body)
         /\ Event(n) = queue[1].body /\ Event(n)' = Event(n)
  <1>1. 1 \in DOMAIN queue /\ queue[1].topic \in {"lock/last", "last_auth", "health"}
    BY HeadIsGone, WireBodies DEF WireTopics, RetainedTopics
  <1>2. /\ nodes'[n] # None /\ nodes'[n].lock_change_is_fresh
        /\ Event(n)' = nodes'[n].lock_change /\ Snapshot(n)' = nodes'[n].health
        /\ Event(n)' # None /\ Snapshot(n)' # None
        /\ Event(n)'.seq < Snapshot(n)'.seq
    BY ViewsAreFields DEF Hides, Reported
  <1>3. nodes[n] # None /\ Reported(n) /\ nodes[n].lock_change_is_fresh =>
            ~(nodes[n].lock_change.seq < nodes[n].health.seq)
    BY DEF Hides
  <1>4. nodes'[n] # nodes[n]
    BY DEF Hides, Reported
  <1>5. queue[1].node = n
    BY <1>4, DeliveredViews
  <1>6. queue[1].topic # "health"
    BY <1>2, <1>5, SnapshotIsTaken DEF TakesSnapshot
  <1>7. queue[1].topic # "last_auth"
    <2>1. SUFFICES ASSUME queue[1].topic = "last_auth" PROVE FALSE
      OBVIOUS
    <2>2. /\ nodes'[n].lock_change_is_fresh = Seen(n).lock_change_is_fresh
          /\ Event(n)' = Event(n) /\ Snapshot(n)' = Snapshot(n)
      BY <1>5, <2>1, AuthIsTaken DEF TakesAuth
    <2>3. nodes[n] # None
      BY <1>2, <2>2 DEF Event, Known
    <2>4. /\ Seen(n) = nodes[n] /\ nodes[n].health = Snapshot(n)
          /\ nodes[n].lock_change = Event(n)
      BY <2>3 DEF Seen, ensure_node, Snapshot, Event, Known
    <2>. QED
      BY <1>2, <1>3, <2>2, <2>3, <2>4 DEF Reported
  <1>8. About(1, n, "lock/last")
    BY <1>1, <1>5, <1>6, <1>7 DEF About
  <1>9. /\ Event(n)' = queue[1].body /\ Snapshot(n)' = Snapshot(n)
        /\ queue[1].body \in Changes(n) /\ queue[1].body.seq \in Nat
        /\ Snapshot(n)' # None => Snapshot(n).seq \in Nat
    BY <1>1, <1>8, DeliveredViews, NothingIsAhead DEF About
  <1>10. NewsOf(n, queue[1].body)
    BY <1>1, <1>8 DEF OrderInv, QueueIsAhead
  <1>11. IsEvent(n, queue[1].body)
    BY <1>2, <1>9, <1>10 DEF NewsOf
  <1>12. Event(n) = queue[1].body
    <2>1. Event(n) \in Changes(n) /\ Event(n).seq = queue[1].body.seq
      BY <1>11, NothingIsAhead DEF IsEvent
    <2>. QED
      BY <1>9, <2>1 DEF FactInv, ReportsAgree
  <1>. QED
    BY <1>8, <1>9, <1>11, <1>12

\* "True while lock_change is newer than the health snapshot" (models.py) is only
\* ever made false by a repetition: an event comes in front of a snapshot that is
\* newer than it only when it is delivered again (_handle_lock_last).
OnlyRepeatsHide ==
  [][\A n \in NodeIds : Hides(n)' /\ ~Hides(n) =>
        nodes[n] # None /\ nodes'[n].lock_change = nodes[n].lock_change]_vars

\* So it is in every run, over a broker that retains and repeats (_on_message,
\* _handle_lock_last).
THEOREM RepeatedEventsHide == MqttSpec => OnlyRepeatsHide
  <1>1. MqttInv /\ [MqttNext]_vars =>
          [\A n \in NodeIds : Hides(n)' /\ ~Hides(n) =>
              nodes[n] # None /\ nodes'[n].lock_change = nodes[n].lock_change]_vars
    <2>. SUFFICES ASSUME MqttInv, MqttNext, NEW n \in NodeIds, Hides(n)', ~Hides(n)
                  PROVE  nodes[n] # None /\ nodes'[n].lock_change = nodes[n].lock_change
      OBVIOUS
    <2>1. nodes'[n] # None
      BY DEF Hides, Reported
    <2>2. CASE Deliver
      <3>1. Event(n)' = Event(n) /\ Event(n) # None
        BY <2>2, HidingIsRepeating DEF MqttInv, IsEvent
      <3>. QED
        BY <2>1, <3>1, ViewsAreFields DEF Event, Known
    <2>3. CASE ~Deliver
      <3>1. CASE nodes' = nodes
        BY <3>1 DEF Hides, Reported
      <3>2. CASE nodes' = Blank
        BY <2>1, <3>2 DEF Blank
      <3>. QED
        BY <2>3, <3>1, <3>2, OnlyDeliveriesTell
    <2>. QED
      BY <2>2, <2>3
  <1>. QED
    BY <1>1, MqttInvariance, PTL DEF MqttSpec, OnlyRepeatsHide

\* While no connection was lost and Home Assistant not restarted, nothing that is
\* on its way is known already.
Undisturbed == drops = 0 /\ restarts = 0
NothingRepeats ==
    /\ connected
    /\ \A n \in NodeIds : \A i \in DOMAIN queue :
          About(i, n, "lock/last") => ~IsEvent(n, queue[i].body)
UndisturbedInv ==
    Undisturbed => NothingRepeats /\ \A n \in NodeIds : ~Hides(n)

\* What a node sends is new: it repeats no change that it has reported.
LEMMA NewsDoNotRepeat ==
  ASSUME TypeInv, FactInv, NothingRepeats, NEW n \in NodeIds, NEW Ms, Published(n, Ms),
         UNCHANGED nodes,
         \A m \in Ms : m.topic = "lock/last" => m.node = n /\ m.body.seq = seq + 1
  PROVE  NothingRepeats'
  <1>1. connected'
    BY DEF NothingRepeats, Published
  <1>2. ASSUME NEW k \in NodeIds, NEW i \in DOMAIN queue', About(i, k, "lock/last")',
               IsEvent(k, queue[i].body)'
        PROVE  FALSE
    <2>1. Event(k)' = Event(k) /\ Event(k) # None /\ Event(k).seq = queue'[i].body.seq
      BY <1>2, ViewsStay DEF IsEvent
    <2>2. CASE i \in DOMAIN queue
      BY <1>2, <2>1, <2>2 DEF Published, NothingRepeats, About, IsEvent
    <2>3. CASE i \notin DOMAIN queue
      <3>1. queue'[i] \in Ms /\ queue'[i].topic = "lock/last"
        BY <1>2, <2>3 DEF Published, About
      <3>2. Event(k).seq = seq + 1
        BY <2>1, <3>1
      <3>. QED
        BY <2>1, <3>2, NothingIsAhead
    <2>. QED
      BY <2>2, <2>3
  <1>. QED
    BY <1>1, <1>2 DEF NothingRepeats

\* Once a change is taken, what is behind it is newer.
LEMMA DeliveriesDoNotRepeat ==
  ASSUME TypeInv, FactInv, OrderInv, NothingRepeats, Deliver
  PROVE  NothingRepeats'
  <1>1. connected' = connected
    BY DEF Deliver
  <1>2. ASSUME NEW n \in NodeIds, NEW i \in DOMAIN queue', About(i, n, "lock/last")',
               IsEvent(n, queue[i].body)'
        PROVE  FALSE
    <2>1. /\ i + 1 \in DOMAIN queue /\ queue'[i] = queue[i + 1]
          /\ 1 \in DOMAIN queue /\ 1 < i + 1
      <3>1. i \in Nat /\ i >= 1
        BY <1>2, HeadIsGone
      <3>. QED
        BY <1>2, <3>1, HeadIsGone
    <2>2. About(i + 1, n, "lock/last")
      BY <1>2, <2>1 DEF About
    <2>3. CASE About(1, n, "lock/last")
      <3>1. queue[1].body.seq < queue[i + 1].body.seq
        BY <2>1, <2>2, <2>3 DEF OrderInv, QueueOrder
      <3>2. Event(n)' = queue[1].body
        BY <2>3, DeliveredViews
      <3>3. queue[1].body.seq \in Nat /\ queue[i + 1].body.seq \in Nat
        BY <2>1, <2>2, <2>3, NothingIsAhead
      <3>. QED
        BY <1>2, <2>1, <3>1, <3>2, <3>3 DEF IsEvent
    <2>4. CASE ~About(1, n, "lock/last")
      <3>1. Event(n)' = Event(n)
        BY <2>4, DeliveredViews
      <3>. QED
        BY <1>2, <2>1, <2>2, <3>1 DEF IsEvent, NothingRepeats
    <2>. QED
      BY <2>3, <2>4
  <1>. QED
    BY <1>1, <1>2 DEF NothingRepeats

\* Every step keeps it.
LEMMA StepKeepsUndisturbed ==
  ASSUME MqttInv, CountsOK, UndisturbedInv, [MqttNext]_vars
  PROVE  UndisturbedInv'
  <1>. SUFFICES ASSUME Undisturbed'
                PROVE  NothingRepeats' /\ \A n \in NodeIds : ~Hides(n)'
    BY DEF UndisturbedInv
  <1>. USE DEF MqttInv
  <1>0. seq \in Nat
    BY StampAssumption DEF TypeInv, DoorTypes
  <1>1. ASSUME NEW n \in NodeIds, LockEvent(n) \/ TapOnly(n) \/ Jam(n)
        PROVE  \E Ms : DoorStep(n, Ms)
    BY <1>1, LockEventIsDoorStep, TapIsDoorStep, JamIsDoorStep
  <1>2. ASSUME UNCHANGED nodes, \A n \in NodeIds : ~Hides(n)
        PROVE  \A n \in NodeIds : ~Hides(n)'
    BY <1>2 DEF Hides, Reported
  <1>3. ASSUME NEW n \in NodeIds, NEW Ms, DoorStep(n, Ms),
               UNCHANGED <<drops, restarts>>
        PROVE  NothingRepeats' /\ \A k \in NodeIds : ~Hides(k)'
    <2>1. NothingRepeats /\ \A k \in NodeIds : ~Hides(k)
      BY <1>3 DEF UndisturbedInv, Undisturbed
    <2>2. UNCHANGED nodes /\ Published(n, Ms)
      BY <1>3 DEF DoorStep, coordVars
    <2>3. \A m \in Ms : m.node = n /\ m.body.seq = seq + 1
      BY <1>3 DEF DoorStep, Telling
    <2>. QED
      BY <1>2, <2>1, <2>2, <2>3, NewsDoNotRepeat
  <1>4. ASSUME NEW n \in NodeIds, LockEvent(n) \/ TapOnly(n) \/ Jam(n) \/ Sample(n)
        PROVE  UNCHANGED <<drops, restarts>>
    <2>1. LockEvent(n) => UNCHANGED <<drops, restarts>>
      BY DEF LockEvent, Publish, haVars
    <2>. QED
      BY <1>4, <2>1 DEF TapOnly, Jam, Sample, Publish, brokerVars, haVars
  <1>5. ASSUME NEW n \in NodeIds, Sample(n)
        PROVE  NothingRepeats' /\ \A k \in NodeIds : ~Hides(k)'
    <2>1. NothingRepeats /\ \A k \in NodeIds : ~Hides(k)
      BY <1>4, <1>5 DEF UndisturbedInv, Undisturbed
    <2>2. SampleStep(n)
      BY <1>5, SampleIsSampleStep
    <2>3. PICK m \in Wire : m.topic = "health" /\ Published(n, {m})
      BY <2>2 DEF SampleStep
    <2>4. UNCHANGED nodes
      BY <2>2 DEF SampleStep, coordVars
    <2>. QED
      BY <1>2, <2>1, <2>3, <2>4, NewsDoNotRepeat
  <1>6. CASE Deliver
    <2>1. NothingRepeats /\ \A k \in NodeIds : ~Hides(k)
      BY <1>6 DEF UndisturbedInv, Undisturbed, Deliver, haVars
    <2>2. 1 \in DOMAIN queue
      BY <1>6, HeadIsGone
    <2>. QED
      BY <1>6, <2>1, <2>2, DeliveriesDoNotRepeat, HidingIsRepeating DEF NothingRepeats
  <1>7. CASE \/ ClockMoves \/ LogbookTurns \/ UNCHANGED vars
             \/ \E n \in NodeIds : Reboot(n)
    <2>1. UNCHANGED <<nodes, queue, connected, drops, restarts>>
      BY <1>7 DEF ClockMoves, LogbookTurns, LogbookChanges, Reboot, vars, coordVars,
                  brokerVars, haVars
    <2>2. NothingRepeats /\ \A k \in NodeIds : ~Hides(k)
      BY <2>1 DEF UndisturbedInv, Undisturbed
    <2>3. NothingRepeats'
      BY <2>1, <2>2, ViewsStay DEF NothingRepeats, About, IsEvent
    <2>. QED
      BY <1>2, <2>1, <2>2, <2>3
  <1>8. ~Disconnect /\ ~Restart
    BY DEF Disconnect, Restart, Undisturbed, CountsOK
  <1>9. CASE Reconnect
    BY <1>9 DEF Reconnect, UndisturbedInv, Undisturbed, NothingRepeats, haVars
  <1>. QED
    BY <1>1, <1>3, <1>4, <1>5, <1>6, <1>7, <1>8, <1>9 DEF MqttNext

\* "True while lock_change is newer than the health snapshot" (models.py) holds
\* until a connection to the broker is lost or Home Assistant restarted: without
\* a repetition, an event in front is as new as the snapshot
\* (lock_change_is_fresh).
THEOREM FreshUntilDisturbed == MqttSpec => [](Undisturbed => FreshMeansNewer)
  <1>1. MqttInit => UndisturbedInv
    BY DEF MqttInit, CoordInit, Blank, UndisturbedInv, NothingRepeats, Hides, Reported
  <1>2. MqttInv /\ CountsOK /\ UndisturbedInv /\ [MqttNext]_vars => UndisturbedInv'
    BY StepKeepsUndisturbed
  <1>3. MqttInv /\ UndisturbedInv => (Undisturbed => FreshMeansNewer)
    <2>. SUFFICES ASSUME MqttInv, UndisturbedInv, Undisturbed, NEW n \in NodeIds,
                         Reported(n), nodes[n].lock_change_is_fresh
                  PROVE  nodes[n].lock_change.seq >= nodes[n].health.seq
      BY DEF FreshMeansNewer
    <2>1. ~(nodes[n].lock_change.seq < nodes[n].health.seq)
      BY DEF UndisturbedInv, Hides
    <2>2. /\ Event(n) = nodes[n].lock_change /\ Snapshot(n) = nodes[n].health
          /\ Event(n) # None /\ Snapshot(n) # None
      BY DEF Reported, Event, Snapshot, Known
    <2>3. Event(n).seq \in Nat /\ Snapshot(n).seq \in Nat
      BY <2>2, NothingIsAhead DEF MqttInv
    <2>. QED
      BY <2>1, <2>2, <2>3
  <1>. QED
    BY <1>1, <1>2, <1>3, MqttInvariance, CountsInvariance, PTL DEF MqttSpec

\* "An event older than this window is history rather than news" (const.py), with
\* a broker that repeats retained events at every reconnect: what it repeats is
\* announced late only as the cause of a move that a snapshot has just shown
\* (_attribute_lock_change, _attribute_lock_event).
THEOREM RepeatsOnlyExplainMoves ==
  MqttSpec => [][Len(log') > Len(log) =>
                   LET e == log'[Len(log')]
                   IN is_recent(e.stamp, horizon) \/ ExplainsAMove(e)]_coordVars
  <1>1. ASSUME MqttTypeOK, Hears \/ TimePasses \/ LogbookChanges \/ BeginsAgain,
               Len(log') > Len(log)
        PROVE  LET e == log'[Len(log')]
               IN is_recent(e.stamp, horizon) \/ ExplainsAMove(e)
    <2>1. CoordTypeOK
      BY <1>1 DEF MqttTypeOK
    <2>2. Len(log) \in Nat
      BY <2>1 DEF CoordTypeOK
    <2>3. Hears
      BY <1>1, <2>2 DEF TimePasses, LogbookChanges, BeginsAgain
    <2>. QED
      BY <1>1, <2>1, <2>3, HandlingIsRecentOrMoved DEF Hears
  <1>2. MqttTypeOK /\ [Hears \/ TimePasses \/ LogbookChanges \/ BeginsAgain]_coordVars
          => [Len(log') > Len(log) =>
                LET e == log'[Len(log')]
                IN is_recent(e.stamp, horizon) \/ ExplainsAMove(e)]_coordVars
    BY <1>1
  <1>. QED
    BY <1>2, MqttTypeCorrect, HouseholdIsACoordinator, PTL
=============================================================================
