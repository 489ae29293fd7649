-------------------------- MODULE DirectPollerProofs --------------------------
(***************************************************************************)
(* DirectPoller, for any number of polls in flight, any threshold and any  *)
(* device: poller and coordinator stay well typed, and a node that has     *)
(* missed enough polls is not left shown online.  What a message does to   *)
(* the coordinator comes from CoordinatorProofs.                           *)
(***************************************************************************)
EXTENDS DirectPoller, CoordinatorProofs

\* A reply on its way carries a reading.
RepliesHaveReadings ==
    \A p \in Slots : InPhase(p, "reply") => polls[p].reading \in Reading

\* Until a reading has been applied the node is not known, and no poll is past
\* the point where it applies one.
UnknownUntilApplied ==
    node_id = None =>
        /\ nodes[TheNode] = None
        /\ \A p \in Slots : ~InPhase(p, "guest")

PollerInv ==
    /\ PollerTypeOK
    /\ CoordInv
    /\ RepliesHaveReadings
    /\ UnknownUntilApplied
    /\ MissedPollsAreShown

-----------------------------------------------------------------------------
(* The messages of a reading.                                                *)

\* A message made from a reading is one the coordinator accepts.
LEMMA EnvelopeType ==
  ASSUME NEW t \in AllTopics, NEW b \in Body(t)
  PROVE  /\ Envelope(t, b) \in Message(t)
         /\ Envelope(t, b).form = "ok"
         /\ Envelope(t, b).node = TheNode
  BY PollerAssumption DEF Envelope, Message, Form

\* Handling a message of the poller keeps the coordinator's state good
\* (async_handle_message).
LEMMA EnvelopeIsGood ==
  ASSUME NEW c \in GoodRecord, NEW t \in AllTopics, NEW b \in Body(t), NEW hz
  PROVE  Handle(c, Envelope(t, b), hz) \in GoodRecord
  <1>. DEFINE m == Envelope(t, b)
  <1>1. m \in Message(t) /\ m.form = "ok"
    BY EnvelopeType
  <1>. HIDE DEF m
  <1>2. Handle(c, m, hz) \in GoodRecord
    BY <1>1, HandleIsGood
  <1>. QED
    BY <1>2 DEF m

\* What the poller sends is a body of its topic.
LEMMA Bodies ==
  /\ \A v \in BOOLEAN : v \in Body("status")
  /\ \A e \in LockChange : e \in Body("lock/last")
  /\ \A e \in LastAuth : e \in Body("last_auth")
  /\ \A e \in Health : e \in Body("health")
  /\ [name |-> AnyValue, generation |-> AnyValue] \in Body("state")
  /\ AnyValue \in Body("security")
  /\ AnyValue \in Body("backup/status")
  /\ AnyValue \in Body("guest/status")
  /\ {"status", "lock/last", "last_auth", "health", "state", "security",
      "backup/status", "guest/status"} \subseteq AllTopics
  <1>1. AnyValue \in ReportValues
    BY PollerAssumption DEF AnyValue
  <1>2. [name |-> AnyValue, generation |-> AnyValue] \in NodeState
    BY <1>1 DEF NodeState
  <1>. HIDE DEF AnyValue
  <1>. QED
    BY <1>1, <1>2 DEF Body, AllTopics, ReportTopics

\* Applying a whole reading keeps the coordinator's state good
\* (state_to_messages).
LEMMA ReadingIsGood ==
  ASSUME NEW c \in GoodRecord, NEW r \in Reading, NEW hz
  PROVE  state_to_messages(c, r, hz) \in GoodRecord
  <1>. DEFINE c1 == Handle(c, Envelope("status", TRUE), hz)
              c2 == IF r.event = None THEN c1
                    ELSE Handle(c1, Envelope("lock/last", r.event), hz)
              c3 == Handle(c2, Envelope("state", [name |-> AnyValue,
                                                  generation |-> AnyValue]), hz)
              h == [current |-> r.current, seq |-> r.seq]
              c4 == Handle(c3, Envelope("health", h), hz)
              c5 == Handle(c4, Envelope("security", AnyValue), hz)
              c6 == Handle(c5, Envelope("backup/status", AnyValue), hz)
              c7 == IF r.auth = None THEN c6
                    ELSE Handle(c6, Envelope("last_auth", r.auth), hz)
  <1>0. /\ h \in Health
        /\ r.event # None => r.event \in LockChange
        /\ r.auth # None => r.auth \in LastAuth
    BY DEF Reading, Health
  <1>8. state_to_messages(c, r, hz) = c7
    BY DEF state_to_messages
  <1>. HIDE DEF h
  <1>1. c1 \in GoodRecord
    BY Bodies, EnvelopeIsGood
  <1>. HIDE DEF c1
  <1>2. c2 \in GoodRecord
    BY <1>0, <1>1, Bodies, EnvelopeIsGood
  <1>. HIDE DEF c2
  <1>3. c3 \in GoodRecord
    BY <1>2, Bodies, EnvelopeIsGood
  <1>. HIDE DEF c3
  <1>4. c4 \in GoodRecord
    BY <1>0, <1>3, Bodies, EnvelopeIsGood
  <1>. HIDE DEF c4
  <1>5. c5 \in GoodRecord
    BY <1>4, Bodies, EnvelopeIsGood
  <1>. HIDE DEF c5
  <1>6. c6 \in GoodRecord
    BY <1>5, Bodies, EnvelopeIsGood
  <1>. HIDE DEF c6
  <1>7. c7 \in GoodRecord
    BY <1>0, <1>6, Bodies, EnvelopeIsGood
  <1>. QED
    BY <1>7, <1>8

\* An offline status message leaves the node offline (_handle_node_status).
LEMMA OfflineIsShown ==
  ASSUME NEW c \in CoordRecord, NEW hz
  PROVE  Handle(c, Envelope("status", FALSE), hz).nodes[TheNode].online = FALSE
  <1>. DEFINE m == Envelope("status", FALSE)
  <1>1. m \in Message("status") /\ m.form = "ok" /\ m.node = TheNode
    BY EnvelopeType, Bodies
  <1>2. m.body = FALSE
    BY DEF Envelope
  <1>. HIDE DEF m
  <1>3. Handle(c, m, hz).nodes[m.node].online = m.body
    BY <1>1, StatusIsShown
  <1>. QED
    BY <1>1, <1>2, <1>3 DEF m

-----------------------------------------------------------------------------
(* The invariant.                                                            *)

\* The poller starts with no node and no poll (DirectPoller.__init__).
LEMMA PollerInitInv == PollerInit => PollerInv
  <1>. SUFFICES ASSUME PollerInit PROVE PollerInv
    OBVIOUS
  <1>1. CoordInv
    BY InitInv DEF PollerInit
  <1>2. Idle \in Poll
    BY DEF Idle, Poll, Phase
  <1>3. PollerTypeOK
    BY <1>1, <1>2, StampAssumption, PollerAssumption
    DEF CoordInv, PollerInit, PollerTypeOK, Current
  <1>4. \A p \in Slots : polls[p].phase = "idle"
    BY DEF PollerInit, Idle
  <1>5. nodes[TheNode] = None
    BY PollerAssumption DEF PollerInit, CoordInit, Blank
  <1>. QED
    BY <1>1, <1>3, <1>4, <1>5 DEF PollerInv, RepliesHaveReadings, UnknownUntilApplied,
                            MissedPollsAreShown, ShownOnline, InPhase

\* A device that moves its bolt has a change, and maybe an authorisation, to
\* report.
LEMMA MoveType ==
  ASSUME NEW current \in Current, NEW source \in Source,
         NEW who \in Issuers \cup {None}, seq \in 0..MaxSeq,
         auth \in LastAuth \cup {None}, Move(current, source, who)
  PROVE  /\ bolt' \in Current
         /\ event' \in LockChange \cup {None}
         /\ auth' \in LastAuth \cup {None}
         /\ seq' \in 0..MaxSeq
  <1>. DEFINE stamp == [clock |-> "wall", at |-> seq + 1]
  <1>1. seq + 1 \in 0..MaxSeq /\ seq + 1 \in 1..MaxStamp /\ "wall" \in Clocks
    BY StampAssumption, PollerAssumption DEF Move
  <1>2. stamp \in Stamp
    BY <1>1 DEF Stamp
  <1>3. event' \in LockChange
    BY <1>1, <1>2 DEF Move, LockChange
  <1>4. auth' \in LastAuth \cup {None}
    <2>1. [issuer |-> who, stamp |-> stamp, seq |-> seq + 1] \in LastAuth
      BY <1>1, <1>2 DEF LastAuth
    <2>. QED
      BY <2>1 DEF Move
  <1>. QED
    BY <1>1, <1>3, <1>4 DEF Move

\* The device's own steps change nothing of the poller (DirectPoller).
LEMMA DeviceKeepsInv ==
  ASSUME PollerInv, ModeChanges \/ DoorMoves \/ Jam \/ ClockMoves \/ LogbookTurns
  PROVE  PollerInv'
  <1>1. UNCHANGED <<nodes, polls, failures, node_id>>
    BY DEF ModeChanges, DoorMoves, Jam, ClockMoves, LogbookTurns, LogbookChanges,
           coordVars, pollerVars
  <1>2. CoordInv'
    <2>1. UNCHANGED <<nodes, pool, entities, log>>
      BY DEF ModeChanges, DoorMoves, Jam, ClockMoves, LogbookTurns, LogbookChanges,
             coordVars
    <2>2. horizon' \in 0..MaxStamp /\ logbook' \in Logbook
      BY StampAssumption, PollerAssumption
      DEF ModeChanges, DoorMoves, Jam, ClockMoves, LogbookTurns, LogbookChanges,
          coordVars, PollerInv, PollerTypeOK, CoordTypeOK
    <2>. QED
      BY <2>1, <2>2, StillKeepsInv DEF PollerInv
  <1>3. /\ mode' \in Modes
        /\ bolt' \in Current
        /\ event' \in LockChange \cup {None}
        /\ auth' \in LastAuth \cup {None}
        /\ seq' \in 0..MaxSeq
    <2>. USE DEF PollerInv, PollerTypeOK
    <2>1. CASE ModeChanges
      BY <2>1 DEF ModeChanges
    <2>2. CASE DoorMoves
      <3>1. PICK current \in {"unlocked", "locked"}, source \in Sources,
                 who \in Issuers \cup {None} : Move(current, source, who)
        BY <2>2 DEF DoorMoves
      <3>2. current \in Current /\ source \in Source /\ mode' = mode
        BY <2>2, PollerAssumption DEF Current, DoorMoves
      <3>. QED
        BY <3>1, <3>2, MoveType
    <2>3. CASE Jam
      BY <2>3, StampAssumption DEF Jam, Current
    <2>4. CASE ClockMoves
      BY <2>4 DEF ClockMoves, deviceVars
    <2>5. CASE LogbookTurns
      BY <2>5 DEF LogbookTurns, deviceVars
    <2>. QED
      BY <2>1, <2>2, <2>3, <2>4, <2>5
  <1>4. PollerTypeOK'
    BY <1>1, <1>2, <1>3 DEF CoordInv, PollerInv, PollerTypeOK
  <1>. QED
    BY <1>1, <1>2, <1>4 DEF PollerInv, RepliesHaveReadings, UnknownUntilApplied,
                      MissedPollsAreShown, ShownOnline, InPhase

-----------------------------------------------------------------------------
(* The steps of a poll.                                                      *)

\* A poll that moves to q leaves the others alone.
LEMMA PollMoves ==
  ASSUME polls \in [Slots -> Poll], NEW p \in Slots, NEW q \in Poll,
         polls' = [polls EXCEPT ![p] = q]
  PROVE  /\ polls' \in [Slots -> Poll]
         /\ polls'[p] = q
         /\ \A s \in Slots \ {p} : polls'[s] = polls[s]
  OBVIOUS

\* A poll that enters a phase keeps the reading it has.
LEMMA PollEnters ==
  ASSUME polls \in [Slots -> Poll], NEW p \in Slots, NEW phase \in Phase,
         Enter(p, phase)
  PROVE  /\ polls' \in [Slots -> Poll]
         /\ polls'[p].phase = phase
         /\ \A s \in Slots \ {p} : polls'[s] = polls[s]
  <1>. DEFINE q == [polls[p] EXCEPT !.phase = phase]
  <1>1. q \in Poll /\ q.phase = phase
    BY DEF Poll
  <1>2. polls' = [polls EXCEPT ![p] = q]
    BY DEF Enter
  <1>. HIDE DEF q
  <1>. QED
    BY <1>1, <1>2, PollMoves

\* A poll that has ended is idle.
LEMMA PollFinishes ==
  ASSUME polls \in [Slots -> Poll], NEW p \in Slots, Finish(p)
  PROVE  /\ polls' \in [Slots -> Poll]
         /\ polls'[p].phase = "idle"
         /\ \A s \in Slots \ {p} : polls'[s] = polls[s]
  <1>1. Idle \in Poll /\ Idle.phase = "idle"
    BY DEF Idle, Poll, Phase
  <1>. QED
    BY <1>1, PollMoves DEF Finish

\* Requests on their way change neither the coordinator nor the count
\* (async_poll_once up to its second reply).
LEMMA RequestKeepsInv ==
  ASSUME PollerInv, NEW p \in Slots,
         \/ async_tick(p) \/ SendCommand(p) \/ CommandDone(p)
         \/ InfoAnswered(p) \/ StateAnswered(p) \/ Garbage(p)
  PROVE  PollerInv'
  <1>1. UNCHANGED <<nodes, pool, entities, log, logbook, horizon, mode, failures,
                    node_id>>
    BY DEF async_tick, SendCommand, CommandDone, InfoAnswered, StateAnswered,
           Garbage, coordVars, deviceVars
  <1>2. /\ bolt' \in Current
        /\ event' \in LockChange \cup {None}
        /\ auth' \in LastAuth \cup {None}
        /\ seq' \in 0..MaxSeq
    <2>. USE DEF PollerInv, PollerTypeOK
    <2>1. CASE UNCHANGED <<bolt, event, auth, seq>>
      BY <2>1
    <2>2. CASE \E current \in {"unlocked", "locked"} : Move(current, "mqtt", None)
      BY <2>2, MoveType DEF Current, Source
    <2>. QED
      BY <2>1, <2>2 DEF async_tick, SendCommand, CommandDone, InfoAnswered,
                        StateAnswered, Garbage, deviceVars
  <1>3. /\ polls' \in [Slots -> Poll]
        /\ polls'[p].phase # "guest"
        /\ polls'[p].phase = "reply" => polls'[p].reading \in Reading
        /\ \A s \in Slots \ {p} : polls'[s] = polls[s]
        /\ polls[p].phase # "guest"
    <2>. DEFINE new == [household |-> IF mode = "up" THEN "ours" ELSE "other",
                        current |-> bolt, seq |-> seq,
                        event |-> event, auth |-> auth]
                q == [polls[p] EXCEPT !.phase = "reply", !.reading = new]
    <2>1. polls \in [Slots -> Poll]
      BY DEF PollerInv, PollerTypeOK
    <2>2. CASE async_tick(p)
      BY <2>1, <2>2, PollEnters DEF async_tick, InPhase, Phase
    <2>3. CASE SendCommand(p)
      BY <2>1, <2>3, PollEnters DEF SendCommand, InPhase, Phase
    <2>4. CASE CommandDone(p)
      BY <2>1, <2>4, PollEnters DEF CommandDone, InPhase, Phase
    <2>5. CASE InfoAnswered(p)
      BY <2>1, <2>5, PollEnters DEF InfoAnswered, InPhase, Phase
    <2>6. CASE StateAnswered(p)
      <3>1. new \in Reading
        BY DEF PollerInv, PollerTypeOK, Reading
      <3>2. polls[p].phase # "guest"
        BY <2>6 DEF StateAnswered, InPhase
      <3>3. polls' = [polls EXCEPT ![p] = q]
        BY <2>1, <2>6 DEF StateAnswered
      <3>. HIDE DEF new
      <3>4. q \in Poll /\ q.phase = "reply" /\ q.reading = new
        BY <2>1, <3>1 DEF Poll, Phase
      <3>. HIDE DEF q
      <3>. QED
        BY <2>1, <3>1, <3>2, <3>3, <3>4, PollMoves
    <2>7. CASE Garbage(p)
      BY <2>1, <2>7, PollFinishes DEF Garbage
    <2>. QED
      BY <2>2, <2>3, <2>4, <2>5, <2>6, <2>7
  <1>4. CoordInv'
    BY <1>1, StillKeepsInv DEF PollerInv, PollerTypeOK, CoordTypeOK
  <1>5. PollerTypeOK'
    BY <1>1, <1>2, <1>3, <1>4 DEF CoordInv, PollerInv, PollerTypeOK
  <1>6. RepliesHaveReadings'
    BY <1>3 DEF PollerInv, RepliesHaveReadings, InPhase
  <1>7. \A s \in Slots : InPhase(s, "guest")' <=> InPhase(s, "guest")
    BY <1>3 DEF InPhase
  <1>. QED
    BY <1>1, <1>4, <1>5, <1>6, <1>7 DEF PollerInv, UnknownUntilApplied,
                                  MissedPollsAreShown, ShownOnline

\* The reply is applied, and the poll goes on to ask for guests
\* (async_poll_once).
LEMMA ApplyKeepsInv ==
  ASSUME PollerInv, NEW p \in Slots, Apply(p)
  PROVE  PollerInv'
  <1>. DEFINE q == [polls[p] EXCEPT !.phase = "guest", !.reading = None]
              c == state_to_messages(CoordState, polls[p].reading, horizon)
  <1>1. polls \in [Slots -> Poll] /\ polls[p].reading \in Reading
    BY DEF PollerInv, PollerTypeOK, RepliesHaveReadings, Apply
  <1>2. CoordState \in GoodRecord /\ logbook \in Logbook /\ horizon \in 0..MaxStamp
    BY InvOfRecord DEF PollerInv
  <1>3. c \in GoodRecord
    BY <1>1, <1>2, ReadingIsGood
  <1>4. Become(c) /\ UNCHANGED <<logbook, horizon, deviceVars, failures>> /\ node_id' = TheNode
    BY DEF Apply
  <1>. HIDE DEF c
  <1>5. CoordInv'
    BY <1>2, <1>3, <1>4, BecomeKeepsInv
  <1>6. q \in Poll /\ q.phase = "guest"
    BY <1>1 DEF Poll, Phase
  <1>7. polls' = [polls EXCEPT ![p] = q]
    BY <1>1 DEF Apply
  <1>. HIDE DEF q
  <1>8. /\ polls' \in [Slots -> Poll]
        /\ polls'[p].phase = "guest"
        /\ \A s \in Slots \ {p} : polls'[s] = polls[s]
    BY <1>1, <1>6, <1>7, PollMoves
  <1>9. PollerTypeOK'
    BY <1>4, <1>5, <1>8 DEF CoordInv, PollerInv, PollerTypeOK, deviceVars
  <1>10. RepliesHaveReadings'
    BY <1>8 DEF PollerInv, RepliesHaveReadings, InPhase
  <1>11. UnknownUntilApplied'
    BY <1>4, PollerAssumption DEF UnknownUntilApplied
  <1>12. MissedPollsAreShown'
    BY <1>8 DEF MissedPollsAreShown, InPhase
  <1>. QED
    BY <1>5, <1>9, <1>10, <1>11, <1>12 DEF PollerInv

\* A reply of another household is dropped (async_poll_once).
LEMMA MismatchKeepsInv ==
  ASSUME PollerInv, NEW p \in Slots, IdentityMismatch(p)
  PROVE  PollerInv'
  <1>1. /\ polls' \in [Slots -> Poll]
        /\ polls'[p].phase = "idle"
        /\ \A s \in Slots \ {p} : polls'[s] = polls[s]
    BY PollFinishes DEF PollerInv, PollerTypeOK, IdentityMismatch
  <1>2. /\ UNCHANGED <<nodes, pool, entities, log, logbook, horizon, mode, bolt, event,
                       auth, seq, node_id>>
        /\ failures' \in {0, failures}
        /\ polls[p].phase = "reply"
    BY DEF IdentityMismatch, InPhase, coordVars, deviceVars
  <1>3. CoordInv'
    BY <1>2, StillKeepsInv DEF PollerInv, PollerTypeOK, CoordTypeOK
  <1>4. PollerTypeOK'
    BY <1>1, <1>2, <1>3, PollerAssumption DEF CoordInv, PollerInv, PollerTypeOK
  <1>5. RepliesHaveReadings'
    BY <1>1 DEF PollerInv, RepliesHaveReadings, InPhase
  <1>6. \A s \in Slots : InPhase(s, "guest")' <=> InPhase(s, "guest")
    BY <1>1, <1>2 DEF InPhase
  <1>7. MissedPollsAreShown'
    BY <1>2, <1>6, PollerAssumption
    DEF PollerInv, MissedPollsAreShown, ShownOnline
  <1>. QED
    BY <1>2, <1>3, <1>4, <1>5, <1>6, <1>7 DEF PollerInv, UnknownUntilApplied

\* A poll that ends well clears the count, so there is nothing to show
\* (async_poll_safely).
LEMMA GuestKeepsInv ==
  ASSUME PollerInv, NEW p \in Slots, GuestDone(p)
  PROVE  PollerInv'
  <1>. DEFINE c == Handle(CoordState, Envelope("guest/status", AnyValue), horizon)
  <1>1. /\ polls' \in [Slots -> Poll]
        /\ polls'[p].phase = "idle"
        /\ \A s \in Slots \ {p} : polls'[s] = polls[s]
    BY PollFinishes DEF PollerInv, PollerTypeOK, GuestDone
  <1>2. CoordState \in GoodRecord /\ logbook \in Logbook /\ horizon \in 0..MaxStamp
    BY InvOfRecord DEF PollerInv
  <1>3. c \in GoodRecord
    BY <1>2, Bodies, EnvelopeIsGood
  <1>4. /\ Become(c) \/ UNCHANGED <<nodes, pool, entities, log>>
        /\ UNCHANGED <<logbook, horizon, deviceVars, node_id>>
        /\ failures' = 0
        /\ polls[p].phase = "guest"
    BY DEF GuestDone, InPhase
  <1>. HIDE DEF c
  <1>5. CoordInv'
    <2>1. CASE Become(c)
      BY <1>2, <1>3, <1>4, <2>1, BecomeKeepsInv
    <2>2. CASE UNCHANGED <<nodes, pool, entities, log>>
      BY <1>2, <1>4, <2>2, StillKeepsInv DEF PollerInv
    <2>. QED
      BY <1>4, <2>1, <2>2
  <1>6. PollerTypeOK'
    BY <1>1, <1>4, <1>5, PollerAssumption DEF CoordInv, PollerInv, PollerTypeOK,
      deviceVars
  <1>7. RepliesHaveReadings'
    BY <1>1 DEF PollerInv, RepliesHaveReadings, InPhase
  <1>8. node_id' # None
    BY <1>4 DEF PollerInv, UnknownUntilApplied, InPhase
  <1>9. MissedPollsAreShown'
    BY <1>4, PollerAssumption DEF MissedPollsAreShown
  <1>. QED
    BY <1>5, <1>6, <1>7, <1>8, <1>9 DEF PollerInv, UnknownUntilApplied

\* A failure that reaches the threshold shows the node offline; past it the node
\* is offline already, or a poll that has just applied a reading will clear the
\* count (async_poll_safely).
LEMMA FailKeepsInv ==
  ASSUME PollerInv, NEW p \in Slots, Fail(p)
  PROVE  PollerInv'
  <1>. DEFINE c == Handle(CoordState, Envelope("status", FALSE), horizon)
              shows == failures' = DIRECT_OFFLINE_AFTER_FAILURES /\ node_id # None
  <1>1. /\ polls' \in [Slots -> Poll]
        /\ polls'[p].phase = "idle"
        /\ \A s \in Slots \ {p} : polls'[s] = polls[s]
    BY PollFinishes DEF PollerInv, PollerTypeOK, Fail
  <1>2. CoordState \in GoodRecord /\ logbook \in Logbook /\ horizon \in 0..MaxStamp
    BY InvOfRecord DEF PollerInv
  <1>3. c \in GoodRecord /\ c.nodes[TheNode].online = FALSE
    BY <1>2, Bodies, EnvelopeIsGood, OfflineIsShown DEF GoodRecord
  <1>4. /\ UNCHANGED <<logbook, horizon, mode, bolt, event, auth, seq, node_id>>
        /\ polls[p].phase # "guest"
    BY DEF Fail
  <1>5. \/ UNCHANGED <<failures, nodes, pool, entities, log>>
        \/ failures' = Counted(failures) /\ shows /\ Become(c)
        \/ failures' = Counted(failures) /\ ~shows
             /\ UNCHANGED <<nodes, pool, entities, log>>
    BY DEF Fail, MarksOffline
  <1>. HIDE DEF c
  <1>6. /\ failures' \in 0..(DIRECT_OFFLINE_AFTER_FAILURES + 1)
        /\ failures' # DIRECT_OFFLINE_AFTER_FAILURES =>
              (failures' >= DIRECT_OFFLINE_AFTER_FAILURES =>
                  failures >= DIRECT_OFFLINE_AFTER_FAILURES)
    BY <1>5, PollerAssumption DEF PollerInv, PollerTypeOK, Counted
  <1>7. CoordInv'
    <2>1. CASE Become(c)
      BY <1>2, <1>3, <1>4, <2>1, BecomeKeepsInv
    <2>2. CASE UNCHANGED <<nodes, pool, entities, log>>
      BY <1>2, <1>4, <2>2, StillKeepsInv DEF PollerInv
    <2>. QED
      BY <1>5, <2>1, <2>2
  <1>8. PollerTypeOK'
    BY <1>1, <1>4, <1>6, <1>7 DEF CoordInv, PollerInv, PollerTypeOK
  <1>9. RepliesHaveReadings'
    BY <1>1 DEF PollerInv, RepliesHaveReadings, InPhase
  <1>10. \A s \in Slots : InPhase(s, "guest")' <=> InPhase(s, "guest")
    BY <1>1, <1>4 DEF InPhase
  <1>11. UnknownUntilApplied'
    BY <1>4, <1>5, <1>10 DEF PollerInv, UnknownUntilApplied
  <1>12. MissedPollsAreShown'
    <2>1. CASE UNCHANGED <<failures, nodes>>
      BY <1>10, <2>1 DEF PollerInv, MissedPollsAreShown, ShownOnline
    <2>2. CASE Become(c)
      BY <1>3, <2>2 DEF Become, MissedPollsAreShown, ShownOnline
    <2>3. CASE ~shows /\ UNCHANGED nodes
      <3>1. CASE node_id = None
        BY <2>3, <3>1 DEF PollerInv, UnknownUntilApplied, MissedPollsAreShown,
                          ShownOnline
      <3>2. CASE failures' # DIRECT_OFFLINE_AFTER_FAILURES
        BY <1>6, <1>10, <2>3, <3>2 DEF PollerInv, MissedPollsAreShown, ShownOnline
      <3>. QED
        BY <2>3, <3>1, <3>2
    <2>. QED
      BY <1>5, <2>1, <2>2, <2>3
  <1>. QED
    BY <1>7, <1>8, <1>9, <1>11, <1>12 DEF PollerInv

\* Every step keeps the invariant.
LEMMA PollerStepKeepsInv == PollerInv /\ [PollerNext]_vars => PollerInv'
  <1>. SUFFICES ASSUME PollerInv, [PollerNext]_vars
                PROVE  PollerInv'
    OBVIOUS
  <1>1. CASE UNCHANGED vars
    <2>1. CoordInv'
      BY <1>1, StillKeepsInv DEF vars, coordVars, PollerInv, PollerTypeOK, CoordTypeOK
    <2>. QED
      BY <1>1, <2>1
      DEF vars, coordVars, deviceVars, pollerVars, CoordInv, PollerInv, PollerTypeOK,
          RepliesHaveReadings, UnknownUntilApplied, MissedPollsAreShown, ShownOnline,
          InPhase
  <1>2. Ticks \subseteq Slots /\ Commands \subseteq Slots
    BY DEF Slots
  <1>. QED
    BY <1>1, <1>2, DeviceKeepsInv, RequestKeepsInv, ApplyKeepsInv,
       MismatchKeepsInv, GuestKeepsInv, FailKeepsInv
    DEF PollerNext

\* The invariant holds of every run.
LEMMA PollerInvariance == PollerSpec => []PollerInv
  BY PollerInitInv, PollerStepKeepsInv, PTL DEF PollerSpec

-----------------------------------------------------------------------------
\* Poller, device and coordinator are well typed, whatever polls overlap
\* (direct.py async_poll_once, coordinator.py async_handle_message).
THEOREM PollerTypeCorrect == PollerSpec => []PollerTypeOK
  BY PollerInvariance, PTL DEF PollerInv

\* A node that has missed enough polls is never left shown online, however many
\* polls overlap and in whatever order they end (async_poll_safely).
THEOREM MissesAreShown == PollerSpec => []MissedPollsAreShown
  BY PollerInvariance, PTL DEF PollerInv

\* What holds of a coordinator that is sent single messages holds when polls that
\* overlap feed it whole readings, and whether or not the logbook takes what it
\* is given: pool, marks and log are what they should be (state_to_messages,
\* async_poll_once).
THEOREM PollsKeepTheRecord ==
  PollerSpec => [](PoolIsCurrent /\ MarkedIsAttributed /\ LogClaimsOnlyDeviceChanges)
  BY PollerInvariance, PTL DEF PollerInv, CoordInv

-----------------------------------------------------------------------------
(* The poller implements the coordinator that CoordSpec describes alone.     *)

\* The coordinator's state d comes of c by handling one accepted message ...
Handles(c, d, hz) ==
    \E t \in AllTopics : \E m \in Message(t) : m.form = "ok" /\ d = Handle(c, m, hz)

\* ... or some, one after the other.
HandlesSome(c, d, hz) ==
    \E states \in Seq(CoordRecord) :
        /\ states # <<>>
        /\ states[1] = c
        /\ states[Len(states)] = d
        /\ \A i \in 1..(Len(states) - 1) : Handles(states[i], states[i + 1], hz)

\* No message is some messages, and so is one more.
LEMMA OneMore ==
  ASSUME NEW hz
  PROVE  /\ \A c \in CoordRecord : HandlesSome(c, c, hz)
         /\ \A c, d, e \in CoordRecord :
              HandlesSome(c, d, hz) /\ Handles(d, e, hz) => HandlesSome(c, e, hz)
  <1>1. ASSUME NEW c \in CoordRecord
        PROVE  HandlesSome(c, c, hz)
    <2>. DEFINE states == <<c>>
    <2>1. /\ states \in Seq(CoordRecord) /\ states # <<>> /\ Len(states) = 1
          /\ states[1] = c
      OBVIOUS
    <2>. HIDE DEF states
    <2>. QED
      BY <2>1 DEF HandlesSome
  <1>2. ASSUME NEW c \in CoordRecord, NEW d \in CoordRecord, NEW e \in CoordRecord,
               HandlesSome(c, d, hz), Handles(d, e, hz)
        PROVE  HandlesSome(c, e, hz)
    <2>1. PICK states \in Seq(CoordRecord) :
            /\ states # <<>>
            /\ states[1] = c
            /\ states[Len(states)] = d
            /\ \A i \in 1..(Len(states) - 1) : Handles(states[i], states[i + 1], hz)
      BY <1>2 DEF HandlesSome
    <2>. DEFINE longer == Append(states, e)
    <2>2. Len(states) \in Nat \ {0}
      BY <2>1
    <2>3. /\ longer \in Seq(CoordRecord) /\ longer # <<>>
          /\ Len(longer) = Len(states) + 1
          /\ \A i \in 1..Len(states) : longer[i] = states[i]
          /\ longer[Len(states) + 1] = e
      BY <2>1
    <2>. HIDE DEF longer
    <2>4. ASSUME NEW i \in 1..(Len(longer) - 1)
          PROVE  Handles(longer[i], longer[i + 1], hz)
      <3>1. CASE i = Len(states)
        BY <1>2, <2>1, <2>2, <2>3, <3>1
      <3>2. CASE i # Len(states)
        <4>1. i \in 1..(Len(states) - 1) /\ i + 1 \in 1..Len(states)
          BY <2>2, <2>3, <3>2
        <4>. QED
          BY <2>1, <2>2, <2>3, <4>1
      <3>. QED
        BY <3>1, <3>2
    <2>5. longer[1] = c /\ longer[Len(longer)] = e
      BY <2>1, <2>2, <2>3
    <2>. QED
      BY <2>3, <2>4, <2>5 DEF HandlesSome
  <1>. QED
    BY <1>1, <1>2

\* A message of the poller is one more.
LEMMA EnvelopeIsOneMore ==
  ASSUME NEW c \in GoodRecord, NEW d \in GoodRecord, NEW hz,
         NEW t \in AllTopics, NEW b \in Body(t), HandlesSome(c, d, hz)
  PROVE  /\ Handle(d, Envelope(t, b), hz) \in GoodRecord
         /\ HandlesSome(c, Handle(d, Envelope(t, b), hz), hz)
  <1>. DEFINE m == Envelope(t, b)
  <1>1. m \in Message(t) /\ m.form = "ok" /\ Handle(d, m, hz) \in GoodRecord
    BY EnvelopeType, EnvelopeIsGood
  <1>. HIDE DEF m
  <1>2. Handles(d, Handle(d, m, hz), hz)
    BY <1>1 DEF Handles
  <1>3. HandlesSome(c, Handle(d, m, hz), hz)
    BY <1>1, <1>2, OneMore DEF GoodRecord
  <1>. QED
    BY <1>1, <1>3 DEF m

\* A reading is handled as the messages MQTT would have brought
\* (state_to_messages).
LEMMA ReadingIsMessages ==
  ASSUME NEW c \in GoodRecord, NEW r \in Reading, NEW hz
  PROVE  HandlesSome(c, state_to_messages(c, r, hz), hz)
  <1>. DEFINE Next(d) == d \in GoodRecord /\ HandlesSome(c, d, hz)
              c1 == Handle(c, Envelope("status", TRUE), hz)
              c2 == IF r.event = None THEN c1
                    ELSE Handle(c1, Envelope("lock/last", r.event), hz)
              c3 == Handle(c2, Envelope("state", [name |-> AnyValue,
                                                  generation |-> AnyValue]), hz)
              h == [current |-> r.current, seq |-> r.seq]
              c4 == Handle(c3, Envelope("health", h), hz)
              c5 == Handle(c4, Envelope("security", AnyValue), hz)
              c6 == Handle(c5, Envelope("backup/status", AnyValue), hz)
              c7 == IF r.auth = None THEN c6
                    ELSE Handle(c6, Envelope("last_auth", r.auth), hz)
  <1>0. /\ h \in Health
        /\ r.event # None => r.event \in LockChange
        /\ r.auth # None => r.auth \in LastAuth
        /\ Next(c)
    BY OneMore DEF Reading, Health, GoodRecord
  <1>8. state_to_messages(c, r, hz) = c7
    BY DEF state_to_messages
  <1>. HIDE DEF h
  <1>1. Next(c1)
    BY <1>0, Bodies, EnvelopeIsOneMore
  <1>. HIDE DEF c1
  <1>2. Next(c2)
    BY <1>0, <1>1, Bodies, EnvelopeIsOneMore
  <1>. HIDE DEF c2
  <1>3. Next(c3)
    BY <1>2, Bodies, EnvelopeIsOneMore
  <1>. HIDE DEF c3
  <1>4. Next(c4)
    BY <1>0, <1>3, Bodies, EnvelopeIsOneMore
  <1>. HIDE DEF c4
  <1>5. Next(c5)
    BY <1>4, Bodies, EnvelopeIsOneMore
  <1>. HIDE DEF c5
  <1>6. Next(c6)
    BY <1>5, Bodies, EnvelopeIsOneMore
  <1>. HIDE DEF c6
  <1>7. Next(c7)
    BY <1>0, <1>6, Bodies, EnvelopeIsOneMore
  <1>. QED
    BY <1>7, <1>8

\* What the poller does to the coordinator: some messages, one after the other, or
\* the wall clock moves on.
HearsSome ==
    HandlesSome(CoordState, CoordState', horizon) /\ UNCHANGED <<logbook, horizon>>

\* However polls overlap, the registry, the pool, the entities and the log move
\* only as single messages, handled one after the other without anything in
\* between, move them (async_poll_once, async_handle_message).
THEOREM PollerIsACoordinator ==
  PollerSpec => CoordInit /\ [][HearsSome \/ TimePasses \/ LogbookChanges]_coordVars
  <1>1. ASSUME PollerInv, [PollerNext]_vars
        PROVE  [HearsSome \/ TimePasses \/ LogbookChanges]_coordVars
    <2>1. CoordState \in GoodRecord /\ logbook \in Logbook /\ horizon \in 0..MaxStamp
      BY <1>1, InvOfRecord DEF PollerInv
    <2>2. HandlesSome(CoordState, CoordState, horizon)
      BY <2>1, OneMore DEF GoodRecord
    <2>3. ASSUME NEW c \in GoodRecord, HandlesSome(CoordState, c, horizon), Become(c),
                 UNCHANGED <<logbook, horizon>>
          PROVE  HearsSome
      <3>1. CoordState' = c
        BY <2>3 DEF Become, CoordState, GoodRecord, CoordRecord
      <3>. QED
        BY <2>3, <3>1 DEF HearsSome
    <2>4. ASSUME NEW p \in Slots, Apply(p)
          PROVE  HearsSome
      <3>1. polls[p].reading \in Reading
        BY <1>1, <2>4 DEF Apply, PollerInv, RepliesHaveReadings
      <3>. DEFINE c == state_to_messages(CoordState, polls[p].reading, horizon)
      <3>2. c \in GoodRecord /\ HandlesSome(CoordState, c, horizon)
        BY <2>1, <3>1, ReadingIsGood, ReadingIsMessages
      <3>3. Become(c) /\ UNCHANGED <<logbook, horizon>>
        BY <2>4 DEF Apply
      <3>. HIDE DEF c
      <3>. QED
        BY <2>3, <3>2, <3>3
    <2>5. ASSUME NEW p \in Slots, GuestDone(p) \/ Fail(p)
          PROVE  HearsSome \/ UNCHANGED coordVars
      <3>. DEFINE g == Handle(CoordState, Envelope("guest/status", AnyValue), horizon)
                  f == Handle(CoordState, Envelope("status", FALSE), horizon)
      <3>1. /\ g \in GoodRecord /\ HandlesSome(CoordState, g, horizon)
            /\ f \in GoodRecord /\ HandlesSome(CoordState, f, horizon)
        BY <2>1, <2>2, Bodies, EnvelopeIsOneMore
      <3>2. /\ Become(g) \/ Become(f) \/ UNCHANGED <<nodes, pool, entities, log>>
            /\ UNCHANGED <<logbook, horizon>>
        BY <2>5 DEF GuestDone, Fail
      <3>. HIDE DEF g, f
      <3>. QED
        BY <2>3, <3>1, <3>2 DEF coordVars
    <2>6. CASE ClockMoves
      <3>1. horizon < MaxStamp
        BY <1>1, <2>1, <2>6, StampAssumption, PollerAssumption
        DEF ClockMoves, PollerInv, PollerTypeOK
      <3>. QED
        BY <2>6, <3>1 DEF ClockMoves, TimePasses
    <2>7. CASE \/ ModeChanges \/ DoorMoves \/ Jam
               \/ \E p \in Ticks : async_tick(p)
               \/ \E p \in Commands : SendCommand(p) \/ CommandDone(p)
               \/ \E p \in Slots : \/ InfoAnswered(p) \/ StateAnswered(p)
                                   \/ IdentityMismatch(p) \/ Garbage(p)
      BY <2>7 DEF ModeChanges, DoorMoves, Jam, async_tick, SendCommand, CommandDone,
                  InfoAnswered, StateAnswered, IdentityMismatch, Garbage
    <2>8. CASE LogbookTurns
      BY <2>8 DEF LogbookTurns
    <2>9. CASE UNCHANGED vars
      BY <2>9 DEF vars
    <2>. QED
      BY <1>1, <2>4, <2>5, <2>6, <2>7, <2>8, <2>9 DEF PollerNext
  <1>. QED
    BY <1>1, PollerInvariance, PTL DEF PollerSpec, PollerInit

-----------------------------------------------------------------------------
(* What keeps a disagreement in its place.                                   *)

\* At most one poll, scheduled or of a command, is in progress at a time.
PollsTakeTurns ==
    \A p, q \in Slots : ~InPhase(p, "idle") /\ ~InPhase(q, "idle") => p = q

\* A report that is only stored leaves it open whether its node is online
\* (_handle_guest_status).
LEMMA ReportKeepsOnline ==
  ASSUME NEW c \in GoodRecord, NEW hz, NEW m \in Message("guest/status"),
         m.form = "ok", c.nodes[m.node] # None
  PROVE  /\ Handle(c, m, hz).nodes[m.node] # None
         /\ Handle(c, m, hz).nodes[m.node].online = c.nodes[m.node].online
  <1>. DEFINE old == c.nodes[m.node]
              nd == [old EXCEPT !.reports[m.topic] = m.body]
              out == dispatch(c.nodes, m, hz)
  <1>1. /\ m.topic = "guest/status" /\ m.node \in NodeIds /\ m.body \in ReportValues
        /\ m.topic \in ReportTopics
    BY DEF Message, Body, ReportTopics
  <1>2. c.nodes \in NodeDict /\ old \in Node
    BY <1>1 DEF GoodRecord, CoordRecord, NodeDict
  <1>3. ensure_node(c.nodes, m.node)[m.node] = old
    BY DEF ensure_node
  <1>4. out = handle_report(c.nodes, m)
    BY <1>1 DEF dispatch, ReportTopics
  <1>5. out = Updated(c.nodes, m.node, nd)
    BY <1>3, <1>4 DEF handle_report
  <1>6. nd.online = old.online
    BY <1>2 DEF Node
  <1>7. nd # None
    <2>1. [old.reports EXCEPT ![m.topic] = m.body]
            \in [ReportTopics -> ReportValues \cup {None}]
      BY <1>1, <1>2 DEF Node
    <2>2. nd \in Node
      BY <1>2, <2>1 DEF Node
    <2>. QED
      BY <2>2, NoneAssumption
  <1>. HIDE DEF nd, out
  <1>8. out.updated = TRUE /\ out.nodes = [c.nodes EXCEPT ![m.node] = nd]
    BY <1>5 DEF Updated
  <1>9. Handle(c, m, hz) = Pushed(c, out)
    <2>1. m.form # "foreign" /\ dispatch(c.nodes, m, hz).updated = TRUE
      BY <1>8 DEF out
    <2>. QED
      BY <2>1, HandleUpdates DEF out
  <1>10. Handle(c, m, hz).nodes = out.nodes
    BY <1>9 DEF Pushed
  <1>. QED
    BY <1>1, <1>2, <1>6, <1>7, <1>8, <1>10 DEF NodeDict

\* While no two polls overlap, "three consecutive failures" are what it takes to
\* show a node offline: none falls between a reading that has been applied and
\* the end of its poll, so a node that has just answered stays online
\* (async_poll_safely, async_poll_once).
THEOREM TurnsKeepItOnline == PollerSpec /\ []PollsTakeTurns => AnsweringStaysOnline
  <1>. DEFINE Stays == ShownOnline /\ (\E p \in Slots : InPhase(p, "guest"))
                         => ShownOnline'
  <1>1. ASSUME PollerInv, PollsTakeTurns, [PollerNext]_vars
        PROVE  [Stays]_vars
    <2>. SUFFICES ASSUME ShownOnline, NEW p \in Slots, InPhase(p, "guest"), PollerNext
                  PROVE  ShownOnline'
      BY <1>1
    <2>0. ShownOnline
      OBVIOUS
    <2>1. ASSUME NEW q \in Slots, ~InPhase(q, "guest")
          PROVE  InPhase(q, "idle")
      BY <1>1, <2>1 DEF PollsTakeTurns, InPhase
    <2>2. ASSUME UNCHANGED nodes PROVE ShownOnline'
      BY <2>2 DEF ShownOnline
    <2>3. CASE \/ ModeChanges \/ DoorMoves \/ Jam \/ ClockMoves \/ LogbookTurns
               \/ \E q \in Ticks : async_tick(q)
               \/ \E q \in Commands : SendCommand(q) \/ CommandDone(q)
               \/ \E q \in Slots : \/ InfoAnswered(q) \/ StateAnswered(q)
                                   \/ IdentityMismatch(q) \/ Garbage(q)
      BY <2>2, <2>3
      DEF ModeChanges, DoorMoves, Jam, ClockMoves, LogbookTurns, LogbookChanges,
          async_tick, SendCommand, CommandDone, InfoAnswered, StateAnswered, IdentityMismatch, Garbage,
          coordVars
    <2>4. ASSUME NEW q \in Slots, Apply(q) \/ Fail(q)
          PROVE  FALSE
      BY <2>1, <2>4 DEF Apply, Fail, InPhase
    <2>5. ASSUME NEW q \in Slots, GuestDone(q)
          PROVE  ShownOnline'
      <3>. DEFINE d == Handle(CoordState, Envelope("guest/status", AnyValue), horizon)
      <3>1. CoordState \in GoodRecord /\ CoordState.nodes = nodes
        BY <1>1, InvOfRecord DEF PollerInv, CoordState
      <3>2. /\ d.nodes[TheNode] # None
            /\ d.nodes[TheNode].online = nodes[TheNode].online
        <4>. DEFINE m == Envelope("guest/status", AnyValue)
        <4>1. m \in Message("guest/status") /\ m.form = "ok" /\ m.node = TheNode
          BY Bodies, EnvelopeType
        <4>. HIDE DEF m
        <4>2. /\ Handle(CoordState, m, horizon).nodes[m.node] # None
              /\ Handle(CoordState, m, horizon).nodes[m.node].online
                    = nodes[m.node].online
          BY <2>0, <3>1, <4>1, ReportKeepsOnline DEF ShownOnline
        <4>. QED
          BY <4>1, <4>2 DEF m
      <3>3. nodes' = d.nodes \/ UNCHANGED nodes
        BY <2>5 DEF GuestDone, Become
      <3>. HIDE DEF d
      <3>. QED
        BY <2>2, <3>2, <3>3 DEF ShownOnline
    <2>. QED
      BY <2>3, <2>4, <2>5 DEF PollerNext
  <1>. QED
    BY <1>1, PollerInvariance, PTL DEF PollerSpec, AnsweringStaysOnline
=============================================================================
