----------------------------- MODULE DirectPoller -----------------------------
(***************************************************************************)
(* The broker-less transport (direct.py DirectPoller, and the command path *)
(* of coordinator.py that ends in a poll) in front of the coordinator.     *)
(*                                                                         *)
(* A poll is three requests, each awaited: info, state, guest.  The event  *)
(* loop runs other polls during every await: the interval timer starts a   *)
(* poll every 30 s whether or not the last one has ended (three requests   *)
(* of up to 20 s each), and every command ends in a poll of its own; the   *)
(* slots stand for the ones in flight.  Between two awaits a poll runs     *)
(* alone, so the messages of one reading are applied in one step.          *)
(***************************************************************************)
EXTENDS Coordinator

CONSTANTS
    TheNode,                       \* the node id the device reports
    Ticks,                         \* scheduled polls that can be in flight together
    Commands,                      \* commands, each with the poll it ends in
    DIRECT_OFFLINE_AFTER_FAILURES,
    Modes,                         \* what the device may be: see mode
    Sources,                       \* what moves its bolt
    MaxGlitches                    \* requests lost while the device is up

ASSUME PollerAssumption ==
    /\ TheNode \in NodeIds
    /\ TheNode # None
    /\ DIRECT_OFFLINE_AFTER_FAILURES \in Nat \ {0}
    /\ Modes \subseteq {"up", "down", "garbage", "rehomed"}
    /\ "up" \in Modes
    /\ Ticks \cap Commands = {}
    /\ Sources \subseteq Source
    /\ MaxGlitches \in Nat
    /\ ReportValues # {}
    /\ MaxSeq <= MaxStamp
    /\ MaxSeq > 0 => "wall" \in Clocks

VARIABLES
    \* The device (external).
    mode,       \* "up", "down" (no answer, or a refusal), answering "garbage",
                \* or "rehomed" elsewhere
    bolt,       \* where its bolt is
    event,      \* its last lock change, as /api/ha/state reports it
    auth,       \* its last authorisation
    seq,        \* ordinal of the last change of the bolt
    glitches,
    \* The poller.
    polls,      \* slot -> the poll in it
    failures,   \* _failures, which only matters up to one past the threshold
    node_id     \* _node_id

deviceVars == <<mode, bolt, event, auth, seq, glitches>>
pollerVars == <<polls, failures, node_id>>
vars == <<coordVars, deviceVars, pollerVars>>

Phase == {"idle", "command", "info", "state", "reply", "guest"}
Slots == Ticks \cup Commands
Reading == [household : {"ours", "other"}, current : Current, seq : 0..MaxSeq,
            event : LockChange \cup {None}, auth : LastAuth \cup {None}]
Poll == [phase : Phase, reading : Reading \cup {None}]
Idle == [phase |-> "idle", reading |-> None]

PollerInit ==
    /\ CoordInit
    /\ mode = "up"
    /\ bolt = "locked"
    /\ event = None
    /\ auth = None
    /\ seq = 0
    /\ glitches = 0
    /\ polls = [p \in Slots |-> Idle]
    /\ failures = 0
    /\ node_id = None

-----------------------------------------------------------------------------
(* The device.                                                               *)

ModeChanges ==
    /\ mode' \in Modes \ {mode}
    /\ glitches < MaxGlitches
    /\ glitches' = glitches + 1
    /\ UNCHANGED <<coordVars, bolt, event, auth, seq, pollerVars>>

\* The bolt goes to current because of source.
Move(current, source, who) ==
    LET stamp == [clock |-> "wall", at |-> seq + 1]
    IN /\ seq < MaxSeq
       /\ seq' = seq + 1
       /\ bolt' = current
       /\ event' = [current |-> current, source |-> source, stamp |-> stamp,
                    seq |-> seq + 1]
       /\ auth' = IF source = "homekey"
                  THEN [issuer |-> who, stamp |-> stamp, seq |-> seq + 1]
                  ELSE auth

DoorMoves ==
    /\ \E current \in {"unlocked", "locked"} \ {bolt}, source \in Sources,
          who \in Issuers \cup {None} :
        /\ source # "homekey" => who = None
        /\ Move(current, source, who)
    /\ UNCHANGED <<coordVars, mode, glitches, pollerVars>>

\* The bolt stops short: no event.
Jam ==
    /\ seq < MaxSeq
    /\ bolt # "jammed"
    /\ bolt' = "jammed"
    /\ seq' = seq + 1
    /\ UNCHANGED <<coordVars, mode, event, auth, glitches, pollerVars>>

ClockMoves ==
    /\ horizon < seq
    /\ horizon' = horizon + 1
    /\ UNCHANGED <<nodes, pool, entities, log, logbook, deviceVars, pollerVars>>

LogbookTurns ==
    /\ LogbookChanges
    /\ UNCHANGED <<deviceVars, pollerVars>>

-----------------------------------------------------------------------------
(* A reading as the messages MQTT would have sent, in the code's order.      *)

Envelope(t, b) == [node |-> TheNode, topic |-> t, form |-> "ok", body |-> b]

AnyValue == CHOOSE v \in ReportValues : TRUE

\* state_to_messages, fed to the coordinator one by one.  lock/last is sent
\* when the device has a change to report, last_auth when it has an
\* authorisation; last_auth is the last of them.
BugFeed(c, r, hz) ==
    LET c1 == Handle(c, Envelope("status", TRUE), hz)
        c2 == IF r.event = None THEN c1
              ELSE Handle(c1, Envelope("lock/last", r.event), hz)
    IN Handle(c2, Envelope("state", [name |-> AnyValue,
                                     generation |-> AnyValue]), hz)

state_to_messages(c, r, hz) ==
    LET c1 == Handle(c, Envelope("status", TRUE), hz)
        c2 == IF r.event = None THEN c1
              ELSE Handle(c1, Envelope("lock/last", r.event), hz)
        c3 == Handle(c2, Envelope("state", [name |-> AnyValue,
                                            generation |-> AnyValue]), hz)
        c4 == Handle(c3, Envelope("health", [current |-> r.current,
                                             seq |-> r.seq]), hz)
        c5 == Handle(c4, Envelope("security", AnyValue), hz)
        c6 == Handle(c5, Envelope("backup/status", AnyValue), hz)
    IN IF r.auth = None THEN c6
       ELSE Handle(c6, Envelope("last_auth", r.auth), hz)

-----------------------------------------------------------------------------
(* Polls.                                                                    *)

InPhase(p, phase) == polls[p].phase = phase
Enter(p, phase) == polls' = [polls EXCEPT ![p].phase = phase]
Finish(p) == polls' = [polls EXCEPT ![p] = Idle]

async_tick(p) ==
    /\ InPhase(p, "idle")
    /\ Enter(p, "info")
    /\ UNCHANGED <<coordVars, deviceVars, failures, node_id>>

\* async_send_direct_command: the command request is on its way.
SendCommand(p) ==
    /\ InPhase(p, "idle")
    /\ seq < MaxSeq
    /\ Enter(p, "command")
    /\ UNCHANGED <<coordVars, deviceVars, failures, node_id>>

\* The device carries it out and answers; the poll that follows begins.
CommandDone(p) ==
    /\ InPhase(p, "command")
    /\ mode \in {"up", "rehomed"}
    /\ \/ \E current \in {"unlocked", "locked"} \ {bolt} :
              Move(current, "mqtt", None)
       \/ UNCHANGED <<bolt, event, auth, seq>>
    /\ Enter(p, "info")
    /\ UNCHANGED <<coordVars, mode, glitches, failures, node_id>>

InfoAnswered(p) ==
    /\ InPhase(p, "info")
    /\ mode \in {"up", "rehomed"}
    /\ Enter(p, "state")
    /\ UNCHANGED <<coordVars, deviceVars, failures, node_id>>

\* The device answers with what it knows now; the reply is on its way.
StateAnswered(p) ==
    /\ InPhase(p, "state")
    /\ mode \in {"up", "rehomed"}
    /\ polls' = [polls EXCEPT
           ![p].phase = "reply",
           ![p].reading = [household |-> IF mode = "up" THEN "ours" ELSE "other",
                           current |-> bolt, seq |-> seq,
                           event |-> event, auth |-> auth]]
    /\ UNCHANGED <<coordVars, deviceVars, failures, node_id>>

\* The reply arrives: identity, then every message, without an await.
Apply(p) ==
    /\ InPhase(p, "reply")
    /\ polls[p].reading.household = "ours"
    /\ node_id' = TheNode
    /\ Become(state_to_messages(CoordState, polls[p].reading, horizon))
    /\ polls' = [polls EXCEPT ![p].phase = "guest", ![p].reading = None]
    /\ UNCHANGED <<logbook, horizon, deviceVars, failures>>

\* The device belongs to another household now: nothing is applied, and a
\* scheduled poll counts as one that succeeded.
IdentityMismatch(p) ==
    /\ InPhase(p, "reply")
    /\ polls[p].reading.household = "other"
    /\ failures' = IF p \in Ticks THEN 0 ELSE failures
    /\ Finish(p)
    /\ UNCHANGED <<coordVars, deviceVars, node_id>>

\* The guest request ends: with a document, or with none, or in an error
\* that is swallowed.  Either way the poll has succeeded.
GuestDone(p) ==
    /\ InPhase(p, "guest")
    /\ \/ Become(Handle(CoordState, Envelope("guest/status", AnyValue), horizon))
       \/ UNCHANGED <<nodes, pool, entities, log>>
    /\ failures' = 0
    /\ Finish(p)
    /\ UNCHANGED <<logbook, horizon, deviceVars, node_id>>

BugMarksOffline(count) == count > DIRECT_OFFLINE_AFTER_FAILURES

MarksOffline(count) == count = DIRECT_OFFLINE_AFTER_FAILURES

BugCounted(count) == 1

\* One more, as far as the threshold can tell.
Counted(count) ==
    IF count > DIRECT_OFFLINE_AFTER_FAILURES THEN count ELSE count + 1

\* A request fails or times out.  Only a scheduled poll is counted
\* (async_poll_safely); a command's poll fails silently.
Fail(p) ==
    /\ polls[p].phase \in {"command", "info", "state", "reply"}
    /\ \/ mode = "down" /\ UNCHANGED glitches
       \/ mode # "down" /\ glitches < MaxGlitches /\ glitches' = glitches + 1
    /\ IF p \in Ticks
       THEN /\ failures' = Counted(failures)
            /\ IF MarksOffline(failures') /\ node_id # None
               THEN Become(Handle(CoordState, Envelope("status", FALSE), horizon))
               ELSE UNCHANGED <<nodes, pool, entities, log>>
       ELSE UNCHANGED <<failures, nodes, pool, entities, log>>
    /\ Finish(p)
    /\ UNCHANGED <<logbook, horizon, mode, bolt, event, auth, seq, node_id>>

\* A reply that is not JSON: the exception is none of those that
\* async_poll_safely converts, so it leaves the poll uncounted.
Garbage(p) ==
    /\ polls[p].phase \in {"command", "info", "state"}
    /\ mode = "garbage"
    /\ Finish(p)
    /\ UNCHANGED <<coordVars, deviceVars, failures, node_id>>

PollerNext ==
    \/ ModeChanges \/ DoorMoves \/ Jam \/ ClockMoves \/ LogbookTurns
    \/ \E p \in Ticks : async_tick(p)
    \/ \E p \in Commands : SendCommand(p) \/ CommandDone(p)
    \/ \E p \in Slots :
          \/ InfoAnswered(p) \/ StateAnswered(p) \/ Apply(p) \/ IdentityMismatch(p) \/ GuestDone(p)
          \/ Fail(p) \/ Garbage(p)

PollerSpec == PollerInit /\ [][PollerNext]_vars

\* The timer keeps ticking, and every poll ends: each of its requests ends in an
\* answer, an error or the 20 s timeout.  From every state a poll can end by
\* steps of its own, so the second conjunct excludes no finite behaviour.
PollerFairness ==
    /\ \A p \in Ticks : WF_vars(async_tick(p))
    /\ \A p \in Slots : []<>InPhase(p, "idle")

PollerFairSpec == PollerSpec /\ PollerFairness

-----------------------------------------------------------------------------
(* Properties.                                                               *)

\* The poller and the device are well typed.
PollerTypeOK ==
    /\ CoordTypeOK
    /\ mode \in Modes
    /\ bolt \in Current
    /\ event \in LockChange \cup {None}
    /\ auth \in LastAuth \cup {None}
    /\ seq \in 0..MaxSeq
    /\ polls \in [Slots -> Poll]
    /\ failures \in 0..(DIRECT_OFFLINE_AFTER_FAILURES + 1)
    /\ node_id \in {None, TheNode}

ShownOnline == nodes[TheNode] # None /\ nodes[TheNode].online

\* A node that has missed enough polls is never left shown online, however its
\* polls overlap: the only exception is a poll that has just applied a reading
\* and is about to clear the count (async_poll_safely, async_poll_once).
MissedPollsAreShown ==
    failures >= DIRECT_OFFLINE_AFTER_FAILURES /\ ShownOnline =>
        \E p \in Slots : InPhase(p, "guest")

\* A device that is gone for good is eventually shown offline.
GoneIsShown == <>[](mode = "down") => <>[]~ShownOnline

\* A device that is back for good is eventually shown online, with its bolt
\* as it is, whatever stale replies were still on their way.
BackIsShown ==
    <>[](mode = "up") =>
        <>[](ShownOnline /\ lock_state(nodes[TheNode]) = bolt)

-----------------------------------------------------------------------------
(* What the repository says and the code does not do: these are false of the *)
(* specification (see README.md).                                            *)

\* "converting a failure into availability instead of an exception"
\* (async_poll_safely): a device that never again answers with a usable
\* document is eventually shown offline.
GarbageIsShown == <>[](mode = "garbage") => <>[]~ShownOnline

\* "Three consecutive failures" (docs/HA_V2_INTEGRATION.md) mark a node offline:
\* not a failure that falls between the reading another poll has just applied
\* and the end of that poll, where the count is cleared.
AnsweringStaysOnline ==
    [][ShownOnline /\ (\E p \in Slots : InPhase(p, "guest")) => ShownOnline']_vars

\* "the activity log names the person" (README): a tap whose authorisation is
\* stamped as the change is, by somebody with a name, is logged under it.
TapNamesThePerson ==
    \A i \in DOMAIN log :
        log[i].source = "homekey" /\ auth # None /\ auth.issuer # None
          /\ auth.stamp = log[i].stamp
        => log[i].actor = auth.issuer
=============================================================================
