----------------------------- MODULE GuestAccess -----------------------------
(***************************************************************************)
(* Guest cards (guest.py, switch.py, number.py, button.py, the guest part  *)
(* of coordinator.py and direct.py): a service call or a control of the    *)
(* user interface sends one command to a node, and then polls the node so  *)
(* that the interface shows what the command did.                          *)
(*                                                                         *)
(* That poll overlaps the scheduled ones and those of other commands.  A   *)
(* poll suspends for the state (info and state requests, one step here:    *)
(* DirectPoller has them apart) and again for the guest document.  Entries *)
(* come up in this module and stay; EntryLifecycle takes them down.  The   *)
(* poll of an entry's setup is the first of its scheduled ones.            *)
(***************************************************************************)
EXTENDS Naturals, FiniteSets

CONSTANTS
    Entries,        \* configured entries
    Direct,         \* those of the direct transport, one node each
    Calls,          \* service calls and presses that can be in progress together
    Ticks,          \* scheduled polls that can be in flight together
    Tags,           \* guest cards
    MaxChanges,     \* changes of a node's guest state before it settles
    MaxGlitches,    \* changes of a node's mode, and requests lost while it is up
    None

\* A slot is that of a call or of a scheduled poll, and no entry is None.
GuestConstants ==
    /\ Direct \subseteq Entries
    /\ Calls \cap Ticks = {}
    /\ None \notin Entries \cup Tags
    /\ MaxChanges \in Nat
    /\ MaxGlitches \in Nat

ASSUME GuestAssumption == GuestConstants

VARIABLES
    loaded,     \* entries with a runtime in hass.data
    \* The nodes (external).
    mode,       \* "up", "noguest" (firmware without cards), "guestfails", "down"
    guest,      \* the guest state of a node
    changes, glitches,
    \* The integration.
    known,      \* entries whose poller has learned its node id
    shown,      \* Node.guest
    online,     \* Node.available
    calls,      \* call -> where it is
    polls       \* slot -> the poll in it

deviceVars == <<mode, guest, changes, glitches>>
shownVars == <<known, shown, online>>
vars == <<loaded, deviceVars, shownVars, calls, polls>>

Slots == Calls \cup Ticks
Mode == {"up", "noguest", "guestfails", "down"}
\* enabled stands for the whole guest configuration, armed for a card write that
\* waits for a card.
GuestState == [enabled : BOOLEAN, armed : BOOLEAN, tags : SUBSET Tags]
Command == [what : {"set"}, value : BOOLEAN]
             \cup [what : {"teach", "cancel"}, value : {None}]
             \cup [what : {"revoke"}, value : Tags]
Outcome == {"idle", "refused", "failed", "ok"}
Call == [phase : Outcome, entry : {None}, command : {None}]
          \cup [phase : {"sending", "refreshing"}, entry : Direct,
                command : Command]
Poll == [phase : {"idle"}, entry : {None}, reading : {None}]
          \cup [phase : {"state", "guest"}, entry : Direct, reading : {None}]
          \cup [phase : {"reply"}, entry : Direct, reading : GuestState]

NoPoll == [phase |-> "idle", entry |-> None, reading |-> None]
NewPoll(e) == [phase |-> "state", entry |-> e, reading |-> None]
EndedCall(outcome) == [phase |-> outcome, entry |-> None, command |-> None]

GuestInit ==
    /\ loaded = {}
    /\ mode \in [Direct -> Mode]
    /\ guest = [e \in Direct |-> [enabled |-> FALSE, armed |-> FALSE, tags |-> {}]]
    /\ changes = 0
    /\ glitches = 0
    /\ known = {}
    /\ shown = [e \in Direct |-> None]
    /\ online = [e \in Direct |-> FALSE]
    /\ calls = [c \in Calls |-> EndedCall("idle")]
    /\ polls = [p \in Slots |-> NoPoll]

EntryComesUp(e) ==
    /\ e \notin loaded
    /\ loaded' = loaded \cup {e}
    /\ UNCHANGED <<deviceVars, shownVars, calls, polls>>

-----------------------------------------------------------------------------
(* The node.                                                                 *)

ModeChanges(e) ==
    /\ glitches < MaxGlitches
    /\ glitches' = glitches + 1
    /\ \E m \in Mode \ {mode[e]} : mode' = [mode EXCEPT ![e] = m]
    /\ UNCHANGED <<loaded, guest, changes, shownVars, calls, polls>>

\* A card is presented to the armed node, or nobody comes in time.
ArmEnds(e) ==
    /\ guest[e].armed
    /\ changes < MaxChanges
    /\ changes' = changes + 1
    /\ \E written \in {{}} \cup {{t} : t \in Tags} :
        guest' = [guest EXCEPT ![e].armed = FALSE, ![e].tags = @ \cup written]
    /\ UNCHANGED <<loaded, mode, glitches, shownVars, calls, polls>>

After(g, command) ==
    CASE command.what = "set" -> [g EXCEPT !.enabled = command.value]
      [] command.what = "teach" -> [g EXCEPT !.armed = TRUE]
      [] command.what = "cancel" -> [g EXCEPT !.armed = FALSE]
      [] command.what = "revoke" -> [g EXCEPT !.tags = @ \ {command.value}]

CarriesOut(e, command) ==
    /\ guest' = [guest EXCEPT ![e] = After(@, command)]
    /\ changes' = IF guest' = guest THEN changes ELSE changes + 1

-----------------------------------------------------------------------------
(* A call, up to the node's answer.                                          *)

Busy(c) == calls[c].phase \in {"sending", "refreshing"}
EndCall(c, outcome) == calls' = [calls EXCEPT ![c] = EndedCall(outcome)]

\* The entry a service call means: the one it names, or the only one there is;
\* a set of at most one.
runtime_for(requested) ==
    IF requested # None THEN {requested} \cap loaded
    ELSE IF Cardinality(loaded) = 1 THEN loaded ELSE {}

BugNodeIdFor(runtimes) == runtimes

\* Only a direct entry has a node to ask, once a poll has told its id.
node_id_for(runtimes) == runtimes \cap Direct \cap known

guest_manageable(e) == e \in Direct

\* A node that never spoke of guests has no guest controls.
guest_reported(e) == shown[e] # None

ControlAvailable(e) == guest_manageable(e) /\ online[e] /\ guest_reported(e)

Send(c, e, command) ==
    /\ calls' = [calls EXCEPT ![c] = [phase |-> "sending", entry |-> e,
                                      command |-> command]]
    /\ UNCHANGED <<loaded, deviceVars, shownVars, polls>>

\* guest_teach, guest_revoke, guest_cancel.
ServiceCall(c) ==
    /\ ~Busy(c)
    /\ changes < MaxChanges
    /\ \E requested \in Entries \cup {None} :
        LET targets == node_id_for(runtime_for(requested))
        IN \/ /\ targets = {}
              /\ EndCall(c, "refused")
              /\ UNCHANGED <<loaded, deviceVars, shownVars, polls>>
           \/ \E e \in targets, command \in Command :
              /\ command.what # "set"
              /\ Send(c, e, command)

Press(c, what) ==
    /\ ~Busy(c)
    /\ changes < MaxChanges
    /\ \E e \in loaded, command \in Command :
        /\ ControlAvailable(e)
        /\ command.what \in what
        /\ Send(c, e, command)

\* The switch; the default validity, a number, is set the same way.
HomeKeyGuestAccessSwitch(c) == Press(c, {"set"})

\* The buttons that arm a card write and call it off.
HomeKeyGuestButtons(c) == Press(c, {"teach", "cancel"})

\* The node carries the command out and says so; the refresh begins.
Answered(c) ==
    /\ calls[c].phase = "sending"
    /\ mode[calls[c].entry] = "up"
    /\ CarriesOut(calls[c].entry, calls[c].command)
    /\ calls' = [calls EXCEPT ![c].phase = "refreshing"]
    /\ polls' = [polls EXCEPT ![c] = NewPoll(calls[c].entry)]
    /\ UNCHANGED <<loaded, mode, glitches, shownVars>>

\* A request fails because of the mode of its node, or is lost.
Trouble(e, modes) ==
    \/ mode[e] \in modes /\ UNCHANGED glitches
    \/ glitches < MaxGlitches /\ glitches' = glitches + 1

\* No answer, or one that refuses: the command may have been carried out.
CommandFails(c) ==
    /\ calls[c].phase = "sending"
    /\ Trouble(calls[c].entry, {"noguest", "guestfails", "down"})
    /\ \/ UNCHANGED <<guest, changes>>
       \/ /\ mode[calls[c].entry] \in {"up", "guestfails"}
          /\ CarriesOut(calls[c].entry, calls[c].command)
    /\ EndCall(c, "failed")
    /\ UNCHANGED <<loaded, mode, shownVars, polls>>

-----------------------------------------------------------------------------
(* Polls: the scheduled ones, and the refresh in the slot of its call.       *)

Tick(p, e) ==
    /\ e \in loaded
    /\ polls[p].phase = "idle"
    /\ polls' = [polls EXCEPT ![p] = NewPoll(e)]
    /\ UNCHANGED <<loaded, deviceVars, shownVars, calls>>

\* The poll of slot p is over; a call whose refresh it was has succeeded.
EndPoll(p) ==
    /\ polls' = [polls EXCEPT ![p] = NoPoll]
    /\ calls' = IF p \in Calls THEN [calls EXCEPT ![p] = EndedCall("ok")] ELSE calls

BugEndPollFailed(p) ==
    /\ polls' = [polls EXCEPT ![p] = NoPoll]
    /\ calls' = IF p \in Calls THEN [calls EXCEPT ![p] = EndedCall("failed")] ELSE calls

\* A refresh that fails does not hide that the command was delivered.
EndFailedPoll(p) == EndPoll(p)

StateRead(p) ==
    /\ polls[p].phase = "state"
    /\ mode[polls[p].entry] # "down"
    /\ known' = known \cup {polls[p].entry}
    /\ online' = [online EXCEPT ![polls[p].entry] = TRUE]
    /\ polls' = [polls EXCEPT ![p].phase = "guest"]
    /\ UNCHANGED <<loaded, deviceVars, shown, calls>>

\* A scheduled poll that fails may be the one that marks the node offline.
PollFails(p) ==
    /\ polls[p].phase = "state"
    /\ Trouble(polls[p].entry, {"down"})
    /\ \/ UNCHANGED online
       \/ /\ p \in Ticks /\ polls[p].entry \in known
          /\ online' = [online EXCEPT ![polls[p].entry] = FALSE]
    /\ EndFailedPoll(p)
    /\ UNCHANGED <<loaded, mode, guest, changes, known, shown>>

\* The node answers with its guest state as it is now.
GuestRead(p) ==
    /\ polls[p].phase = "guest"
    /\ mode[polls[p].entry] = "up"
    /\ polls' = [polls EXCEPT ![p].phase = "reply",
                              ![p].reading = guest[polls[p].entry]]
    /\ UNCHANGED <<loaded, deviceVars, shownVars, calls>>

BugNoGuest(p) ==
    /\ polls[p].phase = "guest"
    /\ Trouble(polls[p].entry, {"noguest", "guestfails", "down"})
    /\ online' = [online EXCEPT ![polls[p].entry] = FALSE]
    /\ EndPoll(p)
    /\ UNCHANGED <<loaded, mode, guest, changes, known, shown>>

\* A 404 is no guest state, any other failure is swallowed: the poll is a
\* success either way, and nothing is applied.
NoGuest(p) ==
    /\ polls[p].phase = "guest"
    /\ Trouble(polls[p].entry, {"noguest", "guestfails", "down"})
    /\ EndPoll(p)
    /\ UNCHANGED <<loaded, mode, guest, changes, shownVars>>

BugGuestApplied(p) ==
    /\ polls[p].phase = "reply"
    /\ shown' = IF shown[polls[p].entry] = None
                THEN [shown EXCEPT ![polls[p].entry] = polls[p].reading] ELSE shown
    /\ EndPoll(p)
    /\ UNCHANGED <<loaded, deviceVars, known, online>>

\* guest/status, through the coordinator.
GuestApplied(p) ==
    /\ polls[p].phase = "reply"
    /\ shown' = [shown EXCEPT ![polls[p].entry] = polls[p].reading]
    /\ EndPoll(p)
    /\ UNCHANGED <<loaded, deviceVars, known, online>>

GuestNext ==
    \/ \E e \in Entries : EntryComesUp(e)
    \/ \E e \in Direct : ModeChanges(e) \/ ArmEnds(e)
    \/ \E c \in Calls : \/ ServiceCall(c) \/ HomeKeyGuestAccessSwitch(c)
                        \/ HomeKeyGuestButtons(c)
                        \/ Answered(c) \/ CommandFails(c)
    \/ \E p \in Ticks, e \in Direct : Tick(p, e)
    \/ \E p \in Slots : \/ StateRead(p) \/ PollFails(p) \/ GuestRead(p)
                        \/ NoGuest(p) \/ GuestApplied(p)

GuestSpec == GuestInit /\ [][GuestNext]_vars

\* Every loaded entry is polled on its interval, and every request ends in an
\* answer, an error or its timeout.  Nobody has to call or press anything, and
\* no failed setup has to succeed.
GuestFairness ==
    /\ \A e \in Direct : WF_vars(\E p \in Ticks : Tick(p, e))
    /\ \A p \in Slots : /\ WF_vars(StateRead(p) \/ PollFails(p))
                        /\ WF_vars(GuestRead(p) \/ NoGuest(p))
                        /\ WF_vars(GuestApplied(p))
    /\ \A c \in Calls : WF_vars(Answered(c) \/ CommandFails(c))

GuestFairSpec == GuestSpec /\ GuestFairness

-----------------------------------------------------------------------------
(* Properties.                                                               *)

\* The guest state, the calls and the polls are well typed.
GuestTypeOK ==
    /\ loaded \subseteq Entries
    /\ mode \in [Direct -> Mode]
    /\ guest \in [Direct -> GuestState]
    /\ known \subseteq Direct
    /\ shown \in [Direct -> GuestState \cup {None}]
    /\ online \in [Direct -> BOOLEAN]
    /\ calls \in [Calls -> Call]
    /\ polls \in [Slots -> Poll]
    /\ \A c \in Calls : calls[c].phase = "refreshing" <=> polls[c].phase # "idle"

\* Once a node that can be reached has settled, its guest state is shown as it
\* is: an armed write that is over does not go on being shown as armed, although
\* readings taken before the change may be applied after newer ones
\* (_async_refresh_after_guest_write, async_poll_once).
GuestFollowsNode ==
    \A e \in Direct :
        <>[](e \in loaded /\ mode[e] = "up") => <>[](shown[e] = guest[e])

\* "nothing here may affect the node's availability" (async_poll_once): a node
\* that answers stays available, with guest requests that fail for ever too.
GuestNeverGatesAvailability ==
    \A e \in Direct :
        <>[](e \in loaded /\ mode[e] # "down") => <>[]online[e]

\* "a refresh failure must not hide success" (coordinator.py): a call whose
\* command the node has answered ends well, whatever becomes of its refresh.
DeliveredIsReported ==
    \A c \in Calls :
        calls[c].phase = "refreshing" ~> calls[c].phase = "ok"

-----------------------------------------------------------------------------
(* What the repository says and the code does not do: these are false of the *)
(* specification (see README.md).                                            *)

\* "a call that does not name an entry is only unambiguous when exactly one is
\* configured" (guest.py _runtime_for): with two configured, a call that names
\* none reaches no node.  The code counts the entries that are loaded.
UnnamedNeedsOneEntry ==
    Cardinality(Entries) > 1 => node_id_for(runtime_for(None)) = {}

\* "the interface has to show that the node is now waiting for a card"
\* (coordinator.py): a refresh that has been applied is not undone by a reading
\* that was taken before it.
RefreshIsNotUndone ==
    [][\A e \in Direct :
          shown[e] # None /\ shown[e] = guest[e] /\ guest'[e] = guest[e]
            => shown'[e] = shown[e]]_vars

\* "Guest controls use this to hide themselves rather than offering a button that
\* can only fail" (entity.py): also after a node has lost the feature.
ControlsHideWithTheFeature ==
    \A e \in Direct : <>[](mode[e] = "noguest") => <>[]~ControlAvailable(e)
=============================================================================
