----------------------------- MODULE LockCommand -----------------------------
(***************************************************************************)
(* Lock and unlock service calls over MQTT, from the entity (lock.py)      *)
(* through the coordinator and the client (mqtt.py) to a node of the       *)
(* household and back: a command signed with the household key and a fresh *)
(* nonce is published to the node, and the call waits for the node to      *)
(* report the state it asked for.                                          *)
(*                                                                         *)
(* The client, and with it the nonce tracker, serves all nodes of the      *)
(* household; setting the entry up again makes a new one.  Service calls   *)
(* run concurrently.  A call suspends when it publishes and between two    *)
(* looks at the state; there is no other await.  The nodes are external:   *)
(* each takes its commands in the order they were published and refuses    *)
(* one under another key or with a nonce of its own replay window.         *)
(* Commands go at QoS 1: one whose acknowledgement is lost comes again.    *)
(* What a node reports of its bolt, and when, is up to it: it may have     *)
(* carried a command out, or jammed, or somebody turned the key.           *)
(***************************************************************************)
EXTENDS NonceTracker

CONSTANTS
    Nodes,          \* the nodes of the household
    LockStates,     \* what a node can report of its bolt
    Calls,          \* service calls that can be in progress together
    MaxChecks,      \* COMMAND_CONFIRM_TIMEOUT / COMMAND_CONFIRM_POLL
    MaxWire,        \* commands under way to one node
    MaxMishaps,     \* commands that are lost or come again
    None

ASSUME CallAssumption ==
    /\ MaxChecks \in Nat /\ MaxMishaps \in Nat
    /\ None \notin Nodes /\ None # "live"
    /\ LockStates \cap {None, "live"} = {}

VARIABLES
    credential, \* coordinator.command_key(): None, or whether it is the nodes'
    calls,      \* call -> where it is
    wire,       \* node -> published commands on their way to it
    shown,      \* node -> Node.lock_state as the coordinator has it
    reloads,    \* how often the entry was set up again
    earlier,    \* how many commands the clients before this one sent
    \* The nodes and the network.
    window, lost, repeats,
    \* Ghosts.
    accepted,   \* node -> how many commands it accepted
    passedBy    \* of each command refused as a replay when it first arrived:
                \* how many of the client's commands before it passed the node by

clientVars == <<reloads, earlier>>
nodeVars == <<window, lost, repeats, accepted, passedBy>>
vars == <<trackerVars, credential, calls, wire, shown, clientVars, nodeVars>>

Targets == {"locked", "unlocked"}
Outcome == {"ok", "refused", "unconfirmed"}

\* A call looks at the coordinator it was made with: at what is shown now, or,
\* when the entry was set up again meanwhile, at what was shown then.
Call == [phase : {"idle", "publishing", "waiting"} \cup Outcome,
         node : Nodes \cup {None}, target : Targets \cup {None},
         view : LockStates \cup {None, "live"}, left : 0..MaxChecks]

\* Where a command stands among those of its client, and whether it has been
\* delivered before, are not in the payload.
Command == [nonce : Nonces, at : 1..MaxSent, again : BOOLEAN]

Pending(call) == call.phase \in {"publishing", "waiting"}

MoreMishaps == lost + repeats + reloads < MaxMishaps

Over(outcome) ==
    [phase |-> outcome, node |-> None, target |-> None, view |-> "live", left |-> 0]

CommandInit ==
    /\ TrackerInit
    /\ credential \in {None, "right", "wrong"}
    /\ calls = [c \in Calls |-> Over("idle")]
    /\ wire = [n \in Nodes |-> <<>>]
    /\ shown = [n \in Nodes |-> None]
    /\ window = [n \in Nodes |-> <<>>]
    /\ lost = 0 /\ repeats = 0 /\ reloads = 0 /\ earlier = 0
    /\ accepted = [n \in Nodes |-> 0]
    /\ passedBy = {}

-----------------------------------------------------------------------------
(* The call.                                                                 *)

End(c, outcome) == calls' = [calls EXCEPT ![c] = Over(outcome)]

Begin(c, n, target) ==
    calls' = [calls EXCEPT ![c] = [phase |-> "publishing", node |-> n,
                  target |-> target, view |-> "live", left |-> MaxChecks]]

\* Fail closed: with no key, or no fresh nonce, nothing is published.
Refuse(c) ==
    /\ credential = None \/ no_fresh_nonce
    /\ UNCHANGED trackerVars
    /\ End(c, "refused")
    /\ UNCHANGED <<credential, wire, shown, clientVars, nodeVars>>

Signed(nonce) == [nonce |-> nonce, at |-> Len(sent'), again |-> FALSE]

\* Key, nonce, signature and the hand-over to the broker: one stretch without
\* an await, after which the call waits for the broker to take it.
async_send_lock_command(c, n, target) ==
    /\ credential # None
    /\ earlier + Len(sent) < MaxSent
    /\ Len(wire[n]) < MaxWire
    /\ \E nonce \in Nonces :
        /\ fresh_nonce(nonce)
        /\ wire' = [wire EXCEPT ![n] = Append(@, Signed(nonce))]
    /\ Begin(c, n, target)
    /\ UNCHANGED <<credential, shown, clientVars, nodeVars>>

\* async_lock and async_unlock.
Send(c) ==
    /\ ~Pending(calls[c])
    /\ \/ Refuse(c)
       \/ \E n \in Nodes, target \in Targets : async_send_lock_command(c, n, target)

\* The broker has it: the first look at the state comes at once.
Published(c) ==
    /\ calls[c].phase = "publishing"
    /\ calls' = [calls EXCEPT ![c].phase = "waiting"]
    /\ UNCHANGED <<trackerVars, credential, wire, shown, clientVars, nodeVars>>

\* The publish raises; the command may be on the wire all the same.
PublishFails(c) ==
    /\ calls[c].phase = "publishing"
    /\ End(c, "refused")
    /\ UNCHANGED <<trackerVars, credential, wire, shown, clientVars, nodeVars>>

\* The lock state of the node as the call's coordinator has it.
Sees(call) ==
    IF call.node = None \/ call.view # "live" THEN call.view ELSE shown[call.node]

BugLook(call) ==
    CASE call.left = 0 -> "unconfirmed"
      [] call.left > 0 /\ Sees(call) = call.target -> "ok"
      [] OTHER -> "waiting"

BugLookTwice(call) ==
    CASE Sees(call) = call.target -> "ok"
      [] Sees(call) # call.target /\ call.left < 0 -> "unconfirmed"
      [] OTHER -> "waiting"

\* One turn of the loop: the state first, then the deadline.
Look(call) ==
    CASE Sees(call) = call.target -> "ok"
      [] Sees(call) # call.target /\ call.left = 0 -> "unconfirmed"
      [] OTHER -> "waiting"

async_wait_for_state(c) ==
    /\ calls[c].phase = "waiting"
    /\ IF Look(calls[c]) = "waiting"
       THEN calls' = [calls EXCEPT ![c].left = @ - 1]
       ELSE End(c, Look(calls[c]))
    /\ UNCHANGED <<trackerVars, credential, wire, shown, clientVars, nodeVars>>

\* What a call of before looks at from now on.
Left(call) == IF Pending(call) THEN [call EXCEPT !.view = Sees(call)] ELSE call

\* The entry is set up again: another client, and another coordinator that has
\* heard of no node yet.  Commands on the wire stay there.
Reload ==
    /\ MoreMishaps
    /\ reloads' = reloads + 1
    /\ earlier' = earlier + Len(sent)
    /\ NewTracker
    /\ calls' = [c \in Calls |-> Left(calls[c])]
    /\ shown' = [n \in Nodes |-> None]
    /\ UNCHANGED <<credential, wire, nodeVars>>

-----------------------------------------------------------------------------
(* The nodes, and their reports on their way back.                           *)

\* The last Window nonces the node accepted.
Accepted(w, nonce) ==
    LET longer == Append(w, nonce)
    IN IF Len(longer) > Window THEN Tail(longer) ELSE longer

\* The command is acknowledged, or the acknowledgement is lost and it comes
\* again before any other.
Acknowledge(n) ==
    \/ /\ wire' = [wire EXCEPT ![n] = Tail(@)]
       /\ UNCHANGED repeats
    \/ /\ MoreMishaps
       /\ repeats' = repeats + 1
       /\ wire' = [wire EXCEPT ![n][1].again = TRUE]

Accept(n, command) ==
    /\ window' = [window EXCEPT ![n] = Accepted(@, command.nonce)]
    /\ accepted' = [accepted EXCEPT ![n] = @ + 1]
    /\ UNCHANGED passedBy

\* Of the first client's commands it is known which ones the node had before.
RejectReplay(n, command) ==
    /\ passedBy' = passedBy \cup
           (IF command.again \/ reloads > 0 THEN {} ELSE {command.at - 1 - accepted[n]})
    /\ UNCHANGED <<window, accepted>>

NodeTakes(n) ==
    /\ wire[n] # <<>>
    /\ Acknowledge(n)
    /\ LET command == Head(wire[n])
           replay == contains(window[n], command.nonce)
       IN \/ credential = "right" /\ ~replay /\ Accept(n, command)
          \/ credential = "right" /\ replay /\ RejectReplay(n, command)
          \/ /\ credential # "right"
             /\ UNCHANGED <<window, accepted, passedBy>>
    /\ UNCHANGED <<trackerVars, credential, calls, shown, clientVars, lost>>

CommandLost(n) ==
    /\ wire[n] # <<>>
    /\ MoreMishaps
    /\ lost' = lost + 1
    /\ wire' = [wire EXCEPT ![n] = Tail(@)]
    /\ UNCHANGED <<trackerVars, credential, calls, shown, clientVars, window, repeats,
                   accepted, passedBy>>

\* The coordinator takes a report.
Reported(n) ==
    /\ \E state \in LockStates : shown' = [shown EXCEPT ![n] = state]
    /\ UNCHANGED <<trackerVars, credential, calls, wire, clientVars, nodeVars>>

CommandNext ==
    \/ \E c \in Calls : \/ Send(c) \/ Published(c) \/ PublishFails(c)
                        \/ async_wait_for_state(c)
    \/ \E n \in Nodes : NodeTakes(n) \/ CommandLost(n) \/ Reported(n)
    \/ Reload

CommandSpec == CommandInit /\ [][CommandNext]_vars

\* The event loop resumes a call: its publish returns or raises, and its sleep
\* between two looks ends.  Nothing is assumed of the nodes.
CommandFairness ==
    \A c \in Calls : /\ WF_vars(Published(c) \/ PublishFails(c))
                     /\ WF_vars(async_wait_for_state(c))

CommandFairSpec == CommandSpec /\ CommandFairness

-----------------------------------------------------------------------------
(* Properties.                                                               *)

\* The call path is well typed.
CommandTypeOK ==
    /\ TrackerTypeOK
    /\ calls \in [Calls -> Call]
    /\ wire \in [Nodes -> Seq(Command)]
    /\ shown \in [Nodes -> LockStates \cup {None}]
    /\ window \in [Nodes -> Seq(Nonces)]
    /\ \A n \in Nodes : Len(window[n]) <= Window

\* While a client lives, a node refuses one of its commands as a replay only if
\* at least two of the commands before it passed that node by: lost on the way,
\* refused, or meant for another node of the household.  Those do not enter the
\* node's window, which then reaches further back than what the tracker must
\* remember; what it remembers beyond a window is one nonce, so one is no harm
\* (NonceTracker.remember, build_command, HomeKeyMqttClient._nonces).
RefusalNeedsTwoPassedBy == \A k \in passedBy : k > 1

\* A call as its caller sees it.
AnswerOf(call) ==
    CASE call.phase = "idle" -> "none"
      [] Pending(call) -> "pending"
      [] call.phase \in Outcome -> call.phase

ShownTo(call) == IF Pending(call) THEN Sees(call) ELSE None

Service == INSTANCE ServiceCall WITH
    Callers <- Calls, Wishes <- Targets, Shown <- LockStates, NoWish <- None,
    wish <- [c \in Calls |-> calls[c].target],
    answer <- [c \in Calls |-> AnswerOf(calls[c])],
    state <- [c \in Calls |-> ShownTo(calls[c])]

\* Whatever a node reports and whenever, however commands are lost or repeated,
\* and when the entry is set up again meanwhile, every call ends, succeeds only
\* on the state it asked for, and gives up only when that state is not there at
\* the last look: an answer that has arrived wins over the deadline (lock.py
\* _async_send, _async_wait_for_state).
CallsAreAnswered == Service!ServiceSpec /\ Service!EveryCallEnds

-----------------------------------------------------------------------------
(* A reading of the comments that the code does not bear out.                *)

\* "The client never reuses a nonce within the firmware's replay window"
\* (docs/HA_V2_INTEGRATION.md:251) would let no command be refused for its
\* nonce that is the first to carry it on a network that loses nothing.
\* FALSE with two nodes: what goes to one does not enter the other's window.
\* True of a household of one node (RefusalNeedsTwoPassedBy).
NoRefusalWithoutLoss == passedBy # {} => lost > 0
=============================================================================
