---------------------------- MODULE NonceTracker ----------------------------
(***************************************************************************)
(* NonceTracker (command.py): the nonces an MQTT client has put on its     *)
(* last commands.  A node refuses a nonce that is among the last window    *)
(* ones it accepted; the tracker keeps more than a window of them, never   *)
(* offers one of those again, and forgets the rest.  A client made anew    *)
(* (mqtt.py) starts with an empty tracker.                                 *)
(***************************************************************************)
EXTENDS Integers, Sequences

CONSTANTS
    Nonces,     \* what new_nonce can return
    Window,     \* COMMAND_REPLAY_WINDOW
    MaxSent     \* bound on the commands of one client

ASSUME WindowAssumption == Window \in Nat \ {0} /\ MaxSent \in Nat

VARIABLES
    seen,       \* _seen
    sent        \* ghost: every nonce this client was handed, in order

trackerVars == <<seen, sent>>

TrackerInit == seen = <<>> /\ sent = <<>>

contains(s, nonce) == \E i \in DOMAIN s : s[i] = nonce

BugRemember(s, nonce) ==
    IF Len(s) + 1 > 2 * Window THEN <<>> ELSE Append(s, nonce)

\* Past two windows the oldest window is deleted.
remember(s, nonce) ==
    LET longer == Append(s, nonce)
    IN IF Len(longer) > 2 * Window
       THEN SubSeq(longer, Window + 1, Len(longer))
       ELSE longer

BugFreshNonce(nonce) ==
    /\ Len(sent) < MaxSent
    /\ seen' = remember(seen, nonce)
    /\ sent' = Append(sent, nonce)

\* One of the random nonces that are tried is not among the remembered ones.
fresh_nonce(nonce) ==
    /\ Len(sent) < MaxSent
    /\ ~contains(seen, nonce)
    /\ seen' = remember(seen, nonce)
    /\ sent' = Append(sent, nonce)

\* All of them are: the command fails rather than risk a replay.
no_fresh_nonce ==
    /\ \E nonce \in Nonces : contains(seen, nonce)
    /\ UNCHANGED trackerVars

\* The entry is set up again: another client, with a tracker of its own.
NewTracker ==
    /\ seen' = <<>>
    /\ sent' = <<>>

TrackerNext ==
    \/ \E nonce \in Nonces : fresh_nonce(nonce)
    \/ no_fresh_nonce
    \/ NewTracker

TrackerSpec == TrackerInit /\ [][TrackerNext]_trackerVars

-----------------------------------------------------------------------------
(* Properties.                                                               *)

\* The tracker holds nonces only.
TrackerTypeOK ==
    /\ seen \in Seq(Nonces)
    /\ sent \in Seq(Nonces)

\* What is remembered is the end of what was sent: never more than two windows
\* of it, and more than one whenever that much has been sent (remember).
TrackerIsRecentHistory ==
    /\ Len(seen) <= 2 * Window
    /\ Len(seen) <= Len(sent)
    /\ Len(sent) <= Window => Len(seen) = Len(sent)
    /\ Len(sent) > Window => Len(seen) > Window
    /\ \A i \in 1..Len(seen) : seen[i] = sent[Len(sent) - Len(seen) + i]

\* "reusing any nonce still inside that window would be rejected" (command.py):
\* no client sends a nonce that is among the window of nonces it sent before,
\* however long it lives.
NoReuseInWindow ==
    \A i, j \in 1..Len(sent) : i < j /\ j - i <= Window => sent[i] # sent[j]
=============================================================================
