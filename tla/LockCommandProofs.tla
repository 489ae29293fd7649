-------------------------- MODULE LockCommandProofs --------------------------
(***************************************************************************)
(* The tracker is enough for a window of any size, and a run of any        *)
(* length: TrackerIsRecentHistory is inductive, and a nonce that is not    *)
(* among the remembered ones is not among the last window and one sent.    *)
(* Service calls use the tracker only through its operations, so what is   *)
(* proved of it holds of every number of concurrent calls; a nonce that is *)
(* still to arrive is in a node's window only when two commands before it  *)
(* passed that node by; and the calls implement what ServiceCall promises  *)
(* of them.                                                                *)
(***************************************************************************)
EXTENDS LockCommand, TLAPS

-----------------------------------------------------------------------------
(* The tracker.                                                              *)

\* A fresh nonce differs from one more than a window of those before it.
NoReuseNearby ==
    \A i, j \in 1..Len(sent) : i < j /\ j - i <= Window + 1 => sent[i] # sent[j]

TrackerInv == TrackerTypeOK /\ TrackerIsRecentHistory /\ NoReuseNearby

\* remember appends, and past two windows drops the first one (remember).
LEMMA RememberShape ==
    ASSUME NEW s \in Seq(Nonces), NEW nonce \in Nonces, Len(s) <= 2 * Window
    PROVE  LET r == remember(s, nonce)
               n == IF Len(s) = 2 * Window THEN Window + 1 ELSE Len(s) + 1
           IN /\ r \in Seq(Nonces)
              /\ Len(r) = n
              /\ r[n] = nonce
              /\ \A i \in 1..(n - 1) : r[i] = s[Len(s) + 1 - n + i]
<1> USE WindowAssumption
<1> DEFINE longer == Append(s, nonce)
<1>1. longer \in Seq(Nonces) /\ Len(longer) = Len(s) + 1
  OBVIOUS
<1>2. longer[Len(s) + 1] = nonce /\ \A i \in 1..Len(s) : longer[i] = s[i]
  OBVIOUS
<1>3. CASE Len(s) = 2 * Window
  <2>1. remember(s, nonce) = SubSeq(longer, Window + 1, Len(longer))
    BY <1>1, <1>3 DEF remember
  <2> DEFINE r == SubSeq(longer, Window + 1, Len(longer))
  <2>2. Len(longer) = 2 * Window + 1
    BY <1>1, <1>3
  <2> HIDE DEF longer
  <2>3. r \in Seq(Nonces) /\ Len(r) = Window + 1
    BY <1>1, <2>2
  <2>4. \A i \in 1..(Window + 1) : r[i] = longer[Window + i]
    BY <1>1, <2>2
  <2> HIDE DEF r
  <2>5. r[Window + 1] = nonce
    <3>1. r[Window + 1] = longer[Window + (Window + 1)]
      BY <2>4
    <3>2. Window + (Window + 1) = Len(s) + 1
      BY <1>3
    <3> QED
      BY <3>1, <3>2, <1>2
  <2>6. \A i \in 1..Window : r[i] = s[Window + i]
    <3> SUFFICES ASSUME NEW i \in 1..Window PROVE r[i] = s[Window + i]
      OBVIOUS
    <3>1. i \in 1..(Window + 1) /\ Window + i \in 1..Len(s)
      BY <1>3
    <3> QED
      BY <3>1, <2>4, <1>2
  <2>7. Len(s) \in Nat /\ Len(s) + 1 - (Window + 1) = Window
    BY <1>3
  <2>8. r = remember(s, nonce)
    BY <2>1 DEF r
  <2>9. (IF Len(s) = 2 * Window THEN Window + 1 ELSE Len(s) + 1) = Window + 1
    BY <1>3
  <2>10. /\ (Window + 1) - 1 = Window
         /\ \A i \in 1..Window : Len(s) + 1 - (Window + 1) + i = Window + i
    BY <2>7
  <2>11. \A i \in 1..((Window + 1) - 1) : r[i] = s[Len(s) + 1 - (Window + 1) + i]
    BY <2>6, <2>10
  <2> QED
    BY <2>3, <2>5, <2>8, <2>9, <2>11
<1>4. CASE Len(s) # 2 * Window
  <2>1. remember(s, nonce) = longer
    BY <1>1, <1>4 DEF remember
  <2>2. \A i \in 1..Len(s) : Len(s) + 1 - (Len(s) + 1) + i = i
    OBVIOUS
  <2> HIDE DEF longer
  <2>3. \A i \in 1..(Len(s) + 1 - 1) : longer[i] = s[Len(s) + 1 - (Len(s) + 1) + i]
    BY <1>2, <2>2
  <2> DEFINE n == IF Len(s) = 2 * Window THEN Window + 1 ELSE Len(s) + 1
  <2>4. n = Len(s) + 1
    BY <1>4
  <2> HIDE DEF n
  <2>5. /\ Len(longer) = n /\ longer[n] = nonce
        /\ \A i \in 1..(n - 1) : longer[i] = s[Len(s) + 1 - n + i]
    BY <2>3, <2>4, <1>1, <1>2
  <2> QED
    BY <2>1, <2>5, <1>1 DEF n
<1> QED
  BY <1>3, <1>4

\* Handing out a fresh nonce keeps the invariant (fresh_nonce).
LEMMA FreshNonceKeepsInv ==
    ASSUME TrackerInv, NEW nonce \in Nonces, fresh_nonce(nonce)
    PROVE  TrackerInv'
<1> USE WindowAssumption
<1> DEFINE m == Len(seen)
           n == IF m = 2 * Window THEN Window + 1 ELSE m + 1
<1>1. /\ seen \in Seq(Nonces) /\ sent \in Seq(Nonces)
      /\ m \in Nat /\ Len(sent) \in Nat
  BY DEF TrackerInv, TrackerTypeOK
<1>2. /\ m <= 2 * Window
      /\ m <= Len(sent)
      /\ Len(sent) <= Window => m = Len(sent)
      /\ Len(sent) > Window => m > Window
      /\ \A i \in 1..m : seen[i] = sent[Len(sent) - m + i]
  BY DEF TrackerInv, TrackerIsRecentHistory
<1>3. /\ seen' \in Seq(Nonces) /\ Len(seen') = n /\ seen'[n] = nonce
      /\ \A i \in 1..(n - 1) : seen'[i] = seen[m + 1 - n + i]
  BY <1>1, <1>2, RememberShape DEF fresh_nonce
<1>4. /\ sent' \in Seq(Nonces) /\ Len(sent') = Len(sent) + 1
      /\ sent'[Len(sent) + 1] = nonce
      /\ \A i \in 1..Len(sent) : sent'[i] = sent[i]
  BY <1>1 DEF fresh_nonce
<1>5. n \in Nat /\ n >= 1 /\ n <= m + 1
  BY <1>1
<1>6. TrackerIsRecentHistory'
  <2>1. \A i \in 1..Len(seen') : seen'[i] = sent'[Len(sent') - Len(seen') + i]
    <3>0. SUFFICES ASSUME NEW i \in 1..n
                   PROVE  seen'[i] = sent'[Len(sent) + 1 - n + i]
      <4> HIDE DEF n
      <4> QED BY <1>3, <1>4
    <3>1. CASE i = n
      BY <3>1, <1>1, <1>3, <1>4, <1>5
    <3>2. CASE i # n
      <4>1. i \in 1..(n - 1) /\ m + 1 - n + i \in 1..m
        BY <3>2, <1>1, <1>5
      <4>2. seen'[i] = sent[Len(sent) - m + (m + 1 - n + i)]
        BY <4>1, <1>2, <1>3
      <4>3. Len(sent) - m + (m + 1 - n + i) = Len(sent) + 1 - n + i
        BY <1>1, <1>5, <4>1
      <4>4. Len(sent) + 1 - n + i \in 1..Len(sent)
        BY <1>1, <1>2, <1>5, <4>1
      <4> QED
        BY <4>2, <4>3, <4>4, <1>4
    <3> QED
      BY <3>1, <3>2
  <2>2. /\ n <= 2 * Window
        /\ n <= Len(sent) + 1
        /\ Len(sent) + 1 <= Window => n = Len(sent) + 1
        /\ Len(sent) + 1 > Window => n > Window
    BY <1>1, <1>2
  <2> HIDE DEF n
  <2> QED
    BY <2>1, <2>2, <1>3, <1>4 DEF TrackerIsRecentHistory
<1>7. NoReuseNearby'
  <2> SUFFICES ASSUME NEW i \in 1..(Len(sent) + 1), NEW j \in 1..(Len(sent) + 1),
                      i < j, j - i <= Window + 1
               PROVE  sent'[i] # sent'[j]
    BY <1>4 DEF NoReuseNearby
  <2>1. i \in 1..Len(sent)
    BY <1>1
  <2>2. CASE j = Len(sent) + 1
    <3> DEFINE k == i - (Len(sent) - m)
    <3>1. k \in 1..m
      BY <2>1, <2>2, <1>1, <1>2
    <3>2. Len(sent) - m + k = i
      BY <1>1, <2>1
    <3>3. seen[k] = sent[i]
      BY <3>1, <3>2, <1>2
    <3>4. seen[k] # nonce
      BY <3>1, <1>1 DEF fresh_nonce, contains
    <3> QED
      BY <3>3, <3>4, <2>1, <2>2, <1>4
  <2>3. CASE j # Len(sent) + 1
    <3>1. j \in 1..Len(sent)
      BY <2>3, <1>1
    <3> QED
      BY <2>1, <3>1, <1>4 DEF TrackerInv, NoReuseNearby
  <2> QED
    BY <2>2, <2>3
<1> QED
  BY <1>3, <1>4, <1>6, <1>7 DEF TrackerInv, TrackerTypeOK

\* The three parts of the invariant are kept together.
LEMMA TrackerStepKeepsInv ==
    ASSUME TrackerInv, [TrackerNext]_trackerVars
    PROVE  TrackerInv'
<1>1. CASE \E nonce \in Nonces : fresh_nonce(nonce)
  BY <1>1, FreshNonceKeepsInv
<1>2. CASE UNCHANGED trackerVars
  BY <1>2 DEF trackerVars, TrackerInv, TrackerTypeOK, TrackerIsRecentHistory,
     NoReuseNearby
<1>3. CASE NewTracker
  BY <1>3, WindowAssumption DEF NewTracker, TrackerInv, TrackerTypeOK,
     TrackerIsRecentHistory, NoReuseNearby
<1> QED
  BY <1>1, <1>2, <1>3 DEF TrackerNext, no_fresh_nonce

\* They hold at the start.
LEMMA TrackerStarts == TrackerInit => TrackerInv
BY WindowAssumption DEF TrackerInit, TrackerInv, TrackerTypeOK,
   TrackerIsRecentHistory, NoReuseNearby

\* So they hold of every run.
LEMMA TrackerInvariance == TrackerSpec => []TrackerInv
BY TrackerStarts, TrackerStepKeepsInv, PTL DEF TrackerSpec

\* The tracker's memory is the end of what was sent: at least a window of it
\* and at most two (NonceTracker.remember).
THEOREM TrackerRemembersAWindow == TrackerSpec => []TrackerIsRecentHistory
BY TrackerInvariance, PTL DEF TrackerInv

\* No client ever sends a nonce again within a window of commands, for every
\* window size and every supply of nonces (NonceTracker.fresh_nonce).
THEOREM NoncesAreFresh == TrackerSpec => []NoReuseInWindow
<1>1. TrackerInv => NoReuseInWindow
  BY WindowAssumption DEF TrackerInv, TrackerTypeOK, NoReuseNearby, NoReuseInWindow
<1> QED
  BY <1>1, TrackerInvariance, PTL

-----------------------------------------------------------------------------
(* The calls use the tracker.                                                *)

\* Every step of a call, of the node or of the network is a step of the tracker
\* or leaves it alone.
LEMMA CommandStepsAreTrackerSteps ==
    ASSUME [CommandNext]_vars
    PROVE  [TrackerNext]_trackerVars
<1>1. CASE \E c \in Calls : Send(c)
  <2>1. PICK c \in Calls : Send(c)
    BY <1>1
  <2>2. CASE Refuse(c)
    BY <2>2 DEF Refuse
  <2>3. ASSUME NEW n \in Nodes, NEW target \in Targets,
               async_send_lock_command(c, n, target)
        PROVE  TrackerNext
    <3>1. \E nonce \in Nonces : fresh_nonce(nonce)
      BY <2>3 DEF async_send_lock_command
    <3> QED
      BY <3>1 DEF TrackerNext
  <2> QED
    BY <2>1, <2>2, <2>3 DEF Send
<1>2. CASE \E c \in Calls : Published(c) \/ PublishFails(c) \/ async_wait_for_state(c)
  BY <1>2 DEF Published, PublishFails, async_wait_for_state
<1>3. CASE \E n \in Nodes : NodeTakes(n) \/ CommandLost(n) \/ Reported(n)
  BY <1>3 DEF NodeTakes, CommandLost, Reported
<1>4. CASE Reload
  BY <1>4 DEF Reload, TrackerNext
<1>5. CASE UNCHANGED vars
  BY <1>5 DEF vars
<1> QED
  BY <1>1, <1>2, <1>3, <1>4, <1>5 DEF CommandNext

\* The client with all its calls implements the tracker (mqtt.py
\* async_publish_lock_command is the only user of NonceTracker).
THEOREM CommandsImplementTracker == CommandSpec => TrackerSpec
<1>1. CommandInit => TrackerInit
  BY DEF CommandInit
<1>2. [CommandNext]_vars => [TrackerNext]_trackerVars
  BY CommandStepsAreTrackerSteps
<1> QED
  BY <1>1, <1>2, PTL DEF CommandSpec, TrackerSpec

\* "reusing any nonce still inside that window would be rejected" (command.py):
\* however many calls are in progress, for whichever nodes, no command carries a
\* nonce of the window of commands its client sent before it.
THEOREM CommandNoncesAreFresh == CommandSpec => []NoReuseInWindow
  BY CommandsImplementTracker, NoncesAreFresh, PTL

-----------------------------------------------------------------------------
(* The wires and the nodes.                                                  *)

\* Only the head of a wire can have been delivered before, and then the node
\* has its nonce in the window.
RepeatsAreKnown(w, win) ==
    \A i \in 1..Len(w) : w[i].again =>
        i = 1 /\ (credential = "right" => contains(win, w[1].nonce))

\* The commands on a wire are among the client's, in order, and those that have
\* not arrived before come after as many as the node accepted.
WireInOrder(w, acc, s) ==
    /\ acc \in Nat /\ acc <= Len(s)
    /\ \A i \in 1..Len(w) :
        /\ w[i].at \in 1..Len(s)
        /\ w[i].nonce = s[w[i].at]
        /\ ~w[i].again => acc < w[i].at
    /\ \A i, j \in 1..Len(w) : i < j => w[i].at < w[j].at

\* Counted from the newest, a nonce of the node's window was sent at least as
\* late as it was accepted, and before all that is still to arrive.
WindowIsRecent(win, w, acc, s) ==
    \A k \in 1..Len(win) : \E j \in 1..Len(s) :
        /\ win[k] = s[j]
        /\ j >= acc - (Len(win) - k)
        /\ \A i \in 1..Len(w) : ~w[i].again => j < w[i].at

NodeOK(n) ==
    /\ RepeatsAreKnown(wire[n], window[n])
    /\ reloads = 0 => /\ WireInOrder(wire[n], accepted[n], sent)
                      /\ WindowIsRecent(window[n], wire[n], accepted[n], sent)

\* What is said of the wires and the nodes, without the calls.
NodesInv ==
    /\ wire \in [Nodes -> Seq(Command)]
    /\ shown \in [Nodes -> LockStates \cup {None}]
    /\ window \in [Nodes -> Seq(Nonces)]
    /\ \A n \in Nodes : Len(window[n]) <= Window
    /\ accepted \in [Nodes -> Nat]
    /\ reloads \in Nat /\ earlier \in Nat
    /\ \A n \in Nodes : NodeOK(n)
    /\ RefusalNeedsTwoPassedBy

CallOK(call) == Pending(call) => call.target \in Targets /\ call.node \in Nodes

\* What the calls have in hand stays well typed.
CallsOK == calls \in [Calls -> Call] /\ \A c \in Calls : CallOK(calls[c])

CommandInv == TrackerInv /\ CallsOK /\ NodesInv

\* One command of a wire has arrived or is lost: it is gone, or it is the head
\* still and marked as delivered before.
Remains(w, w2) ==
    \E d \in {0, 1} :
        /\ Len(w2) = Len(w) - d
        /\ \A i \in 1..Len(w2) :
            /\ i + d \in 1..Len(w)
            /\ w2[i].at = w[i + d].at /\ w2[i].nonce = w[i + d].nonce
            /\ ~w2[i].again => ~w[i + d].again /\ i + d > 1
            /\ w2[i].again => i = 1 /\ d = 0

\* What is left after the head has gone.
LEMMA TailRemains ==
    ASSUME NEW w \in Seq(Command), NEW win, w # <<>>, RepeatsAreKnown(w, win)
    PROVE  Tail(w) \in Seq(Command) /\ Remains(w, Tail(w))
<1>1. /\ Tail(w) \in Seq(Command) /\ Len(w) \in Nat /\ Len(Tail(w)) = Len(w) - 1
      /\ \A i \in 1..Len(Tail(w)) : Tail(w)[i] = w[i + 1]
  OBVIOUS
<1> DEFINE rest == Tail(w)
<1> HIDE DEF rest
<1>2. ASSUME NEW i \in 1..Len(rest)
      PROVE  /\ i + 1 \in 1..Len(w) /\ i + 1 > 1
             /\ rest[i].at = w[i + 1].at /\ rest[i].nonce = w[i + 1].nonce
             /\ rest[i].again = w[i + 1].again /\ ~w[i + 1].again
  <2>1. i + 1 \in 1..Len(w) /\ i + 1 > 1 /\ rest[i] = w[i + 1]
    BY <1>1 DEF rest
  <2> QED
    BY <2>1 DEF RepeatsAreKnown
<1>3. Len(rest) = Len(w) - 1
  BY <1>1 DEF rest
<1>4. Remains(w, rest)
  BY <1>2, <1>3 DEF Remains
<1> QED
  BY <1>1, <1>4 DEF rest

\* What is left when the acknowledgement of the head is lost.
LEMMA RepeatRemains ==
    ASSUME NEW w \in Seq(Command), NEW win, w # <<>>, RepeatsAreKnown(w, win)
    PROVE  LET w2 == [w EXCEPT ![1].again = TRUE]
           IN  w2 \in Seq(Command) /\ Remains(w, w2)
<1> DEFINE head == [w[1] EXCEPT !.again = TRUE]
           w2 == [w EXCEPT ![1] = head]
<1>1. w[1] \in Command /\ Len(w) \in Nat /\ 1 \in 1..Len(w)
  OBVIOUS
<1>2. head \in Command /\ head.at = w[1].at /\ head.nonce = w[1].nonce /\ head.again
  BY <1>1 DEF Command
<1> HIDE DEF head
<1>3. /\ w2 \in Seq(Command) /\ Len(w2) = Len(w)
      /\ w2[1] = head /\ \A i \in 1..Len(w) : i # 1 => w2[i] = w[i]
  BY <1>1, <1>2
<1>4. w2 = [w EXCEPT ![1].again = TRUE]
  BY DEF head
<1> HIDE DEF w2
<1>5. ASSUME NEW i \in 1..Len(w2)
      PROVE  /\ i + 0 \in 1..Len(w) /\ i + 0 = i
             /\ w2[i].at = w[i].at /\ w2[i].nonce = w[i].nonce
             /\ ~w2[i].again => ~w[i].again /\ i > 1
             /\ w2[i].again => i = 1
  <2>1. i \in 1..Len(w)
    BY <1>3
  <2>2. CASE i = 1
    BY <1>2, <1>3, <2>1, <2>2
  <2>3. CASE i # 1
    <3>1. w2[i] = w[i] /\ ~w[i].again
      BY <1>3, <2>1, <2>3 DEF RepeatsAreKnown
    <3> QED
      BY <2>1, <2>3, <3>1
  <2> QED
    BY <2>2, <2>3
<1>6. Len(w2) = Len(w) - 0
  BY <1>1, <1>3
<1>7. Remains(w, w2)
  BY <1>5, <1>6 DEF Remains
<1> QED
  BY <1>3, <1>4, <1>7

\* The order on the wire outlives an arrival, and an acceptance when what
\* arrived had not arrived before.
LEMMA OrderRemains ==
    ASSUME NEW s \in Seq(Nonces), NEW w \in Seq(Command), NEW w2 \in Seq(Command),
           NEW acc \in Nat, w # <<>>, Remains(w, w2), WireInOrder(w, acc, s)
    PROVE  /\ WireInOrder(w2, acc, s)
           /\ ~w[1].again => WireInOrder(w2, acc + 1, s)
<1>1. PICK d \in {0, 1} :
        /\ Len(w2) = Len(w) - d
        /\ \A i \in 1..Len(w2) :
            /\ i + d \in 1..Len(w)
            /\ w2[i].at = w[i + d].at /\ w2[i].nonce = w[i + d].nonce
            /\ ~w2[i].again => ~w[i + d].again /\ i + d > 1
            /\ w2[i].again => i = 1 /\ d = 0
  BY DEF Remains
<1>2. Len(w) \in Nat /\ Len(w2) \in Nat /\ Len(s) \in Nat /\ 1 \in 1..Len(w)
  OBVIOUS
<1>3. ASSUME NEW i \in 1..Len(w2)
      PROVE  /\ w2[i].at \in 1..Len(s) /\ w2[i].nonce = s[w2[i].at]
             /\ ~w2[i].again => acc < w2[i].at /\ w[1].at < w2[i].at
  <2>1. /\ i + d \in 1..Len(w) /\ w2[i].at = w[i + d].at /\ w2[i].nonce = w[i + d].nonce
        /\ ~w2[i].again => ~w[i + d].again /\ 1 < i + d
    BY <1>1
  <2> QED
    BY <1>2, <2>1 DEF WireInOrder
<1>4. ASSUME NEW i \in 1..Len(w2), NEW j \in 1..Len(w2), i < j
      PROVE  w2[i].at < w2[j].at
  <2>1. /\ i + d \in 1..Len(w) /\ j + d \in 1..Len(w) /\ i + d < j + d
        /\ w2[i].at = w[i + d].at /\ w2[j].at = w[j + d].at
    BY <1>1, <1>4
  <2> QED
    BY <2>1 DEF WireInOrder
<1>5. WireInOrder(w2, acc, s)
  BY <1>3, <1>4 DEF WireInOrder
<1>6. ASSUME ~w[1].again PROVE WireInOrder(w2, acc + 1, s)
  <2>1. w[1].at \in 1..Len(s) /\ acc < w[1].at
    BY <1>2, <1>6 DEF WireInOrder
  <2>2. acc + 1 \in Nat /\ acc + 1 <= Len(s)
    BY <1>2, <2>1
  <2>3. \A i \in 1..Len(w2) : ~w2[i].again => acc + 1 < w2[i].at
    BY <1>2, <1>3, <2>1
  <2> QED
    BY <1>3, <1>4, <2>2, <2>3 DEF WireInOrder
<1> QED
  BY <1>5, <1>6

\* What the node's window becomes when it accepts a nonce.
LEMMA AcceptedShape ==
    ASSUME NEW w \in Seq(Nonces), NEW nonce \in Nonces, Len(w) <= Window
    PROVE  LET a == Accepted(w, nonce)
               n == IF Len(w) = Window THEN Window ELSE Len(w) + 1
           IN /\ a \in Seq(Nonces) /\ Len(a) = n /\ n <= Window
              /\ a[n] = nonce
              /\ \A k \in 1..(n - 1) : a[k] = w[Len(w) + 1 - n + k]
<1> USE WindowAssumption
<1> DEFINE longer == Append(w, nonce)
<1>1. /\ longer \in Seq(Nonces) /\ Len(longer) = Len(w) + 1 /\ Len(w) \in Nat
      /\ longer[Len(w) + 1] = nonce /\ \A i \in 1..Len(w) : longer[i] = w[i]
  OBVIOUS
<1> HIDE DEF longer
<1>2. CASE Len(w) = Window
  <2>1. Accepted(w, nonce) = Tail(longer)
    BY <1>1, <1>2 DEF Accepted, longer
  <2>2. /\ Tail(longer) \in Seq(Nonces) /\ Len(Tail(longer)) = Window
        /\ \A i \in 1..Window : Tail(longer)[i] = longer[i + 1]
    BY <1>1, <1>2
  <2>3. \A k \in 1..(Window - 1) : Tail(longer)[k] = w[Len(w) + 1 - Window + k]
    <3> SUFFICES ASSUME NEW k \in 1..(Window - 1)
                 PROVE  Tail(longer)[k] = w[Len(w) + 1 - Window + k]
      OBVIOUS
    <3>1. k \in 1..Window /\ k + 1 \in 1..Len(w) /\ Len(w) + 1 - Window + k = k + 1
      BY <1>2
    <3> QED
      BY <1>1, <2>2, <3>1
  <2> QED
    BY <1>1, <1>2, <2>1, <2>2, <2>3
<1>3. CASE Len(w) # Window
  <2>1. Accepted(w, nonce) = longer
    BY <1>1, <1>3 DEF Accepted, longer
  <2>2. \A k \in 1..((Len(w) + 1) - 1) : longer[k] = w[Len(w) + 1 - (Len(w) + 1) + k]
    <3> SUFFICES ASSUME NEW k \in 1..Len(w)
                 PROVE  longer[k] = w[Len(w) + 1 - (Len(w) + 1) + k]
      BY <1>1
    <3>1. Len(w) + 1 - (Len(w) + 1) + k = k
      BY <1>1
    <3> QED
      BY <1>1, <3>1
  <2>3. Len(w) + 1 <= Window
    BY <1>1, <1>3
  <2> QED
    BY <1>1, <1>3, <2>1, <2>2, <2>3
<1> QED
  BY <1>2, <1>3

\* The window stays as recent when something arrives that it does not accept.
LEMMA WindowRemains ==
    ASSUME NEW s \in Seq(Nonces), NEW w \in Seq(Command), NEW w2 \in Seq(Command),
           NEW win \in Seq(Nonces), NEW acc \in Nat, w # <<>>, Remains(w, w2),
           WindowIsRecent(win, w, acc, s)
    PROVE  WindowIsRecent(win, w2, acc, s)
<1>1. SUFFICES ASSUME NEW k \in 1..Len(win)
               PROVE  \E j \in 1..Len(s) :
                        /\ win[k] = s[j] /\ j >= acc - (Len(win) - k)
                        /\ \A i \in 1..Len(w2) : ~w2[i].again => j < w2[i].at
  BY DEF WindowIsRecent
<1>2. PICK j \in 1..Len(s) :
        /\ win[k] = s[j] /\ j >= acc - (Len(win) - k)
        /\ \A i \in 1..Len(w) : ~w[i].again => j < w[i].at
  BY DEF WindowIsRecent
<1>3. \A i \in 1..Len(w2) : ~w2[i].again => j < w2[i].at
  BY <1>2 DEF Remains
<1> QED
  BY <1>2, <1>3

\* The nonce of a command accepted on its first arrival is the newest there is.
LEMMA WindowAccepts ==
    ASSUME NEW s \in Seq(Nonces), NEW w \in Seq(Command), NEW w2 \in Seq(Command),
           NEW win \in Seq(Nonces), Len(win) <= Window, NEW acc \in Nat,
           w # <<>>, ~w[1].again, Remains(w, w2),
           WireInOrder(w, acc, s), WindowIsRecent(win, w, acc, s)
    PROVE  WindowIsRecent(Accepted(win, w[1].nonce), w2, acc + 1, s)
<1> DEFINE a == Accepted(win, w[1].nonce)
           n == IF Len(win) = Window THEN Window ELSE Len(win) + 1
<1>0. w[1] \in Command /\ 1 \in 1..Len(w)
  OBVIOUS
<1>1. w[1].nonce \in Nonces /\ 1 \in 1..Len(w) /\ Len(win) \in Nat /\ Len(s) \in Nat
  BY <1>0 DEF Command
<1>2. /\ a \in Seq(Nonces) /\ Len(a) = n /\ a[n] = w[1].nonce
      /\ \A k \in 1..(n - 1) : a[k] = win[Len(win) + 1 - n + k]
  BY <1>1, AcceptedShape
<1>3. n \in Nat /\ n >= 1 /\ n <= Len(win) + 1
  BY <1>1, WindowAssumption
<1>4. w[1].at \in 1..Len(s) /\ w[1].nonce = s[w[1].at] /\ acc < w[1].at
  BY <1>1 DEF WireInOrder
<1> HIDE DEF a, n
<1>5. \A i \in 1..Len(w2) : ~w2[i].again => w[1].at < w2[i].at
  BY <1>1 DEF Remains, WireInOrder
<1>6. \A k \in 1..Len(a) : \E j \in 1..Len(s) :
        /\ a[k] = s[j] /\ j >= acc + 1 - (Len(a) - k)
        /\ \A i \in 1..Len(w2) : ~w2[i].again => j < w2[i].at
  <2> SUFFICES ASSUME NEW k \in 1..Len(a)
               PROVE  \E j \in 1..Len(s) :
                        /\ a[k] = s[j] /\ j >= acc + 1 - (Len(a) - k)
                        /\ \A i \in 1..Len(w2) : ~w2[i].again => j < w2[i].at
    OBVIOUS
  <2>1. k \in 1..n /\ Len(a) = n
    BY <1>2
  <2>2. CASE k = n
    <3>1. n - k = 0 /\ w[1].at \in Nat /\ w[1].at >= acc + 1
      BY <1>1, <1>3, <1>4, <2>1, <2>2
    <3>2. w[1].at >= acc + 1 - (n - k)
      BY <3>1
    <3> QED
      BY <1>2, <1>4, <1>5, <2>1, <2>2, <3>2
  <2>3. CASE k # n
    <3> DEFINE m == Len(win) + 1 - n + k
    <3>1. k \in 1..(n - 1) /\ m \in 1..Len(win) /\ Len(win) - m = n - k - 1
      BY <1>1, <1>3, <2>1, <2>3
    <3>2. a[k] = win[m]
      BY <1>2, <3>1
    <3> HIDE DEF m
    <3>3. PICK j \in 1..Len(s) :
            /\ win[m] = s[j] /\ j >= acc - (Len(win) - m)
            /\ \A i \in 1..Len(w) : ~w[i].again => j < w[i].at
      BY <3>1 DEF WindowIsRecent
    <3>4. j >= acc + 1 - (n - k)
      BY <1>3, <2>1, <3>1, <3>3
    <3>5. \A i \in 1..Len(w2) : ~w2[i].again => j < w2[i].at
      BY <3>3 DEF Remains
    <3> QED
      BY <2>1, <3>2, <3>3, <3>4, <3>5
  <2> QED
    BY <2>2, <2>3
<1>7. WindowIsRecent(a, w2, acc + 1, s)
  BY <1>6 DEF WindowIsRecent
<1> QED
  BY <1>7 DEF a

\* A command refused for its nonce on its first arrival was passed by twice: had
\* the node accepted all but one of the commands before it, the nonce in its
\* window would be too close to it.
LEMMA RefusedHeadWasPassedBy ==
    ASSUME TrackerInv, NEW w \in Seq(Command), NEW win \in Seq(Nonces),
           Len(win) <= Window, NEW acc \in Nat, w # <<>>, ~w[1].again,
           WireInOrder(w, acc, sent), WindowIsRecent(win, w, acc, sent),
           contains(win, w[1].nonce)
    PROVE  w[1].at - 1 - acc > 1
<1>1. 1 \in 1..Len(w) /\ Len(win) \in Nat /\ Len(sent) \in Nat
  BY DEF TrackerInv, TrackerTypeOK
<1>2. w[1].at \in 1..Len(sent) /\ w[1].nonce = sent[w[1].at]
  BY <1>1 DEF WireInOrder
<1>3. PICK k \in 1..Len(win) : win[k] = sent[w[1].at]
  BY <1>1, <1>2 DEF contains
<1>4. PICK j \in 1..Len(sent) :
        /\ win[k] = sent[j] /\ j >= acc - (Len(win) - k)
        /\ \A i \in 1..Len(w) : ~w[i].again => j < w[i].at
  BY DEF WindowIsRecent
<1>5. j < w[1].at
  BY <1>1, <1>4
<1>6. SUFFICES ASSUME w[1].at <= acc + 2 PROVE FALSE
  BY <1>1, <1>2
<1>7. w[1].at - j <= Window + 1
  BY <1>1, <1>2, <1>4, <1>6, WindowAssumption
<1>8. sent[j] # sent[w[1].at]
  BY <1>2, <1>5, <1>7 DEF TrackerInv, NoReuseNearby
<1> QED
  BY <1>3, <1>4, <1>8

\* A node that accepts nothing of what arrives keeps its part of the invariant,
\* when it knows the nonce of a command that comes again.
LEMMA ArrivalKeepsNode ==
    ASSUME NodesInv, TrackerInv, NEW n \in Nodes, wire[n] # <<>>,
           NEW w2 \in Seq(Command), Remains(wire[n], w2),
           wire' = [wire EXCEPT ![n] = w2],
           UNCHANGED <<trackerVars, credential, reloads, window, accepted>>,
           Len(w2) = Len(wire[n]) /\ credential = "right"
               => contains(window[n], wire[n][1].nonce)
    PROVE  NodeOK(n)'
<1> DEFINE w == wire[n]
           win == window[n]
<1>1. /\ w \in Seq(Command) /\ Len(w) \in Nat /\ wire'[n] = w2
      /\ win \in Seq(Nonces) /\ window'[n] = win
      /\ accepted[n] \in Nat /\ sent \in Seq(Nonces)
  BY DEF NodesInv, TrackerInv, TrackerTypeOK
<1>2. RepeatsAreKnown(w2, win)
  BY <1>1 DEF Remains, RepeatsAreKnown
<1>3. reloads = 0 => /\ WireInOrder(w2, accepted[n], sent)
                     /\ WindowIsRecent(win, w2, accepted[n], sent)
  BY <1>1, OrderRemains, WindowRemains DEF NodesInv, NodeOK
<1> QED
  BY <1>1, <1>2, <1>3 DEF NodeOK, RepeatsAreKnown, trackerVars

\* A node that accepts what arrives keeps it too: that did not come again.
LEMMA AcceptanceKeepsNode ==
    ASSUME NodesInv, TrackerInv, NEW n \in Nodes, wire[n] # <<>>,
           NEW w2 \in Seq(Command), Remains(wire[n], w2),
           wire' = [wire EXCEPT ![n] = w2],
           credential = "right", ~contains(window[n], wire[n][1].nonce),
           Accept(n, wire[n][1]),
           UNCHANGED <<trackerVars, credential, reloads>>
    PROVE  /\ NodeOK(n)'
           /\ window' \in [Nodes -> Seq(Nonces)]
           /\ \A m \in Nodes : Len(window'[m]) <= Window
           /\ accepted' \in [Nodes -> Nat]
<1> DEFINE w == wire[n]
           win == window[n]
<1>1. /\ w \in Seq(Command) /\ Len(w) \in Nat /\ 1 \in 1..Len(w) /\ wire'[n] = w2
      /\ win \in Seq(Nonces) /\ Len(win) <= Window /\ Len(win) \in Nat
      /\ accepted[n] \in Nat /\ sent \in Seq(Nonces)
  BY DEF NodesInv, TrackerInv, TrackerTypeOK
<1>0. w[1] \in Command /\ w[1].nonce \in Nonces
  <2>1. w[1] \in Command
    BY <1>1
  <2> QED
    BY <2>1 DEF Command
<1>2. ~w[1].again
  BY <1>1 DEF NodesInv, NodeOK, RepeatsAreKnown
<1> DEFINE win2 == Accepted(win, w[1].nonce)
           k == IF Len(win) = Window THEN Window ELSE Len(win) + 1
<1>3. /\ win2 \in Seq(Nonces) /\ Len(win2) = k /\ k <= Window /\ win2[k] = w[1].nonce
  BY <1>0, <1>1, AcceptedShape
<1>4. k \in 1..Len(win2)
  BY <1>1, <1>3, WindowAssumption
<1>5. contains(win2, w[1].nonce)
  BY <1>3, <1>4 DEF contains
<1>6. window' = [window EXCEPT ![n] = win2] /\ accepted' = [accepted EXCEPT ![n] = @ + 1]
  BY DEF Accept
<1>7. reloads = 0 => /\ WireInOrder(w2, accepted[n] + 1, sent)
                     /\ WindowIsRecent(win2, w2, accepted[n] + 1, sent)
  BY <1>1, <1>2, OrderRemains, WindowAccepts DEF NodesInv, NodeOK
<1> HIDE DEF win2, k
<1>8. RepeatsAreKnown(w2, win2)
  BY <1>1, <1>5 DEF Remains, RepeatsAreKnown
<1>9. window'[n] = win2 /\ accepted'[n] = accepted[n] + 1
  BY <1>6 DEF NodesInv
<1>10. NodeOK(n)'
  BY <1>1, <1>7, <1>8, <1>9 DEF NodeOK, RepeatsAreKnown, trackerVars
<1> QED
  BY <1>1, <1>3, <1>6, <1>10 DEF NodesInv

\* A node of which nothing changes keeps its part.
LEMMA OtherNodesKeep ==
    ASSUME NEW n \in Nodes, NodeOK(n), wire'[n] = wire[n], window'[n] = window[n],
           accepted'[n] = accepted[n], UNCHANGED <<trackerVars, credential, reloads>>
    PROVE  NodeOK(n)'
BY DEF NodeOK, RepeatsAreKnown, trackerVars

\* A command arrives: accepted, refused, or under another key; acknowledged, or
\* to come again (NodeTakes).
LEMMA TakeStep ==
    ASSUME NodesInv, TrackerInv, NEW n \in Nodes, NodeTakes(n)
    PROVE  NodesInv'
<1> DEFINE w == wire[n]
           head == Head(w)
<1>1. /\ w \in Seq(Command) /\ w # <<>> /\ RepeatsAreKnown(w, window[n])
      /\ head = w[1] /\ w[1] \in Command
      /\ UNCHANGED <<trackerVars, credential, calls, shown, clientVars, lost>>
  BY DEF NodeTakes, NodesInv, NodeOK
<1>2. PICK w2 \in Seq(Command) :
        Remains(w, w2) /\ wire' = [wire EXCEPT ![n] = w2]
  <2>1. CASE wire' = [wire EXCEPT ![n] = Tail(@)]
    BY <1>1, <2>1, TailRemains
  <2>2. CASE wire' = [wire EXCEPT ![n][1].again = TRUE]
    <3> DEFINE w2 == [w EXCEPT ![1].again = TRUE]
    <3>1. w2 \in Seq(Command) /\ Remains(w, w2)
      BY <1>1, RepeatRemains
    <3>2. wire' = [wire EXCEPT ![n] = w2]
      BY <2>2
    <3> QED
      BY <3>1, <3>2
  <2> QED
    BY <2>1, <2>2 DEF NodeTakes, Acknowledge
<1>3. /\ wire' \in [Nodes -> Seq(Command)]
      /\ \A m \in Nodes : m # n => wire'[m] = wire[m]
  BY <1>2 DEF NodesInv
<1>4. ASSUME UNCHANGED <<window, accepted>>,
             credential = "right" => contains(window[n], w[1].nonce)
      PROVE  \A m \in Nodes : NodeOK(m)'
  <2>1. NodeOK(n)'
    BY <1>1, <1>2, <1>4, ArrivalKeepsNode DEF clientVars
  <2>2. ASSUME NEW m \in Nodes, m # n PROVE NodeOK(m)'
    BY <1>1, <1>3, <1>4, <2>2, OtherNodesKeep DEF NodesInv, clientVars
  <2> QED
    BY <2>1, <2>2
<1>5. CASE credential = "right" /\ ~contains(window[n], head.nonce) /\ Accept(n, head)
  <2>1. /\ NodeOK(n)'
        /\ window' \in [Nodes -> Seq(Nonces)]
        /\ \A m \in Nodes : Len(window'[m]) <= Window
        /\ accepted' \in [Nodes -> Nat]
    BY <1>1, <1>2, <1>5, AcceptanceKeepsNode DEF clientVars
  <2>2. ASSUME NEW m \in Nodes, m # n PROVE NodeOK(m)'
    <3>1. window'[m] = window[m] /\ accepted'[m] = accepted[m]
      BY <1>5, <2>2 DEF Accept, NodesInv
    <3> QED
      BY <1>1, <1>3, <2>2, <3>1, OtherNodesKeep DEF NodesInv, clientVars
  <2>3. RefusalNeedsTwoPassedBy'
    BY <1>5 DEF Accept, NodesInv, RefusalNeedsTwoPassedBy
  <2> QED
    BY <1>1, <1>3, <2>1, <2>2, <2>3 DEF NodesInv, clientVars
<1>6. CASE credential = "right" /\ contains(window[n], head.nonce) /\ RejectReplay(n, head)
  <2>1. UNCHANGED <<window, accepted>>
    BY <1>6 DEF RejectReplay
  <2>2. RefusalNeedsTwoPassedBy'
    <3>1. CASE head.again \/ reloads > 0
      BY <1>6, <3>1 DEF RejectReplay, NodesInv, RefusalNeedsTwoPassedBy
    <3>2. CASE ~(head.again \/ reloads > 0)
      <4>1. /\ WireInOrder(w, accepted[n], sent)
            /\ WindowIsRecent(window[n], w, accepted[n], sent)
        BY <3>2 DEF NodesInv, NodeOK
      <4>2. head.at - 1 - accepted[n] > 1
        BY <1>1, <1>6, <3>2, <4>1, RefusedHeadWasPassedBy DEF NodesInv
      <4>3. passedBy' = passedBy \cup {head.at - 1 - accepted[n]}
        BY <1>6, <3>2 DEF RejectReplay
      <4> QED
        BY <4>2, <4>3 DEF NodesInv, RefusalNeedsTwoPassedBy
    <3> QED
      BY <3>1, <3>2
  <2>3. \A m \in Nodes : NodeOK(m)'
    BY <1>1, <1>4, <1>6, <2>1
  <2> QED
    BY <1>1, <1>3, <2>1, <2>2, <2>3 DEF NodesInv, clientVars
<1>7. CASE credential # "right" /\ UNCHANGED <<window, accepted, passedBy>>
  <2>1. \A m \in Nodes : NodeOK(m)'
    BY <1>4, <1>7
  <2> QED
    BY <1>1, <1>3, <1>7, <2>1 DEF NodesInv, RefusalNeedsTwoPassedBy, clientVars
<1> QED
  BY <1>5, <1>6, <1>7 DEF NodeTakes

\* A command is lost: it will not arrive.
LEMMA LostStep ==
    ASSUME NodesInv, TrackerInv, NEW n \in Nodes, CommandLost(n)
    PROVE  NodesInv'
<1> DEFINE w == wire[n]
           w2 == Tail(w)
<1>1. /\ w \in Seq(Command) /\ w # <<>> /\ RepeatsAreKnown(w, window[n])
      /\ wire' = [wire EXCEPT ![n] = w2]
      /\ UNCHANGED <<trackerVars, credential, shown, clientVars, window, accepted, passedBy>>
  BY DEF CommandLost, NodesInv, NodeOK
<1>2. w2 \in Seq(Command) /\ Remains(w, w2)
  BY <1>1, TailRemains
<1>3. Len(w2) # Len(w)
  BY <1>1
<1> HIDE DEF w2
<1>4. NodeOK(n)'
  BY <1>1, <1>2, <1>3, ArrivalKeepsNode DEF clientVars
<1>5. /\ wire' \in [Nodes -> Seq(Command)]
      /\ \A m \in Nodes : m # n => wire'[m] = wire[m]
  BY <1>1, <1>2 DEF NodesInv
<1>6. ASSUME NEW m \in Nodes, m # n PROVE NodeOK(m)'
  BY <1>1, <1>5, <1>6, OtherNodesKeep DEF NodesInv, clientVars
<1> QED
  BY <1>1, <1>4, <1>5, <1>6 DEF NodesInv, RefusalNeedsTwoPassedBy, clientVars

\* A command goes to the end of its node's wire with the nonce just handed out,
\* after everything sent so far.
LEMMA SendStep ==
    ASSUME NodesInv, TrackerInv, NEW c \in Calls, NEW n \in Nodes,
           NEW target \in Targets, async_send_lock_command(c, n, target)
    PROVE  NodesInv'
<1>1. PICK nonce \in Nonces :
        /\ fresh_nonce(nonce)
        /\ wire' = [wire EXCEPT ![n] = Append(@, Signed(nonce))]
  BY DEF async_send_lock_command
<1> DEFINE command == Signed(nonce)
<1>2. /\ sent \in Seq(Nonces) /\ Len(sent) \in Nat
      /\ earlier + Len(sent) < MaxSent /\ earlier \in Nat /\ MaxSent \in Nat
      /\ UNCHANGED <<credential, shown, clientVars, nodeVars>>
  BY WindowAssumption DEF async_send_lock_command, TrackerInv, TrackerTypeOK, NodesInv
<1>3. /\ sent' \in Seq(Nonces) /\ Len(sent') = Len(sent) + 1
      /\ sent'[Len(sent) + 1] = nonce
      /\ \A i \in 1..Len(sent) : sent'[i] = sent[i]
  BY <1>1, <1>2 DEF fresh_nonce
<1>4. /\ command \in Command /\ command.at = Len(sent) + 1 /\ command.nonce = nonce
      /\ ~command.again
  <2>1. Len(sent) + 1 \in 1..MaxSent
    BY <1>2
  <2> QED
    BY <1>3, <2>1 DEF Signed, Command
<1> HIDE DEF command
<1>5. wire' = [wire EXCEPT ![n] = Append(wire[n], command)]
  BY <1>1 DEF command
<1>6. ASSUME NEW m \in Nodes
      PROVE  /\ wire[m] \in Seq(Command) /\ wire'[m] \in Seq(Command)
             /\ Len(wire[m]) \in Nat
             /\ Len(wire'[m]) \in {Len(wire[m]), Len(wire[m]) + 1}
             /\ \A i \in 1..Len(wire[m]) : wire'[m][i] = wire[m][i]
             /\ \A i \in 1..Len(wire'[m]) : i > Len(wire[m]) => wire'[m][i] = command
  <2>1. wire[m] \in Seq(Command)
    BY DEF NodesInv
  <2>2. CASE m = n
    <3>1. wire'[m] = Append(wire[m], command)
      BY <1>5, <2>2 DEF NodesInv
    <3> QED
      BY <1>4, <2>1, <3>1
  <2>3. CASE m # n
    <3>1. wire'[m] = wire[m]
      BY <1>5, <2>3 DEF NodesInv
    <3> QED
      BY <2>1, <3>1
  <2> QED
    BY <2>2, <2>3
<1>7. ASSUME NEW m \in Nodes PROVE NodeOK(m)'
  <2> DEFINE w == wire[m]
             w2 == wire'[m]
             win == window[m]
             acc == accepted[m]
  <2>1. /\ window'[m] = win /\ accepted'[m] = acc /\ acc \in Nat /\ reloads' = reloads
        /\ credential' = credential /\ RepeatsAreKnown(w, win)
        /\ Len(w) \in Nat /\ Len(w2) \in {Len(w), Len(w) + 1}
        /\ \A i \in 1..Len(w) : w2[i] = w[i]
        /\ \A i \in 1..Len(w2) : i > Len(w) => w2[i] = command
    BY <1>2, <1>6 DEF nodeVars, clientVars, NodesInv, NodeOK
  <2>2. RepeatsAreKnown(w2, win)
    <3>1. SUFFICES ASSUME NEW i \in 1..Len(w2), w2[i].again
                   PROVE  i = 1 /\ (credential = "right" => contains(win, w2[1].nonce))
      BY DEF RepeatsAreKnown
    <3>2. i \in 1..Len(w)
      BY <1>4, <2>1, <3>1
    <3>3. i = 1 /\ (credential = "right" => contains(win, w[1].nonce))
      BY <2>1, <3>1, <3>2 DEF RepeatsAreKnown
    <3> QED
      BY <2>1, <3>2, <3>3
  <2>3. ASSUME reloads = 0
        PROVE  WireInOrder(w2, acc, sent') /\ WindowIsRecent(win, w2, acc, sent')
    <3>1. WireInOrder(w, acc, sent) /\ WindowIsRecent(win, w, acc, sent)
      BY <2>3 DEF NodesInv, NodeOK
    <3>2. acc <= Len(sent)
      BY <3>1 DEF WireInOrder
    <3>3. ASSUME NEW i \in 1..Len(w2)
          PROVE  /\ w2[i].at \in 1..Len(sent') /\ w2[i].nonce = sent'[w2[i].at]
                 /\ ~w2[i].again => acc < w2[i].at
                 /\ i \in 1..Len(w) => w2[i].at <= Len(sent)
                 /\ i > Len(w) => w2[i].at = Len(sent) + 1
      <4>1. CASE i \in 1..Len(w)
        <5>1. /\ w2[i] = w[i] /\ w[i].at \in 1..Len(sent) /\ w[i].nonce = sent[w[i].at]
              /\ ~w[i].again => acc < w[i].at
          BY <2>1, <3>1, <4>1 DEF WireInOrder
        <5>2. w[i].at \in 1..Len(sent') /\ sent'[w[i].at] = sent[w[i].at]
          BY <1>2, <1>3, <5>1
        <5> HIDE DEF w, w2
        <5> QED
          BY <2>1, <4>1, <5>1, <5>2
      <4>2. CASE i > Len(w)
        <5>1. w2[i] = command
          BY <2>1, <4>2
        <5> QED
          BY <1>2, <1>3, <1>4, <2>1, <3>2, <4>2, <5>1
      <4> QED
        BY <2>1, <4>1, <4>2
    <3>4. ASSUME NEW i \in 1..Len(w2), NEW j \in 1..Len(w2), i < j
          PROVE  w2[i].at < w2[j].at
      <4>1. i \in 1..Len(w)
        BY <2>1, <3>4
      <4>2. CASE j \in 1..Len(w)
        BY <2>1, <3>1, <3>4, <4>1, <4>2 DEF WireInOrder
      <4>3. CASE j > Len(w)
        BY <1>2, <3>3, <4>1, <4>3
      <4> QED
        BY <2>1, <4>2, <4>3
    <3>5. WireInOrder(w2, acc, sent')
      <4>1. acc <= Len(sent')
        BY <1>2, <1>3, <2>1, <3>2
      <4> QED
        BY <2>1, <3>3, <3>4, <4>1 DEF WireInOrder
    <3>6. WindowIsRecent(win, w2, acc, sent')
      <4>1. SUFFICES ASSUME NEW k \in 1..Len(win)
                     PROVE  \E j \in 1..Len(sent') :
                              /\ win[k] = sent'[j] /\ j >= acc - (Len(win) - k)
                              /\ \A i \in 1..Len(w2) : ~w2[i].again => j < w2[i].at
        BY DEF WindowIsRecent
      <4>2. PICK j \in 1..Len(sent) :
              /\ win[k] = sent[j] /\ j >= acc - (Len(win) - k)
              /\ \A i \in 1..Len(w) : ~w[i].again => j < w[i].at
        BY <3>1 DEF WindowIsRecent
      <4>3. j \in 1..Len(sent') /\ sent'[j] = sent[j]
        BY <1>2, <1>3
      <4>4. ASSUME NEW i \in 1..Len(w2), ~w2[i].again PROVE j < w2[i].at
        <5>1. CASE i \in 1..Len(w)
          BY <2>1, <4>2, <4>4, <5>1
        <5>2. CASE i > Len(w)
          BY <1>2, <3>3, <5>2
        <5> QED
          BY <2>1, <5>1, <5>2
      <4> QED
        BY <4>2, <4>3, <4>4
    <3> QED
      BY <3>5, <3>6
  <2> QED
    BY <2>1, <2>2, <2>3 DEF NodeOK, RepeatsAreKnown
<1>8. wire' \in [Nodes -> Seq(Command)]
  <2>1. wire' = [m \in Nodes |-> wire'[m]]
    BY <1>5 DEF NodesInv
  <2> QED
    BY <1>6, <2>1
<1> QED
  BY <1>2, <1>7, <1>8 DEF NodesInv, RefusalNeedsTwoPassedBy, nodeVars, clientVars

\* The entry is set up again: what is sent from now on is another client's.
LEMMA ReloadStep ==
    ASSUME NodesInv, TrackerInv, Reload
    PROVE  NodesInv'
<1>1. /\ reloads' = reloads + 1 /\ reloads' \in Nat /\ reloads' # 0
      /\ earlier' = earlier + Len(sent) /\ earlier' \in Nat
      /\ shown' \in [Nodes -> LockStates \cup {None}]
      /\ UNCHANGED <<credential, wire, nodeVars>>
  BY DEF Reload, NodesInv, TrackerInv, TrackerTypeOK
<1>2. \A n \in Nodes : NodeOK(n)'
  BY <1>1 DEF NodesInv, NodeOK, RepeatsAreKnown, nodeVars
<1> QED
  BY <1>1, <1>2 DEF NodesInv, RefusalNeedsTwoPassedBy, nodeVars

-----------------------------------------------------------------------------
(* The calls.                                                                *)

\* A call that ends is well typed.
LEMMA EndKeepsCalls ==
    ASSUME CallsOK, NEW c \in Calls, NEW outcome \in Outcome, End(c, outcome)
    PROVE  CallsOK'
<1>1. Over(outcome) \in Call /\ CallOK(Over(outcome))
  BY CallAssumption DEF Over, Call, CallOK, Outcome, Pending
<1> QED
  BY <1>1 DEF CallsOK, End

\* A pending call is shown a state, or none yet.
LEMMA SeesAState ==
    ASSUME NEW call \in Call, CallOK(call), shown \in [Nodes -> LockStates \cup {None}]
    PROVE  ShownTo(call) \in LockStates \cup {None}
<1>1. CASE Pending(call)
  <2>1. call.node # None /\ call.node \in Nodes
    BY <1>1, CallAssumption DEF CallOK
  <2> QED
    BY <1>1, <2>1 DEF ShownTo, Sees, Call
<1>2. CASE ~Pending(call)
  BY <1>2 DEF ShownTo
<1> QED
  BY <1>1, <1>2

\* Setting the entry up again leaves a call what it was, but for its view.
LEMMA LeftShape ==
    ASSUME NEW call \in Call, CallOK(call), shown \in [Nodes -> LockStates \cup {None}]
    PROVE  /\ Left(call) \in Call /\ CallOK(Left(call))
           /\ Left(call).phase = call.phase /\ Left(call).target = call.target
<1>1. CASE Pending(call)
  <2>1. Sees(call) \in LockStates \cup {None}
    BY <1>1, SeesAState DEF ShownTo
  <2>2. Left(call) = [call EXCEPT !.view = Sees(call)]
    BY <1>1 DEF Left
  <2> QED
    BY <1>1, <2>1, <2>2 DEF Call, CallOK, Pending
<1>2. CASE ~Pending(call)
  BY <1>2 DEF Left
<1> QED
  BY <1>1, <1>2

\* Nothing but a call's own steps and a reload changes a call; each keeps the
\* types, and a call waits with a look left or ends (async_wait_for_state).
LEMMA CallSteps ==
    ASSUME CallsOK, NodesInv, [CommandNext]_vars
    PROVE  CallsOK'
<1>0. CASE UNCHANGED calls
  BY <1>0 DEF CallsOK
<1>1. ASSUME NEW c \in Calls, Send(c) PROVE CallsOK'
  <2>1. CASE Refuse(c)
    BY <2>1, EndKeepsCalls DEF Refuse, Outcome
  <2>2. ASSUME NEW n \in Nodes, NEW target \in Targets,
               async_send_lock_command(c, n, target)
        PROVE  CallsOK'
    <3> DEFINE call == [phase |-> "publishing", node |-> n, target |-> target,
                        view |-> "live", left |-> MaxChecks]
    <3>1. call \in Call /\ CallOK(call)
      BY CallAssumption DEF Call, CallOK
    <3>2. calls' = [calls EXCEPT ![c] = call]
      BY <2>2 DEF async_send_lock_command, Begin
    <3> HIDE DEF call
    <3> QED
      BY <3>1, <3>2 DEF CallsOK
  <2> QED
    BY <1>1, <2>1, <2>2 DEF Send
<1>2. ASSUME NEW c \in Calls, Published(c) PROVE CallsOK'
  <2> DEFINE call == [calls[c] EXCEPT !.phase = "waiting"]
  <2>1. calls[c] \in Call /\ CallOK(calls[c]) /\ calls[c].phase = "publishing"
    BY <1>2 DEF CallsOK, Published
  <2>2. call \in Call /\ CallOK(call)
    BY <2>1 DEF Call, CallOK, Pending
  <2>3. calls' = [calls EXCEPT ![c] = call]
    BY <1>2 DEF Published
  <2> HIDE DEF call
  <2> QED
    BY <2>2, <2>3 DEF CallsOK
<1>3. ASSUME NEW c \in Calls, PublishFails(c) PROVE CallsOK'
  BY <1>3, EndKeepsCalls DEF PublishFails, Outcome
<1>4. ASSUME NEW c \in Calls, async_wait_for_state(c) PROVE CallsOK'
  <2> DEFINE call == [calls[c] EXCEPT !.left = @ - 1]
  <2>1. calls[c] \in Call /\ CallOK(calls[c])
    BY DEF CallsOK
  <2>2. CASE Look(calls[c]) = "waiting"
    <3>1. calls[c].left # 0
      BY <2>2 DEF Look
    <3>2. calls[c].left \in 0..MaxChecks
      BY <2>1 DEF Call
    <3>3. calls[c].left - 1 \in 0..MaxChecks
      BY <3>1, <3>2, CallAssumption
    <3>4. call \in Call /\ CallOK(call)
      BY <2>1, <3>3 DEF Call, CallOK, Pending
    <3>5. calls' = [calls EXCEPT ![c] = call]
      BY <1>4, <2>2 DEF async_wait_for_state
    <3> HIDE DEF call
    <3> QED
      BY <3>4, <3>5 DEF CallsOK
  <2>3. CASE Look(calls[c]) # "waiting"
    <3>1. Look(calls[c]) \in Outcome
      BY <2>3 DEF Look, Outcome
    <3> QED
      BY <1>4, <2>3, <3>1, EndKeepsCalls DEF async_wait_for_state
  <2> QED
    BY <2>2, <2>3
<1>5. CASE Reload
  BY <1>5, LeftShape DEF Reload, CallsOK, NodesInv
<1> QED
  BY <1>0, <1>1, <1>2, <1>3, <1>4, <1>5
  DEF CommandNext, NodeTakes, CommandLost, Reported, vars

\* The invariant is inductive.
LEMMA CommandStepKeepsInv ==
    ASSUME CommandInv, [CommandNext]_vars
    PROVE  CommandInv'
<1>1. TrackerInv'
  BY CommandStepsAreTrackerSteps, TrackerStepKeepsInv DEF CommandInv
<1>2. CallsOK'
  BY CallSteps DEF CommandInv
<1>3. ASSUME UNCHANGED <<trackerVars, credential, wire, clientVars, nodeVars>>,
             shown' \in [Nodes -> LockStates \cup {None}]
      PROVE  NodesInv'
  <2>1. \A n \in Nodes : NodeOK(n)'
    BY <1>3, OtherNodesKeep DEF CommandInv, NodesInv, nodeVars, clientVars
  <2> QED
    BY <1>3, <2>1 DEF CommandInv, NodesInv, RefusalNeedsTwoPassedBy, nodeVars, clientVars
<1>4. NodesInv'
  <2>1. ASSUME NEW c \in Calls, Send(c) PROVE NodesInv'
    <3>1. CASE Refuse(c)
      BY <1>3, <3>1 DEF Refuse, CommandInv, NodesInv
    <3> QED
      BY <2>1, <3>1, SendStep DEF Send, CommandInv
  <2>2. ASSUME NEW c \in Calls,
               Published(c) \/ PublishFails(c) \/ async_wait_for_state(c)
        PROVE  NodesInv'
    BY <1>3, <2>2 DEF Published, PublishFails, async_wait_for_state, CommandInv, NodesInv
  <2>3. ASSUME NEW n \in Nodes, Reported(n) PROVE NodesInv'
    BY <1>3, <2>3 DEF Reported, CommandInv, NodesInv
  <2>4. CASE UNCHANGED vars
    BY <1>3, <2>4 DEF vars, CommandInv, NodesInv
  <2> QED
    BY <2>1, <2>2, <2>3, <2>4, TakeStep, LostStep, ReloadStep DEF CommandNext, CommandInv
<1> QED
  BY <1>1, <1>2, <1>4 DEF CommandInv

\* It holds of every run.
LEMMA CommandInvariance == CommandSpec => []CommandInv
<1>1. CommandInit => CommandInv
  <2> SUFFICES ASSUME CommandInit PROVE CommandInv
    OBVIOUS
  <2>1. TrackerInv /\ sent = <<>>
    BY TrackerStarts DEF CommandInit, TrackerInit
  <2>2. CallsOK
    <3>1. Over("idle") \in Call /\ CallOK(Over("idle"))
      BY CallAssumption DEF Over, Call, CallOK, Pending
    <3> QED
      BY <3>1 DEF CommandInit, CallsOK
  <2>3. NodesInv
    <3>1. ASSUME NEW n \in Nodes PROVE NodeOK(n)
      <4>1. wire[n] = <<>> /\ window[n] = <<>> /\ accepted[n] = 0
        BY DEF CommandInit
      <4> QED
        BY <2>1, <4>1 DEF NodeOK, RepeatsAreKnown, WireInOrder, WindowIsRecent
    <3>2. /\ \A n \in Nodes : window[n] = <<>> /\ Len(window[n]) <= Window
          /\ wire \in [Nodes -> Seq(Command)] /\ window \in [Nodes -> Seq(Nonces)]
      BY WindowAssumption DEF CommandInit
    <3> QED
      BY <3>1, <3>2 DEF CommandInit, NodesInv, RefusalNeedsTwoPassedBy
  <2> QED
    BY <2>1, <2>2, <2>3 DEF CommandInv
<1> QED
  BY <1>1, CommandStepKeepsInv, PTL DEF CommandSpec

\* Calls, wires, nodes and tracker stay well typed, for any number of calls and
\* nodes, any deadline and any window (lock.py, mqtt.py, command.py).
THEOREM CommandTypeCorrect == CommandSpec => []CommandTypeOK
<1>1. CommandInv => CommandTypeOK
  BY DEF CommandInv, TrackerInv, CallsOK, NodesInv, CommandTypeOK
<1> QED
  BY <1>1, CommandInvariance, PTL

\* For every window, any number of nodes behind one tracker and any number of
\* concurrent calls, whatever is lost or delivered twice: a command is refused
\* for its nonce on its first arrival only by a node that two commands of the
\* same client passed by (NonceTracker.remember, HomeKeyMqttClient._nonces).
THEOREM RefusedCommandsWerePassedBy == CommandSpec => []RefusalNeedsTwoPassedBy
<1>1. CommandInv => RefusalNeedsTwoPassedBy
  BY DEF CommandInv, NodesInv
<1> QED
  BY <1>1, CommandInvariance, PTL

-----------------------------------------------------------------------------
(* The calls as their callers see them.                                      *)

\* What a caller sees of a call that is well typed.
LEMMA AnswerShape ==
    ASSUME NEW call \in Call
    PROVE  /\ call.phase = "idle" => AnswerOf(call) = "none"
           /\ Pending(call) => AnswerOf(call) = "pending"
           /\ ~Pending(call) => AnswerOf(call) # "pending" /\ ShownTo(call) = None
           /\ call.phase \in Outcome => AnswerOf(call) = call.phase
BY DEF Call, Outcome, AnswerOf, Pending, ShownTo

\* What callers are shown changes only with the call, or with what is shown.
LEMMA ShownToOthers ==
    ASSUME CallsOK, NEW c \in Calls, NEW call, calls' = [calls EXCEPT ![c] = call],
           UNCHANGED shown
    PROVE  [d \in Calls |-> ShownTo(calls[d])]'
             = [[d \in Calls |-> ShownTo(calls[d])] EXCEPT ![c] = ShownTo(call)]
<1>2. ASSUME NEW d \in Calls, d # c PROVE calls'[d] = calls[d]
  BY <1>2 DEF CallsOK
<1>3. calls'[c] = call
  BY DEF CallsOK
<1> DEFINE now(d) == ShownTo(calls[d])
<1>4. ASSUME NEW d \in Calls
      PROVE  now(d)' = IF d = c THEN ShownTo(call) ELSE now(d)
  <2>1. CASE d = c
    BY <1>3, <2>1 DEF ShownTo, Sees, Pending
  <2>2. CASE d # c
    BY <1>2, <2>2 DEF ShownTo, Sees, Pending
  <2> QED
    BY <2>1, <2>2
<1>5. [d \in Calls |-> now(d)]'
        = [[d \in Calls |-> now(d)] EXCEPT ![c] = ShownTo(call)]
  <2> HIDE DEF now
  <2> QED
    BY <1>4
<1> QED
  BY <1>5

\* A call that ends, ends for its caller.
LEMMA EndIsServiceEnd ==
    ASSUME NEW c \in Calls, NEW outcome \in Outcome, CallsOK, End(c, outcome),
           UNCHANGED shown
    PROVE  Service!End(c, outcome)
<1> DEFINE call == Over(outcome)
<1>1. calls' = [calls EXCEPT ![c] = call] /\ calls \in [Calls -> Call]
  BY DEF End, CallsOK
<1>2. call \in Call /\ call.phase = outcome /\ call.target = None /\ ~Pending(call)
  BY CallAssumption DEF Call, Over, Pending, Outcome
<1>3. AnswerOf(call) = outcome /\ ShownTo(call) = None
  BY <1>2, AnswerShape
<1> HIDE DEF call
<1>4. [d \in Calls |-> ShownTo(calls[d])]'
        = [[d \in Calls |-> ShownTo(calls[d])] EXCEPT ![c] = None]
  BY <1>1, <1>3, ShownToOthers
<1> QED
  BY <1>1, <1>2, <1>3, <1>4 DEF Service!End

\* A call that only goes on looks the same to its caller.
LEMMA GoingOnIsNothing ==
    ASSUME CallsOK, NEW c \in Calls, NEW call \in Call,
           calls' = [calls EXCEPT ![c] = call], call.target = calls[c].target,
           call.node = calls[c].node, call.view = calls[c].view,
           Pending(call), Pending(calls[c]), UNCHANGED shown
    PROVE  UNCHANGED Service!serviceVars
<1>1. AnswerOf(call) = "pending" /\ AnswerOf(calls[c]) = "pending"
  BY AnswerShape DEF CallsOK
<1>2. ShownTo(call) = ShownTo(calls[c])
  BY DEF ShownTo, Sees
<1>4. [d \in Calls |-> ShownTo(calls[d])]'
        = [[d \in Calls |-> ShownTo(calls[d])] EXCEPT ![c] = ShownTo(call)]
  BY ShownToOthers
<1>3. [d \in Calls |-> ShownTo(calls[d])]' = [d \in Calls |-> ShownTo(calls[d])]
  BY <1>2, <1>4
<1> QED
  BY <1>1, <1>3 DEF Service!serviceVars, CallsOK

\* What is shown changes, and nothing else of a call that its caller sees.
LEMMA ShowingIsAChange ==
    ASSUME CallsOK', shown' \in [Nodes -> LockStates \cup {None}],
           \A c \in Calls : /\ calls'[c].target = calls[c].target
                            /\ AnswerOf(calls'[c]) = AnswerOf(calls[c])
    PROVE  Service!StateChanges
<1>1. ASSUME NEW c \in Calls
      PROVE  ShownTo(calls[c])' \in LockStates \cup {None}
  <2>1. calls'[c] \in Call /\ CallOK(calls'[c])
    BY DEF CallsOK, CallOK, Pending
  <2>2. CASE Pending(calls'[c])
    <3>1. calls'[c].node # None /\ calls'[c].node \in Nodes
      BY <2>1, <2>2, CallAssumption DEF CallOK
    <3> QED
      BY <2>1, <2>2, <3>1 DEF ShownTo, Sees, Call, Pending
  <2>3. CASE ~Pending(calls'[c])
    BY <2>3 DEF ShownTo, Pending
  <2> QED
    BY <2>2, <2>3
<1>2. ASSUME NEW c \in Calls PROVE AnswerOf(calls[c])' = AnswerOf(calls'[c])
  BY DEF AnswerOf, Pending
<1> QED
  BY <1>1, <1>2 DEF Service!StateChanges

\* Every step of the calls is a step of the service, or is not seen.
LEMMA CommandStepsAreServiceSteps ==
    ASSUME CommandInv, CommandInv', [CommandNext]_vars
    PROVE  [Service!ServiceNext]_(Service!serviceVars)
<1>0. CallsOK /\ CallsOK'
  BY DEF CommandInv
<1>s. shown \in [Nodes -> LockStates \cup {None}]
  BY DEF CommandInv, NodesInv
<1>1. ASSUME NEW c \in Calls, Refuse(c)
      PROVE  Service!ServiceNext
  BY <1>0, <1>1, EndIsServiceEnd
  DEF Refuse, Service!ServiceNext, Service!Refuse, Outcome
<1>2. ASSUME NEW c \in Calls, NEW n \in Nodes, NEW target \in Targets,
             ~Pending(calls[c]), async_send_lock_command(c, n, target)
      PROVE  Service!ServiceNext
  <2> DEFINE call == [phase |-> "publishing", node |-> n, target |-> target,
                      view |-> "live", left |-> MaxChecks]
  <2>1. calls' = [calls EXCEPT ![c] = call] /\ UNCHANGED shown
    BY <1>2 DEF async_send_lock_command, Begin
  <2>2. call \in Call /\ Pending(call) /\ CallOK(call) /\ call.target = target
    BY CallAssumption DEF Call, Pending, CallOK
  <2>3. AnswerOf(call) = "pending" /\ ShownTo(call) \in LockStates \cup {None}
    BY <1>s, <2>2, AnswerShape, SeesAState
  <2>4. AnswerOf(calls[c]) # "pending"
    BY <1>0, <1>2, AnswerShape DEF CallsOK
  <2> HIDE DEF call
  <2>6. [d \in Calls |-> ShownTo(calls[d])]'
          = [[d \in Calls |-> ShownTo(calls[d])] EXCEPT ![c] = ShownTo(call)]
    BY <1>0, <2>1, ShownToOthers
  <2>5. Service!Ask(c)
    BY <1>0, <2>1, <2>2, <2>3, <2>4, <2>6 DEF Service!Ask, CallsOK
  <2> QED
    BY <2>5 DEF Service!ServiceNext
<1>3. ASSUME NEW c \in Calls, Published(c)
      PROVE  UNCHANGED Service!serviceVars
  <2> DEFINE call == [calls[c] EXCEPT !.phase = "waiting"]
  <2>1. calls' = [calls EXCEPT ![c] = call] /\ calls[c].phase = "publishing"
        /\ UNCHANGED shown
    BY <1>3 DEF Published
  <2>2. /\ call \in Call /\ call.target = calls[c].target /\ call.node = calls[c].node
        /\ call.view = calls[c].view /\ Pending(call) /\ Pending(calls[c])
    BY <1>0, <2>1 DEF CallsOK, Call, Pending
  <2> HIDE DEF call
  <2> QED
    BY <1>0, <2>1, <2>2, GoingOnIsNothing
<1>4. ASSUME NEW c \in Calls, PublishFails(c)
      PROVE  Service!ServiceNext
  BY <1>0, <1>4, EndIsServiceEnd
  DEF PublishFails, Service!ServiceNext, Service!Refuse, Outcome
<1>5. ASSUME NEW c \in Calls, async_wait_for_state(c)
      PROVE  Service!ServiceNext \/ UNCHANGED Service!serviceVars
  <2>1. /\ Pending(calls[c]) /\ UNCHANGED shown /\ ShownTo(calls[c]) = Sees(calls[c])
        /\ AnswerOf(calls[c]) = "pending"
    BY <1>0, <1>5, AnswerShape DEF async_wait_for_state, CallsOK, Pending, ShownTo
  <2>2. CASE Sees(calls[c]) = calls[c].target
    <3>1. End(c, "ok")
      BY <1>5, <2>2 DEF async_wait_for_state, Look
    <3>2. Service!End(c, "ok")
      BY <1>0, <2>1, <3>1, EndIsServiceEnd DEF Outcome
    <3> QED
      BY <2>1, <2>2, <3>2 DEF Service!Succeed, Service!ServiceNext
  <2>3. CASE Sees(calls[c]) # calls[c].target /\ calls[c].left = 0
    <3>1. End(c, "unconfirmed")
      BY <1>5, <2>3 DEF async_wait_for_state, Look
    <3>2. Service!End(c, "unconfirmed")
      BY <1>0, <2>1, <3>1, EndIsServiceEnd DEF Outcome
    <3> QED
      BY <2>1, <2>3, <3>2 DEF Service!GiveUp, Service!ServiceNext
  <2>4. CASE Sees(calls[c]) # calls[c].target /\ calls[c].left # 0
    <3> DEFINE call == [calls[c] EXCEPT !.left = @ - 1]
    <3>1. Look(calls[c]) = "waiting"
      BY <2>4 DEF Look
    <3>2. calls' = [calls EXCEPT ![c] = call]
      BY <1>5, <3>1 DEF async_wait_for_state
    <3>3. /\ call.target = calls[c].target /\ call.node = calls[c].node
          /\ call.view = calls[c].view /\ call.phase = calls[c].phase
      BY <1>0 DEF CallsOK, Call
    <3>5. Pending(call)
      BY <2>1, <3>3 DEF Pending
    <3> HIDE DEF call
    <3>4. calls'[c] = call /\ calls'[c] \in Call
      BY <1>0, <3>2 DEF CallsOK
    <3> QED
      BY <1>0, <2>1, <3>2, <3>3, <3>4, <3>5, GoingOnIsNothing
  <2> QED
    BY <2>2, <2>3, <2>4
<1>6. ASSUME NEW n \in Nodes, Reported(n)
      PROVE  Service!ServiceNext
  <2>1. shown' \in [Nodes -> LockStates \cup {None}] /\ UNCHANGED calls
    BY <1>6 DEF Reported, CommandInv, NodesInv
  <2> QED
    BY <1>0, <2>1, ShowingIsAChange DEF Service!ServiceNext
<1>8. ASSUME Reload
      PROVE  Service!ServiceNext
  <2>1. shown' \in [Nodes -> LockStates \cup {None}]
    BY <1>8 DEF Reload
  <2>2. ASSUME NEW c \in Calls
        PROVE  /\ calls'[c].target = calls[c].target
               /\ AnswerOf(calls'[c]) = AnswerOf(calls[c])
    <3>1. calls'[c] = Left(calls[c]) /\ calls[c] \in Call /\ CallOK(calls[c])
      BY <1>0, <1>8 DEF Reload, CallsOK
    <3>2. /\ calls'[c].phase = calls[c].phase /\ calls'[c].target = calls[c].target
      BY <1>s, <3>1, LeftShape
    <3> QED
      BY <3>2 DEF AnswerOf, Pending
  <2> QED
    BY <1>0, <2>1, <2>2, ShowingIsAChange DEF Service!ServiceNext
<1>7. ASSUME UNCHANGED <<calls, shown>>
      PROVE  UNCHANGED Service!serviceVars
  BY <1>7 DEF Service!serviceVars, ShownTo, Sees
<1> QED
  BY <1>1, <1>2, <1>3, <1>4, <1>5, <1>6, <1>7, <1>8
  DEF CommandNext, Send, NodeTakes, CommandLost, vars

\* The calls implement what their callers are promised: a call is confirmed
\* only while the state it asked for is shown, and given up only while it is
\* not (lock.py _async_send, _async_wait_for_state).  The safety part of
\* CallsAreAnswered.
THEOREM CallsImplementService == CommandSpec => Service!ServiceSpec
<1>1. CommandInit => Service!ServiceInit
  <2> DEFINE call == Over("idle")
  <2>1. AnswerOf(call) = "none" /\ call.target = None /\ ShownTo(call) = None
    BY DEF Over, AnswerOf, Pending, ShownTo, Outcome
  <2>2. CommandInit => calls = [c \in Calls |-> call]
    BY DEF CommandInit
  <2> HIDE DEF call
  <2> QED
    BY <2>1, <2>2 DEF Service!ServiceInit
<1>2. CommandInv /\ CommandInv' /\ [CommandNext]_vars
      => [Service!ServiceNext]_(Service!serviceVars)
  BY CommandStepsAreServiceSteps
<1> QED
  BY <1>1, <1>2, CommandInvariance, PTL DEF CommandSpec, Service!ServiceSpec
=============================================================================
