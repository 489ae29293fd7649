------------------------ MODULE EntryLifecycleProofs ------------------------
(***************************************************************************)
(* One recurring poll, no credential to a stranger and no pooled state     *)
(* after an MQTT unload, for any number of coordinators, of changes of the *)
(* device and of failures.  The strengthening says what a setup has in     *)
(* hand at each of its steps, and which parts an MQTT entry never has.     *)
(***************************************************************************)
EXTENDS EntryLifecycle, TLAPS

\* A setup has its coordinator from the moment it has read the keys, and has
\* published it in hass.data before the platforms are set up.
SetupInHand ==
    /\ step \notin {"none", "keys"} => current \in Coordinators
    /\ step = "platforms" => runtime = current

\* An MQTT entry makes no connection of its own and is never polled; it has
\* pooled state only after a subscription, and until one is taken back.
MqttIsPushed ==
    transport = "mqtt" =>
        /\ step \notin {"certificate", "info", "state", "first_poll"}
        /\ timer = {}
        /\ \A c \in Coordinators : polls[c] = None
        /\ subs = {} => pool = None

\* A client is made to trust the pinned certificate and no other, although the
\* device may present another one when the client comes to use it.
ClientsArePinned ==
    /\ trusts \in [Coordinators -> {Pinned, None}]
    /\ probe \in {Pinned, None}

LifecycleInv ==
    /\ LifecycleTypeOK
    /\ ClientsArePinned
    /\ polls \in [Coordinators -> (0..MaxVersion) \cup {None}]
    /\ OneRecurringPoll
    /\ NoCredentialToStranger
    /\ SetupInHand
    /\ MqttIsPushed

\* A new entry has nothing yet.
LEMMA LifecycleStarts == LifecycleInit => LifecycleInv
BY LifecycleAssumption
DEF LifecycleInit, LifecycleInv, LifecycleTypeOK, EntryState, SetupStep,
    OneRecurringPoll, NoCredentialToStranger, SetupInHand, MqttIsPushed,
    ClientsArePinned

\* The steps of a setup, to whichever end.
LEMMA SetupKeepsInv ==
    ASSUME LifecycleInv, SetupNext \/ PlatformsFail
    PROVE  LifecycleInv'
<1> USE LifecycleAssumption
    DEF LifecycleInv, LifecycleTypeOK, EntryState, SetupStep, OneRecurringPoll,
        NoCredentialToStranger, SetupInHand, MqttIsPushed, ClientsArePinned, deviceVars,
        nodeVars, clientVars, liveVars, credVars
<1>1. CASE BeginSetup
  BY <1>1 DEF BeginSetup
<1>2. CASE KeysLoaded
  BY <1>2 DEF KeysLoaded, About
<1>3. CASE CertificateFetched
  <2>1. /\ step = "certificate" /\ transport # "mqtt"
        /\ UNCHANGED <<deviceVars, nodeVars, timer, subs, polls, knows, credVars, want,
                       failures, runtime>>
    BY <1>3 DEF CertificateFetched
  <2>2. CASE mode # "down" /\ cert = Pinned
    <3>1. /\ trusts' = [trusts EXCEPT ![current] = Pinned]
          /\ step' = "info" /\ UNCHANGED <<entry, current>>
      BY <1>3, <2>2 DEF CertificateFetched, fingerprints_match
    <3>2. trusts' \in [Coordinators -> {Pinned, None}]
      BY <3>1
    <3> QED
      BY <2>1, <3>1, <3>2
  <2>3. CASE ~(mode # "down" /\ cert = Pinned)
    BY <1>3, <2>1, <2>3 DEF CertificateFetched, Unreachable, EndSetup, fingerprints_match
  <2> QED
    BY <2>2, <2>3
<1>4. CASE InfoRead
  BY <1>4 DEF InfoRead, Request, TlsAccepts, Unreachable, EndSetup
<1>5. CASE StateRead
  BY <1>5 DEF StateRead, Request, TlsAccepts, Unreachable, EndSetup
<1>10. CASE FirstPollOver
  BY <1>10 DEF FirstPollOver
<1>6. CASE Subscribe
  BY <1>6 DEF Subscribe, EndSetup
<1>7. CASE WaitOver
  BY <1>7 DEF WaitOver
<1>8. CASE PlatformsReady
  BY <1>8 DEF PlatformsReady, EndSetup
<1>9. CASE PlatformsFail
  BY <1>9 DEF PlatformsFail, EndSetup
<1> QED
  BY <1>1, <1>2, <1>3, <1>4, <1>5, <1>6, <1>7, <1>8, <1>9, <1>10
  DEF SetupNext

\* Polls and messages, of the running entry and of those before it.
LEMMA TrafficKeepsInv ==
    ASSUME LifecycleInv, NEW c \in Coordinators, PollNext(c) \/ Message(c)
    PROVE  LifecycleInv'
<1> USE LifecycleAssumption
    DEF LifecycleInv, LifecycleTypeOK, EntryState, SetupStep, OneRecurringPoll,
        NoCredentialToStranger, SetupInHand, MqttIsPushed, ClientsArePinned, deviceVars,
        nodeVars, clientVars, liveVars, credVars
<1>1. CASE Tick(c)
  BY <1>1 DEF Tick
<1>2. CASE Answered(c)
  BY <1>2 DEF Answered, Request, TlsAccepts
<1>3. CASE Applied(c)
  BY <1>3 DEF Applied, Show, FreeObjects
<1>4. CASE PollFails(c)
  BY <1>4 DEF PollFails, Request, TlsAccepts, EndSetup
<1>5. CASE Message(c)
  BY <1>5 DEF Message, Show, FreeObjects
<1> QED
  BY <1>1, <1>2, <1>3, <1>4, <1>5 DEF PollNext

\* An unload takes the timer and the subscription of the runtime it ends.
LEMMA UnloadKeepsInv ==
    ASSUME LifecycleInv, UnloadNext \/ Restart
    PROVE  LifecycleInv'
<1> USE LifecycleAssumption
    DEF LifecycleInv, LifecycleTypeOK, EntryState, SetupStep, OneRecurringPoll,
        NoCredentialToStranger, SetupInHand, MqttIsPushed, ClientsArePinned, deviceVars,
        nodeVars, clientVars, liveVars, credVars
<1>1. CASE async_unload_entry
  BY <1>1 DEF async_unload_entry
<1>2. CASE PlatformsUnloaded
  BY <1>2 DEF PlatformsUnloaded
<1>3. CASE NothingToUnload
  BY <1>3 DEF NothingToUnload
<1>4. CASE Stopped
  BY <1>4 DEF Stopped
<1>5. CASE Restart
  BY <1>5 DEF Restart
<1> QED
  BY <1>1, <1>2, <1>3, <1>4, <1>5 DEF UnloadNext

\* The device, its network and the user.
LEMMA WorldKeepsInv ==
    ASSUME LifecycleInv, DeviceChanges \/ Upset \/ Ask \/ ReauthProbe \/ ReauthConfirm
    PROVE  LifecycleInv'
<1> USE LifecycleAssumption
    DEF LifecycleInv, LifecycleTypeOK, EntryState, SetupStep, OneRecurringPoll,
        NoCredentialToStranger, SetupInHand, MqttIsPushed, ClientsArePinned, deviceVars,
        nodeVars, clientVars, liveVars, credVars
<1>1. CASE DeviceChanges
  BY <1>1 DEF DeviceChanges
<1>2. CASE Upset
  BY <1>2 DEF Upset
<1>3. CASE Ask
  BY <1>3 DEF Ask
<1>4. CASE ReauthConfirm
  BY <1>4 DEF ReauthConfirm, Request, TlsAccepts
<1>5. CASE ReauthProbe
  BY <1>5 DEF ReauthProbe, fingerprints_match
<1> QED
  BY <1>1, <1>2, <1>3, <1>4, <1>5

\* The strengthened invariant holds of every run.
LEMMA LifecycleInvariance == LifecycleSpec => []LifecycleInv
<1>1. LifecycleInv /\ [LifecycleNext]_vars => LifecycleInv'
  <2> SUFFICES ASSUME LifecycleInv, [LifecycleNext]_vars
               PROVE  LifecycleInv'
    OBVIOUS
  <2>1. CASE UNCHANGED vars
    BY <2>1
    DEF vars, deviceVars, nodeVars, clientVars, liveVars, credVars, LifecycleInv,
        LifecycleTypeOK, OneRecurringPoll, NoCredentialToStranger, SetupInHand,
        MqttIsPushed, ClientsArePinned
  <2>2. CASE LifecycleNext
    BY <2>2, SetupKeepsInv, TrafficKeepsInv, UnloadKeepsInv, WorldKeepsInv
    DEF LifecycleNext
  <2> QED
    BY <2>1, <2>2
<1> QED
  BY <1>1, LifecycleStarts, PTL DEF LifecycleSpec

-----------------------------------------------------------------------------
\* The entry, its setup and its coordinators stay well typed, and a setup is in
\* progress exactly when Home Assistant believes so (__init__.py).
THEOREM LifecycleTypeCorrect == LifecycleSpec => []LifecycleTypeOK
BY LifecycleInvariance, PTL DEF LifecycleInv

\* However setups and unloads fail and overlap with polls of earlier setups,
\* only the loaded entry's own coordinator is polled (async_setup_entry starts
\* the timer after the platforms, async_unload_entry stops it before them).
THEOREM OnePollRecurs == LifecycleSpec => []OneRecurringPoll
BY LifecycleInvariance, PTL DEF LifecycleInv

\* No credential reaches a device that is not the pinned one: whichever device is
\* behind the address at any time, the certificate that a client's context trusts
\* is the one compared when the client was made, and every request, of a setup, a
\* poll of it or of an earlier one, or a reauthentication, is refused by any other
\* (async_connect_node, pinned_ssl_context).
THEOREM CredentialStaysHome == LifecycleSpec => []NoCredentialToStranger
BY LifecycleInvariance, PTL DEF LifecycleInv

\* An unloaded MQTT entry without a subscription left behind has no pooled state
\* (async_unload_entry, async_drop_pooled_state).
THEOREM MqttPoolIsDropped == LifecycleSpec => []UnsubscribedPoolIsGone
<1>1. LifecycleInv => UnsubscribedPoolIsGone
  BY DEF LifecycleInv, MqttIsPushed, UnsubscribedPoolIsGone
<1> QED
  BY <1>1, LifecycleInvariance, PTL

-----------------------------------------------------------------------------
(* What an unloaded entry leaves behind, and whose doing it is.              *)

\* Nothing still at work for an entry that is not running: no poll in flight but
\* the first one of a setup, and no subscription but the one a setup holds.
NoStrays ==
    entry # "loaded" =>
        /\ \A c \in Coordinators :
              polls[c] = None \/ (step = "first_poll" /\ c = current)
        /\ step \notin {"wait", "platforms"} => subs = {}

\* Without strays the pool is filled only by a running entry, or by a setup
\* that has its first reading and has not set up its platforms yet.
PoolHasAnOwner ==
    pool # None => \/ entry = "loaded"
                   \/ step \in {"wait", "platforms"}
                   \/ step = "first_poll" /\ polls[current] = None

\* One step keeps the pool's owner, unless platforms fail.
LEMMA PoolKeepsItsOwner ==
    LifecycleInv /\ NoStrays /\ PoolHasAnOwner /\ [LifecycleNext]_vars
        /\ [~PlatformsFail]_vars => PoolHasAnOwner'
<1> SUFFICES ASSUME LifecycleInv, NoStrays, PoolHasAnOwner, [LifecycleNext]_vars,
                    [~PlatformsFail]_vars
             PROVE  PoolHasAnOwner'
  OBVIOUS
<1> USE DEF PoolHasAnOwner, NoStrays, deviceVars, nodeVars, clientVars, liveVars, credVars
<1>0. /\ step # "none" <=> entry = "setup"
      /\ step = "first_poll" => current \in Coordinators
      /\ polls \in [Coordinators -> (0..MaxVersion) \cup {None}]
      /\ None \notin 0..MaxVersion
      /\ MaxVersion \in Nat
      /\ version \in 1..MaxVersion
  BY LifecycleAssumption DEF LifecycleInv, LifecycleTypeOK, SetupInHand
<1>1. CASE UNCHANGED vars
  BY <1>1 DEF vars
<1>2. CASE SetupNext
  <2>1. CASE StateRead
    BY <2>1, <1>0 DEF StateRead, Unreachable, EndSetup
  <2>2. CASE SetupNext /\ ~StateRead
    BY <2>2, <1>0
    DEF SetupNext, BeginSetup, KeysLoaded, CertificateFetched, InfoRead, FirstPollOver,
        Subscribe, WaitOver, PlatformsReady, Unreachable, EndSetup
  <2> QED
    BY <1>2, <2>1, <2>2
<1>3. CASE UnloadNext \/ Restart
  BY <1>3, <1>0
  DEF UnloadNext, async_unload_entry, PlatformsUnloaded, NothingToUnload, Stopped, Restart
<1>4. CASE DeviceChanges \/ Upset \/ Ask \/ ReauthProbe \/ ReauthConfirm
  BY <1>4 DEF DeviceChanges, Upset, Ask, ReauthProbe, ReauthConfirm
<1>5. ASSUME NEW c \in Coordinators, PollNext(c) \/ Message(c)
      PROVE  PoolHasAnOwner'
  <2>1. CASE Applied(c)
    <3>1. polls[c] # None /\ polls'[c] = None /\ UNCHANGED <<entry, step, current>>
      BY <2>1, <1>0 DEF Applied
    <3> QED
      BY <3>1
  <2>2. CASE Message(c)
    BY <2>2 DEF Message
  <2>3. CASE Tick(c)
    <3>1. entry = "loaded"
      BY <2>3 DEF Tick, LifecycleInv, OneRecurringPoll
    <3> QED
      BY <2>3, <3>1 DEF Tick
  <2>4. CASE Answered(c)
    <3>1. polls[c] # None /\ UNCHANGED <<entry, step, current, pool>>
      BY <2>4, <1>0 DEF Answered
    <3> QED
      BY <3>1
  <2>5. CASE PollFails(c)
    <3>1. /\ polls[c] # None
          /\ UNCHANGED pool
          /\ \/ UNCHANGED <<entry, step, current>>
             \/ step = "first_poll" /\ c = current
      BY <2>5, <1>0 DEF PollFails
    <3> QED
      BY <3>1, <1>0
  <2> QED
    BY <1>5, <2>1, <2>2, <2>3, <2>4, <2>5 DEF PollNext
<1>6. CASE PlatformsFail
  BY <1>6, <1>1
<1> QED
  BY <1>1, <1>2, <1>3, <1>4, <1>5, <1>6 DEF LifecycleNext

\* "Remove pooled state (called on final unload)" (coordinator.py) is true of
\* the code but for three things: a poll in flight at the unload, a subscription
\* that a failed setup has left, and platforms that fail after the first
\* reading, for then Home Assistant unloads the entry without
\* async_unload_entry.  Without them an entry that is not loaded has no pool.
THEOREM StraysApartThePoolIsDropped ==
    LifecycleSpec /\ []NoStrays /\ [][~PlatformsFail]_vars => []PoolDiesWithTheEntry
<1>1. LifecycleInit => PoolHasAnOwner
  BY DEF LifecycleInit, PoolHasAnOwner
<1>2. LifecycleInv /\ PoolHasAnOwner => PoolDiesWithTheEntry
  BY DEF LifecycleInv, LifecycleTypeOK, PoolHasAnOwner, PoolDiesWithTheEntry
<1>3. LifecycleInv /\ NoStrays /\ PoolHasAnOwner /\ [LifecycleNext]_vars
        /\ [~PlatformsFail]_vars => PoolHasAnOwner'
  BY PoolKeepsItsOwner
<1> QED
  BY <1>1, <1>2, <1>3, LifecycleInvariance, PTL DEF LifecycleSpec
=============================================================================
