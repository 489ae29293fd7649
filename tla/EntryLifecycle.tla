--------------------------- MODULE EntryLifecycle ---------------------------
(***************************************************************************)
(* One config entry from setup to unload (__init__.py), over either        *)
(* transport: what is connected, polled, subscribed and pooled when the    *)
(* steps of a setup fail, and when polls are still in flight at an unload. *)
(*                                                                         *)
(* Every setup makes a coordinator of its own.  A coordinator is reduced   *)
(* to its Node object and that to its age, the ordinal of the device state *)
(* it holds (Coordinator models the rest), and a poll to its reply         *)
(* (DirectPoller).  The object is shared with the pool, and so with the    *)
(* coordinator of the next setup.                                          *)
(***************************************************************************)
EXTENDS Naturals, FiniteSets

CONSTANTS
    Transports,         \* the kinds of entry: "direct", "mqtt"
    Coordinators,       \* coordinators that can be about together
    Objects,            \* Node objects that can be about together
    Modes,              \* what is behind the entry's address: see mode
    Certificates,
    Pinned,             \* the one whose fingerprint is in the entry's data
    MaxVersion,         \* bound on changes of the device's state
    MaxUpsets,          \* bound on changes of mode, certificate and password
    MaxFailures,        \* bound on platforms and subscriptions that fail
    None

ASSUME LifecycleAssumption ==
    /\ Transports \subseteq {"direct", "mqtt"}
    /\ Modes \subseteq {"up", "down", "rehomed", "garbage"}
    /\ "up" \in Modes
    /\ Pinned \in Certificates
    /\ None \notin Coordinators \cup Objects \cup Certificates \cup (0..MaxVersion)
    /\ MaxVersion \in Nat \ {0}
    /\ MaxUpsets \in Nat
    /\ MaxFailures \in Nat

VARIABLES
    \* The device and its network (external).
    mode,       \* "up", "down" (or answering an error), "rehomed" in another
                \* household, or answering "garbage"
    cert,       \* the certificate presented at its address
    version,    \* ordinal of the device's state
    password,   \* ordinal of its Web UI password
    upsets,
    \* Home Assistant's view of the entry (external).
    transport,  \* the kind the entry was created with
    entry,      \* ConfigEntryState
    want,       \* what the user, or a flow, has asked for
    failures,
    \* The integration.
    step,       \* where async_setup_entry is
    current,    \* the coordinator it is setting up
    runtime,    \* the coordinator in hass.data, None if there is none
    node,       \* coordinator -> the Node object in its registry, or None
    shows,      \* Node object -> the version it holds
    pool,       \* the pooled Node object, or None
    timer,      \* coordinators whose recurring poll is scheduled
    subs,       \* coordinators subscribed to the broker
    polls,      \* coordinator -> None, 0 when asked, or the version in the reply
    knows,      \* coordinator -> the password its client was made with
    trusts,     \* coordinator -> the certificate its client's context trusts, once made
    cred,       \* the password in the entry's data
    reauth,     \* a reauthentication flow is open
    probe,      \* the certificate its probe's client trusts, None without one
    reached     \* ghost: certificates of the devices credentials have reached, from
                \* the flow that created the entry on

deviceVars == <<mode, cert, version, password, upsets, transport>>
nodeVars == <<node, shows, pool>>
clientVars == <<knows, trusts>>
liveVars == <<nodeVars, timer, subs, polls, clientVars>>
credVars == <<cred, reauth, probe, reached>>
vars == <<deviceVars, liveVars, credVars, entry, want, failures, step, current, runtime>>

EntryState == {"not_loaded", "setup", "loaded", "setup_retry", "setup_error",
               "unloading", "failed_unload"}
SetupStep == {"none", "keys", "certificate", "info", "state", "first_poll",
              "subscribe", "wait", "platforms"}

LifecycleInit ==
    /\ mode = "up"
    /\ cert = Pinned
    /\ version = 1
    /\ password = 1
    /\ upsets = 0
    /\ transport \in Transports
    /\ entry = "not_loaded"
    /\ want = "setup"
    /\ failures = 0
    /\ step = "none"
    /\ current = None
    /\ runtime = None
    /\ node = [c \in Coordinators |-> None]
    /\ shows = [o \in Objects |-> 0]
    /\ pool = None
    /\ timer = {}
    /\ subs = {}
    /\ polls = [c \in Coordinators |-> None]
    /\ knows = [c \in Coordinators |-> 0]
    /\ trusts = [c \in Coordinators |-> None]
    /\ cred = 1
    /\ reauth = FALSE
    /\ probe = None
    /\ reached = {Pinned}

-----------------------------------------------------------------------------
(* The device and the user.                                                  *)

DeviceChanges ==
    /\ version < MaxVersion
    /\ version' = version + 1
    /\ UNCHANGED <<mode, cert, password, upsets, transport, liveVars, credVars, entry,
                   want, failures, step, current, runtime>>

Upset ==
    /\ upsets < MaxUpsets
    /\ upsets' = upsets + 1
    /\ \/ mode' \in Modes \ {mode} /\ UNCHANGED <<cert, password>>
       \/ cert' \in Certificates \ {cert} /\ UNCHANGED <<mode, password>>
       \/ password' = password + 1 /\ UNCHANGED <<mode, cert>>
    /\ UNCHANGED <<version, transport, liveVars, credVars, entry, want, failures, step,
                   current, runtime>>

\* The user enables, disables or reloads the entry, changes its options, or
\* restores its node, or the device announces an address the entry has not got.
Ask ==
    /\ want = "none"
    /\ entry \in {"not_loaded", "loaded", "setup_retry", "setup_error"}
    /\ want' \in {"setup", "stop"}
    /\ UNCHANGED <<deviceVars, liveVars, credVars, entry, failures, step, current, runtime>>

-----------------------------------------------------------------------------
(* Certificates and credentials.                                             *)

fingerprints_match(presented) == presented = Pinned

BugTlsAccepts(trusted) == TRUE

\* A request goes through only to a device that presents the one certificate the
\* client's context was made with ...
TlsAccepts(trusted) == cert = trusted

\* ... and then carries the credential, whatever is asked.
Request(trusted) ==
    reached' = IF mode # "down" /\ TlsAccepts(trusted) THEN reached \cup {cert}
               ELSE reached

\* The device answers a client's requests for its info and its state.
Answers(trusted, known) == mode = "up" /\ TlsAccepts(trusted) /\ known = password

\* async_step_reauth_confirm: the device's certificate is fetched and compared ...
ReauthProbe ==
    /\ reauth
    /\ probe = None
    /\ mode # "down"
    /\ fingerprints_match(cert)
    /\ probe' = cert
    /\ UNCHANGED <<deviceVars, liveVars, cred, reauth, reached, entry, want, failures,
                   step, current, runtime>>

\* ... and the password the user entered is stored, and the entry reloaded, once
\* the device has taken it; which household it is in by now is not looked at.
ReauthConfirm ==
    /\ probe # None
    /\ want = "none"
    /\ Request(probe)
    /\ probe' = None
    /\ \/ /\ mode \in {"up", "rehomed"} /\ TlsAccepts(probe)
          /\ cred' = password
          /\ reauth' = FALSE
          /\ want' = "setup"
       \/ UNCHANGED <<cred, reauth, want>>
    /\ UNCHANGED <<deviceVars, liveVars, entry, failures, step, current, runtime>>

-----------------------------------------------------------------------------
(* Setup.                                                                    *)

\* A coordinator that nothing uses any more makes room for another (what failed
\* platforms leave in hass.data is overwritten unread), as does its Node object
\* once neither the pool nor a coordinator that is about has it.
About ==
    {c \in Coordinators :
        \/ c = current \/ c \in timer \cup subs \/ polls[c] # None
        \/ c = runtime /\ entry \in {"loaded", "unloading"}}
FreeObjects == Objects \ ({pool} \cup {node[c] : c \in About})

\* Home Assistant begins a setup: the first one, a reload, or a retry.
BeginSetup ==
    /\ \/ entry = "not_loaded" /\ want = "setup"
       \/ entry = "setup_retry" /\ want = "none"
    /\ entry' = "setup"
    /\ want' = "none"
    /\ step' = "keys"
    /\ UNCHANGED <<deviceVars, liveVars, credVars, failures, current, runtime>>

\* The key file is read; the coordinator takes over what is pooled.
KeysLoaded ==
    /\ step = "keys"
    /\ \E c \in Coordinators \ About :
        /\ current' = c
        /\ node' = [node EXCEPT ![c] = pool]
        /\ knows' = [knows EXCEPT ![c] = cred]
    /\ step' = IF transport = "direct" THEN "certificate" ELSE "subscribe"
    /\ UNCHANGED <<deviceVars, shows, pool, timer, subs, polls, trusts, credVars, entry,
                   want, failures, runtime>>

BugEndSetup(state) == entry' = state /\ current' = None /\ UNCHANGED step

\* The setup stops here: an error is final until the user acts, an unreachable
\* device is tried again.
EndSetup(state) ==
    /\ entry' = state
    /\ step' = "none"
    /\ current' = None

BugUnreachable == EndSetup("setup_error")
Unreachable == EndSetup("setup_retry")

\* async_connect_node: the certificate is fetched and compared first, and the
\* client is made to trust it and nothing else; ...
CertificateFetched ==
    /\ step = "certificate"
    /\ IF mode # "down" /\ fingerprints_match(cert)
       THEN /\ trusts' = [trusts EXCEPT ![current] = cert]
            /\ step' = "info"
            /\ UNCHANGED <<entry, current>>
       ELSE /\ IF mode = "down" THEN Unreachable ELSE EndSetup("setup_error")
            /\ UNCHANGED trusts
    /\ UNCHANGED <<deviceVars, nodeVars, timer, subs, polls, knows, credVars, want,
                   failures, runtime>>

\* ... the device is asked for its protocol, which it tells without a password, ...
InfoRead ==
    /\ step = "info"
    /\ Request(trusts[current])
    /\ IF mode \in {"up", "rehomed"} /\ TlsAccepts(trusts[current])
       THEN step' = "state" /\ UNCHANGED <<entry, current>>
       ELSE IF mode = "down" THEN Unreachable ELSE EndSetup("setup_error")
    /\ UNCHANGED <<deviceVars, liveVars, cred, reauth, probe, want, failures, runtime>>

\* ... and for its state, which must be of the entry's household.  The first poll
\* begins.
StateRead ==
    /\ step = "state"
    /\ Request(trusts[current])
    /\ reauth' = \/ reauth
                 \/ /\ mode \in {"up", "rehomed"} /\ TlsAccepts(trusts[current])
                    /\ knows[current] # password
    /\ IF Answers(trusts[current], knows[current])
       THEN /\ step' = "first_poll"
            /\ polls' = [polls EXCEPT ![current] = 0]
            /\ UNCHANGED <<entry, current>>
       ELSE /\ IF mode = "down" THEN Unreachable ELSE EndSetup("setup_error")
            /\ UNCHANGED polls
    /\ UNCHANGED <<deviceVars, nodeVars, timer, subs, clientVars, cred, probe, want,
                   failures, runtime>>

\* async_poll_safely before the platforms: the reading is applied or the failure
\* counted (Applied and PollFails, below).
FirstPollOver ==
    /\ step = "first_poll"
    /\ polls[current] = None
    /\ runtime' = current
    /\ step' = "platforms"
    /\ UNCHANGED <<deviceVars, liveVars, credVars, entry, want, failures, current>>

\* HomeKeyMqttClient.async_start, when Home Assistant has a client to offer.
\* There may be a second topic, whose subscription can fail after the first was
\* made: nobody takes the first one back.
Subscribe ==
    /\ step = "subscribe"
    /\ \/ /\ mode # "down"
          /\ subs' = subs \cup {current}
          /\ step' = "wait"
          /\ UNCHANGED <<entry, current, failures>>
       \/ /\ mode # "down"
          /\ failures < MaxFailures
          /\ failures' = failures + 1
          /\ subs' = subs \cup {current}
          /\ EndSetup("setup_error")
       \/ /\ mode = "down"
          /\ EndSetup("setup_error")
          /\ UNCHANGED <<subs, failures>>
    /\ UNCHANGED <<deviceVars, nodeVars, timer, polls, clientVars, credVars, want, runtime>>

\* async_wait_for_initial_nodes: a node is known, or the time is up.
WaitOver ==
    /\ step = "wait"
    /\ runtime' = current
    /\ step' = "platforms"
    /\ UNCHANGED <<deviceVars, liveVars, credVars, entry, want, failures, current>>

\* The recurring poll is started after the platforms.
BugPlatformsFail ==
    /\ step = "platforms"
    /\ failures < MaxFailures
    /\ failures' = failures + 1
    /\ timer' = timer \cup {current}
    /\ EndSetup("setup_error")
    /\ UNCHANGED <<deviceVars, nodeVars, subs, polls, clientVars, credVars, want, runtime>>

PlatformsFail ==
    /\ step = "platforms"
    /\ failures < MaxFailures
    /\ failures' = failures + 1
    /\ EndSetup("setup_error")
    /\ UNCHANGED <<deviceVars, liveVars, credVars, want, runtime>>

BugPlatformsReady ==
    /\ step = "platforms"
    /\ EndSetup("loaded")
    /\ timer' = IF transport = "direct" /\ node[current] = None THEN timer \cup {current}
                ELSE timer
    /\ UNCHANGED <<deviceVars, nodeVars, subs, polls, clientVars, credVars, want,
                   failures, runtime>>

PlatformsReady ==
    /\ step = "platforms"
    /\ EndSetup("loaded")
    /\ timer' = IF transport = "direct" THEN timer \cup {current} ELSE timer
    /\ UNCHANGED <<deviceVars, nodeVars, subs, polls, clientVars, credVars, want,
                   failures, runtime>>

-----------------------------------------------------------------------------
(* Running.                                                                  *)

\* A coordinator changes its Node object in place, or makes it, and puts it into
\* the pool: whoever took it over from there shows the version, too.
Show(c, v) ==
    \E o \in IF node[c] = None THEN FreeObjects ELSE {node[c]} :
        /\ node' = [node EXCEPT ![c] = o]
        /\ shows' = [shows EXCEPT ![o] = v]
        /\ pool' = o

Tick(c) ==
    /\ c \in timer
    /\ polls[c] = None
    /\ polls' = [polls EXCEPT ![c] = 0]
    /\ UNCHANGED <<deviceVars, nodeVars, timer, subs, clientVars, credVars, entry, want,
                   failures, step, current, runtime>>

Answered(c) ==
    /\ polls[c] = 0
    /\ Answers(trusts[c], knows[c])
    /\ Request(trusts[c])
    /\ polls' = [polls EXCEPT ![c] = version]
    /\ UNCHANGED <<deviceVars, nodeVars, timer, subs, clientVars, cred, reauth, probe,
                   entry, want, failures, step, current, runtime>>

\* The reply is applied, whatever has become of the entry meanwhile.
Applied(c) ==
    /\ polls[c] \in 1..MaxVersion
    /\ Show(c, polls[c])
    /\ polls' = [polls EXCEPT ![c] = None]
    /\ UNCHANGED <<deviceVars, timer, subs, clientVars, credVars, entry, want, failures,
                   step, current, runtime>>

\* No answer, a refusal, or one that cannot be used: at most it is counted.  Only
\* a setup ends with an exception its first poll does not know.
PollFails(c) ==
    /\ polls[c] = 0
    /\ ~Answers(trusts[c], knows[c])
    /\ Request(trusts[c])
    /\ polls' = [polls EXCEPT ![c] = None]
    /\ IF /\ step = "first_poll" /\ c = current
          /\ mode = "garbage" /\ TlsAccepts(trusts[c])
       THEN EndSetup("setup_error")
       ELSE UNCHANGED <<entry, step, current>>
    /\ UNCHANGED <<deviceVars, nodeVars, timer, subs, clientVars, cred, reauth, probe,
                   want, failures, runtime>>

\* The broker delivers the device's state to every subscription.
Message(c) ==
    /\ c \in subs
    /\ mode = "up"
    /\ Show(c, version)
    /\ UNCHANGED <<deviceVars, timer, subs, polls, clientVars, credVars, entry, want,
                   failures, step, current, runtime>>

-----------------------------------------------------------------------------
(* Unload.                                                                   *)

BugUnload ==
    /\ entry = "loaded"
    /\ want # "none"
    /\ entry' = "unloading"
    /\ timer' = timer \ {runtime}
    /\ subs' = subs \ {runtime}
    /\ UNCHANGED <<deviceVars, nodeVars, polls, clientVars, credVars, want, failures,
                   step, current, runtime>>

\* async_unload_entry up to the platforms: the pool is dropped and the
\* transport stopped; a poll in flight goes on.
async_unload_entry ==
    /\ entry = "loaded"
    /\ want # "none"
    /\ entry' = "unloading"
    /\ pool' = None
    /\ timer' = timer \ {runtime}
    /\ subs' = subs \ {runtime}
    /\ UNCHANGED <<deviceVars, node, shows, polls, clientVars, credVars, want, failures,
                   step, current, runtime>>

\* The platforms are unloaded, or one refuses; the runtime goes either way.
PlatformsUnloaded ==
    /\ entry = "unloading"
    /\ \/ entry' = "not_loaded" /\ UNCHANGED <<want, failures>>
       \/ /\ failures < MaxFailures
          /\ failures' = failures + 1
          /\ entry' = "failed_unload"
          /\ want' = "none"
    /\ runtime' = None
    /\ UNCHANGED <<deviceVars, liveVars, credVars, step, current>>

\* Home Assistant unloads an entry that never finished its setup by itself.
NothingToUnload ==
    /\ entry \in {"setup_retry", "setup_error"}
    /\ want # "none"
    /\ entry' = "not_loaded"
    /\ UNCHANGED <<deviceVars, liveVars, credVars, want, failures, step, current, runtime>>

Stopped ==
    /\ entry = "not_loaded"
    /\ want = "stop"
    /\ want' = "none"
    /\ UNCHANGED <<deviceVars, liveVars, credVars, entry, failures, step, current, runtime>>

\* After a platform has refused to unload only a restart helps.
Restart ==
    /\ entry = "failed_unload"
    /\ entry' = "not_loaded"
    /\ want' = "setup"
    /\ node' = [c \in Coordinators |-> None]
    /\ shows' = [o \in Objects |-> 0]
    /\ pool' = None
    /\ timer' = {}
    /\ subs' = {}
    /\ polls' = [c \in Coordinators |-> None]
    /\ knows' = [c \in Coordinators |-> 0]
    /\ trusts' = [c \in Coordinators |-> None]
    /\ reauth' = FALSE
    /\ probe' = None
    /\ UNCHANGED <<deviceVars, cred, reached, failures, step, current, runtime>>

SetupNext ==
    \/ BeginSetup \/ KeysLoaded \/ CertificateFetched \/ InfoRead \/ StateRead
    \/ FirstPollOver \/ Subscribe \/ WaitOver \/ PlatformsReady

UnloadNext == async_unload_entry \/ PlatformsUnloaded \/ NothingToUnload \/ Stopped

PollNext(c) == Tick(c) \/ Answered(c) \/ Applied(c) \/ PollFails(c)

LifecycleNext ==
    \/ DeviceChanges \/ Upset \/ Ask \/ ReauthProbe \/ ReauthConfirm
    \/ SetupNext \/ PlatformsFail \/ UnloadNext \/ Restart
    \/ \E c \in Coordinators : PollNext(c) \/ Message(c)

LifecycleSpec == LifecycleInit /\ [][LifecycleNext]_vars

\* Home Assistant runs the steps of a setup and of an unload to their end and
\* retries with backoff; a scheduled poll ticks and every request ends.
LifecycleLiveSpec ==
    /\ LifecycleSpec
    /\ WF_vars(SetupNext)
    /\ WF_vars(UnloadNext)
    /\ \A c \in Coordinators : WF_vars(PollNext(c))

-----------------------------------------------------------------------------
(* Properties.                                                               *)

\* The entry's state is well typed (__init__.py).
LifecycleTypeOK ==
    /\ mode \in Modes
    /\ cert \in Certificates
    /\ version \in 1..MaxVersion
    /\ entry \in EntryState
    /\ want \in {"none", "setup", "stop"}
    /\ step \in SetupStep
    /\ step # "none" <=> entry = "setup"
    /\ current \in Coordinators \cup {None}
    /\ runtime \in Coordinators \cup {None}
    /\ node \in [Coordinators -> Objects \cup {None}]
    /\ shows \in [Objects -> 0..MaxVersion]
    /\ pool \in Objects \cup {None}
    /\ timer \subseteq Coordinators
    /\ subs \subseteq Coordinators

\* "the recurring poll is not left running if platform setup fails"
\* (__init__.py): whichever step of a setup or unload fails, only the loaded
\* entry's own coordinator is being polled.
OneRecurringPoll ==
    timer # {} => entry = "loaded" /\ timer = {runtime}

\* "a swapped or factory-reset device is refused at startup instead of after
\* the first credential has been sent" (__init__.py): whenever the device is
\* swapped for another, between the look at its certificate and the requests that
\* follow it, or under a client, old or new, that polls it or tries a new
\* password, credentials only ever reach the device that was pinned
\* (async_connect_node, pinned_ssl_context).
NoCredentialToStranger == reached \subseteq {Pinned}

\* An MQTT entry that is unloaded leaves nothing for its next setup to show as
\* news, whenever messages arrive; the exception is a subscription that a failed
\* platform has left behind (async_unload_entry, async_drop_pooled_state).
UnsubscribedPoolIsGone ==
    transport = "mqtt" /\ entry = "not_loaded" /\ subs = {} => pool = None

\* "Reachability is transient by nature, so this one is retried with backoff"
\* (_async_start_direct): a device that is at worst away does not keep its entry
\* down.  Once it is back for good with the password the entry knows, the entry
\* is loaded again and again, unless it was switched off.
EventuallyLoaded ==
    /\ transport = "direct"
    /\ [](mode \in {"up", "down"} /\ cert = Pinned /\ failures = 0)
    /\ <>[](mode = "up" /\ cred = password)
    => []<>(entry = "loaded" \/ (entry = "not_loaded" /\ want = "none"))

\* A running entry comes to show its device as it is, although it may have
\* started from a pool that a poll of an earlier setup filled again after the
\* unload, may share its Node object with that poll, and its own first poll may
\* have failed (async_unload_entry does not end a poll in flight;
\* _async_start_direct).
LoadedIsCurrent ==
    /\ transport = "direct"
    /\ <>[](entry = "loaded" /\ Answers(Pinned, knows[runtime]))
    => <>[](runtime # None /\ node[runtime] # None /\ shows[node[runtime]] = version)

-----------------------------------------------------------------------------
(* What the repository says and the code does not do: these are false of the *)
(* specification (see README.md).                                            *)

\* "Remove pooled state (called on final unload)" (coordinator.py): an entry
\* that has been unloaded leaves nothing for its next setup to show as news.
PoolDiesWithTheEntry ==
    entry = "not_loaded" => pool = None

\* "If it is ever rejected, Home Assistant starts a reauthentication flow
\* instead of failing silently" (README.md): a running entry whose password
\* the device no longer takes comes to ask for a new one.
RejectionStartsReauth ==
    (entry = "loaded" /\ mode = "up" /\ cert = Pinned /\ cred # password)
        ~> (reauth \/ entry # "loaded" \/ mode # "up" \/ cert # Pinned
              \/ cred = password)
=============================================================================
