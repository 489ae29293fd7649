# A TLA+ verification of the HomeKey household integration

The program is a Home Assistant integration, `custom_components/homekey_household`.
It shows the locks of a household of ESP32 HomeKey nodes, sends them commands and
keeps their backups. It reaches the nodes over MQTT (one config entry for a
household) or directly over pinned TLS (one entry for a node). All of it runs on
one asyncio event loop: two pieces of code interleave only at an `await`, and every
`await` is a place where a poll, a message, a service call, a reload or a restart
can come in between. The modules put their steps exactly there.

File names below are relative to `src/custom_components/homekey_household/` unless
they start with `src/`.

## 1. Inventory

| Component | State it keeps | Operations | What makes it correct |
|---|---|---|---|
| Coordinator (`coordinator.py`, `models.py`, `discovery.py`) | node registry, reload pool, set of nodes that have entities, pending contexts | `async_handle_message` → `_dispatch`, one branch for each subtopic; `_attribute_lock_change`, `_attribute_lock_event` | a rejected payload changes nothing; the pool is current; the log names the right cause and person, once |
| MQTT ingestion (`mqtt.py`) | subscriptions, nonce tracker | subscribe, `_on_message`, publish | what is shown follows the door under retained, repeated and lost messages |
| Direct transport (`direct.py`) | failure count, node id, timer | `async_poll_once`, `async_poll_safely`, `async_connect_node`, `state_to_messages` | offline after three failures in a row and only then; back when the node is; credentials only to the pinned device |
| Nonces and commands (`command.py`, `lock.py`) | recent nonces of a client, which all nodes of the household share | `fresh_nonce`, `build_command`, `_async_send`, `_async_wait_for_state` | no nonce again within the replay window; every call ends; success means the node said so |
| Backups (`backup.py`, `button.py`) | stored copies and their file | scheduled run, service, button, restore, `_prune` | no node has more copies than the window, none loses another's, a stored copy survives a restart, a restore takes no node out of its household |
| Entry lifecycle (`__init__.py`) | runtime of an entry, pool, timers | `async_setup_entry`, `async_unload_entry`, reload, reauthentication | one recurring poll; no state after unload; credentials only to the pinned device; an entry comes up once the device is there |
| Config and options flows (`config_flow.py`) | flows in progress, entries | zeroconf, direct, household, options | one entry for a household; existing entries stay |
| MQTT setup ways (`config_flow.py` 227–720) | the form shown, the reasons remembered, rounds | guide, broker form, add-on, each ending in a check for a client | a user who tries again gets on; a shown reason is that of this attempt |
| Command key store (`credential.py`) | one file, a cache per instance | load, set, save | storing one household's key keeps the others'; a rotated key is used |
| Guest access (`guest.py`, `switch.py`, `number.py`, `button.py`) | guest status of a node | teach, revoke, cancel, enable, each a request and a poll | what is shown comes to be what the node says; its failures touch nothing else |
| Payload validation (`models.py`) | none | `from_payload` and the validators | what is accepted is within its documented range |
| Entities, diagnostics (`sensor.py`, `binary_sensor.py`, `entity.py`, `diagnostics.py`) | none of their own | read the registry | projections of coordinator state |

How they interact. Both transports turn what they hear into `HomeKeyMessage`s for
`async_handle_message`: the MQTT client from the broker's topics, the poller from
the documents it read. The coordinator updates the registry, copies it to the pool
in `hass.data`, and notifies the entities, which add themselves for new nodes. A
lock entity calls the coordinator, which signs and publishes a command or posts it
to the node, and then watches the registry for the answer. Backups and restores
borrow the poller's client, and so do guest commands, which end in a poll of their
own. The flows create the entries, write the key file that
`async_setup_entry` reads, and a change of options reloads the entry.

What is hard here: retained messages come again in any order with live ones;
memory is lost at a restart while the broker's messages and Home Assistant's log
are not; polls overlap each other, commands and an unload; backup jobs overlap; a
timeout races a late answer; exceptions that no handler expects leave work half
done; and two objects each hold a copy of one file. `PROJECT.json` lists these
hazards at their lines with the properties that are about them.

## 2. Modules

| Module | Models | Extends |
|---|---|---|
| `Coordinator` | `coordinator.py` 111–576, the records of `models.py`, `discovery.py` | – |
| `MqttHousehold` | doors, nodes, broker and Home Assistant restarts around it | `Coordinator` |
| `DirectPoller` | the poller and the device around it | `Coordinator` |
| `NonceTracker` | `NonceTracker` of `command.py` | – |
| `ServiceCall` | what a caller of lock or unlock is promised | – |
| `LockCommand` | a service call from `lock.py` to the node and back; implements `ServiceCall` | `NonceTracker` |
| `RollingCopies` | what a store of the newest copies is | – |
| `BackupStore` | `backup.py` and the entries it runs over; implements `RollingCopies` | – |
| `EntryLifecycle` | `__init__.py` with `async_connect_node` and the pool | – |
| `ConfigFlow` | `config_flow.py`, `credential.py` and the key an entry loads | – |
| `GuestAccess` | `guest.py` and the guest parts of `coordinator.py`, `direct.py` and the controls | – |
| `MqttSetup` | the ways of `config_flow.py` to an MQTT client | – |
| `*Proofs` | the theorems about the module of that name; `LockCommandProofs` also has `NonceTracker`'s | the module, `TLAPS`; those about a household and a poller also `CoordinatorProofs` |
| `SetupAndGuestProofs` | the theorems about `MqttSetup`, and about `GuestAccess`, which is an instance in it | `MqttSetup`, `TLAPS` |
| `MC*` | constants for TLC | the module |

Definitions carry the names of the code where they translate one function
(`handle_health`, `attribute_lock_event`, `state_to_messages`, `prune`). An operator
with the name `Bug…` is a plausible mistake in the definition that follows it; no
specification uses it. Substituted for that definition it makes the property that
`PROJECT.json` lists beside it fail, which shows that the property depends on that
piece of code.

**Coordinator.** `dispatch` is `_dispatch`: a function from the registry and a
message to the new registry, whether entities are to be told, and what is logged.
`async_handle_message` is the action: a payload that fails validation (`form`) takes
the path its exception takes, `reject`, and an accepted one updates registry,
pool, entities and log together, as the code does without an `await` in between.
The logbook is external and may refuse an entry: the code sets the mark of the event
first and swallows what the logbook raises, so `log` holds the causes given to it,
and `written` says which of them it took.
Payload contents are small records: a lock state, a stamp, a source. `horizon` says
which wall-clock stamps are older than the announcement window; it only grows.
`seq` in a record is a ghost that says which physical change a report describes.

**MqttHousehold** replaces the open environment by nodes with a door and a clock,
which is wall time for some and seconds since boot for others and in the second case
starts again with each reboot, a broker that retains what the firmware
publishes retained and repeats it on reconnect, and restarts that lose everything
`Coordinator` keeps except the log.

**DirectPoller.** A poll is three requests (info, state, guest) and two points at
which it changes anything (`Apply`, `GuestDone`). Each may fail; `Fail` is
`async_poll_safely`'s handler, or the refresh after a command, which does not count
failures. `Garbage` is an answer that is not JSON.

**LockCommand.** `Send` → `Published` → `async_wait_for_state`, once every half
second and once more at the deadline. One tracker serves all nodes of the household
as in the code (`mqtt.py:235`); each node has a wire and a replay window of its own,
checks key and window, and gets a command again when its acknowledgement was lost
(QoS 1). `Reload` is the entry set up again: a new client with an empty tracker, and a
new coordinator, while calls of before go on looking at the old one. In the
mapping to `ServiceCall`, publishing and waiting are both `pending`, and the wish is
the target of the call; all else (tracker, wires, nodes) is invisible there.

**BackupStore.** A job walks over its entries; each is asked (`NextEntry`,
`Created`), added (`async_add`, with pruning), and written (`Write`, `Saved`). The
list `_backups` is a set of records with the ordinal `pos` of their append: list
order is order of `pos`. A crash may fall anywhere. The mapping to `RollingCopies`
takes the positions of the named nodes' records in memory, in the file, and among
those whose job was told they are stored. Copies kept under the empty name are not
in it: they are what the code loses (`StoredIsDurable` below). A restore
(`async_restore_entry`, `Restored`, `RestoreFails`) sends a stored copy, and the node
joins the household it was in when the copy was made (`home`, `origin`), which
need not be the one the copy is kept under: that is its entry's. A request that fails
may have been carried out. `MovedByHand` is a move in the node's Web UI, or with a
copy the caller hands over.

**EntryLifecycle.** `async_setup_entry` as a program counter with one step for each
`await`, over either transport; unload, reload, retry, platform failures and
reauthentication; coordinators of earlier setups that still have a poll in flight,
and a first subscription that stays behind when the second one fails. A coordinator
and the pool share one Node object, so a late poll of an earlier coordinator changes
what the running one shows. The certificate at the address (`cert`) is compared with
the pinned one once, when a client is made; each request after that, of a setup, a
reauthentication or a poll, passes TLS only if the device then presents the
certificate this client was made to trust (`trusts`, `TlsAccepts`), and `reached`
keeps the certificates of all devices a credential went to.

**ConfigFlow.** Up to two flows of any kind between their `await`s, the key file
with the copy each `CommandKeyStore` took of it, and how far the setup of an MQTT
entry has come (`up`): before it read the keys, before it listens, running.

**GuestAccess.** A call finds its target (`runtime_for`, `node_id_for`, or the
availability of the control), sends, and once `Answered` becomes a poll in its own
slot beside the scheduled ones. `CommandFails` leaves open whether the node acted:
an answer can be lost on its way back. `NoGuest` is both the 404 of a node without
the feature and the failure that `async_poll_once` swallows.

**MqttSetup.** One flow with a step for each call into the MQTT integration's flow
and each wait in `async_validate_mqtt`. The MQTT integration is external: it has one
entry at most, connects before it makes one from a broker form, and offers a menu
where there is a Supervisor. `cause` is a ghost: what it said in this attempt.
`Uncaught` stands for exceptions that the flow does not handle.

## 3. Runs

Passing runs:

| Run | What it shows |
|---|---|
| `coordinator` | Any sequence of well-formed and malformed messages for a node: the pool is never behind the registry; in any order of snapshots, events and taps, and with a logbook that may refuse, a mark stands for a cause that was given to the logbook and the log claims only what the device did. |
| `mqtt_lock` | Over a lossy, repeating broker and a restart, with a node that has wall time or one that counts from its boot and reboots: a snapshot never hides an event that is newer, the log follows the door, a named person is the tapper (of a node without a clock: until it reboots), an announced cause is that of the newest change known. |
| `mqtt_live` | Once the door is left alone, it is shown as it is. |
| `poll` | Two overlapping polls and a command, device up, down, re-homed or garbled: a node that missed its polls is not left shown online; a device that stays away is shown offline; one that comes back is shown as it is. |
| `command` | Calls to two nodes over one client, publishes that fail, commands lost or delivered again, reports of any kind, an entry set up again: the tracker holds at least a window and no nonce repeats inside one; a node refuses a command of a live client as a replay only when two of its commands have passed that node by; and the calls implement `ServiceCall`: success only with the state shown, giving up only without it, an end to every call. |
| `backup` | Two jobs and a restore over a direct and an MQTT entry of two households, failures, slow writes, unloads, a crash, a node moved by hand: the window holds in memory and on disk, a copy stored under its node's name is on disk, and no restore takes a node out of a household whose own nodes nobody has moved, whatever the other household's do; and the store implements `RollingCopies`: adding a copy costs at most its own node's oldest, and nothing is confirmed that is not on disk. |
| `entry` | Setups over either transport failing at every step, reloads, stray polls, a device swapped between any two requests or re-homed: at most one recurring poll, credentials only to the device whose certificate was pinned, no pooled state after an MQTT unload; an entry whose device was away comes up when it is back, and one that runs comes to show its device although it may start from a pool that a stray poll filled, and share its Node object with that poll. |
| `flow` | Two flows racing: discovery adds no second entry for a household, no flow replaces an entry. |
| `guest` | Commands from services and controls, each with a poll that overlaps two scheduled ones, on a node that loses requests, the feature or its guest endpoint: what is shown comes to be the node's guest state, failing guest requests never make the node unavailable, a delivered command is reported as delivered. |
| `setup` | The three ways to MQTT, with a broker that comes and goes and an entry that appears from elsewhere: the add-on form never shows the reason of an earlier attempt, and with a broker that stays a user who tries again gets on. |

Runs that find a counterexample. Each checks what a document or a comment of the
repository says; `PROJECT.json` quotes it.

| Run | What the code does instead |
|---|---|
| `poll_garbage` | An answer that is not JSON raises past `async_poll_safely`: never counted, shown online. |
| `flow_lost` | Two flows that read the key file before either wrote it: one household's key is lost. |

### Other disagreements between text and code

The modules state these formulas in a section of their own at their end. They are
false of the specifications; TLC gives the trace when a cfg names one of them.

| Formula | What the repository says | What the code does |
|---|---|---|
| `NeverTheWrongPerson` | `src/README.md:223` "less specific, and never wrong" | Stamps in seconds since boot repeat after a reboot; a tap and a change of different boots match. |
| `NoNodeFromRejectedPayload` | `src/tests/test_coordinator_state.py:276` "No node may be created from a payload that failed to parse." | A health or lock/last payload that fails validation has already created its node, and the next update gives it entities. |
| `FreshMeansNewer` | `models.py:596` "newer than the health snapshot" | A retained lock event repeated on reconnect is marked fresh although a later snapshot saw the door jam. |
| `OldEventsAreHistory` | `const.py:482` "history rather than news" | The snapshot path announces an event of any age. |
| `MarkedIsWritten` | `coordinator.py:474` "This cause was already recorded when the node reported the event itself." | The mark is set before the logbook is asked, and a failure of the logbook is swallowed: a cause it refused counts as recorded, and neither path offers it again. |
| `NeverAnnouncedTwice` | `coordinator.py:506` "must not be announced as news twice" | After a restart a recent retained event is announced again. |
| `TapNamesThePerson` | `src/README.md:222` "the activity log names the person" | `last_auth` is replayed after `lock/last`, so over the direct transport a tap is logged without its person. |
| `AnsweringStaysOnline` | `src/docs/HA_V2_INTEGRATION.md:601` "Three consecutive failures" | A reading that is applied resets the failure count only when the poll's guest request has ended; a failure of an overlapping poll in between marks a node offline that has just answered. |
| `NoRefusalWithoutLoss` | `src/docs/HA_V2_INTEGRATION.md:251` "The client never reuses a nonce within the firmware's replay window." | The tracker is shared by the nodes of a household: commands to one push a nonce out of it that another still has in its window, so a nonce drawn again is refused there although nothing was lost. A reload empties the tracker as well. With 16 random bytes neither is seen in practice. |
| `CopiesAreOfTheirHousehold` | `src/docs/BACKUP_AND_RESTORE.md:81` "A stored backup for the household" | A copy is kept under the household of its entry; an MQTT entry does not notice that its node was moved to another household, whose copies it then keeps, and restores, under its own. |
| `StoredIsDurable` | `__init__.py:120` "must not lose the copies already kept" | A direct entry backed up before its first poll stores its copy under an empty node id, which the next load drops and the next save deletes. |
| `NewestLast` | `backup.py:119` "newest last" | Concurrent copies of one node are appended in the order their jobs finish. |
| `ScheduleReachesAll` | `backup.py:380` "logs and moves on" | An answer that is not JSON ends a scheduled run before the entries behind it. |
| `PoolDiesWithTheEntry` | `coordinator.py:190` "Remove pooled state (called on final unload)." | A poll in flight at unload fills the pool again, and the next setup shows that. So does an MQTT subscription that a failed setup left behind. And platforms that fail after the first reading leave an entry that Home Assistant unloads without `async_unload_entry`. |
| `RejectionStartsReauth` | `src/README.md:93` "If it is ever rejected, Home Assistant starts a reauthentication flow instead of failing silently." | A credential rejected while the entry runs is a failed poll like any other; only a setup starts a reauthentication. |
| `HouseholdOnce` | `src/docs/HA_V2_INTEGRATION.md:615` "over either transport" | The household step does not see that a direct entry has the household. |
| `NodeGetsItsEntry` | `src/README.md:101` "one entry per node" | The second node of a household cannot get a direct entry of its own. |
| `RotationTakesEffect` | `src/docs/HA_V2_INTEGRATION.md:114` "rotate the command credential" | A key stored during a setup, after it read the file and before it listens, is not used; nor is one submitted with options that do not change, which fires no listener. |
| `UnnamedNeedsOneEntry` | `guest.py:44` "only unambiguous when exactly one is configured" | The entries that are loaded are counted: while the others start or fail, a call that names none goes to the one that is up. |
| `RefreshIsNotUndone` | `coordinator.py:716` "the interface has to show that the node is now waiting for a card" | A scheduled poll that read the guest document before the command applies it after the command's own poll. The next poll repairs it. |
| `ControlsHideWithTheFeature` | `entity.py:53` "hide themselves rather than offering a button that can only fail" | The last guest state stays in the node, so controls of a node that lost the feature are still offered. |
| `ExpressErrorIsFresh` | `config_flow.py:568` "so the user knows what to fix" | The remembered reason of an earlier attempt is not cleared, and is shown for one that fails without a reason. |
| `CreationIsSeen` | `config_flow.py:688` "until it either creates the entry or fails" | The answer of the last round is looked at for an error only: an entry made in it is shown as a failure. |
| `OfferedWaysWork` | `config_flow.py:227` "or offer guided / express / add-on setup" | With a Supervisor the MQTT integration answers the express way with a menu, which is taken as a failure; so is the add-on way once there is an entry. |

For most of them it is proved what keeps them true: the formula holds of every
behaviour in which the one thing named here does not happen, so nothing else in the
code is at fault. (`KeysAreKept` is the formula of the run `flow_lost`.)

| Formula | Holds as long as | Theorem |
|---|---|---|
| `KeysAreKept` | no two stores hold a copy of the key file at once | `SerialSavesKeepTheKeys` |
| `HouseholdOnce` | the two entries are of one transport | `HouseholdOncePerTransport` |
| `NeverTheWrongPerson` | no node that counts from its boot has booted again | `NeverWrongWithoutReboots` |
| `MarkedIsWritten` | the logbook takes what it is given | `MarksAreWritten` |
| `NeverAnnouncedTwice` | Home Assistant is not restarted, however often the broker repeats | `NeverTwiceInOneRun` |
| `FreshMeansNewer` | no connection is lost and Home Assistant is not restarted; only a repeated event makes it false | `FreshUntilDisturbed`, `RepeatedEventsHide` |
| `OldEventsAreHistory` | no snapshot moves to the state that the old event explains | `OldNewsExplainsAMove`, `RepeatsOnlyExplainMoves` |
| `NoNodeFromRejectedPayload` | no invalid `health` or `lock/last` is about an unknown node | `AcceptedPayloadsCreateNodes`, `OnlyRejectsLeaveEmptyNodes` |
| `AnsweringStaysOnline` | no two polls overlap | `TurnsKeepItOnline` |
| `StoredIsDurable` | no node is asked before its entry knows its name; so always without direct entries | `NamedJobsLoseNothing`, `MqttCopiesAreDurable` |
| `NewestLast` | no two jobs have a copy of one node in hand | `TurnsKeepTheOrder` |
| `ScheduleReachesAll` | every answer is JSON | `OnlyGarbageCutsASchedule` |
| `PoolDiesWithTheEntry` | no poll or subscription outlives its entry's setup or run, and no platform fails | `StraysApartThePoolIsDropped` |
| `RefreshIsNotUndone` | no node changes its guest state while a poll has a reading of it in hand | `OnlyRacesUndoARefresh` |
| `ExpressErrorIsFresh` | no attempt begins with a reason remembered | `ForgottenReasonsAreNotShown` |

Two more were seen while modelling and have no formula. A command for the state that
is already shown succeeds at its first look, before the node has seen it
(`lock.py:129`; `lock.py:124` "Waiting for that report is what turns it into an
answer."). And `async_get_guest` says that a 401 or a timeout "must surface through
the normal availability path" (`direct.py:564`), while `async_poll_once` swallows both
(`direct.py:800`). `GuestNeverGatesAvailability` states the second, which is what
the code does and what the comment there asks for.

On the pool: comments in `coordinator.py` also speak of pooled state a reload can
reattach, but `async_unload_entry` drops the pool on every unload, and the tests
assert that nothing of it is shown afterwards. The formulas follow the code's unload.

### Bounds, and why they are enough

- Two devices, households or entries where the question is about one disturbing
  another, one node otherwise. No handler reads more than its own node and the whole
  list or file, so a third adds no new case.
- Two jobs, calls or flows in progress, and two scheduled polls and a command: the
  hazards are pairwise. A poll can last three 20 s requests and one starts every
  30 s, so two scheduled polls overlap in fact, not only in the model.
- `MaxSeq`, `MaxStamp` of 3 in `mqtt_lock`: an old change, a newer one and one
  between. `DIRECT_OFFLINE_AFTER_FAILURES` has its real value 3; a device that is
  down fails requests without bound, and `MaxGlitches` bounds the others.
- `BACKUP_KEEP` and `Window` are 1 (7 and 32 in the code): with two copies of a node,
  and with three commands, pruning happens. The theorems cover every value.
- `command` has one call, two nodes and three nonces. A call that is over can be
  followed by the next while its command is still on the wire (`MaxWire` is 1 for
  each node), which is all that a second call could add to the nodes; two calls at
  once do not see each other but through the tracker, and `CallsImplementService` and
  `RefusedCommandsWerePassedBy` are proved for any number of them. Four commands
  (`MaxSent`, over all clients) are a pruning and one command more. `MaxMishaps` counts
  losses, repeats and reloads together.
- `backup` has one restore at a time (`MaxRestoring`) and one move by hand, and both
  entries have a household, as every entry has that the flows create. An entry
  without one, which `backup.py:477` provides for, is covered by `RestoresKeepNodesHome`.
- The logbook of `mqtt_lock` and `poll_garbage` takes every entry (`Logbook`); their
  properties are about what is given to it. In the other runs over `Coordinator` it may refuse.
- `MaxChecks` is 1: a look that is not the last, and the last. The code has 20.
- `MaxRounds` is 3 for the add-on loop's 20: a round between the first and the last.
- `MaxGlitches` of 2 in `guest`: a request that is lost and a change of the node's
  mode, or two of either. Two `Ticks` and a command's poll are three readings that
  can be applied in any order.
- `MaxDrops`, `MaxRestarts`, `MaxCrashes`, `MaxMishaps`, `MaxMoves`, `MaxUpsets`,
  `MaxFailures`, `MaxChanges` count what the environment may do in one behaviour;
  one or two of each let it fall before or after any step that matters.
- `MaxQueue`, `MaxMade`, `MaxSecrets`, `MaxVersion`, `MaxLog` bound
  counters and sequences. `coordinator` stops when the log has its first entry (longer
  logs are in `mqtt_lock`), and `setup` when the flow is in its household step: these
  two do not check for deadlock.
- Two coordinators in `entry`: the one being set up and one of an earlier setup with
  a poll in flight; two Node objects, a shared one and one made anew; two certificates,
  the pinned one and any other. A name is used again when nothing has it any more.
- Symmetry is used for jobs and flows, which no definition tells apart, and only in
  runs without liveness.

### Fairness

- MQTT: the client reconnects, messages in flight arrive, and a node publishes its
  health periodically. Home Assistant's client retries for ever and the firmware's
  cadence is what `coordinator.py` relies on. Nothing makes a door move.
- Poller: the timer of `async_track_time_interval` fires, and every poll ends,
  because each request has a 20 s timeout. Which way it ends is free.
- Lifecycle: Home Assistant runs setups and unloads to their end and retries a
  setup that was not ready; polls go on. No fairness for users, passwords, devices.
- Commands: a publish returns or raises, and the sleep between two looks ends. Of the
  node nothing is assumed, so calls end with a node that is silent for ever.
- Guest: entries that are loaded are polled, and every request ends in an answer, an
  error or its timeout. Nobody presses anything.
- Setup: calls into the MQTT integration return, the wait for its client has a
  timeout, and a client that can connect does. Of the user nothing is assumed:
  `RetryEnds` is about those who do try again.

## 4. Proofs

TLAPS checks these for every value of the constants that satisfies the named
assumptions of the modules. The assumptions say that bounds are naturals and that
`None` (and, in `MqttSetup`, "no error") is not one of the values it stands beside
(`KeyAssumption`, `NoneAssumption`, `ClockAssumption`, `NoErrorAssumption`); that the device of
`DirectPoller` is one of the coordinator's nodes, and its kinds of poll are apart
(`PollerAssumption`); and, in `MqttHousehold`, that the nodes are finitely many and
the bound of the wire leaves room for all that a new subscription is sent
(`RoomAssumption`). In these two modules stamps must leave room for every change
(`MaxSeq <= MaxStamp`). TLC evaluates the assumptions in every run.

Each proof module names its inductive invariant; its header says what the
strengthening is.

- `CoordinatorProofs`: `CoordTypeCorrect`, `PoolStaysCurrent`, `MarksAreAttributed`,
  `LogIsHonest`. `CoordInv` is the conjunction of the four: an entry is well typed
  only if the node it was made from is, and a mark can only be matched to a cause
  of that node if the log grows and never shrinks. The step is proved from one
  description, `Shape`, of what any handler does: it changes at most the node of its
  message, adds at most one good entry, and moves the mark only when it gives its cause to
  the logbook. `MarksAreWritten` adds that the logbook takes it. One lemma for each handler shows it has that shape; `HandleIsGood` and
  `RejectKeepsInv` need nothing else about them. `HandleIsGood` is about the state as
  one record, so that both transports can use it: the poller hands over up to seven
  messages in one step.
- `MqttHouseholdProofs`: `MqttTypeCorrect`, `EventsStayInFront`, `LogIsInOrder`,
  `PersonsAreReal`, `CausesAreCurrent`, `RedeliveryKeepsTheRecord`, for any number of
  nodes, people, changes, lost connections, reboots and restarts. `MqttInv` has four
  layers, each resting on those before it.
  - *Types* (`TypeInv`): what is in flight or retained is what the firmware
    publishes, and the queue keeps within `MaxQueue`; the latter needs to count
    what a new subscription is sent.
  - *Facts* (`FactInv`): the reports that are about (in flight, retained or in
    memory) agree with the door and with each other, carry stamps of their node's
    clock, and a tap and a change with one stamp are one, unless a node without wall
    time has rebooted. The log is written from memory, long after the door moved:
    these say that what it finds there is still true.
  - *Order* (`OrderInv`): in the queue a node's reports follow each other as they were
    made; what is in flight or retained is not behind the event that is known, and is
    news to the snapshot; the retained event is the last change but for a jam; and a
    sample that is no jam has its event known or in front of it. Loss and redelivery
    are dealt with here: a lost connection drops the whole queue, never its middle,
    and the retained event comes before any sample taken after it.
  - *Records* (`RecordInv`): the checked properties, with what a log needs to stay
    in order: a known event was announced or was too old to be (`EventIsDealtWith`),
    and the log is not ahead of the known event, nor level with one that is yet to be
    announced unless the snapshot has moved on (`LogIsNotAhead`).

  `CausesAreCurrent` is an action property of the same invariant: whichever path
  writes, it writes about the known event, and no snapshot is ahead of that
  (`EntryIsNews`).
  `RedeliveryKeepsTheRecord` adds `CoordInv`, which a restart keeps because it empties
  the marks and not the log.
- `DirectPollerProofs`: `PollerTypeCorrect`, `MissesAreShown`, `PollsKeepTheRecord`,
  for any number of overlapping polls and any threshold. `PollerInv` adds `CoordInv`
  and that a node is unknown until a reading has been applied, which is why failures
  before that need not be shown.
- `LockCommandProofs`, of the tracker: `TrackerRemembersAWindow`, `NoncesAreFresh`.
  The second is not inductive alone: that a new nonce differs from the last `Window`
  ones follows from its absence from `seen` only because `seen` is the end of `sent`
  and at least a window long. `CommandsImplementTracker` and `CommandNoncesAreFresh`:
  every step of the calls, the node and the network is a step of the tracker or
  leaves it alone, so the same holds for any number of concurrent calls.
- `LockCommandProofs`, of the calls: `CommandTypeCorrect`, `CallsImplementService`
  (the refinement mapping to `ServiceCall`, step by step) and
  `RefusedCommandsWerePassedBy`. A command that does not enter a node's window, because
  it was lost or is for another node of the household, makes that window reach one
  command further back, while the tracker can be down to a window and one command. So
  one such command is no harm, and with two a nonce can be drawn again that the node
  still has. The invariant says, for each node and while the first client lives, at
  which positions `at` of `sent` the nonces of its window are (`WindowIsRecent`), that
  commands wait on its wire in the order of their positions (`WireInOrder`), and that a
  command that comes again has its nonce in the window already (`RepeatsAreKnown`), so
  that its refusal says nothing of the tracker. After a reload nothing is claimed:
  the new tracker knows nothing of what the nodes remember.
- `BackupStoreProofs`: `BackupTypeCorrect`, `RetentionIsBounded`,
  `ConfirmedCopiesSurvive`, `RestoresKeepNodesHome`, `StoreImplementsRolling`. `BackupInv`
  says that memory, the data handed to the writer and the file are each `Sound`:
  finite, with distinct and bounded positions, and within the window. The positions
  are why pruning one record after one append restores the bound: exactly the oldest
  of a full node goes (`OldestExists`, `PrunedFits`, `AddIsSound`). A crash takes the
  file without the records `from_dict` drops, a subset (`SubsetIsSound`). `StoreInv`
  goes on from there: memory and file have the same named copies whenever nothing is
  left to write, a blob belongs to one copy, and what was confirmed is in both or
  replaced by newer ones. The refinement of `RollingCopies` takes from it that a
  crash loses no confirmed copy. `RestoresKeepNodesHome` needs that every copy kept in memory or
  on disk, or held by a job, under a settled household was made in it, and so
  was the one on its way to a node of it (`HomeInv`): a copy made, a crash and a restore
  can lie far apart.
- `EntryLifecycleProofs`: `LifecycleTypeCorrect`, `OnePollRecurs`,
  `CredentialStaysHome`, `MqttPoolIsDropped`, for any number of coordinators, failures
  and changes of the device. `LifecycleInv` adds that every client, a setup's, a
  poll's or a reauthentication's, trusts the pinned certificate or none
  (`ClientsArePinned`), from which it follows where credentials go; what a setup has
  in hand at each of its steps (`SetupInHand`), without which unload would not stop the
  timer that the setup started; and that an MQTT entry has neither timer nor poll (`MqttIsPushed`).
- `ConfigFlowProofs`: `FlowTypeCorrect`, `DiscoveryNeverDuplicates`, `EntriesStay`, the
  last two action properties, for any number of flows. `FlowInv` is about unique ids:
  one that is claimed is claimed by one flow and not configured
  (`IdsAreClaimedOnce`, `ClaimedIsFree`), and an entry's id is its household or a
  device of it.
- `SetupAndGuestProofs`, of the ways to MQTT: `SetupTypeCorrect`,
  `AddonErrorsAreFresh`. `SetupInv` adds that nothing is remembered while an attempt
  runs (`AttemptIsClean`); that no other form leads to the add-on form with an error
  (`MenuIsClean`) is needed for its first one. `ForgottenReasonsAreNotShown` ties what
  the broker form shows to what is remembered (`ExpressRemembers`).
- `SetupAndGuestProofs`, of guest access: `GuestTypeCorrect`,
  `ControlsHaveTheirNode`, `DeliveredNeverFails` (the safety half of the run's
  `DeliveredIsReported`). `GuestInv` adds that what is shown of a node, or
  in a poll's hands to be shown, is of a node a poll has named (`KnownFirst`). The constants' assumption `GuestAssumption` is
  stated there as a hypothesis, `GuestConstants`, because an instance does not bring
  its assumptions along; it says that bounds are naturals, the slots of calls and of
  scheduled polls are apart, and `None` is no value it stands beside.

Two theorems are refinements of the coordinator. `HouseholdIsACoordinator` and
`PollerIsACoordinator` show that the registry, pool, entities and log, whichever
transport feeds them and whatever else happens, move only as `Coordinator` says: by
one message that is handled (over MQTT), by a sequence of them with nothing in between
(a poll), with time, or with a turn of the logbook. What `CoordSpec` does not have is a restart, in which the
coordinator begins again beside the log that Home Assistant keeps (`BeginsAgain`);
and `MaxLog` and `Topics`, which bound the open environment of `Coordinator`, bound
neither of the two.

The theorems of the second table in section 3 rest on the same invariants. Those with a
hypothesis state it as a property of the behaviour beside the specification
(`[]CopiesTakeTurns`, `[][~PlatformsFail]_vars`), so that it restricts the schedule and
never the constants or the code. Each has an invariant of its own about what waits
inside a step that is not over: the copies of the key file yet to be written
(`CopiesOK`), the copies that jobs hold (`AgesInOrder`), the readings that polls hold
(`ReadingsAreCurrent`), what is on the wire (`NothingRepeats`), who fills the pool
(`PoolHasAnOwner`).

Only model-checked:

- all liveness, which is beyond this prover: `EventuallyShowsTheDoor`, `GoneIsShown`,
  `BackIsShown`, `EventuallyLoaded`, `LoadedIsCurrent`, `RetryEnds`, the three
  liveness properties of `guest`, and of `CallsAreAnswered` that every call ends
  (that it ends truthfully is `CallsImplementService`);
- of the formulas that are false, what keeps `RotationTakesEffect`, `NodeGetsItsEntry`,
  `UnnamedNeedsOneEntry`, `CreationIsSeen` and `TapNamesThePerson` true, and the
  temporal ones;
- the two runs that look for a counterexample.

## 5. Not modelled

- HMAC, key derivation and TLS: computations whose result the models take as right
  or wrong (a right or wrong key, a certificate that is the trusted one or not).
- Field-by-field payload validation and topic parsing: functions of one payload or one
  string that keep no state. A payload is well formed or not, a topic is one of the
  known ones; what a rejected payload leaves behind is modelled.
- The MQTT integration's own flow beyond what it answers, and its add-on manager.
- `_schedule_reload` (`coordinator.py` 833–851) and `CommandKeyStore.async_remove`:
  nothing calls them.
- Sensors, binary sensors and diagnostics: they read the registry and keep nothing.
  The derived lock state and the availability of lock and guest controls are modelled.
- A write error inside Home Assistant's Store: a write is late or lost in a crash.
- Wording, logging, translations, tests and tools.

## 6. Plan

Done, in this order: coordinator; MQTT household; poller; nonces and commands;
backups; lifecycle; flows; theorems for coordinator, nonces and backups; guest access;
the ways to MQTT; `RollingCopies` and `ServiceCall` with the refinements to them; the
commands' use of the tracker; theorems for every safety property that a run checks; the
refinements of the coordinator; what keeps the false formulas true.

What is left to model keeps no state, and what is left to prove is listed at the end
of section 4: the liveness properties, which need rules for fairness and `ENABLED`
that this prover lacks, and conditions for the remaining false formulas, of which
`RotationTakesEffect` has three causes at once (a key stored during a setup, one
stored with options that do not change, and a copy of the key file that another flow
wrote late).
