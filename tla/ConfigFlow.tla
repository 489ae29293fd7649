----------------------------- MODULE ConfigFlow -----------------------------
(***************************************************************************)
(* Config entries and command keys (config_flow.py, credential.py): the    *)
(* discovery flow of the direct transport, the household flow of the MQTT  *)
(* transport, the options flow, and the file of command keys they write.   *)
(*                                                                         *)
(* Flows are concurrent: each one suspends while a form is open, while a   *)
(* node is probed, and while the key file is read or written.  Every flow, *)
(* and every running entry, has a CommandKeyStore of its own over the one  *)
(* file.                                                                   *)
(***************************************************************************)
EXTENDS Naturals, FiniteSets

CONSTANTS
    Households,
    Devices,        \* nodes that announce themselves, by certificate
    HomeOf,         \* device -> its household
    Flows,          \* flows that can be in progress together
    OptionSets,     \* what the options form can be submitted with
    MaxSecrets,     \* bound on the recovery secrets entered
    MaxChanges,     \* bound on entries removed and Home Assistant restarts
    None

ASSUME FlowAssumption ==
    /\ HomeOf \in [Devices -> Households]
    /\ Households \cap Devices = {}
    /\ None \notin Households \cup Devices \cup OptionSets
    /\ MaxSecrets \in Nat
    /\ MaxChanges \in Nat

VARIABLES
    entries,    \* the config entries
    flows,      \* flow -> where it is
    keyfile,    \* household -> its key in storage; 0 for none
    options,    \* household -> the options of its MQTT entry; None for {}
    up,         \* household -> where the setup of its MQTT entry is
    inUse,      \* household -> the key its running entry has loaded
    secrets,    \* recovery secrets entered so far; a key is its secret's ordinal
    changes

entryVars == <<entries, options, up, inUse>>
vars == <<entryVars, flows, keyfile, secrets, changes>>

Keys == 0..MaxSecrets
Entry == [transport : {"direct", "mqtt"}, unique : Households \cup Devices,
          household : Households]
Step == {"idle", "form", "probing", "loading", "saving", "saved"}
Flow == [kind : {"none", "direct", "mqtt", "options"}, step : Step,
         unique : Households \cup Devices \cup {None},
         household : Households \cup {None}, key : Keys,
         cache : [Households -> Keys], options : OptionSets \cup {None}]
NoKeys == [h \in Households |-> 0]
NoFlow == [kind |-> "none", step |-> "idle", unique |-> None, household |-> None,
           key |-> 0, cache |-> NoKeys, options |-> None]
BugMqttEntry(h) == [transport |-> "mqtt", unique |-> None, household |-> h]
MqttEntry(h) == [transport |-> "mqtt", unique |-> h, household |-> h]

FlowInit ==
    /\ entries = {}
    /\ flows = [f \in Flows |-> NoFlow]
    /\ keyfile = NoKeys
    /\ options = [h \in Households |-> None]
    /\ up = [h \in Households |-> "down"]
    /\ inUse = NoKeys
    /\ secrets = 0
    /\ changes = 0

-----------------------------------------------------------------------------
(* Home Assistant's side of a flow.                                          *)

Become(f, flow) == flows' = [flows EXCEPT ![f] = flow]
Abort(f) == Become(f, NoFlow)

BugInProgress(f, id) == FALSE

\* async_set_unique_id aborts a flow whose id another flow has.
InProgress(f, id) == \E g \in Flows \ {f} : flows[g].unique = id

\* _abort_if_unique_id_configured.
Configured(id) == \E e \in entries : e.unique = id

\* An entry with the id of an old one takes its place; an MQTT entry is set up
\* with the options it was made with, none.
AddEntry(e) ==
    /\ entries' = {old \in entries : old.unique # e.unique} \cup {e}
    /\ IF e.transport = "mqtt"
       THEN /\ options' = [options EXCEPT ![e.household] = None]
            /\ up' = [up EXCEPT ![e.household] = "pending"]
            /\ inUse' = [inUse EXCEPT ![e.household] = 0]
       ELSE UNCHANGED <<options, up, inUse>>

-----------------------------------------------------------------------------
(* Discovery: the direct transport.                                          *)

\* A usable announcement; one that is not aborts and changes nothing.  That of a
\* configured device gives its entry the address it has now and reloads it: the
\* entry is the same one as before (EntryLifecycle has the reload, at Ask).
async_step_zeroconf(f, d) ==
    /\ flows[f].step = "idle"
    /\ IF InProgress(f, d) \/ Configured(d)
       THEN Abort(f)
       ELSE Become(f, [NoFlow EXCEPT !.kind = "direct", !.step = "form", !.unique = d])
    /\ UNCHANGED <<entryVars, keyfile, secrets, changes>>

\* async_step_direct with a user name and a password: the node is probed.
async_step_direct(f) ==
    /\ flows[f].kind = "direct"
    /\ flows[f].step = "form"
    /\ Become(f, [flows[f] EXCEPT !.step = "probing"])
    /\ UNCHANGED <<entryVars, keyfile, secrets, changes>>

\* Any DirectTransportError is an error on the form.
ProbeFails(f) ==
    /\ flows[f].step = "probing"
    /\ Become(f, [flows[f] EXCEPT !.step = "form"])
    /\ UNCHANGED <<entryVars, keyfile, secrets, changes>>

BugTaken(h) == \E e \in entries : e.household = h /\ e.transport = "mqtt"
Taken(h) == \E e \in entries : e.household = h

\* The probe has answered with the node's household.
async_create_direct_entry(f) ==
    LET h == HomeOf[flows[f].unique]
    IN /\ flows[f].step = "probing"
       /\ IF Taken(h)
          THEN UNCHANGED entryVars
          ELSE AddEntry([transport |-> "direct", unique |-> flows[f].unique,
                         household |-> h])
       /\ Abort(f)
       /\ UNCHANGED <<keyfile, secrets, changes>>

-----------------------------------------------------------------------------
(* The household step: the MQTT transport.                                   *)

async_step_user(f) ==
    /\ flows[f].step = "idle"
    /\ Become(f, [NoFlow EXCEPT !.kind = "mqtt", !.step = "form"])
    /\ UNCHANGED <<entryVars, keyfile, secrets, changes>>

\* The secret on the form, if any: its key is derived once the store is loaded.
EnterSecret(f, flow) ==
    /\ secrets < MaxSecrets
    /\ secrets' = secrets + 1
    /\ Become(f, [flow EXCEPT !.step = "loading", !.key = secrets + 1])

async_step_household(f, h) ==
    /\ flows[f].kind = "mqtt"
    /\ flows[f].step = "form"
    /\ \/ /\ InProgress(f, h) \/ Configured(h)
          /\ Abort(f)
          /\ UNCHANGED <<entryVars, secrets>>
       \/ /\ ~InProgress(f, h) /\ ~Configured(h)
          /\ EnterSecret(f, [flows[f] EXCEPT !.unique = h, !.household = h])
          /\ UNCHANGED entryVars
       \/ /\ ~InProgress(f, h) /\ ~Configured(h)
          /\ AddEntry(MqttEntry(h))
          /\ Abort(f)
          /\ UNCHANGED secrets
    /\ UNCHANGED <<keyfile, changes>>

\* The entry exists, with the key stored before it.
CreateMqttEntry(f) ==
    /\ flows[f].kind = "mqtt"
    /\ flows[f].step = "saved"
    /\ AddEntry(MqttEntry(flows[f].household))
    /\ Abort(f)
    /\ UNCHANGED <<keyfile, secrets, changes>>

-----------------------------------------------------------------------------
(* CommandKeyStore, one instance per flow.                                   *)

\* The file is read, and the household's key replaced in the copy.
async_load(f) ==
    /\ flows[f].step = "loading"
    /\ Become(f, [flows[f] EXCEPT !.step = "saving",
                  !.cache = [keyfile EXCEPT ![flows[f].household] = flows[f].key]])
    /\ UNCHANGED <<entryVars, keyfile, secrets, changes>>

\* A secret no key can be derived from is an error on the form.
InvalidSecret(f) ==
    /\ flows[f].step = "loading"
    /\ Become(f, [flows[f] EXCEPT !.step = "form", !.key = 0])
    /\ UNCHANGED <<entryVars, keyfile, secrets, changes>>

\* The whole copy is written.
async_save(f) ==
    /\ flows[f].step = "saving"
    /\ keyfile' = flows[f].cache
    /\ Become(f, [flows[f] EXCEPT !.step = "saved"])
    /\ UNCHANGED <<entryVars, secrets, changes>>

-----------------------------------------------------------------------------
(* The options flow, and the running entry.                                  *)

\* Configure on an MQTT entry; a direct entry has no options.
async_step_init(f, h) ==
    /\ flows[f].step = "idle"
    /\ MqttEntry(h) \in entries
    /\ Become(f, [NoFlow EXCEPT !.kind = "options", !.step = "form", !.household = h])
    /\ UNCHANGED <<entryVars, keyfile, secrets, changes>>

\* The new options are stored; Home Assistant tells the update listener, which
\* reloads the entry, when they differ from the old ones and there is one.
UpdateOptions(h, new) ==
    IF MqttEntry(h) \in entries
    THEN /\ options' = [options EXCEPT ![h] = new]
         /\ up' = IF new # options[h] /\ up[h] = "listening"
                  THEN [up EXCEPT ![h] = "pending"] ELSE up
         /\ UNCHANGED <<entries, inUse>>
    ELSE UNCHANGED entryVars

SubmitOptions(f) ==
    /\ flows[f].kind = "options"
    /\ flows[f].step = "form"
    /\ \E new \in OptionSets :
        \/ EnterSecret(f, [flows[f] EXCEPT !.options = new]) /\ UNCHANGED entryVars
        \/ UpdateOptions(flows[f].household, new) /\ Abort(f) /\ UNCHANGED secrets
    /\ UNCHANGED <<keyfile, changes>>

OptionsSaved(f) ==
    /\ flows[f].kind = "options"
    /\ flows[f].step = "saved"
    /\ UpdateOptions(flows[f].household, flows[f].options)
    /\ Abort(f)
    /\ UNCHANGED <<keyfile, secrets, changes>>

\* async_setup_entry reads the key file first, and only at its end listens for
\* new options.
SetupLoadsKeys(h) ==
    /\ up[h] = "pending"
    /\ up' = [up EXCEPT ![h] = "starting"]
    /\ inUse' = [inUse EXCEPT ![h] = keyfile[h]]
    /\ UNCHANGED <<entries, options, flows, keyfile, secrets, changes>>

SetupListens(h) ==
    /\ up[h] = "starting"
    /\ up' = [up EXCEPT ![h] = "listening"]
    /\ UNCHANGED <<entries, options, inUse, flows, keyfile, secrets, changes>>

\* The user closes a form or removes an entry: its key stays in the file.
CloseForm(f) ==
    /\ flows[f].step = "form"
    /\ Abort(f)
    /\ UNCHANGED <<entryVars, keyfile, secrets, changes>>

RemoveEntry(e) ==
    /\ changes < MaxChanges
    /\ changes' = changes + 1
    /\ entries' = entries \ {e}
    /\ IF e.transport = "mqtt"
       THEN /\ up' = [up EXCEPT ![e.household] = "down"]
            /\ inUse' = [inUse EXCEPT ![e.household] = 0]
            /\ options' = [options EXCEPT ![e.household] = None]
       ELSE UNCHANGED <<options, up, inUse>>
    /\ UNCHANGED <<flows, keyfile, secrets>>

Restart ==
    /\ changes < MaxChanges
    /\ changes' = changes + 1
    /\ flows' = [f \in Flows |-> NoFlow]
    /\ up' = [h \in Households |-> IF up[h] = "down" THEN "down" ELSE "pending"]
    /\ inUse' = NoKeys
    /\ UNCHANGED <<entries, options, keyfile, secrets>>

FlowNext ==
    \/ \E f \in Flows :
        \/ async_step_direct(f) \/ ProbeFails(f) \/ async_create_direct_entry(f)
        \/ async_step_user(f) \/ CreateMqttEntry(f)
        \/ async_load(f) \/ InvalidSecret(f) \/ async_save(f)
        \/ SubmitOptions(f) \/ OptionsSaved(f) \/ CloseForm(f)
        \/ \E d \in Devices : async_step_zeroconf(f, d)
        \/ \E h \in Households : async_step_household(f, h) \/ async_step_init(f, h)
    \/ \E h \in Households : SetupLoadsKeys(h) \/ SetupListens(h)
    \/ \E e \in entries : RemoveEntry(e)
    \/ Restart

FlowSpec == FlowInit /\ [][FlowNext]_vars

-----------------------------------------------------------------------------
(* Properties.                                                               *)

\* Entries, flows and keys are well typed (config_flow.py, credential.py).
FlowTypeOK ==
    /\ entries \subseteq Entry
    /\ flows \in [Flows -> Flow]
    /\ keyfile \in [Households -> Keys]
    /\ options \in [Households -> OptionSets \cup {None}]
    /\ up \in [Households -> {"down", "pending", "starting", "listening"}]
    /\ inUse \in [Households -> Keys]
    /\ secrets \in 0..MaxSecrets
    /\ changes \in 0..MaxChanges

\* Whatever other flows finish while a node is being probed, the discovery
\* flow never adds an entry for a household that has one by then
\* (_async_create_direct_entry checks after the probe, not before).
DirectNeverDuplicates ==
    [][\A e \in entries' \ entries : e.transport = "direct" =>
          \A old \in entries : old.household # e.household]_vars

\* No flow, however it races with others, takes the place of an entry that is
\* there, or of the options the user has given it: entries only go when the
\* user removes them (async_step_household, async_step_zeroconf: the unique id
\* is claimed before the first suspension).
EntriesAreNeverReplaced ==
    [][changes' = changes => entries \subseteq entries'
          /\ \A h \in Households :
                up[h] # "down" /\ options[h] # None => options'[h] # None]_vars

-----------------------------------------------------------------------------
(* What the repository says and the code does not do: these are false of the *)
(* specification (see README.md).                                            *)

\* "Persists derived command keys, one per household" (credential.py):
\* storing the key of one household costs no other household its key.
KeysAreKept ==
    [][\A h \in Households : keyfile[h] # 0 => keyfile'[h] # 0]_vars

\* "An entry is refused if its household is already configured, over either
\* transport" (docs/HA_V2_INTEGRATION.md, Limits).
HouseholdOnce ==
    \A e1, e2 \in entries : e1.household = e2.household => e1 = e2

\* "One entry covers one node ... one entry per node" (README.md): adding a
\* node that could be probed ends with an entry for it.
NodeGetsItsEntry ==
    [][\A f \in Flows :
          flows[f].step = "probing" /\ flows'[f].step = "idle" /\ changes' = changes
          => \E e \in entries' : e.unique = flows[f].unique]_vars

\* "rotate the command credential (supply the recovery secret again ...)"
\* (docs/HA_V2_INTEGRATION.md, Options flow): with the options flow over and
\* the entry running, commands are signed with the stored key.
RotationTakesEffect ==
    \A h \in Households :
        up[h] = "listening" /\ (\A f \in Flows : flows[f].household # h)
        => inUse[h] = keyfile[h]
=============================================================================
