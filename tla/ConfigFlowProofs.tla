-------------------------- MODULE ConfigFlowProofs --------------------------
(***************************************************************************)
(* No race of flows duplicates a household over the direct transport or    *)
(* replaces an entry, for any number of flows, households and devices.     *)
(* The argument is about unique ids: a flow that has claimed one holds it  *)
(* alone and unconfigured until its entry exists, and an entry can only be *)
(* in the way of another one through the id or the household it has.       *)
(***************************************************************************)
EXTENDS ConfigFlow, TLAPS

\* A household flow that has left its form with a secret.
Storing == {"loading", "saving", "saved"}
Claims(flow) == flow.kind = "mqtt" /\ flow.step \in Storing

\* What a flow has in hand at each of its steps.
FlowOK(flow) ==
    /\ flow.step = "probing" => flow.kind = "direct"
    /\ flow.kind = "direct" => flow.unique \in Devices
    /\ Claims(flow) => flow.unique = flow.household /\ flow.household \in Households
    /\ flow.kind = "options" /\ flow.step \in Storing => flow.options \in OptionSets

\* An entry's id is its household, or a device that belongs to it.
EntryOK(e) ==
    \/ e.transport = "mqtt" /\ e.household \in Households /\ e = MqttEntry(e.household)
    \/ /\ e.transport = "direct"
       /\ e.unique \in Devices
       /\ e.household = HomeOf[e.unique]

IdsAreClaimedOnce ==
    \A f, g \in Flows :
        f # g /\ flows[f].unique # None => flows[f].unique # flows[g].unique

ClaimedIsFree ==
    \A f \in Flows : Claims(flows[f]) => ~Configured(flows[f].unique)

RunningHasItsEntry ==
    \A h \in Households : up[h] # "down" => MqttEntry(h) \in entries

FlowInv ==
    /\ FlowTypeOK
    /\ \A f \in Flows : FlowOK(flows[f])
    /\ \A e \in entries : EntryOK(e)
    /\ IdsAreClaimedOnce
    /\ ClaimedIsFree
    /\ RunningHasItsEntry

\* The empty flow is well typed and has claimed nothing.
LEMMA NoFlowType ==
    /\ NoFlow \in Flow /\ NoFlow.unique = None /\ ~Claims(NoFlow) /\ FlowOK(NoFlow)
    /\ NoKeys \in [Households -> Keys]
BY FlowAssumption DEF NoFlow, NoKeys, Flow, Step, Keys, Claims, Storing, FlowOK

\* A flow that ends, or goes on with the id it had or one that nobody has, and
\* that claims no household that is configured, keeps what is said of flows.
LEMMA FlowStep ==
    ASSUME FlowInv, NEW f \in Flows, NEW flow \in Flow, Become(f, flow),
           FlowOK(flow),
           \/ flow.unique \in {None, flows[f].unique}
           \/ ~InProgress(f, flow.unique),
           Claims(flow) => ~Configured(flow.unique),
           UNCHANGED entries
    PROVE  /\ flows' \in [Flows -> Flow]
           /\ \A g \in Flows : FlowOK(flows'[g])
           /\ IdsAreClaimedOnce'
           /\ ClaimedIsFree'
<1>1. /\ flows' \in [Flows -> Flow]
      /\ flows'[f] = flow
      /\ \A g \in Flows \ {f} : flows'[g] = flows[g]
  BY DEF Become, FlowInv, FlowTypeOK
<1>2. \A g \in Flows : FlowOK(flows'[g])
  BY <1>1 DEF FlowInv
<1>3. IdsAreClaimedOnce'
  BY <1>1 DEF FlowInv, IdsAreClaimedOnce, InProgress
<1>4. ClaimedIsFree'
  BY <1>1 DEF FlowInv, ClaimedIsFree, Configured
<1> QED
  BY <1>1, <1>2, <1>3, <1>4

\* A flow that ends with an entry nobody else has the id of.
LEMMA EntryStep ==
    ASSUME FlowInv, NEW f \in Flows, Abort(f), NEW e \in Entry, AddEntry(e),
           EntryOK(e), ~Configured(e.unique),
           \A g \in Flows \ {f} : Claims(flows[g]) => flows[g].unique # e.unique,
           UNCHANGED <<keyfile, changes>>, secrets' = secrets
    PROVE  FlowInv' /\ entries' = entries \cup {e}
<1>1. /\ flows' \in [Flows -> Flow]
      /\ flows'[f] = NoFlow
      /\ \A g \in Flows \ {f} : flows'[g] = flows[g]
  BY NoFlowType DEF Abort, Become, FlowInv, FlowTypeOK
<1>2. entries' = entries \cup {e}
  BY DEF AddEntry, Configured
<1>3. \A g \in Flows : FlowOK(flows'[g])
  BY <1>1, NoFlowType DEF FlowInv
<1>4. IdsAreClaimedOnce'
  BY <1>1, NoFlowType DEF FlowInv, IdsAreClaimedOnce
<1>5. ClaimedIsFree'
  BY <1>1, <1>2, NoFlowType DEF FlowInv, ClaimedIsFree, Configured
<1>6. \A x \in entries' : EntryOK(x)
  BY <1>2 DEF FlowInv
<1>7. RunningHasItsEntry'
  <2>1. CASE e.transport = "mqtt"
    <3>1. e = MqttEntry(e.household) /\ up' = [up EXCEPT ![e.household] = "pending"]
      BY <2>1 DEF AddEntry, EntryOK
    <3> QED
      BY <1>2, <3>1 DEF RunningHasItsEntry, FlowInv, FlowTypeOK
  <2>2. CASE e.transport # "mqtt"
    BY <1>2, <2>2 DEF AddEntry, RunningHasItsEntry, FlowInv
  <2> QED
    BY <2>1, <2>2
<1>8. FlowTypeOK'
  BY <1>1, <1>2, FlowAssumption DEF AddEntry, FlowInv, FlowTypeOK, Keys
<1> QED
  BY <1>2, <1>3, <1>4, <1>5, <1>6, <1>7, <1>8 DEF FlowInv

-----------------------------------------------------------------------------
(* What a step does to the entries: the two action properties, and that an   *)
(* entry that runs keeps options that differ from none.                      *)

EntriesStep ==
    /\ \A e \in entries' \ entries : e.transport = "direct" =>
          \A old \in entries : old.household # e.household
    /\ changes' = changes => entries \subseteq entries'
          /\ \A h \in Households :
                up[h] # "down" /\ options[h] # None => options'[h] # None

\* A step that leaves the entries alone.
LEMMA QuietStep ==
    ASSUME UNCHANGED <<entries, options>>
    PROVE  EntriesStep
BY DEF EntriesStep

\* Steps of one flow that leave the entries alone.
LEMMA OwnSteps ==
    ASSUME FlowInv, NEW f \in Flows, NEW flow \in Flow, Become(f, flow),
           FlowOK(flow),
           \/ flow.unique \in {None, flows[f].unique}
           \/ ~InProgress(f, flow.unique),
           Claims(flow) => ~Configured(flow.unique),
           UNCHANGED <<entryVars, changes>>, keyfile' \in [Households -> Keys],
           secrets' \in 0..MaxSecrets
    PROVE  FlowInv' /\ EntriesStep
<1>1. EntriesStep
  BY QuietStep DEF entryVars
<1>2. /\ flows' \in [Flows -> Flow]
      /\ \A g \in Flows : FlowOK(flows'[g])
      /\ IdsAreClaimedOnce'
      /\ ClaimedIsFree'
  BY FlowStep DEF entryVars
<1>3. /\ FlowTypeOK'
      /\ \A e \in entries' : EntryOK(e)
      /\ RunningHasItsEntry'
  BY <1>2 DEF FlowInv, FlowTypeOK, entryVars, RunningHasItsEntry
<1> QED
  BY <1>1, <1>2, <1>3 DEF FlowInv

\* Discovery (async_step_zeroconf, async_step_direct, and a probe that fails).
LEMMA DiscoverySteps ==
    ASSUME FlowInv, NEW f \in Flows,
           \/ \E d \in Devices : async_step_zeroconf(f, d)
           \/ async_step_direct(f) \/ ProbeFails(f)
    PROVE  FlowInv' /\ EntriesStep
<1>0. flows[f] \in Flow /\ FlowOK(flows[f])
      /\ keyfile \in [Households -> Keys] /\ secrets \in 0..MaxSecrets
  BY DEF FlowInv, FlowTypeOK
<1>1. ASSUME NEW d \in Devices, async_step_zeroconf(f, d)
      PROVE  FlowInv' /\ EntriesStep
  <2> DEFINE flow == [NoFlow EXCEPT !.kind = "direct", !.step = "form", !.unique = d]
  <2>1. flow \in Flow /\ flow.unique = d /\ FlowOK(flow) /\ ~Claims(flow)
    BY NoFlowType DEF NoFlow, Flow, Step, FlowOK, Claims, Storing
  <2>2. CASE InProgress(f, d) \/ Configured(d)
    <3>1. Become(f, NoFlow) /\ UNCHANGED <<entryVars, keyfile, secrets, changes>>
      BY <1>1, <2>2 DEF async_step_zeroconf, Abort
    <3> QED
      BY <1>0, <3>1, NoFlowType, OwnSteps
  <2>3. CASE ~InProgress(f, d) /\ ~Configured(d)
    BY <1>0, <1>1, <2>1, <2>3, OwnSteps DEF async_step_zeroconf
  <2> QED
    BY <2>2, <2>3
<1>2. ASSUME async_step_direct(f)
      PROVE  FlowInv' /\ EntriesStep
  <2> DEFINE flow == [flows[f] EXCEPT !.step = "probing"]
  <2>1. flow \in Flow /\ flow.unique = flows[f].unique /\ FlowOK(flow) /\ ~Claims(flow)
    BY <1>0, <1>2 DEF async_step_direct, Flow, Step, FlowOK, Claims, Storing
  <2> QED
    BY <1>0, <1>2, <2>1, OwnSteps DEF async_step_direct
<1>3. ASSUME ProbeFails(f)
      PROVE  FlowInv' /\ EntriesStep
  <2> DEFINE flow == [flows[f] EXCEPT !.step = "form"]
  <2>1. flow \in Flow /\ flow.unique = flows[f].unique /\ FlowOK(flow) /\ ~Claims(flow)
    BY <1>0, <1>3 DEF ProbeFails, Flow, Step, FlowOK, Claims, Storing
  <2> QED
    BY <1>0, <1>3, <2>1, OwnSteps DEF ProbeFails
<1> QED
  BY <1>1, <1>2, <1>3

\* Nobody else's entry can be in the way of a device whose household has none
\* (_async_create_direct_entry).
LEMMA CreateDirectStep ==
    ASSUME FlowInv, NEW f \in Flows, async_create_direct_entry(f)
    PROVE  FlowInv' /\ EntriesStep
<1> DEFINE h == HomeOf[flows[f].unique]
           e == [transport |-> "direct", unique |-> flows[f].unique, household |-> h]
<1>1. flows[f] \in Flow /\ flows[f].unique \in Devices /\ h \in Households
  BY FlowAssumption DEF FlowInv, FlowTypeOK, FlowOK, async_create_direct_entry
<1>2. CASE Taken(h)
  <2>1. Become(f, NoFlow) /\ UNCHANGED <<entryVars, keyfile, secrets, changes>>
    BY <1>2 DEF async_create_direct_entry, Abort
  <2> QED
    BY <2>1, NoFlowType, OwnSteps DEF FlowInv, FlowTypeOK
<1>3. CASE ~Taken(h)
  <2>1. e \in Entry /\ EntryOK(e) /\ e.unique = flows[f].unique
        /\ e.household = h /\ e.transport = "direct"
    BY <1>1 DEF Entry, EntryOK
  <2>2. AddEntry(e) /\ Abort(f) /\ UNCHANGED <<keyfile, secrets, changes>>
    BY <1>3 DEF async_create_direct_entry
  <2> HIDE DEF e
  <2>3. ~Configured(e.unique)
    <3>1. SUFFICES ASSUME NEW old \in entries, old.unique = e.unique PROVE FALSE
      BY DEF Configured
    <3>2. EntryOK(old)
      BY DEF FlowInv
    <3>3. old.household = h
      BY <1>1, <2>1, <3>1, <3>2, FlowAssumption DEF EntryOK, MqttEntry
    <3> QED
      BY <1>3, <3>3 DEF Taken
  <2>4. \A g \in Flows \ {f} : Claims(flows[g]) => flows[g].unique # e.unique
    BY <1>1, <2>1, FlowAssumption DEF FlowInv, FlowOK
  <2>5. FlowInv' /\ entries' = entries \cup {e}
    BY <2>1, <2>2, <2>3, <2>4, EntryStep
  <2>6. UNCHANGED options
    BY <2>1, <2>2 DEF AddEntry
  <2>7. \A old \in entries : old.household # e.household
    BY <1>3, <2>1 DEF Taken
  <2> QED
    BY <2>5, <2>6, <2>7 DEF EntriesStep
<1> QED
  BY <1>2, <1>3

\* An MQTT entry for a household that has none, made by the flow that alone has
\* its id (async_step_household).
LEMMA AddMqttStep ==
    ASSUME FlowInv, NEW f \in Flows, NEW h \in Households,
           ~Configured(h), AddEntry(MqttEntry(h)), Abort(f),
           \A g \in Flows \ {f} : Claims(flows[g]) => flows[g].unique # h,
           UNCHANGED <<keyfile, secrets, changes>>
    PROVE  FlowInv' /\ EntriesStep
<1> DEFINE e == MqttEntry(h)
<1>1. e \in Entry /\ EntryOK(e) /\ e.unique = h /\ e.household = h
      /\ e.transport = "mqtt"
  BY DEF MqttEntry, Entry, EntryOK
<1> HIDE DEF e
<1>2. FlowInv' /\ entries' = entries \cup {e}
  BY <1>1, EntryStep DEF e
<1>3. up[h] = "down"
  <2>1. MqttEntry(h) \notin entries
    BY <1>1 DEF Configured, e
  <2> QED
    BY <2>1 DEF FlowInv, RunningHasItsEntry
<1>4. options' = [options EXCEPT ![h] = None] /\ options \in [Households -> OptionSets \cup {None}]
  BY <1>1 DEF AddEntry, e, FlowInv, FlowTypeOK
<1> QED
  BY <1>1, <1>2, <1>3, <1>4 DEF EntriesStep

\* A secret starts a save (async_step_household, async_step_init).
LEMMA SecretStep ==
    ASSUME FlowInv, NEW f \in Flows, NEW flow \in Flow, EnterSecret(f, flow),
           flow.kind \in {"mqtt", "options"},
           \/ flow.unique = flows[f].unique
           \/ ~InProgress(f, flow.unique),
           flow.kind = "mqtt" =>
               /\ flow.unique = flow.household /\ flow.household \in Households
               /\ ~Configured(flow.unique),
           flow.kind = "options" => flow.options \in OptionSets,
           UNCHANGED <<entryVars, keyfile, changes>>
    PROVE  FlowInv' /\ EntriesStep
<1> DEFINE new == [flow EXCEPT !.step = "loading", !.key = secrets + 1]
<1>1. Become(f, new) /\ secrets' \in 0..MaxSecrets /\ secrets + 1 \in Keys
  BY FlowAssumption DEF EnterSecret, FlowInv, FlowTypeOK, Keys
<1>2. new \in Flow /\ new.kind = flow.kind /\ new.unique = flow.unique
      /\ new.household = flow.household /\ new.options = flow.options
      /\ new.step = "loading"
  BY <1>1 DEF Flow, Step
<1> HIDE DEF new
<1>3. FlowOK(new) /\ (Claims(new) => ~Configured(new.unique))
  BY <1>2 DEF FlowOK, Claims, Storing
<1>4. keyfile' \in [Households -> Keys]
  BY DEF FlowInv, FlowTypeOK
<1> QED
  BY <1>1, <1>2, <1>3, <1>4, OwnSteps

\* The household step and the end of its save.
LEMMA HouseholdSteps ==
    ASSUME FlowInv, NEW f \in Flows,
           \/ \E h \in Households : async_step_household(f, h)
           \/ async_step_user(f) \/ CreateMqttEntry(f)
    PROVE  FlowInv' /\ EntriesStep
<1>0. flows[f] \in Flow /\ FlowOK(flows[f])
      /\ keyfile \in [Households -> Keys] /\ secrets \in 0..MaxSecrets
  BY DEF FlowInv, FlowTypeOK
<1>1. ASSUME NEW h \in Households, async_step_household(f, h)
      PROVE  FlowInv' /\ EntriesStep
  <2>0. flows[f].kind = "mqtt" /\ UNCHANGED <<keyfile, changes>>
    BY <1>1 DEF async_step_household
  <2>1. CASE Abort(f) /\ UNCHANGED <<entryVars, secrets>>
    BY <1>0, <2>0, <2>1, NoFlowType, OwnSteps DEF Abort
  <2>2. CASE /\ ~InProgress(f, h) /\ ~Configured(h)
             /\ EnterSecret(f, [flows[f] EXCEPT !.unique = h, !.household = h])
             /\ UNCHANGED entryVars
    <3> DEFINE flow == [flows[f] EXCEPT !.unique = h, !.household = h]
    <3>1. flow \in Flow /\ flow.kind = "mqtt" /\ flow.unique = h /\ flow.household = h
      BY <1>0, <2>0 DEF Flow
    <3> HIDE DEF flow
    <3> QED
      BY <2>0, <2>2, <3>1, SecretStep DEF flow
  <2>3. CASE /\ ~InProgress(f, h) /\ ~Configured(h)
             /\ AddEntry(MqttEntry(h)) /\ Abort(f) /\ UNCHANGED secrets
    <3>1. \A g \in Flows \ {f} : flows[g].unique # h
      BY <2>3 DEF InProgress
    <3> QED
      BY <2>0, <2>3, <3>1, AddMqttStep
  <2> QED
    BY <1>1, <2>1, <2>2, <2>3 DEF async_step_household
<1>2. ASSUME async_step_user(f)
      PROVE  FlowInv' /\ EntriesStep
  <2> DEFINE flow == [NoFlow EXCEPT !.kind = "mqtt", !.step = "form"]
  <2>1. flow \in Flow /\ flow.unique = None /\ FlowOK(flow) /\ ~Claims(flow)
    BY NoFlowType DEF NoFlow, Flow, Step, FlowOK, Claims, Storing
  <2> QED
    BY <1>0, <1>2, <2>1, OwnSteps DEF async_step_user
<1>3. ASSUME CreateMqttEntry(f)
      PROVE  FlowInv' /\ EntriesStep
  <2> DEFINE h == flows[f].household
  <2>1. Claims(flows[f]) /\ h \in Households /\ flows[f].unique = h
    BY <1>0, <1>3 DEF CreateMqttEntry, Claims, Storing, FlowOK
  <2>2. ~Configured(h)
    BY <2>1 DEF FlowInv, ClaimedIsFree
  <2>3. \A g \in Flows \ {f} : flows[g].unique # h
    BY <2>1, FlowAssumption DEF FlowInv, IdsAreClaimedOnce
  <2>4. AddEntry(MqttEntry(h)) /\ Abort(f) /\ UNCHANGED <<keyfile, secrets, changes>>
    BY <1>3 DEF CreateMqttEntry
  <2> HIDE DEF h
  <2> QED
    BY <2>1, <2>2, <2>3, <2>4, AddMqttStep
<1> QED
  BY <1>1, <1>2, <1>3

\* The key store: the claim is kept through load and save (credential.py).
LEMMA StoreSteps ==
    ASSUME FlowInv, NEW f \in Flows,
           async_load(f) \/ InvalidSecret(f) \/ async_save(f)
    PROVE  FlowInv' /\ EntriesStep
<1>0. flows[f] \in Flow /\ FlowOK(flows[f])
      /\ keyfile \in [Households -> Keys] /\ secrets \in 0..MaxSecrets
      /\ (Claims(flows[f]) => ~Configured(flows[f].unique))
  BY DEF FlowInv, FlowTypeOK, ClaimedIsFree
<1>1. ASSUME async_load(f)
      PROVE  FlowInv' /\ EntriesStep
  <2> DEFINE cache == [keyfile EXCEPT ![flows[f].household] = flows[f].key]
             flow == [flows[f] EXCEPT !.step = "saving", !.cache = cache]
  <2>1. cache \in [Households -> Keys] /\ flows[f].step = "loading"
    BY <1>0, <1>1 DEF Flow, async_load
  <2> HIDE DEF cache
  <2>2. flow \in Flow /\ flow.unique = flows[f].unique /\ FlowOK(flow)
        /\ Claims(flow) = Claims(flows[f])
    BY <1>0, <2>1 DEF Flow, Step, FlowOK, Claims, Storing
  <2>3. Become(f, flow) /\ UNCHANGED <<entryVars, keyfile, secrets, changes>>
    BY <1>1 DEF async_load, cache
  <2> HIDE DEF flow
  <2> QED
    BY <1>0, <2>2, <2>3, OwnSteps
<1>2. ASSUME InvalidSecret(f)
      PROVE  FlowInv' /\ EntriesStep
  <2> DEFINE flow == [flows[f] EXCEPT !.step = "form", !.key = 0]
  <2>0. 0 \in Keys
    BY FlowAssumption DEF Keys
  <2>1. flow \in Flow /\ flow.unique = flows[f].unique /\ FlowOK(flow) /\ ~Claims(flow)
    BY <1>0, <1>2, <2>0 DEF InvalidSecret, Flow, Step, FlowOK, Claims, Storing
  <2> QED
    BY <1>0, <1>2, <2>1, OwnSteps DEF InvalidSecret
<1>3. ASSUME async_save(f)
      PROVE  FlowInv' /\ EntriesStep
  <2> DEFINE flow == [flows[f] EXCEPT !.step = "saved"]
  <2>1. flow \in Flow /\ flow.unique = flows[f].unique /\ FlowOK(flow)
        /\ Claims(flow) = Claims(flows[f])
    BY <1>0, <1>3 DEF async_save, Flow, Step, FlowOK, Claims, Storing
  <2>2. keyfile' \in [Households -> Keys]
    BY <1>0, <1>3 DEF async_save, Flow
  <2>3. Become(f, flow) /\ UNCHANGED <<entryVars, secrets, changes>>
    BY <1>3 DEF async_save
  <2> HIDE DEF flow
  <2> QED
    BY <1>0, <2>1, <2>2, <2>3, OwnSteps
<1> QED
  BY <1>1, <1>2, <1>3

\* New options reach the entry they were given for, and are never none
\* (async_step_init).
LEMMA UpdateStep ==
    ASSUME FlowInv, NEW f \in Flows, NEW h, NEW new \in OptionSets,
           UpdateOptions(h, new), Abort(f), UNCHANGED <<keyfile, secrets, changes>>
    PROVE  FlowInv' /\ EntriesStep
<1>1. new # None
  BY FlowAssumption
<1>2. /\ entries' = entries /\ inUse' = inUse
      /\ options' \in [Households -> OptionSets \cup {None}]
      /\ \A x \in Households : options[x] # None => options'[x] # None
      /\ up' \in [Households -> {"down", "pending", "starting", "listening"}]
      /\ \A x \in Households : up'[x] # "down" => up[x] # "down"
  BY <1>1 DEF UpdateOptions, entryVars, FlowInv, FlowTypeOK
<1>3. /\ flows' \in [Flows -> Flow]
      /\ \A g \in Flows : FlowOK(flows'[g])
      /\ IdsAreClaimedOnce'
      /\ ClaimedIsFree'
  BY <1>2, NoFlowType, FlowStep DEF Abort
<1>4. FlowTypeOK'
  BY <1>2, <1>3 DEF FlowInv, FlowTypeOK
<1>5. RunningHasItsEntry' /\ \A e \in entries' : EntryOK(e)
  BY <1>2 DEF FlowInv, RunningHasItsEntry
<1>6. EntriesStep
  BY <1>2 DEF EntriesStep
<1> QED
  BY <1>3, <1>4, <1>5, <1>6 DEF FlowInv

\* The options flow, from its form to the stored options (async_step_init).
LEMMA OptionsSteps ==
    ASSUME FlowInv, NEW f \in Flows,
           \/ \E h \in Households : async_step_init(f, h)
           \/ SubmitOptions(f) \/ OptionsSaved(f)
    PROVE  FlowInv' /\ EntriesStep
<1>0. flows[f] \in Flow /\ FlowOK(flows[f])
      /\ keyfile \in [Households -> Keys] /\ secrets \in 0..MaxSecrets
  BY DEF FlowInv, FlowTypeOK
<1>1. ASSUME NEW h \in Households, async_step_init(f, h)
      PROVE  FlowInv' /\ EntriesStep
  <2> DEFINE flow == [NoFlow EXCEPT !.kind = "options", !.step = "form",
                                    !.household = h]
  <2>1. flow \in Flow /\ flow.unique = None /\ FlowOK(flow) /\ ~Claims(flow)
    BY NoFlowType DEF NoFlow, Flow, Step, FlowOK, Claims, Storing
  <2> QED
    BY <1>0, <1>1, <2>1, OwnSteps DEF async_step_init
<1>2. ASSUME SubmitOptions(f)
      PROVE  FlowInv' /\ EntriesStep
  <2>0. flows[f].kind = "options" /\ UNCHANGED <<keyfile, changes>>
    BY <1>2 DEF SubmitOptions
  <2>1. ASSUME NEW new \in OptionSets,
               EnterSecret(f, [flows[f] EXCEPT !.options = new]), UNCHANGED entryVars
        PROVE  FlowInv' /\ EntriesStep
    <3> DEFINE flow == [flows[f] EXCEPT !.options = new]
    <3>1. flow \in Flow /\ flow.kind = "options" /\ flow.options = new
          /\ flow.unique = flows[f].unique
      BY <1>0, <2>0 DEF Flow
    <3> HIDE DEF flow
    <3> QED
      BY <2>0, <2>1, <3>1, SecretStep DEF flow
  <2> QED
    BY <1>2, <2>0, <2>1, UpdateStep DEF SubmitOptions
<1>3. ASSUME OptionsSaved(f)
      PROVE  FlowInv' /\ EntriesStep
  <2>1. flows[f].options \in OptionSets
    BY <1>0, <1>3 DEF OptionsSaved, FlowOK, Storing
  <2> QED
    BY <1>3, <2>1, UpdateStep DEF OptionsSaved
<1> QED
  BY <1>1, <1>2, <1>3

\* Setups, closed forms, removed entries and restarts.
LEMMA OtherSteps ==
    ASSUME FlowInv,
           \/ \E h \in Households : SetupLoadsKeys(h) \/ SetupListens(h)
           \/ \E f \in Flows : CloseForm(f)
           \/ \E e \in entries : RemoveEntry(e)
           \/ Restart
    PROVE  FlowInv' /\ EntriesStep
<1> USE FlowAssumption
<1>1. ASSUME NEW h \in Households, SetupLoadsKeys(h) \/ SetupListens(h)
      PROVE  FlowInv' /\ EntriesStep
  BY <1>1
  DEF SetupLoadsKeys, SetupListens, FlowInv, FlowTypeOK, IdsAreClaimedOnce,
      ClaimedIsFree, Configured, RunningHasItsEntry, EntriesStep
<1>2. ASSUME NEW f \in Flows, CloseForm(f)
      PROVE  FlowInv' /\ EntriesStep
  BY <1>2, NoFlowType, OwnSteps DEF CloseForm, Abort, FlowInv, FlowTypeOK
<1>3. ASSUME NEW e \in entries, RemoveEntry(e)
      PROVE  FlowInv' /\ EntriesStep
  <2>1. /\ changes' \in 0..MaxChanges /\ changes' # changes
        /\ entries' = entries \ {e}
        /\ UNCHANGED <<flows, keyfile, secrets>>
    BY <1>3 DEF RemoveEntry, FlowInv, FlowTypeOK
  <2>2. FlowTypeOK'
    BY <1>3, <2>1 DEF RemoveEntry, FlowInv, FlowTypeOK, Keys
  <2>3. RunningHasItsEntry'
    <3>1. EntryOK(e)
      BY DEF FlowInv
    <3>2. CASE e.transport = "mqtt"
      <4>1. e = MqttEntry(e.household) /\ up' = [up EXCEPT ![e.household] = "down"]
        BY <1>3, <3>1, <3>2 DEF RemoveEntry, EntryOK
      <4>2. \A h \in Households : h # e.household => MqttEntry(h) # e
        BY DEF MqttEntry
      <4> QED
        BY <2>1, <4>1, <4>2 DEF FlowInv, FlowTypeOK, RunningHasItsEntry
    <3>3. CASE e.transport # "mqtt"
      <4>1. up' = up /\ \A h \in Households : MqttEntry(h) # e
        BY <1>3, <3>3 DEF RemoveEntry, MqttEntry
      <4> QED
        BY <2>1, <4>1 DEF FlowInv, RunningHasItsEntry
    <3> QED
      BY <3>2, <3>3
  <2> QED
    BY <2>1, <2>2, <2>3
    DEF FlowInv, IdsAreClaimedOnce, ClaimedIsFree, Configured, EntriesStep
<1>4. ASSUME Restart
      PROVE  FlowInv' /\ EntriesStep
  <2>1. /\ changes' \in 0..MaxChanges /\ changes' # changes
        /\ UNCHANGED <<entries, options, keyfile, secrets>>
        /\ \A f \in Flows : flows'[f] = NoFlow
        /\ flows' \in [Flows -> Flow]
    BY <1>4, NoFlowType DEF Restart, FlowInv, FlowTypeOK
  <2>2. FlowTypeOK' /\ RunningHasItsEntry'
    BY <1>4, <2>1, NoFlowType DEF Restart, FlowInv, FlowTypeOK, RunningHasItsEntry
  <2> QED
    BY <2>1, <2>2, NoFlowType
    DEF FlowInv, IdsAreClaimedOnce, ClaimedIsFree, EntriesStep
<1> QED
  BY <1>1, <1>2, <1>3, <1>4

\* Every step keeps the invariant, and does to the entries what it may.
LEMMA FlowStepsAreSafe ==
    ASSUME FlowInv, [FlowNext]_vars
    PROVE  FlowInv' /\ (EntriesStep \/ UNCHANGED vars)
<1>1. CASE UNCHANGED vars
  BY <1>1
  DEF vars, entryVars, FlowInv, FlowTypeOK, IdsAreClaimedOnce, ClaimedIsFree,
      Configured, RunningHasItsEntry
<1>2. CASE FlowNext
  BY <1>2, DiscoverySteps, CreateDirectStep, HouseholdSteps, StoreSteps,
     OptionsSteps, OtherSteps DEF FlowNext
<1> QED
  BY <1>1, <1>2

\* The strengthened invariant holds of every run.
LEMMA FlowInvariance == FlowSpec => []FlowInv
<1>1. FlowInit => FlowInv
  BY NoFlowType, FlowAssumption
  DEF FlowInit, FlowInv, FlowTypeOK, NoKeys, Keys, IdsAreClaimedOnce,
      ClaimedIsFree, RunningHasItsEntry
<1>2. FlowInv /\ [FlowNext]_vars => FlowInv'
  BY FlowStepsAreSafe
<1> QED
  BY <1>1, <1>2, PTL DEF FlowSpec

-----------------------------------------------------------------------------
\* Entries, flows, keys and options stay well typed (config_flow.py,
\* credential.py).
THEOREM FlowTypeCorrect == FlowSpec => []FlowTypeOK
BY FlowInvariance, PTL DEF FlowInv

\* However many flows race, discovery adds no entry for a household that has
\* one (_async_create_direct_entry).
THEOREM DiscoveryNeverDuplicates == FlowSpec => DirectNeverDuplicates
<1>1. FlowInv /\ [FlowNext]_vars =>
        [\A e \in entries' \ entries : e.transport = "direct" =>
            \A old \in entries : old.household # e.household]_vars
  BY FlowStepsAreSafe DEF EntriesStep
<1> QED
  BY <1>1, FlowInvariance, PTL DEF FlowSpec, DirectNeverDuplicates

\* However many flows race, none takes the place of an entry, or of its options
\* (async_step_household claims the unique id before it first suspends).
THEOREM EntriesStay == FlowSpec => EntriesAreNeverReplaced
<1>1. FlowInv /\ [FlowNext]_vars =>
        [changes' = changes => entries \subseteq entries'
            /\ \A h \in Households :
                  up[h] # "down" /\ options[h] # None => options'[h] # None]_vars
  BY FlowStepsAreSafe DEF EntriesStep
<1> QED
  BY <1>1, FlowInvariance, PTL DEF FlowSpec, EntriesAreNeverReplaced

-----------------------------------------------------------------------------
(* What keeps the disagreements in their place: one entry for each transport *)
(* of a household, and no key lost while the stores take turns with the file.*)

OncePerTransport ==
    \A e1, e2 \in entries :
        e1.household = e2.household /\ e1.transport = e2.transport => e1 = e2

\* What a step may add to the entries: one, and a direct one only where there
\* is none (AddEntry, async_create_direct_entry).
LEMMA OneEntryAtATime ==
    ASSUME FlowInv, [FlowNext]_vars
    PROVE  \E e : entries' \subseteq entries \cup {e}
<1> USE DEF entryVars
<1>1. CASE UNCHANGED vars
  BY <1>1 DEF vars
<1>2. ASSUME NEW e, AddEntry(e)
      PROVE  entries' \subseteq entries \cup {e}
  BY <1>2 DEF AddEntry
<1>3. ASSUME NEW h, NEW new, UpdateOptions(h, new)
      PROVE  entries' = entries
  BY <1>3 DEF UpdateOptions
<1>4. ASSUME NEW f \in Flows,
             \/ async_step_direct(f) \/ ProbeFails(f) \/ async_create_direct_entry(f)
             \/ async_step_user(f) \/ CreateMqttEntry(f)
             \/ async_load(f) \/ InvalidSecret(f) \/ async_save(f)
             \/ SubmitOptions(f) \/ OptionsSaved(f) \/ CloseForm(f)
             \/ \E d \in Devices : async_step_zeroconf(f, d)
             \/ \E h \in Households : async_step_household(f, h) \/ async_step_init(f, h)
      PROVE  \E e : entries' \subseteq entries \cup {e}
  BY <1>2, <1>3, <1>4
  DEF async_step_direct, ProbeFails, async_create_direct_entry, async_step_user,
      CreateMqttEntry, async_load, InvalidSecret, async_save, SubmitOptions,
      OptionsSaved, CloseForm, async_step_zeroconf, async_step_household,
      async_step_init
<1>5. CASE FlowNext
  BY <1>4, <1>5 DEF FlowNext, SetupLoadsKeys, SetupListens, RemoveEntry, Restart
<1> QED
  BY <1>1, <1>5

\* Two entries of one household are never of one transport, however flows race:
\* that an entry is refused "if its household is already configured" fails only
\* across the transports (async_step_household, async_create_direct_entry).
THEOREM HouseholdOncePerTransport == FlowSpec => []OncePerTransport
<1>1. FlowInit => OncePerTransport
  BY DEF FlowInit, OncePerTransport
<1>2. FlowInv /\ OncePerTransport /\ [FlowNext]_vars => OncePerTransport'
  <2> SUFFICES ASSUME FlowInv, OncePerTransport, [FlowNext]_vars
               PROVE  OncePerTransport'
    OBVIOUS
  <2>1. PICK e : entries' \subseteq entries \cup {e}
    BY OneEntryAtATime
  <2>2. FlowInv' /\ (EntriesStep \/ UNCHANGED vars)
    BY FlowStepsAreSafe
  <2>3. \A x \in entries' : EntryOK(x)
    BY <2>2 DEF FlowInv
  <2>4. \A x, y \in entries' : x.household = y.household /\ x.transport = y.transport
            /\ x.transport = "mqtt" => x = y
    BY <2>3 DEF EntryOK
  <2>5. \A x, y \in entries' : x.household = y.household /\ x.transport = y.transport
            /\ x.transport = "direct" => x = y
    BY <2>1, <2>2 DEF EntriesStep, OncePerTransport, vars, entryVars
  <2> QED
    BY <2>3, <2>4, <2>5 DEF OncePerTransport, EntryOK
<1> QED
  BY <1>1, <1>2, FlowInvariance, PTL DEF FlowSpec

\* No two stores hold a copy of the key file that is yet to be written.
SavesTakeTurns ==
    \A f, g \in Flows :
        flows[f].step = "saving" /\ flows[g].step = "saving" => f = g

\* A key is on its way to the file, in a copy of all that the file has.
CopyOK(flow) ==
    /\ flow.step = "loading" => flow.key # 0
    /\ flow.step = "saving" =>
         \A h \in Households : keyfile[h] # 0 => flow.cache[h] # 0
CopiesOK == \A f \in Flows : CopyOK(flows[f])

\* A step that goes on with one flow, and leaves the file alone.
LEMMA CopyStep ==
    ASSUME FlowInv, CopiesOK, NEW f \in Flows, NEW flow, Become(f, flow),
           CopyOK(flow), UNCHANGED keyfile
    PROVE  CopiesOK'
BY DEF Become, CopiesOK, CopyOK, FlowInv, FlowTypeOK

\* The empty flow holds no copy.
LEMMA NoCopy == CopyOK(NoFlow)
BY DEF NoFlow, CopyOK

\* A secret has an ordinal, and so its key is one (_derive_key).
LEMMA SecretCopy ==
    ASSUME FlowInv, CopiesOK, NEW f \in Flows, NEW flow \in Flow,
           EnterSecret(f, flow), UNCHANGED keyfile
    PROVE  CopiesOK'
<1> DEFINE next == [flow EXCEPT !.step = "loading", !.key = secrets + 1]
<1>1. secrets + 1 # 0
  BY FlowAssumption DEF FlowInv, FlowTypeOK
<1>2. next.step = "loading" /\ next.key = secrets + 1
  BY DEF Flow
<1>3. Become(f, next)
  BY DEF EnterSecret
<1> HIDE DEF next
<1> QED
  BY <1>1, <1>2, <1>3, CopyStep DEF CopyOK

\* What a step does to the file: it is only written whole, from a copy that was
\* complete when it was made and that no other store has written behind
\* (CommandKeyStore.async_load, async_save).
LEMMA FileStep ==
    ASSUME FlowInv, CopiesOK, SavesTakeTurns, [FlowNext]_vars
    PROVE  CopiesOK' /\ \A h \in Households : keyfile[h] # 0 => keyfile'[h] # 0
<1> DEFINE Kept == \A h \in Households : keyfile[h] # 0 => keyfile'[h] # 0
<1>0. /\ flows \in [Flows -> Flow] /\ keyfile \in [Households -> Keys]
  BY DEF FlowInv, FlowTypeOK
<1>1. CASE UNCHANGED vars
  BY <1>1 DEF vars, CopiesOK, CopyOK
<1>2. ASSUME NEW f \in Flows, async_load(f)
      PROVE  CopiesOK' /\ Kept
  <2> DEFINE cache == [keyfile EXCEPT ![flows[f].household] = flows[f].key]
             flow == [flows[f] EXCEPT !.step = "saving", !.cache = cache]
  <2>1. flows[f].key # 0
    BY <1>2 DEF async_load, CopiesOK, CopyOK
  <2>2. \A h \in Households : keyfile[h] # 0 => cache[h] # 0
    BY <1>0, <2>1
  <2> HIDE DEF cache
  <2>3. flow.step = "saving" /\ flow.cache = cache
    BY <1>0 DEF Flow
  <2>4. Become(f, flow) /\ UNCHANGED keyfile
    BY <1>2 DEF async_load, cache
  <2> HIDE DEF flow
  <2> QED
    BY <2>2, <2>3, <2>4, CopyStep DEF CopyOK
<1>3. ASSUME NEW f \in Flows, async_save(f)
      PROVE  CopiesOK' /\ Kept
  <2>1. /\ flows[f].step = "saving"
        /\ keyfile' = flows[f].cache
        /\ flows' = [flows EXCEPT ![f] = [flows[f] EXCEPT !.step = "saved"]]
    BY <1>3 DEF async_save, Become
  <2>2. Kept
    BY <2>1 DEF CopiesOK, CopyOK
  <2>3. CopyOK(flows[f])'
    BY <1>0, <2>1 DEF CopyOK, Flow
  <2>4. \A g \in Flows \ {f} : flows'[g] = flows[g] /\ flows[g].step # "saving"
    BY <1>0, <2>1 DEF SavesTakeTurns
  <2>5. \A g \in Flows \ {f} : CopyOK(flows[g])'
    BY <2>4 DEF CopiesOK, CopyOK
  <2> QED
    BY <2>2, <2>3, <2>5 DEF CopiesOK
<1>4. ASSUME NEW f \in Flows,
             \/ \E h \in Households : async_step_household(f, h)
             \/ SubmitOptions(f)
      PROVE  CopiesOK' /\ Kept
  <2>0. flows[f] \in Flow
    BY <1>0
  <2>1. UNCHANGED keyfile
    <3>1. ASSUME NEW h \in Households, async_step_household(f, h)
          PROVE  UNCHANGED keyfile
      BY <3>1 DEF async_step_household
    <3>2. SubmitOptions(f) => UNCHANGED keyfile
      BY DEF SubmitOptions
    <3> QED
      BY <1>4, <3>1, <3>2
  <2>2. Abort(f) => CopiesOK'
    BY <2>1, NoCopy, CopyStep DEF Abort
  <2>3. ASSUME NEW flow \in Flow
        PROVE  EnterSecret(f, flow) => CopiesOK'
    BY <2>1, SecretCopy
  <2>4. ASSUME NEW h \in Households, async_step_household(f, h)
        PROVE  CopiesOK'
    <3> DEFINE flow == [flows[f] EXCEPT !.unique = h, !.household = h]
    <3>1. flow \in Flow
      BY <2>0 DEF Flow
    <3>2. EnterSecret(f, flow) \/ Abort(f)
      BY <2>4 DEF async_step_household
    <3> HIDE DEF flow
    <3> QED
      BY <2>2, <2>3, <3>1, <3>2
  <2>5. ASSUME NEW new \in OptionSets,
               EnterSecret(f, [flows[f] EXCEPT !.options = new])
        PROVE  CopiesOK'
    <3> DEFINE flow == [flows[f] EXCEPT !.options = new]
    <3>1. flow \in Flow
      BY <2>0 DEF Flow
    <3> HIDE DEF flow
    <3> QED
      BY <2>3, <2>5, <3>1 DEF flow
  <2>6. SubmitOptions(f) => CopiesOK'
    BY <2>2, <2>5 DEF SubmitOptions
  <2> QED
    BY <1>4, <2>1, <2>4, <2>6
<1>5. ASSUME NEW f \in Flows,
             \/ async_create_direct_entry(f) \/ CreateMqttEntry(f)
             \/ OptionsSaved(f) \/ CloseForm(f)
      PROVE  CopiesOK' /\ Kept
  BY <1>5, NoCopy, CopyStep
  DEF async_create_direct_entry, CreateMqttEntry, OptionsSaved, CloseForm, Abort
<1>6. ASSUME NEW f \in Flows,
             \/ async_step_direct(f) \/ ProbeFails(f) \/ async_step_user(f)
             \/ InvalidSecret(f)
             \/ \E d \in Devices : async_step_zeroconf(f, d)
             \/ \E h \in Households : async_step_init(f, h)
      PROVE  CopiesOK' /\ Kept
  <2>0. flows[f] \in Flow
    BY <1>0
  <2>1. \E flow : Become(f, flow) /\ flow.step \in {"idle", "form", "probing"}
    <3>1. \A step \in Step : [flows[f] EXCEPT !.step = step].step = step
      BY <2>0 DEF Flow
    <3>2. [flows[f] EXCEPT !.step = "form", !.key = 0].step = "form"
      BY <2>0 DEF Flow
    <3>3. CASE async_step_direct(f) \/ ProbeFails(f) \/ InvalidSecret(f)
      BY <3>1, <3>2, <3>3 DEF async_step_direct, ProbeFails, InvalidSecret, Step
    <3>4. ASSUME async_step_user(f)
          PROVE  \E flow : Become(f, flow) /\ flow.step \in {"idle", "form", "probing"}
      <4> DEFINE flow == [NoFlow EXCEPT !.kind = "mqtt", !.step = "form"]
      <4>1. flow.step = "form"
        BY DEF NoFlow
      <4>2. Become(f, flow)
        BY <3>4 DEF async_step_user
      <4> HIDE DEF flow
      <4> QED
        BY <4>1, <4>2
    <3>5. ASSUME NEW d \in Devices, async_step_zeroconf(f, d)
          PROVE  \E flow : Become(f, flow) /\ flow.step \in {"idle", "form", "probing"}
      <4> DEFINE flow == [NoFlow EXCEPT !.kind = "direct", !.step = "form",
                                        !.unique = d]
      <4>1. flow.step = "form"
        BY DEF NoFlow
      <4>2. Become(f, flow) \/ Become(f, NoFlow)
        BY <3>5 DEF async_step_zeroconf, Abort
      <4>3. NoFlow.step = "idle"
        BY DEF NoFlow
      <4> HIDE DEF flow
      <4> QED
        BY <4>1, <4>2, <4>3
    <3>6. ASSUME NEW h \in Households, async_step_init(f, h)
          PROVE  \E flow : Become(f, flow) /\ flow.step \in {"idle", "form", "probing"}
      <4> DEFINE flow == [NoFlow EXCEPT !.kind = "options", !.step = "form",
                                        !.household = h]
      <4>1. flow.step = "form"
        BY DEF NoFlow
      <4>2. Become(f, flow)
        BY <3>6 DEF async_step_init
      <4> HIDE DEF flow
      <4> QED
        BY <4>1, <4>2
    <3> QED
      BY <1>6, <3>3, <3>4, <3>5, <3>6
  <2>2. UNCHANGED keyfile
    BY <1>6
    DEF async_step_direct, ProbeFails, async_step_user, InvalidSecret,
        async_step_zeroconf, async_step_init
  <2> QED
    BY <2>1, <2>2, CopyStep DEF CopyOK
<1>7. ASSUME \/ \E h \in Households : SetupLoadsKeys(h) \/ SetupListens(h)
             \/ \E e \in entries : RemoveEntry(e)
      PROVE  CopiesOK' /\ Kept
  BY <1>7 DEF SetupLoadsKeys, SetupListens, RemoveEntry, CopiesOK, CopyOK
<1>8. ASSUME Restart
      PROVE  CopiesOK' /\ Kept
  BY <1>8, NoCopy DEF Restart, CopiesOK, CopyOK
<1> QED
  BY <1>1, <1>2, <1>3, <1>4, <1>5, <1>6, <1>7, <1>8 DEF FlowNext

\* "Persists derived command keys, one per household" (credential.py) is true
\* while the stores take turns: a key is lost only when two of them hold a copy
\* of the file at once (CommandKeyStore, one instance per flow).
THEOREM SerialSavesKeepTheKeys == FlowSpec /\ []SavesTakeTurns => KeysAreKept
<1>1. FlowInit => CopiesOK
  BY NoCopy DEF FlowInit, CopiesOK
<1>2. FlowInv /\ CopiesOK /\ SavesTakeTurns /\ [FlowNext]_vars => CopiesOK'
  BY FileStep
<1>3. FlowInv /\ CopiesOK /\ SavesTakeTurns /\ [FlowNext]_vars =>
        [\A h \in Households : keyfile[h] # 0 => keyfile'[h] # 0]_vars
  BY FileStep
<1> QED
  BY <1>1, <1>2, <1>3, FlowInvariance, PTL DEF FlowSpec, KeysAreKept
=============================================================================
