------------------------- MODULE SetupAndGuestProofs -------------------------
(***************************************************************************)
(* The two components the user meets as forms and controls, each by itself.*)
(*                                                                         *)
(* MqttSetup, for any number of add-on rounds and any number of upsets: the *)
(* flow is well typed, and the add-on form never shows a reason that is    *)
(* left over from an earlier attempt.                                      *)
(*                                                                         *)
(* GuestAccess, for any number of entries, calls and polls: its state is   *)
(* well typed, a refresh lives exactly as long as its call, a command goes *)
(* to a node whose name is known, and one that was delivered ends well.    *)
(* That component has variables of its own and is an instance, Guest.      *)
(***************************************************************************)
EXTENDS MqttSetup, TLAPS

\* While an attempt at the add-on runs nothing is remembered of the one before,
\* and nobody has reported an error in it yet.
AttemptIsClean ==
    step \in {"addon_init", "addon_round", "addon_check"} =>
        addonError = None /\ cause = None

\* The menu, the only way to the add-on form but a failed attempt, has no error.
MenuIsClean == step = "menu" => error = None

SetupInv ==
    /\ SetupTypeOK
    /\ AttemptIsClean
    /\ MenuIsClean
    /\ AddonErrorIsFresh

\* The sets of the type invariant.
LEMMA SetupSets ==
  /\ Forms \subseteq Steps /\ Checks \subseteq Steps
  /\ {"start", "express_init", "express_configure", "addon_init", "addon_round",
      "household"} \subseteq Steps
  /\ MqttErrors \subseteq Errors /\ OwnErrors \subseteq Errors /\ None \in Errors
  /\ MqttErrors \cap OwnErrors = {}
  /\ None \notin MqttErrors
  BY NoErrorAssumption DEF Steps, Forms, Checks, Errors, MqttErrors, OwnErrors

\* A new flow starts with nothing remembered.
LEMMA SetupInitInv == SetupInit => SetupInv
  <1>. SUFFICES ASSUME SetupInit PROVE SetupInv
    OBVIOUS
  <1>1. client \in BOOLEAN /\ (client => entry /\ broker)
    BY DEF SetupInit
  <1>2. SetupTypeOK
    BY <1>1, SetupAssumption, SetupSets DEF SetupInit, SetupTypeOK, Results
  <1>. QED
    BY <1>2 DEF SetupInit, SetupInv, AttemptIsClean, MenuIsClean, AddonErrorIsFresh

\* What happens to the broker, the entry and the client is no step of the flow.
LEMMA WorldKeepsInv ==
  ASSUME SetupInv, BrokerChanges \/ ClientConnects \/ EntryAppears
  PROVE  SetupInv'
  <1>1. UNCHANGED <<step, result, rounds, expressError, addonError, error, cause>>
    BY DEF BrokerChanges, ClientConnects, EntryAppears, errorVars
  <1>2. /\ hassio' \in BOOLEAN /\ broker' \in BOOLEAN /\ entry' \in BOOLEAN
        /\ client' \in BOOLEAN
        /\ client' => entry' /\ broker'
    <2>. USE DEF SetupInv, SetupTypeOK
    <2>1. CASE BrokerChanges
      <3>1. /\ broker' \in BOOLEAN /\ client' \in BOOLEAN
            /\ client' => client /\ broker'
        BY <2>1, Zenon DEF BrokerChanges
      <3>. QED
        BY <2>1, <3>1 DEF BrokerChanges
    <2>2. CASE ClientConnects
      BY <2>2 DEF ClientConnects
    <2>3. CASE EntryAppears
      BY <2>3 DEF EntryAppears
    <2>. QED
      BY <2>1, <2>2, <2>3
  <1>3. SetupTypeOK'
    BY <1>1, <1>2 DEF SetupInv, SetupTypeOK
  <1>. QED
    BY <1>1, <1>3 DEF SetupInv, AttemptIsClean, MenuIsClean, AddonErrorIsFresh

\* Whatever the add-on steps answer, an entry that is there stays.
LEMMA AnswersType ==
  ASSUME entry \in BOOLEAN, Answers
  PROVE  entry' \in BOOLEAN /\ (entry => entry') /\ result' \in Results
  BY DEF Answers, Results

\* Every form the flow shows again comes with an error of the flow's own, with
\* none, or with what the MQTT integration has just said.
LEMMA FlowKeepsInv ==
  ASSUME SetupInv,
         \/ ClientThere \/ NoClient
         \/ async_step_user \/ ChooseFromMenu \/ CloseFlow
         \/ async_step_mqtt_guide
  PROVE  SetupInv'
  <1>. USE SetupAssumption, SetupSets
       DEF SetupInv, SetupTypeOK, AttemptIsClean, MenuIsClean, AddonErrorIsFresh,
           Go, Show, Or, worldVars, errorVars, Results
  <1>1. CASE ClientThere
    BY <1>1 DEF ClientThere
  <1>2. CASE NoClient
    BY <1>2 DEF NoClient, Forms, OwnErrors
  <1>3. CASE async_step_user
    BY <1>3 DEF async_step_user, Checks
  <1>4. CASE ChooseFromMenu
    <2>1. PICK form \in Forms \ {"menu"} : step = "menu" /\ step' = form
      BY <1>4 DEF ChooseFromMenu
    <2>2. step' \in Steps /\ step' \in {"mqtt_guide", "mqtt_express", "mqtt_addon"}
      BY <2>1 DEF Forms
    <2>. QED
      BY <1>4, <2>1, <2>2 DEF ChooseFromMenu
  <1>5. CASE CloseFlow
    BY <1>5 DEF CloseFlow
  <1>6. CASE async_step_mqtt_guide
    BY <1>6 DEF async_step_mqtt_guide, Checks
  <1>. QED
    BY <1>1, <1>2, <1>3, <1>4, <1>5, <1>6

\* The broker form leads nowhere near the add-on's (async_step_mqtt_express).
LEMMA ExpressKeepsInv ==
  ASSUME SetupInv,
         \/ async_step_mqtt_express \/ ExpressInit \/ ExpressCreates
         \/ ExpressFails \/ ExpressRaises
  PROVE  SetupInv'
  <1>. USE SetupAssumption, SetupSets
       DEF SetupInv, SetupTypeOK, AttemptIsClean, MenuIsClean, AddonErrorIsFresh,
           Go, Show, Or, worldVars, errorVars, Results, Forms, OwnErrors
  <1>1. CASE async_step_mqtt_express
    BY <1>1 DEF async_step_mqtt_express, Checks
  <1>2. CASE ExpressInit
    BY <1>2 DEF ExpressInit
  <1>3. CASE ExpressCreates
    BY <1>3 DEF ExpressCreates, Checks
  <1>4. CASE ExpressFails
    BY <1>4 DEF ExpressFails, MqttErrors
  <1>5. CASE ExpressRaises
    BY <1>5 DEF ExpressRaises
  <1>. QED
    BY <1>1, <1>2, <1>3, <1>4, <1>5

\* The add-on way forgets the last error before it starts, and records what the
\* MQTT integration says together with the form that shows it
\* (_async_setup_mqtt_addon).
LEMMA AddonKeepsInv ==
  ASSUME SetupInv,
         \/ async_step_mqtt_addon \/ AddonInit \/ AddonInitRaises \/ AddonRound
         \/ AddonGivesUp \/ Uncaught
  PROVE  SetupInv'
  <1>. USE SetupAssumption, SetupSets
       DEF SetupInv, SetupTypeOK, AttemptIsClean, MenuIsClean, AddonErrorIsFresh,
           Go, Show, Or, worldVars, errorVars, Results, Forms, OwnErrors
  <1>1. CASE async_step_mqtt_addon
    BY <1>1 DEF async_step_mqtt_addon
  <1>2. CASE AddonInit
    <2>1. CASE ~entry
      <3>1. entry' \in BOOLEAN /\ (entry => entry') /\ result' \in Results
        BY <1>2, <2>1, AnswersType DEF AddonInit
      <3>. QED
        BY <1>2, <2>1, <3>1 DEF AddonInit
    <2>2. CASE entry
      BY <1>2, <2>2 DEF AddonInit, FailAddon
    <2>. QED
      BY <2>1, <2>2
  <1>3. CASE AddonInitRaises
    BY <1>3 DEF AddonInitRaises
  <1>4. CASE AddonRound
    <2>. USE <1>4 DEF AddonRound, MoreRounds
    <2>1. CASE result = "create_entry"
      BY <2>1 DEF Checks
    <2>2. CASE result = "progress"
      <3>1. Answers
        BY <2>2
      <3>2. entry' \in BOOLEAN /\ (entry => entry') /\ result' \in Results
        BY <3>1, AnswersType
      <3>. QED
        BY <2>2, <3>2
    <2>3. CASE result \in {"abort", "error"}
      BY <2>3 DEF FailAddon, MqttErrors, Said
    <2>. QED
      BY <2>1, <2>2, <2>3
  <1>5. CASE AddonGivesUp
    BY <1>5 DEF AddonGivesUp, FailAddon, MqttErrors, Said
  <1>6. CASE Uncaught
    BY <1>6 DEF Uncaught
  <1>. QED
    BY <1>1, <1>2, <1>3, <1>4, <1>5, <1>6

\* Every step keeps the invariant.
LEMMA SetupStepKeepsInv == SetupInv /\ [SetupNext]_vars => SetupInv'
  <1>. SUFFICES ASSUME SetupInv, [SetupNext]_vars
                PROVE  SetupInv'
    OBVIOUS
  <1>1. CASE UNCHANGED vars
    BY <1>1 DEF vars, worldVars, errorVars, SetupInv, SetupTypeOK, AttemptIsClean,
                MenuIsClean, AddonErrorIsFresh
  <1>. QED
    BY <1>1, WorldKeepsInv, FlowKeepsInv, ExpressKeepsInv, AddonKeepsInv
    DEF SetupNext

\* The invariant holds of every run.
LEMMA SetupInvariance == SetupSpec => []SetupInv
  BY SetupInitInv, SetupStepKeepsInv, PTL DEF SetupSpec

-----------------------------------------------------------------------------
\* The flow is well typed, its add-on loop within its rounds, and a client is one
\* of an entry (config_flow.py).
THEOREM SetupTypeCorrect == SetupSpec => []SetupTypeOK
  BY SetupInvariance, PTL DEF SetupInv

\* The add-on form never shows a reason of an earlier attempt
\* (_async_setup_mqtt_addon).
THEOREM AddonErrorsAreFresh == SetupSpec => []AddonErrorIsFresh
  BY SetupInvariance, PTL DEF SetupInv

-----------------------------------------------------------------------------
(* The broker form's reasons.                                                *)

ExpressSteps ==
    {"mqtt_express", "express_init", "express_configure", "exists_check",
     "created_check", "household"}

\* A reason is remembered only on the broker form's way, and a reason on the
\* form is the remembered one.
ExpressRemembers ==
    /\ expressError # None => step \in ExpressSteps
    /\ step = "mqtt_express" /\ error \in MqttErrors => error = expressError

\* What is remembered was said in this attempt.
ExpressIsOfThisAttempt == expressError \in {None, cause}

\* One step keeps what the form shows tied to what is remembered; if attempts
\* begin with nothing remembered, also to what was said since.
LEMMA ExpressStep ==
  ASSUME SetupInv, ExpressRemembers, [SetupNext]_vars
  PROVE  /\ ExpressRemembers'
         /\ ExpressIsOfThisAttempt /\ (async_step_mqtt_express => expressError = None)
              => ExpressIsOfThisAttempt'
  <1>. USE SetupSets
       DEF ExpressRemembers, ExpressIsOfThisAttempt, ExpressSteps, Go, Show, Or,
           worldVars, errorVars, Forms, OwnErrors
  <1>1. CASE UNCHANGED vars
    BY <1>1 DEF vars
  <1>2. CASE BrokerChanges \/ ClientConnects \/ EntryAppears
    BY <1>2 DEF BrokerChanges, ClientConnects, EntryAppears
  <1>3. CASE ClientThere \/ NoClient
    BY <1>3 DEF ClientThere, NoClient, Checks
  <1>4. CASE async_step_user \/ ChooseFromMenu \/ CloseFlow \/ async_step_mqtt_guide
    BY <1>4
    DEF async_step_user, ChooseFromMenu, CloseFlow, async_step_mqtt_guide, SetupInv,
        MenuIsClean
  <1>5. CASE async_step_mqtt_express
    BY <1>5 DEF async_step_mqtt_express
  <1>6. CASE ExpressInit \/ ExpressCreates \/ ExpressFails \/ ExpressRaises
    BY <1>6 DEF ExpressInit, ExpressCreates, ExpressFails, ExpressRaises
  <1>7. CASE async_step_mqtt_addon \/ AddonInit \/ AddonInitRaises
    BY <1>7 DEF async_step_mqtt_addon, AddonInit, AddonInitRaises, FailAddon
  <1>8. CASE AddonRound \/ AddonGivesUp \/ Uncaught
    BY <1>8 DEF AddonRound, AddonGivesUp, FailAddon, Uncaught
  <1>. QED
    BY <1>1, <1>2, <1>3, <1>4, <1>5, <1>6, <1>7, <1>8 DEF SetupNext

\* "Surface the MQTT flow's own error ... so the user knows what to fix"
\* (config_flow.py) is true of the broker form as far as no attempt begins with
\* a reason remembered from the one before: clearing _mqtt_express_error there,
\* as the add-on way clears its own, is all that is missing.
THEOREM ForgottenReasonsAreNotShown ==
  SetupSpec /\ [][async_step_mqtt_express => expressError = None]_vars
    => []ExpressErrorIsFresh
  <1>1. SetupInit => ExpressRemembers /\ ExpressIsOfThisAttempt
    BY SetupSets DEF SetupInit, ExpressRemembers, ExpressIsOfThisAttempt
  <1>2. /\ SetupInv /\ ExpressRemembers /\ ExpressIsOfThisAttempt
        /\ [SetupNext]_vars
        /\ [async_step_mqtt_express => expressError = None]_vars
        => ExpressRemembers' /\ ExpressIsOfThisAttempt'
    <2>1. CASE UNCHANGED vars
      BY <2>1
      DEF vars, errorVars, ExpressRemembers, ExpressIsOfThisAttempt
    <2>2. CASE async_step_mqtt_express => expressError = None
      BY <2>2, ExpressStep
    <2>. QED
      BY <2>1, <2>2
  <1>3. ExpressRemembers /\ ExpressIsOfThisAttempt => ExpressErrorIsFresh
    BY SetupSets DEF ExpressRemembers, ExpressIsOfThisAttempt, ExpressErrorIsFresh
  <1>. QED
    BY <1>1, <1>2, <1>3, SetupInvariance, PTL DEF SetupSpec

-----------------------------------------------------------------------------
(* Guest access, beside the setup flow.                                      *)

CONSTANTS Entries, Direct, Calls, Ticks, Tags, MaxChanges, MaxGlitches
VARIABLES loaded, mode, guest, changes, glitches, known, shown, online, calls, polls

Guest == INSTANCE GuestAccess

\* What is shown of a node, and what is asked of it, a poll has named it for:
\* its id is learned before its guest document is read.
KnownFirst ==
    /\ \A e \in Direct : shown[e] # None \/ online[e] => e \in known
    /\ \A p \in Guest!Slots :
          polls[p].phase \in {"guest", "reply"} => polls[p].entry \in known
    /\ \A c \in Calls :
          calls[c].phase \in {"sending", "refreshing"} => calls[c].entry \in known

GuestInv == Guest!GuestTypeOK /\ KnownFirst

\* What a call has in hand in each phase, and where it can go from there.
LEMMA CallPhases ==
  /\ \A o \in Guest!Outcome : Guest!EndedCall(o) \in Guest!Call
  /\ \A o : Guest!EndedCall(o).phase = o
  /\ \A e \in Direct, command \in Guest!Command :
        [phase |-> "sending", entry |-> e, command |-> command] \in Guest!Call
  /\ \A call \in Guest!Call :
        /\ call.phase \in Guest!Outcome \cup {"sending", "refreshing"}
        /\ call.phase \in {"sending", "refreshing"} =>
              /\ call.entry \in Direct /\ call.command \in Guest!Command
              /\ [call EXCEPT !.phase = "refreshing"] \in Guest!Call
              /\ [call EXCEPT !.phase = "refreshing"].phase = "refreshing"
              /\ [call EXCEPT !.phase = "refreshing"].entry = call.entry
  BY DEF Guest!Outcome, Guest!EndedCall, Guest!Call

\* What a poll has in hand in each phase, and where it can go from there.
LEMMA PollPhases ==
  /\ Guest!NoPoll \in Guest!Poll /\ Guest!NoPoll.phase = "idle"
  /\ \A e \in Direct : /\ Guest!NewPoll(e) \in Guest!Poll
                       /\ Guest!NewPoll(e).phase = "state"
                       /\ Guest!NewPoll(e).entry = e
  /\ \A poll \in Guest!Poll :
        /\ poll.phase # "idle" => poll.entry \in Direct
        /\ poll.phase = "reply" => poll.reading \in Guest!GuestState
        /\ poll.phase = "state" =>
              /\ [poll EXCEPT !.phase = "guest"] \in Guest!Poll
              /\ [poll EXCEPT !.phase = "guest"].phase = "guest"
              /\ [poll EXCEPT !.phase = "guest"].entry = poll.entry
        /\ poll.phase = "guest" => \A g \in Guest!GuestState :
              /\ [poll EXCEPT !.phase = "reply", !.reading = g] \in Guest!Poll
              /\ [poll EXCEPT !.phase = "reply", !.reading = g].phase = "reply"
              /\ [poll EXCEPT !.phase = "reply", !.reading = g].entry = poll.entry
  BY DEF Guest!NoPoll, Guest!NewPoll, Guest!Poll

\* A command leaves a guest state behind (After).
LEMMA AfterType ==
  ASSUME NEW g \in Guest!GuestState, NEW command \in Guest!Command
  PROVE  Guest!After(g, command) \in Guest!GuestState
  BY DEF Guest!After, Guest!GuestState, Guest!Command

\* A step of one call that is not a refresh, before or after, keeps the polls.
LEMMA CallKeepsInv ==
  ASSUME GuestInv, NEW c \in Calls, NEW call \in Guest!Call,
         calls' = [calls EXCEPT ![c] = call],
         calls[c].phase # "refreshing", call.phase # "refreshing",
         call.phase = "sending" => call.entry \in known,
         UNCHANGED <<loaded, mode, known, shown, online, polls>>,
         guest' \in [Direct -> Guest!GuestState]
  PROVE  GuestInv'
  <1>1. calls \in [Calls -> Guest!Call]
    BY DEF GuestInv, Guest!GuestTypeOK
  <1>2. calls' \in [Calls -> Guest!Call] /\ calls'[c] = call
        /\ \A d \in Calls \ {c} : calls'[d] = calls[d]
    BY <1>1
  <1>3. Guest!GuestTypeOK'
    BY <1>2 DEF GuestInv, Guest!GuestTypeOK, Guest!Slots
  <1>4. KnownFirst'
    BY <1>2 DEF GuestInv, KnownFirst, Guest!Slots
  <1>. QED
    BY <1>3, <1>4 DEF GuestInv

\* A step of the poll in slot p that goes on.
LEMMA PollKeepsInv ==
  ASSUME GuestInv, NEW p \in Guest!Slots, NEW poll \in Guest!Poll,
         polls' = [polls EXCEPT ![p] = poll],
         poll.phase # "idle", polls[p].phase # "idle" \/ p \notin Calls,
         known' \subseteq Direct, known \subseteq known',
         poll.phase \in {"guest", "reply"} => poll.entry \in known',
         online' \in [Direct -> BOOLEAN],
         \A e \in Direct : online'[e] => online[e] \/ e \in known',
         UNCHANGED <<loaded, mode, guest, shown, calls>>
  PROVE  GuestInv'
  <1>1. polls \in [Guest!Slots -> Guest!Poll] /\ Calls \subseteq Guest!Slots
    BY DEF GuestInv, Guest!GuestTypeOK, Guest!Slots
  <1>2. polls' \in [Guest!Slots -> Guest!Poll] /\ polls'[p] = poll
        /\ \A q \in Guest!Slots \ {p} : polls'[q] = polls[q]
    BY <1>1
  <1>3. Guest!GuestTypeOK'
    <2>1. \A c \in Calls : calls'[c].phase = "refreshing" <=> polls'[c].phase # "idle"
      BY <1>1, <1>2 DEF GuestInv, Guest!GuestTypeOK
    <2>. QED
      BY <1>2, <2>1 DEF GuestInv, Guest!GuestTypeOK, Guest!Slots
  <1>4. KnownFirst'
    BY <1>1, <1>2 DEF GuestInv, KnownFirst, Guest!Slots
  <1>. QED
    BY <1>3, <1>4 DEF GuestInv

\* The poll in slot p ends, and with it the call whose refresh it was (EndPoll).
LEMMA EndKeepsInv ==
  ASSUME GuestInv, NEW p \in Guest!Slots, Guest!EndPoll(p), polls[p].phase # "idle",
         online' \in [Direct -> BOOLEAN],
         \A e \in Direct : online'[e] => online[e],
         shown' \in [Direct -> Guest!GuestState \cup {None}],
         \A e \in Direct : shown'[e] # None => shown[e] # None \/ e \in known,
         UNCHANGED <<loaded, mode, guest, known>>
  PROVE  /\ GuestInv'
         /\ \A c \in Calls : calls[c].phase = "refreshing" =>
                calls'[c].phase \in {"refreshing", "ok"}
  <1>1. /\ polls \in [Guest!Slots -> Guest!Poll] /\ Calls \subseteq Guest!Slots
        /\ calls \in [Calls -> Guest!Call]
    BY DEF GuestInv, Guest!GuestTypeOK, Guest!Slots
  <1>2. polls' \in [Guest!Slots -> Guest!Poll] /\ polls'[p].phase = "idle"
        /\ \A q \in Guest!Slots \ {p} : polls'[q] = polls[q]
    BY <1>1, PollPhases DEF Guest!EndPoll
  <1>3. /\ calls' \in [Calls -> Guest!Call]
        /\ p \in Calls => calls'[p].phase = "ok"
        /\ \A c \in Calls \ {p} : calls'[c] = calls[c]
    <2>1. Guest!EndedCall("ok") \in Guest!Call /\ Guest!EndedCall("ok").phase = "ok"
      BY CallPhases DEF Guest!Outcome
    <2>. QED
      BY <1>1, <2>1 DEF Guest!EndPoll
  <1>4. \A c \in Calls : calls'[c].phase = "refreshing" <=> polls'[c].phase # "idle"
    BY <1>1, <1>2, <1>3 DEF GuestInv, Guest!GuestTypeOK
  <1>5. Guest!GuestTypeOK'
    BY <1>2, <1>3, <1>4 DEF GuestInv, Guest!GuestTypeOK, Guest!Slots
  <1>6. KnownFirst'
    BY <1>1, <1>2, <1>3 DEF GuestInv, KnownFirst, Guest!Slots
  <1>. QED
    BY <1>3, <1>5, <1>6 DEF GuestInv

\* What a step of the nodes, and an entry that comes up, leave as it was.
LEMMA WorldKeepsGuestInv ==
  ASSUME GuestInv,
         \/ \E e \in Entries : Guest!EntryComesUp(e)
         \/ \E e \in Direct : Guest!ModeChanges(e) \/ Guest!ArmEnds(e)
  PROVE  GuestInv' /\ UNCHANGED calls
  <1>1. UNCHANGED <<known, shown, online, calls, polls>>
    BY DEF Guest!EntryComesUp, Guest!ModeChanges, Guest!ArmEnds, Guest!shownVars
  <1>2. /\ loaded' \subseteq Entries
        /\ mode' \in [Direct -> Guest!Mode]
        /\ guest' \in [Direct -> Guest!GuestState]
    <2>. USE DEF GuestInv, Guest!GuestTypeOK
    <2>1. ASSUME NEW e \in Entries, Guest!EntryComesUp(e)
          PROVE  loaded' \subseteq Entries /\ UNCHANGED <<mode, guest>>
      BY <2>1 DEF Guest!EntryComesUp, Guest!deviceVars
    <2>2. ASSUME NEW e \in Direct, Guest!ModeChanges(e)
          PROVE  mode' \in [Direct -> Guest!Mode] /\ UNCHANGED <<loaded, guest>>
      BY <2>2 DEF Guest!ModeChanges
    <2>3. ASSUME NEW e \in Direct, Guest!ArmEnds(e)
          PROVE  guest' \in [Direct -> Guest!GuestState] /\ UNCHANGED <<loaded, mode>>
      <3>1. PICK written \in {{}} \cup {{t} : t \in Tags} :
              guest' = [guest EXCEPT ![e].armed = FALSE, ![e].tags = @ \cup written]
        BY <2>3 DEF Guest!ArmEnds
      <3>2. guest[e] \in Guest!GuestState /\ written \subseteq Tags
        BY <3>1
      <3>3. [guest[e] EXCEPT !.armed = FALSE, !.tags = @ \cup written]
              \in Guest!GuestState
        BY <3>2 DEF Guest!GuestState
      <3>4. guest' = [guest EXCEPT ![e] =
                        [guest[e] EXCEPT !.armed = FALSE, !.tags = @ \cup written]]
        BY <3>1, <3>2 DEF Guest!GuestState
      <3>. QED
        BY <2>3, <3>3, <3>4 DEF Guest!ArmEnds
    <2>. QED
      BY <2>1, <2>2, <2>3
  <1>. QED
    BY <1>1, <1>2 DEF GuestInv, Guest!GuestTypeOK, KnownFirst, Guest!Slots

\* The guest state a command leaves behind is one of its node (CarriesOut).
LEMMA CarriesOutType ==
  ASSUME GuestInv, NEW c \in Calls, calls[c].phase = "sending",
         Guest!CarriesOut(calls[c].entry, calls[c].command)
  PROVE  guest' \in [Direct -> Guest!GuestState]
  <1>. DEFINE e == calls[c].entry
              command == calls[c].command
  <1>1. calls[c] \in Guest!Call /\ guest \in [Direct -> Guest!GuestState]
    BY DEF GuestInv, Guest!GuestTypeOK
  <1>2. e \in Direct /\ command \in Guest!Command
    BY <1>1, CallPhases
  <1>3. guest' = [guest EXCEPT ![e] = Guest!After(guest[e], command)]
    BY <1>1, <1>2 DEF Guest!CarriesOut
  <1>4. Guest!After(guest[e], command) \in Guest!GuestState
    BY <1>1, <1>2, AfterType
  <1>. HIDE DEF e, command
  <1>. QED
    BY <1>1, <1>2, <1>3, <1>4

\* A command is sent to a node a poll has named, by a call that is not refreshing.
LEMMA SendKeepsInv ==
  ASSUME GuestInv, NEW c \in Calls, ~Guest!Busy(c),
         NEW e \in Direct \cap known, NEW command \in Guest!Command,
         Guest!Send(c, e, command)
  PROVE  GuestInv'
  <1>. DEFINE call == [phase |-> "sending", entry |-> e, command |-> command]
  <1>1. /\ call \in Guest!Call /\ call.phase = "sending" /\ call.entry = e
        /\ calls' = [calls EXCEPT ![c] = call]
    BY CallPhases DEF Guest!Send
  <1>2. /\ UNCHANGED <<loaded, mode, known, shown, online, polls>>
        /\ guest' \in [Direct -> Guest!GuestState]
    BY DEF GuestInv, Guest!GuestTypeOK, Guest!Send, Guest!deviceVars, Guest!shownVars
  <1>3. calls[c].phase # "refreshing"
    BY DEF Guest!Busy
  <1>. HIDE DEF call
  <1>. QED
    BY <1>1, <1>2, <1>3, CallKeepsInv

\* A call that ends without a refresh.
LEMMA EndCallKeepsInv ==
  ASSUME GuestInv, NEW c \in Calls, calls[c].phase # "refreshing",
         NEW outcome \in Guest!Outcome, Guest!EndCall(c, outcome),
         UNCHANGED <<loaded, mode, known, shown, online, polls>>,
         guest' \in [Direct -> Guest!GuestState]
  PROVE  GuestInv'
  <1>. DEFINE call == Guest!EndedCall(outcome)
  <1>1. /\ call \in Guest!Call /\ call.phase = outcome
        /\ calls' = [calls EXCEPT ![c] = call]
    BY CallPhases DEF Guest!EndCall
  <1>2. outcome # "sending" /\ outcome # "refreshing"
    BY DEF Guest!Outcome
  <1>. HIDE DEF call
  <1>. QED
    BY <1>1, <1>2, CallKeepsInv

\* A service call, or a control of the user interface, that begins
\* (async_guest_teach, HomeKeyGuestAccessSwitch).
LEMMA BeginKeepsInv ==
  ASSUME GuestInv, NEW c \in Calls,
         \/ Guest!ServiceCall(c)
         \/ Guest!HomeKeyGuestAccessSwitch(c)
         \/ Guest!HomeKeyGuestButtons(c)
  PROVE  GuestInv' /\ (\A d \in Calls : calls[d].phase = "refreshing" =>
                          calls'[d] = calls[d])
  <1>. USE DEF GuestInv, Guest!GuestTypeOK
  <1>1. ~Guest!Busy(c)
    BY DEF Guest!ServiceCall, Guest!HomeKeyGuestAccessSwitch,
           Guest!HomeKeyGuestButtons, Guest!Press
  <1>2. calls[c].phase # "refreshing"
    BY <1>1 DEF Guest!Busy
  <1>3. ASSUME NEW e \in Direct \cap known, NEW command \in Guest!Command,
               Guest!Send(c, e, command)
        PROVE  /\ GuestInv'
               /\ \A d \in Calls : calls[d].phase = "refreshing" => calls'[d] = calls[d]
    <2>1. GuestInv'
      BY <1>1, <1>3, SendKeepsInv
    <2>. QED
      BY <1>2, <1>3, <2>1 DEF Guest!Send
  <1>4. CASE Guest!ServiceCall(c)
    <2>1. PICK requested \in Entries \cup {None} :
            LET targets == Guest!node_id_for(Guest!runtime_for(requested))
            IN \/ /\ targets = {}
                  /\ Guest!EndCall(c, "refused")
                  /\ UNCHANGED <<loaded, Guest!deviceVars, Guest!shownVars, polls>>
               \/ \E e \in targets, command \in Guest!Command :
                  /\ command.what # "set"
                  /\ Guest!Send(c, e, command)
      BY <1>4 DEF Guest!ServiceCall
    <2>2. Guest!node_id_for(Guest!runtime_for(requested)) \subseteq Direct \cap known
      BY DEF Guest!node_id_for
    <2>3. CASE /\ Guest!EndCall(c, "refused")
               /\ UNCHANGED <<loaded, Guest!deviceVars, Guest!shownVars, polls>>
      <3>1. /\ UNCHANGED <<loaded, mode, known, shown, online, polls>>
            /\ guest' \in [Direct -> Guest!GuestState]
        BY <2>3 DEF Guest!deviceVars, Guest!shownVars
      <3>2. GuestInv'
        BY <1>2, <2>3, <3>1, EndCallKeepsInv DEF Guest!Outcome
      <3>. QED
        BY <1>2, <2>3, <3>2 DEF Guest!EndCall
    <2>. QED
      BY <1>3, <2>1, <2>2, <2>3
  <1>5. CASE Guest!HomeKeyGuestAccessSwitch(c) \/ Guest!HomeKeyGuestButtons(c)
    <2>1. PICK e \in loaded, command \in Guest!Command :
            Guest!ControlAvailable(e) /\ Guest!Send(c, e, command)
      BY <1>5 DEF Guest!HomeKeyGuestAccessSwitch, Guest!HomeKeyGuestButtons,
                  Guest!Press
    <2>2. e \in Direct \cap known
      BY <2>1 DEF Guest!ControlAvailable, Guest!guest_manageable, KnownFirst
    <2>. QED
      BY <1>3, <2>1, <2>2
  <1>. QED
    BY <1>4, <1>5

\* The node's answer starts the refresh of its call, in the slot of the call.
LEMMA AnsweredKeepsInv ==
  ASSUME GuestInv, NEW c \in Calls, Guest!Answered(c)
  PROVE  GuestInv' /\ (\A d \in Calls : calls[d].phase = "refreshing" =>
                          calls'[d] = calls[d])
  <1>. DEFINE e == calls[c].entry
              call == [calls[c] EXCEPT !.phase = "refreshing"]
              poll == Guest!NewPoll(e)
  <1>1. /\ calls \in [Calls -> Guest!Call] /\ polls \in [Guest!Slots -> Guest!Poll]
        /\ Calls \subseteq Guest!Slots /\ calls[c].phase = "sending"
    BY DEF GuestInv, Guest!GuestTypeOK, Guest!Answered, Guest!Slots
  <1>2. e \in Direct /\ e \in known
    BY <1>1, CallPhases DEF GuestInv, KnownFirst
  <1>3. /\ call \in Guest!Call /\ call.phase = "refreshing" /\ call.entry = e
        /\ poll \in Guest!Poll /\ poll.phase = "state" /\ poll.entry = e
    BY <1>1, <1>2, CallPhases, PollPhases
  <1>4. /\ calls' = [calls EXCEPT ![c] = call] /\ polls' = [polls EXCEPT ![c] = poll]
        /\ UNCHANGED <<loaded, mode, known, shown, online>>
    BY <1>1 DEF Guest!Answered, Guest!shownVars
  <1>5. guest' \in [Direct -> Guest!GuestState]
    BY <1>1, CarriesOutType DEF Guest!Answered
  <1>. HIDE DEF call, poll, e
  <1>6. /\ calls' \in [Calls -> Guest!Call] /\ polls' \in [Guest!Slots -> Guest!Poll]
        /\ calls'[c] = call /\ polls'[c] = poll
        /\ \A d \in Calls \ {c} : calls'[d] = calls[d]
        /\ \A q \in Guest!Slots \ {c} : polls'[q] = polls[q]
    BY <1>1, <1>3, <1>4
  <1>7. \A d \in Calls : calls'[d].phase = "refreshing" <=> polls'[d].phase # "idle"
    BY <1>1, <1>3, <1>6 DEF GuestInv, Guest!GuestTypeOK
  <1>8. Guest!GuestTypeOK'
    BY <1>4, <1>5, <1>6, <1>7 DEF GuestInv, Guest!GuestTypeOK, Guest!Slots
  <1>9. KnownFirst'
    BY <1>1, <1>2, <1>3, <1>4, <1>6 DEF GuestInv, KnownFirst, Guest!Slots
  <1>. QED
    BY <1>1, <1>6, <1>8, <1>9 DEF GuestInv

\* A command without an answer ends its call (async_guest_teach and the others).
LEMMA CommandFailsKeepsInv ==
  ASSUME GuestInv, NEW c \in Calls, Guest!CommandFails(c)
  PROVE  GuestInv' /\ (\A d \in Calls : calls[d].phase = "refreshing" =>
                          calls'[d] = calls[d])
  <1>1. calls[c].phase = "sending" /\ calls \in [Calls -> Guest!Call]
    BY DEF Guest!CommandFails, GuestInv, Guest!GuestTypeOK
  <1>2. guest' \in [Direct -> Guest!GuestState]
    <2>1. CASE UNCHANGED guest
      BY <2>1 DEF GuestInv, Guest!GuestTypeOK
    <2>2. CASE Guest!CarriesOut(calls[c].entry, calls[c].command)
      BY <1>1, <2>2, CarriesOutType
    <2>. QED
      BY <2>1, <2>2 DEF Guest!CommandFails
  <1>3. UNCHANGED <<loaded, mode, known, shown, online, polls>>
    BY DEF Guest!CommandFails, Guest!shownVars
  <1>4. GuestInv'
    BY <1>1, <1>2, <1>3, EndCallKeepsInv DEF Guest!CommandFails, Guest!Outcome
  <1>. QED
    BY <1>1, <1>4 DEF Guest!CommandFails, Guest!EndCall

\* A call that is being refreshed goes on, or ends well (coordinator.py).
Reported(c) ==
    calls[c].phase = "refreshing" => calls'[c].phase \in {"refreshing", "ok"}

\* A scheduled poll begins: its slot is no call's.
LEMMA TickKeepsInv ==
  ASSUME Guest!GuestConstants, GuestInv, NEW p \in Ticks, NEW e \in Direct,
         Guest!Tick(p, e)
  PROVE  GuestInv' /\ UNCHANGED calls
  <1>. DEFINE poll == Guest!NewPoll(e)
  <1>1. /\ poll \in Guest!Poll /\ poll.phase = "state"
        /\ polls' = [polls EXCEPT ![p] = poll]
    BY PollPhases DEF Guest!Tick
  <1>2. p \in Guest!Slots /\ p \notin Calls
    BY DEF Guest!GuestConstants, Guest!Slots
  <1>3. /\ UNCHANGED <<loaded, mode, guest, known, shown, online, calls>>
        /\ known \subseteq Direct /\ online \in [Direct -> BOOLEAN]
    BY DEF Guest!Tick, Guest!deviceVars, Guest!shownVars, GuestInv, Guest!GuestTypeOK
  <1>. HIDE DEF poll
  <1>. QED
    BY <1>1, <1>2, <1>3, PollKeepsInv

\* A poll that reads the state of its node, or its guest document, goes on
\* (async_poll_once).
LEMMA ReadKeepsInv ==
  ASSUME GuestInv, NEW p \in Guest!Slots, Guest!StateRead(p) \/ Guest!GuestRead(p)
  PROVE  GuestInv' /\ UNCHANGED calls
  <1>1. /\ polls \in [Guest!Slots -> Guest!Poll] /\ polls[p] \in Guest!Poll
        /\ known \subseteq Direct /\ online \in [Direct -> BOOLEAN]
        /\ guest \in [Direct -> Guest!GuestState]
    BY DEF GuestInv, Guest!GuestTypeOK
  <1>2. CASE Guest!StateRead(p)
    <2>. DEFINE e == polls[p].entry
                poll == [polls[p] EXCEPT !.phase = "guest"]
    <2>1. polls[p].phase = "state" /\ e \in Direct
      BY <1>1, <1>2, PollPhases DEF Guest!StateRead
    <2>2. poll \in Guest!Poll /\ poll.phase = "guest" /\ poll.entry = e
      BY <1>1, <2>1, PollPhases
    <2>3. /\ polls' = [polls EXCEPT ![p] = poll]
          /\ known' = known \cup {e} /\ online' = [online EXCEPT ![e] = TRUE]
          /\ UNCHANGED <<loaded, mode, guest, shown, calls>>
      BY <1>1, <1>2 DEF Guest!StateRead, Guest!deviceVars
    <2>. HIDE DEF e, poll
    <2>4. /\ known' \subseteq Direct /\ known \subseteq known' /\ e \in known'
          /\ online' \in [Direct -> BOOLEAN]
          /\ \A d \in Direct : online'[d] => online[d] \/ d \in known'
      BY <1>1, <2>1, <2>3
    <2>. QED
      BY <2>1, <2>2, <2>3, <2>4, PollKeepsInv
  <1>3. CASE Guest!GuestRead(p)
    <2>. DEFINE e == polls[p].entry
                g == guest[polls[p].entry]
                poll == [polls[p] EXCEPT !.phase = "reply", !.reading = g]
    <2>1. polls[p].phase = "guest" /\ e \in Direct
      BY <1>1, <1>3, PollPhases DEF Guest!GuestRead
    <2>2. g \in Guest!GuestState /\ e \in known
      BY <1>1, <2>1 DEF GuestInv, KnownFirst
    <2>3. poll \in Guest!Poll /\ poll.phase = "reply" /\ poll.entry = e
      BY <1>1, <2>1, <2>2, PollPhases
    <2>4. polls' = [polls EXCEPT ![p] = poll]
      BY <1>1, <1>3 DEF Guest!GuestRead
    <2>5. UNCHANGED <<loaded, mode, guest, known, shown, online, calls>>
      BY <1>3 DEF Guest!GuestRead, Guest!deviceVars, Guest!shownVars
    <2>. HIDE DEF e, g, poll
    <2>. QED
      BY <1>1, <2>1, <2>2, <2>3, <2>4, <2>5, PollKeepsInv
  <1>. QED
    BY <1>2, <1>3

\* A poll that fails, finds no guest document, or applies the one it has read,
\* is over (async_poll_once, _async_refresh_after_guest_write).
LEMMA PollEndsKeepsInv ==
  ASSUME GuestInv, NEW p \in Guest!Slots,
         Guest!PollFails(p) \/ Guest!NoGuest(p) \/ Guest!GuestApplied(p)
  PROVE  GuestInv' /\ \A c \in Calls : Reported(c)
  <1>1. /\ polls[p] \in Guest!Poll /\ online \in [Direct -> BOOLEAN]
        /\ shown \in [Direct -> Guest!GuestState \cup {None}]
    BY DEF GuestInv, Guest!GuestTypeOK
  <1>2. CASE Guest!PollFails(p)
    <2>1. /\ Guest!EndPoll(p) /\ polls[p].phase # "idle"
          /\ UNCHANGED <<loaded, mode, guest, known, shown>>
      BY <1>2 DEF Guest!PollFails, Guest!EndFailedPoll
    <2>2. /\ online' \in [Direct -> BOOLEAN]
          /\ \A e \in Direct : online'[e] => online[e]
      BY <1>1, <1>2 DEF Guest!PollFails
    <2>. QED
      BY <1>1, <2>1, <2>2, EndKeepsInv DEF Reported
  <1>3. CASE Guest!NoGuest(p)
    <2>1. /\ Guest!EndPoll(p) /\ polls[p].phase # "idle"
          /\ UNCHANGED <<loaded, mode, guest, known, shown, online>>
      BY <1>3 DEF Guest!NoGuest, Guest!shownVars
    <2>. QED
      BY <1>1, <2>1, EndKeepsInv DEF Reported
  <1>4. CASE Guest!GuestApplied(p)
    <2>1. /\ Guest!EndPoll(p) /\ polls[p].phase = "reply"
          /\ UNCHANGED <<loaded, mode, guest, known, online>>
          /\ shown' = [shown EXCEPT ![polls[p].entry] = polls[p].reading]
      BY <1>4 DEF Guest!GuestApplied, Guest!deviceVars
    <2>2. /\ polls[p].entry \in Direct /\ polls[p].reading \in Guest!GuestState
          /\ polls[p].entry \in known
      BY <1>1, <2>1, PollPhases DEF GuestInv, KnownFirst
    <2>3. /\ shown' \in [Direct -> Guest!GuestState \cup {None}]
          /\ \A e \in Direct : shown'[e] # None => shown[e] # None \/ e \in known
      BY <1>1, <2>1, <2>2
    <2>. QED
      BY <1>1, <2>1, <2>3, EndKeepsInv DEF Reported
  <1>. QED
    BY <1>2, <1>3, <1>4

\* Nothing is loaded, known or shown at first.
LEMMA GuestInitInv == Guest!GuestInit => GuestInv
  <1>. SUFFICES ASSUME Guest!GuestInit PROVE GuestInv
    OBVIOUS
  <1>. USE DEF Guest!GuestInit
  <1>1. guest \in [Direct -> Guest!GuestState]
    BY DEF Guest!GuestState
  <1>2. /\ calls \in [Calls -> Guest!Call]
        /\ \A c \in Calls : calls[c].phase = "idle"
    BY CallPhases DEF Guest!Outcome
  <1>3. /\ polls \in [Guest!Slots -> Guest!Poll]
        /\ \A p \in Guest!Slots : polls[p].phase = "idle"
    BY PollPhases
  <1>4. Guest!GuestTypeOK
    BY <1>1, <1>2, <1>3 DEF Guest!GuestTypeOK, Guest!Slots
  <1>5. KnownFirst
    BY <1>2, <1>3 DEF KnownFirst
  <1>. QED
    BY <1>4, <1>5 DEF GuestInv

\* Every step keeps the invariant, and reports what has been delivered.
LEMMA GuestStep ==
  ASSUME Guest!GuestConstants, GuestInv, [Guest!GuestNext]_(Guest!vars)
  PROVE  GuestInv' /\ \A c \in Calls : Reported(c)
  <1>1. CASE UNCHANGED Guest!vars
    BY <1>1 DEF GuestInv, Guest!GuestTypeOK, KnownFirst, Reported, Guest!Slots,
                Guest!vars, Guest!deviceVars, Guest!shownVars
  <1>2. CASE \/ \E e \in Entries : Guest!EntryComesUp(e)
             \/ \E e \in Direct : Guest!ModeChanges(e) \/ Guest!ArmEnds(e)
    BY <1>2, WorldKeepsGuestInv DEF Reported
  <1>3. ASSUME NEW c \in Calls,
               \/ Guest!ServiceCall(c) \/ Guest!HomeKeyGuestAccessSwitch(c)
               \/ Guest!HomeKeyGuestButtons(c)
               \/ Guest!Answered(c) \/ Guest!CommandFails(c)
        PROVE  GuestInv' /\ \A d \in Calls : Reported(d)
    BY <1>3, BeginKeepsInv, AnsweredKeepsInv, CommandFailsKeepsInv DEF Reported
  <1>4. CASE \E p \in Ticks, e \in Direct : Guest!Tick(p, e)
    BY <1>4, TickKeepsInv DEF Reported
  <1>5. ASSUME NEW p \in Guest!Slots, Guest!StateRead(p) \/ Guest!GuestRead(p)
        PROVE  GuestInv' /\ \A c \in Calls : Reported(c)
    BY <1>5, ReadKeepsInv DEF Reported
  <1>6. ASSUME NEW p \in Guest!Slots,
               Guest!PollFails(p) \/ Guest!NoGuest(p) \/ Guest!GuestApplied(p)
        PROVE  GuestInv' /\ \A c \in Calls : Reported(c)
    BY <1>6, PollEndsKeepsInv
  <1>. QED
    BY <1>1, <1>2, <1>3, <1>4, <1>5, <1>6 DEF Guest!GuestNext

\* The invariant holds of every run.
LEMMA GuestInvariance ==
  ASSUME Guest!GuestConstants
  PROVE  Guest!GuestSpec => []GuestInv
  BY GuestInitInv, GuestStep, PTL DEF Guest!GuestSpec

\* The guest state, the calls and the polls are well typed, and a call is being
\* refreshed exactly as long as the poll in its slot runs (coordinator.py).
THEOREM GuestTypeCorrect ==
  ASSUME Guest!GuestConstants
  PROVE  Guest!GuestSpec => []Guest!GuestTypeOK
  BY GuestInvariance, PTL DEF GuestInv

\* Whoever can press a control presses one of a node that a poll has named, and
\* what is shown of a node, or on its way there, is of such a node
\* (async_poll_once, entity.py).
THEOREM ControlsHaveTheirNode ==
  ASSUME Guest!GuestConstants
  PROVE  Guest!GuestSpec => []KnownFirst
  BY GuestInvariance, PTL DEF GuestInv

\* A call whose command the node has answered never turns into a failed one: it
\* goes on being refreshed, or ends well, whatever the refresh meets
\* (_async_refresh_after_guest_write).
THEOREM DeliveredNeverFails ==
  ASSUME Guest!GuestConstants
  PROVE  Guest!GuestSpec => [][\A c \in Calls : Reported(c)]_(Guest!vars)
  BY GuestInvariance, GuestStep, PTL DEF Guest!GuestSpec

\* The readings in hand are what their nodes would answer now.
ReadingsAreCurrent ==
    \A p \in Guest!Slots :
        polls[p].phase = "reply" => polls[p].reading = guest[polls[p].entry]

\* No node changes its guest state while a poll has a reading of it in hand.
NothingChangesInBetween ==
    \A e \in Direct : guest'[e] # guest[e] =>
        \A p \in Guest!Slots : polls[p].phase = "reply" => polls[p].entry # e

\* A reading is what its node answers, and it is shown as it was read: in a step
\* a poll comes by a reading of the guest state as it is, or keeps the one it
\* has, and only the end of such a poll changes what is shown.
LEMMA ReadingsComeAndGo ==
  ASSUME GuestInv, [Guest!GuestNext]_(Guest!vars)
  PROVE  /\ \A p \in Guest!Slots : polls'[p].phase = "reply" =>
              \/ polls'[p] = polls[p]
              \/ /\ polls'[p].entry \in Direct
                 /\ polls'[p].reading = guest[polls'[p].entry]
                 /\ UNCHANGED guest
         /\ \A e \in Direct : shown'[e] # shown[e] =>
              \E p \in Guest!Slots : /\ polls[p].phase = "reply"
                                     /\ polls[p].entry = e
                                     /\ shown'[e] = polls[p].reading
  <1>1. /\ polls \in [Guest!Slots -> Guest!Poll] /\ shown \in [Direct -> Guest!GuestState \cup {None}]
        /\ Calls \subseteq Guest!Slots /\ Ticks \subseteq Guest!Slots
    BY DEF GuestInv, Guest!GuestTypeOK, Guest!Slots
  <1>2. ASSUME UNCHANGED <<polls, shown>>
        PROVE  /\ \A p \in Guest!Slots : polls'[p] = polls[p]
               /\ \A e \in Direct : shown'[e] = shown[e]
    BY <1>2
  <1>3. ASSUME NEW p \in Guest!Slots, UNCHANGED shown, NEW poll,
               poll.phase # "reply", polls' = [polls EXCEPT ![p] = poll]
        PROVE  /\ \A q \in Guest!Slots : polls'[q].phase = "reply" => polls'[q] = polls[q]
               /\ \A e \in Direct : shown'[e] = shown[e]
    BY <1>1, <1>3
  <1>4. CASE UNCHANGED Guest!vars
    BY <1>2, <1>4 DEF Guest!vars, Guest!shownVars
  <1>5. CASE \/ \E e \in Entries : Guest!EntryComesUp(e)
             \/ \E e \in Direct : Guest!ModeChanges(e) \/ Guest!ArmEnds(e)
    <2>1. UNCHANGED <<polls, shown>>
      BY <1>5 DEF Guest!EntryComesUp, Guest!ModeChanges, Guest!ArmEnds,
                  Guest!shownVars
    <2>. QED
      BY <1>2, <2>1
  <1>6. ASSUME NEW c \in Calls,
               \/ Guest!ServiceCall(c) \/ Guest!HomeKeyGuestAccessSwitch(c)
               \/ Guest!HomeKeyGuestButtons(c) \/ Guest!CommandFails(c)
        PROVE  UNCHANGED <<polls, shown>>
    BY <1>6 DEF Guest!ServiceCall, Guest!HomeKeyGuestAccessSwitch, Guest!Send,
                Guest!HomeKeyGuestButtons, Guest!Press, Guest!CommandFails,
                Guest!shownVars
  <1>7. ASSUME NEW c \in Calls, Guest!Answered(c)
        PROVE  /\ \A q \in Guest!Slots : polls'[q].phase = "reply" => polls'[q] = polls[q]
               /\ \A e \in Direct : shown'[e] = shown[e]
    <2>1. Guest!NewPoll(calls[c].entry).phase # "reply"
      BY DEF Guest!NewPoll
    <2>. QED
      BY <1>1, <1>3, <1>7, <2>1 DEF Guest!Answered, Guest!shownVars
  <1>8. ASSUME NEW p \in Ticks, NEW e \in Direct, Guest!Tick(p, e)
        PROVE  /\ \A q \in Guest!Slots : polls'[q].phase = "reply" => polls'[q] = polls[q]
               /\ \A d \in Direct : shown'[d] = shown[d]
    <2>1. Guest!NewPoll(e).phase # "reply"
      BY DEF Guest!NewPoll
    <2>. QED
      BY <1>1, <1>3, <1>8, <2>1 DEF Guest!Tick, Guest!shownVars
  <1>9. ASSUME NEW p \in Guest!Slots,
               Guest!StateRead(p) \/ Guest!PollFails(p) \/ Guest!NoGuest(p)
        PROVE  /\ \A q \in Guest!Slots : polls'[q].phase = "reply" => polls'[q] = polls[q]
               /\ \A e \in Direct : shown'[e] = shown[e]
    <2>1. CASE Guest!StateRead(p)
      <3>. DEFINE poll == [polls[p] EXCEPT !.phase = "guest"]
      <3>1. poll.phase # "reply"
        BY <1>1, <2>1, PollPhases DEF Guest!StateRead
      <3>2. polls' = [polls EXCEPT ![p] = poll] /\ UNCHANGED shown
        BY <1>1, <2>1 DEF Guest!StateRead
      <3>. HIDE DEF poll
      <3>. QED
        BY <1>3, <3>1, <3>2
    <2>2. CASE Guest!PollFails(p) \/ Guest!NoGuest(p)
      BY <1>3, <2>2, PollPhases
      DEF Guest!PollFails, Guest!NoGuest, Guest!EndFailedPoll, Guest!EndPoll,
          Guest!shownVars
    <2>. QED
      BY <1>9, <2>1, <2>2
  <1>10. ASSUME NEW p \in Guest!Slots, Guest!GuestRead(p)
         PROVE  /\ \A q \in Guest!Slots \ {p} : polls'[q] = polls[q]
                /\ polls'[p].entry \in Direct
                /\ polls'[p].reading = guest[polls'[p].entry]
                /\ UNCHANGED <<guest, shown>>
    <2>. DEFINE e == polls[p].entry
                poll == [polls[p] EXCEPT !.phase = "reply", !.reading = guest[e]]
    <2>1. polls[p] \in Guest!Poll /\ polls[p].phase = "guest" /\ e \in Direct
      BY <1>1, <1>10, PollPhases DEF Guest!GuestRead
    <2>2. poll.entry = e /\ poll.reading = guest[e]
      BY <2>1 DEF Guest!Poll
    <2>3. polls' = [polls EXCEPT ![p] = poll] /\ UNCHANGED <<guest, shown>>
      BY <1>1, <1>10 DEF Guest!GuestRead, Guest!deviceVars, Guest!shownVars
    <2>. HIDE DEF e, poll
    <2>. QED
      BY <1>1, <2>1, <2>2, <2>3
  <1>11. ASSUME NEW p \in Guest!Slots, Guest!GuestApplied(p)
         PROVE  /\ \A q \in Guest!Slots : polls'[q].phase = "reply" => polls'[q] = polls[q]
                /\ polls[p].phase = "reply"
                /\ shown' = [shown EXCEPT ![polls[p].entry] = polls[p].reading]
    BY <1>1, <1>11, PollPhases DEF Guest!GuestApplied, Guest!EndPoll
  <1>. QED
    BY <1>1, <1>2, <1>4, <1>5, <1>6, <1>7, <1>8, <1>9, <1>10, <1>11
    DEF Guest!GuestNext

\* As long as nothing changes in between, a reading stays what it was taken of,
\* and a refresh that has been applied is not undone.
LEMMA CurrentReadingsStay ==
  ASSUME GuestInv, ReadingsAreCurrent, [Guest!GuestNext]_(Guest!vars),
         [NothingChangesInBetween]_(Guest!vars)
  PROVE  /\ ReadingsAreCurrent'
         /\ \A e \in Direct :
              shown[e] # None /\ shown[e] = guest[e] /\ guest'[e] = guest[e]
                => shown'[e] = shown[e]
  <1>1. NothingChangesInBetween
    BY DEF NothingChangesInBetween, Guest!vars, Guest!deviceVars
  <1>2. polls \in [Guest!Slots -> Guest!Poll]
    BY DEF GuestInv, Guest!GuestTypeOK
  <1>3. ASSUME NEW p \in Guest!Slots, polls'[p].phase = "reply"
        PROVE  polls'[p].reading = guest'[polls'[p].entry]
    <2>1. CASE polls'[p] = polls[p]
      <3>1. polls[p].entry \in Direct /\ polls[p].phase = "reply"
        BY <1>2, <1>3, <2>1, PollPhases
      <3>2. guest'[polls[p].entry] = guest[polls[p].entry]
        BY <1>1, <3>1 DEF NothingChangesInBetween
      <3>. QED
        BY <2>1, <3>1, <3>2 DEF ReadingsAreCurrent
    <2>2. CASE /\ polls'[p].reading = guest[polls'[p].entry]
               /\ UNCHANGED guest
      BY <2>2
    <2>. QED
      BY <1>3, <2>1, <2>2, ReadingsComeAndGo
  <1>4. ReadingsAreCurrent'
    BY <1>3 DEF ReadingsAreCurrent, Guest!Slots
  <1>. QED
    BY <1>4, ReadingsComeAndGo DEF ReadingsAreCurrent

\* Only a change of a node's guest state while a poll has a reading of it in hand
\* undoes a refresh that has been applied: without one, what a card write has
\* brought to the interface stays there (coordinator.py).
THEOREM OnlyRacesUndoARefresh ==
  ASSUME Guest!GuestConstants
  PROVE  Guest!GuestSpec /\ [][NothingChangesInBetween]_(Guest!vars)
           => Guest!RefreshIsNotUndone
  <1>1. Guest!GuestInit => ReadingsAreCurrent
    BY DEF Guest!GuestInit, ReadingsAreCurrent, Guest!NoPoll
  <1>. QED
    BY <1>1, GuestInvariance, CurrentReadingsStay, PTL
    DEF Guest!GuestSpec, Guest!RefreshIsNotUndone
=============================================================================
