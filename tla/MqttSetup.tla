------------------------------ MODULE MqttSetup ------------------------------
(***************************************************************************)
(* The way from the start of a config flow to its household step when MQTT *)
(* is not there yet (config_flow.py): instructions and a check, a broker   *)
(* form whose values are fed to the MQTT integration's own flow, or the    *)
(* Mosquitto add-on, installed by driving that flow round after round.     *)
(*                                                                         *)
(* The flow suspends at every call into the MQTT integration and while it  *)
(* waits for its client; meanwhile somebody may set MQTT up elsewhere, and *)
(* the broker may come and go.  The MQTT integration is external: it has   *)
(* one entry at most, and asks with a menu where there is a Supervisor.    *)
(***************************************************************************)
EXTENDS Naturals

CONSTANTS
    MaxRounds,      \* rounds of the add-on loop: 20
    MaxUpsets,      \* times the broker comes or goes, the entry appears from
                    \* elsewhere, or a call into the MQTT integration raises
    None

ASSUME SetupAssumption == MaxRounds \in Nat \ {0} /\ MaxUpsets \in Nat

\* No error is not one of the errors the MQTT integration reports.
ASSUME NoErrorAssumption == None \notin {"cannot_connect", "addon_start_failed"}

VARIABLES
    \* The world.
    hassio,         \* there is a Supervisor
    broker,         \* a broker can be reached at the address on the form
    entry,          \* the MQTT integration has its entry
    client,         \* and a client that is connected
    upsets,
    \* The flow.
    step,           \* the form it shows, or what it waits for
    result,         \* last answer of the MQTT integration's add-on steps
    rounds,
    expressError,   \* _mqtt_express_error
    addonError,     \* _mqtt_addon_error
    error,          \* errors["base"] of the form
    cause           \* ghost: what the MQTT integration said in this attempt

worldVars == <<hassio, broker, entry, client, upsets>>
errorVars == <<expressError, addonError, error, cause>>
vars == <<worldVars, step, result, rounds, errorVars>>

Forms == {"menu", "mqtt_guide", "mqtt_express", "mqtt_addon"}
\* Waiting for the client: the form to go back to, and the step.
Checks == {"user_check", "guide_check", "exists_check", "created_check",
           "addon_check"}
Steps == Forms \cup Checks
           \cup {"start", "express_init", "express_configure", "addon_init",
                 "addon_round", "household"}
MqttErrors == {"cannot_connect", "addon_start_failed"}
OwnErrors == {"mqtt_not_configured", "mqtt_setup_failed", "mqtt_addon_unavailable",
              "mqtt_addon_failed", "unknown"}
Errors == MqttErrors \cup OwnErrors \cup {None}
Results == {None, "progress", "create_entry", "abort", "error"}

SetupInit ==
    /\ hassio \in BOOLEAN
    /\ broker \in BOOLEAN
    /\ entry \in BOOLEAN
    /\ client \in {FALSE, entry /\ broker}
    /\ upsets = 0
    /\ step = "start"
    /\ result = None
    /\ rounds = 0
    /\ expressError = None
    /\ addonError = None
    /\ error = None
    /\ cause = None

-----------------------------------------------------------------------------
(* The world.                                                                *)

BrokerChanges ==
    /\ upsets < MaxUpsets
    /\ upsets' = upsets + 1
    /\ broker' = ~broker
    /\ client' = (client /\ broker')
    /\ UNCHANGED <<hassio, entry, step, result, rounds, errorVars>>

ClientConnects ==
    /\ entry /\ broker /\ ~client
    /\ client' = TRUE
    /\ UNCHANGED <<hassio, broker, entry, upsets, step, result, rounds, errorVars>>

\* Set up elsewhere, or by an add-on flow that was left behind.
EntryAppears ==
    /\ ~entry
    /\ upsets < MaxUpsets
    /\ upsets' = upsets + 1
    /\ entry' = TRUE
    /\ UNCHANGED <<hassio, broker, client, step, result, rounds, errorVars>>

-----------------------------------------------------------------------------
(* The check that ends every way.                                            *)

Go(to) == step' = to /\ UNCHANGED <<result, rounds>>

\* The form again, with an error.
Show(form, e) ==
    /\ step' = form
    /\ error' = e
    /\ result' = None
    /\ rounds' = 0

Or(e, default) == IF e # None THEN e ELSE default

\* async_validate_mqtt has waited as long as it does.
ClientThere ==
    /\ step \in Checks
    /\ client
    /\ Go("household")
    /\ UNCHANGED <<worldVars, errorVars>>

NoClient ==
    /\ ~client
    /\ \/ step = "user_check" /\ Show("menu", None)
       \/ step = "guide_check" /\ Show("mqtt_guide", "mqtt_not_configured")
       \/ step = "exists_check" /\ Show("mqtt_express", "mqtt_not_configured")
       \/ step = "created_check"
            /\ Show("mqtt_express", Or(expressError, "mqtt_setup_failed"))
       \/ step = "addon_check"
            /\ Show("mqtt_addon", Or(addonError, "mqtt_addon_failed"))
    /\ UNCHANGED <<worldVars, expressError, addonError, cause>>

async_step_user ==
    /\ step = "start"
    /\ Go("user_check")
    /\ UNCHANGED <<worldVars, errorVars>>

ChooseFromMenu ==
    /\ step = "menu"
    /\ \E form \in Forms \ {"menu"} : (form = "mqtt_addon" => hassio) /\ Go(form)
    /\ UNCHANGED <<worldVars, errorVars>>

\* The user gives up and starts again, with a new flow object.
CloseFlow ==
    /\ step \in Forms
    /\ Show("start", None)
    /\ expressError' = None
    /\ addonError' = None
    /\ cause' = None
    /\ UNCHANGED worldVars

async_step_mqtt_guide ==
    /\ step = "mqtt_guide"
    /\ Go("guide_check")
    /\ UNCHANGED <<worldVars, errorVars>>

-----------------------------------------------------------------------------
(* Express: the MQTT integration's entry from a broker form.                 *)

BugExpress ==
    /\ step = "mqtt_express"
    /\ cause' = None
    /\ Go("express_init")
    /\ UNCHANGED <<worldVars, expressError, addonError, error>>

async_step_mqtt_express ==
    /\ step = "mqtt_express"
    /\ cause' = None
    /\ Go(IF entry THEN "exists_check" ELSE "express_init")
    /\ UNCHANGED <<worldVars, expressError, addonError, error>>

\* Without a form to fill in there is no going on.
ExpressInit ==
    /\ step = "express_init"
    /\ IF ~entry /\ ~hassio
       THEN Go("express_configure") /\ UNCHANGED error
       ELSE Show("mqtt_express", Or(expressError, "mqtt_setup_failed"))
    /\ UNCHANGED <<worldVars, expressError, addonError, cause>>

\* The MQTT integration connects to the broker before it makes the entry.
ExpressCreates ==
    /\ step = "express_configure"
    /\ broker /\ ~entry
    /\ entry' = TRUE
    /\ Go("created_check")
    /\ UNCHANGED <<hassio, broker, client, upsets, errorVars>>

\* It shows its form again with an error, or aborts, which has none.
ExpressFails ==
    /\ step = "express_configure"
    /\ entry \/ ~broker
    /\ LET said == IF entry THEN None ELSE "cannot_connect"
       IN /\ expressError' = said
          /\ cause' = said
          /\ Show("mqtt_express", Or(said, "mqtt_setup_failed"))
    /\ UNCHANGED <<worldVars, addonError>>

\* Submitting the values raises: a failure that says nothing of its own.
ExpressRaises ==
    /\ step = "express_configure"
    /\ upsets < MaxUpsets
    /\ upsets' = upsets + 1
    /\ Show("mqtt_express", Or(expressError, "mqtt_setup_failed"))
    /\ UNCHANGED <<hassio, broker, entry, client, expressError, addonError, cause>>

-----------------------------------------------------------------------------
(* The add-on.                                                               *)

BugAddon ==
    /\ step = "mqtt_addon"
    /\ cause' = None
    /\ Go("addon_init")
    /\ UNCHANGED <<worldVars, expressError, addonError, error>>

async_step_mqtt_addon ==
    /\ step = "mqtt_addon"
    /\ addonError' = None
    /\ cause' = None
    /\ Go("addon_init")
    /\ UNCHANGED <<worldVars, expressError, error>>

\* What the add-on steps can answer; an entry is made once the broker is up.
Answers ==
    \/ result' \in {"progress", "abort", "error"} /\ UNCHANGED entry
    \/ broker /\ ~entry /\ entry' = TRUE /\ result' = "create_entry"

FailAddon(e) ==
    /\ addonError' = e
    /\ Show("mqtt_addon", e)

AddonInit ==
    /\ step = "addon_init"
    /\ IF ~entry
       THEN /\ Answers
            /\ step' = "addon_round"
            /\ UNCHANGED <<rounds, addonError, error>>
       ELSE /\ FailAddon("mqtt_addon_unavailable")
            /\ UNCHANGED entry
    /\ UNCHANGED <<hassio, broker, client, upsets, expressError, cause>>

\* Starting the MQTT flow raises.
AddonInitRaises ==
    /\ step = "addon_init"
    /\ Show("mqtt_addon", Or(addonError, "mqtt_addon_failed"))
    /\ UNCHANGED <<worldVars, expressError, addonError, cause>>

BugMoreRounds == rounds <= MaxRounds
MoreRounds == rounds < MaxRounds

\* A form can come back without an error, and an abort always has its reason.
Said == IF result = "error" THEN {"addon_start_failed", None} ELSE {"addon_start_failed"}

\* One turn of the loop: created, still at work, or over.
AddonRound ==
    /\ step = "addon_round"
    /\ MoreRounds
    /\ \/ /\ result = "create_entry"
          /\ Go("addon_check")
          /\ UNCHANGED <<entry, errorVars>>
       \/ /\ result = "progress"
          /\ Answers
          /\ rounds' = rounds + 1
          /\ UNCHANGED <<step, errorVars>>
       \/ /\ result \in {"abort", "error"}
          /\ cause' \in Said
          /\ FailAddon(Or(cause', "mqtt_addon_failed"))
          /\ UNCHANGED <<entry, expressError>>
    /\ UNCHANGED <<hassio, broker, client, upsets>>

\* The rounds are used up.  The last answer is looked at for an error only.
AddonGivesUp ==
    /\ step = "addon_round"
    /\ ~MoreRounds
    /\ cause' \in (IF result = "error" THEN Said ELSE {None})
    /\ FailAddon(Or(cause', "mqtt_addon_failed"))
    /\ UNCHANGED <<worldVars, expressError>>

\* An exception that the flow does not catch: Home Assistant reports it, and the
\* form is there again.
Uncaught ==
    /\ upsets < MaxUpsets
    /\ upsets' = upsets + 1
    /\ \/ step = "express_init" /\ Show("mqtt_express", "unknown")
       \/ step \in {"addon_init", "addon_round"} /\ Show("mqtt_addon", "unknown")
    /\ UNCHANGED <<hassio, broker, entry, client, expressError, addonError, cause>>

SetupNext ==
    \/ BrokerChanges \/ ClientConnects \/ EntryAppears
    \/ ClientThere \/ NoClient
    \/ async_step_user \/ ChooseFromMenu \/ CloseFlow
    \/ async_step_mqtt_guide
    \/ async_step_mqtt_express \/ ExpressInit \/ ExpressCreates \/ ExpressFails
    \/ ExpressRaises \/ Uncaught
    \/ async_step_mqtt_addon \/ AddonInit \/ AddonInitRaises \/ AddonRound
    \/ AddonGivesUp

SetupSpec == SetupInit /\ [][SetupNext]_vars

\* Every call into the MQTT integration and every wait for its client ends, and
\* an MQTT client that can connect does.  Of the user nothing is assumed.
SetupFairness ==
    /\ WF_vars(ClientThere \/ NoClient)
    /\ WF_vars(ExpressInit) /\ WF_vars(ExpressCreates \/ ExpressFails)
    /\ WF_vars(AddonInit \/ AddonInitRaises) /\ WF_vars(AddonRound \/ AddonGivesUp)
    /\ WF_vars(ClientConnects)

SetupFairSpec == SetupSpec /\ SetupFairness

-----------------------------------------------------------------------------
(* Properties.                                                               *)

\* The flow is well typed, and a client is one of an entry.
SetupTypeOK ==
    /\ hassio \in BOOLEAN /\ broker \in BOOLEAN /\ entry \in BOOLEAN
    /\ client \in BOOLEAN
    /\ step \in Steps
    /\ result \in Results
    /\ rounds \in 0..MaxRounds
    /\ expressError \in Errors /\ addonError \in Errors /\ error \in Errors
    /\ client => entry /\ broker

\* What the add-on form says went wrong is what the MQTT integration said in
\* this attempt, or one of the flow's own messages, never a reason left over
\* from an earlier attempt (_async_setup_mqtt_addon).
AddonErrorIsFresh ==
    step = "mqtt_addon" /\ error \in MqttErrors => error = cause

\* A user who tries again and again does not do so for ever.  With a broker that
\* can be reached the broker form leads on, also after an attempt that made the
\* entry and did not see it connect (the entry is looked for first); with an
\* entry too, so do the guide and a new flow (async_step_mqtt_express,
\* async_step_mqtt_guide, async_step_user).
RetryEnds ==
    /\ <>[](broker /\ ~hassio) =>
          <>[](step \notin {"express_init", "express_configure", "exists_check",
                            "created_check"})
    /\ <>[](broker /\ entry) => <>[](step \notin {"guide_check", "user_check"})

-----------------------------------------------------------------------------
(* What the repository says and the code does not do: these are false of the *)
(* specification (see README.md).                                            *)

\* "Surface the MQTT flow's own error ... so the user knows what to fix"
\* (config_flow.py): the error of this attempt.  _mqtt_express_error is not
\* cleared before the next one.
ExpressErrorIsFresh ==
    step = "mqtt_express" /\ error \in MqttErrors => error = cause

\* "keep advancing the flow ... until it either creates the entry or fails"
\* (config_flow.py): an attempt that created the entry is not shown as failed
\* while the client is connected.  The answer of the last round is not looked at.
CreationIsSeen ==
    [][step = "addon_round" /\ result = "create_entry" /\ client
          => step' # "mqtt_addon"]_vars

\* "ensure MQTT, or offer guided / express / add-on setup" (config_flow.py): an
\* offered way works, with a Supervisor too, where the MQTT integration answers
\* the express way with a menu and, once it has its entry, the add-on way too.
OfferedWaysWork ==
    <>[]broker => <>[](step \notin {"express_init", "addon_init"})
=============================================================================
