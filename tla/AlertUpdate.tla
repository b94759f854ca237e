----------------------------- MODULE AlertUpdate -----------------------------
(***************************************************************************)
(* update_alert_status: AlertsModule._update_alert_status and              *)
(* _verify_status_applied (modules/alerts.py), on worker threads, against   *)
(* an API that others use too and that may answer 500 whether or not it has *)
(* applied the update.                                                     *)
(*                                                                         *)
(* Comments, tags and assignees are one field, extra; the update of         *)
(* one alert is applied whole or not at all.                               *)
(***************************************************************************)
EXTENDS FiniteSets

CONSTANTS
    Alert,          \* composite alert ids
    ThirdParty,     \* those whose product type is "thirdparty"
    AlertStatus,    \* the valid statuses
    NoStatus,       \* status omitted
    Updater         \* worker threads that run the tool

ASSUME AlertUpdateAssumption ==
    /\ ThirdParty \subseteq Alert
    /\ NoStatus \notin AlertStatus

VARIABLES
    alertStatus,    \* the API's status of each alert
    update,         \* update[w]: the call of worker w
    applied,        \* history: applied[w], the alerts its update was applied to
    reached         \* history: reached[w], the alerts that have had the status
                    \* it asks for at some time since it began

updateVars == <<alertStatus, update, applied, reached>>

\* extra is "refused" when the request holds a status that is not valid, assign
\* together with unassign, or an oversized value.
Request == [ids : SUBSET Alert, status : AlertStatus \cup {NoStatus},
            extra : {"none", "some", "refused"}]

\* What the tool turns down before any request.
Invalid(q) ==
    \/ q.status = NoStatus /\ q.extra = "none"
    \/ q.extra = "refused"

UInit ==
    /\ alertStatus \in [Alert -> AlertStatus]
    /\ update = [w \in Updater |->
                   [pc |-> "idle",
                    asked |-> [ids |-> {}, status |-> NoStatus, extra |-> "none"]]]
    /\ applied = [w \in Updater |-> {}]
    /\ reached = [w \in Updater |-> {}]

Resting(w) == update[w].pc \in {"idle", "succeeded", "failed"}

Having(status, s) == {al \in DOMAIN status : status[al] = s}

\* The calls under way take note of the statuses as they have become.
Reach(status) ==
    reached' = [w \in Updater |->
                  IF Resting(w) THEN reached[w]
                  ELSE reached[w] \cup Having(status, update[w].asked.status)]

UpdateGoes(w, pc) == update' = [update EXCEPT ![w].pc = pc]

UpdateAlerts(w, q) ==
    /\ Resting(w)
    /\ update' = [update EXCEPT
                    ![w] = [pc |-> IF Invalid(q) THEN "failed" ELSE "send", asked |-> q]]
    /\ applied' = [applied EXCEPT ![w] = {}]
    /\ reached' = [reached EXCEPT ![w] = Having(alertStatus, q.status)]
    /\ UNCHANGED alertStatus

\* The API has applied the update to the alerts of `done` and answers.
ApplyTo(w, done) ==
    LET s == update[w].asked.status
        status == IF s = NoStatus THEN alertStatus
                  ELSE [al \in Alert |-> IF al \in done THEN s ELSE alertStatus[al]]
    IN  /\ update[w].pc = "send"
        /\ alertStatus' = status
        /\ applied' = [applied EXCEPT ![w] = done]
        /\ Reach(status)

\* Mutant of Answer200: the request names every alert.
Answer200EveryAlert(w) == ApplyTo(w, Alert) /\ UpdateGoes(w, "succeeded")

Answer200(w) == ApplyTo(w, update[w].asked.ids) /\ UpdateGoes(w, "succeeded")

\* Mutant of Spurious: one thirdparty alert is enough.
SpuriousAny(q) ==
    /\ q.status # NoStatus
    /\ q.ids \cap ThirdParty # {}

\* A 500 is looked into only for a status update of thirdparty alerts alone.
Spurious(q) ==
    /\ q.status # NoStatus
    /\ q.ids # {}
    /\ q.ids \subseteq ThirdParty

Answer500(w) ==
    \E done \in SUBSET update[w].asked.ids :
        /\ ApplyTo(w, done)
        /\ UpdateGoes(w, IF Spurious(update[w].asked) THEN "verify" ELSE "failed")

\* Any other refusal, or a raise with nothing known of the update.
AnswerOther(w) ==
    \E done \in SUBSET update[w].asked.ids :
        ApplyTo(w, done) /\ UpdateGoes(w, "failed")

\* Mutant of Confirmed: one alert with the status is enough.
ConfirmedAny(q) == \E al \in q.ids : alertStatus[al] = q.status

\* The re-fetched alerts all have the status that was asked for.
Confirmed(q) == \A al \in q.ids : alertStatus[al] = q.status

VerifyStatusApplied(w) ==
    /\ update[w].pc = "verify"
    /\ UpdateGoes(w, IF Confirmed(update[w].asked) THEN "succeeded" ELSE "failed")
    /\ UNCHANGED <<alertStatus, applied, reached>>

\* The re-fetch is refused, raises or comes back short.
VerifyFails(w) ==
    /\ update[w].pc = "verify"
    /\ UpdateGoes(w, "failed")
    /\ UNCHANGED <<alertStatus, applied, reached>>

\* Somebody changes an alert in the console.
ConsoleUpdate(al, s) ==
    /\ alertStatus[al] # s
    /\ alertStatus' = [alertStatus EXCEPT ![al] = s]
    /\ Reach(alertStatus')
    /\ UNCHANGED <<update, applied>>

UNext ==
    \/ \E w \in Updater :
          \/ \E q \in Request : UpdateAlerts(w, q)
          \/ Answer200(w) \/ Answer500(w) \/ AnswerOther(w)
          \/ VerifyStatusApplied(w) \/ VerifyFails(w)
    \/ \E al \in Alert, s \in AlertStatus : ConsoleUpdate(al, s)

USpec == UInit /\ [][UNext]_updateVars

-----------------------------------------------------------------------------
UTypeOK ==
    /\ alertStatus \in [Alert -> AlertStatus]
    /\ update \in [Updater -> [pc : {"idle", "send", "verify", "succeeded", "failed"},
                               asked : Request]]
    /\ applied \in [Updater -> SUBSET Alert]
    /\ reached \in [Updater -> SUBSET Alert]
    /\ \A w \in Updater : applied[w] \subseteq update[w].asked.ids

Succeeded(w) == update[w].pc = "succeeded"

\* The verification of a 500 never hides the failure of an update that holds
\* any other product's alert ("Scoped to all-thirdparty batches so genuine
\* errors for other products are never masked", alerts.py:496-497).
NonThirdpartyNeverMasked ==
    \A w \in Updater :
        Succeeded(w) /\ ~(update[w].asked.ids \subseteq ThirdParty)
        => applied[w] = update[w].asked.ids

\* A call that reports a new status speaks of alerts that have each had it at
\* some time during the call, by whoever's hand.
ReportedStatusReached ==
    \A w \in Updater :
        Succeeded(w) /\ update[w].asked.status # NoStatus
        => update[w].asked.ids \subseteq reached[w]

\* alerts.py:288 tells the caller that "the update was verified applied by
\* re-fetching": a call that succeeds has had its update applied to every alert.
SuccessMeansApplied ==
    \A w \in Updater : Succeeded(w) => applied[w] = update[w].asked.ids
=============================================================================
