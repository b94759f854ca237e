----------------------------- MODULE Containment -----------------------------
(***************************************************************************)
(* host_contain and host_lift_containment (modules/response.py): the host   *)
(* is looked up, its containment status and the exclusions are checked on   *)
(* what was read, then the action is requested and audited.  Tools run on   *)
(* worker threads; others change hosts and tags in the console.            *)
(*                                                                         *)
(* A host is protected while an id, hostname pattern or tag excludes it.    *)
(***************************************************************************)
EXTENDS FiniteSets

CONSTANTS
    Host,
    Responder       \* worker threads that run the tools

VARIABLES
    hostStatus,     \* the API's containment status of each host
    protected,      \* the hosts some exclusion covers
    order,          \* order[r]: the call of worker r
    audited,        \* the workers whose call has its line in containment_audit.log
    exposed,        \* history: workers whose host was unprotected during the call
    excused         \* history: workers whose answer or log line was lost

containVars == <<hostStatus, protected, order, audited, exposed, excused>>

HostStatus == {"normal", "containment_pending", "contained", "lift_containment_pending"}
Action == {"contain", "lift_containment"}

CInit ==
    /\ hostStatus = [h \in Host |-> "normal"]
    /\ protected \in SUBSET Host
    /\ \E h \in Host :
          order = [r \in Responder |-> [pc |-> "idle", action |-> "contain", host |-> h,
                                        confirm |-> FALSE, effect |-> FALSE]]
    /\ audited = {} /\ exposed = {} /\ excused = {}

AtRest(r) == order[r].pc \in {"idle", "answered"}
OrderGoes(r, pc) == order' = [order EXCEPT ![r].pc = pc]

OrderAction(r, action, h, confirm) ==
    /\ AtRest(r)
    /\ order' = [order EXCEPT ![r] = [pc |-> "lookup", action |-> action, host |-> h,
                                      confirm |-> confirm, effect |-> FALSE]]
    /\ audited' = audited \ {r}
    /\ exposed' = IF h \in protected THEN exposed \ {r} ELSE exposed \cup {r}
    /\ excused' = excused \ {r}
    /\ UNCHANGED <<hostStatus, protected>>

\* Mutant of Permitted: the exclusions guard the preview only.
PermittedOnPreview(r) ==
    LET o == order[r]
    IN  IF o.action = "contain"
        THEN hostStatus[o.host] # "contained" /\ (o.host \notin protected \/ o.confirm)
        ELSE hostStatus[o.host] = "contained"

\* The status the action presumes and, for containing, no exclusion.
Permitted(r) ==
    LET o == order[r]
    IN  IF o.action = "contain"
        THEN hostStatus[o.host] # "contained" /\ o.host \notin protected
        ELSE hostStatus[o.host] = "contained"

\* _get_device: everything is decided on what this one read returns.
LookUp(r) ==
    /\ order[r].pc = "lookup"
    /\ OrderGoes(r, IF Permitted(r) /\ order[r].confirm THEN "perform" ELSE "answered")
    /\ UNCHANGED <<hostStatus, protected, audited, exposed, excused>>

NotFound(r) ==
    /\ order[r].pc = "lookup"
    /\ OrderGoes(r, "answered")
    /\ UNCHANGED <<hostStatus, protected, audited, exposed, excused>>

Outcome(action) ==
    IF action = "contain" THEN "containment_pending" ELSE "lift_containment_pending"

\* The API performs the action, or does not.
Effect(r, effect, pc) ==
    /\ order[r].pc = "perform"
    /\ order' = [order EXCEPT ![r].pc = pc, ![r].effect = effect]
    /\ hostStatus' = IF effect
                     THEN [hostStatus EXCEPT ![order[r].host] = Outcome(order[r].action)]
                     ELSE hostStatus
    /\ UNCHANGED <<protected, audited, exposed>>

Performed(r) == Effect(r, TRUE, "audit") /\ UNCHANGED excused

\* Mutant of Refused: only a success is logged.
RefusedUnlogged(r) ==
    \E effect \in BOOLEAN : Effect(r, effect, "answered") /\ UNCHANGED excused

\* A status other than 2xx; a time-out answers so too, after the effect.
Refused(r) ==
    \E effect \in BOOLEAN : Effect(r, effect, "audit") /\ UNCHANGED excused

\* perform_action raises: the handler answers without a log line.
PerformRaises(r) ==
    \E effect \in BOOLEAN :
        Effect(r, effect, "answered") /\ excused' = excused \cup {r}

WriteAuditLog(r) ==
    /\ order[r].pc = "audit"
    /\ OrderGoes(r, "answered")
    /\ audited' = audited \cup {r}
    /\ UNCHANGED <<hostStatus, protected, exposed, excused>>

\* OSError: noted on stderr, and the tool answers all the same.
AuditLogFails(r) ==
    /\ order[r].pc = "audit"
    /\ OrderGoes(r, "answered")
    /\ excused' = excused \cup {r}
    /\ UNCHANGED <<hostStatus, protected, audited, exposed>>

\* The sensor carries the action out.
Settle(h) ==
    /\ \/ hostStatus[h] = "containment_pending"
          /\ hostStatus' = [hostStatus EXCEPT ![h] = "contained"]
       \/ hostStatus[h] = "lift_containment_pending"
          /\ hostStatus' = [hostStatus EXCEPT ![h] = "normal"]
    /\ UNCHANGED <<protected, order, audited, exposed, excused>>

\* A tag that excludes the host is added or removed.
Tag(h) ==
    /\ \/ h \notin protected /\ protected' = protected \cup {h} /\ UNCHANGED exposed
       \/ h \in protected
          /\ protected' = protected \ {h}
          /\ exposed' = exposed \cup {r \in Responder : order[r].host = h /\ ~AtRest(r)}
    /\ UNCHANGED <<hostStatus, order, audited, excused>>

CNext ==
    \/ \E r \in Responder :
          \/ \E action \in Action, h \in Host, confirm \in BOOLEAN :
                OrderAction(r, action, h, confirm)
          \/ LookUp(r) \/ NotFound(r)
          \/ Performed(r) \/ Refused(r) \/ PerformRaises(r)
          \/ WriteAuditLog(r) \/ AuditLogFails(r)
    \/ \E h \in Host : Settle(h) \/ Tag(h)

CSpec == CInit /\ [][CNext]_containVars

-----------------------------------------------------------------------------
CTypeOK ==
    /\ hostStatus \in [Host -> HostStatus]
    /\ protected \subseteq Host
    /\ order \in [Responder -> [pc : {"idle", "lookup", "perform", "audit", "answered"},
                                action : Action, host : Host,
                                confirm : BOOLEAN, effect : BOOLEAN]]
    /\ audited \subseteq Responder /\ exposed \subseteq Responder /\ excused \subseteq Responder

\* A host that is excluded for the whole of a call is not contained by it,
\* whatever other calls and the console do meanwhile ("Respects
\* do-not-contain exclusion list", response.py:73).
ProtectedNeverContained ==
    \A r \in Responder :
        order[r].action = "contain" /\ order[r].effect => r \in exposed

\* An action that took effect has its line in the audit log when the call
\* answers, also when the API reported a failure ("Log the action regardless
\* of outcome", response.py:279), unless the request raised or the log could
\* not be written.
ContainmentAudited ==
    \A r \in Responder :
        AtRest(r) /\ order[r].effect => r \in audited \cup excused
=============================================================================
