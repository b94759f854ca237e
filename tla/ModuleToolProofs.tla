-------------------------- MODULE ModuleToolProofs --------------------------
(***************************************************************************)
(* The tools of MCModuleTools whose state is small, each for any number of  *)
(* worker threads, tenants, hosts and alerts: containment and its audit     *)
(* log, remote commands and theirs, the alert update and its verification,  *)
(* the events of an alert and the edge types, both cached across tenants,   *)
(* and the files that template imports write.  What is proved of each, and   *)
(* of CaseUpdate and OAuthRefresh, holds of their composition.              *)
(***************************************************************************)
EXTENDS MCModuleTools, CaseUpdateProofs, OAuthRefreshProofs, TLAPS

-----------------------------------------------------------------------------
(* Containment.                                                            *)

\* The exclusions are checked on one read and the action comes later, so the
\* invariant follows a call from its start: while it runs unexposed its host is
\* still protected, and it is only on its way to contain once exposed.
CallOK(r) ==
    /\ order[r].action = "contain" /\ (order[r].effect \/ order[r].pc = "perform")
       => r \in exposed
    /\ AtRest(r) /\ order[r].effect => r \in audited \cup excused
    /\ order[r].pc \in {"lookup", "perform"} => ~order[r].effect
    /\ ~AtRest(r) /\ order[r].host \notin protected => r \in exposed

CInv == CTypeOK /\ \A r \in Responder : CallOK(r)

Order == [pc : {"idle", "lookup", "perform", "audit", "answered"},
          action : Action, host : Host, confirm : BOOLEAN, effect : BOOLEAN]

LEMMA InitCInv == CInit => CInv
BY DEF CInit, CInv, CTypeOK, CallOK, AtRest,
       HostStatus, Action

LEMMA OrderCInv ==
    ASSUME CInv, NEW r \in Responder, NEW action \in Action, NEW h \in Host,
           NEW confirm \in BOOLEAN, OrderAction(r, action, h, confirm)
    PROVE  CInv'
<1>1. order' = [order EXCEPT ![r] = [pc |-> "lookup", action |-> action, host |-> h,
                                     confirm |-> confirm, effect |-> FALSE]]
  BY DEF OrderAction
<1>2. /\ audited' = audited \ {r} /\ excused' = excused \ {r}
      /\ exposed' = IF h \in protected THEN exposed \ {r} ELSE exposed \cup {r}
      /\ UNCHANGED <<hostStatus, protected>>
  BY DEF OrderAction
<1>3. CTypeOK'
  BY <1>1, <1>2 DEF CInv, CTypeOK
<1>4. ASSUME NEW q \in Responder, q # r
      PROVE  /\ order'[q] = order[q] /\ (q \in audited' <=> q \in audited)
             /\ (q \in exposed' <=> q \in exposed) /\ (q \in excused' <=> q \in excused)
  BY <1>1, <1>2, <1>4 DEF CInv, CTypeOK
<1>5. /\ order'[r].pc = "lookup" /\ order'[r].effect = FALSE /\ order'[r].host = h
      /\ h \notin protected' => r \in exposed'
  BY <1>1, <1>2 DEF CInv, CTypeOK
<1> QED BY <1>2, <1>3, <1>4, <1>5 DEF CInv, CallOK, AtRest

\* The host is looked up, or not found.
LEMMA LookUpCInv ==
    ASSUME CInv, NEW r \in Responder, LookUp(r) \/ NotFound(r)
    PROVE  CInv'
<1>1. PICK place \in {"perform", "answered"} :
         /\ order' = [order EXCEPT ![r].pc = place]
         /\ place = "perform" => Permitted(r)
  BY DEF LookUp, NotFound, OrderGoes
<1>2. order[r].pc = "lookup" /\ UNCHANGED <<hostStatus, protected, audited, exposed, excused>>
  BY DEF LookUp, NotFound
<1>3. CTypeOK'
  BY <1>1, <1>2 DEF CInv, CTypeOK
<1>4. ASSUME NEW q \in Responder, q # r PROVE order'[q] = order[q]
  BY <1>1, <1>4 DEF CInv, CTypeOK
<1>5. /\ order'[r].pc = place /\ order'[r].action = order[r].action
      /\ order'[r].host = order[r].host /\ order'[r].effect = order[r].effect
      /\ ~order[r].effect
  BY <1>1, <1>2 DEF CInv, CTypeOK, CallOK
<1>6. place = "perform" /\ order[r].action = "contain" => r \in exposed
  <2>1. ~AtRest(r) BY <1>2 DEF AtRest
  <2> QED BY <2>1, <1>1 DEF Permitted, CInv, CallOK
<1> QED BY <1>1, <1>2, <1>3, <1>4, <1>5, <1>6
       DEF CInv, CallOK, AtRest

\* The action is performed or not, and the answer comes, says no or is lost.
LEMMA EffectCInv ==
    ASSUME CInv, NEW r \in Responder, Performed(r) \/ Refused(r) \/ PerformRaises(r)
    PROVE  CInv'
<1>1. PICK effect \in BOOLEAN, place \in {"audit", "answered"} :
         /\ Effect(r, effect, place)
         /\ excused' = excused \cup {r} \/ (place = "audit" /\ excused' = excused)
  <2>1. CASE Performed(r)
    BY <2>1 DEF Performed
  <2>2. CASE Refused(r)
    BY <2>2 DEF Refused
  <2>3. CASE PerformRaises(r)
    BY <2>3 DEF PerformRaises
  <2> QED BY <2>1, <2>2, <2>3
<1>2. /\ order[r].pc = "perform"
      /\ order' = [order EXCEPT ![r].pc = place, ![r].effect = effect]
      /\ hostStatus' \in {hostStatus,
                          [hostStatus EXCEPT ![order[r].host] = Outcome(order[r].action)]}
      /\ UNCHANGED <<protected, audited, exposed>>
  BY <1>1 DEF Effect
<1>3. CTypeOK'
  <2>1. Outcome(order[r].action) \in HostStatus
    BY DEF Outcome, HostStatus
  <2>2. hostStatus' \in [Host -> HostStatus]
    BY <2>1, <1>2 DEF CInv, CTypeOK
  <2>3. order' \in [Responder -> Order]
    <3>1. order \in [Responder -> Order]
      BY DEF CInv, CTypeOK, Order
    <3>2. [order[r] EXCEPT !.pc = place, !.effect = effect] \in Order
      BY <3>1 DEF Order
    <3>3. order' = [order EXCEPT ![r] = [order[r] EXCEPT !.pc = place, !.effect = effect]]
      BY <3>1, <1>2
    <3> QED BY <3>1, <3>2, <3>3
  <2> QED BY <2>2, <2>3, <1>1, <1>2 DEF CInv, CTypeOK, Order
<1>4. ASSUME NEW q \in Responder, q # r
      PROVE  order'[q] = order[q] /\ (q \in excused' <=> q \in excused)
  BY <1>1, <1>2, <1>4 DEF CInv, CTypeOK
<1>5. /\ order'[r].pc = place /\ order'[r].action = order[r].action
      /\ order'[r].host = order[r].host
  BY <1>2 DEF CInv, CTypeOK
<1>6. /\ order[r].action = "contain" => r \in exposed
      /\ order[r].host \notin protected => r \in exposed
      /\ place = "answered" => r \in excused'
  BY <1>1, <1>2 DEF CInv, CallOK, AtRest
<1>7. ASSUME NEW q \in Responder PROVE CallOK(q)'
  <2>1. CASE q # r
    <3>1. /\ CallOK(q) /\ order'[q] = order[q] /\ (q \in excused' <=> q \in excused)
          /\ UNCHANGED <<protected, audited, exposed>>
      BY <2>1, <1>2, <1>4 DEF CInv
    <3> QED BY <3>1 DEF CallOK, AtRest
  <2>2. CASE q = r
    BY <2>2, <1>2, <1>5, <1>6 DEF CallOK, AtRest
  <2> QED BY <2>1, <2>2
<1> QED BY <1>3, <1>7 DEF CInv

\* The audit line is written, or cannot be.
LEMMA AuditCInv ==
    ASSUME CInv, NEW r \in Responder, WriteAuditLog(r) \/ AuditLogFails(r)
    PROVE  CInv'
<1>1. /\ order[r].pc = "audit" /\ order' = [order EXCEPT ![r].pc = "answered"]
      /\ audited \subseteq audited' /\ excused \subseteq excused'
      /\ audited' \subseteq audited \cup {r} /\ excused' \subseteq excused \cup {r}
      /\ r \in audited' \cup excused'
      /\ UNCHANGED <<hostStatus, protected, exposed>>
  BY DEF WriteAuditLog, AuditLogFails, OrderGoes
<1>2. CTypeOK'
  BY <1>1 DEF CInv, CTypeOK
<1>3. ASSUME NEW q \in Responder, q # r PROVE order'[q] = order[q]
  BY <1>1, <1>3 DEF CInv, CTypeOK
<1>4. /\ order'[r].pc = "answered" /\ order'[r].action = order[r].action
      /\ order'[r].host = order[r].host /\ order'[r].effect = order[r].effect
  BY <1>1 DEF CInv, CTypeOK
<1> QED BY <1>1, <1>2, <1>3, <1>4
       DEF CInv, CallOK, AtRest

\* The console: the sensor settles, a tag comes or goes.
LEMMA ConsoleCInv ==
    ASSUME CInv, NEW h \in Host, Settle(h) \/ Tag(h)
    PROVE  CInv'
<1>1. CASE Settle(h)
  <2>1. /\ hostStatus' \in [Host -> HostStatus]
        /\ UNCHANGED <<protected, order, audited, exposed, excused>>
    BY <1>1 DEF Settle, HostStatus, CInv, CTypeOK
  <2> QED BY <2>1 DEF CInv, CTypeOK, CallOK, AtRest
<1>2. CASE Tag(h)
  <2>1. /\ protected' \subseteq Host /\ exposed' \subseteq Responder
        /\ exposed \subseteq exposed'
        /\ \A r \in Responder :
              ~AtRest(r) /\ order[r].host \notin protected' => r \in exposed'
        /\ UNCHANGED <<hostStatus, order, audited, excused>>
    BY <1>2 DEF Tag, CInv, CTypeOK, CallOK
  <2> QED BY <2>1 DEF CInv, CTypeOK, CallOK, AtRest
<1> QED BY <1>1, <1>2

LEMMA NextCInv == CInv /\ [CNext]_containVars => CInv'
<1> SUFFICES ASSUME CInv, [CNext]_containVars PROVE CInv'
  OBVIOUS
<1>1. CASE UNCHANGED containVars
  BY <1>1 DEF containVars, CInv, CTypeOK, CallOK, AtRest
<1>2. CASE CNext
  BY <1>2, OrderCInv, LookUpCInv, EffectCInv, AuditCInv, ConsoleCInv DEF CNext
<1> QED BY <1>1, <1>2

\* A host some exclusion covers for the whole of a call is not contained by it
\* (host_contain), however its device record is read and changed meanwhile.
THEOREM ExcludedNeverContained == CSpec => []ProtectedNeverContained
<1>1. CInv => ProtectedNeverContained
  BY DEF CInv, CallOK, ProtectedNeverContained
<1> QED BY <1>1, InitCInv, NextCInv, PTL DEF CSpec

\* An action that took effect is in the audit log unless the request raised or
\* the log could not be written (_execute_containment).
THEOREM EffectsAudited == CSpec => []ContainmentAudited
<1>1. CInv => ContainmentAudited
  BY DEF CInv, CallOK, ContainmentAudited
<1> QED BY <1>1, InitCInv, NextCInv, PTL DEF CSpec

-----------------------------------------------------------------------------
(* Remote commands.                                                        *)

\* Until its line is due a command has none; it is sent only if it is allowed.
CommandOK(o) ==
    /\ command[o].pc = "execute" => ~command[o].ran /\ command[o].base \in Allowlist
    /\ command[o].pc \in {"execute", "audit"} => rtrLog[o] = "none"
    /\ command[o].answer = "success" => command[o].ran /\ command[o].base \in Allowlist
    /\ rtrLog[o] = "success" => command[o].answer = "success"
    /\ command[o].pc \in {"idle", "answered"} /\ command[o].ran
       => rtrLog[o] # "none" \/ o \in unwritten

Command == [pc : {"idle", "execute", "audit", "answered"}, base : BaseCommand,
            ids : BOOLEAN, answer : {"none", "success", "failure"}, ran : BOOLEAN]

RInv == RTypeOK /\ \A o \in Operator : CommandOK(o)

LEMMA InitRInv == RInit => RInv
BY DEF RInit, RInv, RTypeOK, CommandOK

LEMMA NextRInv == RInv /\ [RNext]_rtrVars => RInv'
<1> SUFFICES ASSUME RInv, [RNext]_rtrVars PROVE RInv'
  OBVIOUS
<1>1. ASSUME NEW o \in Operator, NEW base \in BaseCommand, NEW matches \in BOOLEAN,
             NEW ids \in BOOLEAN, ExecuteCommand(o, base, matches, ids)
      PROVE  RInv'
  <2>1. RTypeOK'
    BY <1>1 DEF ExecuteCommand, RInv, RTypeOK
  <2>2. ASSUME NEW q \in Operator PROVE CommandOK(q)'
    <3>1. CASE q = o
      BY <3>1, <1>1 DEF ExecuteCommand, RInv, RTypeOK, CommandOK
    <3>2. CASE q # o
      <4>1. /\ CommandOK(q) /\ command'[q] = command[q] /\ rtrLog'[q] = rtrLog[q]
            /\ q \in unwritten' <=> q \in unwritten
        BY <3>2, <1>1 DEF ExecuteCommand, RInv, RTypeOK
      <4> QED BY <4>1 DEF CommandOK
    <3> QED BY <3>1, <3>2
  <2> QED BY <2>1, <2>2 DEF RInv
<1>2. ASSUME NEW o \in Operator, CommandAccepted(o) \/ CommandRefused(o) \/ CommandRaises(o)
      PROVE  RInv'
  <2>1. PICK answer \in {"success", "failure"}, ran \in BOOLEAN :
           /\ Responds(o, answer, ran, "audit")
           /\ answer = "success" => ran
    BY <1>2 DEF CommandAccepted, CommandRefused, CommandRaises
  <2>2. RTypeOK'
    <3>1. command \in [Operator -> Command]
      BY DEF RInv, RTypeOK, Command
    <3>2. [command[o] EXCEPT !.pc = "audit", !.answer = answer, !.ran = ran] \in Command
      BY <3>1 DEF Command
    <3>3. command' = [command EXCEPT
                        ![o] = [command[o] EXCEPT !.pc = "audit", !.answer = answer, !.ran = ran]]
      BY <2>1, <3>1 DEF Responds
    <3>4. command' \in [Operator -> Command]
      BY <3>1, <3>2, <3>3
    <3> QED BY <2>1, <3>4 DEF Responds, RInv, RTypeOK, Command
  <2>3. ASSUME NEW q \in Operator PROVE CommandOK(q)'
    BY <2>1 DEF Responds, RInv, RTypeOK, CommandOK
  <2> QED BY <2>2, <2>3 DEF RInv
<1>3. ASSUME NEW o \in Operator, WriteRtrLog(o) \/ RtrLogFails(o) PROVE RInv'
  <2>1. RTypeOK'
    BY <1>3 DEF WriteRtrLog, RtrLogFails, RInv, RTypeOK
  <2>2. ASSUME NEW q \in Operator PROVE CommandOK(q)'
    BY <1>3 DEF WriteRtrLog, RtrLogFails, RInv, RTypeOK, CommandOK
  <2> QED BY <2>1, <2>2 DEF RInv
<1>4. CASE UNCHANGED rtrVars
  BY <1>4 DEF rtrVars, RInv, RTypeOK, CommandOK
<1> QED BY <1>1, <1>2, <1>3, <1>4 DEF RNext

\* A command that may have run has its line in the audit log when the tool
\* answers, and a line that says success is of an allowed command that ran
\* (rtr_execute_command).
THEOREM CommandsAudited == RSpec => []RtrAudited
<1>1. RInv => RtrAudited
  BY DEF RInv, CommandOK, RtrAudited
<1> QED BY <1>1, InitRInv, NextRInv, PTL DEF RSpec

-----------------------------------------------------------------------------
(* The alert update.                                                       *)

\* While a call is under way every alert that has the status it asks for is in
\* its record, and only thirdparty batches are ever verified.
UpdateOK(w) ==
    /\ update[w].pc \in {"send", "verify"}
       => Having(alertStatus, update[w].asked.status) \subseteq reached[w]
    /\ update[w].pc = "verify"
       => update[w].asked.ids \subseteq ThirdParty /\ update[w].asked.status # NoStatus
    /\ Succeeded(w)
       => /\ update[w].asked.ids \subseteq ThirdParty \/ applied[w] = update[w].asked.ids
          /\ update[w].asked.status # NoStatus => update[w].asked.ids \subseteq reached[w]

UInv == UTypeOK /\ \A w \in Updater : UpdateOK(w)

LEMMA InitUInv == UInit => UInv
<1> SUFFICES ASSUME UInit PROVE UInv
  OBVIOUS
<1>1. UTypeOK
  BY DEF UInit, UTypeOK, Request
<1>2. \A w \in Updater : UpdateOK(w)
  BY DEF UInit, UpdateOK, Succeeded
<1> QED BY <1>1, <1>2 DEF UInv

\* A change of statuses that the calls under way take note of.
LEMMA ReachUInv ==
    ASSUME UInv, NEW status \in [Alert -> AlertStatus], alertStatus' = status, Reach(status)
    PROVE  /\ reached' \in [Updater -> SUBSET Alert]
           /\ \A w \in Updater :
                 /\ reached[w] \subseteq reached'[w]
                 /\ ~Resting(w) => Having(status, update[w].asked.status) \subseteq reached'[w]
BY DEF Reach, Having, UInv, UTypeOK

LEMMA AnswerUInv ==
    ASSUME UInv, NEW w \in Updater, NEW done \in SUBSET update[w].asked.ids, ApplyTo(w, done),
           NEW place \in {"succeeded", "failed", "verify"}, UpdateGoes(w, place),
           place = "succeeded" => done = update[w].asked.ids,
           place = "verify" => Spurious(update[w].asked)
    PROVE  UInv'
<1> DEFINE s == update[w].asked.status
           status == IF s = NoStatus THEN alertStatus
                     ELSE [al \in Alert |-> IF al \in done THEN s ELSE alertStatus[al]]
<1>1. /\ update[w].pc = "send" /\ alertStatus' = status
      /\ applied' = [applied EXCEPT ![w] = done] /\ Reach(status)
      /\ update' = [update EXCEPT ![w].pc = place]
  BY DEF ApplyTo, UpdateGoes
<1>2. /\ update[w].asked \in Request /\ alertStatus \in [Alert -> AlertStatus]
      /\ s \in AlertStatus \cup {NoStatus} /\ update[w].asked.ids \subseteq Alert
  BY DEF UInv, UTypeOK, Request
<1>3. status \in [Alert -> AlertStatus]
  BY <1>2
<1> HIDE DEF status
<1>4. /\ reached' \in [Updater -> SUBSET Alert]
      /\ \A v \in Updater :
            /\ reached[v] \subseteq reached'[v]
            /\ ~Resting(v) => Having(status, update[v].asked.status) \subseteq reached'[v]
  BY <1>1, <1>3, ReachUInv
<1>5. /\ update'[w].pc = place /\ update'[w].asked = update[w].asked /\ applied'[w] = done
      /\ \A v \in Updater \ {w} : update'[v] = update[v] /\ applied'[v] = applied[v]
  BY <1>1 DEF UInv, UTypeOK
<1>6. UTypeOK'
  <2>1. update' \in [Updater -> [pc : {"idle", "send", "verify", "succeeded", "failed"},
                                 asked : Request]]
    BY <1>1 DEF UInv, UTypeOK
  <2>2. applied' \in [Updater -> SUBSET Alert]
    BY <1>1, <1>2 DEF UInv, UTypeOK
  <2>3. \A v \in Updater : applied'[v] \subseteq update'[v].asked.ids
    BY <1>5 DEF UInv, UTypeOK
  <2> QED BY <2>1, <2>2, <2>3, <1>1, <1>3, <1>4 DEF UTypeOK
<1>7. ASSUME NEW v \in Updater PROVE UpdateOK(v)'
  <2>1. CASE v = w
    <3>1. Having(status, s) \subseteq reached'[w]
      BY <1>1, <1>4 DEF Resting
    <3>2. s # NoStatus => done \subseteq Having(status, s)
      BY <1>2, <1>3 DEF Having, status
    <3> QED BY <2>1, <3>1, <3>2, <1>1, <1>5 DEF UpdateOK, Succeeded, Spurious
  <2>2. CASE v # w
    BY <2>2, <1>1, <1>4, <1>5 DEF UInv, UpdateOK, Succeeded, Resting
  <2> QED BY <2>1, <2>2
<1> QED BY <1>6, <1>7 DEF UInv

LEMMA NextUInv == UInv /\ [UNext]_updateVars => UInv'
<1> SUFFICES ASSUME UInv, [UNext]_updateVars PROVE UInv'
  OBVIOUS
<1>1. ASSUME NEW w \in Updater, NEW q \in Request, UpdateAlerts(w, q) PROVE UInv'
  <2>1. UTypeOK'
    BY <1>1 DEF UpdateAlerts, Having, UInv, UTypeOK
  <2>2. ASSUME NEW v \in Updater PROVE UpdateOK(v)'
    BY <1>1 DEF UpdateAlerts, UInv, UTypeOK, UpdateOK, Succeeded
  <2> QED BY <2>1, <2>2 DEF UInv
<1>2. ASSUME NEW w \in Updater, Answer200(w) \/ Answer500(w) \/ AnswerOther(w) PROVE UInv'
  <2>1. PICK done \in SUBSET update[w].asked.ids, place \in {"succeeded", "failed", "verify"} :
           /\ ApplyTo(w, done) /\ UpdateGoes(w, place)
           /\ place = "succeeded" => done = update[w].asked.ids
           /\ place = "verify" => Spurious(update[w].asked)
    <3>1. CASE Answer200(w)
      BY <3>1 DEF Answer200
    <3>2. CASE Answer500(w)
      BY <3>2 DEF Answer500
    <3>3. CASE AnswerOther(w)
      BY <3>3 DEF AnswerOther
    <3> QED BY <3>1, <3>2, <3>3, <1>2
  <2> QED BY <2>1, AnswerUInv
<1>3. ASSUME NEW w \in Updater, VerifyStatusApplied(w) \/ VerifyFails(w) PROVE UInv'
  <2>1. PICK place \in {"succeeded", "failed"} :
           /\ UpdateGoes(w, place) /\ update[w].pc = "verify"
           /\ place = "succeeded" => Confirmed(update[w].asked)
           /\ UNCHANGED <<alertStatus, applied, reached>>
    BY <1>3 DEF VerifyStatusApplied, VerifyFails
  <2>2. UTypeOK'
    BY <2>1 DEF UpdateGoes, UInv, UTypeOK
  <2>3. /\ update'[w].pc = place /\ update'[w].asked = update[w].asked
        /\ \A v \in Updater \ {w} : update'[v] = update[v]
    BY <2>1 DEF UpdateGoes, UInv, UTypeOK
  <2>4. place = "succeeded" => update[w].asked.ids \subseteq Having(alertStatus, update[w].asked.status)
    BY <2>1 DEF Confirmed, Having, UInv, UTypeOK, Request
  <2>5. ASSUME NEW v \in Updater PROVE UpdateOK(v)'
    BY <2>1, <2>3, <2>4 DEF UInv, UpdateOK, Succeeded
  <2> QED BY <2>2, <2>5 DEF UInv
<1>4. ASSUME NEW al \in Alert, NEW s \in AlertStatus, ConsoleUpdate(al, s) PROVE UInv'
  <2>1. alertStatus' \in [Alert -> AlertStatus] /\ Reach(alertStatus')
        /\ UNCHANGED <<update, applied>>
    BY <1>4 DEF ConsoleUpdate, UInv, UTypeOK
  <2>2. /\ reached' \in [Updater -> SUBSET Alert]
        /\ \A w \in Updater :
              /\ reached[w] \subseteq reached'[w]
              /\ ~Resting(w) => Having(alertStatus', update[w].asked.status) \subseteq reached'[w]
    BY <2>1, ReachUInv
  <2> QED BY <2>1, <2>2 DEF UInv, UTypeOK, UpdateOK, Succeeded, Resting
<1>5. CASE UNCHANGED updateVars
  BY <1>5 DEF updateVars, UInv, UTypeOK, UpdateOK, Succeeded
<1> QED BY <1>1, <1>2, <1>3, <1>4, <1>5 DEF UNext

\* The verification of a 500 never hides the failure of an update that holds
\* any other product's alert (_update_alert_status).
THEOREM FailuresNotMasked == USpec => []NonThirdpartyNeverMasked
<1>1. UInv => NonThirdpartyNeverMasked
  BY DEF UInv, UpdateOK, NonThirdpartyNeverMasked
<1> QED BY <1>1, InitUInv, NextUInv, PTL DEF USpec

\* A call that reports a new status speaks of alerts that have each had it at
\* some time during the call (_verify_status_applied).
THEOREM StatusReached == USpec => []ReportedStatusReached
<1>1. UInv => ReportedStatusReached
  BY DEF UInv, UpdateOK, ReportedStatusReached
<1> QED BY <1>1, InitUInv, NextUInv, PTL DEF USpec

-----------------------------------------------------------------------------
(* The events of an alert.                                                 *)

\* An answer goes into the cache before it is given and never leaves it, so a
\* later call finds one whatever calls ran side by side.
AnalysisOK(w) ==
    /\ analysis[w].repeat
       => analysis[w].tenant \in answeredOnce /\ analysis[w].pc \in {"cache", "answered"}
    /\ analysis[w].pc = "store" => analysis[w].answer # "absent"

AInv ==
    /\ ATypeOK
    /\ \A tn \in answeredOnce : eventCache[tn] # "absent"
    /\ \A w \in Analyst : AnalysisOK(w)

Analysis == [pc : {"idle", "cache", "indicators", "detection", "store", "answered", "failed"},
             tenant : Tenant, running : SUBSET IndicatorQuery,
             answer : Answer \cup {"absent"}, repeat : BOOLEAN]

LEMMA AnalysisType == ATypeOK => analysis \in [Analyst -> Analysis]
BY DEF ATypeOK, Analysis

LEMMA InitAInv == AInit => AInv
BY DEF AInit, AInv, ATypeOK, AnalysisOK

\* Call w, not answered before, goes on to place.
Onward(w, place, running, answer) ==
    /\ place = "store" => answer # "absent"
    /\ analysis' = [analysis EXCEPT ![w] = [analysis[w] EXCEPT
                       !.pc = place, !.running = running, !.answer = answer]]

LEMMA GoesOnAInv ==
    ASSUME AInv, NEW w \in Analyst, ~analysis[w].repeat,
           NEW place \in {"indicators", "detection", "store", "failed"},
           NEW running \in SUBSET IndicatorQuery, NEW answer \in Answer \cup {"absent"},
           Onward(w, place, running, answer),
           troubled' \subseteq Analyst, UNCHANGED <<server, eventCache, answeredOnce>>
    PROVE  AInv'
<1>1. analysis \in [Analyst -> Analysis]
  BY AnalysisType DEF AInv
<1>2. [analysis[w] EXCEPT !.pc = place, !.running = running, !.answer = answer] \in Analysis
  BY <1>1 DEF Analysis
<1>3. analysis' \in [Analyst -> Analysis]
  BY <1>1, <1>2 DEF Onward
<1>4. ATypeOK'
  BY <1>3 DEF AInv, ATypeOK, Analysis
<1>5. ASSUME NEW v \in Analyst PROVE AnalysisOK(v)'
  BY <1>1 DEF AInv, AnalysisOK, Onward, Analysis
<1> QED BY <1>4, <1>5 DEF AInv

LEMMA AnsweredAInv ==
    ASSUME AInv, NEW w \in Analyst, NEW answer \in Answer, Answered(w, answer),
           eventCache' \in {eventCache, [eventCache EXCEPT ![analysis[w].tenant] = answer]},
           eventCache'[analysis[w].tenant] # "absent", UNCHANGED <<server, troubled>>
    PROVE  AInv'
<1>0. analysis \in [Analyst -> Analysis]
  BY AnalysisType DEF AInv
<1>1. /\ analysis' = [analysis EXCEPT ![w].pc = "answered", ![w].answer = answer]
      /\ answeredOnce' = answeredOnce \cup {analysis[w].tenant}
  BY DEF Answered
<1>2. analysis[w].tenant \in Tenant
  BY <1>0 DEF Analysis
<1>3. analysis' \in [Analyst -> Analysis]
  <2>1. [analysis[w] EXCEPT !.pc = "answered", !.answer = answer] \in Analysis
    BY <1>0 DEF Analysis
  <2>2. analysis' = [analysis EXCEPT ![w] = [analysis[w] EXCEPT !.pc = "answered",
                                                                !.answer = answer]]
    BY <1>1, <1>0
  <2> QED BY <2>1, <2>2, <1>0
<1>4. eventCache' \in [Tenant -> Answer \cup {"absent"}]
  BY <1>2 DEF AInv, ATypeOK
<1>5. ATypeOK'
  BY <1>1, <1>2, <1>3, <1>4 DEF AInv, ATypeOK, Analysis
<1>6. ASSUME NEW tn \in answeredOnce' PROVE eventCache'[tn] # "absent"
  <2>1. CASE tn = analysis[w].tenant
    BY <2>1
  <2>2. CASE tn # analysis[w].tenant
    <3>1. tn \in answeredOnce /\ tn \in Tenant /\ eventCache \in [Tenant -> Answer \cup {"absent"}]
      BY <2>2, <1>1 DEF AInv, ATypeOK
    <3>2. eventCache'[tn] = eventCache[tn]
      BY <2>2, <3>1
    <3> QED BY <3>1, <3>2 DEF AInv
  <2> QED BY <2>1, <2>2
<1>7. ASSUME NEW v \in Analyst PROVE AnalysisOK(v)'
  BY <1>1, <1>0 DEF AInv, AnalysisOK, Analysis
<1> QED BY <1>5, <1>6, <1>7 DEF AInv

\* The parts of a first analysis, from the miss to the answer.
Part(w) ==
    \/ CacheMiss(w) \/ IndicatorsExhausted(w) \/ IndicatorsFail(w) \/ Detect(w)
    \/ \E q \in IndicatorQuery :
          IndicatorUnavailable(w, q) \/ IndicatorMiss(w, q) \/ IndicatorMatch(w, q)

LEMMA PartGoesOn ==
    ASSUME AInv, NEW w \in Analyst, Part(w)
    PROVE  \E place \in {"indicators", "detection", "store", "failed"},
              running \in SUBSET IndicatorQuery, answer \in Answer \cup {"absent"} :
                 Onward(w, place, running, answer)
<1> DEFINE Goal == \E place \in {"indicators", "detection", "store", "failed"},
                      running \in SUBSET IndicatorQuery, answer \in Answer \cup {"absent"} :
                         Onward(w, place, running, answer)
<1>0. analysis \in [Analyst -> Analysis] /\ analysis[w].answer \in Answer \cup {"absent"}
      /\ analysis[w].running \subseteq IndicatorQuery
  BY AnalysisType DEF AInv, Analysis
<1>1. CASE CacheMiss(w)
  <2>1. Onward(w, "indicators", IndicatorQuery, analysis[w].answer)
    BY <1>0, <1>1 DEF CacheMiss, Onward, Analysis
  <2> QED BY <2>1, <1>0
<1>2. ASSUME NEW q \in IndicatorQuery, IndicatorUnavailable(w, q) \/ IndicatorMiss(w, q)
      PROVE  Goal
  <2>1. Onward(w, "indicators", analysis[w].running \ {q}, analysis[w].answer)
    BY <1>0, <1>2 DEF IndicatorUnavailable, IndicatorMiss, Running, Onward, Analysis
  <2> QED BY <2>1, <1>0
<1>3. ASSUME NEW place \in {"detection", "failed"}, LeaveIndicators(w, place)
      PROVE  Goal
  <2>1. Onward(w, place, {}, analysis[w].answer)
    BY <1>0, <1>3 DEF LeaveIndicators, Onward, Analysis
  <2> QED BY <2>1, <1>0
<1>4. CASE Detect(w)
  <2>1. PICK answer \in Answer :
           analysis' = [analysis EXCEPT ![w].pc = "store", ![w].answer = answer]
    BY <1>4 DEF Detect
  <2>2. Onward(w, "store", analysis[w].running, answer)
    BY <1>0, <2>1 DEF Onward, Answer, Analysis
  <2> QED BY <2>2, <1>0
<1> QED BY <1>1, <1>2, <1>3, <1>4 DEF Part, IndicatorsExhausted, IndicatorsFail, IndicatorMatch

LEMMA NextAInv == AInv /\ [ANext]_eventVars => AInv'
<1> SUFFICES ASSUME AInv, [ANext]_eventVars PROVE AInv'
  OBVIOUS
<1>0. analysis \in [Analyst -> Analysis]
  BY AnalysisType DEF AInv
<1>1. ASSUME NEW w \in Analyst, NEW tn \in Tenant, Analyze(w, tn) PROVE AInv'
  <2>1. ATypeOK'
    BY <1>1 DEF Analyze, AInv, ATypeOK
  <2>2. ASSUME NEW v \in Analyst PROVE AnalysisOK(v)'
    BY <1>1 DEF Analyze, AInv, ATypeOK, AnalysisOK
  <2> QED BY <1>1, <2>1, <2>2 DEF Analyze, AInv
<1>2. ASSUME NEW w \in Analyst, CacheHit(w) PROVE AInv'
  <2>1. eventCache[analysis[w].tenant] \in Answer
    BY <1>2, <1>0 DEF CacheHit, AInv, ATypeOK, Analysis
  <2> QED BY <1>2, <2>1, AnsweredAInv DEF CacheHit
<1>3. ASSUME NEW w \in Analyst, StoreEvents(w) PROVE AInv'
  <2>1. analysis[w].answer \in Answer /\ analysis[w].tenant \in Tenant
    BY <1>3, <1>0 DEF StoreEvents, AInv, AnalysisOK, Analysis
  <2>2. /\ eventCache' = [eventCache EXCEPT ![analysis[w].tenant] = analysis[w].answer]
        /\ eventCache'[analysis[w].tenant] # "absent"
    BY <1>3, <2>1 DEF StoreEvents, Answer, AInv, ATypeOK
  <2> QED BY <1>3, <2>1, <2>2, AnsweredAInv DEF StoreEvents
<1>4. ASSUME NEW w \in Analyst, Part(w) PROVE AInv'
  <2>1. ~analysis[w].repeat
    <3>1. CASE CacheMiss(w)
      BY <3>1 DEF CacheMiss, AInv, AnalysisOK
    <3>2. CASE ~CacheMiss(w)
      BY <3>2, <1>4 DEF Part, IndicatorsExhausted, IndicatorsFail, Detect, Running,
           IndicatorUnavailable, IndicatorMiss, IndicatorMatch, AInv, AnalysisOK
    <3> QED BY <3>1, <3>2
  <2>2. troubled' \subseteq Analyst /\ UNCHANGED <<server, eventCache, answeredOnce>>
    BY <1>4 DEF Part, CacheMiss, IndicatorsExhausted, IndicatorsFail, Detect,
         IndicatorUnavailable, IndicatorMiss, IndicatorMatch, AInv, ATypeOK
  <2> QED BY <2>1, <2>2, <1>4, PartGoesOn, GoesOnAInv
<1>5. CASE UNCHANGED eventVars
  BY <1>5 DEF eventVars, AInv, ATypeOK, AnalysisOK
<1> QED BY <1>1, <1>2, <1>3, <1>4, <1>5 DEF ANext, Part

\* Once an analysis has been answered, a later one neither queries nor fails
\* (_get_related_ngsiem_events).
THEOREM RepeatsFromCache == ASpec => []RepeatAnsweredFromCache
<1>1. AInv => RepeatAnsweredFromCache
  BY DEF AInv, AnalysisOK, RepeatAnsweredFromCache
<1> QED BY <1>1, InitAInv, NextAInv, PTL DEF ASpec

-----------------------------------------------------------------------------
(* The edge types.                                                         *)

\* A list keeps its owner on its way through the cache.  A refresh alone in its
\* tenant is met by nobody between its invalidation and its answer, so it finds
\* nothing cached and fetches.
ReaderOK(t) ==
    /\ reader[t].pc \in {"store", "answered"} => reader[t].list.owner = reader[t].client
    /\ reader[t].began <= live[reader[t].client]
    /\ t \in Refresher /\ t \notin overlapped
       => /\ Busy(t) => Rivals(t, reader[t].client) = {}
          /\ reader[t].pc = "lookup" => cached[reader[t].client].version = 0
          /\ reader[t].pc \in {"store", "answered"} => reader[t].list.version >= reader[t].began

EInv ==
    /\ ETypeOK
    /\ \A c \in Client : cached[c].owner = c
    /\ \A t \in Thread : ReaderOK(t)

Reader == [pc : {"idle", "probe", "invalidate", "lookup", "fetch", "store", "answered", "failed"},
           client : Client, tool : BOOLEAN, began : 0..MaxVersion, list : List]

LEMMA ReaderType == ETypeOK => reader \in [Thread -> Reader]
BY DEF ETypeOK, Reader

LEMMA InitEInv == EInit => EInv
<1> SUFFICES ASSUME EInit PROVE EInv
  OBVIOUS
<1>1. ETypeOK
  BY EdgeTypeAssumption DEF EInit, ETypeOK, List, Nothing
<1>2. \A c \in Client : cached[c].owner = c
  BY DEF EInit, Nothing
<1>3. \A t \in Thread : reader[t].pc = "idle" /\ reader[t].began = 0
  BY DEF EInit
<1>4. ASSUME NEW t \in Thread PROVE ReaderOK(t)
  <2>1. live[reader[t].client] \in 1..MaxVersion
    BY <1>1 DEF ETypeOK
  <2> QED BY <1>3, <2>1 DEF ReaderOK, Busy
<1> QED BY <1>1, <1>2, <1>4 DEF EInv

\* A call begins, on the event loop or on a worker thread.
LEMMA BeginEInv ==
    ASSUME EInv, NEW t \in Thread, NEW c \in Client, NEW place \in {"lookup", "probe"},
           NEW forTool \in BOOLEAN, Begin(t, c, place, forTool), t \in Refresher => place = "probe"
    PROVE  EInv'
<1> DEFINE new == [pc |-> place, client |-> c, tool |-> forTool, began |-> live[c], list |-> Nothing(c)]
<1>1. /\ ~Busy(t) /\ reader' = [reader EXCEPT ![t] = new] /\ UNCHANGED <<live, cached>>
      /\ overlapped' = IF Rivals(t, c) = {} THEN overlapped \ {t}
                       ELSE overlapped \cup Rivals(t, c) \cup {t}
  BY DEF Begin
<1>2. reader \in [Thread -> Reader]
  BY ReaderType DEF EInv
<1>3. live[c] \in 0..MaxVersion /\ live[c] \in Nat /\ Nothing(c) \in List
  BY EdgeTypeAssumption DEF EInv, ETypeOK, Nothing, List
<1>4. new \in Reader
  BY <1>3 DEF Reader
<1>5. /\ new.pc = place /\ new.client = c /\ new.began = live[c]
  OBVIOUS
<1> HIDE DEF new
<1>6. /\ reader' \in [Thread -> Reader] /\ reader'[t] = new
      /\ \A u \in Thread \ {t} : reader'[u] = reader[u]
  BY <1>1, <1>2, <1>4
<1>7. ETypeOK'
  BY <1>1, <1>6 DEF EInv, ETypeOK, Reader, Rivals
<1>8. Rivals(t, c)' = Rivals(t, c)
  BY <1>6 DEF Rivals, Busy
<1>9. ASSUME NEW u \in Thread PROVE ReaderOK(u)'
  <2>1. CASE u = t
    <3>1. u \notin overlapped' => Rivals(t, c) = {}
      BY <2>1, <1>1
    <3> QED BY <2>1, <3>1, <1>1, <1>3, <1>5, <1>6, <1>8 DEF ReaderOK
  <2>2. CASE u # t
    <3>1. ReaderOK(u) /\ reader'[u] = reader[u]
      BY <2>2, <1>6 DEF EInv
    <3>2. u \notin overlapped' => u \notin overlapped
      BY <2>2, <1>1
    <3>3. u \notin overlapped' /\ Busy(u) => reader[u].client # c
      BY <2>2, <1>1 DEF Rivals
    <3>4. u \notin overlapped' /\ Busy(u) /\ u \in Refresher => Rivals(u, reader[u].client)' = {}
      <4> SUFFICES ASSUME u \notin overlapped', Busy(u), u \in Refresher
                   PROVE  Rivals(u, reader[u].client)' = {}
        OBVIOUS
      <4>1. Rivals(u, reader[u].client) = {} /\ reader[u].client # c
        BY <3>1, <3>2, <3>3 DEF ReaderOK
      <4> QED BY <4>1, <3>1, <1>5, <1>6 DEF Rivals, Busy
    <3> QED BY <3>1, <3>2, <3>4, <1>1 DEF ReaderOK, Busy
  <2> QED BY <2>1, <2>2
<1> QED BY <1>1, <1>7, <1>9 DEF EInv

\* A step of a call under way: it stays of its tenant and is a rival to no more
\* calls than before.
LEMMA StepEInv ==
    ASSUME EInv, NEW t \in Thread, Busy(t), NEW new \in Reader,
           reader' = [reader EXCEPT ![t] = new],
           new.client = reader[t].client, new.began = reader[t].began,
           UNCHANGED <<live, overlapped>>,
           cached' \in [Client -> List], \A c \in Client : cached'[c].owner = c,
           \A c \in Client \ {reader[t].client} : cached'[c] = cached[c],
           new.pc \in {"store", "answered"} => new.list.owner = new.client,
           t \in Refresher /\ t \notin overlapped
           => /\ new.pc = "lookup" => cached'[new.client].version = 0
              /\ new.pc \in {"store", "answered"} => new.list.version >= new.began
    PROVE  EInv'
<1>1. reader \in [Thread -> Reader]
  BY ReaderType DEF EInv
<1>2. /\ reader' \in [Thread -> Reader] /\ reader'[t] = new
      /\ \A u \in Thread \ {t} : reader'[u] = reader[u]
  BY <1>1
<1>3. ETypeOK'
  BY <1>2 DEF EInv, ETypeOK, Reader
<1>4. \A u \in Thread, c \in Client : Rivals(u, c)' \subseteq Rivals(u, c)
  BY <1>2 DEF Rivals, Busy
<1>5. ASSUME NEW u \in Thread PROVE ReaderOK(u)'
  <2>1. CASE u = t
    <3>1. ReaderOK(t) /\ reader[t].client \in Client
      BY <1>1 DEF EInv, Reader
    <3> QED BY <2>1, <3>1, <1>2, <1>4 DEF ReaderOK
  <2>2. CASE u # t
    <3>1. ReaderOK(u) /\ reader'[u] = reader[u] /\ reader[u].client \in Client
      BY <2>2, <1>1, <1>2 DEF EInv, Reader
    <3>2. u \in Refresher /\ u \notin overlapped /\ Busy(u) => reader[u].client # reader[t].client
      BY <2>2, <3>1 DEF ReaderOK, Rivals
    <3>3. reader[u].pc = "lookup" => Busy(u)
      BY DEF Busy
    <3> QED BY <3>1, <3>2, <3>3, <1>4 DEF ReaderOK, Busy
  <2> QED BY <2>1, <2>2
<1> QED BY <1>3, <1>5 DEF EInv

\* A step that only goes on to place, and may change what is cached for its tenant.
LEMMA GoEInv ==
    ASSUME EInv, NEW t \in Thread,
           NEW place \in {"invalidate", "lookup", "fetch", "failed", "answered"},
           Busy(t), Go(t, place), UNCHANGED <<live, overlapped>>,
           cached' \in [Client -> List], \A c \in Client : cached'[c].owner = c,
           \A c \in Client \ {reader[t].client} : cached'[c] = cached[c],
           place = "lookup" => cached'[reader[t].client].version = 0,
           place = "answered" => reader[t].pc = "store"
    PROVE  EInv'
<1> DEFINE new == [reader[t] EXCEPT !.pc = place]
<1>0. reader \in [Thread -> Reader]
  BY ReaderType DEF EInv
<1>1. new \in Reader /\ reader' = [reader EXCEPT ![t] = new]
  BY <1>0 DEF Go, Reader
<1>2. /\ new.pc = place /\ new.client = reader[t].client /\ new.began = reader[t].began
      /\ new.list = reader[t].list
  BY <1>0 DEF Reader
<1>3. ReaderOK(t)
  BY DEF EInv
<1> HIDE DEF new
<1> QED BY <1>1, <1>2, <1>3, StepEInv DEF ReaderOK

LEMMA NextEInv == EInv /\ [ENext]_edgeVars => EInv'
<1> SUFFICES ASSUME EInv, [ENext]_edgeVars PROVE EInv'
  OBVIOUS
<1>0. /\ reader \in [Thread -> Reader] /\ cached \in [Client -> List]
      /\ live \in [Client -> 1..MaxVersion] /\ \A c \in Client : cached[c].owner = c
  BY ReaderType DEF EInv, ETypeOK
<1>1. ASSUME NEW c \in Client, ReadResource(c) PROVE EInv'
  BY <1>1, BeginEInv, EdgeTypeAssumption DEF ReadResource, Thread
<1>2. ASSUME NEW t \in Refresher, NEW c \in Client, GetEdgeTypes(t, c) PROVE EInv'
  BY <1>2, BeginEInv DEF GetEdgeTypes, Thread
<1>3. ASSUME NEW c \in Client, CatalogueChanges(c) PROVE EInv'
  <2>1. /\ live' = [live EXCEPT ![c] = @ + 1] /\ live[c] < MaxVersion
        /\ UNCHANGED <<cached, reader, overlapped>>
    BY <1>3 DEF CatalogueChanges
  <2>2. live' \in [Client -> 1..MaxVersion] /\ \A d \in Client : live'[d] >= live[d]
    BY <2>1, <1>0, EdgeTypeAssumption
  <2>3. ETypeOK'
    BY <2>1, <2>2 DEF EInv, ETypeOK
  <2>4. ASSUME NEW t \in Thread PROVE ReaderOK(t)'
    <3>1. /\ ReaderOK(t) /\ reader[t].client \in Client
          /\ reader[t].began \in Nat
      BY <1>0 DEF EInv, Reader
    <3>2. reader[t].began <= live'[reader[t].client]
      BY <3>1, <2>2, <1>0 DEF ReaderOK
    <3> QED BY <3>1, <3>2, <2>1 DEF ReaderOK, Rivals, Busy
  <2> QED BY <2>1, <2>3, <2>4 DEF EInv
<1>4. ASSUME NEW t \in Thread, Probe(t) \/ FetchFails(t) PROVE EInv'
  BY <1>4, <1>0, GoEInv DEF Probe, FetchFails, Busy
<1>5. ASSUME NEW t \in Thread, Invalidate(t) PROVE EInv'
  <2> DEFINE c == reader[t].client
  <2>1. /\ reader[t].pc = "invalidate" /\ cached' = [cached EXCEPT ![c] = Nothing(c)]
        /\ Go(t, "lookup") /\ UNCHANGED <<live, overlapped>>
    BY <1>5 DEF Invalidate
  <2>2. c \in Client /\ Nothing(c) \in List /\ Nothing(c).owner = c /\ Nothing(c).version = 0
    BY <1>0, EdgeTypeAssumption DEF Reader, Nothing, List
  <2>3. /\ cached' \in [Client -> List] /\ cached'[c] = Nothing(c)
        /\ \A d \in Client \ {c} : cached'[d] = cached[d]
    BY <2>1, <2>2, <1>0
  <2>4. \A d \in Client : cached'[d].owner = d
    BY <2>2, <2>3, <1>0
  <2>5. Busy(t)
    BY <2>1 DEF Busy
  <2> QED BY <2>1, <2>2, <2>3, <2>4, <2>5, GoEInv
<1>6. ASSUME NEW t \in Thread, Lookup(t) PROVE EInv'
  <2> DEFINE list == cached[reader[t].client]
             new == [reader[t] EXCEPT !.pc = "answered", !.list = list]
  <2>1. /\ reader[t].pc = "lookup" /\ Busy(t) /\ UNCHANGED <<live, cached, overlapped>>
    BY <1>6 DEF Lookup, Busy
  <2>2. CASE list.version = 0
    <3>1. Go(t, "fetch")
      BY <1>6, <2>2 DEF Lookup
    <3> QED BY <2>1, <3>1, <1>0, GoEInv
  <2>3. CASE list.version # 0
    <3>1. reader[t].client \in Client /\ list \in List /\ list.owner = reader[t].client
      BY <1>0 DEF Reader
    <3>2. new \in Reader
      BY <1>0, <3>1 DEF Reader
    <3>3. reader' = [reader EXCEPT ![t] = new]
      BY <1>6, <2>3, <1>0 DEF Lookup
    <3>4. /\ new.pc = "answered" /\ new.client = reader[t].client
          /\ new.began = reader[t].began /\ new.list = list
      BY <1>0 DEF Reader
    <3>5. ~(t \in Refresher /\ t \notin overlapped)
      BY <2>1, <2>3 DEF EInv, ReaderOK
    <3> HIDE DEF new, list
    <3> QED BY <1>0, <2>1, <3>1, <3>2, <3>3, <3>4, <3>5, StepEInv
  <2> QED BY <2>2, <2>3
<1>7. ASSUME NEW t \in Thread, Fetch(t) PROVE EInv'
  <2> DEFINE c == reader[t].client
             list == [owner |-> c, version |-> live[c]]
             new == [reader[t] EXCEPT !.pc = "store", !.list = list]
  <2>1. /\ reader[t].pc = "fetch" /\ Busy(t) /\ UNCHANGED <<live, cached, overlapped>>
    BY <1>7 DEF Fetch, Busy
  <2>2. c \in Client /\ live[c] \in 0..MaxVersion
    BY <1>0 DEF Reader
  <2>3. list \in List /\ list.owner = c /\ list.version = live[c]
    BY <2>2 DEF List
  <2>4. new \in Reader
    BY <1>0, <2>3 DEF Reader
  <2>5. reader' = [reader EXCEPT ![t] = new]
    BY <1>7, <1>0 DEF Fetch
  <2>6. new.pc = "store" /\ new.client = c /\ new.began = reader[t].began /\ new.list = list
    BY <1>0 DEF Reader
  <2>7. reader[t].began <= live[c] /\ reader[t].began \in Nat /\ live[c] \in Nat
    BY <1>0, <2>2 DEF EInv, ReaderOK, Reader
  <2> HIDE DEF new, list
  <2> QED BY <1>0, <2>1, <2>2, <2>3, <2>4, <2>5, <2>6, <2>7, StepEInv
<1>8. ASSUME NEW t \in Thread, StoreList(t) PROVE EInv'
  <2> DEFINE c == reader[t].client
  <2>1. /\ reader[t].pc = "store" /\ cached' = [cached EXCEPT ![c] = reader[t].list]
        /\ Go(t, "answered") /\ UNCHANGED <<live, overlapped>>
    BY <1>8 DEF StoreList
  <2>2. c \in Client /\ reader[t].list \in List /\ reader[t].list.owner = c
    BY <1>0, <2>1 DEF EInv, ReaderOK, Reader
  <2>3. /\ cached' \in [Client -> List] /\ cached'[c] = reader[t].list
        /\ \A d \in Client \ {c} : cached'[d] = cached[d]
    BY <2>1, <2>2, <1>0
  <2>4. \A d \in Client : cached'[d].owner = d
    BY <2>2, <2>3, <1>0
  <2>5. Busy(t)
    BY <2>1 DEF Busy
  <2> QED BY <2>1, <2>2, <2>3, <2>4, <2>5, GoEInv
<1>9. CASE UNCHANGED edgeVars
  BY <1>9 DEF edgeVars, EInv, ETypeOK, ReaderOK, Rivals, Busy
<1> QED BY <1>1, <1>2, <1>3, <1>4, <1>5, <1>6, <1>7, <1>8, <1>9 DEF ENext

\* A tenant is answered from its own catalogue, whoever filled the shared
\* cache (ThreatGraphEdgeTypeCache.read).
THEOREM OwnEdgeTypes == ESpec => []EdgeTypesOfOwnTenant
<1>1. EInv => EdgeTypesOfOwnTenant
  BY DEF EInv, ReaderOK, EdgeTypesOfOwnTenant
<1> QED BY <1>1, InitEInv, NextEInv, PTL DEF ESpec

\* A refresh that meets no other call of its tenant answers with a list at
\* least as new as the catalogue when it began (threatgraph_get_edge_types).
THEOREM LoneRefreshesFresh == ESpec => []LoneRefreshIsFresh
<1>1. EInv => LoneRefreshIsFresh
  BY DEF EInv, ReaderOK, LoneRefreshIsFresh, Thread
<1> QED BY <1>1, InitEInv, NextEInv, PTL DEF ESpec

-----------------------------------------------------------------------------
(* Written templates (correlation_import_to_iac).                           *)

AnyRule == CHOOSE r \in IacRule : TRUE
AnyPath == CHOOSE p \in Path : TRUE
Calls == [pc : Underway \cup {"idle", "refused", "shown", "written", "raised", "killed"},
          rule : IacRule \cup {AnyRule}, path : Path \cup {AnyPath}]

\* Two imports on their way to one path make it contended; so while a path is
\* not, the one that opened its file finds it as it left it, and once it has
\* written nobody else is past the check.
ImportOK(i) ==
    /\ import[i].pc \in Underway \cup {"written"} => import[i].rule \in IacRule
    /\ import[i].pc \in HasPath \cup {"written"} => import[i].path \in Path
    /\ import[i].path \notin contended =>
          /\ import[i].pc = "write" => disk[import[i].path] = Partial
          /\ import[i].pc = "written" => disk[import[i].path] = import[i].rule

Apart(i, j) ==
    import[i].path = import[j].path /\ import[i].path \notin contended =>
        /\ import[i].pc \in HasPath => import[j].pc \notin HasPath
        /\ import[i].pc = "written" => import[j].pc \notin {"open", "write"}

IacInv ==
    /\ disk \in [Path -> IacRule \cup {NoFile, Partial}]
    /\ import \in [Importer -> Calls]
    /\ contended \subseteq Path
    /\ \A i \in Importer : ImportOK(i)
    /\ \A i, j \in Importer : i # j => Apart(i, j)

LEMMA InitIacInv == IInit => IacInv
BY DEF IInit, IacInv, ImportOK, Apart, Calls, Ended, Import, AnyRule, AnyPath, Underway, HasPath

\* A call that goes on or ends without touching the disk, other than past the
\* check, disturbs no other.
LEMMA CallGoesIacInv ==
    ASSUME IacInv, NEW i \in Importer, NEW c \in Calls,
           import' = [import EXCEPT ![i] = c], UNCHANGED <<disk, contended>>,
           c.pc \in Underway => c.rule \in IacRule,
           c.pc \in HasPath => /\ c.path = import[i].path /\ c.path \in Path
                               /\ import[i].pc \in HasPath,
           c.pc # "write" /\ c.pc # "written",
           c.pc = "open" => disk[c.path] = NoFile
    PROVE  IacInv'
<1>1. import' \in [Importer -> Calls] /\ import'[i] = c
  BY DEF IacInv
<1>2. ASSUME NEW k \in Importer, k # i PROVE import'[k] = import[k]
  BY <1>2 DEF IacInv
<1>3. ASSUME NEW k \in Importer PROVE ImportOK(k)'
  <2>1. CASE k = i
    BY <2>1, <1>1 DEF ImportOK
  <2>2. CASE k # i
    BY <2>2, <1>2 DEF ImportOK, IacInv
  <2> QED BY <2>1, <2>2
<1>4. ASSUME NEW k \in Importer, NEW j \in Importer, k # j PROVE Apart(k, j)'
  <2>1. Apart(k, j) /\ ImportOK(k) /\ ImportOK(j)
    BY <1>4 DEF IacInv
  <2>2. CASE k = i
    <3>1. import'[j] = import[j] /\ import'[k] = c
      BY <2>2, <1>1, <1>2, <1>4
    <3>2. c.path = import'[j].path /\ c.path \notin contended /\ c.pc \in HasPath
          => import[j].pc \notin HasPath
      BY <2>1, <2>2, <3>1 DEF Apart
    <3> QED BY <3>1, <3>2 DEF Apart
  <2>3. CASE j = i
    <3>1. import'[k] = import[k] /\ import'[j] = c
      BY <2>3, <1>1, <1>2, <1>4
    <3>2. c.path = import[k].path /\ c.path \notin contended /\ c.pc \in HasPath
          => import[k].pc \notin HasPath
      BY <2>1, <2>3, <3>1 DEF Apart
    <3>3. import[k].pc = "written" /\ c.path = import[k].path /\ c.path \notin contended
          => c.pc \notin {"open", "write"}
      <4>1. SUFFICES ASSUME import[k].pc = "written", c.path = import[k].path,
                            c.path \notin contended, c.pc = "open"
                     PROVE  FALSE
        OBVIOUS
      <4> QED BY <4>1, <2>1, IacAssumption DEF ImportOK
    <3> QED BY <3>1, <3>2, <3>3 DEF Apart, HasPath
  <2>4. CASE k # i /\ j # i
    BY <2>1, <2>4, <1>2 DEF Apart
  <2> QED BY <2>2, <2>3, <2>4
<1> QED BY <1>1, <1>3, <1>4 DEF IacInv

LEMMA ChooseCallInv ==
    ASSUME IacInv, NEW i \in Importer,
           \/ \E r \in IacRule : ImportToIac(i, r)
           \/ RuleFetchFails(i) \/ FetchRule(i) \/ OfferTemplate(i) \/ CheckTarget(i)
           \/ WriteFails(i)
    PROVE  IacInv'
<1>1. import[i] \in Calls /\ ImportOK(i)
  BY DEF IacInv
<1>2. \A place \in {"refused", "shown", "raised", "fetch"} : Ended(place) \in Calls
  BY DEF Ended, Import, Calls, AnyRule, AnyPath, Underway
<1>3. ASSUME NEW place \in {"refused", "shown", "raised"}, Ends(i, place),
             UNCHANGED <<disk, contended>>
      PROVE  IacInv'
  <2>1. Ended(place).pc = place
    BY DEF Ended, Import
  <2> QED BY <2>1, <1>2, <1>3, CallGoesIacInv DEF Ends, Underway, HasPath
<1>4. ASSUME NEW place \in {"template", "check", "open"}, Goes(i, place), import[i].pc \in Underway,
             place # "template" => import[i].pc \in HasPath,
             place = "open" => disk[import[i].path] = NoFile,
             UNCHANGED <<disk, contended>>
      PROVE  IacInv'
  <2> DEFINE c == [import[i] EXCEPT !.pc = place]
  <2>1. /\ c \in Calls /\ c.pc = place /\ c.path = import[i].path /\ c.rule = import[i].rule
    BY <1>1, <1>4 DEF Calls, Underway
  <2>2. import' = [import EXCEPT ![i] = c]
    BY <1>4 DEF Goes, IacInv
  <2> HIDE DEF c
  <2> QED BY <2>1, <2>2, <1>1, <1>4, CallGoesIacInv DEF ImportOK, HasPath
<1>5. ASSUME NEW r \in IacRule, ImportToIac(i, r) PROVE IacInv'
  <2> DEFINE c == [Ended("fetch") EXCEPT !.rule = r]
  <2>1. c \in Calls /\ c.pc = "fetch" /\ c.rule = r
    BY <1>2 DEF Ended, Import, Calls
  <2>2. import' = [import EXCEPT ![i] = c] /\ UNCHANGED <<disk, contended>>
    BY <1>5 DEF ImportToIac
  <2> HIDE DEF c
  <2> QED BY <2>1, <2>2, CallGoesIacInv DEF HasPath
<1>6. CASE RuleFetchFails(i)
  BY <1>6, <1>3 DEF RuleFetchFails
<1>7. CASE FetchRule(i)
  BY <1>7, <1>4 DEF FetchRule, Underway
<1>8. CASE OfferTemplate(i)
  BY <1>8, <1>3, <1>4 DEF OfferTemplate, Underway, HasPath
<1>9. CASE CheckTarget(i)
  BY <1>9, <1>3, <1>4 DEF CheckTarget, Underway, HasPath
<1>10. CASE WriteFails(i)
  BY <1>10, <1>3 DEF WriteFails
<1> QED BY <1>5, <1>6, <1>7, <1>8, <1>9, <1>10

\* Choosing a path that another import is on its way to makes it contended.
LEMMA RuleToTemplateIacInv ==
    ASSUME IacInv, NEW i \in Importer, NEW p \in Path, RuleToTemplate(i, p)
    PROVE  IacInv'
<1>1. /\ import[i].pc = "template" /\ ImportOK(i) /\ import[i] \in Calls
      /\ import' = [import EXCEPT ![i] = [import[i] EXCEPT !.pc = "offer", !.path = p]]
      /\ contended \subseteq contended' /\ contended' \subseteq contended \cup {p}
      /\ disk' = disk
  BY DEF RuleToTemplate, IacInv
<1>2. \A j \in Importer : j # i /\ import[j].path = p /\ import[j].pc \in HasPath
                          => p \in contended'
  BY DEF RuleToTemplate
<1>3. /\ import'[i].pc = "offer" /\ import'[i].path = p /\ import'[i].rule \in IacRule
      /\ import' \in [Importer -> Calls]
  BY <1>1 DEF IacInv, ImportOK, Calls, Underway
<1>4. ASSUME NEW k \in Importer, k # i PROVE import'[k] = import[k]
  BY <1>1, <1>4 DEF IacInv
<1>5. ASSUME NEW k \in Importer PROVE ImportOK(k)'
  <2>1. CASE k = i
    BY <2>1, <1>3 DEF ImportOK
  <2>2. CASE k # i
    BY <2>2, <1>1, <1>4 DEF ImportOK, IacInv
  <2> QED BY <2>1, <2>2
<1>6. ASSUME NEW k \in Importer, NEW j \in Importer, k # j PROVE Apart(k, j)'
  <2>1. CASE k = i
    BY <2>1, <1>2, <1>3, <1>4, <1>6 DEF Apart
  <2>2. CASE j = i
    BY <2>2, <1>2, <1>3, <1>4, <1>6 DEF Apart
  <2>3. CASE k # i /\ j # i
    <3>1. Apart(k, j) /\ import'[k] = import[k] /\ import'[j] = import[j]
      BY <2>3, <1>4, <1>6 DEF IacInv
    <3> QED BY <3>1, <1>1 DEF Apart
  <2> QED BY <2>1, <2>2, <2>3
<1> QED BY <1>1, <1>3, <1>5, <1>6 DEF IacInv

\* Opening a file, or writing it, changes it for the import alone that does
\* so, as long as its path is not contended.
LEMMA DiskIacInv ==
    ASSUME IacInv, NEW i \in Importer, NEW p \in Path, import[i].path = p,
           NEW content \in IacRule \cup {Partial}, NEW place \in {"write", "written"},
           disk' = [disk EXCEPT ![p] = content], Goes(i, place), UNCHANGED contended,
           import[i].pc = IF place = "write" THEN "open" ELSE "write",
           p \notin contended => content = IF place = "write" THEN Partial ELSE import[i].rule
    PROVE  IacInv'
<1>1. /\ ImportOK(i) /\ import[i] \in Calls /\ disk' \in [Path -> IacRule \cup {NoFile, Partial}]
      /\ import' = [import EXCEPT ![i] = [import[i] EXCEPT !.pc = place]]
      /\ disk'[p] = content /\ \A q \in Path : q # p => disk'[q] = disk[q]
  BY DEF Goes, IacInv
<1>2. /\ import'[i].pc = place /\ import'[i].path = p /\ import'[i].rule = import[i].rule
      /\ import[i].rule \in IacRule /\ import' \in [Importer -> Calls]
  BY <1>1 DEF IacInv, ImportOK, Calls, Underway
<1>3. ASSUME NEW k \in Importer, k # i
      PROVE  /\ import'[k] = import[k] /\ ImportOK(k) /\ Apart(i, k) /\ Apart(k, i)
  BY <1>1, <1>3 DEF IacInv
<1>4. ASSUME NEW k \in Importer PROVE ImportOK(k)'
  <2>1. CASE k = i
    BY <2>1, <1>1, <1>2 DEF ImportOK
  <2>2. CASE k # i
    <3>1. /\ import'[k] = import[k] /\ ImportOK(k) /\ Apart(i, k) /\ Apart(k, i)
      BY <2>2, <1>3
    <3>2. CASE import[k].path = p
      BY <3>1, <3>2 DEF ImportOK, Apart, HasPath
    <3>3. CASE import[k].path # p
      BY <3>1, <3>3, <1>1 DEF ImportOK, HasPath
    <3> QED BY <3>2, <3>3
  <2> QED BY <2>1, <2>2
<1>5. ASSUME NEW k \in Importer, NEW j \in Importer, k # j PROVE Apart(k, j)'
  <2>1. CASE k = i
    <3>1. import'[j] = import[j] /\ Apart(i, j) /\ Apart(j, i)
      BY <2>1, <1>3, <1>5
    <3> QED BY <2>1, <3>1, <1>2 DEF Apart, HasPath
  <2>2. CASE j = i
    <3>1. import'[k] = import[k] /\ Apart(i, k) /\ Apart(k, i)
      BY <2>2, <1>3, <1>5
    <3> QED BY <2>2, <3>1, <1>2 DEF Apart, HasPath
  <2>3. CASE k # i /\ j # i
    <3>1. Apart(k, j) /\ import'[k] = import[k] /\ import'[j] = import[j]
      BY <2>3, <1>3, <1>5 DEF IacInv
    <3> QED BY <3>1 DEF Apart
  <2> QED BY <2>1, <2>2, <2>3
<1> QED BY <1>1, <1>2, <1>4, <1>5 DEF IacInv

LEMMA WriteIacInv ==
    ASSUME IacInv, NEW i \in Importer, OpenTarget(i) \/ WriteTemplate(i)
    PROVE  IacInv'
<1>1. ImportOK(i)
  BY DEF IacInv
<1>2. CASE OpenTarget(i)
  <2>1. import[i].path \in Path
    BY <1>1, <1>2 DEF OpenTarget, ImportOK, HasPath
  <2> QED BY <2>1, <1>2, DiskIacInv DEF OpenTarget
<1>3. CASE WriteTemplate(i)
  <2>1. import[i].path \in Path /\ import[i].rule \in IacRule
    BY <1>1, <1>3 DEF WriteTemplate, ImportOK, HasPath, Underway
  <2>2. import[i].path \notin contended => disk[import[i].path] = Partial
    BY <1>1, <1>3 DEF WriteTemplate, ImportOK
  <2>3. PICK content \in {import[i].rule} \cup (IF disk[import[i].path] = Partial THEN {}
                                               ELSE {Partial}) :
           disk' = [disk EXCEPT ![import[i].path] = content]
    BY <1>3 DEF WriteTemplate
  <2>4. content \in IacRule \cup {Partial}
    BY <2>1, <2>3
  <2>5. import[i].path \notin contended => content = import[i].rule
    BY <2>2, <2>3
  <2>6. import[i].pc = "write" /\ Goes(i, "written") /\ UNCHANGED contended
    BY <1>3 DEF WriteTemplate
  <2> QED BY <2>1, <2>3, <2>4, <2>5, <2>6, DiskIacInv
<1> QED BY <1>2, <1>3

\* When the process is killed the calls under way are gone, the files stay.
LEMMA KilledIacInv == ASSUME IacInv, ProcessKilled PROVE IacInv'
<1>1. /\ import' = [i \in Importer |-> IF import[i].pc \in Underway THEN Ended("killed")
                                       ELSE import[i]]
      /\ UNCHANGED <<disk, contended>>
  BY DEF ProcessKilled
<1>2. Ended("killed") \in Calls /\ Ended("killed").pc = "killed"
  BY DEF Ended, Import, Calls, AnyRule, AnyPath
<1>3. \A i \in Importer :
         /\ import'[i] \in Calls
         /\ import'[i] = import[i] \/ import'[i].pc = "killed"
  BY <1>1, <1>2 DEF IacInv
<1>4. \A i \in Importer : ImportOK(i)'
  BY <1>1, <1>3 DEF IacInv, ImportOK, Underway, HasPath
<1>5. ASSUME NEW i \in Importer, NEW j \in Importer, i # j PROVE Apart(i, j)'
  <2>1. Apart(i, j)
    BY <1>5 DEF IacInv
  <2> QED BY <2>1, <1>1, <1>3 DEF Apart, HasPath
<1> QED BY <1>1, <1>3, <1>4, <1>5 DEF IacInv

LEMMA NextIacInv == IacInv /\ [INext]_iacVars => IacInv'
<1> SUFFICES ASSUME IacInv, [INext]_iacVars PROVE IacInv'
  OBVIOUS
<1>1. CASE UNCHANGED iacVars
  BY <1>1 DEF iacVars, IacInv, ImportOK, Apart
<1>2. CASE INext
  BY <1>2, ChooseCallInv, RuleToTemplateIacInv, WriteIacInv, KilledIacInv DEF INext
<1> QED BY <1>1, <1>2

\* A template that correlation_import_to_iac reported as written stays as it is
\* for as long as no two imports were at its path together, also when the
\* process is killed in the middle of another import.
THEOREM TemplatesStay == IacSpec => []WrittenTemplateStays
<1>1. IacInv => WrittenTemplateStays
  BY DEF IacInv, ImportOK, WrittenTemplateStays
<1> QED BY <1>1, InitIacInv, NextIacInv, PTL DEF IacSpec

\* The template files and the imports keep their types.
THEOREM ImportTypeOK == IacSpec => []ITypeOK
<1>1. AnyRule \in IacRule /\ AnyPath \in Path
  BY IacAssumption DEF AnyRule, AnyPath
<1>2. IacInv => ITypeOK
  BY <1>1 DEF IacInv, ITypeOK, Calls
<1> QED BY <1>2, InitIacInv, NextIacInv, PTL DEF IacSpec

-----------------------------------------------------------------------------
(* The tools side by side (MCModuleTools).  A step of the whole is a step of *)
(* one tool and leaves the others alone, so that the whole implements the    *)
(* specification of each, and what is proved of one holds of the whole.     *)

LEMMA InitOfEach ==
    ToolInit => EInit /\ AInit /\ UInit /\ CInit /\ RInit /\ KInit /\ OInit /\ IInit
BY DEF ToolInit

LEMMA StepOfEach ==
    ASSUME [ToolNext]_toolVars
    PROVE  /\ [ENext]_edgeVars /\ [ANext]_eventVars /\ [UNext]_updateVars /\ [CNext]_containVars
           /\ [RNext]_rtrVars /\ [KNext]_caseVars /\ [ONext]_oauthVars /\ [INext]_iacVars
BY DEF ToolNext, toolVars

\* The run's specification implements that of every one of its tools.
THEOREM ToolsImplement ==
    ToolSpec => /\ ESpec /\ ASpec /\ USpec /\ CSpec /\ RSpec /\ KSpec /\ RefreshSpec /\ IacSpec
BY InitOfEach, StepOfEach, PTL
   DEF ToolSpec, ESpec, ASpec, USpec, CSpec, RSpec, KSpec, RefreshSpec, IacSpec

\* An action on a host, be it containment or a remote command, has its line in
\* the audit log of its module, also while the other tools are at work.
THEOREM AllActionsAudited == ToolSpec => []ActionsAudited
<1>1. ContainmentAudited /\ RtrAudited => ActionsAudited
  BY DEF ActionsAudited
<1> QED BY <1>1, ToolsImplement, EffectsAudited, CommandsAudited, PTL

\* The state of every tool keeps its types.
THEOREM ToolsTypeOK == ToolSpec => []ToolTypeOK
<1>1. EInv /\ AInv /\ UInv /\ CInv /\ RInv => ETypeOK /\ ATypeOK /\ UTypeOK /\ CTypeOK /\ RTypeOK
  BY DEF EInv, AInv, UInv, CInv, RInv
<1>2. ESpec /\ ASpec /\ USpec /\ CSpec /\ RSpec => [](ETypeOK /\ ATypeOK /\ UTypeOK /\ CTypeOK /\ RTypeOK)
  BY <1>1, InitEInv, NextEInv, InitAInv, NextAInv, InitUInv, NextUInv, InitCInv, NextCInv,
     InitRInv, NextRInv, PTL DEF ESpec, ASpec, USpec, CSpec, RSpec
<1>3. (ETypeOK /\ ATypeOK /\ UTypeOK /\ CTypeOK /\ RTypeOK) /\ KTypeOK /\ OTypeOK /\ ITypeOK
      => ToolTypeOK
  BY DEF ToolTypeOK
<1> QED BY <1>2, <1>3, ToolsImplement, CaseTypeOK, RefreshTypeOK, ImportTypeOK, PTL
=============================================================================
