----------------------------- MODULE QueryTools -----------------------------
(***************************************************************************)
(* The tools that ask the Falcon APIs one question and render the answer    *)
(* (modules/hosts.py, spotlight.py, cao_hunting.py, cloud_security.py,      *)
(* cloud_registration.py, correlation.py, case_management.py,               *)
(* threat_graph.py, ngsiem.py).  Each is described by a record: the         *)
(* requests it makes, and what it does of what they return; the actions are *)
(* the course they all take, format_text_response (utils.py) and the        *)
(* reading back of what it stores (response_store.py) included.            *)
(***************************************************************************)
EXTENDS Naturals, Sequences, FiniteSets, SequencesExt

CONSTANTS
    MaxMatches,     \* bound of the model: records that match
    MaxQueryLimit,  \* bound of the model: the largest limit
    RenderedFirst,  \* records rendered by a tool that renders the first few
    TextSize,       \* of a record in the text
    DataSize,       \* of a record in the structured data
    LargeThreshold  \* LARGE_RESPONSE_THRESHOLD

ASSUME QueryToolsAssumption ==
    /\ {MaxMatches, MaxQueryLimit} \subseteq Nat
    /\ {RenderedFirst, TextSize, DataSize, LargeThreshold} \subseteq Nat \ {0}

VARIABLES
    question,   \* the call: its tool, its parameters and its progress
    reply       \* what the caller is told

queryVars == <<question, reply>>

-----------------------------------------------------------------------------
(* The requests of a tool, made by the internal method of its name.          *)
(* requests: "ids" then "details" of them, or "records" at once; "part" of   *)
(* the answer, told when missing; "extra", left out when missing.  limited:  *)
(* asks for no more than a limit.  tells: what is said when there is more.   *)

Requests(kinds, limited, tells) == [requests |-> kinds, limited |-> limited, tells |-> tells]

IdsThenDetails == Requests(<<"ids", "details">>, TRUE, "total")
RecordsPage == Requests(<<"records">>, TRUE, "total")
ById == Requests(<<"records">>, FALSE, "nothing")

search_queries == IdsThenDetails
get_queries_by_ids == ById
search_guides == IdsThenDetails
get_guides_by_ids == ById
aggregate == Requests(<<"records">>, TRUE, "nothing")

query_vulnerabilities == RecordsPage
get_vulnerabilities == ById
vulnerabilities_combined == RecordsPage
get_remediations == ById

lookup == Requests(<<"ids", "details", "extra">>, TRUE, "nothing")
lookup_by_id == Requests(<<"records", "extra">>, FALSE, "nothing")
get_login_history == ById
get_network_history == ById

get_cloud_risks == RecordsPage
get_iom_detections == IdsThenDetails
query_assets == IdsThenDetails
get_compliance_by_account == RecordsPage
list_accounts == Requests(<<"part", "part">>, FALSE, "nothing")
get_policy_settings == ById

get_rules == ById
export_rule == ById

query_cases == IdsThenDetails
get_cases == ById
get_fields == Requests(<<"ids", "details">>, FALSE, "nothing")

list_sessions == ById
check_command_status == ById
list_files == ById

-----------------------------------------------------------------------------
(* The tools: their requests, and what they make of the answer.  none: what  *)
(* an empty result is called.  renders: all records, or the first few.       *)
(* forces: what is not rendered is stored.  payload: the structured data, in *)
(* order; the shape of a key tells what holds content of the answer:         *)
(* "records", a list of them, or "record".                                   *)

Listed(asks, payload) ==
    [requests |-> asks.requests, limited |-> asks.limited, tells |-> asks.tells,
     none |-> "none found", renders |-> "all", forces |-> FALSE, payload |-> payload]

Under(key) == <<<<key, "records">>>>
Resources == Under("resources")

cao_search_queries == Listed(search_queries, Under("records"))
cao_search_guides == Listed(search_guides, Under("records"))
cao_get_queries == Listed(get_queries_by_ids, Under("records"))
cao_get_guides == Listed(get_guides_by_ids, Under("records"))
cao_aggregate == Listed(aggregate, Under("records"))

spotlight_supported_evaluations == Listed(ById, Resources)
spotlight_query_vulnerabilities == Listed(query_vulnerabilities, Under("records"))
spotlight_get_vulnerabilities == Listed(get_vulnerabilities, Under("vulnerabilities"))
format_vuln_list == Under("vulns")
spotlight_vulnerabilities_combined == Listed(vulnerabilities_combined, format_vuln_list)
spotlight_host_vulns == Listed(vulnerabilities_combined, format_vuln_list)
spotlight_get_remediations == Listed(get_remediations, Resources)

DevicesFound == <<<<"devices", "records">>, <<"count", "value">>>>
host_lookup == [Listed(lookup, DevicesFound) EXCEPT !.none = "failed"]
host_lookup_by_id == [Listed(lookup_by_id, DevicesFound) EXCEPT !.none = "failed"]
host_login_history == Listed(get_login_history, Under("login_history"))
host_network_history == Listed(get_network_history, Under("network_history"))

cloud_get_risks == Listed(get_cloud_risks, Under("risks"))
cloud_get_iom_detections == Listed(get_iom_detections, Under("records"))
cloud_query_assets == Listed(query_assets, Under("records"))
cloud_compliance_by_account == Listed(get_compliance_by_account, Under("records"))
cloud_risk_timeline_summary == Listed(ById, Under("records") \o Under("risks"))
cloud_risk_timeline_full == Listed(ById, Under("risks") \o Under("changes"))

cloud_list_accounts == Listed(list_accounts, Under("records"))
cloud_policy_settings ==
    [Listed(get_policy_settings, Under("records") \o <<<<"by_service", "dict">>>>)
        EXCEPT !.renders = "first"]

correlation_get_rule == [Listed(get_rules, Under("records")) EXCEPT !.none = "failed"]
correlation_export_rule ==
    [Listed(export_rule, <<<<"success", "value">>, <<"export", "record">>>>) EXCEPT !.none = "failed"]
correlation_list_templates == Listed(RecordsPage, Under("records"))
correlation_get_template == Listed(ById, Under("records"))

CasesFound == <<<<"success", "value">>, <<"cases", "records">>, <<"count", "value">>>>
case_query == Listed(query_cases, CasesFound \o <<<<"total_available", "value">>>>)
case_get == [Listed(get_cases, CasesFound) EXCEPT !.none = "failed"]
case_get_fields == Listed(get_fields, Under("records"))
case_query_access_tags == Listed(RecordsPage, Under("records"))
case_get_access_tags == Listed(ById, Under("records"))
case_aggregate_access_tags == Listed(ById, Under("records"))
case_get_rtr_file_metadata == Listed(ById, Under("records"))
case_get_rtr_recent_files == Listed(ById, Under("records"))

rtr_list_sessions == Listed(list_sessions, Under("records"))
rtr_check_command_status ==
    [Listed(check_command_status, <<<<"resource", "record">>>>) EXCEPT !.none = "empty record"]
rtr_list_files == Listed(list_files, Under("records"))

threatgraph_get_vertices == Listed(ById, Resources)
threatgraph_get_edges == Listed(RecordsPage, Resources)
threatgraph_get_ran_on == Listed(RecordsPage, Resources)
threatgraph_get_summary == Listed(ById, Resources)

ngsiem_get_record == [Listed(ById, <<<<"record", "record">>>>) EXCEPT !.none = "empty record"]
ngsiem_get_lookup_file ==
    [Listed(ById, Under("records")) EXCEPT !.renders = "first", !.forces = TRUE]

identity_investigate_entity ==
    Listed(ById, <<<<"entity_ids", "list">>, <<"investigations", "record">>>>)

Tool == {cao_search_queries, cao_search_guides, cao_get_queries, cao_get_guides, cao_aggregate,
    spotlight_supported_evaluations, spotlight_query_vulnerabilities, spotlight_get_vulnerabilities,
    spotlight_vulnerabilities_combined, spotlight_host_vulns, spotlight_get_remediations,
    host_lookup, host_lookup_by_id, host_login_history, host_network_history, cloud_get_risks,
    cloud_get_iom_detections, cloud_query_assets, cloud_compliance_by_account,
    cloud_risk_timeline_summary, cloud_risk_timeline_full, cloud_list_accounts,
    cloud_policy_settings, correlation_get_rule, correlation_export_rule,
    correlation_list_templates, correlation_get_template, case_query, case_get, case_get_fields,
    case_query_access_tags, case_get_access_tags, case_aggregate_access_tags,
    case_get_rtr_file_metadata, case_get_rtr_recent_files, rtr_list_sessions,
    rtr_check_command_status, rtr_list_files, threatgraph_get_vertices,
    threatgraph_get_edges, threatgraph_get_ran_on, threatgraph_get_summary, ngsiem_get_record,
    ngsiem_get_lookup_file, identity_investigate_entity}

-----------------------------------------------------------------------------
(* What a stored payload gives back: select_records.                       *)

PrimaryRecordKeys == <<"records", "events", "behaviors", "investigations", "vulns",
    "vulnerabilities", "risks", "resources", "vertices", "edges", "hosts", "login_history",
    "network_history", "entity_ids", "data", "results">>

IsList(entry) == entry[2] \in {"records", "list"}
IsDict(entry) == entry[2] \in {"record", "dict"}
IsContent(entry) == entry[2] \in {"records", "record"}

\* Which of two entries select_records looks for first: d, if its key is a
\* primary one and that of e no primary one up to there.
Before(d, e) ==
    \E i \in DOMAIN PrimaryRecordKeys :
        /\ d[1] = PrimaryRecordKeys[i]
        /\ \A j \in 1..i : e[1] # PrimaryRecordKeys[j]

\* The list under the first primary key that has one; else the longest list,
\* and no payload here has two without such a key; else every dict.
SelectRecords(payload) ==
    LET lists == {e \in Range(payload) : IsList(e)}
    IN  IF lists # {} THEN {e \in lists : ~\E d \in lists : Before(d, e)}
        ELSE {e \in Range(payload) : IsDict(e)}

ReadsBack(payload) == {e \in Range(payload) : IsContent(e)} \subseteq SelectRecords(payload)

-----------------------------------------------------------------------------
AtMost(a, b) == IF a < b THEN a ELSE b

\* Records of n that the tool renders, and what format_text_response stores.
InText(tool, n) == IF tool.renders = "first" THEN AtMost(n, RenderedFirst) ELSE n
TextLarge(tool, n) == InText(tool, n) * TextSize > LargeThreshold

\* Mutant of IsKept: the size of the text is left out of account.
IsKeptForItsData(tool, n) ==
    n * DataSize > LargeThreshold \/ (tool.forces /\ InText(tool, n) < n)

IsKept(tool, n) ==
    TextLarge(tool, n) \/ n * DataSize > LargeThreshold \/ (tool.forces /\ InText(tool, n) < n)

NoTool == Listed(ById, <<>>)
NoReply == [says |-> "nothing yet", returned |-> 0, total |-> 0, shown |-> 0, cut |-> FALSE,
            ref |-> FALSE]
Unasked == [pc |-> "idle", tool |-> NoTool, limit |-> 0, matches |-> 0, stated |-> FALSE,
            step |-> 1, records |-> 0, total |-> 0, parts |-> {}, lost |-> FALSE]

QInit == question = Unasked /\ reply = NoReply

\* A tool is called; what matches, and whether the API states the total, shows.
CallTool(tool, limit, matches, stated) ==
    /\ question.pc = "idle"
    /\ question' = [Unasked EXCEPT !.pc = "asking", !.tool = tool, !.limit = limit,
                                   !.matches = matches, !.stated = stated]
    /\ UNCHANGED reply

\* A required parameter is missing or out of range: no request is made.
CallRefused ==
    /\ question.pc = "idle"
    /\ question' = [question EXCEPT !.pc = "answered"]
    /\ reply' = [NoReply EXCEPT !.says = "failed"]

Request == question.tool.requests[question.step]

GoOn == IF question.step = Len(question.tool.requests) THEN "rendering" ELSE "asking"

\* Mutant of RequestFails: a refused request is taken for an empty answer.
RequestFailsEmpty ==
    /\ question.pc = "asking"
    /\ question' = [question EXCEPT !.pc = "rendering", !.lost = TRUE]
    /\ UNCHANGED reply

\* A request is refused or raises: the call has failed, but for an extra, which
\* is left out.
RequestFails ==
    /\ question.pc = "asking"
    /\ IF Request = "extra"
       THEN question' = [question EXCEPT !.pc = GoOn, !.step = @ + 1] /\ UNCHANGED reply
       ELSE /\ question' = [question EXCEPT !.pc = "answered", !.lost = TRUE]
            /\ reply' = [NoReply EXCEPT !.says = "failed"]

\* _list_accounts: a provider that refuses is named in the answer.
PartRefused ==
    /\ question.pc = "asking" /\ Request = "part"
    /\ question' = [question EXCEPT !.pc = GoOn, !.step = @ + 1, !.parts = @ \cup {question.step}]
    /\ UNCHANGED reply

\* The first request says which records there are, at most limit, and how many
\* in all: as many as it returns, when the API does not state it.
RequestFinds ==
    LET n == IF question.tool.limited THEN AtMost(question.limit, question.matches)
             ELSE question.matches
    IN  /\ question.pc = "asking" /\ Request \in {"ids", "records"}
        /\ question' = [question EXCEPT
                           !.records = n, !.step = @ + 1,
                           !.total = IF question.stated THEN question.matches ELSE n,
                           !.pc = IF n = 0 THEN "rendering" ELSE GoOn]
        /\ UNCHANGED reply

\* The details of the ids found; some may be gone by now.
DetailsAnswer(n) ==
    /\ question.pc = "asking" /\ Request = "details"
    /\ n <= question.records
    /\ question' = [question EXCEPT !.records = n, !.step = @ + 1,
                                    !.pc = IF n = 0 THEN "rendering" ELSE GoOn]
    /\ UNCHANGED reply

\* One provider's accounts; or the extra, which adds no record.
PartAnswers(n) ==
    /\ question.pc = "asking" /\ Request \in {"part", "extra"}
    /\ n <= IF Request = "part" THEN question.matches - question.records ELSE 0
    /\ question' = [question EXCEPT !.records = @ + n, !.step = @ + 1, !.pc = GoOn]
    /\ UNCHANGED reply

\* format_text_response: a large text is cut at a line, and its last record
\* goes at least in part.
FormatReply(shown) ==
    LET tool == question.tool
        n == question.records
        large == TextLarge(tool, n)
    IN  /\ question.pc = "rendering"
        /\ IF large THEN shown < InText(tool, n) ELSE shown = InText(tool, n)
        /\ question' = [question EXCEPT !.pc = "answered"]
        /\ reply' = [says |-> CASE question.parts # {} -> "in part"
                                [] question.parts = {} /\ n = 0 -> tool.none
                                [] OTHER -> "records",
                     returned |-> n, total |-> question.total, shown |-> shown,
                     cut |-> large, ref |-> IsKept(tool, n)]

QNext ==
    \/ \E tool \in Tool, limit \in 1..MaxQueryLimit, matches \in 0..MaxMatches, stated \in BOOLEAN :
          CallTool(tool, limit, matches, stated)
    \/ CallRefused \/ RequestFails \/ PartRefused \/ RequestFinds
    \/ \E n \in 0..MaxMatches : DetailsAnswer(n) \/ PartAnswers(n) \/ FormatReply(n)

QuerySpec == QInit /\ [][QNext]_queryVars

-----------------------------------------------------------------------------
QTypeOK ==
    /\ question.pc \in {"idle", "asking", "rendering", "answered"}
    /\ question.tool \in Tool \cup {NoTool} /\ question.step \in 1..4
    /\ question.records \in 0..MaxMatches /\ question.total \in 0..MaxMatches
    /\ reply.says \in {"nothing yet", "failed", "in part", "none found", "empty record", "records"}
    /\ reply.shown <= reply.returned

\* An answer never takes a failure for an empty result, nor a page for the
\* whole: "none found" rests on requests that all succeeded, and where the API
\* states the total a listing with more behind it shows a total above its count.
AnswerIsHonest ==
    /\ reply.says \in {"none found", "empty record"} => ~question.lost
    /\ /\ reply.says = "records" /\ question.stated /\ question.tool.tells = "total"
       /\ reply.returned < question.matches
       => reply.returned < reply.total

\* The tools whose payload select_records does not read in full: it takes the
\* entity ids, or one of two lists.
HalfRead == {identity_investigate_entity, cloud_risk_timeline_summary, cloud_risk_timeline_full}

\* An answer whose text had to be cut comes with a reference from which
\* get_stored_response gives every record the text was to show, for every tool
\* but those of HalfRead.
CutIsReadable ==
    reply.cut /\ question.tool \notin HalfRead => reply.ref /\ ReadsBack(question.tool.payload)

\* cloud_registration.py:151 says of the policies beyond the first: "the store
\* keeps all of them, so the "... and N more" line is actually followable".
MoreLineFollowable ==
    question.tool.renders = "first" /\ reply.shown < reply.returned => reply.ref
=============================================================================
