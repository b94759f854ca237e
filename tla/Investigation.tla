---------------------------- MODULE Investigation ----------------------------
(***************************************************************************)
(* identity_investigate_entity (modules/idp.py): the identifiers given are   *)
(* resolved to entities, and each investigation asked for is made of them,   *)
(* in one request for all or in one for each.  The first request that fails  *)
(* ends the call.                                                           *)
(***************************************************************************)
EXTENDS Naturals, Sequences, FiniteSets, SequencesExt

CONSTANTS
    Entity,         \* the entities of the directory
    First,          \* first: entities a details or risk query asks for (50)
    MaxLimit,       \* bound of the model: the largest limit (200)
    MaxTypes        \* bound of the model: investigations asked for in a call

ASSUME InvestigationAssumption ==
    IsFiniteSet(Entity) /\ {First, MaxLimit, MaxTypes} \subseteq Nat \ {0}

VARIABLES
    inquiry,    \* the call's parameters, and where it is
    found,      \* the results: the entities that each investigation is of
    refused     \* a request has failed, for the properties

inquiryVars == <<inquiry, found, refused>>

BatchType == {"entity_details", "risk_assessment"}
EachType == {"timeline_analysis", "relationship_analysis"}
InvestigationType == BatchType \cup EachType
Identifier == {"names", "emails", "ips", "domains"}

\* The investigations asked for, in order; one may be asked for again.
TypesAsked == BoundedSeq(InvestigationType, MaxTypes) \ {<<>>}

\* The arguments of the resolving query.  E-mail addresses take the place of
\* IP addresses; names and IP addresses are the same argument.
Arguments(kinds) ==
    LET sent == IF "emails" \in kinds THEN kinds \ {"ips"} ELSE kinds
    IN  CASE sent = {} -> "none"
          [] {"names", "ips"} \subseteq sent -> "argument given twice"
          [] OTHER -> "query"

NIdle == [pc |-> "idle", direct |-> {}, query |-> "none", types |-> <<>>, limit |-> 1,
          resolved |-> {}, step |-> 1, left |-> {}, part |-> {}]

NInit ==
    /\ inquiry = NIdle
    /\ found = [type \in {} |-> {}]
    /\ refused = FALSE

-----------------------------------------------------------------------------
\* _validate_params, after quick_triage and the default have set the types.
InvestigateEntity ==
    /\ inquiry.pc = "idle"
    /\ \E direct \in SUBSET Entity, kinds \in SUBSET Identifier,
          types \in TypesAsked, limit \in 1..MaxLimit :
         inquiry' = [NIdle EXCEPT !.pc = IF direct = {} /\ kinds = {} THEN "invalid" ELSE "resolve",
                                  !.direct = direct, !.query = Arguments(kinds),
                                  !.types = types, !.limit = limit]
    /\ UNCHANGED <<found, refused>>

\* Types, event types, depth or limit out of range.
InvalidParams ==
    /\ inquiry.pc = "idle"
    /\ inquiry' = [inquiry EXCEPT !.pc = "invalid"]
    /\ UNCHANGED <<found, refused>>

\* The ids given, as they are, and the entities the query finds, at most limit.
ResolveEntities(matches) ==
    /\ inquiry.pc = "resolve" /\ inquiry.query # "argument given twice"
    /\ inquiry.query = "none" => matches = {}
    /\ Cardinality(matches) <= inquiry.limit
    /\ LET resolved == inquiry.direct \cup matches
       IN  inquiry' = [inquiry EXCEPT !.resolved = resolved, !.left = resolved,
                                      !.pc = IF resolved = {} THEN "none found" ELSE "investigate"]
    /\ UNCHANGED <<found, refused>>

Type == inquiry.types[inquiry.step]

\* The investigation is done: go on to the next.
NextType ==
    [inquiry EXCEPT !.step = @ + 1, !.left = inquiry.resolved, !.part = {},
                    !.pc = IF inquiry.step = Len(inquiry.types) THEN "reported" ELSE @]

\* The results with that of type, in place of one it may have had.
Results(type, nodes) ==
    [t \in DOMAIN found \cup {type} |-> IF t = type THEN nodes ELSE found[t]]

\* Mutant of GraphqlCallFails: an investigation that fails is left out.
GraphqlCallFailsSkips ==
    /\ inquiry.pc = "investigate" \/ (inquiry.pc = "resolve" /\ inquiry.query # "none")
    /\ inquiry' = IF inquiry.pc = "resolve" THEN [inquiry EXCEPT !.pc = "failed"] ELSE NextType
    /\ refused' = TRUE
    /\ UNCHANGED found

\* Any request can fail, by its status, by an exception or by errors in a 200.
GraphqlCallFails ==
    /\ inquiry.pc = "investigate" \/ (inquiry.pc = "resolve" /\ inquiry.query # "none")
    /\ inquiry' = [inquiry EXCEPT !.pc = "failed"]
    /\ refused' = TRUE
    /\ UNCHANGED found

\* One request for all.  It asks for no more than the first so many, and what
\* it gives is the result: nothing looks whether an entity is missing.
InvestigateAll(type, nodes) ==
    /\ inquiry.pc = "investigate" /\ Type = type
    /\ nodes \subseteq inquiry.resolved /\ Cardinality(nodes) <= First
    /\ found' = Results(type, nodes)
    /\ inquiry' = NextType
    /\ UNCHANGED refused

\* One request for each; the result is there when all have been made.
InvestigateEach(type, e) ==
    /\ inquiry.pc = "investigate" /\ Type = type
    /\ e \in inquiry.left
    /\ IF inquiry.left = {e}
       THEN found' = Results(type, inquiry.part \cup {e}) /\ inquiry' = NextType
       ELSE /\ inquiry' = [inquiry EXCEPT !.left = @ \ {e}, !.part = @ \cup {e}]
            /\ UNCHANGED found
    /\ UNCHANGED refused

GetEntityDetails(nodes) == InvestigateAll("entity_details", nodes)
AssessRisks(nodes) == InvestigateAll("risk_assessment", nodes)
GetEntityTimelines(e) == InvestigateEach("timeline_analysis", e)
AnalyzeRelationships(e) == InvestigateEach("relationship_analysis", e)

NNext ==
    \/ InvestigateEntity \/ InvalidParams \/ GraphqlCallFails
    \/ \E es \in SUBSET Entity :
          ResolveEntities(es) \/ GetEntityDetails(es) \/ AssessRisks(es)
    \/ \E e \in Entity : GetEntityTimelines(e) \/ AnalyzeRelationships(e)

InquirySpec == NInit /\ [][NNext]_inquiryVars

-----------------------------------------------------------------------------
NTypeOK ==
    /\ inquiry.pc \in {"idle", "invalid", "resolve", "failed", "none found", "investigate", "reported"}
    /\ inquiry.resolved \subseteq Entity /\ inquiry.left \subseteq inquiry.resolved
    /\ inquiry.part \subseteq inquiry.resolved
    /\ DOMAIN found \subseteq InvestigationType
    /\ \A type \in DOMAIN found : found[type] \subseteq inquiry.resolved

\* A report has all the results asked for, of requests none of which failed:
\* one for each investigation, and that of a timeline or relationship analysis
\* is of every entity the report names, those given by id among them.  Details
\* and risks may be of fewer, as many as the API gave: an id that is given is
\* named as resolved also when there is no such entity.
ReportIsWhole ==
    inquiry.pc = "reported" =>
        /\ ~refused
        /\ inquiry.direct \subseteq inquiry.resolved
        /\ DOMAIN found = Range(inquiry.types)
        /\ \A type \in DOMAIN found \cap EachType : found[type] = inquiry.resolved
=============================================================================
