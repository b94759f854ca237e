----------------------------- MODULE MCReadTools -----------------------------
(* The tools that read from Falcon, and the paging of what they store.  They *)
(* share no state, so each behaviour is of one of them: the states are the   *)
(* union of theirs, not the product.                                         *)
EXTENDS StoredResponsePaging, NgsiemSearch, NgsiemListing, RuleListing, RiskTimeline,
        Investigation, QueryTools, AlertListing

VARIABLE read       \* the tool this behaviour is of

readVars == <<pagingVars, searchVars, listingVars, ruleVars, timelineVars, inquiryVars,
              queryVars, alertVars, read>>

Reads == {"paging", "search", "listing", "rules", "timeline", "inquiry", "query", "alerts"}

\* The tools that are not at work start in one state each.
PIdle ==
    /\ size = <<>> /\ null = <<>> /\ mode = "search" /\ start = 0
    /\ offset = 0 /\ delivered = <<>> /\ status = "paging"

BIdle ==
    /\ there = 0 /\ listed = <<>> /\ shown = {} /\ kept = {}
    /\ browse = [pc |-> "asks", tool |-> Paged, limit |-> 1, detail |-> TRUE,
                 stated |-> TRUE, offset |-> 0]

LIdle ==
    /\ catalogue = <<>> /\ newest = 0 /\ matching = {} /\ listing = NewListing(1)
    /\ changes = [made |-> 0, removed |-> 0, unstated |-> FALSE, skipped |-> FALSE]

TIdle ==
    /\ asset = [risks |-> <<>>, seen |-> <<>>, changes |-> <<>>]
    /\ asked = [risk |-> All, since |-> All, rows |-> 1]
    /\ timeline = NoTimeline

WIdle ==
    /\ arrived = 0 /\ matched = {} /\ walk = FirstCall
    /\ seen = <<>> /\ steady = {} /\ disturbed = {}

ReadInit ==
    /\ read \in Reads
    /\ SInit /\ NInit /\ QInit
    /\ IF read = "paging" THEN PInit ELSE PIdle
    /\ IF read = "listing" THEN BInit ELSE BIdle
    /\ IF read = "rules" THEN LInit ELSE LIdle
    /\ IF read = "timeline" THEN TInit ELSE TIdle
    /\ IF read = "alerts" THEN WInit ELSE WIdle

ReadNext ==
    \/ /\ read = "paging" /\ PNext
       /\ UNCHANGED <<searchVars, listingVars, ruleVars, timelineVars, inquiryVars, queryVars, alertVars, read>>
    \/ /\ read = "search" /\ SNext
       /\ UNCHANGED <<pagingVars, listingVars, ruleVars, timelineVars, inquiryVars, queryVars, alertVars, read>>
    \/ /\ read = "listing" /\ BNext
       /\ UNCHANGED <<pagingVars, searchVars, ruleVars, timelineVars, inquiryVars, queryVars, alertVars, read>>
    \/ /\ read = "rules" /\ LNext
       /\ UNCHANGED <<pagingVars, searchVars, listingVars, timelineVars, inquiryVars, queryVars, alertVars, read>>
    \/ /\ read = "timeline" /\ TNext
       /\ UNCHANGED <<pagingVars, searchVars, listingVars, ruleVars, inquiryVars, queryVars, alertVars, read>>
    \/ /\ read = "inquiry" /\ NNext
       /\ UNCHANGED <<pagingVars, searchVars, listingVars, ruleVars, timelineVars, queryVars, alertVars, read>>
    \/ /\ read = "query" /\ QNext
       /\ UNCHANGED <<pagingVars, searchVars, listingVars, ruleVars, timelineVars, inquiryVars, alertVars, read>>
    \/ /\ read = "alerts" /\ WNext
       /\ UNCHANGED <<pagingVars, searchVars, listingVars, ruleVars, timelineVars, inquiryVars, queryVars, read>>

\* The fairness of FairPagingSpec and FairSearchSpec, for the one at work.
ReadSpec ==
    /\ ReadInit /\ [][ReadNext]_readVars
    /\ WF_readVars(read = "paging" /\ ReadNext)
    /\ WF_searchVars(read = "search" /\ SearchStep)
    /\ WF_searchVars(read = "search" /\ Tick)

ReadTypeOK ==
    /\ PTypeOK /\ STypeOK /\ BTypeOK /\ LTypeOK /\ TTypeOK /\ NTypeOK /\ QTypeOK /\ WTypeOK

\* A read comes to its end: paging because every page makes progress, a search
\* even if its job never ends.
ReadsEnd ==
    /\ read = "paging" => PagingEnds
    /\ read = "search" => CallReturns
=============================================================================
