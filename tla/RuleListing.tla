----------------------------- MODULE RuleListing -----------------------------
(***************************************************************************)
(* correlation_list_rules (modules/correlation.py): CorrelationModule's     *)
(* _list_rules asks for the ids of all rules page after page, then for the  *)
(* rules in batches, and filters them on this side.  Rules are made and     *)
(* removed by others meanwhile.                                            *)
(*                                                                         *)
(* A rule is a number, its id, which is never used again; the API lists     *)
(* the rules in the order in which they were made.                         *)
(***************************************************************************)
EXTENDS Integers, Sequences, FiniteSets, SequencesExt, Ranking

CONSTANTS
    MaxRule,        \* bound of the model: rules ever made
    IdBatch,        \* batch_limit: ids asked for at a time
    RuleBatch,      \* batch_size: rules asked for at a time
    MaxRules,       \* bound of the model: how far from 0 max_results is
    MaxRuleChanges  \* bound of the model: rules made or removed during the call

ASSUME RuleListingAssumption ==
    /\ {IdBatch, RuleBatch, MaxRules} \subseteq Nat \ {0}
    /\ {MaxRule, MaxRuleChanges} \subseteq Nat

VARIABLES
    catalogue,  \* the rules, in the API's order
    newest,     \* the rule made last, which may have been removed
    matching,   \* the rules that pass the call's enabled and search filters
    listing,    \* the call
    changes     \* what others did during the call, for the properties

ruleVars == <<catalogue, newest, matching, listing, changes>>

Rule == 1..MaxRule

\* A call whose max_results is max, before its first request.
NewListing(max) == [pc |-> "ids", max |-> max, offset |-> 0, ids |-> <<>>, batch |-> 1,
                 details |-> <<>>, rules |-> <<>>, total |-> 0]

LInit ==
    /\ newest \in 0..MaxRule /\ catalogue = [i \in 1..newest |-> i]
    /\ matching \in SUBSET Rule
    /\ \E max \in -MaxRules..MaxRules : listing = NewListing(max)
    /\ changes = [made |-> 0, removed |-> 0, unstated |-> FALSE, skipped |-> FALSE]

\* At most n elements of s from the one after the first k.
Part(s, k, n) == SubSeq(s, k + 1, IF k + n < Len(s) THEN k + n ELSE Len(s))

-----------------------------------------------------------------------------
\* Mutant of QueryRules: the first page is taken for all there is.
QueryRulesOnce(stated) ==
    /\ listing.pc = "ids"
    /\ listing' = [listing EXCEPT !.ids = Part(catalogue, 0, IdBatch), !.pc = "rules"]
    /\ changes' = [changes EXCEPT !.unstated = @ \/ ~stated]
    /\ UNCHANGED <<catalogue, newest, matching>>

\* A page of ids; it is the last one when there are as many as the total or
\* it is empty.  A total that is not stated counts as 0.
QueryRules(stated) ==
    LET page == Part(catalogue, listing.offset, IdBatch)
        ids == listing.ids \o page
        last == Len(ids) >= (IF stated THEN Len(catalogue) ELSE 0) \/ page = <<>>
    IN  /\ listing.pc = "ids"
        /\ listing' = [listing EXCEPT !.ids = ids,
                                      !.offset = IF last THEN @ ELSE @ + IdBatch,
                                      !.pc = IF ~last THEN "ids"
                                             ELSE IF ids = <<>> THEN "listed" ELSE "rules"]
        /\ changes' = [changes EXCEPT !.unstated = @ \/ ~stated]
        /\ UNCHANGED <<catalogue, newest, matching>>

\* A page is refused, or a request of either kind raises.
ListingFails ==
    /\ listing.pc \in {"ids", "rules"}
    /\ listing' = [listing EXCEPT !.pc = "failed"]
    /\ UNCHANGED <<catalogue, newest, matching, changes>>

BatchLeft == listing.pc = "rules" /\ listing.batch <= Len(listing.ids)

\* A batch of rules, those that have not been removed since, in the order
\* the API gives them in.
GetRuleBatch ==
    LET batch == Part(listing.ids, listing.batch - 1, RuleBatch)
    IN  /\ BatchLeft
        /\ \E got \in SetToSeqs(Range(batch) \cap Range(catalogue)) :
              listing' = [listing EXCEPT !.details = @ \o got, !.batch = @ + RuleBatch]
        /\ UNCHANGED <<catalogue, newest, matching, changes>>

\* A batch that is refused is left out; only the server's log says so.
RuleBatchRefused ==
    /\ BatchLeft
    /\ listing' = [listing EXCEPT !.batch = @ + RuleBatch]
    /\ changes' = [changes EXCEPT !.skipped = TRUE]
    /\ UNCHANGED <<catalogue, newest, matching>>

\* The filters, the total and the cut.
ListRules ==
    LET filtered == Among(listing.details, matching)
    IN  /\ listing.pc = "rules" /\ ~BatchLeft
        /\ listing' = [listing EXCEPT !.pc = "listed", !.total = Len(filtered),
                                      !.rules = Cut(filtered, listing.max)]
        /\ UNCHANGED <<catalogue, newest, matching, changes>>

-----------------------------------------------------------------------------
Ongoing == listing.pc \in {"ids", "rules"} /\ changes.made + changes.removed < MaxRuleChanges

\* Somebody makes a rule, which comes last, or removes one.
RuleMade ==
    /\ Ongoing /\ newest < MaxRule
    /\ newest' = newest + 1
    /\ catalogue' = Append(catalogue, newest + 1)
    /\ changes' = [changes EXCEPT !.made = @ + 1]
    /\ UNCHANGED <<matching, listing>>

RuleRemoved(i) ==
    /\ Ongoing /\ i \in DOMAIN catalogue
    /\ catalogue' = RemoveAt(catalogue, i)
    /\ changes' = [changes EXCEPT !.removed = @ + 1]
    /\ UNCHANGED <<newest, matching, listing>>

LNext ==
    \/ \E stated \in BOOLEAN : QueryRules(stated)
    \/ ListingFails \/ GetRuleBatch \/ RuleBatchRefused \/ ListRules
    \/ RuleMade
    \/ \E i \in 1..MaxRule : RuleRemoved(i)

ListingSpec == LInit /\ [][LNext]_ruleVars

-----------------------------------------------------------------------------
LTypeOK ==
    /\ newest \in 0..MaxRule /\ Range(catalogue) \subseteq 1..newest /\ IsInjective(catalogue)
    /\ listing.pc \in {"ids", "rules", "listed", "failed"}
    /\ Range(listing.ids) \subseteq Rule /\ Range(listing.rules) \subseteq matching
    /\ listing.total \in Nat

\* The listing is worth believing: no rule is in it twice, however rules are
\* made and removed meanwhile; it shows as many as max_results lets it of those
\* it counts; and when none was removed, every page stated its total and every
\* batch was answered, it counts each matching rule there is, those made
\* during the call excepted.
ListingCounts ==
    listing.pc = "listed" =>
        /\ IsInjective(listing.rules)
        /\ listing.max >= 0 =>
              Len(listing.rules) = IF listing.total < listing.max THEN listing.total ELSE listing.max
        /\ listing.max < 0 =>
              Len(listing.rules) = IF listing.total + listing.max < 0 THEN 0 ELSE listing.total + listing.max
        /\ changes.removed = 0 /\ ~changes.unstated /\ ~changes.skipped =>
              LET there == Cardinality(Range(catalogue) \cap matching)
              IN  listing.total \in (IF changes.made > there THEN 0 ELSE there - changes.made)..there
=============================================================================
