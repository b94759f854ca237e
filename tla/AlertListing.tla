---------------------------- MODULE AlertListing ----------------------------
(***************************************************************************)
(* get_alerts (modules/alerts.py) and a caller who follows its next offset, *)
(* while alerts arrive and leave the filter.  A page is two requests: the   *)
(* ids, newest first, with the total; and the details of those ids, which    *)
(* the API gives in an order of its own.                                    *)
(*                                                                         *)
(* An alert is a number, a newer one a larger; the filter, its window that  *)
(* begins anew with each call included, is the set of those it matches.    *)
(***************************************************************************)
EXTENDS Naturals, Sequences, FiniteSets, SequencesExt

CONSTANTS
    MaxAlerts,      \* bound of the model: alerts that ever arrive
    MaxAlertPage,   \* the largest max_results (1000)
    MaxLeft         \* bound of the model: alerts that leave the filter

ASSUME AlertListingAssumption ==
    MaxAlerts \in Nat /\ MaxAlertPage \in Nat \ {0} /\ MaxLeft \in Nat

VARIABLES
    arrived,    \* alerts so far
    matched,    \* those the filter matches
    walk,       \* the caller and the call it is in
    seen,       \* the alerts listed, in order
    steady,     \* those that have matched since the first call, for the properties
    disturbed   \* what has happened since then, for the properties

alertVars == <<arrived, matched, walk, seen, steady, disturbed>>

\* _get_alerts: max_results is clamped to 1..1000, offset to 0 and above.
FirstCall == [pc |-> "calls", max |-> 1, offset |-> 0, ids |-> {}, total |-> 0]

WInit ==
    /\ arrived \in 0..MaxAlerts /\ matched = 1..arrived
    /\ \E max \in 1..MaxAlertPage : walk = [FirstCall EXCEPT !.max = max]
    /\ seen = <<>> /\ steady = matched /\ disturbed = {}

\* Those before a in the sort the request asks for.
Newer(a, S) == {b \in S : b > a}

-----------------------------------------------------------------------------
AlertArrives ==
    /\ arrived < MaxAlerts
    /\ arrived' = arrived + 1 /\ matched' = matched \cup {arrived + 1}
    /\ disturbed' = disturbed \cup {"arrival"}
    /\ UNCHANGED <<walk, seen, steady>>

\* Its status changes, or it falls out of the time range.
AlertLeaves(a) ==
    /\ a \in matched /\ arrived - Cardinality(matched) < MaxLeft
    /\ matched' = matched \ {a} /\ steady' = steady \ {a}
    /\ disturbed' = disturbed \cup {"departure"}
    /\ UNCHANGED <<arrived, walk, seen>>

\* query_alerts_v2.  A total that is not stated counts as that of the ids.
\* Without ids the call returns, and names no next offset.
QueryAlerts(stated) ==
    LET page == walk.offset..walk.offset + walk.max - 1
        ids == {a \in matched : Cardinality(Newer(a, matched)) \in page}
    IN  /\ walk.pc = "calls"
        /\ walk' = [walk EXCEPT !.ids = ids, !.total = Cardinality(IF stated THEN matched ELSE ids),
                                !.pc = IF ids = {} THEN "ended" ELSE "details"]
        /\ disturbed' = IF stated THEN disturbed ELSE disturbed \cup {"unstated"}
        /\ UNCHANGED <<arrived, matched, seen, steady>>

\* Mutant of NextOffset: one too few are left for another page.
NextOffsetEarly(count) ==
    IF walk.offset + count + 1 < walk.total
    THEN [walk EXCEPT !.pc = "calls", !.offset = @ + count]
    ELSE [walk EXCEPT !.pc = "ended"]

\* next_offset counts the alerts returned, not the ids asked for.
NextOffset(count) ==
    IF walk.offset + count < walk.total
    THEN [walk EXCEPT !.pc = "calls", !.offset = @ + count]
    ELSE [walk EXCEPT !.pc = "ended"]

\* get_alerts_v2: the details of the ids, of all but those it does not return.
GetAlerts(missing) ==
    /\ walk.pc = "details" /\ missing \subseteq walk.ids
    /\ \E alerts \in SetToSeqs(walk.ids \ missing) :
          seen' = seen \o alerts /\ walk' = NextOffset(Len(alerts))
    /\ steady' = steady \ missing
    /\ disturbed' = IF missing = {} THEN disturbed ELSE disturbed \cup {"missing"}
    /\ UNCHANGED <<arrived, matched>>

\* Either request is refused or raises, or the time range is no good.
GetAlertsFails ==
    /\ walk.pc \in {"calls", "details"}
    /\ walk' = [walk EXCEPT !.pc = "failed"]
    /\ UNCHANGED <<arrived, matched, seen, steady, disturbed>>

WNext ==
    \/ AlertArrives \/ GetAlertsFails
    \/ \E stated \in BOOLEAN : QueryAlerts(stated)
    \/ \E a \in 1..MaxAlerts : AlertLeaves(a)
    \/ \E missing \in SUBSET (1..MaxAlerts) : GetAlerts(missing)

WalkSpec == WInit /\ [][WNext]_alertVars

-----------------------------------------------------------------------------
WTypeOK ==
    /\ matched \subseteq 1..arrived /\ arrived <= MaxAlerts
    /\ walk.pc \in {"calls", "details", "ended", "failed"} /\ walk.offset \in 0..MaxAlerts
    /\ walk.ids \subseteq 1..arrived /\ Range(seen) \subseteq 1..arrived
    /\ steady \subseteq matched

\* A caller who follows next_offset to its end has seen every alert that has
\* matched from its first call on, whatever arrives meanwhile and however many
\* details a page lacks, as long as none leaves the filter and every page
\* states its total; and when nothing at all happens it sees each once, the
\* newer before the older but on one page.
OffsetsLeadToAll ==
    walk.pc = "ended" =>
        /\ disturbed \cap {"departure", "unstated"} = {} => steady \subseteq Range(seen)
        /\ disturbed = {} =>
              /\ Range(seen) = matched /\ IsInjective(seen)
              /\ \A i, j \in DOMAIN seen : i + walk.max <= j => seen[j] < seen[i]
=============================================================================
