---------------------------- MODULE RiskTimeline ----------------------------
(***************************************************************************)
(* cloud_get_risk_timeline (modules/cloud_security.py): one request for the *)
(* history of an asset, which is filtered, merged into one list of rows,    *)
(* sorted and cut on this side.                                            *)
(*                                                                         *)
(* A time is a number.  A risk, a configuration change and an event of      *)
(* either are their places in the API's lists: a list is the function that  *)
(* takes the places in it to what is there, also when a filter has left     *)
(* some of them out.                                                       *)
(***************************************************************************)
EXTENDS Integers, Sequences, FiniteSets, Functions, Ranking

CONSTANTS
    MaxTime,        \* bound of the model: times are 1 .. MaxTime
    MaxRisks,       \* bound of the model: risks of the asset
    MaxChanges,     \* bound of the model: configuration changes of the asset
    MaxEvents,      \* bound of the model: events of one risk or change
    MaxRows         \* bound of the model: how far from 0 max_results is

ASSUME TimelineAssumption ==
    /\ {MaxTime, MaxRisks, MaxChanges, MaxEvents} \subseteq Nat
    /\ MaxRows \in Nat \ {0}

VARIABLES
    asset,      \* the asset's history, as the API holds it
    asked,      \* the parameters risk_id, since and max_results
    timeline    \* where the call is, and the result it has built

timelineVars == <<asset, asked, timeline>>

Time == 1..MaxTime
Times == UNION {[1..n -> Time] : n \in 0..MaxEvents}

\* A parameter left out.
All == 0
NoTimeline == [pc |-> "asked", risks |-> <<>>, changes |-> <<>>, rows |-> <<>>]

\* The times of the events of the asset's risks and changes, and when each
\* risk was last seen, which is not read of a risk with events.
TInit ==
    /\ \E n \in 0..MaxRisks, k \in 0..MaxChanges :
          \E events \in [1..n -> Times], seen \in [1..n -> Time], triggers \in [1..k -> Times] :
             /\ \A i \in 1..n : events[i] # <<>> => seen[i] = 1
             /\ asset = [risks |-> events, seen |-> seen, changes |-> triggers]
    /\ asked \in [risk : {All, 1}, since : {All} \cup Time, rows : -MaxRows..MaxRows]
    /\ timeline = NoTimeline

-----------------------------------------------------------------------------
\* _apply_since_to_risks, _apply_since_to_changes: the older events are dropped,
\* and with them whatever has none left.
Since(items, since) ==
    LET Left(i) == {k \in DOMAIN items[i] : items[i][k] >= since}
    IN  [i \in {i \in DOMAIN items : Left(i) # {}} |-> Restrict(items[i], Left(i))]

\* The row of the nth event of a risk or a change.
Row(kind, source, nth, t) == [kind |-> kind, source |-> source, nth |-> nth, at |-> t]

\* A risk without events has one synthetic row, its current state.
RiskRows(i, events) ==
    IF DOMAIN events = {} THEN {Row("current_state", i, 0, asset.seen[i])}
    ELSE {Row("risk", i, k, events[k]) : k \in DOMAIN events}

ChangeRows(i, events) == {Row("change", i, k, events[k]) : k \in DOMAIN events}

Rows(risks, changes) ==
    (UNION {RiskRows(i, risks[i]) : i \in DOMAIN risks})
        \cup (UNION {ChangeRows(i, changes[i]) : i \in DOMAIN changes})

\* The sort key: newer first, and of the same time risks above changes.
Above(r, s) == r.at > s.at \/ (r.at = s.at /\ r.kind # "change" /\ s.kind = "change")

\* The order in which the rows are made: the risks' before the changes'.
MadeBefore(r, s) ==
    \/ r.kind # "change" /\ s.kind = "change"
    \/ /\ r.kind = "change" <=> s.kind = "change"
       /\ r.source < s.source \/ (r.source = s.source /\ r.nth < s.nth)

\* Mutant of Sorted: the oldest first.
SortedOldestFirst(rows) ==
    Ranked(rows, [r \in rows |->
                    {s \in rows : Above(r, s) \/ (~Above(s, r) /\ MadeBefore(s, r))}])

\* The sort is stable.
Sorted(rows) ==
    Ranked(rows, [r \in rows |->
                    {s \in rows : Above(s, r) \/ (~Above(r, s) /\ MadeBefore(s, r))}])

\* _build_merged_timeline.
MergedTimeline(risks, changes, max) == Cut(Sorted(Rows(risks, changes)), max)

-----------------------------------------------------------------------------
OfRisk(risks) == IF asked.risk = All THEN risks ELSE Restrict(risks, DOMAIN risks \cap {asked.risk})

SinceAsked(items) == IF asked.since = All THEN items ELSE Since(items, asked.since)

\* The request is refused or raises, or nothing is known of the asset.
TimelineFails ==
    /\ timeline.pc = "asked"
    /\ timeline' \in {[timeline EXCEPT !.pc = "failed"], [timeline EXCEPT !.pc = "unknown"]}
    /\ UNCHANGED <<asset, asked>>

GetRiskTimeline ==
    /\ timeline.pc = "asked"
    /\ LET risks == SinceAsked(OfRisk(asset.risks))
           changes == SinceAsked(asset.changes)
       IN  timeline' = [pc |-> "answered", risks |-> risks, changes |-> changes,
                        rows |-> MergedTimeline(risks, changes, asked.rows)]
    /\ UNCHANGED <<asset, asked>>

TNext == TimelineFails \/ GetRiskTimeline

TimelineSpec == TInit /\ [][TNext]_timelineVars

-----------------------------------------------------------------------------
TTypeOK ==
    /\ Range(asset.risks) \cup Range(asset.changes) \subseteq Times /\ Range(asset.seen) \subseteq Time
    /\ timeline.pc \in {"asked", "failed", "unknown", "answered"}
    /\ \A row \in Range(timeline.rows) : row.at \in Time

\* The timeline is the newest part of the history asked for: in descending
\* order, risks above the changes that triggered them; every row one of the
\* history's, and none twice; as many as max_results lets be; and whatever was cut off
\* is not above what was kept.
TimelineIsNewestPart ==
    LET rows == timeline.rows
        history == {r \in Rows(OfRisk(asset.risks), asset.changes) :
                       asked.since = All \/ (r.at >= asked.since /\ r.kind # "current_state")}
        all == Cardinality(history)
    IN  timeline.pc = "answered" =>
        /\ Range(rows) \subseteq history /\ IsInjective(rows)
        /\ asked.rows >= 0 => Len(rows) = IF all < asked.rows THEN all ELSE asked.rows
        /\ asked.rows < 0 => Len(rows) = IF all + asked.rows < 0 THEN 0 ELSE all + asked.rows
        /\ \A i, j \in DOMAIN rows : i < j => ~Above(rows[j], rows[i])
        /\ \A r \in history \ Range(rows) : \A i \in DOMAIN rows : ~Above(r, rows[i])

\* modules/cloud_security.py:427 says of since: "drop events/changes older than
\* this".  What the call reports with since differs from what it reports
\* without only by what is older.
SinceDropsOlderOnly ==
    timeline.pc = "answered" /\ asked.since # All =>
        LET risks == OfRisk(asset.risks)
        IN  \A i \in DOMAIN risks :
                (\E row \in RiskRows(i, risks[i]) : row.at >= asked.since) => i \in DOMAIN timeline.risks
=============================================================================
