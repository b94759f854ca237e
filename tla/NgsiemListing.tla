---------------------------- MODULE NgsiemListing ----------------------------
(***************************************************************************)
(* The NGSIEM content tools (modules/ngsiem.py): ngsiem_list_saved_queries, *)
(* _lookup_files, _dashboards, _parsers, _data_connections,                 *)
(* _data_connectors and _connector_configs, which are one request each and   *)
(* share _call_and_unwrap and _format_list, and a caller who follows their   *)
(* hint to the next offset.                                                 *)
(*                                                                         *)
(* A record is its place in the API's list, which does not change meanwhile; *)
(* a size is a number of characters.                                        *)
(***************************************************************************)
EXTENDS Naturals, Sequences, FiniteSets, SequencesExt

CONSTANTS
    MaxListed,      \* bound of the model: records there can be
    ListingCap,     \* the largest limit (1000)
    Rendered,       \* records a listing shows (50)
    CompactSize,    \* of a record's compact projection
    FullSize,       \* of a whole record
    LargeSize       \* LARGE_RESPONSE_THRESHOLD

ASSUME NgsiemListingAssumption ==
    /\ {ListingCap, Rendered, CompactSize, FullSize, LargeSize} \subseteq Nat \ {0}
    /\ MaxListed \in Nat

VARIABLES
    there,      \* how many records match the filter
    browse,     \* the caller: the tool, its parameters and what is to come
    listed,     \* the records the answers have been about, in order
    shown,      \* those rendered
    kept        \* those a stored response gives back

listingVars == <<there, browse, listed, shown, kept>>

\* The tools: whether one takes an offset, and the values its detail can have.
Paged == [offset |-> TRUE, detail |-> BOOLEAN]
OnePage == [offset |-> FALSE, detail |-> BOOLEAN]

ngsiem_list_saved_queries == Paged
ngsiem_list_lookup_files == Paged
ngsiem_list_dashboards == Paged
ngsiem_list_parsers == Paged
ngsiem_list_data_connections == OnePage
ngsiem_list_data_connectors == [OnePage EXCEPT !.detail = {TRUE}]
ngsiem_list_connector_configs == OnePage

ListTool == {ngsiem_list_saved_queries, ngsiem_list_lookup_files, ngsiem_list_dashboards,
    ngsiem_list_parsers, ngsiem_list_data_connections, ngsiem_list_data_connectors,
    ngsiem_list_connector_configs}

\* The limit is clamped; that of the data connectors is the API's own.
BInit ==
    /\ there \in 0..MaxListed
    /\ \E tool \in ListTool, limit \in 1..ListingCap, stated \in BOOLEAN :
          \E detail \in tool.detail :
             browse = [pc |-> "asks", tool |-> tool, limit |-> limit, detail |-> detail,
                       stated |-> stated, offset |-> 0]
    /\ listed = <<>> /\ shown = {} /\ kept = {}

Smaller(a, b) == IF a < b THEN a ELSE b

\* The records of the page at the caller's offset.
PageSize == Smaller(browse.limit, there - browse.offset)

RecordSize == IF browse.detail THEN FullSize ELSE CompactSize

\* format_text_response stores a response whose text or data is large.
IsStored(n) == Smaller(n, Rendered) * RecordSize > LargeSize \/ n * RecordSize > LargeSize

\* The records of a text cut to size: the first ones, and none if they do not fit.
Fitting(n) ==
    IF Smaller(n, Rendered) * RecordSize > LargeSize THEN LargeSize \div RecordSize
    ELSE Smaller(n, Rendered)

\* The hint is given when the total is stated and there is more.
Hint(n) == browse.stated /\ browse.offset + n < there

\* _call_and_unwrap: refused, or raised.
ListCallFails ==
    /\ browse.pc = "asks"
    /\ browse' = [browse EXCEPT !.pc = "failed"]
    /\ UNCHANGED <<there, listed, shown, kept>>

\* Mutant of FollowHint: the next offset is limit on, without regard to where
\* this page began.
FollowHintByLimit(n) ==
    browse' = [browse EXCEPT !.pc = IF Hint(n) THEN "asks" ELSE "ended", !.offset = browse.limit]

\* The caller asks again from the offset in the hint, if the tool takes one.
FollowHint(n) ==
    LET goes == IF ~Hint(n) THEN "ended"
                ELSE IF browse.tool.offset THEN "asks" ELSE "cannot go on"
    IN  browse' = [browse EXCEPT !.pc = goes, !.offset = IF goes = "asks" THEN @ + n ELSE @]

\* _format_list.
ListPage ==
    LET n == PageSize
        records == browse.offset + 1..browse.offset + n
    IN  /\ browse.pc = "asks"
        /\ listed' = listed \o [i \in 1..n |-> browse.offset + i]
        /\ shown' = shown \cup {i \in records : i <= browse.offset + Fitting(n)}
        /\ kept' = kept \cup IF IsStored(n) THEN records ELSE {}
        /\ FollowHint(n)
        /\ UNCHANGED there

BNext == ListCallFails \/ ListPage

BrowseSpec == BInit /\ [][BNext]_listingVars

-----------------------------------------------------------------------------
BTypeOK ==
    /\ there \in 0..MaxListed
    /\ browse.pc \in {"asks", "failed", "ended", "cannot go on"} /\ browse.offset \in 0..there
    /\ Range(listed) \subseteq 1..there /\ shown \subseteq 1..there /\ kept \subseteq 1..there

\* The place of record i in the page that listed it, from 0.
PlaceInPage(i) == (i - 1) % browse.limit

\* Following the hints from page to page asks for each record once and in
\* order, as many as there are if the API states it; and a record that its page
\* lists is shown, or is in what get_stored_response reads back.  Only one
\* beyond the rendered part of a page too small to be stored is neither.
HintsLeadThrough ==
    /\ \A i \in DOMAIN listed : listed[i] = i
    /\ browse.pc = "ended" /\ browse.stated => Len(listed) = there
    /\ \A i \in Range(listed) : i \in shown \cup kept \/ PlaceInPage(i) >= Rendered
=============================================================================
