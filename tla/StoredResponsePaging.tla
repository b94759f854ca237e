------------------------ MODULE StoredResponsePaging ------------------------
(***************************************************************************)
(* Paging through one stored response with get_stored_response             *)
(* (modules/response_store.py): the tool cuts a page that fits a size       *)
(* budget, prints where the next one starts, and the caller asks again from *)
(* there until it is told the results have ended.                          *)
(*                                                                         *)
(* A record is its number; Size is the serialized size of its projection    *)
(* and Null says whether every requested field of it is null.              *)
(***************************************************************************)
EXTENDS Naturals, Sequences, FiniteSets, SequencesExt

CONSTANTS
    MaxRecords,     \* bound of the model: records in the response
    MaxSize,        \* bound of the model: the largest record
    MaxPage,        \* bound of the model: the largest max_results asked for
    Budget          \* _PAGE_BYTE_BUDGET less the enclosing brackets

ASSUME PagingAssumption ==
    /\ MaxRecords \in Nat /\ MaxSize \in Nat \ {0}
    /\ MaxPage \in Nat \ {0} /\ Budget \in Nat

VARIABLES
    size,       \* size[i]: the serialized size of record i
    null,       \* null[i]: record i projects to nothing but nulls
    mode,       \* "fields" (a projection), or "search" (also "*": no warning)
    start,      \* the offset the caller began with
    offset,     \* where the caller will ask for the next page
    delivered,  \* the records the caller has been given, in order
    status      \* "paging", then what the last answer told the caller

pagingVars == <<size, null, mode, start, offset, delivered, status>>

Total == Len(size)

\* The serialized size of the records i to j.
SizeOf(i, j) == FoldSeq(+, 0, SubSeq(size, i, j))

Least(a, b) == IF a < b THEN a ELSE b

\* The records the offset and max_results select, before the size budget.
Window(max) == offset + 1..Least(offset + max, Total)

\* _fit_page: n records are taken when each one after the first still fitted
\* and the one after them, if any, does not.
IsPage(n, max) ==
    /\ n \in 0..Cardinality(Window(max))
    /\ n = 0 => Window(max) = {}
    /\ \A k \in 2..n : SizeOf(offset + 1, offset + k) <= Budget
    /\ n < Cardinality(Window(max)) => SizeOf(offset + 1, offset + n + 1) > Budget

PInit ==
    /\ \E n \in 0..MaxRecords :
          /\ size \in [1..n -> 1..MaxSize]
          /\ null \in [1..n -> BOOLEAN]
    /\ mode \in {"fields", "search"}
    /\ start \in 0..MaxRecords + 1
    /\ offset = start
    /\ delivered = <<>>
    /\ status = "paging"

\* Mutant of Give: the offset is taken for the number of the first record.
GiveFromOffset(n) == delivered' = delivered \o [i \in 1..n |-> offset + i - 1]

Give(n) == delivered' = delivered \o [i \in 1..n |-> offset + i]

\* _emit_page past the end: a notice and no records.
PastEnd ==
    /\ status = "paging"
    /\ offset >= Total /\ Total > 0
    /\ status' = "end"
    /\ UNCHANGED <<size, null, mode, start, offset, delivered>>

\* The all-null warning: the whole window as it is, and no offset to go on.
NullWarning(max) ==
    /\ status = "paging"
    /\ mode = "fields"
    /\ Window(max) # {}
    /\ \A i \in Window(max) : null[i]
    /\ Give(Cardinality(Window(max)))
    /\ status' = "warned"
    /\ UNCHANGED <<size, null, mode, start, offset>>

\* Mutant of Page: the next offset is max_results on, whatever the page holds.
PageByMaxResults(max, n) ==
    /\ status = "paging"
    /\ offset < Total \/ Total = 0
    /\ mode = "fields" => Window(max) = {} \/ \E i \in Window(max) : ~null[i]
    /\ IsPage(n, max)
    /\ Give(n)
    /\ offset' = Least(offset + max, Total)
    /\ status' = IF offset' < Total THEN "paging" ELSE "end"
    /\ UNCHANGED <<size, null, mode, start>>

\* Mutant of Page: a page shorter than max_results is taken for the last.
PageShortIsLast(max, n) ==
    /\ status = "paging"
    /\ offset < Total \/ Total = 0
    /\ mode = "fields" => Window(max) = {} \/ \E i \in Window(max) : ~null[i]
    /\ IsPage(n, max)
    /\ Give(n)
    /\ offset' = offset + n
    /\ status' = IF n < max THEN "end" ELSE "paging"
    /\ UNCHANGED <<size, null, mode, start>>

\* _emit_page: a page, and a notice that says where the next one starts or
\* that this was the last.
Page(max, n) ==
    /\ status = "paging"
    /\ offset < Total \/ Total = 0
    /\ mode = "fields" => Window(max) = {} \/ \E i \in Window(max) : ~null[i]
    /\ IsPage(n, max)
    /\ Give(n)
    /\ offset' = offset + n
    /\ status' = IF offset + n < Total THEN "paging" ELSE "end"
    /\ UNCHANGED <<size, null, mode, start>>

\* One call of the tool, with any positive max_results.
Ask ==
    \E max \in 1..MaxPage :
        \/ NullWarning(max)
        \/ \E n \in 0..MaxRecords : Page(max, n)

PNext == Ask \/ PastEnd

PagingSpec == PInit /\ [][PNext]_pagingVars

\* The caller that follows the notices keeps asking.
FairPagingSpec == PagingSpec /\ WF_pagingVars(PNext)

-----------------------------------------------------------------------------
PTypeOK ==
    /\ size \in Seq(1..MaxSize) /\ Len(size) <= MaxRecords
    /\ null \in Seq(BOOLEAN) /\ Len(null) = Len(size)
    /\ mode \in {"fields", "search"}
    /\ start \in 0..MaxRecords + 1 /\ offset \in start..MaxRecords + 1
    /\ delivered \in Seq(1..MaxRecords)
    /\ status \in {"paging", "end", "warned"}

\* However the page sizes vary from call to call, following the next offset
\* gives every record from the first one asked for, once and in order: none is
\* skipped, none repeated.
InOrderOnce ==
    /\ \A i \in DOMAIN delivered : delivered[i] = start + i
    /\ status # "warned" => Len(delivered) = offset - start

\* "end of results" is said only when there is nothing left to give.
EndMeansAll == status = "end" /\ start <= Total => start + Len(delivered) = Total

\* Paging comes to an end: every page makes progress.
PagingEnds == <>(status # "paging")

\* modules/response_store.py:154 promises "Nothing is silently dropped": a
\* caller who has been told all there is to be told has every record.
NothingDropped ==
    status # "paging" /\ start <= Total => start + Len(delivered) = Total
=============================================================================
