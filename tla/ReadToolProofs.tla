--------------------------- MODULE ReadToolProofs ---------------------------
(***************************************************************************)
(* The tools of MCReadTools and their composition (three of them are in     *)
(* ListingProofs): a search cleans up after itself for                     *)
(* any timeout and interval, paging is in order and complete for any        *)
(* response, budget and page sizes, the report of an investigation is whole *)
(* for any directory, parameters and first, the hints of a listing lead     *)
(* through all of it for any limits and sizes, and a plain query is honest   *)
(* about failures and totals and says where the rest of a cut answer can be *)
(* read, whatever matches.                                                 *)
(***************************************************************************)
EXTENDS MCReadTools, ListingProofs, FiniteSetTheorems, SequenceTheorems, TLAPS

-----------------------------------------------------------------------------
(* A search.                                                               *)

\* What a call has learnt and asked at each place of _execute_query.
SearchInv ==
    /\ job \in [Job -> JobState] /\ known \subseteq Job /\ stopAsked \subseteq Job
    /\ pc # "returned" => verdict = "none"
    /\ pc \in {"start", "diagnose"} => known = {} /\ stopAsked = {}
    /\ pc = "stop_raced" => known = {"raced"} /\ stopAsked = {}
    /\ pc \in {"loop", "poll", "sleep"} => known = {"search"} /\ stopAsked = {}
    /\ pc \in {"stop_timeout", "stop_exception"} => known = {"search"}
    /\ GivenUpIsStopped

LEMMA InitSearchInv == SInit => SearchInv
BY DEF SInit, SearchInv, GivenUpIsStopped, Returned, Job, JobState

LEMMA StartSearchInv ==
    ASSUME SearchInv,
           InvalidTime \/ StartOK \/ StartRejected \/ StartFails
    PROVE  SearchInv'
BY DEF InvalidTime, StartOK, StartRejected, StartFails, Return,
       SearchInv, GivenUpIsStopped, Returned, Job, JobState

LEMMA DiagnoseSearchInv ==
    ASSUME SearchInv, DiagnoseText \/ DiagnoseLost \/ DiagnoseRaced
    PROVE  SearchInv'
BY DEF DiagnoseText, DiagnoseLost, DiagnoseRaced, Return,
       SearchInv, GivenUpIsStopped, Returned, Job, JobState

\* A job that a call stops is asked to, whether or not it stops.
LEMMA StopSearchInv ==
    ASSUME SearchInv, StopRaced \/ StopTimeout \/ StopException
    PROVE  SearchInv'
BY DEF StopRaced, StopTimeout, StopException, StopSearch, Return,
       SearchInv, GivenUpIsStopped, Returned, Job, JobState

LEMMA PollSearchInv ==
    ASSUME SearchInv,
           LoopPolls \/ LoopTimesOut \/ PollAnswered \/ PollRefused \/ PollRaises \/ Wake
    PROVE  SearchInv'
BY DEF LoopPolls, LoopTimesOut, PollAnswered, PollRefused, PollRaises, Wake, Return,
       SearchInv, GivenUpIsStopped, Returned, Job, JobState

LEMMA NextSearchInv == SearchInv /\ [SNext]_searchVars => SearchInv'
<1> SUFFICES ASSUME SearchInv, [SNext]_searchVars PROVE SearchInv'
  OBVIOUS
<1>1. CASE SearchStep
  BY <1>1, StartSearchInv, DiagnoseSearchInv, StopSearchInv, PollSearchInv DEF SearchStep
<1>2. ASSUME NEW j \in Job, JobEnds(j) PROVE SearchInv'
  BY <1>2 DEF JobEnds, SearchInv, GivenUpIsStopped, Returned, Job, JobState
<1>3. CASE Tick
  BY <1>3 DEF Tick, SearchInv, GivenUpIsStopped, Returned
<1>4. CASE UNCHANGED searchVars
  BY <1>4 DEF searchVars, SearchInv, GivenUpIsStopped, Returned
<1> QED BY <1>1, <1>2, <1>3, <1>4 DEF SNext

\* A search that timed out or raised was asked to stop, and so was the job the
\* raw POST raced into being (_execute_query, _raw_start_search_error).
THEOREM SearchesCleanUp == SearchSpec => []GivenUpIsStopped
<1>1. SearchInv => GivenUpIsStopped
  BY DEF SearchInv
<1> QED BY <1>1, InitSearchInv, NextSearchInv, PTL DEF SearchSpec

LEMMA InitSTypeOK == SInit => STypeOK
BY SearchAssumption DEF SInit, STypeOK, Job, JobState, Verdict

LEMMA NextSTypeOK == STypeOK /\ [SNext]_searchVars => STypeOK'
<1> SUFFICES ASSUME STypeOK, [SNext]_searchVars PROVE STypeOK'
  OBVIOUS
<1>1. CASE SearchStep
  <2>1. PollInterval \in 0..PollInterval
    BY SearchAssumption
  <2>2. CASE InvalidTime \/ StartOK \/ StartRejected \/ StartFails
    BY <2>2 DEF InvalidTime, StartOK, StartRejected, StartFails, Return,
                STypeOK, Job, JobState, Verdict
  <2>3. CASE DiagnoseText \/ DiagnoseLost \/ DiagnoseRaced
    BY <2>3 DEF DiagnoseText, DiagnoseLost, DiagnoseRaced, Return,
                STypeOK, Job, JobState, Verdict
  <2>4. CASE StopRaced \/ StopTimeout \/ StopException
    BY <2>4 DEF StopRaced, StopTimeout, StopException, StopSearch, Return,
                STypeOK, Job, JobState, Verdict
  <2>5. CASE LoopPolls \/ LoopTimesOut \/ PollAnswered \/ PollRefused \/ PollRaises \/ Wake
    BY <2>1, <2>5 DEF LoopPolls, LoopTimesOut, PollAnswered, PollRefused, PollRaises, Wake,
                Return, STypeOK, Verdict
  <2> QED BY <1>1, <2>2, <2>3, <2>4, <2>5 DEF SearchStep
<1>2. ASSUME NEW j \in Job, JobEnds(j) PROVE STypeOK'
  BY <1>2 DEF JobEnds, STypeOK, Job, JobState
<1>3. CASE Tick
  <2>1. clock' \in 0..Timeout /\ nap' \in 0..PollInterval
    BY <1>3, SearchAssumption DEF Tick, STypeOK
  <2> QED BY <1>3, <2>1 DEF Tick, STypeOK
<1>4. CASE UNCHANGED searchVars
  BY <1>4 DEF searchVars, STypeOK
<1> QED BY <1>1, <1>2, <1>3, <1>4 DEF SNext

\* A search (_execute_query) and the jobs it has at LogScale keep their types.
THEOREM SearchTypeOK == SearchSpec => []STypeOK
BY InitSTypeOK, NextSTypeOK, PTL DEF SearchSpec

-----------------------------------------------------------------------------
(* Paging through a stored response.                                       *)

\* The offset follows the records given, and stays within the response unless
\* the caller began beyond it.
PagingInv ==
    /\ PTypeOK /\ InOrderOnce /\ EndMeansAll
    /\ offset <= Total \/ offset = start

LEMMA WindowSize ==
    ASSUME NEW max \in Nat \ {0}, offset \in Nat, Total \in Nat
    PROVE  /\ Cardinality(Window(max)) \in Nat
           /\ Cardinality(Window(max)) > 0 => offset + Cardinality(Window(max)) <= Total
           /\ Window(max) = {} => offset >= Total
<1> DEFINE last == Least(offset + max, Total)
<1>1. last \in Nat /\ last <= Total /\ (last <= offset => offset >= Total)
  BY DEF Least
<1>2. Window(max) = offset + 1..last
  BY DEF Window
<1> HIDE DEF last
<1>3. Cardinality(Window(max)) = IF offset + 1 > last THEN 0 ELSE last - (offset + 1) + 1
  BY <1>1, <1>2, FS_Interval
<1>4. Window(max) = {} => offset + 1 > last
  BY <1>1, <1>2
<1> QED BY <1>1, <1>3, <1>4

\* Records given after those before them continue the count.
LEMMA GiveContinues ==
    ASSUME PagingInv, status = "paging", NEW n \in Nat, n > 0 => offset + n <= Total, Give(n)
    PROVE  /\ delivered' \in Seq(1..MaxRecords)
           /\ Len(delivered') = offset + n - start
           /\ \A i \in DOMAIN delivered' : delivered'[i] = start + i
<1> DEFINE given == [i \in 1..n |-> offset + i]
<1>1. /\ delivered \in Seq(1..MaxRecords) /\ Len(delivered) = offset - start
      /\ offset \in Nat /\ start \in Nat /\ Total \in Nat /\ Total <= MaxRecords
      /\ \A i \in 1..Len(delivered) : delivered[i] = start + i
  BY PagingAssumption DEF PagingInv, PTypeOK, InOrderOnce, Total
<1>2. given \in Seq(1..MaxRecords) /\ Len(given) = n
  BY <1>1, PagingAssumption
<1>3. delivered' = delivered \o given
  BY DEF Give
<1>4. \A i \in 1..n : given[i] = offset + i
  OBVIOUS
<1> HIDE DEF given
<1>5. /\ delivered' \in Seq(1..MaxRecords) /\ Len(delivered') = Len(delivered) + n
      /\ \A i \in 1..Len(delivered) + n :
            delivered'[i] = IF i <= Len(delivered) THEN delivered[i] ELSE given[i - Len(delivered)]
  BY <1>1, <1>2, <1>3, ConcatProperties
<1>6. ASSUME NEW i \in 1..Len(delivered') PROVE delivered'[i] = start + i
  <2>1. Len(delivered) \in Nat
    BY <1>1
  <2>2. CASE i <= Len(delivered)
    BY <2>1, <2>2, <1>1, <1>5
  <2>3. CASE i > Len(delivered)
    <3>1. i - Len(delivered) \in 1..n /\ delivered'[i] = given[i - Len(delivered)]
      BY <2>1, <2>3, <1>5
    <3> QED BY <2>1, <3>1, <1>1, <1>4
  <2> QED BY <2>1, <2>2, <2>3, <1>5
<1>7. DOMAIN delivered' = 1..Len(delivered')
  BY <1>5
<1>8. Len(delivered') = offset + n - start
  BY <1>1, <1>5
<1> QED BY <1>5, <1>6, <1>7, <1>8

LEMMA InitPagingInv == PInit => PagingInv
<1> SUFFICES ASSUME PInit PROVE PagingInv
  OBVIOUS
<1>1. PICK n \in 0..MaxRecords : size \in [1..n -> 1..MaxSize] /\ null \in [1..n -> BOOLEAN]
  BY DEF PInit
<1>2. size \in Seq(1..MaxSize) /\ Len(size) = n /\ null \in Seq(BOOLEAN) /\ Len(null) = n
  BY <1>1, PagingAssumption
<1> QED BY <1>1, <1>2, PagingAssumption
       DEF PInit, PagingInv, PTypeOK, InOrderOnce, EndMeansAll, Total

LEMMA PagePagingInv ==
    ASSUME PagingInv, NEW max \in 1..MaxPage, NEW n \in 0..MaxRecords, Page(max, n)
    PROVE  PagingInv'
<1>1. /\ status = "paging" /\ (offset < Total \/ Total = 0) /\ IsPage(n, max) /\ Give(n)
      /\ offset' = offset + n /\ status' = IF offset + n < Total THEN "paging" ELSE "end"
      /\ UNCHANGED <<size, null, mode, start>>
  BY DEF Page
<1>2. /\ offset \in Nat /\ start \in Nat /\ start <= offset /\ offset <= MaxRecords + 1
      /\ Total \in Nat /\ Total <= MaxRecords /\ max \in Nat \ {0} /\ n \in Nat
      /\ MaxRecords \in Nat
  BY PagingAssumption DEF PagingInv, PTypeOK, Total
<1>3. n > 0 => offset + n <= Total
  BY <1>1, <1>2, WindowSize DEF IsPage
<1>4. /\ delivered' \in Seq(1..MaxRecords) /\ Len(delivered') = offset + n - start
      /\ \A i \in DOMAIN delivered' : delivered'[i] = start + i
  BY <1>1, <1>2, <1>3, GiveContinues
<1>5. Total' = Total
  BY <1>1 DEF Total
<1>6. PTypeOK'
  BY <1>1, <1>2, <1>3, <1>4 DEF PagingInv, PTypeOK
<1>7. InOrderOnce' /\ (offset <= Total \/ offset = start)'
  BY <1>1, <1>2, <1>3, <1>4, <1>5 DEF InOrderOnce, PagingInv
<1>8. EndMeansAll'
  BY <1>1, <1>2, <1>3, <1>4, <1>5 DEF EndMeansAll, PagingInv
<1> QED BY <1>6, <1>7, <1>8 DEF PagingInv

LEMMA NullWarningPagingInv ==
    ASSUME PagingInv, NEW max \in 1..MaxPage, NullWarning(max)
    PROVE  PagingInv'
<1> DEFINE n == Cardinality(Window(max))
<1>1. /\ status = "paging" /\ status' = "warned" /\ Give(n)
      /\ UNCHANGED <<size, null, mode, start, offset>>
  BY DEF NullWarning
<1>2. offset \in Nat /\ Total \in Nat /\ max \in Nat \ {0}
  BY PagingAssumption DEF PagingInv, PTypeOK, Total
<1>3. n \in Nat /\ (n > 0 => offset + n <= Total)
  BY <1>2, WindowSize
<1>4. /\ delivered' \in Seq(1..MaxRecords)
      /\ \A i \in DOMAIN delivered' : delivered'[i] = start + i
  BY <1>1, <1>3, GiveContinues
<1> QED BY <1>1, <1>4 DEF PagingInv, PTypeOK, InOrderOnce, EndMeansAll, Total

LEMMA NextPagingInv == PagingInv /\ [PNext]_pagingVars => PagingInv'
<1> SUFFICES ASSUME PagingInv, [PNext]_pagingVars PROVE PagingInv'
  OBVIOUS
<1>1. CASE Ask
  BY <1>1, PagePagingInv, NullWarningPagingInv DEF Ask
<1>2. CASE PastEnd
  <2>1. /\ status = "paging" /\ status' = "end" /\ offset >= Total
        /\ UNCHANGED <<size, null, mode, start, offset, delivered>>
    BY <1>2 DEF PastEnd
  <2>2. offset \in Nat /\ start \in Nat /\ Total \in Nat /\ Total' = Total
    BY <2>1, PagingAssumption DEF PagingInv, PTypeOK, Total
  <2> QED BY <2>1, <2>2 DEF PagingInv, PTypeOK, InOrderOnce, EndMeansAll
<1>3. CASE UNCHANGED pagingVars
  BY <1>3 DEF pagingVars, PagingInv, PTypeOK, InOrderOnce, EndMeansAll, Total
<1> QED BY <1>1, <1>2, <1>3 DEF PNext

\* Following the next offsets gives every record from the first one asked for,
\* once and in order, however the pages are cut (_fit_page, _emit_page).
THEOREM PagesInOrder == PagingSpec => []InOrderOnce
<1>1. PagingInv => InOrderOnce
  BY DEF PagingInv
<1> QED BY <1>1, InitPagingInv, NextPagingInv, PTL DEF PagingSpec

\* "end of results" is said only when there is nothing left (_emit_page).
THEOREM PagesToTheEnd == PagingSpec => []EndMeansAll
<1>1. PagingInv => EndMeansAll
  BY DEF PagingInv
<1> QED BY <1>1, InitPagingInv, NextPagingInv, PTL DEF PagingSpec

\* The paging of a stored response and its caller keep their types.
THEOREM PagingTypeOK == PagingSpec => []PTypeOK
<1>1. PagingInv => PTypeOK
  BY DEF PagingInv
<1> QED BY <1>1, InitPagingInv, NextPagingInv, PTL DEF PagingSpec
-----------------------------------------------------------------------------
(* An investigation.                                                       *)

\* The results of the investigations made are of everything they are about.
ResultsWhole == \A type \in DOMAIN found \cap EachType : found[type] = inquiry.resolved

\* The types of the first n investigations asked for.
TypesUpTo(n) == {inquiry.types[j] : j \in 1..n}

InquiryState ==
    [pc : {"idle", "invalid", "resolve", "failed", "none found", "investigate", "reported"},
     direct : SUBSET Entity, query : {"none", "argument given twice", "query"},
     types : Seq(InvestigationType), limit : Nat,
     resolved : SUBSET Entity, step : Nat, left : SUBSET Entity, part : SUBSET Entity]

\* Until the investigations begin there are no results.
InquiryBegins ==
    inquiry.pc \in {"idle", "resolve"} =>
        /\ ~refused /\ inquiry.step = 1
        /\ DOMAIN found = {} /\ inquiry.part = {}
        /\ inquiry.pc = "resolve" => inquiry.types # <<>>

\* There are the results of the investigations before the present one, and the
\* present one has done what is not left of the entities.
InquiryProgress ==
    inquiry.pc = "investigate" =>
        /\ ~refused /\ inquiry.direct \subseteq inquiry.resolved
        /\ inquiry.step \in 1..Len(inquiry.types)
        /\ inquiry.left # {} /\ inquiry.part = inquiry.resolved \ inquiry.left
        /\ DOMAIN found = TypesUpTo(inquiry.step - 1) /\ ResultsWhole

InquiryReported ==
    inquiry.pc = "reported" =>
        /\ ~refused /\ inquiry.direct \subseteq inquiry.resolved
        /\ DOMAIN found = TypesUpTo(Len(inquiry.types)) /\ ResultsWhole

InquiryTyped ==
    /\ inquiry \in InquiryState /\ refused \in BOOLEAN
    /\ inquiry.left \subseteq inquiry.resolved /\ inquiry.part \subseteq inquiry.resolved
    /\ DOMAIN found \subseteq InvestigationType
    /\ \A type \in DOMAIN found : found[type] \subseteq inquiry.resolved

InquiryInv == InquiryTyped /\ InquiryBegins /\ InquiryProgress /\ InquiryReported

LEMMA TypesAreKnown ==
    ASSUME inquiry \in InquiryState
    PROVE  /\ inquiry.types \in Seq(InvestigationType) /\ Len(inquiry.types) \in Nat
           /\ \A j \in 1..Len(inquiry.types) : inquiry.types[j] \in InvestigationType
<1>1. inquiry.types \in Seq(InvestigationType)
  BY DEF InquiryState
<1> DEFINE types == inquiry.types
<1>2. types \in Seq(InvestigationType)
  BY <1>1
<1> HIDE DEF types
<1>3. Len(types) \in Nat /\ \A j \in 1..Len(types) : types[j] \in InvestigationType
  BY <1>2, LenProperties
<1> QED BY <1>1, <1>3 DEF types

LEMMA InitInquiryInv == NInit => InquiryInv
<1> SUFFICES ASSUME NInit PROVE InquiryInv
  OBVIOUS
<1>1. <<>> \in Seq(InvestigationType)
  BY EmptySeq
<1>2. inquiry \in InquiryState
  BY <1>1 DEF NInit, NIdle, InquiryState
<1>3. /\ inquiry.pc = "idle" /\ inquiry.step = 1 /\ refused = FALSE
      /\ inquiry.left = {} /\ inquiry.part = {} /\ DOMAIN found = {}
  BY DEF NInit, NIdle
<1> QED BY <1>2, <1>3 DEF InquiryInv, InquiryTyped, InquiryBegins, InquiryProgress, InquiryReported

LEMMA InvestigateEntityInv == ASSUME InquiryInv, InvestigateEntity PROVE InquiryInv'
<1>1. PICK direct \in SUBSET Entity, kinds \in SUBSET Identifier,
           types \in TypesAsked, limit \in 1..MaxLimit :
         inquiry' = [NIdle EXCEPT !.pc = IF direct = {} /\ kinds = {} THEN "invalid" ELSE "resolve",
                                  !.direct = direct, !.query = Arguments(kinds),
                                  !.types = types, !.limit = limit]
  BY DEF InvestigateEntity
<1>2. types \in Seq(InvestigationType) /\ types # <<>>
  <2>1. PICK m \in 0..MaxTypes : types \in [1..m -> InvestigationType]
    BY DEF TypesAsked, BoundedSeq, SeqOf
  <2> QED BY <2>1, SeqDef, InvestigationAssumption DEF TypesAsked
<1>3. Arguments(kinds) \in {"none", "argument given twice", "query"} /\ limit \in Nat
  BY InvestigationAssumption DEF Arguments
<1>4. inquiry' \in InquiryState
  BY <1>1, <1>2, <1>3 DEF NIdle, InquiryState
<1>5. /\ UNCHANGED <<found, refused>> /\ inquiry'.pc \in {"invalid", "resolve"}
      /\ inquiry'.step = 1 /\ inquiry'.types = types
      /\ inquiry'.left = {} /\ inquiry'.part = {}
  BY <1>1 DEF InvestigateEntity, NIdle
<1>6. ~refused /\ refused \in BOOLEAN /\ DOMAIN found = {}
  BY DEF InvestigateEntity, InquiryInv, InquiryTyped, InquiryBegins
<1> QED
  BY <1>2, <1>4, <1>5, <1>6
  DEF InquiryInv, InquiryTyped, InquiryBegins, InquiryProgress, InquiryReported

LEMMA InvalidParamsInv == ASSUME InquiryInv, InvalidParams PROVE InquiryInv'
BY DEF InvalidParams, InquiryInv, InquiryTyped, InquiryState, InquiryBegins, InquiryProgress,
       InquiryReported

LEMMA GraphqlCallFailsInv == ASSUME InquiryInv, GraphqlCallFails PROVE InquiryInv'
BY DEF GraphqlCallFails, InquiryInv, InquiryTyped, InquiryState, InquiryBegins, InquiryProgress,
       InquiryReported

LEMMA ResolveEntitiesInv ==
    ASSUME InquiryInv, NEW matches \in SUBSET Entity, ResolveEntities(matches)
    PROVE  InquiryInv'
<1> DEFINE resolved == inquiry.direct \cup matches
<1>1. /\ inquiry \in InquiryState /\ inquiry.pc = "resolve" /\ refused \in BOOLEAN
      /\ ~refused /\ inquiry.step = 1 /\ inquiry.types # <<>>
      /\ DOMAIN found = {} /\ inquiry.part = {}
  BY DEF ResolveEntities, InquiryInv, InquiryTyped, InquiryBegins
<1>2. /\ inquiry' = [inquiry EXCEPT !.resolved = resolved, !.left = resolved,
                          !.pc = IF resolved = {} THEN "none found" ELSE "investigate"]
      /\ UNCHANGED <<found, refused>>
  BY DEF ResolveEntities
<1>3. inquiry' \in InquiryState
  BY <1>1, <1>2 DEF InquiryState
<1>4. /\ inquiry'.pc \in {"none found", "investigate"}
      /\ inquiry'.pc = "investigate" => resolved # {}
      /\ inquiry'.direct = inquiry.direct /\ inquiry'.types = inquiry.types
      /\ inquiry'.step = 1 /\ inquiry'.resolved = resolved /\ inquiry'.left = resolved
      /\ inquiry'.part = {}
  BY <1>1, <1>2 DEF InquiryState
<1>5. 1 \in 1..Len(inquiry.types)
  <2>1. Len(inquiry.types) # 0
    BY <1>1, TypesAreKnown, EmptySeq
  <2> QED BY <1>1, <2>1, TypesAreKnown
<1>6. TypesUpTo(1 - 1)' = {}
  BY DEF TypesUpTo
<1>7. InquiryProgress'
  BY <1>1, <1>2, <1>4, <1>5, <1>6 DEF InquiryProgress, ResultsWhole
<1> QED
  BY <1>1, <1>2, <1>3, <1>4, <1>7 DEF InquiryInv, InquiryTyped, InquiryBegins, InquiryReported

\* A result takes the place of the one of its type and of no other.
LEMMA ResultsProperties ==
    ASSUME NEW type, NEW nodes, found' = Results(type, nodes)
    PROVE  /\ DOMAIN found' = DOMAIN found \cup {type} /\ found'[type] = nodes
           /\ \A t \in DOMAIN found \ {type} : found'[t] = found[t]
BY DEF Results

\* Once the present investigation is done, the next one begins or the report is
\* made.
LEMMA NextTypeInv ==
    ASSUME InquiryInv, inquiry.pc = "investigate", inquiry' = NextType,
           UNCHANGED refused, NEW nodes \in SUBSET inquiry.resolved,
           found' = Results(Type, nodes),
           Type \in EachType => nodes = inquiry.resolved
    PROVE  InquiryInv'
<1>1. /\ inquiry \in InquiryState /\ ~refused /\ refused \in BOOLEAN
      /\ inquiry.direct \subseteq inquiry.resolved
      /\ inquiry.step \in 1..Len(inquiry.types)
      /\ inquiry.resolved # {}
      /\ DOMAIN found = TypesUpTo(inquiry.step - 1) /\ ResultsWhole
      /\ DOMAIN found \subseteq InvestigationType
      /\ \A type \in DOMAIN found : found[type] \subseteq inquiry.resolved
  BY DEF InquiryInv, InquiryTyped, InquiryProgress
<1>t. /\ Len(inquiry.types) \in Nat /\ inquiry.step \in Nat
      /\ \A j \in 1..Len(inquiry.types) : inquiry.types[j] \in InvestigationType
  BY <1>1, TypesAreKnown DEF InquiryState
<1>s. inquiry.step + 1 \in Nat
  BY <1>t
<1>2. /\ inquiry' \in InquiryState
      /\ inquiry'.pc = IF inquiry.step = Len(inquiry.types) THEN "reported" ELSE "investigate"
      /\ inquiry'.direct = inquiry.direct /\ inquiry'.types = inquiry.types
      /\ inquiry'.resolved = inquiry.resolved /\ inquiry'.left = inquiry.resolved
      /\ inquiry'.part = {} /\ inquiry'.step = inquiry.step + 1
  BY <1>1, <1>s DEF NextType, InquiryState
<1>3. Type \in InvestigationType /\ Type = inquiry.types[inquiry.step]
  BY <1>1, <1>t DEF Type
<1>4. /\ DOMAIN found' = DOMAIN found \cup {Type} /\ found'[Type] = nodes
      /\ \A type \in DOMAIN found \ {Type} : found'[type] = found[type]
  BY ResultsProperties
<1>5. DOMAIN found' = {inquiry.types[j] : j \in 1..inquiry.step}
  <2> DEFINE n == inquiry.step
             types == inquiry.types
             had == DOMAIN found
             has == DOMAIN found'
  <2>1. n \in Nat \ {0}
    BY <1>1, <1>t
  <2>2. had = {types[j] : j \in 1..n - 1} /\ has = had \cup {types[n]}
    BY <1>1, <1>3, <1>4 DEF TypesUpTo
  <2> HIDE DEF n, types, had, has
  <2>3. \A j \in 1..n : j \in 1..n - 1 \/ j = n
    BY <2>1
  <2>4. n \in 1..n /\ 1..n - 1 \subseteq 1..n
    BY <2>1
  <2>5. has = {types[j] : j \in 1..n}
    BY <2>2, <2>3, <2>4, Zenon
  <2> QED BY <2>5 DEF has, n, types
<1>6. ResultsWhole'
  BY <1>1, <1>2, <1>4 DEF ResultsWhole
<1>7. InquiryTyped'
  BY <1>1, <1>2, <1>3, <1>4 DEF InquiryTyped
<1>8. CASE inquiry.step = Len(inquiry.types)
  <2>1. InquiryReported'
    <3>1. DOMAIN found' = {inquiry'.types[j] : j \in 1..Len(inquiry'.types)}
      BY <1>2, <1>5, <1>8
    <3> QED BY <1>1, <1>2, <1>6, <3>1 DEF InquiryReported, TypesUpTo
  <2> QED BY <1>2, <1>7, <1>8, <2>1 DEF InquiryInv, InquiryBegins, InquiryProgress
<1>9. CASE inquiry.step # Len(inquiry.types)
  <2>1. inquiry'.step \in 1..Len(inquiry.types) /\ inquiry'.step - 1 = inquiry.step
    BY <1>1, <1>2, <1>t, <1>9
  <2>2. InquiryProgress'
    <3>1. DOMAIN found' = {inquiry'.types[j] : j \in 1..inquiry'.step - 1}
      BY <1>2, <1>5, <2>1
    <3> QED BY <1>1, <1>2, <1>6, <2>1, <3>1 DEF InquiryProgress, TypesUpTo
  <2> QED BY <1>2, <1>7, <1>9, <2>2 DEF InquiryInv, InquiryBegins, InquiryReported
<1> QED BY <1>8, <1>9

LEMMA InvestigateAllInv ==
    ASSUME InquiryInv, NEW type \in BatchType, NEW nodes \in SUBSET Entity,
           InvestigateAll(type, nodes)
    PROVE  InquiryInv'
<1>1. /\ inquiry.pc = "investigate" /\ inquiry' = NextType /\ Type = type
      /\ UNCHANGED refused /\ nodes \in SUBSET inquiry.resolved
      /\ found' = Results(Type, nodes)
  BY DEF InvestigateAll
<1>2. Type \notin EachType
  BY <1>1 DEF BatchType, EachType
<1> QED BY <1>1, <1>2, NextTypeInv

LEMMA InvestigateEachInv ==
    ASSUME InquiryInv, NEW type \in EachType, NEW e \in Entity, InvestigateEach(type, e)
    PROVE  InquiryInv'
<1>1. /\ inquiry.pc = "investigate" /\ Type = type /\ UNCHANGED refused /\ e \in inquiry.left
  BY DEF InvestigateEach
<1>2. /\ InquiryTyped /\ inquiry \in InquiryState /\ inquiry.left \subseteq inquiry.resolved
      /\ inquiry.part = inquiry.resolved \ inquiry.left
  BY <1>1 DEF InquiryInv, InquiryTyped, InquiryProgress
<1>3. CASE inquiry.left = {e}
  <2>1. found' = Results(Type, inquiry.part \cup {e}) /\ inquiry' = NextType
    BY <1>1, <1>3 DEF InvestigateEach
  <2>2. inquiry.part \cup {e} = inquiry.resolved
    BY <1>2, <1>3
  <2> QED BY <1>1, <2>1, <2>2, NextTypeInv
<1>4. CASE inquiry.left # {e}
  <2>1. inquiry' = [inquiry EXCEPT !.left = @ \ {e}, !.part = @ \cup {e}] /\ found' = found
    BY <1>4 DEF InvestigateEach
  <2>2. /\ inquiry' \in InquiryState
        /\ inquiry'.left = inquiry.left \ {e} /\ inquiry'.part = inquiry.part \cup {e}
        /\ inquiry'.pc = "investigate" /\ inquiry'.direct = inquiry.direct
        /\ inquiry'.types = inquiry.types /\ inquiry'.step = inquiry.step
        /\ inquiry'.resolved = inquiry.resolved
    BY <1>1, <1>2, <2>1 DEF InquiryState
  <2>3. /\ inquiry'.left # {} /\ inquiry'.left \subseteq inquiry'.resolved
        /\ inquiry'.part \subseteq inquiry'.resolved
        /\ inquiry'.part = inquiry'.resolved \ inquiry'.left
    BY <1>1, <1>2, <1>4, <2>2
  <2>4. InquiryTyped'
    BY <1>1, <1>2, <2>1, <2>2, <2>3 DEF InquiryTyped
  <2>5. InquiryProgress'
    BY <1>1, <2>1, <2>2, <2>3 DEF InquiryInv, InquiryProgress, ResultsWhole, TypesUpTo
  <2> QED BY <2>2, <2>4, <2>5 DEF InquiryInv, InquiryBegins, InquiryReported
<1> QED BY <1>3, <1>4

LEMMA NextInquiryInv == InquiryInv /\ [NNext]_inquiryVars => InquiryInv'
<1> SUFFICES ASSUME InquiryInv, [NNext]_inquiryVars PROVE InquiryInv'
  OBVIOUS
<1>1. CASE InvestigateEntity
  BY <1>1, InvestigateEntityInv
<1>2. CASE InvalidParams
  BY <1>2, InvalidParamsInv
<1>3. CASE GraphqlCallFails
  BY <1>3, GraphqlCallFailsInv
<1>4. ASSUME NEW es \in SUBSET Entity, ResolveEntities(es) PROVE InquiryInv'
  BY <1>4, ResolveEntitiesInv
<1>5. ASSUME NEW es \in SUBSET Entity, GetEntityDetails(es) \/ AssessRisks(es)
      PROVE  InquiryInv'
  BY <1>5, InvestigateAllInv DEF GetEntityDetails, AssessRisks, BatchType
<1>6. ASSUME NEW e \in Entity, GetEntityTimelines(e) \/ AnalyzeRelationships(e)
      PROVE  InquiryInv'
  BY <1>6, InvestigateEachInv DEF GetEntityTimelines, AnalyzeRelationships, EachType
<1>7. CASE UNCHANGED inquiryVars
  BY <1>7 DEF inquiryVars, InquiryInv, InquiryTyped, InquiryBegins, InquiryProgress,
              InquiryReported, ResultsWhole, TypesUpTo
<1> QED BY <1>1, <1>2, <1>3, <1>4, <1>5, <1>6, <1>7 DEF NNext

\* A report (identity_investigate_entity, idp.py) has the result of every
\* investigation asked for and no failed request behind it, and its timelines and
\* relationships are of every entity it names, whatever the API gives of details
\* and risks: for any directory, parameters, number of investigations and first.
THEOREM InvestigationsReportWhole == InquirySpec => []ReportIsWhole
<1>1. ASSUME InquiryInv PROVE ReportIsWhole
  <2>1. DOMAIN inquiry.types = 1..Len(inquiry.types)
    BY <1>1, TypesAreKnown, LenProperties DEF InquiryInv, InquiryTyped
  <2>2. Range(inquiry.types) = TypesUpTo(Len(inquiry.types))
    BY <2>1 DEF Range, TypesUpTo
  <2> QED BY <1>1, <2>2 DEF InquiryInv, InquiryReported, ResultsWhole, ReportIsWhole
<1> QED BY <1>1, InitInquiryInv, NextInquiryInv, PTL DEF InquirySpec

\* An investigation of entities and what it has reported keep their types.
THEOREM InvestigationTypeOK == InquirySpec => []NTypeOK
<1>1. InquiryInv => NTypeOK
  BY DEF InquiryInv, InquiryTyped, InquiryState, NTypeOK
<1> QED BY <1>1, InitInquiryInv, NextInquiryInv, PTL DEF InquirySpec
-----------------------------------------------------------------------------
(* Browsing a listing.                                                     *)

Browse == [pc : {"asks", "failed", "ended", "cannot go on"}, tool : ListTool, limit : Nat \ {0},
           detail : BOOLEAN, stated : BOOLEAN, offset : Nat]

\* The pages so far are whole ones, so that the place of a record in its page
\* is what is left of it when those are taken off.
BrowseInv ==
    /\ there \in Nat /\ browse \in Browse /\ listed \in Seq(Nat)
    /\ browse.pc = "asks" => /\ Len(listed) = browse.offset /\ browse.offset <= there
                             /\ \E pages \in Nat : browse.offset = pages * browse.limit
    /\ \A i \in 1..Len(listed) : listed[i] = i
    /\ browse.pc = "ended" /\ browse.stated => Len(listed) = there
    /\ \A i \in 1..Len(listed) : i \in shown \cup kept \/ PlaceInPage(i) >= Rendered

LEMMA BrowseTypes ==
    /\ Rendered \in Nat \ {0} /\ ListingCap \in Nat \ {0}
    /\ browse \in Browse => browse.limit \in Nat /\ browse.limit > 0 /\ browse.offset \in Nat
<1>1. browse \in Browse => browse.limit \in Nat \ {0} /\ browse.offset \in Nat
  BY DEF Browse
<1>2. Rendered \in Nat \ {0} /\ ListingCap \in Nat \ {0}
  BY NgsiemListingAssumption
<1> QED BY <1>1, <1>2

LEMMA InitBrowseInv == BInit => BrowseInv
<1> SUFFICES ASSUME BInit PROVE BrowseInv
  OBVIOUS
<1>1. PICK tool \in ListTool, limit \in 1..ListingCap, stated \in BOOLEAN :
         \E detail \in tool.detail :
            browse = [pc |-> "asks", tool |-> tool, limit |-> limit, detail |-> detail,
                      stated |-> stated, offset |-> 0]
  BY DEF BInit
<1>2. PICK detail \in tool.detail :
         browse = [pc |-> "asks", tool |-> tool, limit |-> limit, detail |-> detail,
                   stated |-> stated, offset |-> 0]
  BY <1>1
<1>3. detail \in BOOLEAN
  <2>1. Paged.detail = BOOLEAN /\ OnePage.detail = BOOLEAN
    BY DEF Paged, OnePage
  <2>2. ngsiem_list_data_connectors.detail = {TRUE}
    BY DEF ngsiem_list_data_connectors, OnePage
  <2>3. tool \in {Paged, OnePage, ngsiem_list_data_connectors}
    BY DEF ListTool, ngsiem_list_saved_queries, ngsiem_list_lookup_files,
           ngsiem_list_dashboards, ngsiem_list_parsers, ngsiem_list_data_connections,
           ngsiem_list_connector_configs
  <2> QED BY <2>1, <2>2, <2>3
<1>4. limit \in Nat \ {0} /\ 0 = 0 * limit
  BY BrowseTypes
<1>5. browse \in Browse /\ browse.pc = "asks" /\ browse.offset = 0 /\ browse.limit = limit
  BY <1>2, <1>3, <1>4 DEF Browse
<1>6. listed \in Seq(Nat) /\ Len(listed) = 0 /\ there \in Nat
  BY EmptySeq, NgsiemListingAssumption DEF BInit
<1>7. 1..Len(listed) = {} /\ Len(listed) = browse.offset /\ browse.offset <= there
  BY <1>5, <1>6
<1>8. \E pages \in Nat : browse.offset = pages * browse.limit
  <2>1. browse.offset = 0 * browse.limit
    BY <1>4, <1>5
  <2> QED BY <2>1
<1>9. browse.pc # "ended"
  BY <1>5
<1> QED BY <1>5, <1>6, <1>7, <1>8, <1>9 DEF BrowseInv

\* The limit, the rest of the response and the pages before it.
LEMMA PageOfBrowse ==
    ASSUME BrowseInv, browse.pc = "asks"
    PROVE  /\ PageSize \in Nat /\ PageSize <= browse.limit
           /\ browse.offset + PageSize <= there
           /\ browse.offset + PageSize < there => PageSize = browse.limit
<1>1. /\ browse.limit \in Nat /\ browse.offset \in Nat /\ there \in Nat
      /\ browse.offset <= there
  BY BrowseTypes DEF BrowseInv
<1> QED BY <1>1 DEF PageSize, Smaller

LEMMA RestOfPages ==
    ASSUME NEW pages \in Nat, NEW limit \in Nat, limit > 0, NEW r \in Nat, r < limit
    PROVE  (pages * limit + r) % limit = r
BY SMTT(30)

\* A record of a page that is not stored is shown, or is beyond the part shown.
LEMMA PageIsShown ==
    ASSUME BrowseInv, ListPage, NEW j \in 1..PageSize
    PROVE  LET i == browse.offset + j
           IN  i \in shown' \cup kept' \/ PlaceInPage(i) >= Rendered
<1> DEFINE n == PageSize
           i == browse.offset + j
<1>1. /\ browse.pc = "asks" /\ browse \in Browse /\ n \in Nat /\ n <= browse.limit
  BY PageOfBrowse DEF ListPage, BrowseInv
<1>t. browse.limit \in Nat /\ browse.limit > 0 /\ browse.offset \in Nat
  BY <1>1, BrowseTypes
<1>2. i \in browse.offset + 1..browse.offset + n
  BY <1>1, <1>t
<1>3. PICK pages \in Nat : browse.offset = pages * browse.limit
  BY <1>1 DEF BrowseInv
<1>4. PlaceInPage(i) = j - 1
  <2>1. browse.limit \in Nat /\ browse.limit > 0 /\ j - 1 \in Nat /\ j - 1 < browse.limit
    BY <1>1, <1>t
  <2>2. (pages * browse.limit + (j - 1)) % browse.limit = j - 1
    BY <2>1, RestOfPages
  <2>3. i - 1 = pages * browse.limit + (j - 1)
    BY <1>1, <1>3, <1>t
  <2> QED BY <2>2, <2>3 DEF PlaceInPage
<1>5. CASE IsStored(n)
  BY <1>2, <1>5 DEF ListPage
<1>6. CASE ~IsStored(n)
  <2>1. Fitting(n) = Smaller(n, Rendered)
    BY <1>6 DEF IsStored, Fitting
  <2>2. CASE j <= Rendered
    <3>1. i <= browse.offset + Fitting(n)
      BY <1>1, <1>t, <2>1, <2>2, BrowseTypes DEF Smaller
    <3> QED BY <1>2, <3>1 DEF ListPage
  <2>3. CASE ~(j <= Rendered)
    BY <1>1, <1>4, <2>3, BrowseTypes
  <2> QED BY <2>2, <2>3
<1> QED BY <1>5, <1>6

\* A page comes after what has been listed.
LEMMA PageAppended ==
    ASSUME BrowseInv, ListPage
    PROVE  /\ listed' \in Seq(Nat) /\ Len(listed') = browse.offset + PageSize
           /\ \A i \in 1..Len(listed') :
                 listed'[i] = IF i <= Len(listed) THEN listed[i] ELSE i
<1> DEFINE n == PageSize
           page == [i \in 1..n |-> browse.offset + i]
<1>1. /\ browse.pc = "asks" /\ browse \in Browse /\ listed' = listed \o page
      /\ listed \in Seq(Nat) /\ Len(listed) = browse.offset
  BY DEF ListPage, BrowseInv
<1>2. n \in Nat /\ browse.offset \in Nat
  BY <1>1, PageOfBrowse, BrowseTypes
<1>3. page \in Seq(Nat) /\ Len(page) = n /\ \A i \in 1..n : page[i] = browse.offset + i
  <2>1. page \in [1..n -> Nat]
    BY <1>2
  <2> QED BY <1>2, <2>1, SeqDef
<1> HIDE DEF page, n
<1>4. /\ listed \o page \in Seq(Nat) /\ Len(listed \o page) = Len(listed) + Len(page)
      /\ \A i \in 1..Len(listed) + Len(page) :
            (listed \o page)[i] = IF i <= Len(listed) THEN listed[i] ELSE page[i - Len(listed)]
  BY <1>1, <1>3, ConcatProperties
<1>5. ASSUME NEW i \in 1..Len(listed'), ~(i <= Len(listed)) PROVE listed'[i] = i
  <2>1. i - Len(listed) \in 1..n /\ browse.offset + (i - Len(listed)) = i
    BY <1>1, <1>2, <1>3, <1>4, <1>5
  <2> QED BY <1>1, <1>3, <1>4, <1>5, <2>1
<1> QED BY <1>1, <1>3, <1>4, <1>5 DEF n

LEMMA ListPageInv == ASSUME BrowseInv, ListPage PROVE BrowseInv'
<1> DEFINE n == PageSize
<1>1. /\ browse.pc = "asks" /\ browse \in Browse /\ there \in Nat /\ there' = there
      /\ Len(listed) = browse.offset
  BY DEF ListPage, BrowseInv
<1>2. /\ n \in Nat /\ n <= browse.limit /\ browse.offset + n <= there
      /\ browse.offset + n < there => n = browse.limit
  BY <1>1, PageOfBrowse
<1>3. /\ browse.offset \in Nat /\ browse.limit \in Nat \ {0} /\ browse.offset + n \in Nat
  BY <1>1, <1>2, BrowseTypes
<1>5. /\ listed' \in Seq(Nat) /\ Len(listed') = browse.offset + n
      /\ \A i \in 1..Len(listed') : listed'[i] = IF i <= Len(listed) THEN listed[i] ELSE i
  BY PageAppended
<1>6. /\ browse' \in Browse /\ browse'.limit = browse.limit /\ browse'.stated = browse.stated
      /\ browse'.pc = "asks" => /\ browse.offset + n < there
                                /\ browse'.offset = browse.offset + n
      /\ browse'.pc = "ended" /\ browse.stated => ~(browse.offset + n < there)
  BY <1>1, <1>2, <1>3 DEF ListPage, FollowHint, Hint, Browse
<1>7. ASSUME NEW i \in 1..Len(listed') PROVE listed'[i] = i
  <2>1. \A k \in 1..Len(listed) : listed[k] = k
    BY DEF BrowseInv
  <2>2. i <= Len(listed) => i \in 1..Len(listed)
    BY <1>1, <1>3, <1>5
  <2>3. listed'[i] = IF i <= Len(listed) THEN listed[i] ELSE i
    BY <1>5
  <2> QED BY <2>1, <2>2, <2>3
<1>8. ASSUME NEW i \in 1..Len(listed')
      PROVE  i \in shown' \cup kept' \/ PlaceInPage(i)' >= Rendered
  <2>1. PlaceInPage(i)' = PlaceInPage(i)
    BY <1>6 DEF PlaceInPage
  <2>2. CASE i <= Len(listed)
    BY <1>1, <2>1, <2>2 DEF BrowseInv, ListPage
  <2>3. CASE ~(i <= Len(listed))
    <3>1. i - browse.offset \in 1..n /\ i = browse.offset + (i - browse.offset)
      BY <1>1, <1>2, <1>3, <1>5, <2>3
    <3> QED BY <2>1, <3>1, PageIsShown
  <2> QED BY <2>2, <2>3
<1>9. browse'.pc = "asks" => \E pages \in Nat : browse'.offset = pages * browse.limit
  <2> SUFFICES ASSUME browse'.pc = "asks"
               PROVE  \E pages \in Nat : browse'.offset = pages * browse.limit
    OBVIOUS
  <2>1. PICK pages \in Nat : browse.offset = pages * browse.limit
    BY <1>1 DEF BrowseInv
  <2>2. browse'.offset = browse.offset + browse.limit
    BY <1>2, <1>6
  <2>3. pages + 1 \in Nat /\ browse'.offset = (pages + 1) * browse.limit
    BY <1>3, <2>1, <2>2
  <2> QED BY <2>3
<1> QED BY <1>1, <1>2, <1>3, <1>5, <1>6, <1>7, <1>8, <1>9 DEF BrowseInv

LEMMA NextBrowseInv == BrowseInv /\ [BNext]_listingVars => BrowseInv'
<1> SUFFICES ASSUME BrowseInv, [BNext]_listingVars PROVE BrowseInv'
  OBVIOUS
<1>1. CASE ListCallFails
  BY <1>1 DEF ListCallFails, BrowseInv, Browse, PlaceInPage
<1>2. CASE ListPage
  BY <1>2, ListPageInv
<1>3. CASE UNCHANGED listingVars
  BY <1>3 DEF listingVars, BrowseInv, PlaceInPage
<1> QED BY <1>1, <1>2, <1>3 DEF BNext

\* The hints of a listing lead through all of it, each record once, and what its
\* pages list can be read, but for what is beyond the part of a small page that
\* is shown (_format_list, ngsiem.py), whatever the sizes and the limits.
THEOREM HintsLeadOn == BrowseSpec => []HintsLeadThrough
<1>1. BrowseInv => HintsLeadThrough
  <2> SUFFICES ASSUME BrowseInv PROVE HintsLeadThrough
    OBVIOUS
  <2>1. DOMAIN listed = 1..Len(listed)
    BY LenProperties DEF BrowseInv
  <2>2. ASSUME NEW i \in Range(listed) PROVE i \in 1..Len(listed)
    BY <2>1 DEF Range, BrowseInv
  <2> QED BY <2>1, <2>2 DEF BrowseInv, HintsLeadThrough
<1> QED BY <1>1, InitBrowseInv, NextBrowseInv, PTL DEF BrowseSpec

\* What is listed, shown and kept is there.
ThereInv ==
    /\ there \in 0..MaxListed /\ browse.offset <= there /\ Len(listed) <= there
    /\ shown \subseteq 1..there /\ kept \subseteq 1..there

LEMMA InitThereInv == BInit => ThereInv
<1> SUFFICES ASSUME BInit PROVE ThereInv
  OBVIOUS
<1>1. there \in 0..MaxListed /\ listed = <<>> /\ shown = {} /\ kept = {} /\ browse.offset = 0
  BY DEF BInit
<1>2. 0 <= there
  BY <1>1, NgsiemListingAssumption
<1> QED BY <1>1, <1>2 DEF ThereInv

LEMMA NextThereInv == BrowseInv /\ ThereInv /\ [BNext]_listingVars => ThereInv'
<1> SUFFICES ASSUME BrowseInv, ThereInv, [BNext]_listingVars PROVE ThereInv'
  OBVIOUS
<1>1. CASE ListCallFails
  BY <1>1 DEF ListCallFails, ThereInv, BrowseInv, Browse
<1>2. CASE ListPage
  <2> DEFINE n == PageSize
             records == browse.offset + 1..browse.offset + n
  <2>1. /\ n \in Nat /\ browse.offset + n <= there
        /\ browse.offset \in Nat /\ there \in Nat /\ browse \in Browse
    BY <1>2, PageOfBrowse, BrowseTypes DEF ListPage, BrowseInv
  <2>2. records \subseteq 1..there
    BY <2>1
  <2>3. Len(listed') = browse.offset + n
    BY <1>2, PageAppended
  <2>4. /\ there' = there /\ shown' \subseteq shown \cup records /\ kept' \subseteq kept \cup records
    BY <1>2 DEF ListPage
  <2>5. browse'.offset = browse.offset \/ browse'.offset = browse.offset + n
    BY <1>2, <2>1 DEF ListPage, FollowHint, Browse
  <2> HIDE DEF n, records
  <2> QED BY <2>1, <2>2, <2>3, <2>4, <2>5 DEF ThereInv
<1>3. CASE UNCHANGED listingVars
  BY <1>3 DEF listingVars, ThereInv
<1> QED BY <1>1, <1>2, <1>3 DEF BNext

\* A content listing and the caller who follows its hints keep their types.
THEOREM ListingTypeOK == BrowseSpec => []BTypeOK
<1>1. ASSUME BrowseInv, ThereInv PROVE BTypeOK
  <2>1. there \in Nat /\ Len(listed) \in Nat /\ listed \in Seq(Nat)
    BY <1>1, LenProperties DEF BrowseInv
  <2>2. browse.pc \in {"asks", "failed", "ended", "cannot go on"} /\ browse.offset \in Nat
    BY <1>1 DEF BrowseInv, Browse
  <2>3. browse.offset \in 0..there
    <3> DEFINE from == browse.offset
    <3>1. from <= there
      BY <1>1 DEF ThereInv
    <3>2. from \in Nat
      BY <2>2
    <3> HIDE DEF from
    <3>3. from \in 0..there
      BY <2>1, <3>1, <3>2
    <3> QED BY <3>3 DEF from
  <2>4. Range(listed) \subseteq 1..there
    <3>1. DOMAIN listed = 1..Len(listed) /\ \A i \in 1..Len(listed) : listed[i] = i
      BY <1>1, <2>1, LenProperties DEF BrowseInv
    <3>2. \A i \in 1..Len(listed) : i \in 1..there
      BY <1>1, <2>1 DEF ThereInv
    <3> QED BY <3>1, <3>2 DEF Range
  <2> QED BY <1>1, <2>2, <2>3, <2>4 DEF ThereInv, BTypeOK
<1> QED BY <1>1, InitBrowseInv, NextBrowseInv, InitThereInv, NextThereInv, PTL DEF BrowseSpec
-----------------------------------------------------------------------------
(* The tools that ask one question.                                        *)

\* A payload with one list, and no other content, gives that list back.
LEMMA OneListReadsBack ==
    ASSUME NEW payload, NEW e \in Range(payload), IsList(e),
           \A d \in Range(payload) : IsList(d) \/ IsContent(d) => d = e
    PROVE  ReadsBack(payload)
<1>1. ~Before(e, e)
  <2>1. \A i \in DOMAIN PrimaryRecordKeys : i \in 1..i
    BY DEF PrimaryRecordKeys
  <2> QED BY <2>1 DEF Before
<1>2. SelectRecords(payload) = {e}
  BY <1>1 DEF SelectRecords
<1> QED BY <1>2 DEF ReadsBack

\* One without lists gives all of its content back.
LEMMA NoListReadsBack ==
    ASSUME NEW payload, \A d \in Range(payload) : ~IsList(d)
    PROVE  ReadsBack(payload)
<1>1. \A d \in Range(payload) : IsContent(d) => IsDict(d)
  BY DEF IsContent, IsDict, IsList
<1>2. SelectRecords(payload) = {d \in Range(payload) : IsDict(d)}
  BY DEF SelectRecords
<1> QED BY <1>1, <1>2 DEF ReadsBack

LEMMA UnderReadsBack == ASSUME NEW key PROVE ReadsBack(Under(key))
<1>1. Range(Under(key)) = {<<key, "records">>}
  BY DEF Range, Under
<1> QED BY <1>1, OneListReadsBack DEF IsList

LEMMA PayloadsReadBack ==
    /\ ReadsBack(DevicesFound) /\ ReadsBack(CasesFound)
    /\ ReadsBack(CasesFound \o <<<<"total_available", "value">>>>)
    /\ ReadsBack(Under("records") \o <<<<"by_service", "dict">>>>)
    /\ ReadsBack(<<<<"success", "value">>, <<"export", "record">>>>)
    /\ ReadsBack(<<<<"resource", "record">>>>) /\ ReadsBack(<<<<"record", "record">>>>)
    /\ ReadsBack(Resources) /\ ReadsBack(format_vuln_list)
<1>1. ReadsBack(DevicesFound)
  <2>1. Range(DevicesFound) = {<<"devices", "records">>, <<"count", "value">>}
    BY DEF Range, DevicesFound
  <2>2. \A d \in Range(DevicesFound) : IsList(d) \/ IsContent(d) => d = <<"devices", "records">>
    BY <2>1 DEF IsList, IsContent
  <2>3. IsList(<<"devices", "records">>)
    BY DEF IsList
  <2> QED BY <2>1, <2>2, <2>3, OneListReadsBack
<1>2. ReadsBack(CasesFound)
  <2>1. Range(CasesFound) = {<<"success", "value">>, <<"cases", "records">>, <<"count", "value">>}
    BY DEF Range, CasesFound
  <2>2. \A d \in Range(CasesFound) : IsList(d) \/ IsContent(d) => d = <<"cases", "records">>
    BY <2>1 DEF IsList, IsContent
  <2>3. IsList(<<"cases", "records">>)
    BY DEF IsList
  <2> QED BY <2>1, <2>2, <2>3, OneListReadsBack
<1>3. ReadsBack(CasesFound \o <<<<"total_available", "value">>>>)
  <2>1. Range(CasesFound \o <<<<"total_available", "value">>>>)
        = {<<"success", "value">>, <<"cases", "records">>, <<"count", "value">>,
           <<"total_available", "value">>}
    BY DEF Range, CasesFound
  <2>2. \A d \in Range(CasesFound \o <<<<"total_available", "value">>>>) : IsList(d) \/ IsContent(d) => d = <<"cases", "records">>
    BY <2>1 DEF IsList, IsContent
  <2>3. IsList(<<"cases", "records">>)
    BY DEF IsList
  <2> QED BY <2>1, <2>2, <2>3, OneListReadsBack
<1>4. ReadsBack(Under("records") \o <<<<"by_service", "dict">>>>)
  <2>1. Range(Under("records") \o <<<<"by_service", "dict">>>>)
        = {<<"records", "records">>, <<"by_service", "dict">>}
    BY DEF Range, Under
  <2>2. \A d \in Range(Under("records") \o <<<<"by_service", "dict">>>>) : IsList(d) \/ IsContent(d) => d = <<"records", "records">>
    BY <2>1 DEF IsList, IsContent
  <2>3. IsList(<<"records", "records">>)
    BY DEF IsList
  <2> QED BY <2>1, <2>2, <2>3, OneListReadsBack
<1>5. ReadsBack(<<<<"success", "value">>, <<"export", "record">>>>)
  <2>1. Range(<<<<"success", "value">>, <<"export", "record">>>>)
        = {<<"success", "value">>, <<"export", "record">>}
    BY DEF Range
  <2> QED BY <2>1, NoListReadsBack DEF IsList
<1>6. ReadsBack(<<<<"resource", "record">>>>) /\ ReadsBack(<<<<"record", "record">>>>)
  <2>1. /\ Range(<<<<"resource", "record">>>>) = {<<"resource", "record">>}
        /\ Range(<<<<"record", "record">>>>) = {<<"record", "record">>}
    BY DEF Range
  <2> QED BY <2>1, NoListReadsBack DEF IsList
<1>7. ReadsBack(Resources) /\ ReadsBack(format_vuln_list)
  BY UnderReadsBack DEF Resources, format_vuln_list
<1> QED BY <1>1, <1>2, <1>3, <1>4, <1>5, <1>6, <1>7

\* A method that tells the total learns it from its first request, and each
\* makes at most three.
AsksOK(r) ==
    /\ r.tells = "total" => r.requests \in {<<"ids", "details">>, <<"records">>}
    /\ Len(r.requests) \in 1..3

\* All tools but those of HalfRead store what reads back.
ToolOK(t) ==
    /\ AsksOK(t)
    /\ t.none \in {"none found", "failed", "empty record"}
    /\ t \in HalfRead \/ ReadsBack(t.payload)

LEMMA KindsOK == AsksOK(IdsThenDetails) /\ AsksOK(RecordsPage) /\ AsksOK(ById)
BY DEF AsksOK, IdsThenDetails, RecordsPage, ById, Requests

LEMMA MethodsOK ==
    /\ AsksOK(search_queries) /\ AsksOK(search_guides) /\ AsksOK(get_queries_by_ids)
    /\ AsksOK(get_guides_by_ids) /\ AsksOK(aggregate)
    /\ AsksOK(query_vulnerabilities) /\ AsksOK(get_vulnerabilities)
    /\ AsksOK(vulnerabilities_combined) /\ AsksOK(get_remediations)
    /\ AsksOK(lookup) /\ AsksOK(lookup_by_id)
    /\ AsksOK(get_login_history) /\ AsksOK(get_network_history)
    /\ AsksOK(get_cloud_risks) /\ AsksOK(get_iom_detections) /\ AsksOK(query_assets)
    /\ AsksOK(get_compliance_by_account) /\ AsksOK(list_accounts) /\ AsksOK(get_policy_settings)
    /\ AsksOK(get_rules) /\ AsksOK(export_rule)
    /\ AsksOK(query_cases) /\ AsksOK(get_cases) /\ AsksOK(get_fields)
    /\ AsksOK(list_sessions) /\ AsksOK(check_command_status) /\ AsksOK(list_files)
<1>1. AsksOK(aggregate) /\ AsksOK(lookup) /\ AsksOK(lookup_by_id)
  BY DEF AsksOK, aggregate, lookup, lookup_by_id, Requests
<1>2. AsksOK(list_accounts) /\ AsksOK(get_fields)
  BY DEF AsksOK, list_accounts, get_fields, Requests
<1> QED BY <1>1, <1>2, KindsOK
        DEF search_queries, search_guides, get_queries_by_ids, get_guides_by_ids,
            query_vulnerabilities, get_vulnerabilities, vulnerabilities_combined,
            get_remediations, get_login_history, get_network_history, get_cloud_risks,
            get_iom_detections, query_assets, get_compliance_by_account, get_policy_settings,
            get_rules, export_rule, query_cases, get_cases, list_sessions,
            check_command_status, list_files

LEMMA ListedOK ==
    ASSUME NEW r, NEW payload, AsksOK(r),
           Listed(r, payload) \in HalfRead \/ ReadsBack(payload)
    PROVE  ToolOK(Listed(r, payload))
BY DEF ToolOK, AsksOK, Listed

\* A tool with another answer to an empty result, or another way to render.
LEMMA VariedOK ==
    ASSUME NEW r, NEW payload, AsksOK(r), ReadsBack(payload)
    PROVE  /\ ToolOK([Listed(r, payload) EXCEPT !.none = "failed"])
           /\ ToolOK([Listed(r, payload) EXCEPT !.none = "empty record"])
           /\ ToolOK([Listed(r, payload) EXCEPT !.renders = "first"])
           /\ ToolOK([Listed(r, payload) EXCEPT !.renders = "first", !.forces = TRUE])
BY DEF ToolOK, AsksOK, Listed

LEMMA ToolsOK == \A t \in Tool : ToolOK(t)
<1>1. /\ ToolOK(cao_search_queries) /\ ToolOK(cao_search_guides)
      /\ ToolOK(cao_get_queries) /\ ToolOK(cao_get_guides)
      /\ ToolOK(cao_aggregate)
  BY ListedOK, VariedOK, MethodsOK, KindsOK, UnderReadsBack, PayloadsReadBack
     DEF cao_search_queries, cao_search_guides, cao_get_queries, cao_get_guides,
         cao_aggregate
<1>2. /\ ToolOK(spotlight_supported_evaluations) /\ ToolOK(spotlight_query_vulnerabilities)
      /\ ToolOK(spotlight_get_vulnerabilities) /\ ToolOK(spotlight_vulnerabilities_combined)
      /\ ToolOK(spotlight_host_vulns) /\ ToolOK(spotlight_get_remediations)
  BY ListedOK, VariedOK, MethodsOK, KindsOK, UnderReadsBack, PayloadsReadBack
     DEF spotlight_supported_evaluations, spotlight_query_vulnerabilities,
         spotlight_get_vulnerabilities, spotlight_vulnerabilities_combined,
         spotlight_host_vulns, spotlight_get_remediations
<1>3. /\ ToolOK(host_lookup) /\ ToolOK(host_lookup_by_id)
      /\ ToolOK(host_login_history) /\ ToolOK(host_network_history)
  BY ListedOK, VariedOK, MethodsOK, KindsOK, UnderReadsBack, PayloadsReadBack
     DEF host_lookup, host_lookup_by_id, host_login_history, host_network_history
<1>4. /\ ToolOK(cloud_get_risks) /\ ToolOK(cloud_get_iom_detections)
      /\ ToolOK(cloud_query_assets) /\ ToolOK(cloud_compliance_by_account)
      /\ ToolOK(cloud_risk_timeline_summary) /\ ToolOK(cloud_risk_timeline_full)
      /\ ToolOK(cloud_list_accounts) /\ ToolOK(cloud_policy_settings)
  BY ListedOK, VariedOK, MethodsOK, KindsOK, UnderReadsBack, PayloadsReadBack
     DEF cloud_get_risks, cloud_get_iom_detections, cloud_query_assets,
         cloud_compliance_by_account, cloud_risk_timeline_summary,
         cloud_risk_timeline_full, cloud_list_accounts, cloud_policy_settings, HalfRead
<1>5. /\ ToolOK(correlation_get_rule) /\ ToolOK(correlation_export_rule)
      /\ ToolOK(correlation_list_templates) /\ ToolOK(correlation_get_template)
  BY ListedOK, VariedOK, MethodsOK, KindsOK, UnderReadsBack, PayloadsReadBack
     DEF correlation_get_rule, correlation_export_rule, correlation_list_templates,
         correlation_get_template
<1>6. /\ ToolOK(case_query) /\ ToolOK(case_get)
      /\ ToolOK(case_get_fields) /\ ToolOK(case_query_access_tags)
      /\ ToolOK(case_get_access_tags) /\ ToolOK(case_aggregate_access_tags)
      /\ ToolOK(case_get_rtr_file_metadata) /\ ToolOK(case_get_rtr_recent_files)
  BY ListedOK, VariedOK, MethodsOK, KindsOK, UnderReadsBack, PayloadsReadBack
     DEF case_query, case_get, case_get_fields, case_query_access_tags,
         case_get_access_tags, case_aggregate_access_tags, case_get_rtr_file_metadata,
         case_get_rtr_recent_files
<1>7. /\ ToolOK(rtr_list_sessions) /\ ToolOK(rtr_check_command_status)
      /\ ToolOK(rtr_list_files)
  BY ListedOK, VariedOK, MethodsOK, KindsOK, UnderReadsBack, PayloadsReadBack
     DEF rtr_list_sessions, rtr_check_command_status, rtr_list_files
<1>8. /\ ToolOK(threatgraph_get_vertices) /\ ToolOK(threatgraph_get_edges)
      /\ ToolOK(threatgraph_get_ran_on) /\ ToolOK(threatgraph_get_summary)
  BY ListedOK, VariedOK, MethodsOK, KindsOK, UnderReadsBack, PayloadsReadBack
     DEF threatgraph_get_vertices, threatgraph_get_edges, threatgraph_get_ran_on,
         threatgraph_get_summary
<1>9. /\ ToolOK(ngsiem_get_record) /\ ToolOK(ngsiem_get_lookup_file)
  BY ListedOK, VariedOK, MethodsOK, KindsOK, UnderReadsBack, PayloadsReadBack
     DEF ngsiem_get_record, ngsiem_get_lookup_file
<1>10. /\ ToolOK(identity_investigate_entity)
  BY ListedOK, VariedOK, MethodsOK, KindsOK, UnderReadsBack, PayloadsReadBack
     DEF identity_investigate_entity, HalfRead
<1> QED BY <1>1, <1>2, <1>3, <1>4, <1>5, <1>6, <1>7, <1>8, <1>9, <1>10 DEF Tool

Question ==
    [pc : {"idle", "asking", "rendering", "answered"}, tool : Tool \cup {NoTool}, limit : Nat,
     matches : Nat, stated : BOOLEAN, step : Nat, records : Nat, total : Nat,
     parts : SUBSET Nat, lost : BOOLEAN]

\* A call that is to tell the total, of an API that states it.
TellsWhole == question.stated /\ question.tool.tells = "total"

\* A failed request ends the call, and the first request finds the total, which
\* the second leaves alone.
QuestionInv ==
    /\ question \in Question
    /\ question.lost => question.pc = "answered" /\ reply.says = "failed"
    /\ question.pc # "answered" => reply = NoReply
    /\ question.pc = "asking" => question.tool \in Tool
    /\ question.pc = "asking" /\ TellsWhole
       => \/ question.step = 1
          \/ /\ question.step = 2 /\ question.tool.requests = <<"ids", "details">>
             /\ question.total = question.matches
    /\ question.pc = "rendering" /\ TellsWhole => question.total = question.matches
    /\ AnswerIsHonest

LEMMA StepCounts ==
    ASSUME question \in Question
    PROVE  question.step + 1 \in Nat /\ question.parts \cup {question.step} \subseteq Nat
<1>1. question.step \in Nat /\ question.parts \subseteq Nat
  BY DEF Question
<1> QED BY <1>1

LEMMA InitQuestionInv == QInit => QuestionInv
<1> SUFFICES ASSUME QInit PROVE QuestionInv
  OBVIOUS
<1>1. question = Unasked /\ reply = NoReply
  BY DEF QInit
<1>2. question \in Question /\ question.pc = "idle" /\ ~question.lost
  BY <1>1 DEF Unasked, Question
<1>3. reply.says = "nothing yet"
  BY <1>1 DEF NoReply
<1> QED BY <1>1, <1>2, <1>3 DEF QuestionInv, AnswerIsHonest

LEMMA CallToolQuestionInv ==
    ASSUME QuestionInv, NEW tool \in Tool, NEW limit \in Nat, NEW matches \in Nat,
           NEW stated \in BOOLEAN, CallTool(tool, limit, matches, stated)
    PROVE  QuestionInv'
<1>1. /\ question' = [Unasked EXCEPT !.pc = "asking", !.tool = tool, !.limit = limit,
                                    !.matches = matches, !.stated = stated]
      /\ question.pc = "idle" /\ reply' = reply
  BY DEF CallTool
<1>2. /\ question' \in Question /\ question'.pc = "asking" /\ question'.tool = tool
      /\ question'.step = 1 /\ ~question'.lost
  BY <1>1 DEF Unasked, Question
<1>3. reply = NoReply
  BY <1>1 DEF QuestionInv
<1> QED BY <1>1, <1>2, <1>3 DEF QuestionInv, AnswerIsHonest, NoReply, TellsWhole

\* What a call asks for at its place, when it is to tell the total.
LEMMA WholeRequest ==
    ASSUME QuestionInv, question.pc = "asking", TellsWhole
    PROVE  /\ Request \in {"ids", "records", "details"}
           /\ Request = "details" =>
                 /\ question.total = question.matches /\ GoOn = "rendering"
           /\ GoOn \in {"asking", "rendering"}
           /\ GoOn = "asking" => /\ question.step = 1
                                 /\ question.tool.requests = <<"ids", "details">>
<1>1. question.tool.requests \in {<<"ids", "details">>, <<"records">>}
  BY ToolsOK DEF QuestionInv, TellsWhole, ToolOK, AsksOK
<1>2. CASE question.step = 1
  BY <1>1, <1>2 DEF Request, GoOn
<1>3. CASE question.step # 1
  <2>1. /\ question.step = 2 /\ question.tool.requests = <<"ids", "details">>
        /\ question.total = question.matches
    BY <1>3 DEF QuestionInv
  <2> QED BY <2>1 DEF Request, GoOn
<1> QED BY <1>2, <1>3

LEMMA RefusedQuestionInv ==
    ASSUME QuestionInv, CallRefused \/ RequestFails
    PROVE  QuestionInv'
<1>1. ASSUME question.pc \in {"idle", "asking"}, NEW lost \in BOOLEAN,
             question' = [question EXCEPT !.pc = "answered", !.lost = lost],
             reply' = [NoReply EXCEPT !.says = "failed"]
      PROVE  QuestionInv'
  <2>1. /\ question' \in Question /\ question'.pc = "answered"
        /\ reply'.says = "failed"
    BY <1>1 DEF QuestionInv, Question, NoReply
  <2> QED BY <2>1 DEF QuestionInv, AnswerIsHonest
<1>2. CASE CallRefused
  <2>1. question' = [question EXCEPT !.pc = "answered", !.lost = question.lost]
    BY <1>2 DEF CallRefused, QuestionInv, Question
  <2>2. question.lost \in BOOLEAN
    BY DEF QuestionInv, Question
  <2> QED BY <1>1, <1>2, <2>1, <2>2 DEF CallRefused
<1>3. CASE RequestFails /\ Request # "extra"
  BY <1>1, <1>3 DEF RequestFails
<1>4. CASE RequestFails /\ Request = "extra"
  <2>1. /\ question.pc = "asking" /\ reply' = reply
        /\ question' = [question EXCEPT !.pc = GoOn, !.step = @ + 1]
    BY <1>4 DEF RequestFails
  <2>2. ~TellsWhole
    BY <1>4, <2>1, WholeRequest
  <2>3. question \in Question /\ GoOn \in {"asking", "rendering"}
    BY DEF QuestionInv, GoOn
  <2>4. /\ question' \in Question /\ question'.pc \in {"asking", "rendering"}
        /\ question'.tool = question.tool /\ question'.stated = question.stated
        /\ question'.lost = question.lost
    BY <2>1, <2>3, StepCounts DEF Question
  <2>5. reply = NoReply /\ ~question.lost /\ question.tool \in Tool
    BY <2>1 DEF QuestionInv
  <2>6. ~TellsWhole'
    BY <2>2, <2>4 DEF TellsWhole
  <2> QED BY <2>1, <2>4, <2>5, <2>6 DEF QuestionInv, AnswerIsHonest, NoReply
<1> QED BY <1>2, <1>3, <1>4

LEMMA RequestFindsQuestionInv == ASSUME QuestionInv, RequestFinds PROVE QuestionInv'
<1> DEFINE n == IF question.tool.limited THEN AtMost(question.limit, question.matches)
                ELSE question.matches
           all == IF question.stated THEN question.matches ELSE n
           next == IF n = 0 THEN "rendering" ELSE GoOn
<1>1. /\ question.pc = "asking" /\ Request \in {"ids", "records"} /\ reply' = reply
      /\ question' = [question EXCEPT !.records = n, !.step = @ + 1, !.total = all, !.pc = next]
      /\ question \in Question
  BY DEF RequestFinds, QuestionInv
<1>2. n \in Nat /\ all \in Nat
  BY <1>1 DEF Question, AtMost
<1>3. next \in {"asking", "rendering"}
  BY DEF GoOn
<1> HIDE DEF n, next
<1>4. /\ question' \in Question /\ question'.pc = next /\ question'.tool = question.tool
      /\ question'.stated = question.stated /\ question'.matches = question.matches
      /\ question'.lost = question.lost /\ question'.total = all
      /\ question'.step = question.step + 1
  BY <1>1, <1>2, <1>3, StepCounts DEF Question
<1>5. TellsWhole' => TellsWhole /\ all = question.matches
  BY <1>4 DEF TellsWhole
<1>6. TellsWhole /\ next = "asking" =>
         question.step = 1 /\ question.tool.requests = <<"ids", "details">>
  BY <1>1, WholeRequest DEF next
<1>7. reply = NoReply /\ ~question.lost /\ question.tool \in Tool
  BY <1>1 DEF QuestionInv
<1>8. next = "asking" /\ TellsWhole' =>
         /\ question'.step = 2 /\ question'.tool.requests = <<"ids", "details">>
         /\ question'.total = question'.matches
  BY <1>4, <1>5, <1>6
<1>9. next = "rendering" /\ TellsWhole' => question'.total = question'.matches
  BY <1>4, <1>5
<1>10. AnswerIsHonest'
  BY <1>1, <1>7 DEF AnswerIsHonest, NoReply
<1> QED BY <1>1, <1>3, <1>4, <1>7, <1>8, <1>9, <1>10 DEF QuestionInv

\* The other answers leave the total alone.
LEMMA FurtherAnswersQuestionInv ==
    ASSUME QuestionInv, NEW n \in Nat,
           PartRefused \/ DetailsAnswer(n) \/ PartAnswers(n)
    PROVE  QuestionInv'
<1>1. /\ question.pc = "asking" /\ question \in Question /\ reply' = reply
      /\ reply = NoReply /\ ~question.lost /\ question.tool \in Tool
  BY DEF PartRefused, DetailsAnswer, PartAnswers, QuestionInv
<1>2. /\ question' \in Question /\ question'.pc \in {"asking", "rendering"}
      /\ question'.tool = question.tool /\ question'.stated = question.stated
      /\ question'.matches = question.matches /\ question'.total = question.total
      /\ question'.lost = question.lost
      /\ Request = "details" /\ GoOn = "rendering" => question'.pc = "rendering"
      /\ Request \in {"details", "part", "extra"}
  <2> DEFINE next == GoOn
  <2>1. next \in {"asking", "rendering"}
    BY DEF GoOn
  <2>2. question.records + n \in Nat
    <3>1. question.records \in Nat
      BY <1>1 DEF Question
    <3> QED BY <3>1
  <2> HIDE DEF next
  <2>3. CASE PartRefused
    BY <1>1, <2>1, <2>3, StepCounts DEF PartRefused, Question, next
  <2>4. CASE DetailsAnswer(n)
    BY <1>1, <2>1, <2>4, StepCounts DEF DetailsAnswer, Question, next
  <2>5. CASE PartAnswers(n)
    BY <1>1, <2>1, <2>2, <2>5, StepCounts DEF PartAnswers, Question, next
  <2> QED BY <2>3, <2>4, <2>5
<1>3. TellsWhole' => TellsWhole
  BY <1>2 DEF TellsWhole
<1>4. TellsWhole => question'.pc = "rendering" /\ question.total = question.matches
  BY <1>1, <1>2, WholeRequest
<1> QED BY <1>1, <1>2, <1>3, <1>4 DEF QuestionInv, AnswerIsHonest, NoReply

LEMMA FormatReplyQuestionInv ==
    ASSUME QuestionInv, NEW n \in Nat, FormatReply(n)
    PROVE  QuestionInv'
<1>1. /\ question.pc = "rendering" /\ question \in Question /\ ~question.lost
      /\ question' = [question EXCEPT !.pc = "answered"]
      /\ reply'.returned = question.records /\ reply'.total = question.total
  BY DEF FormatReply, QuestionInv
<1>2. /\ question' \in Question /\ question'.pc = "answered" /\ ~question'.lost
      /\ question'.tool = question.tool /\ question'.stated = question.stated
      /\ question'.matches = question.matches
  BY <1>1 DEF Question
<1>3. question.stated /\ question.tool.tells = "total" => question.total = question.matches
  BY <1>1 DEF QuestionInv, TellsWhole
<1>4. AnswerIsHonest'
  BY <1>1, <1>2, <1>3 DEF AnswerIsHonest
<1> QED BY <1>2, <1>4 DEF QuestionInv

LEMMA NextQuestionInv == QuestionInv /\ [QNext]_queryVars => QuestionInv'
<1> SUFFICES ASSUME QuestionInv, [QNext]_queryVars PROVE QuestionInv'
  OBVIOUS
<1>1. 1..MaxQueryLimit \subseteq Nat /\ 0..MaxMatches \subseteq Nat
  BY QueryToolsAssumption
<1>2. ASSUME NEW tool \in Tool, NEW limit \in 1..MaxQueryLimit, NEW matches \in 0..MaxMatches,
             NEW stated \in BOOLEAN, CallTool(tool, limit, matches, stated)
      PROVE  QuestionInv'
  BY <1>1, <1>2, CallToolQuestionInv
<1>3. CASE CallRefused \/ RequestFails
  BY <1>3, RefusedQuestionInv
<1>4. CASE PartRefused
  BY <1>4, FurtherAnswersQuestionInv, 0 \in Nat
<1>5. CASE RequestFinds
  BY <1>5, RequestFindsQuestionInv
<1>6. ASSUME NEW n \in 0..MaxMatches, DetailsAnswer(n) \/ PartAnswers(n) \/ FormatReply(n)
      PROVE  QuestionInv'
  BY <1>1, <1>6, FurtherAnswersQuestionInv, FormatReplyQuestionInv
<1>7. CASE UNCHANGED queryVars
  BY <1>7 DEF queryVars, QuestionInv, AnswerIsHonest, TellsWhole
<1> QED BY <1>2, <1>3, <1>4, <1>5, <1>6, <1>7 DEF QNext

\* No tool takes a failed request for an empty result, and a tool that is told
\* the total shows one above its count when there is more (the list tools of
\* all modules), for any limits, sizes and numbers of records.
THEOREM AnswersHonest == QuerySpec => []AnswerIsHonest
<1>1. QuestionInv => AnswerIsHonest
  BY DEF QuestionInv
<1> QED BY <1>1, InitQuestionInv, NextQuestionInv, PTL DEF QuerySpec

\* What a call has found is bounded by what matches, it never asks past its last
\* request, and a reply that is cut comes with a reference.
ReplyInv ==
    /\ QTypeOK
    /\ question.matches \in 0..MaxMatches /\ question.records <= question.matches
    /\ question.pc \in {"asking", "rendering"} => question.tool \in Tool
    /\ question.pc = "asking" => question.step <= Len(question.tool.requests)
    /\ reply.cut => reply.ref

LEMMA InitReplyInv == QInit => ReplyInv
<1> SUFFICES ASSUME QInit PROVE ReplyInv
  OBVIOUS
<1>1. question = Unasked /\ reply = NoReply /\ MaxMatches \in Nat
  BY QueryToolsAssumption DEF QInit
<1>2. /\ question.pc = "idle" /\ question.tool = NoTool /\ question.step = 1
      /\ question.records = 0 /\ question.total = 0 /\ question.matches = 0
  BY <1>1 DEF Unasked
<1>3. reply.says = "nothing yet" /\ reply.shown = 0 /\ reply.returned = 0
  BY <1>1 DEF NoReply
<1>c. ~reply.cut
  BY <1>1 DEF NoReply
<1>4. 0 \in 0..MaxMatches /\ 1 \in 1..4 /\ 0 <= 0
  BY <1>1
<1> QED BY <1>2, <1>3, <1>c, <1>4 DEF ReplyInv, QTypeOK

\* The place a call goes on to, and what it knows by then.
LEMMA GoesOn ==
    ASSUME QuestionInv, ReplyInv, question.pc = "asking"
    PROVE  /\ question.step \in 1..3 /\ question.step + 1 \in 1..4
           /\ GoOn \in {"asking", "rendering"}
           /\ GoOn = "asking" => question.step + 1 <= Len(question.tool.requests)
           /\ question.tool \in Tool /\ reply = NoReply
           /\ question.records \in Nat /\ question.matches \in Nat
           /\ question.records <= question.matches /\ question.matches <= MaxMatches
           /\ question.total \in 0..MaxMatches
<1>1. Len(question.tool.requests) \in 1..3 /\ question.tool \in Tool
  BY ToolsOK DEF ReplyInv, ToolOK, AsksOK
<1>2. question.step \in 1..4 /\ question.step <= Len(question.tool.requests)
  BY DEF ReplyInv, QTypeOK
<1>3. /\ question.records \in 0..MaxMatches /\ question.matches \in 0..MaxMatches
      /\ question.records <= question.matches /\ question.total \in 0..MaxMatches
      /\ reply = NoReply
  BY DEF ReplyInv, QTypeOK, QuestionInv
<1> DEFINE step == question.step
           length == Len(question.tool.requests)
<1>4. length \in 1..3 /\ step \in 1..4 /\ step <= length
  BY <1>1, <1>2
<1>5. GoOn = IF step = length THEN "rendering" ELSE "asking"
  BY DEF GoOn
<1> HIDE DEF step, length
<1>6. /\ step \in 1..3 /\ step + 1 \in 1..4 /\ GoOn \in {"asking", "rendering"}
      /\ GoOn = "asking" => step + 1 <= length
  BY <1>4, <1>5
<1>7. /\ question.records \in Nat /\ question.matches \in Nat /\ question.matches <= MaxMatches
  BY <1>3, QueryToolsAssumption
<1> QED BY <1>1, <1>3, <1>6, <1>7 DEF step, length

\* An answer to a request of call: n records, and the total all.
LEMMA AnswerReplyInv ==
    ASSUME QuestionInv, ReplyInv, question.pc = "asking", reply' = reply,
           NEW n \in Nat, n <= question.matches, NEW all \in 0..MaxMatches,
           NEW next \in {"asking", "rendering"}, next = "asking" => GoOn = "asking",
           question' \in Question,
           question'.pc = next, question'.tool = question.tool,
           question'.step = question.step + 1, question'.matches = question.matches,
           question'.records = n, question'.total = all
    PROVE  ReplyInv'
<1>1. n \in 0..MaxMatches
  BY GoesOn, QueryToolsAssumption
<1>2. /\ question'.step \in 1..4 /\ question'.matches \in 0..MaxMatches
      /\ question'.tool \in Tool
      /\ question'.pc = "asking" => question'.step <= Len(question'.tool.requests)
  BY GoesOn DEF ReplyInv
<1> QED BY <1>1, <1>2 DEF ReplyInv, QTypeOK

LEMMA AsksReplyInv ==
    ASSUME QuestionInv, ReplyInv, NEW n \in Nat,
           \/ PartRefused \/ RequestFinds \/ DetailsAnswer(n) \/ PartAnswers(n)
           \/ RequestFails /\ Request = "extra"
    PROVE  ReplyInv'
<1> DEFINE returned == IF question.tool.limited THEN AtMost(question.limit, question.matches)
                    ELSE question.matches
           all == IF question.stated THEN question.matches ELSE returned
           onward == IF returned = 0 THEN "rendering" ELSE GoOn
           left == IF n = 0 THEN "rendering" ELSE GoOn
<1>1. question.pc = "asking" /\ reply' = reply /\ question \in Question
  BY DEF PartRefused, RequestFinds, DetailsAnswer, PartAnswers, RequestFails, QuestionInv
<1>2. /\ question.records \in Nat /\ question.matches \in Nat /\ question.limit \in Nat
      /\ question.records <= question.matches /\ question.total \in 0..MaxMatches
      /\ question.matches <= MaxMatches /\ MaxMatches \in Nat
      /\ question.step \in Nat /\ question.step + 1 \in Nat
      /\ question.parts \cup {question.step} \subseteq Nat
      /\ GoOn \in {"asking", "rendering"}
  BY <1>1, GoesOn, StepCounts, QueryToolsAssumption DEF Question
<1>3. CASE PartRefused \/ (RequestFails /\ Request = "extra")
  <2>1. \E parts \in SUBSET Nat :
           question' = [question EXCEPT !.pc = GoOn, !.step = @ + 1, !.parts = parts]
    <3>1. CASE PartRefused
      BY <1>2, <3>1 DEF PartRefused
    <3>2. CASE RequestFails /\ Request = "extra"
      <4>1. question' = [question EXCEPT !.pc = GoOn, !.step = @ + 1, !.parts = question.parts]
        BY <1>1, <3>2 DEF RequestFails, Question
      <4> QED BY <1>1, <4>1 DEF Question
    <3> QED BY <1>3, <3>1, <3>2
  <2>2. /\ question' \in Question /\ question'.pc = GoOn /\ question'.tool = question.tool
        /\ question'.step = question.step + 1 /\ question'.matches = question.matches
        /\ question'.records = question.records /\ question'.total = question.total
    BY <1>1, <1>2, <2>1 DEF Question
  <2> QED BY <1>1, <1>2, <2>2, AnswerReplyInv
<1>4. CASE RequestFinds
  <2>1. question' = [question EXCEPT !.records = returned, !.step = @ + 1, !.total = all, !.pc = onward]
    BY <1>4 DEF RequestFinds
  <2>2. returned \in Nat /\ returned <= question.matches /\ all \in 0..MaxMatches
    BY <1>2 DEF AtMost
  <2>3. onward \in {"asking", "rendering"} /\ (onward = "asking" => GoOn = "asking")
    BY <1>2
  <2> HIDE DEF returned, all, onward
  <2>4. /\ question' \in Question /\ question'.pc = onward /\ question'.tool = question.tool
        /\ question'.step = question.step + 1 /\ question'.matches = question.matches
        /\ question'.records = returned /\ question'.total = all
    <3>1. all \in Nat /\ question.step + 1 \in Nat
      BY <1>2, <2>2
    <3> QED BY <1>1, <2>1, <2>2, <2>3, <3>1 DEF Question
  <2> QED BY <1>1, <2>2, <2>3, <2>4, AnswerReplyInv
<1>5. CASE DetailsAnswer(n)
  <2>1. /\ question' = [question EXCEPT !.records = n, !.step = @ + 1, !.pc = left]
        /\ n <= question.matches
    BY <1>2, <1>5 DEF DetailsAnswer
  <2>2. left \in {"asking", "rendering"} /\ (left = "asking" => GoOn = "asking")
    BY <1>2
  <2> HIDE DEF left
  <2>3. /\ question' \in Question /\ question'.pc = left /\ question'.tool = question.tool
        /\ question'.step = question.step + 1 /\ question'.matches = question.matches
        /\ question'.records = n /\ question'.total = question.total
    BY <1>1, <1>2, <2>1, <2>2 DEF Question
  <2> QED BY <1>1, <1>2, <2>1, <2>2, <2>3, AnswerReplyInv
<1>6. CASE PartAnswers(n)
  <2>1. /\ question' = [question EXCEPT !.records = @ + n, !.step = @ + 1, !.pc = GoOn]
        /\ n <= IF Request = "part" THEN question.matches - question.records ELSE 0
    BY <1>6 DEF PartAnswers
  <2>2. question.records + n \in Nat /\ question.records + n <= question.matches
    BY <1>2, <2>1
  <2>3. /\ question' \in Question /\ question'.pc = GoOn /\ question'.tool = question.tool
        /\ question'.step = question.step + 1 /\ question'.matches = question.matches
        /\ question'.records = question.records + n /\ question'.total = question.total
    BY <1>1, <1>2, <2>1, <2>2 DEF Question
  <2> QED BY <1>1, <1>2, <2>2, <2>3, AnswerReplyInv
<1> QED BY <1>3, <1>4, <1>5, <1>6

\* The tool is called, or the call ends without records.
LEMMA EndsReplyInv ==
    ASSUME QuestionInv, ReplyInv,
           \/ CallRefused \/ (RequestFails /\ Request # "extra")
           \/ \E tool \in Tool, limit \in Nat, matches \in 0..MaxMatches, stated \in BOOLEAN :
                 CallTool(tool, limit, matches, stated)
    PROVE  ReplyInv'
<1>1. CASE CallRefused \/ (RequestFails /\ Request # "extra")
  <2>1. reply' = [NoReply EXCEPT !.says = "failed"] /\ question \in Question
    BY <1>1 DEF CallRefused, RequestFails, QuestionInv
  <2>2. /\ question'.pc = "answered" /\ question'.tool = question.tool
        /\ question'.step = question.step /\ question'.matches = question.matches
        /\ question'.records = question.records /\ question'.total = question.total
    BY <1>1, <2>1 DEF CallRefused, RequestFails, Question
  <2>3. reply'.says = "failed" /\ reply'.shown = 0 /\ reply'.returned = 0
    BY <2>1 DEF NoReply
  <2>4. ~reply'.cut
    BY <2>1 DEF NoReply
  <2>5. reply'.shown <= reply'.returned
    BY <2>3
  <2> QED BY <2>2, <2>3, <2>4, <2>5 DEF ReplyInv, QTypeOK
<1>2. ASSUME NEW tool \in Tool, NEW limit \in Nat, NEW matches \in 0..MaxMatches,
             NEW stated \in BOOLEAN, CallTool(tool, limit, matches, stated)
      PROVE  ReplyInv'
  <2>1. /\ question'.pc = "asking" /\ question'.tool = tool /\ question'.matches = matches
        /\ question'.step = 1 /\ question'.records = 0 /\ question'.total = 0 /\ reply' = reply
    BY <1>2 DEF CallTool, Unasked
  <2>2. 1 <= Len(tool.requests)
    <3>1. Len(tool.requests) \in 1..3
      BY ToolsOK DEF ToolOK, AsksOK
    <3> QED BY <3>1
  <2>3. 0 \in 0..MaxMatches /\ 0 <= matches /\ 1 \in 1..4
    BY QueryToolsAssumption
  <2> QED BY <2>1, <2>2, <2>3 DEF ReplyInv, QTypeOK
<1> QED BY <1>1, <1>2

LEMMA FormatReplyInv ==
    ASSUME QuestionInv, ReplyInv, NEW k \in Nat, FormatReply(k)
    PROVE  ReplyInv'
<1> DEFINE tool == question.tool
           n == question.records
           text == InText(tool, n)
           says == CASE question.parts # {} -> "in part"
                     [] question.parts = {} /\ n = 0 -> tool.none
                     [] OTHER -> "records"
<1>1. /\ question.pc = "rendering" /\ question \in Question
      /\ question' = [question EXCEPT !.pc = "answered"]
      /\ reply'.says = says /\ reply'.returned = n /\ reply'.shown = k
      /\ reply'.cut = TextLarge(tool, n) /\ reply'.ref = IsKept(tool, n)
      /\ IF TextLarge(tool, n) THEN k < text ELSE k = text
  BY DEF FormatReply, QuestionInv
<1>2. tool.none \in {"none found", "failed", "empty record"}
  BY <1>1, ToolsOK DEF ReplyInv, ToolOK
<1>3. says \in {"failed", "in part", "none found", "empty record", "records"}
  BY <1>2
<1>4. n \in Nat /\ RenderedFirst \in Nat
  BY <1>1, QueryToolsAssumption DEF Question
<1>5. k <= n
  <2> HIDE DEF n
  <2>1. text \in Nat /\ text <= n
    BY <1>4 DEF InText, AtMost
  <2>2. k < text \/ k = text
    BY <1>1
  <2> HIDE DEF text
  <2> QED BY <1>4, <2>1, <2>2
<1>6. reply'.cut => reply'.ref
  BY <1>1 DEF IsKept
<1>7. /\ question'.pc = "answered" /\ question'.tool = question.tool
      /\ question'.step = question.step /\ question'.matches = question.matches
      /\ question'.records = question.records /\ question'.total = question.total
  BY <1>1 DEF Question
<1> QED BY <1>1, <1>3, <1>5, <1>6, <1>7 DEF ReplyInv, QTypeOK

LEMMA NextReplyInv == QuestionInv /\ ReplyInv /\ [QNext]_queryVars => ReplyInv'
<1> SUFFICES ASSUME QuestionInv, ReplyInv, [QNext]_queryVars PROVE ReplyInv'
  OBVIOUS
<1>1. 1..MaxQueryLimit \subseteq Nat /\ 0..MaxMatches \subseteq Nat
  BY QueryToolsAssumption
<1>2. CASE \E tool \in Tool, limit \in 1..MaxQueryLimit, matches \in 0..MaxMatches,
             stated \in BOOLEAN : CallTool(tool, limit, matches, stated)
  BY <1>1, <1>2, EndsReplyInv
<1>3. CASE CallRefused
  BY <1>3, EndsReplyInv
<1>4. CASE RequestFails
  BY <1>4, EndsReplyInv, AsksReplyInv, 0 \in Nat
<1>5. CASE PartRefused \/ RequestFinds
  BY <1>5, AsksReplyInv, 0 \in Nat
<1>6. ASSUME NEW n \in 0..MaxMatches, DetailsAnswer(n) \/ PartAnswers(n) \/ FormatReply(n)
      PROVE  ReplyInv'
  BY <1>1, <1>6, AsksReplyInv, FormatReplyInv
<1>7. CASE UNCHANGED queryVars
  BY <1>7 DEF queryVars, ReplyInv, QTypeOK
<1> QED BY <1>2, <1>3, <1>4, <1>5, <1>6, <1>7 DEF QNext

\* A one-question tool keeps its types from its first request to its answer.
THEOREM QueryTypeOK == QuerySpec => []QTypeOK
<1>1. ReplyInv => QTypeOK
  BY DEF ReplyInv
<1> QED BY <1>1, InitQuestionInv, NextQuestionInv, InitReplyInv, NextReplyInv, PTL DEF QuerySpec

\* An answer that had to be cut can be read in full from the store, for every
\* tool but those of HalfRead (format_text_response, select_records).
THEOREM CutAnswersReadable == QuerySpec => []CutIsReadable
<1>1. ReplyInv => CutIsReadable
  <2> SUFFICES ASSUME ReplyInv, reply.cut, question.tool \notin HalfRead
               PROVE  reply.ref /\ ReadsBack(question.tool.payload)
    BY DEF CutIsReadable
  <2>1. question.tool \in Tool \/ question.tool = NoTool
    BY DEF ReplyInv, QTypeOK
  <2>2. CASE question.tool \in Tool
    BY <2>2, ToolsOK DEF ToolOK, ReplyInv
  <2>3. CASE question.tool = NoTool
    <3>1. question.tool.payload = <<>>
      <4>1. \A p : Listed(ById, p).payload = p
        BY DEF Listed
      <4> QED BY <2>3, <4>1 DEF NoTool
    <3>2. Range(<<>>) = {}
      BY DEF Range
    <3> QED BY <3>1, <3>2, NoListReadsBack DEF ReplyInv
  <2> QED BY <2>1, <2>2, <2>3
<1> QED BY <1>1, InitQuestionInv, NextQuestionInv, InitReplyInv, NextReplyInv, PTL DEF QuerySpec

-----------------------------------------------------------------------------
(* The tools side by side (MCReadTools).  One that is not at work is in one  *)
(* of its initial states, and a step of the whole is a step of one tool and  *)
(* leaves the others alone, so that the whole implements the specification   *)
(* of each, and what is proved of one holds of the whole.                   *)

LEMMA IdlePaging == PIdle => PInit
<1> SUFFICES ASSUME PIdle PROVE PInit
  OBVIOUS
<1>1. size \in [1..0 -> 1..MaxSize] /\ null \in [1..0 -> BOOLEAN]
  BY DEF PIdle
<1>2. 0 \in 0..MaxRecords /\ 0 \in 0..MaxRecords + 1
  BY PagingAssumption
<1> QED BY <1>1, <1>2 DEF PIdle, PInit

LEMMA IdleListing == BIdle => BInit
<1> SUFFICES ASSUME BIdle PROVE BInit
  OBVIOUS
<1>1. 0 \in 0..MaxListed /\ 1 \in 1..ListingCap
  BY NgsiemListingAssumption
<1>2. Paged \in ListTool /\ TRUE \in Paged.detail /\ TRUE \in BOOLEAN
  BY DEF ListTool, Paged, ngsiem_list_saved_queries
<1> QED BY <1>1, <1>2 DEF BIdle, BInit

LEMMA IdleRules == LIdle => LInit
<1> SUFFICES ASSUME LIdle PROVE LInit
  OBVIOUS
<1>1. 0 \in 0..MaxRule /\ 1 \in -MaxRules..MaxRules
  BY RuleListingAssumption
<1>2. newest = 0 /\ catalogue = [i \in 1..0 |-> i] /\ matching \in SUBSET Rule
  BY DEF LIdle
<1>3. \E max \in -MaxRules..MaxRules : listing = NewListing(max)
  BY <1>1 DEF LIdle
<1>4. changes = [made |-> 0, removed |-> 0, unstated |-> FALSE, skipped |-> FALSE]
  BY DEF LIdle
<1> QED BY <1>1, <1>2, <1>3, <1>4 DEF LInit

LEMMA IdleTimeline == TIdle => TInit
<1> SUFFICES ASSUME TIdle PROVE TInit
  OBVIOUS
<1>1. 0 \in 0..MaxRisks /\ 0 \in 0..MaxChanges /\ 1 \in -MaxRows..MaxRows
  BY TimelineAssumption
<1>2. <<>> \in [1..0 -> Times] /\ <<>> \in [1..0 -> Time]
  OBVIOUS
<1>3. asked \in [risk : {All, 1}, since : {All} \cup Time, rows : -MaxRows..MaxRows] /\ timeline = NoTimeline
  BY <1>1 DEF TIdle
<1>4. asset = [risks |-> <<>>, seen |-> <<>>, changes |-> <<>>]
  BY DEF TIdle
<1>5. \A i \in 1..0 : <<>>[i] # <<>> => <<>>[i] = 1
  OBVIOUS
<1> QED BY <1>1, <1>2, <1>3, <1>4, <1>5 DEF TInit

LEMMA IdleAlerts == WIdle => WInit
<1> SUFFICES ASSUME WIdle PROVE WInit
  OBVIOUS
<1>1. 0 \in 0..MaxAlerts /\ 1 \in 1..MaxAlertPage /\ 1..0 = {}
  BY AlertListingAssumption
<1>2. walk = [FirstCall EXCEPT !.max = 1]
  BY DEF WIdle, FirstCall
<1> QED BY <1>1, <1>2 DEF WIdle, WInit

LEMMA InitOfEachRead ==
    ReadInit => PInit /\ SInit /\ BInit /\ LInit /\ TInit /\ NInit /\ QInit /\ WInit
BY IdlePaging, IdleListing, IdleRules, IdleTimeline, IdleAlerts DEF ReadInit

LEMMA StepOfEachRead ==
    ASSUME [ReadNext]_readVars
    PROVE  /\ [PNext]_pagingVars /\ [SNext]_searchVars /\ [BNext]_listingVars /\ [LNext]_ruleVars
           /\ [TNext]_timelineVars /\ [NNext]_inquiryVars /\ [QNext]_queryVars /\ [WNext]_alertVars
BY DEF ReadNext, readVars

\* The run's specification implements that of every one of its tools.
THEOREM ReadsImplement ==
    ReadSpec => /\ PagingSpec /\ SearchSpec /\ BrowseSpec /\ ListingSpec
                /\ TimelineSpec /\ InquirySpec /\ QuerySpec /\ WalkSpec
BY InitOfEachRead, StepOfEachRead, PTL
   DEF ReadSpec, PagingSpec, SearchSpec, BrowseSpec, ListingSpec, TimelineSpec, InquirySpec,
       QuerySpec, WalkSpec

\* The state of every tool that reads keeps its types, whichever is at work.
THEOREM ReadsTypeOK == ReadSpec => []ReadTypeOK
<1>1. PTypeOK /\ STypeOK /\ BTypeOK /\ LTypeOK /\ TTypeOK /\ NTypeOK /\ QTypeOK /\ WTypeOK => ReadTypeOK
  BY DEF ReadTypeOK
<1> QED BY <1>1, ReadsImplement, PagingTypeOK, SearchTypeOK, ListingTypeOK, RulesTypeOK,
           TimelineTypeOK, InvestigationTypeOK, QueryTypeOK, AlertsTypeOK, PTL
=============================================================================
