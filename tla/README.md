# TLA+ models of the CrowdStrike MCP server

crowdstrike-mcp is a Python server that gives a language model tools over the
CrowdStrike Falcon APIs. It speaks MCP over stdio (one tenant, credentials from
the environment) or over HTTP (many tenants, credentials with each request).
This directory holds models of the parts of it where the order of events
matters, TLC configurations that check them, and proofs for TLAPS.

Paths below are relative to the package, `src/crowdstrike_mcp/`.

## The system

| Component | State it keeps | Operations | Who touches it |
|---|---|---|---|
| Response store, `response_store.py` | per session key: entries (LRU order, TTL), counter, tombstones; an order of sessions | store, get, list_refs, get_tombstone, clear_session, clear_credential_sessions | every tool (through `utils.format_text_response`), the retrieval tools, the session middleware |
| Session authentication, `common/session_auth.py` | `_client_cache`: client and last access per credential | middleware: evict stale, hit, miss, evict LRU, authenticate, forward | event loop; clears the store |
| OAuth2 client, `client.py` | `_auth`, its lock; falconpy's token; the refresh lock | auth_object, auth_headers, login | every API call of every worker thread |
| Tool offloading, `modules/base.py` | the default executor | `_offloaded`, `_get_auth`, `_get_client_id`, `_add_tool` | every tool |
| Response formatting, `utils.py` | none | format_text_response: cut, store, name the reference | every tool |
| Stored response paging, `modules/response_store.py` | none; a caller keeps the offset | get_stored_response, list_stored_responses | the model calling the tools |
| NGSIEM, `modules/ngsiem.py` | none here, a query job at LogScale | search: start, diagnose, poll, stop; seven content listings and two single-record tools | one worker thread and LogScale |
| Alerts, `modules/alerts.py` | the NGSIEM event cache | get, analyze, update | worker threads, a pool of query threads, other users of the API |
| Threat graph, `modules/threat_graph.py`, `resources/threatgraph_reference.py` | the edge-type cache | resource read, refresh tool, pivots | event loop and worker threads |
| Host response, `modules/response.py` | exclusions (read once), the audit log file | contain, lift | worker threads, the console |
| Real time response, `modules/rtr.py` | allow-list (read once), the audit log file | init, pulse, execute, status, files | worker threads |
| Case management, `modules/case_management.py` | none here, versioned cases at Falcon | query, create, update, tags, evidence, files | worker threads |
| Correlation rules, `modules/correlation.py` | none here; template files of a detections repository | list, get, export, update, templates, import to a file | worker threads, whoever edits rules |
| Cloud security, `modules/cloud_security.py` | none | risk timeline (merged, filtered, sorted, cut here), queries | worker threads |
| Identity protection, `modules/idp.py` | none | resolve entities, then up to four investigations | worker threads |
| Hosts, spotlight, CAO hunting, cloud registration | none | one question each, laid out | worker threads |
| Start-up, API keys, health, errors, scopes, FQL guides | none that changes | | |

How they interact. The middleware runs on the one event loop and does not await
before it forwards a request, so one request at a time is inside it. It sets two
context variables, the session's client and its partition key. A tool body runs
on a worker thread with a copy of that context (`asyncio.to_thread`), so a call
keeps its credentials and its partition whatever the middleware does afterwards.
Modules are built once and their instances serve every session, so that their
caches are shared by tenants. Every large result goes through the response store:
the text is cut, the structured data is stored, and the caller pages through it
with get_stored_response.

What is hard: calls of several sessions in any order at the caps of the store;
evictions by the middleware while worker threads still store; a token that goes
stale between two checks; caches checked and filled in separate lock sections;
an API that answers an error after it has acted, or not at all; audit lines that
must be written whatever the API answers; a poll loop that must clean up after
itself on every way out; listings made of several requests while others make and
remove what is listed; a file that is checked for, opened and written in three
steps, in a process that may be killed.

What makes each component correct, in short:

- store: the dictionaries agree, caps hold, references mean one thing, what is
  in use is not evicted, every miss is explained and explained truthfully;
- session authentication: the cap holds, the right credential is evicted, all of
  its data and nobody else's goes, every request is answered;
- OAuth2 client: one auth object, one login at a time, no stale header, no repeated
  refresh, no deadlock;
- paging: each record once, in order, in pages that fit, to the end;
- NGSIEM search: the call returns, and jobs given up on are stopped;
- listings and reports: nothing twice, nothing left out that was there throughout,
  no failure taken for an empty result, no part given as the whole, and what is cut
  can be read back;
- caches: a tenant gets its own data, a refresh is fresh, a repeat is a hit;
- writes: success is not reported for what was never so, excluded hosts are not
  touched, what took effect is in the audit log, an update undoes nobody else's, a
  template file that was reported as written stays.

## The modules

| Module | Models | Correspondence |
|---|---|---|
| `ResponseShelf` | what the store promises its callers | an abstract specification: shelves of responses under references that count up; what makes room is left open |
| `ResponseStore` | class `ResponseStore` | a method is an action (they all run under one lock): `Store`, `Get` (= `GetHit` or `GetExpired` or nothing), `ClearSession`, `ClearCredentialSessions`; ordered dictionaries are sequences, oldest first. `KeepsShelf` is ResponseShelf's specification under the mapping of sequences to sets |
| `ResponseStoreHistory` | the same, with history | records what each reference was issued for and what has been used or stored to since, for properties that speak of the caller's side |
| `SessionAuth` | the middleware, composed with `ResponseStore` and worker threads | `loop` is the request inside the middleware, one action per phase; `calls` are the running tool bodies |
| `OAuthRefresh` | `FalconClient.auth_object`, `_ThreadSafeOAuth2` | one action per unlocked read, lock, exchange and write; falconpy's `OAuth2` is external |
| `StoredResponsePaging` | get_stored_response by fields or search | one action per answer; `IsPage` is `_fit_page` |
| `NgsiemSearch` | `_execute_query`, `_raw_start_search_error` | one action per API answer and per turn of the loop; LogScale's jobs are external |
| `NgsiemListing` | the seven content listings: `_call_and_unwrap`, `_format_list` | one action per page; the caller follows the hint of each page as far as the tool takes an offset |
| `AlertListing` | get_alerts | two actions per page (ids and total, then details, in any order); alerts arrive and leave the filter between them |
| `RuleListing` | correlation_list_rules, `_list_rules` | an action per page of ids, per batch of rules and for the filter; rules are made and removed meanwhile |
| `RiskTimeline` | cloud_get_risk_timeline | the filters, the merge, the sort and the cut as operators; the one request fails, or its answer is laid out |
| `Investigation` | identity_investigate_entity | resolving, then one action per GraphQL request; what a details or risk request gives is any part of what it asks for |
| `QueryTools` | every tool that asks one question, `format_text_response`, `select_records` | a tool is a record: its requests (by the internal method that makes them), what it calls an empty result, what it renders and stores; the actions are the course all of them take |
| `EdgeTypeCache` | `ThreatGraphEdgeTypeCache`, its resource and refresh tool | one action per lock section and per fetch |
| `AlertEvents` | `_get_related_ngsiem_events` with its cache and query pool | one action per lock section, query answer and phase |
| `AlertUpdate` | `_update_alert_status`, `_verify_status_applied` | one action per API answer |
| `Containment` | host_contain, host_lift_containment | lookup, action and audit line are an action each |
| `RtrCommands` | rtr_execute_command | request, answer and audit line are an action each |
| `CaseUpdate` | the case tools that change a case | `case_update`'s read and its patch are an action each, the other tools one; the API's versions are external |
| `IacImport` | correlation_import_to_iac | the fetch, the check, the opening and the writing are an action each; the process may be killed |
| `MCResponseStoreHistory`, `MCSessionAuth` | instances for TLC | constants |
| `MCModuleTools` | the tools that act, and the client they share | eight modules that share nothing, side by side: edge types, alert events, alert update, containment, RTR, cases, tokens, import |
| `MCReadTools` | the tools that read | eight modules side by side: paging, search, content listings, rule listing, risk timeline, investigation, one-question tools, alert listing |
| `Ranking` | | the elements of a finite set in an order, the elements of a list that pass a filter, a slice: by counting, without recursion, so that the listings can be reasoned about |
| `ResponseStoreProofs`, `ResponseStoreHistoryProofs` | | theorems about `ResponseStore!Spec` and `HSpec` |
| `SessionAuthProofs`, `OAuthRefreshProofs`, `CaseUpdateProofs` | | theorems about the module of that name |
| `ListingProofs` | | theorems about `AlertListing`, `RuleListing` and `RiskTimeline` |
| `ModuleToolProofs`, `ReadToolProofs` | | theorems about the other modules of `MCModuleTools` and `MCReadTools`, and about these two |

Operators whose comment says "Mutant of X" are X with a plausible bug. Nothing
uses them; they exist so that each property can be seen to fail when put in X's
place.

Abstractions. A response, record, alert or host is a model value or a number; a
reference `resp_007` is 7. Wording, layout and logging are left out; the size of a
text is a number per record, since what is cut and stored depends on it. A row of
the risk timeline is the place of its record in the asset's history. A record
that `format_text_response` cuts in the middle counts as not shown. HTTP answers
are the set of kinds the code tells apart, chosen freely: an error may come after
the effect, an answer may be lost, a total may be missing.

## The runs

| Run | Module | Properties | Instance |
|---|---|---|---|
| Store | MCResponseStoreHistory | TypeOK, PartitionsAgree, Bounded, RefsDistinct, MissExplained, Truthful, RecentStays, KeepsShelf | 3 partitions of 2 credentials for 2 places, 2 entries and 1 tombstone per partition, 3 references, TTL 1 of clock 0..2 |
| SessionAuth | MCSessionAuth | GTypeOK, EvictionWipes, EvictionSparesOthers, EvictionJustified, RequestsAnswered | 3 credentials (4 partitions) for a cache of 2 and a store of 2 partitions, 1 worker |
| ModuleTools | MCModuleTools | ToolTypeOK, EdgeTypesOfOwnTenant, LoneRefreshIsFresh, RepeatAnsweredFromCache, NonThirdpartyNeverMasked, ReportedStatusReached, ProtectedNeverContained, ActionsAudited, OneAuthObject, LoginExclusive, HeaderRefreshed, WaitersDoNotRepeat, WrittenTemplateStays, UpdatesWhatItRead, CallsReturn | 2 tenants with 2 versions of their edge types, the loop and one refresher; 2 analysts; one update of 3 alerts of which 2 are third-party; 2 responders on one host; one operator with 4 base commands; 2 editors and the console on one case of 2 fields and 3 versions; 3 threads with a call each and 3 tokens; 2 importers of 2 rules to 2 paths |
| ReadTools | MCReadTools | ReadTypeOK, InOrderOnce, EndMeansAll, GivenUpIsStopped, TimelineIsNewestPart, ListingCounts, ReportIsWhole, HintsLeadThrough, AnswerIsHonest, CutIsReadable, OffsetsLeadToAll, ReadsEnd | see below |

What they show. Store: the dictionaries stay consistent, bounded and
unambiguous; a reference gives back what it was issued for, what is in use stays,
a miss is explained, and truthfully, unless the tombstones are full; every step is
one the abstract shelf allows. SessionAuth: every eviction is of a stale or the
least recently accessed credential, it wipes that credential's responses and no
other's, and every request is answered. ModuleTools: tenants get their own edge
types, a repeated analysis comes from the cache, a failed update is not reported
as done, excluded hosts stay untouched, every action leaves its audit line, an
update of a case overwrites nobody's change, a written template stays, and there
is one auth object, one login at a time, no refresh twice, and every call returns.
ReadTools: what the reading tools list is in order, without gap or repetition,
what they call whole is whole, a search is stopped and returns, and what is cut
off can be read back.

Bounds and why they are enough:

- Store: each cap is reached and exceeded by one; a third reference makes an entry
  cap of 2 and a tombstone cap of 1 overflow in turn; the clock reaches TTL and
  TTL + 1. `Alternating` (a constraint on states) fixes which of two responses a
  reference is issued for by its parity, so that neighbouring references differ:
  the store never looks at a response, so nothing else is lost. MaxRef and MaxTime
  stop the run, and the store really goes on: deadlock is not checked there, and
  likewise in SessionAuth.
- SessionAuth: three credentials make a cache of 2 evict, one credential with a
  bare and a connection's partition makes the prefix match matter, and a partition
  cap below the number of partitions makes the store displace as well. MaxRef is
  1: references are the Store run's business.
- ModuleTools: two actors of each kind where the actors interact, and three for
  the token, where one can log in, one wait and one arrive; the tool at work is
  chosen at the start, so that the state space is the sum of eight, not their
  product. Three versions of a case let it change before and after it is read. Two
  importers can meet at one path, and the process can be killed between any two of
  their steps. Calls are finite, hence CHECK_DEADLOCK FALSE; CallsReturn is
  stronger than the absence of deadlock.
- ReadTools, likewise one tool per behaviour. Paging: up to 3 records of sizes 1..4
  in every mix of nulls, a budget of 3 (a record can equal and exceed it), pages of
  1..3. Search: timeout 5 and interval 2, so that the deadline falls inside a
  sleep. Content listings: up to 5 records with limits up to 3 (three pages, the last
  one short), 2 rendered, and sizes and a threshold with which a page can be stored
  for its text, for its data, or not at all. Rules: up to 4 ever made, ids in
  pages of 2 and rules in batches of 2 in any order, max_results -2..2, two changes
  meanwhile, so that a call can meet a rule removed and another made. Timeline: times
  1..2 with equal ones, 2 risks with up to 2 events, a change, max_results -2..2.
  Investigation: 2 entities, details of one at most, a limit of up to 2, and up to four
  investigations, all four types and repetitions among them. One-question tools: 45 tools, up to 4
  matches, limits up to 3. Alerts: 4, pages of 2, one leaves the filter. Every call
  ends, hence CHECK_DEADLOCK FALSE; ReadsEnd says that it does.

Fairness. SessionAuth: the event loop runs what is ready and a token exchange
answers or times out (FALCON_MCP_HTTP_TIMEOUT), so `LoopStep` is weakly fair;
clients and tools are not. ModuleTools: each thread of the token refresh is
scheduled; each makes finitely many calls, so that weak fairness of its steps is
enough for the locks. ReadTools: the caller of the paging keeps asking; the thread
of a search is scheduled, each HTTP call has a time-out of its own, and time
passes; LogScale's job may run for ever.

### Disagreements the runs show

| Run | What the code does | What is said of it |
|---|---|---|
| LateStore (DataDoesNotOutliveCredential) | a call that outlives the eviction of its credential stores into a partition nobody will clear | response_store.py:338-341 |
| DuplicateRefresh (NoDuplicateRequest) | a token that expires between the outer and the inner check lets two threads log in one after the other | client.py:74-76 |
| PagingDrop (NothingDropped) | one all-null window ends the paging with no next offset | modules/response_store.py:152-154 |
| OrphanedSearch (NoKnownOrphan) | one refused status check leaves the job running | modules/ngsiem.py:376-378 |
| AlertUnapplied (SuccessMeansApplied) | a genuine 500 counts as applied when the alerts have the status anyway | modules/alerts.py:288 |
| AlertUnenriched (FailureHasACause) | indicator queries run on threads without the session's context, so over HTTP no NG-SIEM alert is ever enriched | README.md:208 |
| SinceDrops (SinceDropsOlderOnly) | a risk without events is dropped by every `since`, however recently it was seen | modules/cloud_security.py:427 |
| MoreLine (MoreLineFollowable) | 31 or more short policies are neither all rendered nor stored | modules/cloud_registration.py:151-152 |

AlertUnenriched also means that the tenant-keyed event cache (alerts.py:72-83)
never gets an entry over HTTP, the only mode with several tenants; a property that
it keeps tenants apart would hold for that reason alone, so none is stated.

Met while modelling, and not given a run. Store and sessions:

- response_store.py:212 says references are never reused; a partition that was
  displaced or cleared restarts at resp_001. RefsDistinct and Truthful are about
  one life of a partition.
- response_store.py:216-217 says the TTL bounds how long data stays resident;
  expiry is acted on only by a get of that reference (278-281).
- session_auth.py:117 evicts the least recently accessed tenant before the new
  credential is known to be good; refused credentials cost a tenant its session.
- client.py:162-185 lets the first calls race to make the OAuth2 object, and OneAuthObject
  is about that method alone: the server authenticates a client before any tool
  can use it (server.py:102, session_auth.py:124), so no first calls meet there.

Alerts, hosts, commands, cases:

- alerts.py:226 says max_events is the maximum retrieved; a cached answer was
  retrieved for the first caller's (598).
- alerts.py:560 takes the status for applied when it is there at the re-fetch;
  an edit between the refused update and the re-fetch may have put it there.
- alerts.py:136 annotates the update as idempotent; a retry after a lost answer
  appends its comment again.
- alerts.py:440 counts the details it got, not the ids it asked for: when details
  are missing the next offset lies inside the page, and the last alerts of it are
  listed again. OffsetsLeadToAll allows the repetition.
- alerts.py:385 takes the number of ids for the total when none is stated: the
  listing then ends at that page. OffsetsLeadToAll excuses it ("unstated").
- alerts.py:404 shows the details in the order the API gives them: the sort asked for
  (alerts.py:370-375) holds between pages, and not within one.
- alerts.py:341 computes the window from local time and labels it UTC.
- response.py:279 says "regardless of outcome"; when perform_action raises, no
  line is written (310-311). ContainmentAudited excuses that case.
- The preview of host_contain is offered, not enforced: a first call with
  confirm=True acts.
- rtr.py:149-150 says every invocation is logged; a call without session or
  device id that passes the allow-list is not (480-481).
- case_management.py:841: when the answer of create_case is lost the caller is
  told that it failed, and a repetition makes a second case. `CreateCase` has that
  outcome; the request holds no key by which anything could tell.

Reading tools:

- correlation.py:308 leaves a refused batch out, and the total is of what is
  left; only the server's log says so. ListingCounts excuses that case.
- correlation.py:323 and cloud_security.py:152 cut at a max_results that nothing
  clamps: 0 shows nothing, a negative one all but the last so many. `Cut` is that
  slice, and both properties state the length for every sign.
- correlation.py:292 pages by offset. That no rule is listed twice rests on the API
  listing rules in the order in which they were made and using no id again; this is
  the model's assumption about the API. Rules are made and removed in one call.
- correlation.py:480 and 494: the file is checked for and opened in two steps, so
  that two imports to one path may both write, the later over the earlier; and
  a process killed between opening and writing leaves an empty file that refuses
  every later import. WrittenTemplateStays is about a template that no import
  contested.
- idp.py:299-301 and 328-340 take whatever nodes the API gives, of the first 50
  entities at most (idp.py:280, 313), and compare them with nothing; entity_ids are
  not resolved (idp.py:128-131). An id of no entity is therefore printed among the
  "Resolved entity IDs", without details or risks, with 0 events and 0 associations,
  and no failure. In the model the API gives any part of what it is asked for, and
  ReportIsWhole promises nothing of details and risks but that the result is there; of
  timelines and relationships it promises a request for each entity.
- idp.py:200 puts names and IP addresses under one argument of the query, which
  then has it twice: such a call always fails.
- idp.py:792 stores the entity ids beside the investigations, and select_records
  takes the ids; cloud_security.py's timelines store two lists, of which it takes
  one. What is cut from the text of these tools (`HalfRead`) is in the store but
  not in what get_stored_response reads, against
  tests/test_large_response_recoverability_sweep.py:1.
- ngsiem.py:717 renders 50 records and stores a page only if it is large; of a
  page of more short records the rest is lost, and the hint passes over it, the
  defect tests/test_list_pagination.py:14 means to exclude. HintsLeadThrough
  excuses them. The hint is given by tools that take no offset as well (1046).
- hosts.py:224 asks for 10 devices of a host name and does not say that there may
  be more; spotlight_host_vulns shows a next page token and takes none
  (spotlight.py:376); cao_hunting.py:121 shows 300 characters of a query's content,
  and ngsiem.py:749 2000 of a value.
- cloud_registration.py:195: when one provider refuses, the answer lists the
  accounts of the others and names the refusal. AnswerIsHonest asks that of it.

## The proofs

Each theorem is for every value of the constants, and every safety property that a
passing run checks is stated by one. The assumptions are the named
ASSUMEs of the modules (the caps are positive naturals, the sets of sessions,
entities and threads are what the code has, there is a rule and a path), which
TLC evaluates on each run.
What an API does (the versions of a case, a job of LogScale, the state of a host)
is the model's assumption about it, not a result.

### The response store

`ResponseStoreProofs` proves for every set of sessions and credentials, every cap
and every TTL: StoreTypeOK, StorePartitionsAgree, StoreBounded, StoreRefsDistinct
and StoreMissExplained, each `Spec => []P` for the property of that name.

The argument. None of the later properties is inductive alone: that references
are distinct needs that none is ahead of the counter, that the counter is right
needs that the dictionaries agree, and that a miss is explained needs that an
eviction finds the evicted reference absent from the tombstones. Their
conjunction `IInv` is inductive; TLC checks every conjunct in the Store run.
Apart from the order of sessions, `IInv` is a conjunction over partitions
(`PartOK`, lemma IInvByPartition), so each step shows that the partitions it
touches stay right and that the others are unchanged. What happens in one
partition is in lemmas on sequences alone: EvictEntry (the head goes and leaves
a tombstone), TouchEntry (an entry moves to the end), InsertEntry (the next
reference is appended), with RemoveAtProperties and KeepLastProperties beneath
them; TouchedProperties and InOrderProperties do the same for the order of
sessions. NextIInv has one step per action.

The same module proves StoreKeepsShelf, `Spec => KeepsShelf`: the store
implements ResponseShelf under the mapping that forgets all orders and tombstones.
The shelf's caps are about sizes of sets, the store's about lengths of sequences,
and these agree because nothing is listed twice, which is part of `IInv`. Each step
is mapped on its own: `Store` to a store that displaces a session and an entry if
there is no room (DisplacedMakesRoom: the one displaced makes just enough), a hit
to a stutter, an expired read to the shelf's expiry, the clears to clears. PTL
combines the initial states, the steps and `[]IInv`.

`ResponseStoreHistoryProofs` proves, of the store with history, StoreTruthful and
StoreRecentStays. The second is the least-recently-used promise: a reference within
its TTL stays while fewer than MaxEntries others of its partition have been used and fewer than
MaxSessions other partitions have been stored to since. The lists are the
code's, which only ever move what is used to the end; the proof turns them into
an order. Each entry of a list is behind those used since its own last use
(`Follows`), so the one at the front of a full list has been passed by all the
others (FrontPassed for entries, FrontRivalled for partitions, by counting), and
what is evicted there is not recent. The invariant `HInv` is IInv with
`HPartOK` for each partition (the history agrees with entries and tombstones) and
`RivalsOK` for the order of partitions. StoreTruthful needs the same invariant: a
reference gives back the response and age it was issued with, and a tombstone's
reason is the one by which the entry went. HistoryOnlyWatches, `HSpec => Spec`,
carries the theorems about `Spec` to the specification the Store run checks.

### Sessions and tokens

`SessionAuthProofs` proves AuthTypeOK, EvictionsWipe, EvictionsSpareOthers and
EvictionsJustified. The invariant `GInv` is IInv, the cache with the credential
inside the middleware counted (the cap holds also while it is being
authenticated), and `Wiped`: a partition whose credential is not cached and that
no late call stored to has given out no reference. Every step of the composition
is a step of the store or leaves it alone (StoreSteps), so IInv comes from
ResponseStoreProofs, and SessionsKeepShelf follows: whatever requests, evictions
and worker threads do, the store they share implements the shelf.

`OAuthRefreshProofs` proves RefreshTypeOK, OneObject, LoginsExclude,
NoRepeatBehindLock and HeadersRefreshed for any number of threads. `ObjectInv`: a thread past
auth_object holds the one object. `LockInv`: the owner and the depth of the
re-entrant lock say which threads can be where, so that no two are past the
second check, and a thread that holds it for a stale token finds it stale still
(`HolderOK`). `HeaderInv`: a token that was stale when a call began is behind as
soon as one is fresh or being installed, so behind the one the header carries
(`NewerOK`).

### The tools

`CaseUpdateProofs` proves, for any number of cases, editors, fields and values,
CaseTypeOK, CaseReadStillCurrent and CaseUpdatesWhatItRead. The last is about a
step: the patch succeeds only at the expected version, and a case that still has
the version that was read still has the contents that were read. That needs the
invariant ReadStillCurrent with its middle part, that no version is ahead of the
case, or a later change could reach a version already read. CaseUpdateAssumption:
there is a case id, a value, and a first version. That the API compares the
expected version is the model's assumption about the API, not a result.

`ModuleToolProofs` has one invariant per tool, each over all its threads:

- ExcludedNeverContained, EffectsAudited (`CInv`, `CallOK` for each responder): a
  call is on its way to contain only once its host was unprotected during it, and
  a call at rest that had an effect has its line or an excuse (the request raised,
  or the log could not be written).
- CommandsAudited (`RInv`, `CommandOK`): a command is sent only if it is allowed,
  has no line until it has its outcome, and has one at the end if it may have
  run, unless the log could not be written.
- FailuresNotMasked, StatusReached (`UInv`, `UpdateOK`): where in the update a
  call is says what was applied, and what the re-fetch has confirmed.
- RepeatsFromCache (`AInv`, `AnalysisOK`): an answered analysis has left its entry,
  and entries are not taken out.
- OwnEdgeTypes, LoneRefreshesFresh (`EInv`, `ReaderOK`): what a thread carries
  and what the cache holds under a key is of that tenant, and no older than the
  catalogue was when an undisturbed refresh began.
- TemplatesStay (`IacInv`): at a path that no two imports have been at together
  (`Apart`), the file is as the one that opened or wrote it left it.

ToolsImplement carries these to `MCModuleTools`, the specification the run checks:
each of its behaviours is one of every tool's, because the tool that was chosen at
the start steps and the others rest. AllActionsAudited (containment and commands)
and ToolsTypeOK (the types of all eight) are then conjunctions.

`ListingProofs` is about what is put in an order. A recursive sort or filter would
call for an induction the provers do not have. `Ranking` orders a finite
set by how many of its elements come before each, and RankedProperties shows that
this lists each element once, in order: an element has fewer before it than
those after it (FewerBefore), so the counts are distinct, and as there are as many
as places, every place is taken. AmongProperties is the same for a filter.

- OffsetsReachAll (`AlertsInv`): alerts that arrive push the others to later places
  and never to earlier ones, so what lies before the next offset has been listed, as
  long as nothing leaves; and in a catalogue at rest the offset counts the listed.
- RulesCounted (`RulesInv`): the rules are in the order in which they were made
  (`AsMade`), so an id that was given is older than every one at a place still to be
  asked for, whatever is removed or made, and nothing is listed twice (`ListedOnce`).
  While none is removed, the ids are those of the first rules (`IdsAreFirst`)
  and lack at most those made meanwhile (`NoneLeftOut`); the filter keeps as many of
  them as pass, so that the total is right by counting (AllButSome).
- TimelineIsNewest (`TimelineInv`): time, then risk before change, then place is a
  total order (OverIsOrder), so that the sorted rows are decreasing, the rows cut
  off are below those that stay, and the filters take exactly the records that
  `since` asks for (RowsSince).

`ReadToolProofs`:

- SearchesCleanUp (`SearchInv`): what a call knows to be running and has asked to
  stop, at each place of `_execute_query`.
- PagesInOrder, PagesToTheEnd (`PagingInv`): the offset is that of the first
  record not given.
- InvestigationsReportWhole (`InquiryInv`): there are the results of the
  investigations before the present one and of no other, those made entity by entity
  are of all entities, and the present one has done what it has not left.
- HintsLeadOn (`BrowseInv`): before each request the pages so far were whole ones,
  so that the place of a record in its page is the rest of a division.
- AnswersHonest (`QuestionInv`): each tool that tells the total learns it from its
  first request (ToolsAsk, tool by tool), and what follows leaves it alone; a
  failed request ends the call.
- CutAnswersReadable (the same invariant): an answer is cut only where a reference
  is handed out, and what is stored under it holds the records of the text.
- SearchTypeOK, PagingTypeOK, InvestigationTypeOK, ListingTypeOK, QueryTypeOK: types.

ReadsImplement carries these and the theorems of `ListingProofs` to `MCReadTools`,
as ToolsImplement does for the tools that act, and ReadsTypeOK combines the types.

Only model-checked: liveness (RequestsAnswered, CallsReturn, ReadsEnd), since the
prover handles neither fairness nor ENABLED. What the violation runs refute is
shown by TLC's counterexample.

## Not modelled

- `modules/base.py`, `registry.py`, `server.py`: discovery, registration and start-up
  run once before any concurrency; the executor's queue is Python's. The copy of
  the context in `_offloaded` and `_get_auth`'s choice appear in SessionAuth and
  AlertEvents.
- The API-key check, the health route, error texts, scopes and FQL guides: no
  state that changes.
- The layout of answers, the parsing of ids and headers, the conversion of times,
  and the middleware's pass-through without credentials, which changes no state.
- Stored responses by index, key or dot path: one get of the store.
- correlation_update_rule, a single PATCH without a read before it; starting and
  pulsing an RTR session, whose state is the API's; fetching an RTR file's contents,
  one request and one write; an alert's endpoint behaviors, one request.

## Plan

Done, in this order: ResponseStore and its proofs, ResponseStoreHistory,
SessionAuth, OAuthRefresh, StoredResponsePaging, NgsiemSearch, the tools that act;
then ResponseShelf and its refinement, the reading tools, the template import, and
the proofs of every safety property of all of them, the listings last.

What would add most from here:

1. get_stored_response as its three calls on the store (get, get_tombstone,
   list_refs), which take the lock one after another, so that another call may
   come between a miss and its explanation.
2. `_offloaded` and `_ensure_tool_executor`: a bounded pool, cancelled callers whose
   threads go on, and the queue behind them.
3. Stronger abstractions to refine: what a listing promises whoever edits what it
   lists, and what a cache shared by tenants promises each of them.
