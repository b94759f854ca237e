----------------------------- MODULE AlertEvents -----------------------------
(***************************************************************************)
(* The enrichment of an NGSIEM alert: AlertsModule.                        *)
(* _get_related_ngsiem_events and its cache (modules/alerts.py), called by  *)
(* alert_analysis on worker threads.  The three indicator queries run on a  *)
(* thread pool of their own, the detection queries on the worker.          *)
(*                                                                         *)
(* One alert, whose indicator event every tenant has.  In HTTP mode the     *)
(* server's own client is deferred and a tool acts for the session in its   *)
(* context; the threads of the pool are started without that context.      *)
(***************************************************************************)

CONSTANTS
    Tenant,         \* client ids
    Deferred,       \* the client of a server in HTTP mode
    Analyst         \* worker threads that run alert_analysis

ASSUME AlertEventsAssumption == Deferred \notin Tenant

VARIABLES
    server,         \* self.client: a tenant's (stdio) or deferred (HTTP)
    eventCache,     \* _ngsiem_event_cache[tenant]: an answer, or "absent"
    analysis,       \* analysis[w]: what worker w is doing
    answeredOnce,   \* history: tenants that have had an analysis answered
    troubled        \* history: workers whose analysis met a query that failed
                    \* or found nothing, or the deadline

eventVars == <<server, eventCache, analysis, answeredOnce, troubled>>

IndicatorQuery == {"Ngsiem.indicator.id", "@id", "indicator.id"}
Answer == {"related events", "indicator event"}

AInit ==
    /\ server \in Tenant \cup {Deferred}
    /\ eventCache = [tn \in Tenant |-> "absent"]
    /\ \E tn \in Tenant :
          analysis = [w \in Analyst |-> [pc |-> "idle", tenant |-> tn, running |-> {},
                                         answer |-> "absent", repeat |-> FALSE]]
    /\ answeredOnce = {} /\ troubled = {}

Free(w) == analysis[w].pc \in {"idle", "answered", "failed"}

\* Over stdio every call is the server's own tenant's.
Analyze(w, tn) ==
    /\ Free(w)
    /\ server \in {tn, Deferred}
    /\ analysis' = [analysis EXCEPT
                      ![w] = [pc |-> "cache", tenant |-> tn, running |-> {},
                              answer |-> "absent", repeat |-> tn \in answeredOnce]]
    /\ troubled' = troubled \ {w}
    /\ UNCHANGED <<server, eventCache, answeredOnce>>

Answered(w, answer) ==
    /\ analysis' = [analysis EXCEPT ![w].pc = "answered", ![w].answer = answer]
    /\ answeredOnce' = answeredOnce \cup {analysis[w].tenant}

CacheHit(w) ==
    /\ analysis[w].pc = "cache"
    /\ eventCache[analysis[w].tenant] # "absent"
    /\ Answered(w, eventCache[analysis[w].tenant])
    /\ UNCHANGED <<server, eventCache, troubled>>

\* A miss starts the indicator queries in parallel.
CacheMiss(w) ==
    /\ analysis[w].pc = "cache"
    /\ eventCache[analysis[w].tenant] = "absent"
    /\ analysis' = [analysis EXCEPT ![w].pc = "indicators", ![w].running = IndicatorQuery]
    /\ UNCHANGED <<server, eventCache, answeredOnce, troubled>>

Running(w, q) == analysis[w].pc = "indicators" /\ q \in analysis[w].running

\* The queries left running once the phase is over change nothing.
LeaveIndicators(w, pc) ==
    analysis' = [analysis EXCEPT ![w].pc = pc, ![w].running = {}]

\* A query of the pool is made with the server's own client: a deferred one
\* has no credentials, and the query is "not available".
IndicatorUnavailable(w, q) ==
    /\ Running(w, q)
    /\ server = Deferred
    /\ analysis' = [analysis EXCEPT ![w].running = @ \ {q}]
    /\ UNCHANGED <<server, eventCache, answeredOnce, troubled>>

\* The query is refused, raises, times out or finds nothing.
IndicatorMiss(w, q) ==
    /\ Running(w, q)
    /\ server # Deferred
    /\ analysis' = [analysis EXCEPT ![w].running = @ \ {q}]
    /\ troubled' = troubled \cup {w}
    /\ UNCHANGED <<server, eventCache, answeredOnce>>

\* The first match decides.
IndicatorMatch(w, q) ==
    /\ Running(w, q)
    /\ server # Deferred
    /\ LeaveIndicators(w, "detection")
    /\ UNCHANGED <<server, eventCache, answeredOnce, troubled>>

\* All queries have ended without a match.
IndicatorsExhausted(w) ==
    /\ analysis[w].pc = "indicators"
    /\ analysis[w].running = {}
    /\ LeaveIndicators(w, "failed")
    /\ UNCHANGED <<server, eventCache, answeredOnce, troubled>>

\* The deadline passes, or the matching event names no detection.
IndicatorsFail(w) ==
    /\ analysis[w].pc = "indicators"
    /\ LeaveIndicators(w, "failed")
    /\ troubled' = troubled \cup {w}
    /\ UNCHANGED <<server, eventCache, answeredOnce>>

\* Mutant of Detect: the indicator event alone is not kept in the cache.
DetectKeepsRelated(w) ==
    /\ analysis[w].pc = "detection"
    /\ \/ /\ analysis' = [analysis EXCEPT ![w].pc = "store",
                                          ![w].answer = "related events"]
          /\ UNCHANGED answeredOnce
       \/ Answered(w, "indicator event")
    /\ UNCHANGED <<server, eventCache, troubled>>

\* A detection query finds the related events; if neither does, the indicator
\* event alone is the answer.
Detect(w) ==
    /\ analysis[w].pc = "detection"
    /\ \E answer \in Answer :
          analysis' = [analysis EXCEPT ![w].pc = "store", ![w].answer = answer]
    /\ UNCHANGED <<server, eventCache, answeredOnce, troubled>>

StoreEvents(w) ==
    /\ analysis[w].pc = "store"
    /\ eventCache' = [eventCache EXCEPT ![analysis[w].tenant] = analysis[w].answer]
    /\ Answered(w, analysis[w].answer)
    /\ UNCHANGED <<server, troubled>>

ANext ==
    \E w \in Analyst :
        \/ \E tn \in Tenant : Analyze(w, tn)
        \/ CacheHit(w) \/ CacheMiss(w)
        \/ \E q \in IndicatorQuery :
              IndicatorUnavailable(w, q) \/ IndicatorMiss(w, q) \/ IndicatorMatch(w, q)
        \/ IndicatorsExhausted(w) \/ IndicatorsFail(w)
        \/ Detect(w) \/ StoreEvents(w)

ASpec == AInit /\ [][ANext]_eventVars

-----------------------------------------------------------------------------
ATypeOK ==
    /\ server \in Tenant \cup {Deferred}
    /\ eventCache \in [Tenant -> Answer \cup {"absent"}]
    /\ analysis \in [Analyst -> [pc : {"idle", "cache", "indicators", "detection",
                                       "store", "answered", "failed"},
                                 tenant : Tenant, running : SUBSET IndicatorQuery,
                                 answer : Answer \cup {"absent"}, repeat : BOOLEAN]]
    /\ answeredOnce \subseteq Tenant /\ troubled \subseteq Analyst

\* Once an analysis has been answered, a later one neither queries nor fails,
\* whatever analyses ran side by side before ("avoid re-querying the same
\* alert in a session", alerts.py:594).
RepeatAnsweredFromCache ==
    \A w \in Analyst :
        analysis[w].repeat => analysis[w].pc \in {"cache", "answered"}

\* README.md:208 promises that an NG-SIEM alert's analysis "retrieves related
\* events via indicator/detection two-step lookup": it fails only if a query
\* failed, found nothing or was too slow.
FailureHasACause ==
    \A w \in Analyst : analysis[w].pc = "failed" => w \in troubled
=============================================================================
