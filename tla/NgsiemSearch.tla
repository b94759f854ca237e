---------------------------- MODULE NgsiemSearch ----------------------------
(***************************************************************************)
(* The life of one NGSIEM search: _execute_query and                       *)
(* _raw_start_search_error of modules/ngsiem.py, against the query jobs of  *)
(* LogScale (external), which run, end or fail at their own pace and whose  *)
(* answers, like any HTTP answer, can be an error or not come back at all.  *)
(*                                                                         *)
(* Two jobs can come to exist for one call: the one start_search asks for   *)
(* and the one the raw re-issue of the POST creates when it meets no error. *)
(***************************************************************************)
EXTENDS Naturals, FiniteSets

CONSTANTS
    Timeout,        \* FALCON_MCP_NGSIEM_TIMEOUT, in clock units; 0 fails fast
    PollInterval    \* FALCON_MCP_NGSIEM_POLL_INTERVAL, in clock units

ASSUME SearchAssumption ==
    /\ Timeout \in Nat
    /\ PollInterval \in Nat

VARIABLES
    pc,         \* where the call is
    clock,      \* time since the poll loop was entered, up to Timeout
    nap,        \* what is left of time.sleep(poll_interval)
    job,        \* LogScale's state of each job
    known,      \* the jobs whose id an answer has given to the call
    stopAsked,  \* the jobs stop_search has been called for
    verdict     \* what the call returned

searchVars == <<pc, clock, nap, job, known, stopAsked, verdict>>

Job == {"search", "raced"}
JobState == {"none", "running", "done", "cancelled", "error", "stopped"}
Verdict == {"none", "invalid_time", "success", "start_failed", "syntax_error",
            "status_failed", "search_error", "timeout", "exception"}

SInit ==
    /\ pc = "start"
    /\ clock = 0 /\ nap = 0
    /\ job = [j \in Job |-> "none"]
    /\ known = {} /\ stopAsked = {}
    /\ verdict = "none"

Return(v) == pc' = "returned" /\ verdict' = v

-----------------------------------------------------------------------------
(* Starting.                                                               *)

\* The time window does not parse: nothing is asked of LogScale.
InvalidTime ==
    /\ pc = "start"
    /\ Return("invalid_time")
    /\ UNCHANGED <<clock, nap, job, known, stopAsked>>

\* start_search answers 200 with the id of a new job.
StartOK ==
    /\ pc = "start"
    /\ job' = [job EXCEPT !["search"] = "running"]
    /\ known' = known \cup {"search"}
    /\ pc' = "loop"
    /\ UNCHANGED <<clock, nap, stopAsked, verdict>>

\* start_search answers 400: find out why with the raw POST.
StartRejected ==
    /\ pc = "start"
    /\ pc' = "diagnose"
    /\ UNCHANGED <<clock, nap, job, known, stopAsked, verdict>>

\* Another status, or an exception; the answer may be lost after LogScale has
\* created the job, whose id the call then never learns.
StartFails ==
    /\ pc = "start"
    /\ \/ UNCHANGED job
       \/ job' = [job EXCEPT !["search"] = "running"]
    /\ Return("start_failed")
    /\ UNCHANGED <<clock, nap, known, stopAsked>>

\* The raw POST is refused: with text (the diagnostic) or without.
DiagnoseText ==
    /\ pc = "diagnose"
    /\ \E v \in {"syntax_error", "start_failed"} : Return(v)
    /\ UNCHANGED <<clock, nap, job, known, stopAsked>>

\* The raw POST fails, or its answer has no id to read; LogScale may have
\* created the job all the same.
DiagnoseLost ==
    /\ pc = "diagnose"
    /\ \/ UNCHANGED job
       \/ job' = [job EXCEPT !["raced"] = "running"]
    /\ Return("start_failed")
    /\ UNCHANGED <<clock, nap, known, stopAsked>>

\* The raw POST gets 200: the query parses after all and a job now runs.
DiagnoseRaced ==
    /\ pc = "diagnose"
    /\ job' = [job EXCEPT !["raced"] = "running"]
    /\ known' = known \cup {"raced"}
    /\ pc' = "stop_raced"
    /\ UNCHANGED <<clock, nap, stopAsked, verdict>>

\* stop_search(j): it takes effect if LogScale gets it and the job still runs.
StopSearch(j) ==
    /\ stopAsked' = stopAsked \cup {j}
    /\ \/ UNCHANGED job
       \/ job[j] = "running" /\ job' = [job EXCEPT ![j] = "stopped"]

\* Mutant of StopRaced: the raced job is left to run.
StopRacedForgets ==
    /\ pc = "stop_raced"
    /\ Return("start_failed")
    /\ UNCHANGED <<clock, nap, job, known, stopAsked>>

\* Stop the raced job, whether or not the stop succeeds, and report failure.
StopRaced ==
    /\ pc = "stop_raced"
    /\ StopSearch("raced")
    /\ Return("start_failed")
    /\ UNCHANGED <<clock, nap, known>>

-----------------------------------------------------------------------------
(* The poll loop.                                                          *)

\* Mutant of LoopPolls: nothing limits the polling.
LoopPollsForever ==
    /\ pc = "loop"
    /\ pc' = "poll"
    /\ UNCHANGED <<clock, nap, job, known, stopAsked, verdict>>

\* while time.time() - start < timeout
LoopPolls ==
    /\ pc = "loop" /\ clock < Timeout
    /\ pc' = "poll"
    /\ UNCHANGED <<clock, nap, job, known, stopAsked, verdict>>

LoopTimesOut ==
    /\ pc = "loop" /\ clock >= Timeout
    /\ pc' = "stop_timeout"
    /\ UNCHANGED <<clock, nap, job, known, stopAsked, verdict>>

\* get_search_status answers 200 with the state of the job.
PollAnswered ==
    /\ pc = "poll"
    /\ \/ /\ job["search"] \in {"done", "cancelled"}
          /\ Return("success")
          /\ UNCHANGED nap
       \/ /\ job["search"] = "error"
          /\ Return("search_error")
          /\ UNCHANGED nap
       \/ /\ job["search"] = "running"
          /\ pc' = "sleep" /\ nap' = PollInterval
          /\ UNCHANGED verdict
    /\ UNCHANGED <<clock, job, known, stopAsked>>

\* get_search_status answers another status: give up, and nothing else.
PollRefused ==
    /\ pc = "poll"
    /\ Return("status_failed")
    /\ UNCHANGED <<clock, nap, job, known, stopAsked>>

\* get_search_status, or reading its answer, raises.
PollRaises ==
    /\ pc = "poll"
    /\ pc' = "stop_exception"
    /\ UNCHANGED <<clock, nap, job, known, stopAsked, verdict>>

\* time.sleep(poll_interval) returns.
Wake ==
    /\ pc = "sleep" /\ nap = 0
    /\ pc' = "loop"
    /\ UNCHANGED <<clock, nap, job, known, stopAsked, verdict>>

\* After the timeout: stop_search, then report; if the stop itself raises, the
\* handler tries to stop once more and reports the exception.
StopTimeout ==
    /\ pc = "stop_timeout"
    /\ StopSearch("search")
    /\ \/ Return("timeout")
       \/ pc' = "stop_exception" /\ UNCHANGED verdict
    /\ UNCHANGED <<clock, nap, known>>

StopException ==
    /\ pc = "stop_exception"
    /\ StopSearch("search")
    /\ Return("exception")
    /\ UNCHANGED <<clock, nap, known>>

-----------------------------------------------------------------------------
(* LogScale and the clock.                                                 *)

JobEnds(j) ==
    /\ job[j] = "running"
    /\ \E s \in {"done", "cancelled", "error"} : job' = [job EXCEPT ![j] = s]
    /\ UNCHANGED <<pc, clock, nap, known, stopAsked, verdict>>

\* Time passes while the call sleeps or waits for LogScale's answer.
Tick ==
    /\ pc \in {"loop", "poll", "sleep", "stop_timeout", "stop_exception"}
    /\ clock' = IF clock < Timeout THEN clock + 1 ELSE clock
    /\ nap' = IF nap > 0 THEN nap - 1 ELSE 0
    /\ UNCHANGED <<pc, job, known, stopAsked, verdict>>

\* The steps of the calling thread.
SearchStep ==
    \/ InvalidTime \/ StartOK \/ StartRejected \/ StartFails
    \/ DiagnoseText \/ DiagnoseLost \/ DiagnoseRaced \/ StopRaced
    \/ LoopPolls \/ LoopTimesOut
    \/ PollAnswered \/ PollRefused \/ PollRaises \/ Wake
    \/ StopTimeout \/ StopException

SNext == SearchStep \/ (\E j \in Job : JobEnds(j)) \/ Tick

SearchSpec == SInit /\ [][SNext]_searchVars

\* The thread is scheduled, every HTTP call returns (each has a timeout of its
\* own) and time passes; nothing says the job ever ends.
FairSearchSpec == SearchSpec /\ WF_searchVars(SearchStep) /\ WF_searchVars(Tick)

-----------------------------------------------------------------------------
STypeOK ==
    /\ pc \in {"start", "diagnose", "stop_raced", "loop", "poll", "sleep",
               "stop_timeout", "stop_exception", "returned"}
    /\ clock \in 0..Timeout /\ nap \in 0..PollInterval
    /\ job \in [Job -> JobState]
    /\ known \subseteq Job /\ stopAsked \subseteq Job
    /\ verdict \in Verdict

Returned == pc = "returned"

\* The call cleans up after itself: a search it gave up on, by timeout or
\* exception, was asked to stop, and so was the job its diagnostic created by
\* accident; one that delivered its events is never asked to stop; and the only
\* way to leave a job it knew of running, unasked, is the refused status check.
GivenUpIsStopped ==
    /\ verdict \in {"timeout", "exception"} => "search" \in stopAsked
    /\ verdict \in {"success", "search_error"} => stopAsked = {}
    /\ Returned /\ verdict # "status_failed" =>
          \A j \in known : job[j] # "running" \/ j \in stopAsked

\* The call returns even if the job never ends.
CallReturns == <>Returned

\* modules/ngsiem.py:376-378 says of the raced job "stop it rather than
\* orphaning it -- the primary path cleans up after itself and this must too":
\* when the call has returned, every job it knew of has ended or was asked to.
NoKnownOrphan ==
    Returned => \A j \in known : job[j] # "running" \/ j \in stopAsked
=============================================================================
