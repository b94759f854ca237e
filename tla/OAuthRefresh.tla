---------------------------- MODULE OAuthRefresh ----------------------------
(***************************************************************************)
(* One FalconClient shared by worker threads (client.py): the lazily made   *)
(* OAuth2 object behind FalconClient.auth_object, and the token refresh of  *)
(* _ThreadSafeOAuth2.auth_headers, both double-checked locking.            *)
(*                                                                         *)
(* falconpy's own OAuth2 (external) is what super() stands for: its         *)
(* auth_headers checks staleness again and calls self.login(), and login() *)
(* exchanges the credentials and writes the token's value before its time. *)
(***************************************************************************)
EXTENDS Integers, FiniteSets

CONSTANTS
    Worker,         \* the worker threads
    NoWorker,       \* the owner of a free lock
    MaxCalls,       \* bound of the model: calls per thread
    MaxTokens       \* bound of the model: tokens that go stale

ASSUME RefreshAssumption ==
    /\ IsFiniteSet(Worker) /\ NoWorker \notin Worker
    /\ MaxCalls \in Nat /\ MaxTokens \in Nat

VARIABLES
    pc,         \* pc[t]: where t is in its call
    calls,      \* calls[t]: calls t has begun
    made,       \* OAuth2 objects constructed so far
    auth,       \* self._auth: the number of the object, 0 for None
    held,       \* held[t]: the object t's call uses
    initLock,   \* _auth_init_lock
    owner,      \* _refresh_lock: its owner
    depth,      \* _refresh_lock: how often the owner holds it
    value,      \* token_value: the number of the token, 0 before the first
    fresh,      \* ~token_stale, which reads token_time and token_expiration
    got,        \* got[t]: the token in the header t was given
    stalest,    \* history: the token that was stale when t's call began
    failed      \* history: an exchange of t's call failed

oauthVars == <<pc, calls, made, auth, held, initLock, owner, depth, value, fresh,
          got, stalest, failed>>
initVars == <<made, auth, held, initLock>>
tokenVars == <<owner, depth, value, fresh>>
histVars == <<calls, got, stalest, failed>>

\* In place of a token: none.
NoToken == -1

OInit ==
    /\ pc = [t \in Worker |-> "idle"]
    /\ calls = [t \in Worker |-> 0]
    /\ made = 0 /\ auth = 0
    /\ held = [t \in Worker |-> 0]
    /\ initLock = NoWorker
    /\ owner = NoWorker /\ depth = 0
    /\ value = 0 /\ fresh = FALSE
    /\ got = [t \in Worker |-> NoToken]
    /\ stalest = [t \in Worker |-> NoToken]
    /\ failed = [t \in Worker |-> FALSE]

Goto(t, from, to) == pc[t] = from /\ pc' = [pc EXCEPT ![t] = to]

-----------------------------------------------------------------------------
(* FalconClient.auth_object                                                *)

\* A token is being installed: its value is written, its time is not yet.
Installing == \E u \in Worker : pc[u] = "set_time"

UseClient(t) ==
    /\ calls[t] < MaxCalls
    /\ Goto(t, "idle", "auth_object")
    /\ calls' = [calls EXCEPT ![t] = @ + 1]
    /\ got' = [got EXCEPT ![t] = NoToken]
    /\ failed' = [failed EXCEPT ![t] = FALSE]
    /\ stalest' = [stalest EXCEPT
                      ![t] = IF fresh \/ Installing THEN NoToken ELSE value]
    /\ held' = [held EXCEPT ![t] = 0]
    /\ UNCHANGED <<made, auth, initLock, tokenVars>>

\* if self._auth is None, unlocked
AuthPresent(t) ==
    /\ auth # 0
    /\ Goto(t, "auth_object", "headers")
    /\ held' = [held EXCEPT ![t] = auth]
    /\ UNCHANGED <<made, auth, initLock, tokenVars, histVars>>

AuthMissing(t) ==
    /\ auth = 0
    /\ Goto(t, "auth_object", "init_wait")
    /\ UNCHANGED <<initVars, tokenVars, histVars>>

InitLock(t) ==
    /\ initLock = NoWorker
    /\ Goto(t, "init_wait", "init_locked")
    /\ initLock' = t
    /\ UNCHANGED <<made, auth, held, tokenVars, histVars>>

\* Mutant of Construct: no second check under the lock.
ConstructUnchecked(t) ==
    /\ Goto(t, "init_locked", "headers")
    /\ made' = made + 1
    /\ auth' = made + 1
    /\ held' = [held EXCEPT ![t] = auth']
    /\ initLock' = NoWorker
    /\ UNCHANGED <<tokenVars, histVars>>

\* with the lock: construct unless another thread has, and return self._auth.
Construct(t) ==
    /\ Goto(t, "init_locked", "headers")
    /\ made' = IF auth = 0 THEN made + 1 ELSE made
    /\ auth' = IF auth = 0 THEN made + 1 ELSE auth
    /\ held' = [held EXCEPT ![t] = auth']
    /\ initLock' = NoWorker
    /\ UNCHANGED <<tokenVars, histVars>>

-----------------------------------------------------------------------------
(* _ThreadSafeOAuth2.auth_headers and login                                *)

\* token_stale, unlocked: take the lock, or go straight to super().
SeesStale(t) ==
    /\ ~fresh
    /\ Goto(t, "headers", "refresh_wait")
    /\ UNCHANGED <<initVars, tokenVars, histVars>>

SeesFresh(t) ==
    /\ fresh
    /\ Goto(t, "headers", "inner")
    /\ UNCHANGED <<initVars, tokenVars, histVars>>

\* Mutant of Acquire: the lock is not re-entrant.
AcquireOnce(t) ==
    /\ owner = NoWorker
    /\ owner' = t /\ depth' = depth + 1
    /\ UNCHANGED <<value, fresh>>

\* The re-entrant lock is free, or held by the thread that asks.
Acquire(t) ==
    /\ owner \in {NoWorker, t}
    /\ owner' = t /\ depth' = depth + 1
    /\ UNCHANGED <<value, fresh>>

Release(t) ==
    /\ depth' = depth - 1
    /\ owner' = IF depth = 1 THEN NoWorker ELSE t

RefreshLock(t) ==
    /\ Goto(t, "refresh_wait", "inner")
    /\ Acquire(t)
    /\ UNCHANGED <<initVars, histVars>>

\* Mutant of InnerStale: no second check under the lock.
InnerStaleUnchecked(t) ==
    /\ Goto(t, "inner", "login_wait")
    /\ UNCHANGED <<initVars, tokenVars, histVars>>

\* super().auth_headers: check again, whether or not the lock is held.
InnerStale(t) ==
    /\ ~fresh
    /\ Goto(t, "inner", "login_wait")
    /\ UNCHANGED <<initVars, tokenVars, histVars>>

\* Mutant of InnerFresh: a stale token is read as well.
InnerFreshUnchecked(t) ==
    /\ Goto(t, "inner", "read")
    /\ UNCHANGED <<initVars, tokenVars, histVars>>

InnerFresh(t) ==
    /\ fresh
    /\ Goto(t, "inner", "read")
    /\ UNCHANGED <<initVars, tokenVars, histVars>>

\* Mutant of LoginLock: login() is not overridden and takes no lock.
LoginUnlocked(t) ==
    /\ Goto(t, "login_wait", "exchange")
    /\ UNCHANGED <<initVars, tokenVars, histVars>>

\* login() takes the lock, again if the caller has it, and does not check.
LoginLock(t) ==
    /\ Goto(t, "login_wait", "exchange")
    /\ Acquire(t)
    /\ UNCHANGED <<initVars, histVars>>

\* The token request succeeds: the value is written first ...
ExchangeOK(t) ==
    /\ Goto(t, "exchange", "set_time")
    /\ value' = value + 1
    /\ UNCHANGED <<initVars, owner, depth, fresh, histVars>>

\* ... then the time, which makes the token fresh; then login() unlocks.
SetTime(t) ==
    /\ Goto(t, "set_time", "read")
    /\ fresh' = TRUE
    /\ Release(t)
    /\ UNCHANGED <<initVars, value, histVars>>

\* The token request fails: nothing is written.
ExchangeFails(t) ==
    /\ Goto(t, "exchange", "read")
    /\ failed' = [failed EXCEPT ![t] = TRUE]
    /\ Release(t)
    /\ UNCHANGED <<initVars, value, fresh, calls, got, stalest>>

\* The header is built from token_value, and the outer lock released if held.
ReadHeader(t) ==
    /\ Goto(t, "read", "idle")
    /\ got' = [got EXCEPT ![t] = value]
    /\ IF owner = t THEN Release(t) ELSE UNCHANGED <<owner, depth>>
    /\ UNCHANGED <<initVars, value, fresh, calls, stalest, failed>>

\* The token's lifetime runs out.
Expire ==
    /\ fresh /\ value < MaxTokens
    /\ fresh' = FALSE
    /\ UNCHANGED <<pc, initVars, owner, depth, value, histVars>>

WorkerStep(t) ==
    \/ AuthPresent(t) \/ AuthMissing(t) \/ InitLock(t) \/ Construct(t)
    \/ SeesStale(t) \/ SeesFresh(t) \/ RefreshLock(t)
    \/ InnerStale(t) \/ InnerFresh(t) \/ LoginLock(t)
    \/ ExchangeOK(t) \/ SetTime(t) \/ ExchangeFails(t) \/ ReadHeader(t)

ONext == (\E t \in Worker : UseClient(t) \/ WorkerStep(t)) \/ Expire

RefreshSpec == OInit /\ [][ONext]_oauthVars

\* Every thread that can run is run in the end; a thread makes finitely many
\* calls, so that none waits for a lock that others pass on for ever.
FairRefreshSpec == RefreshSpec /\ \A t \in Worker : WF_oauthVars(WorkerStep(t))

-----------------------------------------------------------------------------
OTypeOK ==
    /\ pc \in [Worker -> {"idle", "auth_object", "init_wait", "init_locked",
                          "headers", "refresh_wait", "inner", "login_wait",
                          "exchange", "set_time", "read"}]
    /\ calls \in [Worker -> 0..MaxCalls]
    /\ made \in Nat /\ auth \in 0..made /\ held \in [Worker -> 0..made]
    /\ initLock \in Worker \cup {NoWorker}
    /\ owner \in Worker \cup {NoWorker} /\ depth \in 0..2
    /\ value \in Nat /\ fresh \in BOOLEAN
    /\ got \in [Worker -> Nat \cup {NoToken}] /\ stalest \in [Worker -> Nat \cup {NoToken}]
    /\ failed \in [Worker -> BOOLEAN]

\* "both would construct an OAuth2 ... and the loser's assignment would be
\* silently discarded" (client.py:170-172): every caller uses the one object.
OneAuthObject ==
    /\ made <= 1
    /\ \A t \in Worker :
          pc[t] \notin {"idle", "auth_object", "init_wait", "init_locked"}
          => held[t] = auth /\ auth # 0

\* Between the write of a token's value and the write of its time no other
\* thread exchanges credentials or writes either: a value and a time always
\* come from the same login.
LoginExclusive ==
    \A t, u \in Worker :
        /\ pc[t] \in {"exchange", "set_time"} => owner = t
        /\ pc[t] \in {"exchange", "set_time"} /\ pc[u] \in {"exchange", "set_time"} => t = u

\* A token that was already stale when a call began is never in the header the
\* call gets, unless the call's own exchange failed.
HeaderRefreshed ==
    \A t \in Worker :
        pc[t] = "idle" /\ calls[t] > 0 /\ ~failed[t] => got[t] # stalest[t]

\* A thread that waited for the refresh lock exchanges only if the token is
\* still stale: the waiters behind one refresh do not repeat it.
WaitersDoNotRepeat ==
    \A t \in Worker : pc[t] = "exchange" /\ depth = 2 => ~fresh

\* Every call gets its header: the locks never deadlock, also when login()
\* takes the lock the caller already holds.
CallsReturn == \A t \in Worker : pc[t] # "idle" ~> pc[t] = "idle"

\* client.py:74-76 gives the reason for the lock: without it "two calls landing
\* in the same stale-token window can both decide to refresh at once -- wasted
\* duplicate token requests".  No token is requested while there is a fresh one.
NoDuplicateRequest == \A t \in Worker : pc[t] = "exchange" => ~fresh
=============================================================================
