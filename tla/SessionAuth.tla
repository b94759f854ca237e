---------------------------- MODULE SessionAuth ----------------------------
(***************************************************************************)
(* HTTP mode: session_auth_middleware (common/session_auth.py) in front of  *)
(* the tool calls, composed with the response store.                       *)
(*                                                                         *)
(* The middleware runs on the event loop and never awaits before it hands   *)
(* the request to the application, so at most one request is inside it; the *)
(* token exchange of authenticate() blocks the loop meanwhile.  Tool bodies *)
(* run on worker threads (modules/base.py: _offloaded) with a copy of the   *)
(* request's context, so they keep their session key and go on storing      *)
(* whatever the middleware does to the credential meanwhile.               *)
(***************************************************************************)
EXTENDS ResponseStore

CONSTANTS
    Worker,         \* worker threads that run tool bodies
    AuthTTL,        \* _CACHE_TTL, in clock units
    AuthMax,        \* _CACHE_MAX
    NoKey           \* no session key: the loop or the worker is idle

ASSUME AuthAssumption ==
    /\ AuthTTL \in Nat
    /\ AuthMax \in Nat \ {0}
    /\ NoKey \notin SessionKey

VARIABLES
    cached,     \* the credentials in _client_cache
    access,     \* access[c]: the last access time cached with c, 0 if absent
    loop,       \* the request inside the middleware
    calls,      \* calls[w]: the session key of the tool call worker w runs
    late        \* history: partitions stored to while their owner was not cached

authVars == <<cached, access, loop, calls, late>>
gvars == <<sessions, entries, counters, tombstones, now,
           cached, access, loop, calls, late>>

Phase == {"idle", "evict", "lookup", "authenticate", "forward"}

\* Nobody is inside the middleware.
Idle == [phase |-> "idle", key |-> NoKey, expired |-> {}]

GInit ==
    /\ Init
    /\ cached = {}
    /\ access = [c \in Credential |-> 0]
    /\ loop = Idle
    /\ calls = [w \in Worker |-> NoKey]
    /\ late = {}

\* del _client_cache[c]; ResponseStore.clear_credential_sessions(c)
Evict(c) ==
    /\ cached' = cached \ {c}
    /\ access' = [access EXCEPT ![c] = 0]
    /\ late' = late \ OwnedBy(c)
    /\ ClearCredentialSessions(c)

-----------------------------------------------------------------------------
(* The middleware, one request at a time.                                  *)

\* A request with credentials: _evict_stale lists what it will evict.
Arrive(sk) ==
    /\ loop.phase = "idle"
    /\ loop' = [Idle EXCEPT !.phase = "evict", !.key = sk,
                  !.expired = {c \in cached : now - access[c] > AuthTTL}]
    /\ UNCHANGED <<storeVars, cached, access, calls, late>>

\* Mutant of EvictStale: the evicted credential stays on the list.
EvictStaleAgain(c) ==
    /\ loop.phase = "evict"
    /\ c \in loop.expired
    /\ Evict(c)
    /\ UNCHANGED <<loop, calls>>

\* One turn of the loop in _evict_stale; worker threads run between turns.
EvictStale(c) ==
    /\ loop.phase = "evict"
    /\ c \in loop.expired
    /\ Evict(c)
    /\ loop' = [loop EXCEPT !.expired = @ \ {c}]
    /\ UNCHANGED calls

EvictStaleDone ==
    /\ loop.phase = "evict"
    /\ loop.expired = {}
    /\ loop' = [loop EXCEPT !.phase = "lookup"]
    /\ UNCHANGED <<storeVars, cached, access, calls, late>>

\* Cache hit: refresh the access time.
Hit ==
    /\ loop.phase = "lookup"
    /\ Owner[loop.key] \in cached
    /\ access' = [access EXCEPT ![Owner[loop.key]] = now]
    /\ loop' = [loop EXCEPT !.phase = "forward"]
    /\ UNCHANGED <<storeVars, cached, calls, late>>

\* Mutant of MissEvict: any credential goes.
MissEvictAny(c) ==
    /\ loop.phase = "lookup"
    /\ Owner[loop.key] \notin cached
    /\ Cardinality(cached) >= AuthMax
    /\ c \in cached
    /\ Evict(c)
    /\ loop' = [loop EXCEPT !.phase = "authenticate"]
    /\ UNCHANGED calls

\* Cache miss, _evict_lru: at the cap the least recently accessed goes first,
\* before the new credential has been authenticated.
MissEvict(c) ==
    /\ loop.phase = "lookup"
    /\ Owner[loop.key] \notin cached
    /\ Cardinality(cached) >= AuthMax
    /\ c \in cached
    /\ \A d \in cached : access[c] <= access[d]
    /\ Evict(c)
    /\ loop' = [loop EXCEPT !.phase = "authenticate"]
    /\ UNCHANGED calls

\* Mutant of MissRoom: one too many.
MissRoomOneMore ==
    /\ loop.phase = "lookup"
    /\ Owner[loop.key] \notin cached
    /\ Cardinality(cached) <= AuthMax
    /\ loop' = [loop EXCEPT !.phase = "authenticate"]
    /\ UNCHANGED <<storeVars, cached, access, calls, late>>

MissRoom ==
    /\ loop.phase = "lookup"
    /\ Owner[loop.key] \notin cached
    /\ Cardinality(cached) < AuthMax
    /\ loop' = [loop EXCEPT !.phase = "authenticate"]
    /\ UNCHANGED <<storeVars, cached, access, calls, late>>

AuthSucceeds ==
    /\ loop.phase = "authenticate"
    /\ cached' = cached \cup {Owner[loop.key]}
    /\ access' = [access EXCEPT ![Owner[loop.key]] = now]
    /\ loop' = [loop EXCEPT !.phase = "forward"]
    /\ UNCHANGED <<storeVars, calls, late>>

\* RuntimeError or ValueError from the token exchange: a 401, nothing cached.
AuthFails ==
    /\ loop.phase = "authenticate"
    /\ loop' = Idle
    /\ UNCHANGED <<storeVars, cached, access, calls, late>>

\* await app(...): the request is a tool call and gets a worker thread, or it
\* is one that needs none (initialize, tools/list); the loop is free again.
Forward ==
    /\ loop.phase = "forward"
    /\ loop' = Idle
    /\ \/ UNCHANGED calls
       \/ \E w \in Worker : /\ calls[w] = NoKey
                            /\ calls' = [calls EXCEPT ![w] = loop.key]
    /\ UNCHANGED <<storeVars, cached, access, late>>

-----------------------------------------------------------------------------
(* The tool bodies.                                                        *)

\* A tool stores its result under the session key it was started with.
CallStores(w, resp) ==
    /\ calls[w] # NoKey
    /\ Store(calls[w], resp)
    /\ late' = (late \ Displaced(calls[w])) \cup
               (IF Owner[calls[w]] \in cached THEN {} ELSE {calls[w]})
    /\ UNCHANGED <<cached, access, loop, calls>>

\* get_stored_response reads a reference of its own partition.
CallReads(w, r) ==
    /\ calls[w] # NoKey
    /\ r \in Refs(entries[calls[w]])
    /\ Get(calls[w], r)
    /\ UNCHANGED authVars

CallEnds(w) ==
    /\ calls[w] # NoKey
    /\ calls' = [calls EXCEPT ![w] = NoKey]
    /\ UNCHANGED <<storeVars, cached, access, loop, late>>

ClockTick == Tick /\ UNCHANGED authVars

\* The steps of the middleware that do not wait for a client.
LoopStep ==
    \/ \E c \in Credential : EvictStale(c) \/ MissEvict(c)
    \/ EvictStaleDone \/ Hit \/ MissRoom \/ AuthSucceeds \/ AuthFails \/ Forward

GNext ==
    \/ \E sk \in SessionKey : Arrive(sk)
    \/ LoopStep
    \/ \E w \in Worker, resp \in Response : CallStores(w, resp)
    \/ \E w \in Worker, r \in Ref : CallReads(w, r)
    \/ \E w \in Worker : CallEnds(w)
    \/ ClockTick

GSpec == GInit /\ [][GNext]_gvars

\* The event loop runs what is ready, and the token exchange answers or times
\* out (FALCON_MCP_HTTP_TIMEOUT), so a request never stays inside for ever.
GFairSpec == GSpec /\ WF_gvars(LoopStep)

-----------------------------------------------------------------------------
GTypeOK ==
    /\ TypeOK
    /\ cached \subseteq Credential /\ Cardinality(cached) <= AuthMax
    /\ access \in [Credential -> 0..MaxTime]
    /\ loop \in [phase : Phase, key : SessionKey \cup {NoKey},
                 expired : SUBSET Credential]
    /\ loop.phase = "idle" <=> loop = Idle
    /\ calls \in [Worker -> SessionKey \cup {NoKey}]
    /\ late \subseteq SessionKey

\* Eviction wipes: a partition whose credential is not cached was stored to by
\* a call that outlived the eviction; nothing from before it is left, in the
\* entries, in the counter or in the tombstones.
EvictionWipes ==
    \A sk \in SessionKey :
        Owner[sk] \notin cached /\ sk \notin late =>
            /\ sk \notin ToSet(sessions)
            /\ entries[sk] = <<>> /\ counters[sk] = 0 /\ tombstones[sk] = <<>>

\* Evicting a credential never touches another tenant's partition, neither its
\* entries, nor its counter, nor its tombstones.
EvictionSparesOthers ==
    [][\A sk \in SessionKey :
          cached \ cached' # {} /\ Owner[sk] \notin cached \ cached' =>
             /\ entries'[sk] = entries[sk]
             /\ counters'[sk] = counters[sk]
             /\ tombstones'[sk] = tombstones[sk]]_gvars

\* An eviction is of a stale credential or of the least recently accessed one
\* at the cap; a credential accessed within the TTL goes only while the cache
\* is full, and never the one whose request is being served.
EvictionJustified ==
    [][\A c \in cached \ cached' :
          \/ c \in loop.expired /\ now - access[c] > AuthTTL
          \/ /\ Cardinality(cached) = AuthMax
             /\ c # Owner[loop.key]
             /\ \A d \in cached : access[c] <= access[d]]_gvars

\* Every request that enters the middleware leaves it: forwarded or refused.
RequestsAnswered == loop.phase # "idle" ~> loop.phase = "idle"

\* response_store.py:338-341 says of clear_credential_sessions that it is
\* "Called when a credential's auth session is evicted so its stored Falcon
\* data doesn't outlive it": a partition has a cached owner.
DataDoesNotOutliveCredential ==
    \A sk \in ToSet(sessions) : Owner[sk] \in cached
=============================================================================
