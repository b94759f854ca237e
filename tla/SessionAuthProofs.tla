-------------------------- MODULE SessionAuthProofs --------------------------
(***************************************************************************)
(* The middleware and the store together, for any credentials, sessions,    *)
(* caps and threads: eviction wipes what it should and spares the rest, and  *)
(* the store keeps the promise of the shelf whoever calls it.               *)
(***************************************************************************)
EXTENDS SessionAuth, ResponseStoreProofs

\* A partition of a credential that is not cached, and not stored to since it
\* went, has given out no reference; by PartitionsAgree it is then empty.
Wiped(sk) == Owner[sk] \notin cached /\ sk \notin late => counters[sk] = 0

CacheOK ==
    /\ cached \subseteq Credential /\ IsFiniteSet(cached) /\ Cardinality(cached) <= AuthMax
    /\ access \in [Credential -> 0..MaxTime]

\* The credentials on the list of _evict_stale stay stale while it runs, and
\* once room is made it is there until the new credential takes it.
LoopOK ==
    /\ loop \in [phase : Phase, key : SessionKey \cup {NoKey}, expired : SUBSET Credential]
    /\ loop.phase = "idle" <=> loop = Idle
    /\ loop.phase # "idle" => loop.key \in SessionKey
    /\ loop.phase = "evict" => \A c \in loop.expired : now - access[c] > AuthTTL
    /\ loop.phase = "authenticate" => Cardinality(cached) < AuthMax

GInv ==
    /\ IInv /\ CacheOK /\ LoopOK
    /\ calls \in [Worker -> SessionKey \cup {NoKey}]
    /\ late \subseteq SessionKey
    /\ \A sk \in SessionKey : Wiped(sk)

LEMMA StoreTypes ==
    IInv => /\ entries \in [SessionKey -> Seq(StoredResponse)]
            /\ counters \in [SessionKey -> 0..MaxRef]
            /\ tombstones \in [SessionKey -> Seq(Tombstone)]
            /\ now \in 0..MaxTime
BY DEF IInv, TypeOK

LEMMA OwnerIsCredential == \A sk \in SessionKey : Owner[sk] \in Credential
BY StoreAssumption

LEMMA InitGInv == GInit => GInv
<1> SUFFICES ASSUME GInit PROVE GInv
  OBVIOUS
<1>1. IInv
  BY InitIInv DEF GInit
<1>2. CacheOK
  <2>1. IsFiniteSet({}) /\ Cardinality({}) = 0
    BY FS_EmptySet
  <2> QED BY <2>1, StoreAssumption, AuthAssumption DEF GInit, CacheOK
<1>3. LoopOK
  BY DEF GInit, LoopOK, Idle, Phase
<1>4. \A sk \in SessionKey : Wiped(sk)
  BY DEF GInit, Init, Wiped
<1> QED BY <1>1, <1>2, <1>3, <1>4 DEF GInit, GInv

\* Whatever the middleware and the workers do, the store takes a step of its own.
LEMMA StoreSteps == GInv /\ [GNext]_gvars => [Next]_storeVars
<1> SUFFICES ASSUME GInv, [GNext]_gvars PROVE [Next]_storeVars
  OBVIOUS
<1>1. ASSUME NEW c \in Credential, Evict(c) PROVE Next
  BY <1>1 DEF Evict, Next
<1>2. CASE LoopStep
  BY <1>1, <1>2 DEF LoopStep, EvictStale, MissEvict, EvictStaleDone, Hit, MissRoom,
                    AuthSucceeds, AuthFails, Forward
<1>3. ASSUME NEW w \in Worker, NEW resp \in Response, CallStores(w, resp) PROVE Next
  BY <1>3 DEF CallStores, Next, GInv
<1>4. ASSUME NEW w \in Worker, NEW r \in Ref, CallReads(w, r) PROVE Next
  BY <1>4 DEF CallReads, Next, GInv
<1>5. ASSUME NEW sk \in SessionKey, Arrive(sk) PROVE UNCHANGED storeVars
  BY <1>5 DEF Arrive
<1>6. ASSUME NEW w \in Worker, CallEnds(w) PROVE UNCHANGED storeVars
  BY <1>6 DEF CallEnds
<1>7. CASE ClockTick
  BY <1>7 DEF ClockTick, Next
<1>8. CASE UNCHANGED gvars
  BY <1>8 DEF gvars, storeVars
<1> QED BY <1>2, <1>3, <1>4, <1>5, <1>6, <1>7, <1>8 DEF GNext

LEMMA GInvNext ==
    ASSUME GInv, [GNext]_gvars, CacheOK', LoopOK',
           calls' \in [Worker -> SessionKey \cup {NoKey}], late' \subseteq SessionKey,
           \A sk \in SessionKey : Wiped(sk)'
    PROVE  GInv'
<1>1. IInv'
  BY StoreSteps, NextIInv DEF GInv
<1> QED BY <1>1 DEF GInv

\* Evicting a credential: it and the partitions it owns, and nothing else.
LEMMA EvictEffect ==
    ASSUME GInv, NEW c \in Credential, Evict(c)
    PROVE  /\ cached' = cached \ {c} /\ CacheOK'
           /\ c \in cached => Cardinality(cached') < AuthMax
           /\ \A d \in Credential : d # c => access'[d] = access[d]
           /\ late' \subseteq SessionKey /\ now' = now
           /\ \A sk \in SessionKey : Owner[sk] # c =>
                 /\ entries'[sk] = entries[sk] /\ counters'[sk] = counters[sk]
                 /\ tombstones'[sk] = tombstones[sk]
           /\ \A sk \in SessionKey : Wiped(sk)'
<1>1. /\ cached' = cached \ {c} /\ access' = [access EXCEPT ![c] = 0]
      /\ late' = late \ OwnedBy(c)
      /\ entries' = Popped(entries, OwnedBy(c), <<>>)
      /\ counters' = Popped(counters, OwnedBy(c), 0)
      /\ tombstones' = Popped(tombstones, OwnedBy(c), <<>>)
      /\ now' = now
  BY DEF Evict, ClearCredentialSessions, ClearPartitions
<1>2. /\ IsFiniteSet(cached') /\ Cardinality(cached') <= AuthMax
      /\ c \in cached => Cardinality(cached') < AuthMax
  <2>1. IsFiniteSet(cached) /\ Cardinality(cached) <= AuthMax /\ AuthMax \in Nat
    BY AuthAssumption DEF GInv, CacheOK
  <2>2. CASE c \in cached
    <3>1. IsFiniteSet(cached') /\ Cardinality(cached') = Cardinality(cached) - 1
      BY <1>1, <2>1, <2>2, FS_RemoveElement
    <3>2. Cardinality(cached) \in Nat
      BY <2>1, FS_CardinalityType
    <3> QED BY <3>1, <3>2, <2>1
  <2>3. CASE c \notin cached
    <3>1. cached' = cached
      BY <1>1, <2>3
    <3> QED BY <3>1, <2>1, <2>3
  <2> QED BY <2>2, <2>3
<1>3. CacheOK'
  BY <1>1, <1>2, StoreAssumption DEF GInv, CacheOK
<1>4. \A sk \in SessionKey :
         /\ sk \in OwnedBy(c) <=> Owner[sk] = c
         /\ Owner[sk] = c => counters'[sk] = 0
         /\ Owner[sk] # c => /\ entries'[sk] = entries[sk] /\ counters'[sk] = counters[sk]
                             /\ tombstones'[sk] = tombstones[sk]
  BY <1>1, StoreTypes DEF GInv, OwnedBy, Popped
<1>5. \A sk \in SessionKey : Wiped(sk)'
  <2> SUFFICES ASSUME NEW sk \in SessionKey PROVE Wiped(sk)'
    OBVIOUS
  <2>1. Wiped(sk)
    BY DEF GInv
  <2> QED BY <2>1, <1>1, <1>4 DEF Wiped
<1>6. \A d \in Credential : d # c => access'[d] = access[d]
  BY <1>1 DEF GInv, CacheOK
<1>7. late' \subseteq SessionKey
  BY <1>1 DEF GInv
<1> QED BY <1>1, <1>2, <1>3, <1>4, <1>5, <1>6, <1>7

LEMMA EvictionGInv ==
    ASSUME GInv, NEW c \in Credential, EvictStale(c) \/ MissEvict(c)
    PROVE  GInv'
<1>1. Evict(c) /\ UNCHANGED calls
  BY DEF EvictStale, MissEvict
<1>2. /\ cached' = cached \ {c} /\ CacheOK'
      /\ c \in cached => Cardinality(cached') < AuthMax
      /\ \A d \in Credential : d # c => access'[d] = access[d]
      /\ late' \subseteq SessionKey /\ now' = now
      /\ \A sk \in SessionKey : Wiped(sk)'
  BY <1>1, EvictEffect
<1>3. LoopOK /\ loop.phase # "idle"
  BY DEF GInv, EvictStale, MissEvict
<1>4. CASE EvictStale(c)
  <2>1. /\ loop.phase = "evict" /\ loop' = [loop EXCEPT !.expired = @ \ {c}]
    BY <1>4 DEF EvictStale
  <2>2. /\ loop' \in [phase : Phase, key : SessionKey \cup {NoKey}, expired : SUBSET Credential]
        /\ loop'.phase = "evict" /\ loop'.key = loop.key /\ loop'.expired = loop.expired \ {c}
    BY <2>1, <1>3 DEF LoopOK
  <2>3. LoopOK'
    BY <2>1, <2>2, <1>2, <1>3 DEF LoopOK, Idle
  <2> QED BY <2>3, <1>1, <1>2, <1>4, GInvNext DEF GInv, GNext, LoopStep
<1>5. CASE MissEvict(c)
  <2>1. c \in cached /\ loop' = [loop EXCEPT !.phase = "authenticate"]
    BY <1>5 DEF MissEvict
  <2>2. /\ loop' \in [phase : Phase, key : SessionKey \cup {NoKey}, expired : SUBSET Credential]
        /\ loop'.phase = "authenticate" /\ loop'.key = loop.key
    BY <2>1, <1>3 DEF LoopOK, Phase
  <2>3. LoopOK'
    BY <2>1, <2>2, <1>2, <1>3 DEF LoopOK, Idle
  <2> QED BY <2>3, <1>1, <1>2, <1>5, GInvNext DEF GInv, GNext, LoopStep
<1> QED BY <1>4, <1>5

\* The steps of a request that evict nothing.
LEMMA RequestGInv ==
    ASSUME GInv,
           \/ \E sk \in SessionKey : Arrive(sk)
           \/ EvictStaleDone \/ Hit \/ MissRoom \/ AuthSucceeds \/ AuthFails \/ Forward
    PROVE  GInv'
<1>1. /\ LoopOK /\ CacheOK /\ calls \in [Worker -> SessionKey \cup {NoKey}]
      /\ late \subseteq SessionKey /\ \A sk \in SessionKey : Wiped(sk)
      /\ now \in 0..MaxTime /\ [GNext]_gvars
  BY StoreTypes DEF GInv, GNext, LoopStep
<1>2. /\ UNCHANGED <<storeVars, late>> /\ now' = now /\ counters' = counters
      /\ cached \subseteq cached'
  BY DEF Arrive, EvictStaleDone, Hit, MissRoom, AuthSucceeds, AuthFails, Forward, storeVars
<1>3. \A sk \in SessionKey : Wiped(sk)'
  BY <1>1, <1>2 DEF Wiped
<1>4. Cardinality(cached) \in Nat /\ AuthMax \in Nat
  BY <1>1, AuthAssumption, FS_CardinalityType DEF CacheOK
<1>5. ASSUME NEW sk \in SessionKey, Arrive(sk) PROVE GInv'
  <2>1. /\ loop' = [Idle EXCEPT !.phase = "evict", !.key = sk,
                      !.expired = {c \in cached : now - access[c] > AuthTTL}]
        /\ UNCHANGED <<cached, access, calls>>
    BY <1>5 DEF Arrive
  <2>2. LoopOK'
    BY <2>1, <1>1, <1>2 DEF LoopOK, CacheOK, Idle, Phase
  <2> QED BY <2>1, <2>2, <1>1, <1>2, <1>3, GInvNext DEF CacheOK
<1>6. CASE EvictStaleDone \/ MissRoom
  <2>1. /\ \E p \in {"lookup", "authenticate"} :
             /\ loop' = [loop EXCEPT !.phase = p]
             /\ p = "authenticate" => Cardinality(cached) < AuthMax
        /\ loop.phase # "idle" /\ UNCHANGED <<cached, access, calls>>
    BY <1>4, <1>6 DEF EvictStaleDone, MissRoom
  <2>2. LoopOK'
    BY <2>1, <1>1 DEF LoopOK, Idle, Phase
  <2> QED BY <2>1, <2>2, <1>1, <1>2, <1>3, GInvNext DEF CacheOK
<1>7. CASE Hit \/ AuthSucceeds
  <2>1. /\ loop.phase # "idle" /\ loop' = [loop EXCEPT !.phase = "forward"]
        /\ access' = [access EXCEPT ![Owner[loop.key]] = now]
        /\ cached' = cached \cup {Owner[loop.key]}
        /\ cached' = cached \/ Cardinality(cached) < AuthMax
        /\ UNCHANGED calls
    BY <1>1, <1>7 DEF Hit, AuthSucceeds, LoopOK
  <2>2. LoopOK'
    BY <2>1, <1>1 DEF LoopOK, Idle, Phase
  <2>3. loop.key \in SessionKey /\ Owner[loop.key] \in Credential
    BY <2>1, <1>1, OwnerIsCredential DEF LoopOK
  <2>4. IsFiniteSet(cached') /\ Cardinality(cached') <= AuthMax
    <3>1. CASE cached' = cached
      BY <3>1, <1>1 DEF CacheOK
    <3>2. CASE cached' # cached
      <4>1. /\ Owner[loop.key] \notin cached /\ IsFiniteSet(cached)
            /\ Cardinality(cached) < AuthMax
        BY <3>2, <2>1, <1>1 DEF CacheOK
      <4>2. IsFiniteSet(cached') /\ Cardinality(cached') = Cardinality(cached) + 1
        BY <4>1, <2>1, FS_AddElement
      <4> QED BY <4>1, <4>2, <1>4
    <3> QED BY <3>1, <3>2
  <2>5. CacheOK'
    BY <2>1, <2>3, <2>4, <1>1 DEF CacheOK
  <2> QED BY <2>1, <2>2, <2>5, <1>1, <1>2, <1>3, GInvNext
<1>8. CASE AuthFails \/ Forward
  <2>1. /\ loop.phase # "idle" /\ loop' = Idle /\ UNCHANGED <<cached, access>>
        /\ \/ UNCHANGED calls
           \/ \E w \in Worker : calls' = [calls EXCEPT ![w] = loop.key]
    BY <1>8 DEF AuthFails, Forward
  <2>2. LoopOK'
    BY <2>1 DEF LoopOK, Idle, Phase
  <2>3. calls' \in [Worker -> SessionKey \cup {NoKey}]
    BY <2>1, <1>1 DEF LoopOK
  <2> QED BY <2>1, <2>2, <2>3, <1>1, <1>2, <1>3, GInvNext DEF CacheOK
<1> QED BY <1>5, <1>6, <1>7, <1>8

\* A call that stores after its credential went marks its partition as late;
\* the partitions its store displaces are empty again.
LEMMA CallStoresGInv ==
    ASSUME GInv, NEW w \in Worker, NEW resp \in Response, CallStores(w, resp)
    PROVE  GInv'
<1> DEFINE sk == calls[w]
           gone == Displaced(sk)
<1>1. /\ sk \in SessionKey /\ Store(sk, resp)
      /\ late' = (late \ gone) \cup (IF Owner[sk] \in cached THEN {} ELSE {sk})
      /\ UNCHANGED <<cached, access, loop, calls>>
  BY DEF CallStores, GInv
<1>2. now' = now /\ counters' = [Popped(counters, gone, 0) EXCEPT ![sk] = NextRef(sk)]
  BY <1>1 DEF Store
<1> HIDE DEF sk, gone
<1>3. \A k \in SessionKey : k # sk =>
         counters'[k] = IF k \in gone THEN 0 ELSE counters[k]
  BY <1>1, <1>2, StoreTypes DEF GInv, Popped
<1>4. \A k \in SessionKey : Wiped(k)'
  <2> SUFFICES ASSUME NEW k \in SessionKey PROVE Wiped(k)'
    OBVIOUS
  <2>1. Wiped(k)
    BY DEF GInv
  <2>2. CASE k = sk
    BY <2>2, <1>1 DEF Wiped
  <2>3. CASE k # sk
    BY <2>1, <2>3, <1>1, <1>3 DEF Wiped
  <2> QED BY <2>2, <2>3
<1>5. CacheOK' /\ LoopOK' /\ calls' \in [Worker -> SessionKey \cup {NoKey}]
      /\ late' \subseteq SessionKey
  BY <1>1, <1>2 DEF GInv, CacheOK, LoopOK
<1> QED BY <1>4, <1>5, GInvNext DEF GNext

\* Reading, ending a call and the clock change nothing of the cache.
LEMMA QuietGInv ==
    ASSUME GInv,
           \/ \E w \in Worker, r \in Ref : CallReads(w, r)
           \/ \E w \in Worker : CallEnds(w)
           \/ ClockTick
           \/ UNCHANGED gvars
    PROVE  GInv'
<1>1. /\ UNCHANGED <<cached, access, loop, late, counters>>
      /\ now' = now \/ now' = now + 1
      /\ calls' \in [Worker -> SessionKey \cup {NoKey}]
  <2>1. ASSUME NEW w \in Worker, NEW r \in Ref, CallReads(w, r)
        PROVE  UNCHANGED <<authVars, counters, now>>
    BY <2>1 DEF CallReads, Get, GetHit, GetExpired, storeVars
  <2>2. ASSUME NEW w \in Worker, CallEnds(w)
        PROVE  /\ UNCHANGED <<cached, access, loop, late, counters, now>>
               /\ calls' \in [Worker -> SessionKey \cup {NoKey}]
    BY <2>2 DEF CallEnds, storeVars, GInv
  <2>3. ASSUME ClockTick
        PROVE  UNCHANGED <<authVars, counters>> /\ now' = now + 1
    BY <2>3 DEF ClockTick, Tick
  <2>4. ASSUME UNCHANGED gvars PROVE UNCHANGED <<authVars, counters, now>>
    BY <2>4 DEF gvars, authVars
  <2> QED BY <2>1, <2>2, <2>3, <2>4 DEF authVars, GInv
<1>2. \A sk \in SessionKey : Wiped(sk)'
  BY <1>1 DEF GInv, Wiped
<1>3. CacheOK'
  BY <1>1 DEF GInv, CacheOK
<1>4. LoopOK'
  <2>1. now \in Nat /\ now' \in Nat /\ AuthTTL \in Nat
        /\ \A c \in Credential : access[c] \in Nat
    BY <1>1, StoreTypes, AuthAssumption, StoreAssumption DEF GInv, CacheOK
  <2>2. loop.phase = "evict" => \A c \in loop.expired : now' - access[c] > AuthTTL
    BY <2>1, <1>1 DEF GInv, LoopOK
  <2> QED BY <2>2, <1>1 DEF GInv, LoopOK
<1> QED BY <1>1, <1>2, <1>3, <1>4, GInvNext DEF GInv, GNext

LEMMA NextGInv == GInv /\ [GNext]_gvars => GInv'
BY EvictionGInv, RequestGInv, CallStoresGInv, QuietGInv DEF GNext, LoopStep

-----------------------------------------------------------------------------
\* The credential cache and the middleware keep their types and the cap
\* (_client_cache, _CACHE_MAX).
THEOREM AuthTypeOK == GSpec => []GTypeOK
<1>1. GInv => GTypeOK
  BY DEF GInv, GTypeOK, CacheOK, LoopOK, IInv
<1> QED BY <1>1, InitGInv, NextGInv, PTL DEF GSpec

\* After a credential is evicted nothing of its partitions is left but what a
\* call that outlived the eviction has stored since (_evict_stale, _evict_lru,
\* clear_credential_sessions).
THEOREM EvictionsWipe == GSpec => []EvictionWipes
<1>1. GInv => EvictionWipes
  <2> SUFFICES ASSUME GInv, NEW sk \in SessionKey, Owner[sk] \notin cached, sk \notin late
               PROVE  /\ sk \notin ToSet(sessions)
                      /\ entries[sk] = <<>> /\ counters[sk] = 0 /\ tombstones[sk] = <<>>
    BY DEF EvictionWipes
  <2>1. counters[sk] = 0
    BY DEF GInv, Wiped
  <2> QED BY <2>1 DEF GInv, IInv, PartitionsAgree
<1> QED BY <1>1, InitGInv, NextGInv, PTL DEF GSpec

\* Only an eviction takes a credential out of the cache.
LEMMA OnlyEvictionsEvict ==
    ASSUME GInv, GNext, cached \ cached' # {}
    PROVE  \E c \in Credential : /\ EvictStale(c) \/ MissEvict(c)
                                 /\ cached \ cached' = {c}
<1>1. \E c \in Credential : EvictStale(c) \/ MissEvict(c)
  BY DEF GNext, LoopStep, Arrive, EvictStaleDone, Hit, MissRoom, AuthSucceeds, AuthFails,
         Forward, CallStores, CallReads, CallEnds, ClockTick, authVars
<1>2. PICK c \in Credential : EvictStale(c) \/ MissEvict(c)
  BY <1>1
<1>3. cached' = cached \ {c}
  BY <1>2 DEF EvictStale, MissEvict, Evict
<1> QED BY <1>2, <1>3

\* An eviction leaves every other tenant's partitions as they are
\* (clear_credential_sessions).
THEOREM EvictionsSpareOthers == GSpec => EvictionSparesOthers
<1> DEFINE Spares == \A sk \in SessionKey :
                        cached \ cached' # {} /\ Owner[sk] \notin cached \ cached' =>
                           /\ entries'[sk] = entries[sk]
                           /\ counters'[sk] = counters[sk]
                           /\ tombstones'[sk] = tombstones[sk]
<1>1. GInv /\ [GNext]_gvars => [Spares]_gvars
  <2> SUFFICES ASSUME GInv, GNext, cached \ cached' # {} PROVE Spares
    OBVIOUS
  <2>1. PICK c \in Credential : (EvictStale(c) \/ MissEvict(c)) /\ cached \ cached' = {c}
    BY OnlyEvictionsEvict
  <2>2. Evict(c)
    BY <2>1 DEF EvictStale, MissEvict
  <2> QED BY <2>1, <2>2, EvictEffect
<1> QED BY <1>1, InitGInv, NextGInv, PTL DEF GSpec, EvictionSparesOthers

\* A credential is evicted past its time, or as the least recently accessed of
\* a full cache, never the one being served (_evict_stale, _evict_lru).
THEOREM EvictionsJustified == GSpec => EvictionJustified
<1> DEFINE Justified == \A c \in cached \ cached' :
                          \/ c \in loop.expired /\ now - access[c] > AuthTTL
                          \/ /\ Cardinality(cached) = AuthMax
                             /\ c # Owner[loop.key]
                             /\ \A d \in cached : access[c] <= access[d]
<1>1. GInv /\ [GNext]_gvars => [Justified]_gvars
  <2> SUFFICES ASSUME GInv, GNext, cached \ cached' # {} PROVE Justified
    OBVIOUS
  <2>1. PICK c \in Credential : (EvictStale(c) \/ MissEvict(c)) /\ cached \ cached' = {c}
    BY OnlyEvictionsEvict
  <2>2. CASE EvictStale(c)
    BY <2>1, <2>2 DEF EvictStale, GInv, LoopOK
  <2>3. CASE MissEvict(c)
    <3>1. Cardinality(cached) \in Nat /\ AuthMax \in Nat /\ Cardinality(cached) <= AuthMax
      BY AuthAssumption, FS_CardinalityType DEF GInv, CacheOK
    <3>2. /\ Cardinality(cached) >= AuthMax /\ Owner[loop.key] \notin cached /\ c \in cached
          /\ \A d \in cached : access[c] <= access[d]
      BY <2>3 DEF MissEvict
    <3>3. Cardinality(cached) = AuthMax
      BY <3>1, <3>2
    <3> QED BY <2>1, <3>2, <3>3
  <2> QED BY <2>1, <2>2, <2>3
<1> QED BY <1>1, InitGInv, NextGInv, PTL DEF GSpec, EvictionJustified

-----------------------------------------------------------------------------
\* The middleware with its evictions and the tool bodies on worker threads use
\* the store as it is meant to be used: whatever they interleave, a response
\* is where the shelf says, under its reference, until the shelf lets it go.
THEOREM SessionsKeepShelf == GSpec => KeepsShelf
<1>1. GSpec => Spec
  <2>1. GInit => Init
    BY DEF GInit
  <2> QED BY <2>1, InitGInv, NextGInv, StoreSteps, PTL DEF GSpec, Spec
<1> QED BY <1>1, StoreKeepsShelf
=============================================================================
