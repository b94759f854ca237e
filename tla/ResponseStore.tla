--------------------------- MODULE ResponseStore ---------------------------
(***************************************************************************)
(* The session-partitioned response store of response_store.py: class      *)
(* ResponseStore.  Every class method runs under one re-entrant lock, so   *)
(* every method is one atomic action here; what is interleaved are the     *)
(* calls of different sessions, the passing of time, and the clearing of   *)
(* partitions by the authentication layer.                                 *)
(*                                                                         *)
(* A response is an opaque value that stands for a tool result: its data,  *)
(* tool name and metadata.  A reference "resp_007" is the number 7 (the    *)
(* format is injective); a session key is the value make_session_key       *)
(* builds, of which only the owning credential matters.                    *)
(***************************************************************************)
EXTENDS Naturals, Sequences, FiniteSets, SequencesExt

CONSTANTS
    Credential,     \* cache keys of the authentication layer
    SessionKey,     \* the partition keys in use
    Owner,          \* Owner[sk]: the credential sk was made from
    Response,       \* the tool results that get stored
    MaxEntries,     \* _max_entries:   live entries per partition
    MaxSessions,    \* _max_sessions:  partitions
    TombstoneCap,   \* _tombstone_cap: tombstones per partition
    TTL,            \* _ttl_seconds, in clock units
    MaxRef,         \* bound of the model: references per partition
    MaxTime         \* bound of the model: clock values

ASSUME StoreAssumption ==
    /\ Owner \in [SessionKey -> Credential]
    /\ IsFiniteSet(SessionKey)
    /\ MaxEntries \in Nat \ {0}
    /\ MaxSessions \in Nat \ {0}
    /\ TombstoneCap \in Nat \ {0}
    /\ TTL \in Nat /\ MaxRef \in Nat /\ MaxTime \in Nat

VARIABLES
    sessions,       \* _sessions: its keys, least recently stored-to first
    entries,        \* _sessions[sk]: the entries, least recently used first
    counters,       \* _counters[sk]; 0 where the key is absent
    tombstones,     \* _tombstones[sk]: oldest first; <<>> where absent
    now             \* datetime.now()

storeVars == <<sessions, entries, counters, tombstones, now>>

Ref == 1..MaxRef
Reason == {"lru", "ttl"}
StoredResponse == [ref : Ref, timestamp : 0..MaxTime, response : Response]
Tombstone == [ref : Ref, response : Response, reason : Reason]

-----------------------------------------------------------------------------
(* Ordered dictionaries, as sequences.                                     *)

\* popitem(last=False) until at most n items are left.
KeepLast(s, n) ==
    IF Len(s) > n THEN SubSeq(s, Len(s) - n + 1, Len(s)) ELSE s

\* The keys of a sequence of items that carry a reference.
Refs(items) == {items[i].ref : i \in DOMAIN items}

PositionOf(s, x) == CHOOSE i \in DOMAIN s : s[i] = x

\* The orders of the keys K that agree with the order of s: exactly one when
\* s lists every key of K once.
InOrderOf(s, K) ==
    {t \in [1..Cardinality(K) -> K] :
        \A i, j \in DOMAIN t : i < j => PositionOf(s, t[i]) < PositionOf(s, t[j])}

\* f with every key of K popped.
Popped(f, K, absent) == [k \in DOMAIN f |-> IF k \in K THEN absent ELSE f[k]]

-----------------------------------------------------------------------------
(* What the readers of one partition compute.                              *)

\* Mutant of Expired: the TTL is exclusive.
ExpiredAtTtl(e) == now - e.timestamp >= TTL

Expired(e) == now - e.timestamp > TTL

\* The entry get() would return, as a set of at most one.
Readable(sk, r) ==
    {e \in ToSet(entries[sk]) : e.ref = r /\ ~Expired(e)}

\* list_refs(): nothing is purged by listing.
ListedRefs(sk) == {e.ref : e \in {d \in ToSet(entries[sk]) : ~Expired(d)}}

\* get_tombstone(), as a set of at most one.
TombstoneOf(sk, r) == {t \in ToSet(tombstones[sk]) : t.ref = r}

\* Mutant of WithTombstone: the tombstones are never trimmed.
WithTombstoneUntrimmed(stones, e, reason) ==
    Append(stones, [ref |-> e.ref, response |-> e.response, reason |-> reason])

\* _add_tombstone: overwrite in place or append, then trim to the cap.
WithTombstone(stones, e, reason) ==
    LET stone == [ref |-> e.ref, response |-> e.response, reason |-> reason]
    IN  IF e.ref \in Refs(stones)
        THEN [i \in DOMAIN stones |->
                 IF stones[i].ref = e.ref THEN stone ELSE stones[i]]
        ELSE KeepLast(Append(stones, stone), TombstoneCap)

-----------------------------------------------------------------------------
Init ==
    /\ sessions = <<>>
    /\ entries = [sk \in SessionKey |-> <<>>]
    /\ counters = [sk \in SessionKey |-> 0]
    /\ tombstones = [sk \in SessionKey |-> <<>>]
    /\ now = 0

\* The partitions store() evicts whole before it opens one for sk.
Displaced(sk) ==
    IF sk \in ToSet(sessions) THEN {}
    ELSE ToSet(sessions) \ ToSet(KeepLast(sessions, MaxSessions - 1))

\* Mutant of Touched: the partition is not taken out of its old place.
TouchedTwice(sk) == Append(KeepLast(sessions, MaxSessions - 1), sk)

\* The order of sessions once the displaced ones are gone and sk is last.
Touched(sk) ==
    IF sk \in ToSet(sessions)
    THEN Append(RemoveAt(sessions, PositionOf(sessions, sk)), sk)
    ELSE Append(KeepLast(sessions, MaxSessions - 1), sk)

\* Mutant of NextRef: numbered by the live entries instead of the counter.
NextRefByLength(sk) == Len(entries[sk]) + 1

\* The number of the reference store() issues: a new partition restarts at 1.
NextRef(sk) == IF sk \in ToSet(sessions) THEN counters[sk] + 1 ELSE 1

\* store(): open or touch the partition, issue a reference, make room, insert.
Store(sk, resp) ==
    LET gone == Displaced(sk)
        ref == NextRef(sk)
        full == Len(entries[sk]) >= MaxEntries
        room == IF full THEN Tail(entries[sk]) ELSE entries[sk]
        stones == IF full
                  THEN WithTombstone(tombstones[sk], Head(entries[sk]), "lru")
                  ELSE tombstones[sk]
        entry == [ref |-> ref, timestamp |-> now, response |-> resp]
    IN  /\ ref \in Ref
        /\ sessions' = Touched(sk)
        /\ counters' = [Popped(counters, gone, 0) EXCEPT ![sk] = ref]
        /\ tombstones' = [Popped(tombstones, gone, <<>>) EXCEPT ![sk] = stones]
        /\ entries' = [Popped(entries, gone, <<>>) EXCEPT ![sk] = Append(room, entry)]
        /\ UNCHANGED now

\* Mutant of GetHit: reading does not make the entry the most recently used.
GetHitInPlace(sk, i) ==
    i \in DOMAIN entries[sk] /\ ~Expired(entries[sk][i]) /\ UNCHANGED storeVars

\* Mutant of GetHit: reading renews the entry's age.
GetHitRenews(sk, i) ==
    /\ i \in DOMAIN entries[sk]
    /\ ~Expired(entries[sk][i])
    /\ entries' = [entries EXCEPT
                     ![sk] = Append(RemoveAt(@, i), [@[i] EXCEPT !.timestamp = now])]
    /\ UNCHANGED <<sessions, counters, tombstones, now>>

\* get() of a live entry: reading makes it the most recently used.
GetHit(sk, i) ==
    /\ i \in DOMAIN entries[sk]
    /\ ~Expired(entries[sk][i])
    /\ entries' = [entries EXCEPT ![sk] = Append(RemoveAt(@, i), @[i])]
    /\ UNCHANGED <<sessions, counters, tombstones, now>>

\* Mutant of GetExpired: the entry goes without a tombstone.
GetExpiredSilently(sk, i) ==
    /\ i \in DOMAIN entries[sk]
    /\ Expired(entries[sk][i])
    /\ entries' = [entries EXCEPT ![sk] = RemoveAt(@, i)]
    /\ UNCHANGED <<sessions, counters, tombstones, now>>

\* get() of an entry past its TTL: tombstone it, delete it, report a miss.
GetExpired(sk, i) ==
    /\ i \in DOMAIN entries[sk]
    /\ Expired(entries[sk][i])
    /\ tombstones' =
         [tombstones EXCEPT ![sk] = WithTombstone(@, entries[sk][i], "ttl")]
    /\ entries' = [entries EXCEPT ![sk] = RemoveAt(@, i)]
    /\ UNCHANGED <<sessions, counters, now>>

\* get() of one reference; a reference with no entry changes nothing.
Get(sk, r) ==
    \/ r \notin Refs(entries[sk]) /\ UNCHANGED storeVars
    \/ \E i \in DOMAIN entries[sk] :
          /\ entries[sk][i].ref = r
          /\ GetHit(sk, i) \/ GetExpired(sk, i)

\* Mutant of ClearPartitions: the tombstones stay behind.
ClearPartitionsKeepStones(K) ==
    /\ sessions' \in InOrderOf(sessions, ToSet(sessions) \ K)
    /\ entries' = Popped(entries, K, <<>>)
    /\ counters' = Popped(counters, K, 0)
    /\ UNCHANGED <<tombstones, now>>

\* Drop the partitions K whole.
ClearPartitions(K) ==
    /\ sessions' \in InOrderOf(sessions, ToSet(sessions) \ K)
    /\ entries' = Popped(entries, K, <<>>)
    /\ counters' = Popped(counters, K, 0)
    /\ tombstones' = Popped(tombstones, K, <<>>)
    /\ UNCHANGED now

OwnedBy(c) == {sk \in SessionKey : Owner[sk] = c}

ClearSession(sk) == ClearPartitions({sk})

\* Mutant of ClearCredentialSessions: one partition of the credential only.
ClearOneSession(c) == \E sk \in OwnedBy(c) : ClearSession(sk)

\* Mutant of ClearCredentialSessions: every tenant's partitions go.
ClearEverySession(c) == ClearPartitions(SessionKey)

ClearCredentialSessions(c) == ClearPartitions(OwnedBy(c))

Tick ==
    /\ now < MaxTime
    /\ now' = now + 1
    /\ UNCHANGED <<sessions, entries, counters, tombstones>>

Next ==
    \/ \E sk \in SessionKey, resp \in Response : Store(sk, resp)
    \/ \E sk \in SessionKey, r \in Ref : Get(sk, r)
    \/ \E sk \in SessionKey : ClearSession(sk)
    \/ \E c \in Credential : ClearCredentialSessions(c)
    \/ Tick

Spec == Init /\ [][Next]_storeVars

\* What is on a session's shelf is the set of its entries.
Shelf == INSTANCE ResponseShelf
           WITH shelf <- [sk \in SessionKey |-> ToSet(entries[sk])], issued <- counters

-----------------------------------------------------------------------------
(* Properties.                                                             *)

\* Every variable has its type; ordered dictionaries list a key once.
TypeOK ==
    /\ sessions \in Seq(SessionKey)
    /\ \A i, j \in DOMAIN sessions : sessions[i] = sessions[j] => i = j
    /\ entries \in [SessionKey -> Seq(StoredResponse)]
    /\ counters \in [SessionKey -> 0..MaxRef]
    /\ tombstones \in [SessionKey -> Seq(Tombstone)]
    /\ now \in 0..MaxTime

\* The three dictionaries agree on which partitions exist: whichever way a
\* partition goes (displacement, clearing), its counter and its tombstones go
\* with it, so that no metadata outlives it and nothing leaks.
PartitionsAgree ==
    \A sk \in SessionKey :
        /\ sk \in ToSet(sessions) <=> counters[sk] > 0
        /\ sk \notin ToSet(sessions) => entries[sk] = <<>> /\ tombstones[sk] = <<>>

\* The caps hold at every moment, also while expired entries pile up.
Bounded ==
    /\ Len(sessions) <= MaxSessions
    /\ \A sk \in SessionKey :
          /\ Len(entries[sk]) <= MaxEntries
          /\ Len(tombstones[sk]) <= TombstoneCap

\* In a partition no reference names two entries, none is at once live and
\* tombstoned, and none is ahead of the counter: an issued reference can never
\* come to mean another response while the partition lives.
RefsDistinct ==
    \A sk \in SessionKey :
        /\ \A i, j \in DOMAIN entries[sk] :
              entries[sk][i].ref = entries[sk][j].ref => i = j
        /\ \A i, j \in DOMAIN tombstones[sk] :
              tombstones[sk][i].ref = tombstones[sk][j].ref => i = j
        /\ Refs(entries[sk]) \cap Refs(tombstones[sk]) = {}
        /\ \A r \in Refs(entries[sk]) \cup Refs(tombstones[sk]) : r <= counters[sk]

\* A miss can always be explained: a reference of this partition that is no
\* longer live has a tombstone, unless the tombstones are full and have
\* displaced it.
MissExplained ==
    \A sk \in SessionKey : \A r \in 1..counters[sk] :
        \/ r \in Refs(entries[sk])
        \/ r \in Refs(tombstones[sk])
        \/ Len(tombstones[sk]) = TombstoneCap

\* The store keeps what ResponseShelf promises: a response leaves only to make
\* room at a cap, past its TTL or when its session is cleared, and whatever the
\* dictionaries and their orders go through, no other session notices.
KeepsShelf == Shelf!ShelfSpec
=============================================================================
