------------------------ MODULE ResponseStoreHistory ------------------------
(***************************************************************************)
(* The response store with history variables that record what its callers  *)
(* have done, so that what the store promises them can be stated without   *)
(* mentioning how it is implemented: what a reference was issued for, which *)
(* other references were used since its last use, and which other          *)
(* partitions were stored to since the last store to this one.             *)
(***************************************************************************)
EXTENDS ResponseStore

VARIABLES
    given,      \* given[sk][r]: what reference r of sk's partition was issued for
    since,      \* since[sk][r]: references of sk used since r was last used
    rivals      \* rivals[sk]: partitions stored to since sk was; sk itself is
                \* in it while nothing has been stored since sk was cleared

histVars == <<given, since, rivals>>
hvars == <<sessions, entries, counters, tombstones, now,
           given, since, rivals>>

Unused == [r \in Ref |-> {}]

HInit ==
    /\ Init
    /\ given = [sk \in SessionKey |-> <<>>]
    /\ since = [sk \in SessionKey |-> Unused]
    /\ rivals = [sk \in SessionKey |-> {sk}]

\* Reference r of one partition is used: by its store() or by a get() that hits.
Use(s, r, issued) ==
    [x \in Ref |-> IF x = r \/ x \notin issued THEN {} ELSE s[x] \cup {r}]

HStore(sk, resp) ==
    LET r == NextRef(sk)
        old == IF r = 1 THEN <<>> ELSE given[sk]
    IN  /\ Store(sk, resp)
        /\ given' = [Popped(given, Displaced(sk), <<>>) EXCEPT
                        ![sk] = Append(old, [response |-> resp, timestamp |-> now])]
        /\ since' = [Popped(since, Displaced(sk), Unused) EXCEPT
                        ![sk] = Use(@, r, 1..r)]
        /\ rivals' = [k \in SessionKey |->
                        IF k = sk THEN {}
                        ELSE IF k \in rivals[k] THEN {k} ELSE rivals[k] \cup {sk}]

HGet(sk, r) ==
    /\ Get(sk, r)
    /\ since' = [since EXCEPT ![sk] =
                    IF Readable(sk, r) = {} THEN @ ELSE Use(@, r, 1..counters[sk])]
    /\ UNCHANGED <<given, rivals>>

HClear(K) ==
    /\ ClearPartitions(K)
    /\ given' = Popped(given, K, <<>>)
    /\ since' = Popped(since, K, Unused)
    /\ rivals' = [k \in SessionKey |-> IF k \in K THEN {k} ELSE rivals[k]]

HTick == Tick /\ UNCHANGED histVars

HNext ==
    \/ \E sk \in SessionKey, resp \in Response : HStore(sk, resp)
    \/ \E sk \in SessionKey, r \in Ref : HGet(sk, r)
    \/ \E sk \in SessionKey : HClear({sk})
    \/ \E c \in Credential : HClear(OwnedBy(c))
    \/ HTick

HSpec == HInit /\ [][HNext]_hvars

-----------------------------------------------------------------------------
\* A reference gives back what it was issued for: an entry has the response
\* and the age of the store() that issued it, and the tombstone of an evicted
\* reference describes that same response and is right about why it went: "ttl"
\* only after it had outlived its TTL, "lru" only after MaxEntries other
\* references of the partition were used since its own last use.
Truthful ==
    \A sk \in SessionKey :
        /\ \A e \in ToSet(entries[sk]) :
              /\ e.response = given[sk][e.ref].response
              /\ e.timestamp = given[sk][e.ref].timestamp
        /\ \A t \in ToSet(tombstones[sk]) :
              /\ t.response = given[sk][t.ref].response
              /\ t.reason = "ttl" => now - given[sk][t.ref].timestamp > TTL
              /\ t.reason = "lru" => Cardinality(since[sk][t.ref]) >= MaxEntries

\* The least-recently-used promise to the caller, at both levels: while the
\* partition lives, a reference that is within its TTL and since whose last use
\* fewer than MaxEntries other references were used can still be read; and
\* storing to fewer than MaxSessions other partitions never costs a session its
\* partition.
RecentStays ==
    \A sk \in SessionKey :
        /\ \A r \in 1..counters[sk] :
              /\ Cardinality(since[sk][r]) < MaxEntries
              /\ now - given[sk][r].timestamp <= TTL
              => Readable(sk, r) # {}
        /\ sk \notin rivals[sk] /\ Cardinality(rivals[sk]) < MaxSessions
           => sk \in ToSet(sessions)
=============================================================================
