--------------------- MODULE ResponseStoreHistoryProofs ---------------------
(***************************************************************************)
(* What the response store promises its callers, for every cap and TTL:     *)
(* references are truthful, and what has been used recently stays.  The     *)
(* least-recently-used orders are right because an entry or a partition is   *)
(* always behind those that were used since, so that the one at the front   *)
(* of a full list has been passed by all the others.                       *)
(***************************************************************************)
EXTENDS ResponseStoreHistory, ResponseStoreProofs

(* Lists in an order.                                                      *)

\* Of any two items of s the earlier is related to the later by R.
Follows(s, R) == \A i, j \in DOMAIN s : i < j => <<s[i], s[j]>> \in R

LEMMA RemoveAtFollows ==
    ASSUME NEW S, NEW s \in Seq(S), NEW i \in 1..Len(s), NEW R, Follows(s, R)
    PROVE  Follows(RemoveAt(s, i), R)
<1> DEFINE k == RemoveAt(s, i)
<1>1. Len(s) \in Nat /\ DOMAIN s = 1..Len(s) /\ i \in Nat
  BY LenProperties
<1>2. /\ k \in Seq(S) /\ Len(k) = Len(s) - 1
      /\ \A j \in 1..Len(s) - 1 : k[j] = IF j < i THEN s[j] ELSE s[j + 1]
  BY RemoveAtProperties
<1> HIDE DEF k
<1>3. DOMAIN k = 1..Len(s) - 1
  BY <1>2, LenProperties
<1>4. ASSUME NEW x \in 1..Len(s) - 1, NEW y \in 1..Len(s) - 1, x < y
      PROVE  <<k[x], k[y]>> \in R
  <2>1. PICK v \in 1..Len(s), w \in 1..Len(s) : v < w /\ k[x] = s[v] /\ k[y] = s[w]
    <3>1. CASE x < i /\ y < i
      BY <3>1, <1>1, <1>2, <1>4
    <3>2. CASE x < i /\ ~(y < i)
      <4>1. x < y + 1 /\ y + 1 \in 1..Len(s) /\ x \in 1..Len(s) /\ k[x] = s[x] /\ k[y] = s[y + 1]
        BY <3>2, <1>1, <1>2, <1>4
      <4> QED BY <4>1
    <3>3. CASE ~(x < i) /\ ~(y < i)
      <4>1. x + 1 < y + 1 /\ y + 1 \in 1..Len(s) /\ x + 1 \in 1..Len(s)
            /\ k[x] = s[x + 1] /\ k[y] = s[y + 1]
        BY <3>3, <1>1, <1>2, <1>4
      <4> QED BY <4>1
    <3> QED BY <3>1, <3>2, <3>3, <1>1, <1>4
  <2> QED BY <2>1, <1>1 DEF Follows
<1> QED BY <1>3, <1>4 DEF Follows, k

LEMMA AppendFollows ==
    ASSUME NEW S, NEW s \in Seq(S), NEW x \in S, NEW R, Follows(s, R),
           \A i \in 1..Len(s) : <<s[i], x>> \in R
    PROVE  Follows(Append(s, x), R)
<1> DEFINE f == Append(s, x)
<1>1. Len(s) \in Nat /\ DOMAIN s = 1..Len(s)
  BY LenProperties
<1>2. /\ f \in Seq(S) /\ Len(f) = Len(s) + 1
      /\ \A j \in 1..Len(s) : f[j] = s[j]
      /\ f[Len(s) + 1] = x
  BY AppendProperties
<1> HIDE DEF f
<1>3. DOMAIN f = 1..Len(s) + 1
  BY <1>2, LenProperties
<1>4. ASSUME NEW i \in 1..Len(s) + 1, NEW j \in 1..Len(s) + 1, i < j
      PROVE  <<f[i], f[j]>> \in R
  <2>1. i \in 1..Len(s) /\ f[i] = s[i]
    BY <1>1, <1>2, <1>4
  <2>2. CASE j = Len(s) + 1
    BY <2>1, <2>2, <1>2
  <2>3. CASE j # Len(s) + 1
    <3>1. j \in 1..Len(s) /\ f[j] = s[j]
      BY <2>3, <1>1, <1>2
    <3> QED BY <2>1, <3>1, <1>1, <1>4 DEF Follows
  <2> QED BY <2>2, <2>3
<1> QED BY <1>3, <1>4 DEF Follows, f

LEMMA KeepLastFollows ==
    ASSUME NEW S, NEW s \in Seq(S), NEW n \in Nat, NEW R, Follows(s, R)
    PROVE  Follows(KeepLast(s, n), R)
<1> DEFINE k == KeepLast(s, n)
<1>1. Len(s) \in Nat /\ DOMAIN s = 1..Len(s)
  BY LenProperties
<1>2. /\ k \in Seq(S)
      /\ Len(k) = IF Len(s) > n THEN n ELSE Len(s)
      /\ Len(s) <= n => k = s
      /\ Len(s) > n => \A j \in 1..n : k[j] = s[Len(s) - n + j]
  BY KeepLastProperties
<1> HIDE DEF k
<1>3. CASE Len(s) <= n
  BY <1>2, <1>3 DEF k
<1>4. CASE Len(s) > n
  <2>1. DOMAIN k = 1..n
    BY <1>2, <1>4, LenProperties
  <2>2. ASSUME NEW i \in 1..n, NEW j \in 1..n, i < j
        PROVE  <<k[i], k[j]>> \in R
    <3> DEFINE x == Len(s) - n + i
               y == Len(s) - n + j
    <3>1. x \in 1..Len(s) /\ y \in 1..Len(s) /\ x < y
      BY <1>1, <1>4, <2>2
    <3>2. k[i] = s[x] /\ k[j] = s[y]
      BY <1>2, <1>4
    <3> HIDE DEF x, y
    <3> QED BY <3>1, <3>2, <1>1 DEF Follows
  <2> QED BY <2>1, <2>2 DEF Follows, k
<1> QED BY <1>1, <1>3, <1>4

\* A list in an order is in a wider one.
LEMMA FollowsWider ==
    ASSUME NEW s, NEW R, NEW Q, Follows(s, R),
           \A i, j \in DOMAIN s : i < j /\ <<s[i], s[j]>> \in R => <<s[i], s[j]>> \in Q
    PROVE  Follows(s, Q)
BY DEF Follows

-----------------------------------------------------------------------------
(* One partition with its history: entries e, tombstones t, counter c, what *)
(* was given g and used since s, at time n.                                *)

Given == [response : Response, timestamp : 0..MaxTime]

\* Its entry b was used after its entry a.
UsedSince(s) == {p \in StoredResponse \X StoredResponse : p[2].ref \in s[p[1].ref]}

EntriesTrue(e, g) ==
    \A i \in DOMAIN e : /\ e[i].response = g[e[i].ref].response
                        /\ e[i].timestamp = g[e[i].ref].timestamp

Passed(s, r) == Cardinality(s[r]) >= MaxEntries

StonesTrue(t, g, s, n) ==
    \A i \in DOMAIN t : /\ t[i].response = g[t[i].ref].response
                        /\ t[i].reason = "ttl" => n - g[t[i].ref].timestamp > TTL
                        /\ t[i].reason = "lru" => Passed(s, t[i].ref)

\* A reference that is not live has outlived its TTL or was passed.
MissesTrue(e, c, g, s, n) ==
    \A r \in 1..c : r \in Refs(e) \/ n - g[r].timestamp > TTL \/ Passed(s, r)

HistoryOK(e, t, c, g, s, n) ==
    /\ g \in Seq(Given) /\ Len(g) = c
    /\ s \in [Ref -> SUBSET Ref]
    /\ Follows(e, UsedSince(s))
    /\ EntriesTrue(e, g)
    /\ StonesTrue(t, g, s, n)
    /\ MissesTrue(e, c, g, s, n)

LEMMA EmptyHistory == \A n : HistoryOK(<<>>, <<>>, 0, <<>>, Unused, n)
<1>1. <<>> \in Seq(Given) /\ Len(<<>>) = 0 /\ DOMAIN <<>> = {}
  BY EmptySeq
<1>2. Unused \in [Ref -> SUBSET Ref]
  BY DEF Unused
<1>3. 1..0 = {}
  OBVIOUS
<1> QED BY <1>1, <1>2, <1>3
       DEF HistoryOK, Follows, EntriesTrue, StonesTrue, MissesTrue

\* More may have been used since, and a reference once passed stays so.
LEMMA PassedStays ==
    ASSUME NEW s \in [Ref -> SUBSET Ref], NEW q \in [Ref -> SUBSET Ref], NEW r \in Ref,
           s[r] \subseteq q[r], Passed(s, r)
    PROVE  Passed(q, r)
<1>1. IsFiniteSet(Ref)
  BY FS_Interval, StoreAssumption DEF Ref
<1>2. IsFiniteSet(q[r]) /\ IsFiniteSet(s[r])
  BY <1>1, FS_Subset
<1>3. Cardinality(s[r]) <= Cardinality(q[r]) /\ Cardinality(s[r]) \in Nat /\ Cardinality(q[r]) \in Nat
  BY <1>2, FS_Subset, FS_CardinalityType
<1> QED BY <1>3, StoreAssumption DEF Passed

\* The stones of a partition that evicts an entry are the old ones and its own.
LEMMA StonesOfEviction ==
    ASSUME NEW e, NEW t, NEW c, PartitionOK(e, t, c), NEW i \in 1..Len(e), NEW reason \in Reason,
           NEW j \in DOMAIN WithTombstone(t, e[i], reason)
    PROVE  LET u == WithTombstone(t, e[i], reason)[j] IN
           \/ u = [ref |-> e[i].ref, response |-> e[i].response, reason |-> reason]
           \/ \E k \in DOMAIN t : u = t[k]
<1> DEFINE stone == [ref |-> e[i].ref, response |-> e[i].response, reason |-> reason]
           u == Append(t, stone)
           v == KeepLast(u, TombstoneCap)
<1>1. /\ e \in Seq(StoredResponse) /\ DOMAIN e = 1..Len(e) /\ e[i] \in StoredResponse
      /\ t \in Seq(Tombstone) /\ Len(t) \in Nat /\ DOMAIN t = 1..Len(t)
  BY LenProperties, ElementOfSeq DEF PartitionOK
<1>2. e[i].ref \in Refs(e) /\ e[i].ref \notin Refs(t)
  BY <1>1 DEF Refs, PartitionOK
<1>3. WithTombstone(t, e[i], reason) = v
  BY <1>2 DEF WithTombstone
<1>4. stone \in Tombstone
  BY <1>1 DEF StoredResponse, Tombstone
<1> HIDE DEF stone
<1>5. /\ u \in Seq(Tombstone) /\ Len(u) = Len(t) + 1
      /\ \A k \in 1..Len(t) : u[k] = t[k]
      /\ u[Len(t) + 1] = stone
  BY <1>1, <1>4, AppendProperties
<1> HIDE DEF u
<1>6. /\ v \in Seq(Tombstone)
      /\ Len(v) = IF Len(u) > TombstoneCap THEN TombstoneCap ELSE Len(u)
      /\ Len(u) <= TombstoneCap => v = u
      /\ Len(u) > TombstoneCap => \A k \in 1..TombstoneCap : v[k] = u[Len(u) - TombstoneCap + k]
  BY <1>5, StoreAssumption, KeepLastProperties
<1> HIDE DEF v
<1>7. j \in 1..Len(v)
  BY <1>3, <1>6, LenProperties
<1>8. PICK k \in 1..Len(t) + 1 : v[j] = u[k]
  <2>1. CASE Len(u) <= TombstoneCap
    BY <2>1, <1>5, <1>6, <1>7
  <2>2. CASE Len(u) > TombstoneCap
    <3>1. j \in 1..TombstoneCap /\ Len(u) - TombstoneCap + j \in 1..Len(t) + 1
      BY <2>2, <1>1, <1>5, <1>6, <1>7, StoreAssumption
    <3> QED BY <2>2, <3>1, <1>6
  <2> QED BY <2>1, <2>2, <1>1, <1>5, StoreAssumption
<1>9. v[j] = stone \/ \E m \in DOMAIN t : v[j] = t[m]
  BY <1>1, <1>5, <1>8
<1> QED BY <1>3, <1>9 DEF stone

LEMMA UseProperties ==
    ASSUME NEW s \in [Ref -> SUBSET Ref], NEW c \in Nat, NEW r \in Ref
    PROVE  /\ Use(s, r, 1..c) \in [Ref -> SUBSET Ref]
           /\ \A x \in Ref : x \in 1..c /\ x # r => Use(s, r, 1..c)[x] = s[x] \cup {r}
BY DEF Use

LEMMA FiniteRefs == IsFiniteSet(Ref) /\ \A R \in SUBSET Ref : IsFiniteSet(R)
<1>1. IsFiniteSet(Ref)
  BY FS_Interval, StoreAssumption DEF Ref
<1> QED BY <1>1, FS_Subset

\* A partition has as many references as entries.
LEMMA RefsAsManyAsEntries ==
    ASSUME NEW e \in Seq(StoredResponse), Distinct(e)
    PROVE  IsFiniteSet(Refs(e)) /\ Cardinality(Refs(e)) = Len(e)
<1> DEFINE b == [i \in 1..Len(e) |-> e[i].ref]
<1>1. Len(e) \in Nat /\ DOMAIN e = 1..Len(e)
  BY LenProperties
<1>2. b \in Bijection(1..Len(e), Refs(e))
  BY <1>1 DEF Bijection, Injection, IsInjective, Surjection, Distinct, Refs
<1>3. \A x \in StoredResponse : x.ref \in Ref
  BY DEF StoredResponse
<1>4. \A i \in 1..Len(e) : e[i] \in StoredResponse
  BY <1>1, ElementOfSeq
<1>5. Refs(e) \subseteq Ref
  BY <1>1, <1>3, <1>4 DEF Refs
<1>6. IsFiniteSet(Refs(e))
  BY <1>5, FiniteRefs
<1> HIDE DEF b
<1>7. ExistsBijection(1..Len(e), Refs(e))
  BY <1>2 DEF ExistsBijection
<1> QED BY <1>1, <1>6, <1>7, FS_CountingElements

LEMMA EntryFacts ==
    ASSUME NEW e, NEW t, NEW c, PartitionOK(e, t, c)
    PROVE  /\ e \in Seq(StoredResponse) /\ Len(e) \in Nat /\ DOMAIN e = 1..Len(e)
           /\ t \in Seq(Tombstone) /\ Len(t) \in Nat /\ DOMAIN t = 1..Len(t)
           /\ c \in Nat /\ MaxRef \in Nat /\ c <= MaxRef
           /\ \A i \in 1..Len(e) : e[i] \in StoredResponse /\ e[i].ref \in Refs(e)
           /\ \A i \in 1..Len(t) : t[i] \in Tombstone /\ t[i].ref \in Refs(t)
           /\ \A r \in Refs(e) \cup Refs(t) : r \in 1..c /\ r \in Ref
<1>1. /\ e \in Seq(StoredResponse) /\ Len(e) \in Nat /\ DOMAIN e = 1..Len(e)
      /\ t \in Seq(Tombstone) /\ Len(t) \in Nat /\ DOMAIN t = 1..Len(t)
      /\ c \in Nat /\ MaxRef \in Nat /\ c <= MaxRef
  BY LenProperties, StoreAssumption DEF PartitionOK
<1>2. /\ \A i \in 1..Len(e) : e[i] \in StoredResponse /\ e[i].ref \in Refs(e)
      /\ \A i \in 1..Len(t) : t[i] \in Tombstone /\ t[i].ref \in Refs(t)
  BY <1>1, ElementOfSeq DEF Refs
<1>3. \A r \in Refs(e) : r \in Ref
  BY <1>1, <1>2 DEF Refs, StoredResponse
<1>4. \A r \in Refs(t) : r \in Ref
  BY <1>1, <1>2 DEF Refs, Tombstone
<1>5. \A r \in Refs(e) \cup Refs(t) : r <= c
  BY DEF PartitionOK
<1>6. \A r \in Ref : r <= c => r \in 1..c
  BY <1>1 DEF Ref
<1> QED BY <1>1, <1>2, <1>3, <1>4, <1>5, <1>6

\* The front of a full list has been passed once another reference is issued:
\* all the other entries and the new one were used since.
LEMMA FrontPassed ==
    ASSUME NEW e, NEW t, NEW c, PartitionOK(e, t, c),
           NEW s \in [Ref -> SUBSET Ref], Follows(e, UsedSince(s)),
           Len(e) >= MaxEntries, c + 1 \in Ref
    PROVE  Passed(Use(s, c + 1, 1..c + 1), e[1].ref)
<1> DEFINE q == Use(s, c + 1, 1..c + 1)
           h == e[1].ref
           others == Refs(e) \ {h}
<1>1. /\ e \in Seq(StoredResponse) /\ Len(e) \in Nat /\ DOMAIN e = 1..Len(e)
      /\ c \in Nat
      /\ \A i \in 1..Len(e) : e[i] \in StoredResponse /\ e[i].ref \in Refs(e)
      /\ \A r \in Refs(e) : r \in 1..c /\ r \in Ref
  BY EntryFacts
<1>2. /\ MaxEntries \in Nat \ {0} /\ Len(e) = MaxEntries /\ 1 \in 1..Len(e)
      /\ Distinct(e)
  <2>1. MaxEntries \in Nat \ {0} /\ Len(e) <= MaxEntries /\ Distinct(e)
    BY StoreAssumption DEF PartitionOK
  <2>2. Len(e) \in Nat /\ Len(e) >= MaxEntries
    BY <1>1
  <2>3. Len(e) = MaxEntries /\ 1 \in 1..Len(e)
    BY <2>1, <2>2
  <2> QED BY <2>1, <2>3
<1>3. h \in Refs(e) /\ h \in 1..c + 1 /\ h # c + 1 /\ h \in Ref /\ c + 1 \notin Refs(e)
  BY <1>1, <1>2
<1>4. q \in [Ref -> SUBSET Ref] /\ q[h] = s[h] \cup {c + 1}
  <2>1. c + 1 \in Nat
    BY <1>1
  <2>2. /\ q \in [Ref -> SUBSET Ref]
        /\ \A x \in Ref : x \in 1..c + 1 /\ x # c + 1 => q[x] = s[x] \cup {c + 1}
    BY <2>1, UseProperties
  <2> HIDE DEF h, q
  <2> QED BY <2>2, <1>3
<1>5. others \subseteq s[h]
  <2>1. ASSUME NEW r \in others PROVE r \in s[h]
    <3>1. PICK i \in 1..Len(e) : r = e[i].ref
      BY <1>1 DEF Refs
    <3>2. 1 < i
      BY <3>1, <1>1
    <3>3. <<e[1], e[i]>> \in UsedSince(s)
      BY <3>2, <1>1, <1>2 DEF Follows
    <3> QED BY <3>1, <3>3 DEF UsedSince
  <2> QED BY <2>1
<1>6. IsFiniteSet(Refs(e)) /\ Cardinality(Refs(e)) = MaxEntries
  BY <1>1, <1>2, RefsAsManyAsEntries
<1>7. IsFiniteSet(others) /\ Cardinality(others) = MaxEntries - 1
  <2> HIDE DEF h
  <2> QED BY <1>3, <1>6, FS_RemoveElement
<1>8. IsFiniteSet(others \cup {c + 1}) /\ Cardinality(others \cup {c + 1}) = MaxEntries
  <2>1. c + 1 \notin others
    BY <1>3
  <2> HIDE DEF others
  <2>2. Cardinality(others \cup {c + 1}) = Cardinality(others) + 1
    BY <2>1, <1>7, FS_AddElement
  <2> QED BY <2>2, <1>2, <1>7, FS_AddElement
<1>9. others \cup {c + 1} \subseteq q[h]
  BY <1>4, <1>5
<1>10. IsFiniteSet(q[h])
  <2> HIDE DEF h, q
  <2>1. q[h] \in SUBSET Ref
    BY <1>3, <1>4
  <2> QED BY <2>1, FiniteRefs
<1> HIDE DEF others, q
<1>11. Cardinality(others \cup {c + 1}) <= Cardinality(q[h])
  BY <1>9, <1>10, FS_Subset
<1> QED BY <1>8, <1>11 DEF Passed, q

\* An entry goes, with a tombstone that is right about why.
LEMMA EvictHistory ==
    ASSUME NEW e, NEW t, NEW c, PartitionOK(e, t, c), NEW i \in 1..Len(e), NEW reason \in Reason,
           NEW g, NEW s, NEW n, NEW q \in [Ref -> SUBSET Ref], HistoryOK(e, t, c, g, s, n),
           \A r \in Refs(t) \cup 1..c : Passed(s, r) => Passed(q, r),
           reason = "ttl" => n - g[e[i].ref].timestamp > TTL,
           reason = "lru" => Passed(q, e[i].ref)
    PROVE  /\ Follows(RemoveAt(e, i), UsedSince(s))
           /\ EntriesTrue(RemoveAt(e, i), g)
           /\ StonesTrue(WithTombstone(t, e[i], reason), g, q, n)
           /\ MissesTrue(RemoveAt(e, i), c, g, q, n)
<1> DEFINE d == RemoveAt(e, i)
           u == WithTombstone(t, e[i], reason)
<1>1. /\ e \in Seq(StoredResponse) /\ Len(e) \in Nat /\ DOMAIN e = 1..Len(e)
      /\ DOMAIN t = 1..Len(t)
      /\ \A k \in 1..Len(t) : t[k] \in Tombstone /\ t[k].ref \in Refs(t)
  BY EntryFacts
<1>2. Follows(d, UsedSince(s))
  BY <1>1, RemoveAtFollows DEF HistoryOK
<1>3. /\ DOMAIN d = 1..Len(e) - 1
      /\ \A j \in 1..Len(e) - 1 : d[j] = IF j < i THEN e[j] ELSE e[j + 1]
      /\ Refs(d) = Refs(e) \ {e[i].ref}
  BY <1>1, RemoveAtProperties, RemoveAtRefs, LenProperties DEF PartitionOK
<1> HIDE DEF d
<1>4. EntriesTrue(d, g)
  <2>1. ASSUME NEW j \in 1..Len(e) - 1 PROVE \E k \in 1..Len(e) : d[j] = e[k]
    BY <1>1, <1>3
  <2>2. EntriesTrue(e, g)
    BY DEF HistoryOK
  <2>3. \A k \in 1..Len(e) : /\ e[k].response = g[e[k].ref].response
                            /\ e[k].timestamp = g[e[k].ref].timestamp
    BY <2>2, <1>1 DEF EntriesTrue
  <2>4. ASSUME NEW j \in 1..Len(e) - 1
        PROVE  d[j].response = g[d[j].ref].response /\ d[j].timestamp = g[d[j].ref].timestamp
    <3>1. PICK k \in 1..Len(e) : d[j] = e[k]
      BY <2>1
    <3> QED BY <3>1, <2>3
  <2> QED BY <2>4, <1>3 DEF EntriesTrue
<1>5. StonesTrue(u, g, q, n)
  <2> SUFFICES ASSUME NEW j \in DOMAIN u
               PROVE  /\ u[j].response = g[u[j].ref].response
                      /\ u[j].reason = "ttl" => n - g[u[j].ref].timestamp > TTL
                      /\ u[j].reason = "lru" => Passed(q, u[j].ref)
    BY DEF StonesTrue
  <2>1. \/ u[j] = [ref |-> e[i].ref, response |-> e[i].response, reason |-> reason]
        \/ \E k \in DOMAIN t : u[j] = t[k]
    BY StonesOfEviction
  <2> HIDE DEF u
  <2>2. CASE u[j] = [ref |-> e[i].ref, response |-> e[i].response, reason |-> reason]
    BY <2>2, <1>1 DEF HistoryOK, EntriesTrue
  <2>3. ASSUME NEW k \in DOMAIN t, u[j] = t[k]
        PROVE  /\ u[j].response = g[u[j].ref].response
               /\ u[j].reason = "ttl" => n - g[u[j].ref].timestamp > TTL
               /\ u[j].reason = "lru" => Passed(q, u[j].ref)
    <3>1. t[k].ref \in Refs(t)
      BY <1>1
    <3> QED BY <2>3, <3>1 DEF HistoryOK, StonesTrue
  <2> QED BY <2>1, <2>2, <2>3
<1>6. MissesTrue(d, c, g, q, n)
  <2> SUFFICES ASSUME NEW r \in 1..c
               PROVE  r \in Refs(d) \/ n - g[r].timestamp > TTL \/ Passed(q, r)
    BY DEF MissesTrue
  <2>1. CASE r = e[i].ref
    BY <2>1 DEF Reason
  <2>2. CASE r # e[i].ref
    BY <2>2, <1>3 DEF HistoryOK, MissesTrue
  <2> QED BY <2>1, <2>2
<1> QED BY <1>2, <1>4, <1>5, <1>6 DEF d, u

\* The next reference is issued into a partition that has room.
LEMMA InsertHistory ==
    ASSUME NEW d, NEW t, NEW c, PartitionOK(d, t, c), c + 1 \in Ref,
           NEW g \in Seq(Given), Len(g) = c, NEW s \in [Ref -> SUBSET Ref], NEW n \in 0..MaxTime,
           NEW resp \in Response, NEW x,
           x = [ref |-> c + 1, timestamp |-> n, response |-> resp],
           Follows(d, UsedSince(s)),
           EntriesTrue(d, g), StonesTrue(t, g, Use(s, c + 1, 1..c + 1), n),
           MissesTrue(d, c, g, Use(s, c + 1, 1..c + 1), n)
    PROVE  HistoryOK(Append(d, x), t, c + 1, Append(g, [response |-> resp, timestamp |-> n]),
                     Use(s, c + 1, 1..c + 1), n)
<1> DEFINE q == Use(s, c + 1, 1..c + 1)
           v == [response |-> resp, timestamp |-> n]
           h == Append(g, v)
           f == Append(d, x)
<1>1. /\ d \in Seq(StoredResponse) /\ Len(d) \in Nat /\ DOMAIN d = 1..Len(d)
      /\ DOMAIN t = 1..Len(t) /\ c \in Nat /\ Distinct(d)
      /\ \A i \in 1..Len(d) : d[i] \in StoredResponse /\ d[i].ref \in Refs(d)
      /\ \A k \in 1..Len(t) : t[k] \in Tombstone /\ t[k].ref \in Refs(t)
      /\ \A r \in Refs(d) \cup Refs(t) : r \in 1..c /\ r \in Ref
  BY EntryFacts DEF PartitionOK
<1>2. x \in StoredResponse /\ x.ref = c + 1 /\ x.response = resp /\ x.timestamp = n
  BY DEF StoredResponse
<1> HIDE DEF v
<1>3. /\ h \in Seq(Given) /\ Len(h) = c + 1
      /\ \A r \in 1..c : h[r] = g[r]
      /\ h[c + 1] = v
  <2>1. v \in Given
    BY DEF v, Given
  <2> QED BY <2>1, AppendProperties
<1> HIDE DEF h
<1>4. /\ q \in [Ref -> SUBSET Ref]
      /\ \A r \in 1..c : r \in Ref => q[r] = s[r] \cup {c + 1}
  <2>1. c + 1 \in Nat /\ \A r \in 1..c : r \in 1..c + 1 /\ r # c + 1
    BY <1>1
  <2>2. /\ q \in [Ref -> SUBSET Ref]
        /\ \A y \in Ref : y \in 1..c + 1 /\ y # c + 1 => q[y] = s[y] \cup {c + 1}
    BY <2>1, UseProperties
  <2> HIDE DEF q
  <2> QED BY <2>1, <2>2
<1> HIDE DEF q
<1>5. c + 1 \notin Refs(d) /\ c + 1 \notin 1..c
  BY <1>1
<1>6. /\ f \in Seq(StoredResponse) /\ Len(f) = Len(d) + 1 /\ DOMAIN f = 1..Len(d) + 1
      /\ \A j \in 1..Len(d) : f[j] = d[j]
      /\ f[Len(d) + 1] = x
  BY <1>1, <1>2, AppendProperties, LenProperties
<1>7. Refs(f) = Refs(d) \cup {c + 1}
  BY <1>1, <1>2, <1>5, AppendRefs
<1>8. Follows(f, UsedSince(q))
  <2>1. Follows(d, UsedSince(q))
    <3>1. ASSUME NEW i \in DOMAIN d, NEW j \in DOMAIN d, <<d[i], d[j]>> \in UsedSince(s)
          PROVE  <<d[i], d[j]>> \in UsedSince(q)
      <4>1. d[j].ref \in s[d[i].ref] /\ d[i] \in StoredResponse /\ d[j] \in StoredResponse
        BY <3>1, <1>1 DEF UsedSince
      <4>2. d[i].ref \in 1..c /\ d[i].ref \in Ref
        BY <1>1
      <4>3. d[j].ref \in q[d[i].ref]
        BY <4>1, <4>2, <1>4
      <4> QED BY <4>1, <4>3 DEF UsedSince
    <3> QED BY <3>1, FollowsWider
  <2>2. ASSUME NEW i \in 1..Len(d) PROVE <<d[i], x>> \in UsedSince(q)
    <3>1. d[i] \in StoredResponse /\ d[i].ref \in 1..c /\ d[i].ref \in Ref
      BY <1>1
    <3>2. x.ref \in q[d[i].ref]
      BY <3>1, <1>2, <1>4
    <3> QED BY <3>1, <3>2, <1>2 DEF UsedSince
  <2> QED BY <2>1, <2>2, <1>1, <1>2, AppendFollows
<1> HIDE DEF f
<1>9. EntriesTrue(f, h)
  <2> SUFFICES ASSUME NEW i \in 1..Len(d) + 1
               PROVE  f[i].response = h[f[i].ref].response /\ f[i].timestamp = h[f[i].ref].timestamp
    BY <1>6 DEF EntriesTrue
  <2>1. CASE i = Len(d) + 1
    BY <2>1, <1>2, <1>3, <1>6 DEF v
  <2>2. CASE i # Len(d) + 1
    <3>1. i \in 1..Len(d) /\ f[i] = d[i]
      BY <2>2, <1>1, <1>6
    <3>2. d[i].ref \in 1..c
      BY <3>1, <1>1
    <3> QED BY <3>1, <3>2, <1>1, <1>3 DEF EntriesTrue
  <2> QED BY <2>1, <2>2
<1>10. StonesTrue(t, h, q, n)
  <2>1. \A k \in DOMAIN t : h[t[k].ref] = g[t[k].ref]
    BY <1>1, <1>3
  <2>2. StonesTrue(t, g, q, n)
    BY DEF q
  <2> QED BY <2>1, <2>2 DEF StonesTrue
<1>11. MissesTrue(f, c + 1, h, q, n)
  <2>1. MissesTrue(d, c, g, q, n)
    BY DEF q
  <2> SUFFICES ASSUME NEW r \in 1..c + 1
               PROVE  r \in Refs(f) \/ n - h[r].timestamp > TTL \/ Passed(q, r)
    BY DEF MissesTrue
  <2>2. CASE r = c + 1
    BY <2>2, <1>7
  <2>3. CASE r # c + 1
    <3>1. r \in 1..c
      BY <2>3, <1>1
    <3> QED BY <3>1, <2>1, <1>3, <1>7 DEF MissesTrue
  <2> QED BY <2>2, <2>3
<1>12. HistoryOK(f, t, c + 1, h, q, n)
  BY <1>3, <1>4, <1>8, <1>9, <1>10, <1>11 DEF HistoryOK
<1> QED BY <1>12 DEF f, h, v, q

\* store() in one partition: the front goes when it is full, the next
\* reference comes in.
LEMMA StoreHistory ==
    ASSUME NEW e, NEW t, NEW c, PartitionOK(e, t, c), c + 1 \in Ref,
           NEW g, NEW s, NEW n \in 0..MaxTime, HistoryOK(e, t, c, g, s, n),
           NEW resp \in Response, NEW x,
           x = [ref |-> c + 1, timestamp |-> n, response |-> resp]
    PROVE  LET full == Len(e) >= MaxEntries
               room == IF full THEN Tail(e) ELSE e
               stones == IF full THEN WithTombstone(t, Head(e), "lru") ELSE t
           IN  HistoryOK(Append(room, x), stones, c + 1,
                         Append(g, [response |-> resp, timestamp |-> n]),
                         Use(s, c + 1, 1..c + 1), n)
<1> DEFINE q == Use(s, c + 1, 1..c + 1)
           full == Len(e) >= MaxEntries
<1>1. /\ g \in Seq(Given) /\ Len(g) = c /\ s \in [Ref -> SUBSET Ref]
      /\ Follows(e, UsedSince(s)) /\ EntriesTrue(e, g)
      /\ StonesTrue(t, g, s, n) /\ MissesTrue(e, c, g, s, n)
  BY DEF HistoryOK
<1>2. /\ e \in Seq(StoredResponse) /\ Len(e) \in Nat /\ DOMAIN e = 1..Len(e)
      /\ DOMAIN t = 1..Len(t) /\ c \in Nat
      /\ \A k \in 1..Len(t) : t[k].ref \in Refs(t)
      /\ \A r \in Refs(e) \cup Refs(t) : r \in 1..c /\ r \in Ref
      /\ MaxRef \in Nat /\ c <= MaxRef
  BY EntryFacts
<1>3. /\ q \in [Ref -> SUBSET Ref]
      /\ \A r \in 1..c : r \in Ref /\ q[r] = s[r] \cup {c + 1}
  <2>1. /\ c + 1 \in Nat
        /\ \A r \in 1..c : r \in 1..c + 1 /\ r # c + 1 /\ r \in Ref
    BY <1>2 DEF Ref
  <2>2. /\ q \in [Ref -> SUBSET Ref]
        /\ \A y \in Ref : y \in 1..c + 1 /\ y # c + 1 => q[y] = s[y] \cup {c + 1}
    BY <2>1, <1>1, UseProperties
  <2> HIDE DEF q
  <2> QED BY <2>1, <2>2
<1> HIDE DEF q
<1>4. \A r \in 1..c : Passed(s, r) => Passed(q, r)
  <2> SUFFICES ASSUME NEW r \in 1..c, Passed(s, r) PROVE Passed(q, r)
    OBVIOUS
  <2>1. r \in Ref /\ s[r] \subseteq q[r]
    BY <1>3
  <2> QED BY <2>1, <1>1, <1>3, PassedStays
<1>5. CASE full
  <2>1. Passed(q, e[1].ref)
    BY <1>1, <1>5, FrontPassed DEF q
  <2>2. 1 \in 1..Len(e) /\ e # <<>> /\ Head(e) = e[1]
    <3>1. Len(e) >= MaxEntries /\ MaxEntries \in Nat \ {0} /\ Len(e) \in Nat
      BY <1>2, <1>5, StoreAssumption
    <3>2. 1 \in 1..Len(e) /\ Len(e) # 0
      BY <3>1
    <3> QED BY <3>2, <1>2, EmptySeq
  <2>3. Tail(e) = RemoveAt(e, 1)
    <3>1. /\ Tail(e) \in Seq(StoredResponse) /\ Len(Tail(e)) = Len(e) - 1
          /\ \A j \in 1..Len(e) - 1 : Tail(e)[j] = e[j + 1]
      BY <2>2, <1>2, TailIsRemoval
    <3>2. /\ RemoveAt(e, 1) \in Seq(StoredResponse) /\ Len(RemoveAt(e, 1)) = Len(e) - 1
          /\ \A j \in 1..Len(e) - 1 : RemoveAt(e, 1)[j] = IF j < 1 THEN e[j] ELSE e[j + 1]
      BY <2>2, <1>2, RemoveAtProperties
    <3>3. \A j \in 1..Len(e) - 1 : RemoveAt(e, 1)[j] = Tail(e)[j]
      BY <3>1, <3>2
    <3> QED BY <3>1, <3>2, <3>3, SeqEqual
  <2>4. \A r \in Refs(t) \cup 1..c : Passed(s, r) => Passed(q, r)
    BY <1>2, <1>4
  <2>5. "lru" \in Reason
    BY DEF Reason
  <2> DEFINE d == RemoveAt(e, 1)
             u == WithTombstone(t, e[1], "lru")
  <2>6. /\ Follows(d, UsedSince(s)) /\ EntriesTrue(d, g)
        /\ StonesTrue(u, g, q, n) /\ MissesTrue(d, c, g, q, n)
    BY <2>1, <2>2, <2>4, <2>5, <1>3, EvictHistory
  <2>7. PartitionOK(d, u, c)
    BY <2>2, <2>5, EvictEntry
  <2> HIDE DEF d, u
  <2>8. HistoryOK(Append(d, x), u, c + 1, Append(g, [response |-> resp, timestamp |-> n]), q, n)
    BY <2>6, <2>7, <1>1, InsertHistory DEF q
  <2> QED BY <2>2, <2>3, <2>8, <1>5 DEF d, u, q
<1>6. CASE ~full
  <2>1. StonesTrue(t, g, q, n)
    BY <1>1, <1>2, <1>4 DEF StonesTrue
  <2>2. MissesTrue(e, c, g, q, n)
    BY <1>1, <1>4 DEF MissesTrue
  <2>3. HistoryOK(Append(e, x), t, c + 1, Append(g, [response |-> resp, timestamp |-> n]), q, n)
    BY <2>1, <2>2, <1>1, InsertHistory DEF q
  <2> QED BY <2>3, <1>6 DEF q
<1> QED BY <1>5, <1>6

\* get() of a live entry: it is the last that was used.
LEMMA TouchHistory ==
    ASSUME NEW e, NEW t, NEW c, PartitionOK(e, t, c), NEW i \in 1..Len(e),
           NEW g, NEW s, NEW n, HistoryOK(e, t, c, g, s, n)
    PROVE  HistoryOK(Append(RemoveAt(e, i), e[i]), t, c, g, Use(s, e[i].ref, 1..c), n)
<1> DEFINE r == e[i].ref
           q == Use(s, r, 1..c)
           d == RemoveAt(e, i)
           f == Append(d, e[i])
<1>1. /\ g \in Seq(Given) /\ Len(g) = c /\ s \in [Ref -> SUBSET Ref]
      /\ Follows(e, UsedSince(s)) /\ EntriesTrue(e, g)
      /\ StonesTrue(t, g, s, n) /\ MissesTrue(e, c, g, s, n)
  BY DEF HistoryOK
<1>2. /\ e \in Seq(StoredResponse) /\ Len(e) \in Nat /\ DOMAIN e = 1..Len(e)
      /\ DOMAIN t = 1..Len(t) /\ c \in Nat /\ Distinct(e)
      /\ \A k \in 1..Len(t) : t[k].ref \in Refs(t)
      /\ \A k \in 1..Len(e) : e[k] \in StoredResponse /\ e[k].ref \in Refs(e)
      /\ \A y \in Refs(e) \cup Refs(t) : y \in 1..c /\ y \in Ref
      /\ MaxRef \in Nat /\ c <= MaxRef
      /\ Refs(e) \cap Refs(t) = {}
  BY EntryFacts DEF PartitionOK
<1>3. r \in 1..c /\ r \in Ref /\ r \in Refs(e) /\ r \notin Refs(t)
  BY <1>2
<1>4. /\ d \in Seq(StoredResponse) /\ Len(d) = Len(e) - 1 /\ DOMAIN d = 1..Len(e) - 1
      /\ Distinct(d) /\ Refs(d) = Refs(e) \ {r}
      /\ \A j \in 1..Len(e) - 1 : d[j] = IF j < i THEN e[j] ELSE e[j + 1]
      /\ Follows(d, UsedSince(s))
  <2>1. /\ d \in Seq(StoredResponse) /\ Len(d) = Len(e) - 1
        /\ \A j \in 1..Len(e) - 1 : d[j] = IF j < i THEN e[j] ELSE e[j + 1]
    BY <1>2, RemoveAtProperties
  <2>2. Distinct(d) /\ Refs(d) = Refs(e) \ {r}
    BY <1>2, RemoveAtRefs
  <2>3. Follows(d, UsedSince(s))
    BY <1>1, <1>2, RemoveAtFollows
  <2> HIDE DEF d, r
  <2>4. DOMAIN d = 1..Len(e) - 1
    BY <2>1, LenProperties
  <2> QED BY <2>1, <2>2, <2>3, <2>4
<1>5. ASSUME NEW j \in 1..Len(e) - 1 PROVE \E k \in 1..Len(e) : d[j] = e[k]
  BY <1>2, <1>4
<1> HIDE DEF d
<1>6. ASSUME NEW j \in 1..Len(e) - 1
      PROVE  d[j] \in StoredResponse /\ d[j].ref \in 1..c /\ d[j].ref \in Ref /\ d[j].ref # r
  <2>1. d[j].ref \in Refs(d)
    BY <1>4 DEF Refs
  <2> QED BY <2>1, <1>2, <1>4, <1>5
<1> HIDE DEF r
<1>7. /\ q \in [Ref -> SUBSET Ref]
      /\ \A y \in Ref : y \in 1..c /\ y # r => q[y] = s[y] \cup {r}
  <2>1. c \in Nat /\ r \in Ref
    BY <1>2, <1>3
  <2> QED BY <2>1, <1>1, UseProperties
<1> HIDE DEF q
<1>8. \A y \in 1..c : y # r /\ Passed(s, y) => Passed(q, y)
  <2> SUFFICES ASSUME NEW y \in 1..c, y # r, Passed(s, y) PROVE Passed(q, y)
    OBVIOUS
  <2>1. y \in Ref
    BY <1>2 DEF Ref
  <2>2. s[y] \subseteq q[y]
    BY <2>1, <1>7
  <2> QED BY <2>1, <2>2, <1>1, <1>7, PassedStays
<1>9. /\ DOMAIN f = 1..Len(e)
      /\ \A j \in 1..Len(e) - 1 : f[j] = d[j]
      /\ f[Len(e)] = e[i]
      /\ Refs(f) = Refs(e)
  <2>1. e[i] \in StoredResponse /\ e[i].ref = r /\ r \notin Refs(d)
    BY <1>2, <1>4 DEF r
  <2>2. /\ f \in Seq(StoredResponse) /\ Len(f) = Len(d) + 1
        /\ \A j \in 1..Len(d) : f[j] = d[j]
        /\ f[Len(d) + 1] = e[i]
    BY <2>1, <1>4, AppendProperties
  <2>3. Refs(f) = Refs(d) \cup {r}
    BY <2>1, <1>4, AppendRefs
  <2> HIDE DEF f
  <2>4. Len(f) = Len(e) /\ DOMAIN f = 1..Len(f) /\ Len(d) + 1 = Len(e)
    BY <2>2, <1>2, <1>4, LenProperties
  <2> QED BY <2>2, <2>3, <2>4, <1>3, <1>4
<1>10. Follows(f, UsedSince(q))
  <2>1. Follows(d, UsedSince(q))
    <3>1. ASSUME NEW k \in DOMAIN d, NEW j \in DOMAIN d, <<d[k], d[j]>> \in UsedSince(s)
          PROVE  <<d[k], d[j]>> \in UsedSince(q)
      <4>1. /\ d[j].ref \in s[d[k].ref] /\ d[k] \in StoredResponse /\ d[j] \in StoredResponse
            /\ d[k].ref \in 1..c /\ d[k].ref \in Ref /\ d[k].ref # r
        BY <3>1, <1>4, <1>6 DEF UsedSince
      <4>2. d[j].ref \in q[d[k].ref]
        BY <4>1, <1>7
      <4> QED BY <4>1, <4>2 DEF UsedSince
    <3> QED BY <3>1, <1>4, FollowsWider
  <2>2. ASSUME NEW k \in 1..Len(d) PROVE <<d[k], e[i]>> \in UsedSince(q)
    <3>1. k \in 1..Len(e) - 1
      BY <1>4
    <3>2. e[i] \in StoredResponse /\ e[i].ref \in q[d[k].ref] /\ d[k] \in StoredResponse
      BY <3>1, <1>2, <1>6, <1>7 DEF r
    <3> QED BY <3>2 DEF UsedSince
  <2>3. e[i] \in StoredResponse
    BY <1>2
  <2> QED BY <2>1, <2>2, <2>3, <1>4, AppendFollows
<1> HIDE DEF f
<1>11. EntriesTrue(f, g)
  <2> SUFFICES ASSUME NEW j \in 1..Len(e)
               PROVE  f[j].response = g[f[j].ref].response /\ f[j].timestamp = g[f[j].ref].timestamp
    BY <1>9 DEF EntriesTrue
  <2>1. PICK k \in 1..Len(e) : f[j] = e[k]
    <3>1. CASE j = Len(e)
      BY <3>1, <1>9
    <3>2. CASE j # Len(e)
      <4>0. Len(e) \in Nat
        BY <1>2
      <4>1. j \in 1..Len(e) - 1
        BY <3>2, <4>0
      <4> QED BY <4>1, <1>5, <1>9
    <3> QED BY <3>1, <3>2
  <2> QED BY <2>1, <1>1, <1>2 DEF EntriesTrue
<1>12. StonesTrue(t, g, q, n)
  <2>1. \A k \in DOMAIN t : t[k].ref \in 1..c /\ t[k].ref # r
    BY <1>2, <1>3
  <2> QED BY <2>1, <1>1, <1>8 DEF StonesTrue
<1>13. MissesTrue(f, c, g, q, n)
  BY <1>1, <1>3, <1>8, <1>9 DEF MissesTrue
<1>14. HistoryOK(f, t, c, g, q, n)
  BY <1>1, <1>7, <1>10, <1>11, <1>12, <1>13 DEF HistoryOK
<1> QED BY <1>14 DEF f, d, q, r

\* get() of an entry past its TTL, found out.
LEMMA ExpireHistory ==
    ASSUME NEW e, NEW t, NEW c, PartitionOK(e, t, c), NEW i \in 1..Len(e),
           NEW g, NEW s, NEW n, HistoryOK(e, t, c, g, s, n), n - e[i].timestamp > TTL
    PROVE  HistoryOK(RemoveAt(e, i), WithTombstone(t, e[i], "ttl"), c, g, s, n)
<1>1. g \in Seq(Given) /\ Len(g) = c /\ s \in [Ref -> SUBSET Ref]
  BY DEF HistoryOK
<1>2. n - g[e[i].ref].timestamp > TTL
  <2>1. i \in DOMAIN e
    BY EntryFacts
  <2>2. e[i].timestamp = g[e[i].ref].timestamp
    BY <2>1 DEF HistoryOK, EntriesTrue
  <2> QED BY <2>2
<1>3. "ttl" \in Reason
  BY DEF Reason
<1>4. /\ Follows(RemoveAt(e, i), UsedSince(s))
      /\ EntriesTrue(RemoveAt(e, i), g)
      /\ StonesTrue(WithTombstone(t, e[i], "ttl"), g, s, n)
      /\ MissesTrue(RemoveAt(e, i), c, g, s, n)
  BY <1>1, <1>2, <1>3, EvictHistory
<1> QED BY <1>1, <1>4 DEF HistoryOK

\* Time passes: what has outlived its TTL stays so.
LEMMA TickHistory ==
    ASSUME NEW e, NEW t, NEW c, PartitionOK(e, t, c),
           NEW g, NEW s, NEW n \in 0..MaxTime, HistoryOK(e, t, c, g, s, n), NEW m, m = n + 1
    PROVE  HistoryOK(e, t, c, g, s, m)
<1>1. g \in Seq(Given) /\ Len(g) = c /\ DOMAIN g = 1..c
  BY LenProperties DEF HistoryOK
<1>2. \A r \in 1..c : g[r] \in Given
  BY <1>1, ElementOfSeq
<1>3. \A r \in 1..c : n - g[r].timestamp > TTL => m - g[r].timestamp > TTL
  <2> SUFFICES ASSUME NEW r \in 1..c, n - g[r].timestamp > TTL
               PROVE  m - g[r].timestamp > TTL
    OBVIOUS
  <2>1. g[r].timestamp \in 0..MaxTime /\ MaxTime \in Nat /\ TTL \in Nat
    BY <1>2, StoreAssumption DEF Given
  <2> QED BY <2>1
<1>4. \A k \in DOMAIN t : t[k].ref \in 1..c
  BY EntryFacts
<1>5. StonesTrue(t, g, s, m)
  BY <1>3, <1>4 DEF HistoryOK, StonesTrue
<1>6. MissesTrue(e, c, g, s, m)
  BY <1>3 DEF HistoryOK, MissesTrue
<1> QED BY <1>5, <1>6 DEF HistoryOK

-----------------------------------------------------------------------------
(* The partitions with their rivals: v records what was stored to since.   *)

RivalOf(v) == {p \in SessionKey \X SessionKey : p[2] \in v[p[1]]}

RivalsOK(s, v) ==
    /\ v \in [SessionKey -> SUBSET SessionKey]
    /\ Follows(s, RivalOf(v))
    /\ \A sk \in ToSet(s) : sk \notin v[sk]
    /\ \A sk \in SessionKey : sk \notin v[sk] => \/ sk \in ToSet(s)
                                                 \/ Cardinality(v[sk]) >= MaxSessions

StoredTo(v, sk) ==
    [k \in SessionKey |-> IF k = sk THEN {} ELSE IF k \in v[k] THEN {k} ELSE v[k] \cup {sk}]

LEMMA FiniteRivals ==
    /\ IsFiniteSet(SessionKey) /\ \A R \in SUBSET SessionKey : IsFiniteSet(R)
    /\ \A R, Q \in SUBSET SessionKey : R \subseteq Q =>
          Cardinality(R) <= Cardinality(Q) /\ Cardinality(R) \in Nat /\ Cardinality(Q) \in Nat
BY StoreAssumption, FS_Subset, FS_CardinalityType

LEMMA StoredToProperties ==
    ASSUME NEW v \in [SessionKey -> SUBSET SessionKey], NEW sk \in SessionKey
    PROVE  /\ StoredTo(v, sk) \in [SessionKey -> SUBSET SessionKey]
           /\ StoredTo(v, sk)[sk] = {}
           /\ \A k \in SessionKey : k # sk /\ k \in v[k] => StoredTo(v, sk)[k] = {k}
           /\ \A k \in SessionKey : k # sk /\ k \notin v[k] => StoredTo(v, sk)[k] = v[k] \cup {sk}
BY DEF StoredTo

\* A partition that is displaced was stored to before all the others.
LEMMA DisplacedIsFront ==
    ASSUME SessionsOK, NEW sk \in SessionKey, NEW k \in Displaced(sk)
    PROVE  /\ sk \notin ToSet(sessions) /\ Len(sessions) = MaxSessions
           /\ 1 \in 1..Len(sessions) /\ k = sessions[1]
<1> DEFINE s == sessions
           m == MaxSessions - 1
           f == KeepLast(s, m)
<1>1. /\ s \in Seq(SessionKey) /\ Len(s) \in Nat /\ DOMAIN s = 1..Len(s)
      /\ Len(s) <= MaxSessions /\ MaxSessions \in Nat \ {0} /\ m \in Nat
  BY LenProperties, StoreAssumption DEF SessionsOK
<1>2. sk \notin ToSet(s) /\ k \in ToSet(s) \ ToSet(f)
  BY DEF Displaced
<1>3. /\ f \in Seq(SessionKey)
      /\ Len(f) = IF Len(s) > m THEN m ELSE Len(s)
      /\ Len(s) <= m => f = s
      /\ Len(s) > m => \A j \in 1..m : f[j] = s[Len(s) - m + j]
  BY <1>1, KeepLastProperties
<1> HIDE DEF f
<1>4. Len(s) > m
  BY <1>1, <1>2, <1>3
<1>5. Len(s) = MaxSessions /\ Len(s) - m = 1 /\ 1 \in 1..Len(s)
  <2>1. /\ Len(s) \in Nat /\ MaxSessions \in Nat \ {0}
        /\ Len(s) <= MaxSessions /\ Len(s) > MaxSessions - 1
    BY <1>1, <1>4
  <2> QED BY <2>1
<1>6. DOMAIN f = 1..m /\ \A j \in 1..m : f[j] = s[j + 1]
  <2>1. \A j \in 1..m : 1 + j = j + 1
    BY <1>1
  <2> QED BY <2>1, <1>3, <1>4, <1>5, LenProperties
<1>7. PICK i \in 1..Len(s) : k = s[i]
  BY <1>1, <1>2 DEF ToSet
<1>8. i = 1
  <2> SUFFICES ASSUME i # 1 PROVE FALSE
    OBVIOUS
  <2>1. i - 1 \in 1..m /\ i - 1 + 1 = i
    BY <1>1, <1>5
  <2> QED BY <2>1, <1>2, <1>6, <1>7 DEF ToSet
<1> QED BY <1>2, <1>5, <1>7, <1>8

\* The front of a full list of partitions has been passed once another is opened.
LEMMA FrontRivalled ==
    ASSUME SessionsOK, NEW v, RivalsOK(sessions, v), NEW sk \in SessionKey,
           sk \notin ToSet(sessions), Len(sessions) = MaxSessions, 1 \in 1..Len(sessions)
    PROVE  Cardinality(StoredTo(v, sk)[sessions[1]]) >= MaxSessions
<1> DEFINE s == sessions
           h == s[1]
           q == StoredTo(v, sk)
           others == ToSet(s) \ {h}
<1>1. /\ s \in Seq(SessionKey) /\ DOMAIN s = 1..Len(s) /\ Injective(s)
      /\ \A i \in 1..Len(s) : s[i] \in SessionKey /\ s[i] \in ToSet(s)
  BY LenProperties, ElementOfSeq DEF SessionsOK, ToSet
<1>2. ToSet(s) \subseteq SessionKey /\ MaxSessions \in Nat \ {0}
  BY <1>1, StoreAssumption DEF ToSet
<1>3. h \in SessionKey /\ h \in ToSet(s) /\ h \notin v[h] /\ h # sk
  BY <1>1 DEF RivalsOK
<1>4. q \in [SessionKey -> SUBSET SessionKey] /\ q[h] = v[h] \cup {sk}
  BY <1>3, StoredToProperties DEF RivalsOK
<1>5. others \subseteq v[h]
  <2> SUFFICES ASSUME NEW x \in others PROVE x \in v[h]
    OBVIOUS
  <2>1. PICK i \in 1..Len(s) : x = s[i]
    BY <1>1 DEF ToSet
  <2>2. 1 < i
    BY <2>1
  <2>3. <<h, x>> \in RivalOf(v)
    BY <2>1, <2>2, <1>1 DEF RivalsOK, Follows
  <2> QED BY <2>3 DEF RivalOf
<1>6. IsFiniteSet(ToSet(s)) /\ Cardinality(ToSet(s)) = MaxSessions
  BY <1>1, <1>2, FiniteRivals, LengthIsCardinality
<1> HIDE DEF h, q
<1>7. IsFiniteSet(others) /\ Cardinality(others) = MaxSessions - 1 /\ sk \notin others
  BY <1>3, <1>6, FS_RemoveElement
<1> HIDE DEF others
<1>8. Cardinality(others \cup {sk}) = MaxSessions
  <2>1. Cardinality(others \cup {sk}) = Cardinality(others) + 1
    BY <1>7, FS_AddElement
  <2> QED BY <2>1, <1>2, <1>7
<1>9. others \cup {sk} \subseteq q[h] /\ q[h] \in SUBSET SessionKey
  BY <1>3, <1>4, <1>5
<1>10. Cardinality(others \cup {sk}) <= Cardinality(q[h])
  BY <1>9, FiniteRivals
<1> QED BY <1>8, <1>10 DEF h, q

\* store(): its partition is behind all others.
LEMMA StoreRivals ==
    ASSUME SessionsOK, NEW v, RivalsOK(sessions, v), NEW sk \in SessionKey
    PROVE  RivalsOK(Touched(sk), StoredTo(v, sk))
<1> DEFINE s == sessions
           q == StoredTo(v, sk)
           f == Touched(sk)
           d == IF sk \in ToSet(s) THEN RemoveAt(s, PositionOf(s, sk))
                ELSE KeepLast(s, MaxSessions - 1)
<1>1. /\ s \in Seq(SessionKey) /\ DOMAIN s = 1..Len(s) /\ Injective(s) /\ Len(s) \in Nat
      /\ v \in [SessionKey -> SUBSET SessionKey] /\ Follows(s, RivalOf(v))
      /\ MaxSessions - 1 \in Nat
  BY LenProperties, StoreAssumption DEF SessionsOK, RivalsOK
<1>2. /\ f \in Seq(SessionKey) /\ sk \notin Displaced(sk)
      /\ ToSet(f) = (ToSet(s) \ Displaced(sk)) \cup {sk}
  BY TouchedProperties DEF SessionsOK
<1>3. /\ q \in [SessionKey -> SUBSET SessionKey] /\ q[sk] = {}
      /\ \A k \in SessionKey : k # sk /\ k \in v[k] => q[k] = {k}
      /\ \A k \in SessionKey : k # sk /\ k \notin v[k] => q[k] = v[k] \cup {sk}
  BY <1>1, StoredToProperties
<1> HIDE DEF q
<1>4. \A k \in ToSet(s) : k \in SessionKey /\ k \notin v[k]
  BY <1>1, ElementOfSeq DEF RivalsOK, ToSet
<1>5. /\ d \in Seq(SessionKey) /\ Follows(d, RivalOf(v)) /\ f = Append(d, sk)
      /\ ToSet(d) \subseteq ToSet(s) \ {sk}
  <2>1. CASE sk \in ToSet(s)
    <3>1. PositionOf(s, sk) \in 1..Len(s) /\ s[PositionOf(s, sk)] = sk
      <4>1. \E i \in DOMAIN s : s[i] = sk
        BY <2>1 DEF ToSet
      <4> QED BY <4>1, <1>1 DEF PositionOf
    <3> DEFINE p == PositionOf(s, sk)
    <3>2. d = RemoveAt(s, p) /\ f = Append(d, sk)
      BY <2>1 DEF Touched
    <3> HIDE DEF p, d, f
    <3>3. /\ RemoveAt(s, p) \in Seq(SessionKey) /\ Follows(RemoveAt(s, p), RivalOf(v))
          /\ ToSet(RemoveAt(s, p)) = ToSet(s) \ {s[p]}
      BY <3>1, <1>1, RemoveAtProperties, RemoveAtFollows, RemovalLeavesSet DEF p
    <3> QED BY <3>1, <3>2, <3>3 DEF p
  <2>2. CASE sk \notin ToSet(s)
    <3> DEFINE m == MaxSessions - 1
               g == KeepLast(s, m)
    <3>1. d = g /\ f = Append(g, sk)
      BY <2>2 DEF Touched
    <3>2. /\ g \in Seq(SessionKey)
          /\ Len(g) = IF Len(s) > m THEN m ELSE Len(s)
          /\ Len(s) <= m => g = s
          /\ Len(s) > m => \A j \in 1..m : g[j] = s[Len(s) - m + j]
          /\ Follows(g, RivalOf(v))
      BY <1>1, KeepLastProperties, KeepLastFollows
    <3>3. m \in Nat
      BY <1>1
    <3> HIDE DEF g, m, d, f
    <3>4. ToSet(g) \subseteq ToSet(s)
      <4>1. CASE Len(s) <= m
        BY <4>1, <3>2
      <4>2. CASE Len(s) > m
        <5>1. DOMAIN g = 1..m
          BY <4>2, <3>2, LenProperties
        <5>2. \A j \in 1..m : Len(s) - m + j \in 1..Len(s)
          BY <4>2, <3>3, <1>1
        <5> QED BY <4>2, <5>1, <5>2, <3>2, <1>1 DEF ToSet
      <4> QED BY <4>1, <4>2, <3>3, <1>1
    <3> QED BY <2>2, <3>1, <3>2, <3>4
  <2> QED BY <2>1, <2>2
<1> HIDE DEF d, f
<1>6. DOMAIN d = 1..Len(d) /\ \A i \in 1..Len(d) : d[i] \in ToSet(s) /\ d[i] # sk
  BY <1>5, LenProperties DEF ToSet
<1>7. Follows(f, RivalOf(q))
  <2>1. Follows(d, RivalOf(q))
    <3>1. ASSUME NEW i \in DOMAIN d, NEW j \in DOMAIN d, <<d[i], d[j]>> \in RivalOf(v)
          PROVE  <<d[i], d[j]>> \in RivalOf(q)
      <4>1. d[i] \in SessionKey /\ d[j] \in SessionKey /\ d[j] \in v[d[i]]
        BY <3>1 DEF RivalOf
      <4>2. q[d[i]] = v[d[i]] \cup {sk}
        BY <4>1, <1>3, <1>4, <1>6
      <4> QED BY <4>1, <4>2 DEF RivalOf
    <3> QED BY <3>1, <1>5, FollowsWider
  <2>2. ASSUME NEW i \in 1..Len(d) PROVE <<d[i], sk>> \in RivalOf(q)
    <3>1. d[i] \in SessionKey /\ q[d[i]] = v[d[i]] \cup {sk}
      BY <1>3, <1>4, <1>6
    <3> QED BY <3>1 DEF RivalOf
  <2> QED BY <2>1, <2>2, <1>5, AppendFollows
<1>8. \A k \in ToSet(f) : k \notin q[k]
  <2> SUFFICES ASSUME NEW k \in ToSet(f) PROVE k \notin q[k]
    OBVIOUS
  <2>1. CASE k = sk
    BY <2>1, <1>3
  <2>2. CASE k # sk
    BY <2>2, <1>2, <1>3, <1>4
  <2> QED BY <2>1, <2>2
<1>9. ASSUME NEW k \in SessionKey, k \notin q[k], k \notin ToSet(f)
      PROVE  Cardinality(q[k]) >= MaxSessions
  <2>1. k # sk /\ k \notin v[k] /\ q[k] = v[k] \cup {sk}
    BY <1>2, <1>3, <1>9
  <2>2. CASE k \in ToSet(s)
    <3>1. k \in Displaced(sk)
      BY <2>1, <2>2, <1>2, <1>9
    <3>2. /\ sk \notin ToSet(s) /\ Len(s) = MaxSessions
          /\ 1 \in 1..Len(s) /\ k = s[1]
      BY <3>1, DisplacedIsFront
    <3> QED BY <3>2, FrontRivalled DEF q
  <2>3. CASE k \notin ToSet(s)
    <3>1. Cardinality(v[k]) >= MaxSessions
      BY <2>1, <2>3 DEF RivalsOK
    <3>2. v[k] \in SUBSET SessionKey /\ q[k] \in SUBSET SessionKey /\ v[k] \subseteq q[k]
      BY <2>1, <1>1, <1>3
    <3>3. Cardinality(v[k]) <= Cardinality(q[k]) /\ Cardinality(v[k]) \in Nat /\ Cardinality(q[k]) \in Nat
      BY <3>2, FiniteRivals
    <3> QED BY <3>1, <3>3, StoreAssumption
  <2> QED BY <2>2, <2>3
<1>10. RivalsOK(f, q)
  BY <1>3, <1>7, <1>8, <1>9 DEF RivalsOK
<1> QED BY <1>10 DEF f, q

\* Partitions that are cleared wait to be opened; the others keep their order.
LEMMA ClearRivals ==
    ASSUME SessionsOK, NEW v, RivalsOK(sessions, v), NEW K \in SUBSET SessionKey,
           NEW f \in InOrderOf(sessions, ToSet(sessions) \ K)
    PROVE  RivalsOK(f, [k \in SessionKey |-> IF k \in K THEN {k} ELSE v[k]])
<1> DEFINE s == sessions
           L == ToSet(s) \ K
           q == [k \in SessionKey |-> IF k \in K THEN {k} ELSE v[k]]
<1>1. /\ s \in Seq(SessionKey) /\ DOMAIN s = 1..Len(s)
      /\ v \in [SessionKey -> SUBSET SessionKey] /\ Follows(s, RivalOf(v))
  BY LenProperties DEF SessionsOK, RivalsOK
<1>2. ToSet(f) = L
  BY <1>1, InOrderProperties
<1>3. /\ f \in [1..Cardinality(L) -> L]
      /\ \A i, j \in DOMAIN f : i < j => PositionOf(s, f[i]) < PositionOf(s, f[j])
  BY DEF InOrderOf
<1>4. \A k \in ToSet(s) : /\ PositionOf(s, k) \in DOMAIN s /\ s[PositionOf(s, k)] = k
                          /\ k \in SessionKey
  <2> SUFFICES ASSUME NEW k \in ToSet(s)
               PROVE  /\ PositionOf(s, k) \in DOMAIN s /\ s[PositionOf(s, k)] = k
                      /\ k \in SessionKey
    OBVIOUS
  <2>1. \E i \in DOMAIN s : s[i] = k
    BY DEF ToSet
  <2>2. PositionOf(s, k) \in DOMAIN s /\ s[PositionOf(s, k)] = k
    BY <2>1 DEF PositionOf
  <2> QED BY <2>2, <1>1, ElementOfSeq
<1>5. q \in [SessionKey -> SUBSET SessionKey] /\ \A k \in SessionKey \ K : q[k] = v[k]
  BY <1>1
<1>6. Follows(f, RivalOf(q))
  <2> SUFFICES ASSUME NEW i \in DOMAIN f, NEW j \in DOMAIN f, i < j
               PROVE  <<f[i], f[j]>> \in RivalOf(q)
    BY DEF Follows
  <2>1. f[i] \in L /\ f[j] \in L
    BY <1>3
  <2>2. PositionOf(s, f[i]) < PositionOf(s, f[j])
    BY <1>3
  <2>3. <<s[PositionOf(s, f[i])], s[PositionOf(s, f[j])]>> \in RivalOf(v)
    BY <2>1, <2>2, <1>1, <1>4 DEF Follows
  <2>4. f[j] \in v[f[i]] /\ f[i] \in SessionKey \ K /\ f[j] \in SessionKey
    BY <2>1, <2>3, <1>4 DEF RivalOf
  <2> HIDE DEF q
  <2> QED BY <2>4, <1>5 DEF RivalOf
<1>7. \A k \in ToSet(f) : k \notin q[k]
  BY <1>2, <1>4, <1>5 DEF RivalsOK
<1>8. ASSUME NEW k \in SessionKey, k \notin q[k]
      PROVE  k \in ToSet(f) \/ Cardinality(q[k]) >= MaxSessions
  <2>1. k \notin K /\ q[k] = v[k]
    BY <1>8
  <2> QED BY <2>1, <1>2, <1>8 DEF RivalsOK
<1> HIDE DEF q
<1>9. RivalsOK(f, q)
  BY <1>5, <1>6, <1>7, <1>8 DEF RivalsOK
<1> QED BY <1>9 DEF q

-----------------------------------------------------------------------------
(* The store with its history.                                             *)

HPartOK(sk) ==
    HistoryOK(entries[sk], tombstones[sk], counters[sk], given[sk], since[sk], now)

HInv ==
    /\ IInv
    /\ DOMAIN given = SessionKey /\ DOMAIN since = SessionKey
    /\ \A sk \in SessionKey : HPartOK(sk)
    /\ RivalsOK(sessions, rivals)

LEMMA InitHInv == HInit => HInv
<1> SUFFICES ASSUME HInit PROVE HInv
  OBVIOUS
<1>1. IInv
  BY InitIInv DEF HInit
<1>2. \A sk \in SessionKey : HPartOK(sk)
  BY EmptyHistory DEF HInit, Init, HPartOK
<1>3. RivalsOK(sessions, rivals)
  BY DEF HInit, Init, RivalsOK, Follows, ToSet
<1> QED BY <1>1, <1>2, <1>3 DEF HInv, HInit

LEMMA HStoreHInv ==
    ASSUME HInv, NEW sk \in SessionKey, NEW resp \in Response, HStore(sk, resp)
    PROVE  HInv'
<1> DEFINE e == entries[sk]
           t == tombstones[sk]
           c == counters[sk]
           gone == Displaced(sk)
           full == Len(e) >= MaxEntries
           room == IF full THEN Tail(e) ELSE e
           stones == IF full THEN WithTombstone(t, Head(e), "lru") ELSE t
           x == [ref |-> c + 1, timestamp |-> now, response |-> resp]
           v == [response |-> resp, timestamp |-> now]
<1>1. /\ IInv /\ SessionsOK /\ PartitionsAgree
      /\ entries \in [SessionKey -> Seq(StoredResponse)]
      /\ counters \in [SessionKey -> 0..MaxRef]
      /\ tombstones \in [SessionKey -> Seq(Tombstone)]
      /\ now \in 0..MaxTime
      /\ PartOK(sk)
  BY IInvByPartition DEF HInv
<1>2. /\ DOMAIN given = SessionKey /\ DOMAIN since = SessionKey
      /\ \A k \in SessionKey : HPartOK(k)
      /\ RivalsOK(sessions, rivals)
  BY DEF HInv
<1>3. Store(sk, resp)
  BY DEF HStore
<1>4. NextRef(sk) = c + 1 /\ c \in Nat
  <2>1. c \in 0..MaxRef
    BY <1>1
  <2>2. c \in Nat
    BY <2>1, StoreAssumption
  <2> QED BY <2>2, <1>1 DEF PartitionsAgree, NextRef
<1>5. sk \notin gone
  BY <1>1, TouchedProperties DEF SessionsOK
<1>6. /\ c + 1 \in Ref
      /\ sessions' = Touched(sk)
      /\ counters' = [Popped(counters, gone, 0) EXCEPT ![sk] = c + 1]
      /\ tombstones' = [Popped(tombstones, gone, <<>>) EXCEPT ![sk] = stones]
      /\ entries' = [Popped(entries, gone, <<>>) EXCEPT ![sk] = Append(room, x)]
      /\ now' = now
  BY <1>3, <1>4 DEF Store
<1>7. given' = [Popped(given, gone, <<>>) EXCEPT ![sk] = Append(given[sk], v)]
  <2>1. given[sk] \in Seq(Given) /\ Len(given[sk]) = c
    BY <1>2 DEF HPartOK, HistoryOK
  <2>2. c + 1 = 1 => given[sk] = <<>>
    BY <2>1, <1>4, EmptySeq
  <2> QED BY <2>2, <1>4 DEF HStore
<1>8. since' = [Popped(since, gone, Unused) EXCEPT ![sk] = Use(since[sk], c + 1, 1..c + 1)]
  <2>1. Popped(since, gone, Unused)[sk] = since[sk]
    BY <1>2, <1>5 DEF Popped
  <2> QED BY <2>1, <1>4 DEF HStore
<1>9. HistoryOK(Append(room, x), stones, c + 1, Append(given[sk], v),
                Use(since[sk], c + 1, 1..c + 1), now)
  <2>1. PartitionOK(e, t, c) /\ HistoryOK(e, t, c, given[sk], since[sk], now)
    BY <1>1, <1>2 DEF PartOK, HPartOK
  <2> HIDE DEF e, t, c
  <2> QED BY <2>1, <1>1, <1>6, StoreHistory
<1> HIDE DEF e, t, room, stones, full, x, v, gone
<1>10. ASSUME NEW k \in SessionKey PROVE HPartOK(k)'
  <2>1. CASE k = sk
    <3>1. /\ entries'[sk] = Append(room, x) /\ tombstones'[sk] = stones
          /\ counters'[sk] = c + 1 /\ given'[sk] = Append(given[sk], v)
          /\ since'[sk] = Use(since[sk], c + 1, 1..c + 1)
      BY <1>1, <1>2, <1>6, <1>7, <1>8 DEF Popped
    <3> QED BY <2>1, <3>1, <1>6, <1>9 DEF HPartOK
  <2>2. CASE k # sk /\ k \in gone
    <3>1. /\ entries'[k] = <<>> /\ tombstones'[k] = <<>> /\ counters'[k] = 0
          /\ given'[k] = <<>> /\ since'[k] = Unused
      BY <2>2, <1>1, <1>2, <1>6, <1>7, <1>8 DEF Popped
    <3> QED BY <3>1, EmptyHistory DEF HPartOK
  <2>3. CASE k # sk /\ k \notin gone
    <3>1. /\ entries'[k] = entries[k] /\ tombstones'[k] = tombstones[k]
          /\ counters'[k] = counters[k] /\ given'[k] = given[k] /\ since'[k] = since[k]
      BY <2>3, <1>1, <1>2, <1>6, <1>7, <1>8 DEF Popped
    <3> QED BY <3>1, <1>2, <1>6 DEF HPartOK
  <2> QED BY <2>1, <2>2, <2>3
<1>11. RivalsOK(sessions', rivals')
  <2>1. rivals' = StoredTo(rivals, sk)
    BY DEF HStore, StoredTo
  <2> QED BY <2>1, <1>1, <1>2, <1>6, StoreRivals
<1>12. DOMAIN given' = SessionKey /\ DOMAIN since' = SessionKey
  BY <1>2, <1>7, <1>8 DEF Popped
<1>13. IInv'
  BY <1>1, <1>3, StoreIInv
<1> QED BY <1>10, <1>11, <1>12, <1>13 DEF HInv

LEMMA HGetHInv ==
    ASSUME HInv, NEW sk \in SessionKey, NEW r \in Ref, HGet(sk, r)
    PROVE  HInv'
<1> DEFINE e == entries[sk]
           t == tombstones[sk]
           c == counters[sk]
<1>1. /\ IInv
      /\ entries \in [SessionKey -> Seq(StoredResponse)]
      /\ tombstones \in [SessionKey -> Seq(Tombstone)]
      /\ PartitionOK(e, t, c)
  BY IInvByPartition DEF HInv, PartOK
<1>2. /\ DOMAIN given = SessionKey /\ DOMAIN since = SessionKey
      /\ \A k \in SessionKey : HPartOK(k)
      /\ RivalsOK(sessions, rivals)
  BY DEF HInv
<1>3. HistoryOK(e, t, c, given[sk], since[sk], now)
  BY <1>2 DEF HPartOK
<1>4. DOMAIN e = 1..Len(e) /\ Distinct(e)
  BY <1>1, EntryFacts DEF PartitionOK
<1>5. /\ Get(sk, r) /\ given' = given /\ rivals' = rivals
      /\ since' = [since EXCEPT ![sk] = IF Readable(sk, r) = {} THEN since[sk]
                                        ELSE Use(since[sk], r, 1..c)]
  BY DEF HGet
<1>6. IInv'
  BY <1>1, <1>5, GetIInv
\* It is enough to see what becomes of the partition.
<1>7. ASSUME NEW f, NEW u, NEW s,
             entries' = [entries EXCEPT ![sk] = f], tombstones' = [tombstones EXCEPT ![sk] = u],
             since' = [since EXCEPT ![sk] = s], UNCHANGED <<sessions, counters, now>>,
             HistoryOK(f, u, c, given[sk], s, now)
      PROVE  HInv'
  <2>1. ASSUME NEW k \in SessionKey PROVE HPartOK(k)'
    <3>1. CASE k = sk
      BY <3>1, <1>1, <1>2, <1>5, <1>7 DEF HPartOK
    <3>2. CASE k # sk
      <4>1. entries'[k] = entries[k] /\ tombstones'[k] = tombstones[k] /\ since'[k] = since[k]
        BY <3>2, <1>1, <1>2, <1>7
      <4> QED BY <4>1, <1>2, <1>5, <1>7 DEF HPartOK
    <3> QED BY <3>1, <3>2
  <2>2. DOMAIN given' = SessionKey /\ DOMAIN since' = SessionKey
    BY <1>2, <1>5, <1>7
  <2>3. RivalsOK(sessions', rivals')
    BY <1>2, <1>5, <1>7
  <2> QED BY <2>1, <2>2, <2>3, <1>6 DEF HInv
<1>8. CASE r \notin Refs(e) /\ UNCHANGED storeVars
  <2>1. Readable(sk, r) = {}
    BY <1>8 DEF Readable, Refs, ToSet
  <2>2. /\ entries' = [entries EXCEPT ![sk] = e] /\ tombstones' = [tombstones EXCEPT ![sk] = t]
        /\ since' = [since EXCEPT ![sk] = since[sk]] /\ UNCHANGED <<sessions, counters, now>>
    BY <2>1, <1>1, <1>5, <1>8 DEF storeVars
  <2> QED BY <2>2, <1>3, <1>7
<1>9. ASSUME NEW i \in 1..Len(e), e[i].ref = r, GetHit(sk, i) PROVE HInv'
  <2>1. e[i] \in Readable(sk, r)
    BY <1>4, <1>9 DEF GetHit, Readable, ToSet
  <2>2. since' = [since EXCEPT ![sk] = Use(since[sk], r, 1..c)]
    BY <2>1, <1>5
  <2>3. /\ entries' = [entries EXCEPT ![sk] = Append(RemoveAt(e, i), e[i])]
        /\ tombstones' = [tombstones EXCEPT ![sk] = t]
        /\ UNCHANGED <<sessions, counters, now>>
    BY <1>1, <1>9 DEF GetHit
  <2>4. HistoryOK(Append(RemoveAt(e, i), e[i]), t, c, given[sk], Use(since[sk], r, 1..c), now)
    BY <1>1, <1>3, <1>9, TouchHistory
  <2> QED BY <2>2, <2>3, <2>4, <1>7
<1>10. ASSUME NEW i \in 1..Len(e), e[i].ref = r, GetExpired(sk, i) PROVE HInv'
  <2>1. now - e[i].timestamp > TTL
    BY <1>10 DEF GetExpired, Expired
  <2>2. Readable(sk, r) = {}
    <3> SUFFICES ASSUME NEW d \in ToSet(e), d.ref = r, ~Expired(d) PROVE FALSE
      BY DEF Readable
    <3>1. PICK j \in 1..Len(e) : d = e[j]
      BY <1>4 DEF ToSet
    <3>2. j = i
      BY <3>1, <1>4, <1>10 DEF Distinct
    <3> QED BY <3>1, <3>2, <1>10 DEF GetExpired
  <2>3. since' = [since EXCEPT ![sk] = since[sk]]
    BY <2>2, <1>5
  <2>4. /\ entries' = [entries EXCEPT ![sk] = RemoveAt(e, i)]
        /\ tombstones' = [tombstones EXCEPT ![sk] = WithTombstone(t, e[i], "ttl")]
        /\ UNCHANGED <<sessions, counters, now>>
    BY <1>1, <1>10 DEF GetExpired
  <2>5. HistoryOK(RemoveAt(e, i), WithTombstone(t, e[i], "ttl"), c, given[sk], since[sk], now)
    BY <2>1, <1>1, <1>3, ExpireHistory
  <2> QED BY <2>3, <2>4, <2>5, <1>7
<1> QED BY <1>4, <1>5, <1>8, <1>9, <1>10 DEF Get

LEMMA HClearHInv ==
    ASSUME HInv, NEW K \in SUBSET SessionKey, HClear(K)
    PROVE  HInv'
<1>1. /\ IInv /\ SessionsOK
      /\ entries \in [SessionKey -> Seq(StoredResponse)]
      /\ counters \in [SessionKey -> 0..MaxRef]
      /\ tombstones \in [SessionKey -> Seq(Tombstone)]
  BY IInvByPartition DEF HInv
<1>2. /\ DOMAIN given = SessionKey /\ DOMAIN since = SessionKey
      /\ \A k \in SessionKey : HPartOK(k)
      /\ RivalsOK(sessions, rivals)
  BY DEF HInv
<1>3. /\ ClearPartitions(K)
      /\ given' = Popped(given, K, <<>>) /\ since' = Popped(since, K, Unused)
      /\ rivals' = [k \in SessionKey |-> IF k \in K THEN {k} ELSE rivals[k]]
  BY DEF HClear
<1>4. /\ sessions' \in InOrderOf(sessions, ToSet(sessions) \ K)
      /\ entries' = Popped(entries, K, <<>>)
      /\ counters' = Popped(counters, K, 0)
      /\ tombstones' = Popped(tombstones, K, <<>>)
      /\ now' = now
  BY <1>3 DEF ClearPartitions
<1>5. ASSUME NEW k \in SessionKey PROVE HPartOK(k)'
  <2>1. CASE k \in K
    <3>1. /\ entries'[k] = <<>> /\ tombstones'[k] = <<>> /\ counters'[k] = 0
          /\ given'[k] = <<>> /\ since'[k] = Unused
      BY <2>1, <1>1, <1>2, <1>3, <1>4 DEF Popped
    <3> QED BY <3>1, EmptyHistory DEF HPartOK
  <2>2. CASE k \notin K
    <3>1. /\ entries'[k] = entries[k] /\ tombstones'[k] = tombstones[k]
          /\ counters'[k] = counters[k] /\ given'[k] = given[k] /\ since'[k] = since[k]
      BY <2>2, <1>1, <1>2, <1>3, <1>4 DEF Popped
    <3> QED BY <3>1, <1>2, <1>4 DEF HPartOK
  <2> QED BY <2>1, <2>2
<1>6. RivalsOK(sessions', rivals')
  BY <1>1, <1>2, <1>3, <1>4, ClearRivals
<1>7. DOMAIN given' = SessionKey /\ DOMAIN since' = SessionKey
  BY <1>2, <1>3 DEF Popped
<1>8. IInv'
  BY <1>1, <1>3, ClearIInv
<1> QED BY <1>5, <1>6, <1>7, <1>8 DEF HInv

LEMMA HTickHInv ==
    ASSUME HInv, HTick
    PROVE  HInv'
<1>1. /\ IInv /\ now \in 0..MaxTime
      /\ \A k \in SessionKey : PartOK(k)
  BY IInvByPartition DEF HInv
<1>2. /\ Tick /\ UNCHANGED <<given, since, rivals>>
      /\ UNCHANGED <<sessions, entries, counters, tombstones>> /\ now' = now + 1
  BY DEF HTick, histVars, Tick
<1>3. ASSUME NEW k \in SessionKey PROVE HPartOK(k)'
  <2>1. HistoryOK(entries[k], tombstones[k], counters[k], given[k], since[k], now')
    BY <1>1, <1>2, TickHistory DEF HInv, HPartOK, PartOK
  <2> QED BY <2>1, <1>2 DEF HPartOK
<1>4. IInv'
  BY <1>1, <1>2, NextIInv DEF Next
<1> QED BY <1>2, <1>3, <1>4 DEF HInv

LEMMA NextHInv == HInv /\ [HNext]_hvars => HInv'
<1> SUFFICES ASSUME HInv, [HNext]_hvars PROVE HInv'
  OBVIOUS
<1>1. ASSUME NEW sk \in SessionKey, NEW resp \in Response, HStore(sk, resp) PROVE HInv'
  BY <1>1, HStoreHInv
<1>2. ASSUME NEW sk \in SessionKey, NEW r \in Ref, HGet(sk, r) PROVE HInv'
  BY <1>2, HGetHInv
<1>3. ASSUME NEW sk \in SessionKey, HClear({sk}) PROVE HInv'
  BY <1>3, HClearHInv
<1>4. ASSUME NEW c \in Credential, HClear(OwnedBy(c)) PROVE HInv'
  <2>1. OwnedBy(c) \in SUBSET SessionKey
    BY DEF OwnedBy
  <2> QED BY <2>1, <1>4, HClearHInv
<1>5. CASE HTick
  BY <1>5, HTickHInv
<1>6. CASE UNCHANGED hvars
  <2>1. UNCHANGED storeVars /\ UNCHANGED <<given, since, rivals>>
    BY <1>6 DEF hvars, storeVars
  <2>2. IInv'
    BY <2>1, NextIInv DEF HInv
  <2>3. \A k \in SessionKey : HPartOK(k)'
    BY <2>1 DEF HInv, HPartOK, storeVars
  <2> QED BY <2>1, <2>2, <2>3 DEF HInv, storeVars
<1> QED BY <1>1, <1>2, <1>3, <1>4, <1>5, <1>6 DEF HNext

LEMMA HInvTruthful == HInv => Truthful
<1> SUFFICES ASSUME HInv, NEW sk \in SessionKey
             PROVE  /\ \A e \in ToSet(entries[sk]) :
                          /\ e.response = given[sk][e.ref].response
                          /\ e.timestamp = given[sk][e.ref].timestamp
                    /\ \A t \in ToSet(tombstones[sk]) :
                          /\ t.response = given[sk][t.ref].response
                          /\ t.reason = "ttl" => now - given[sk][t.ref].timestamp > TTL
                          /\ t.reason = "lru" => Cardinality(since[sk][t.ref]) >= MaxEntries
  BY DEF Truthful
<1>1. EntriesTrue(entries[sk], given[sk]) /\ StonesTrue(tombstones[sk], given[sk], since[sk], now)
  BY DEF HInv, HPartOK, HistoryOK
<1> QED BY <1>1 DEF EntriesTrue, StonesTrue, Passed, ToSet

LEMMA HInvRecentStays == HInv => RecentStays
<1> SUFFICES ASSUME HInv PROVE RecentStays
  OBVIOUS
<1>1. ASSUME NEW sk \in SessionKey, NEW r \in 1..counters[sk],
             Cardinality(since[sk][r]) < MaxEntries,
             now - given[sk][r].timestamp <= TTL
      PROVE  Readable(sk, r) # {}
  <2> DEFINE e == entries[sk]
             g == given[sk]
             s == since[sk]
  <2>1. PartitionOK(e, tombstones[sk], counters[sk]) /\ now \in 0..MaxTime
    BY IInvByPartition DEF HInv, PartOK
  <2>2. /\ g \in Seq(Given) /\ Len(g) = counters[sk] /\ s \in [Ref -> SUBSET Ref]
        /\ EntriesTrue(e, g) /\ MissesTrue(e, counters[sk], g, s, now)
    BY DEF HInv, HPartOK, HistoryOK
  <2>3. DOMAIN e = 1..Len(e) /\ counters[sk] \in Nat /\ MaxRef \in Nat /\ counters[sk] <= MaxRef
    BY <2>1, EntryFacts
  <2>4. r \in Ref /\ g[r] \in Given
    <3>1. r \in Ref
      BY <2>3 DEF Ref
    <3>2. r \in 1..Len(g)
      BY <2>2
    <3> QED BY <3>1, <3>2, <2>2, ElementOfSeq
  <2>5. Cardinality(s[r]) \in Nat
    BY <2>2, <2>4, FiniteRefs, FS_CardinalityType
  <2>6. ~Passed(s, r)
    BY <2>5, <1>1, StoreAssumption DEF Passed
  <2>7. ~(now - g[r].timestamp > TTL)
    <3>1. g[r].timestamp \in 0..MaxTime /\ TTL \in Nat /\ MaxTime \in Nat
      BY <2>4, StoreAssumption DEF Given
    <3> QED BY <3>1, <2>1, <1>1
  <2>8. PICK i \in DOMAIN e : e[i].ref = r
    BY <2>2, <2>6, <2>7 DEF MissesTrue, Refs
  <2>9. ~Expired(e[i]) /\ e[i] \in ToSet(e)
    BY <2>2, <2>7, <2>8 DEF EntriesTrue, Expired, ToSet
  <2> QED BY <2>8, <2>9 DEF Readable
<1>2. ASSUME NEW sk \in SessionKey, sk \notin rivals[sk], Cardinality(rivals[sk]) < MaxSessions
      PROVE  sk \in ToSet(sessions)
  <2>1. RivalsOK(sessions, rivals)
    BY DEF HInv
  <2>2. Cardinality(rivals[sk]) \in Nat
    <3>1. rivals[sk] \in SUBSET SessionKey
      BY <2>1 DEF RivalsOK
    <3> QED BY <3>1, FiniteRivals
  <2>3. ~(Cardinality(rivals[sk]) >= MaxSessions)
    BY <2>2, <1>2, StoreAssumption
  <2> QED BY <2>1, <2>3, <1>2 DEF RivalsOK
<1> QED BY <1>1, <1>2 DEF RecentStays

\* A reference means what it was issued for, and a tombstone is right about why
\* its reference went (store, get, _add_tombstone), for every cap and TTL.
THEOREM StoreTruthful == HSpec => []Truthful
BY InitHInv, NextHInv, HInvTruthful, PTL DEF HSpec

\* What was used recently can be read, and who stored recently keeps the
\* partition: the promise of the two ordered dictionaries, for every cap and TTL.
THEOREM StoreRecentStays == HSpec => []RecentStays
BY InitHInv, NextHInv, HInvRecentStays, PTL DEF HSpec

-----------------------------------------------------------------------------
(* The history only watches: without it, the steps are the store's own, so  *)
(* that what ResponseStoreProofs shows of Spec holds of HSpec.              *)

LEMMA HNextIsNext == [HNext]_hvars => [Next]_storeVars
<1>1. ASSUME NEW sk \in SessionKey, NEW resp \in Response, HStore(sk, resp) PROVE Next
  BY <1>1 DEF HStore, Next
<1>2. ASSUME NEW sk \in SessionKey, NEW r \in Ref, HGet(sk, r) PROVE Next
  BY <1>2 DEF HGet, Next
<1>3. ASSUME NEW sk \in SessionKey, HClear({sk}) PROVE Next
  BY <1>3 DEF HClear, Next, ClearSession
<1>4. ASSUME NEW c \in Credential, HClear(OwnedBy(c)) PROVE Next
  BY <1>4 DEF HClear, Next, ClearCredentialSessions
<1>5. ASSUME HTick PROVE Next
  BY <1>5 DEF HTick, Next
<1>6. ASSUME UNCHANGED hvars PROVE UNCHANGED storeVars
  BY <1>6 DEF hvars, storeVars
<1> QED BY <1>1, <1>2, <1>3, <1>4, <1>5, <1>6 DEF HNext

\* The store whose callers' history is kept behaves as the store, with every
\* variable of the store itself: the store, get and clears do not look at it.
THEOREM HistoryOnlyWatches == HSpec => Spec
<1>1. HInit => Init
  BY DEF HInit
<1> QED BY <1>1, HNextIsNext, PTL DEF HSpec, Spec

\* The refinement as the Store run checks it, of the store with its history.
THEOREM WatchedStoreKeepsShelf == HSpec => KeepsShelf
BY HistoryOnlyWatches, StoreKeepsShelf
=============================================================================
