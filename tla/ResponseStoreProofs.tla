------------------------ MODULE ResponseStoreProofs ------------------------
(***************************************************************************)
(* The response store for any sessions, credentials, caps and TTL: its      *)
(* dictionaries agree and stay within their caps, references are distinct,  *)
(* every miss is explained, and it implements the abstract ResponseShelf.   *)
(***************************************************************************)
EXTENDS ResponseStore, SequenceTheorems, FiniteSetTheorems, TLAPS

LEMMA TailIsRemoval ==
    ASSUME NEW S, NEW s \in Seq(S), s # <<>>
    PROVE  /\ Tail(s) \in Seq(S)
           /\ Len(Tail(s)) = Len(s) - 1
           /\ \A j \in 1..Len(s) - 1 : Tail(s)[j] = s[j + 1]
BY HeadTailProperties

LEMMA RemoveAtProperties ==
    ASSUME NEW S, NEW s \in Seq(S), NEW i \in 1..Len(s)
    PROVE  /\ RemoveAt(s, i) \in Seq(S)
           /\ Len(RemoveAt(s, i)) = Len(s) - 1
           /\ \A j \in 1..Len(s) - 1 :
                 RemoveAt(s, i)[j] = IF j < i THEN s[j] ELSE s[j + 1]
<1> DEFINE front == SubSeq(s, 1, i - 1)
           back == SubSeq(s, i + 1, Len(s))
<1>1. Len(s) \in Nat /\ \A k \in 1..Len(s) : s[k] \in S
  BY LenProperties
<1>2. /\ front \in Seq(S)
      /\ Len(front) = i - 1
      /\ \A k \in 1..i - 1 : front[k] = s[k]
  <2>1. i - 1 \in Int /\ \A k \in 1..i - 1 : s[k] \in S
    BY <1>1
  <2> QED BY <2>1, <1>1, SubSeqProperties
<1>3. /\ back \in Seq(S)
      /\ Len(back) = Len(s) - i
      /\ \A k \in 1..Len(s) - i : back[k] = s[k + i]
  <2>1. i + 1 \in Int /\ \A k \in i + 1..Len(s) : s[k] \in S
    BY <1>1
  <2> QED BY <2>1, <1>1, SubSeqProperties
<1> HIDE DEF front, back
<1>4. /\ front \o back \in Seq(S)
      /\ Len(front \o back) = Len(front) + Len(back)
      /\ \A k \in 1..Len(front) + Len(back) :
            (front \o back)[k] = IF k <= Len(front) THEN front[k]
                                ELSE back[k - Len(front)]
  BY <1>2, <1>3, ConcatProperties
<1>5. RemoveAt(s, i) = front \o back
  BY DEF RemoveAt, front, back
<1>6. Len(front \o back) = Len(s) - 1
  BY <1>1, <1>2, <1>3, <1>4
<1>7. ASSUME NEW j \in 1..Len(s) - 1
      PROVE  (front \o back)[j] = IF j < i THEN s[j] ELSE s[j + 1]
  <2>1. CASE j < i
    BY <2>1, <1>1, <1>2, <1>3, <1>4
  <2>2. CASE ~(j < i)
    <3>1. /\ j \in 1..Len(front) + Len(back)
          /\ ~(j <= Len(front))
          /\ j - Len(front) = j - i + 1
          /\ j - i + 1 \in 1..Len(s) - i
          /\ j - i + 1 + i = j + 1
      BY <2>2, <1>1, <1>2, <1>3
    <3>2. (front \o back)[j] = back[j - i + 1]
      BY <3>1, <1>4
    <3>3. back[j - i + 1] = s[j - i + 1 + i]
      BY <3>1, <1>3
    <3> QED BY <3>1, <3>2, <3>3, <2>2
  <2> QED BY <2>1, <2>2
<1> QED BY <1>4, <1>5, <1>6, <1>7

LEMMA KeepLastProperties ==
    ASSUME NEW S, NEW s \in Seq(S), NEW n \in Nat
    PROVE  /\ KeepLast(s, n) \in Seq(S)
           /\ Len(KeepLast(s, n)) = IF Len(s) > n THEN n ELSE Len(s)
           /\ Len(s) <= n => KeepLast(s, n) = s
           /\ Len(s) > n =>
                \A j \in 1..n : KeepLast(s, n)[j] = s[Len(s) - n + j]
<1>1. Len(s) \in Nat /\ \A k \in 1..Len(s) : s[k] \in S
  BY LenProperties
<1>2. CASE Len(s) <= n
  BY <1>1, <1>2 DEF KeepLast
<1>3. CASE Len(s) > n
  <2>1. Len(s) - n + 1 \in Int /\ \A k \in Len(s) - n + 1..Len(s) : s[k] \in S
    BY <1>1, <1>3
  <2>2. /\ SubSeq(s, Len(s) - n + 1, Len(s)) \in Seq(S)
        /\ Len(SubSeq(s, Len(s) - n + 1, Len(s))) = n
        /\ \A j \in 1..n :
              SubSeq(s, Len(s) - n + 1, Len(s))[j] = s[Len(s) - n + j]
    <3>1. /\ SubSeq(s, Len(s) - n + 1, Len(s)) \in Seq(S)
          /\ Len(SubSeq(s, Len(s) - n + 1, Len(s)))
               = IF Len(s) - n + 1 <= Len(s)
                 THEN Len(s) - (Len(s) - n + 1) + 1 ELSE 0
          /\ \A j \in 1..Len(s) - (Len(s) - n + 1) + 1 :
                SubSeq(s, Len(s) - n + 1, Len(s))[j] = s[Len(s) - n + 1 + j - 1]
      BY <2>1, <1>1, SubSeqProperties
    <3> QED BY <3>1, <1>1, <1>3
  <2> QED BY <2>2, <1>1, <1>3 DEF KeepLast
<1> QED BY <1>1, <1>2, <1>3

-----------------------------------------------------------------------------
(* One partition: its entries e, its tombstones t and its counter c.       *)

Distinct(items) ==
    \A i, j \in DOMAIN items : items[i].ref = items[j].ref => i = j

PartitionOK(e, t, c) ==
    /\ e \in Seq(StoredResponse) /\ Len(e) <= MaxEntries
    /\ t \in Seq(Tombstone) /\ Len(t) <= TombstoneCap
    /\ c \in 0..MaxRef
    /\ Distinct(e)
    /\ Distinct(t)
    /\ Refs(e) \cap Refs(t) = {}
    /\ \A r \in Refs(e) \cup Refs(t) : r <= c
    /\ \A r \in 1..c : r \in Refs(e) \/ r \in Refs(t) \/ Len(t) = TombstoneCap

LEMMA RefsAreNaturals ==
    /\ \A e \in Seq(StoredResponse) : Refs(e) \subseteq Nat
    /\ \A t \in Seq(Tombstone) : Refs(t) \subseteq Nat
<1>1. ASSUME NEW e \in Seq(StoredResponse) PROVE Refs(e) \subseteq Nat
  <2>1. \A j \in DOMAIN e : e[j] \in StoredResponse
    BY LenProperties, ElementOfSeq
  <2>2. \A x \in StoredResponse : x.ref \in Nat
    BY StoreAssumption DEF StoredResponse, Ref
  <2> QED BY <2>1, <2>2 DEF Refs
<1>2. ASSUME NEW t \in Seq(Tombstone) PROVE Refs(t) \subseteq Nat
  <2>1. \A j \in DOMAIN t : t[j] \in Tombstone
    BY LenProperties, ElementOfSeq
  <2>2. \A x \in Tombstone : x.ref \in Nat
    BY StoreAssumption DEF Tombstone, Ref
  <2> QED BY <2>1, <2>2 DEF Refs
<1> QED BY <1>1, <1>2

LEMMA EmptyPartition == PartitionOK(<<>>, <<>>, 0)
<1>1. <<>> \in Seq(StoredResponse) /\ <<>> \in Seq(Tombstone) /\ Len(<<>>) = 0
  BY EmptySeq
<1>2. Refs(<<>>) = {} /\ Distinct(<<>>)
  BY DEF Refs, Distinct
<1> QED BY <1>1, <1>2, StoreAssumption DEF PartitionOK

LEMMA RemoveAtRefs ==
    ASSUME NEW S, NEW e \in Seq(S), NEW i \in 1..Len(e), Distinct(e)
    PROVE  /\ Distinct(RemoveAt(e, i))
           /\ Refs(RemoveAt(e, i)) = Refs(e) \ {e[i].ref}
<1> DEFINE f == RemoveAt(e, i)
<1>1. Len(e) \in Nat /\ DOMAIN e = 1..Len(e) /\ i \in Nat
  BY LenProperties
<1>2. /\ f \in Seq(S) /\ Len(f) = Len(e) - 1
      /\ \A j \in 1..Len(e) - 1 : f[j] = IF j < i THEN e[j] ELSE e[j + 1]
  BY RemoveAtProperties
<1> HIDE DEF f
<1>3. DOMAIN f = 1..Len(e) - 1
  BY <1>2, LenProperties
<1>4. Distinct(f)
  <2>1. SUFFICES ASSUME NEW j \in 1..Len(e) - 1, NEW k \in 1..Len(e) - 1,
                        f[j].ref = f[k].ref
                 PROVE  j = k
    BY <1>3 DEF Distinct
  <2>2. \A x, y \in 1..Len(e) : e[x].ref = e[y].ref => x = y
    BY <1>1 DEF Distinct
  <2> QED BY <2>1, <2>2, <1>1, <1>2
<1>5. ASSUME NEW r \in Refs(f) PROVE r \in Refs(e) \ {e[i].ref}
  <2>1. PICK j \in 1..Len(e) - 1 : r = f[j].ref
    BY <1>3 DEF Refs
  <2>2. PICK k \in 1..Len(e) : k # i /\ r = e[k].ref
    BY <2>1, <1>1, <1>2
  <2> QED BY <2>2, <1>1 DEF Refs, Distinct
<1>6. ASSUME NEW r \in Refs(e) \ {e[i].ref} PROVE r \in Refs(f)
  <2>1. PICK k \in 1..Len(e) : k # i /\ r = e[k].ref
    BY <1>1 DEF Refs
  <2>2. CASE k < i
    <3>1. k \in 1..Len(e) - 1 /\ f[k] = e[k]
      BY <2>1, <2>2, <1>1, <1>2
    <3> QED BY <3>1, <2>1, <1>3 DEF Refs
  <2>3. CASE k > i
    <3>1. k - 1 \in 1..Len(e) - 1 /\ f[k - 1] = e[k]
      BY <2>1, <2>3, <1>1, <1>2
    <3> QED BY <3>1, <2>1, <1>3 DEF Refs
  <2> QED BY <2>1, <2>2, <2>3, <1>1
<1> QED BY <1>4, <1>5, <1>6 DEF f

LEMMA AppendRefs ==
    ASSUME NEW S, NEW e \in Seq(S), NEW x \in S, Distinct(e), x.ref \notin Refs(e)
    PROVE  /\ Distinct(Append(e, x))
           /\ Refs(Append(e, x)) = Refs(e) \cup {x.ref}
<1> DEFINE f == Append(e, x)
<1>1. Len(e) \in Nat /\ DOMAIN e = 1..Len(e)
  BY LenProperties
<1>2. /\ f \in Seq(S) /\ Len(f) = Len(e) + 1
      /\ \A j \in 1..Len(e) : f[j] = e[j]
      /\ f[Len(e) + 1] = x
  BY AppendProperties
<1> HIDE DEF f
<1>3. DOMAIN f = 1..Len(e) + 1
  BY <1>2, LenProperties
<1>4. Distinct(f)
  <2>1. SUFFICES ASSUME NEW j \in 1..Len(e) + 1, NEW k \in 1..Len(e) + 1,
                        f[j].ref = f[k].ref
                 PROVE  j = k
    BY <1>3 DEF Distinct
  <2>2. \A y, z \in 1..Len(e) : e[y].ref = e[z].ref => y = z
    BY <1>1 DEF Distinct
  <2>3. \A y \in 1..Len(e) : e[y].ref # x.ref
    BY <1>1 DEF Refs
  <2> QED BY <2>1, <2>2, <2>3, <1>1, <1>2
<1>5. Refs(f) = Refs(e) \cup {x.ref}
  BY <1>1, <1>2, <1>3 DEF Refs
<1> QED BY <1>4, <1>5 DEF f

LEMMA KeepLastRefs ==
    ASSUME NEW S, NEW e \in Seq(S), NEW n \in Nat, Distinct(e)
    PROVE  /\ Distinct(KeepLast(e, n))
           /\ Refs(KeepLast(e, n)) \subseteq Refs(e)
           /\ Len(KeepLast(e, n)) = n \/ Refs(KeepLast(e, n)) = Refs(e)
<1> DEFINE f == KeepLast(e, n)
<1>1. Len(e) \in Nat /\ DOMAIN e = 1..Len(e)
  BY LenProperties
<1>2. /\ f \in Seq(S)
      /\ Len(f) = IF Len(e) > n THEN n ELSE Len(e)
      /\ Len(e) <= n => f = e
      /\ Len(e) > n => \A j \in 1..n : f[j] = e[Len(e) - n + j]
  BY KeepLastProperties
<1> HIDE DEF f
<1>3. CASE Len(e) <= n
  BY <1>2, <1>3 DEF f
<1>4. CASE Len(e) > n
  <2>1. DOMAIN f = 1..n
    BY <1>2, <1>4, LenProperties
  <2>2. \A j \in 1..n : Len(e) - n + j \in 1..Len(e) /\ f[j] = e[Len(e) - n + j]
    BY <1>1, <1>2, <1>4
  <2>3. Refs(f) \subseteq Refs(e)
    BY <2>1, <2>2, <1>1 DEF Refs
  <2>4. ASSUME NEW j \in 1..n, NEW k \in 1..n, f[j].ref = f[k].ref
        PROVE  j = k
    <3> DEFINE x == Len(e) - n + j
               y == Len(e) - n + k
    <3>1. x \in 1..Len(e) /\ y \in 1..Len(e) /\ f[j] = e[x] /\ f[k] = e[y]
      BY <2>2
    <3>2. x = y => j = k
      BY <1>1
    <3> HIDE DEF x, y
    <3>3. x = y
      BY <3>1, <2>4, <1>1 DEF Distinct
    <3> QED BY <3>2, <3>3
  <2>5. Distinct(f)
    BY <2>1, <2>4 DEF Distinct
  <2> QED BY <2>3, <2>5, <1>2, <1>4 DEF f
<1> QED BY <1>1, <1>3, <1>4

\* Evicting entry i and leaving a tombstone keeps the partition consistent.
LEMMA EvictEntry ==
    ASSUME NEW e, NEW t, NEW c, PartitionOK(e, t, c),
           NEW i \in 1..Len(e), NEW reason \in Reason
    PROVE  /\ PartitionOK(RemoveAt(e, i), WithTombstone(t, e[i], reason), c)
           /\ Len(RemoveAt(e, i)) = Len(e) - 1
<1> DEFINE stone == [ref |-> e[i].ref, response |-> e[i].response, reason |-> reason]
           u == Append(t, stone)
           v == KeepLast(u, TombstoneCap)
<1>1. /\ e \in Seq(StoredResponse) /\ Len(e) \in Nat
      /\ DOMAIN e = 1..Len(e) /\ e[i] \in StoredResponse
  BY LenProperties, ElementOfSeq DEF PartitionOK
<1>2. /\ RemoveAt(e, i) \in Seq(StoredResponse)
      /\ Len(RemoveAt(e, i)) = Len(e) - 1
      /\ Distinct(RemoveAt(e, i))
      /\ Refs(RemoveAt(e, i)) = Refs(e) \ {e[i].ref}
  BY <1>1, RemoveAtProperties, RemoveAtRefs DEF PartitionOK
<1>3. stone \in Tombstone /\ stone.ref = e[i].ref
  BY <1>1 DEF StoredResponse, Tombstone
<1>4. e[i].ref \in Refs(e)
  BY <1>1 DEF Refs
<1>5. e[i].ref \notin Refs(t)
  BY <1>4 DEF PartitionOK
<1>6. WithTombstone(t, e[i], reason) = v
  BY <1>5 DEF WithTombstone
<1>7. t \in Seq(Tombstone) /\ Len(t) \in Nat /\ Len(t) <= TombstoneCap /\ Distinct(t)
  BY LenProperties DEF PartitionOK
<1> HIDE DEF stone
<1>8. u \in Seq(Tombstone) /\ Len(u) = Len(t) + 1
  BY <1>3, <1>7, AppendProperties
<1>9. Distinct(u) /\ Refs(u) = Refs(t) \cup {e[i].ref}
  BY <1>3, <1>5, <1>7, AppendRefs
<1> HIDE DEF u
<1>10. TombstoneCap \in Nat \ {0}
  BY StoreAssumption
<1>11. /\ v \in Seq(Tombstone) /\ Len(v) <= TombstoneCap
  BY <1>7, <1>8, <1>10, KeepLastProperties
<1>12. /\ Distinct(v) /\ Refs(v) \subseteq Refs(u)
       /\ Len(v) = TombstoneCap \/ Refs(v) = Refs(u)
  BY <1>8, <1>9, <1>10, KeepLastRefs
<1> HIDE DEF v
<1> DEFINE d == RemoveAt(e, i)
<1> HIDE DEF d
<1>13. PartitionOK(d, v, c)
  <2>1. /\ d \in Seq(StoredResponse) /\ Len(d) = Len(e) - 1 /\ Distinct(d)
        /\ Refs(d) = Refs(e) \ {e[i].ref}
    BY <1>2 DEF d
  <2>2. Len(d) <= MaxEntries
    BY <2>1, <1>1, StoreAssumption DEF PartitionOK
  <2>3. Refs(d) \cap Refs(v) = {}
    BY <2>1, <1>9, <1>12 DEF PartitionOK
  <2>4. \A r \in Refs(d) \cup Refs(v) : r <= c
    BY <2>1, <1>4, <1>9, <1>12 DEF PartitionOK
  <2>5. \A r \in 1..c : r \in Refs(d) \/ r \in Refs(v) \/ Len(v) = TombstoneCap
    <3>1. CASE Len(v) = TombstoneCap
      BY <3>1
    <3>2. CASE Refs(v) = Refs(t) \cup {e[i].ref}
      <4>1. Len(t) = TombstoneCap => Len(v) = TombstoneCap
        BY <1>7, <1>8, <1>10, KeepLastProperties DEF v
      <4> QED BY <3>2, <2>1, <4>1 DEF PartitionOK
    <3> QED BY <3>1, <3>2, <1>9, <1>12
  <2> QED BY <2>1, <2>2, <2>3, <2>4, <2>5, <1>11, <1>12 DEF PartitionOK
<1> QED BY <1>2, <1>6, <1>13 DEF d

\* Moving entry i to the recent end changes the order and nothing else.
LEMMA TouchEntry ==
    ASSUME NEW e, NEW t, NEW c, PartitionOK(e, t, c), NEW i \in 1..Len(e)
    PROVE  PartitionOK(Append(RemoveAt(e, i), e[i]), t, c)
<1>1. /\ e \in Seq(StoredResponse) /\ Len(e) \in Nat
      /\ DOMAIN e = 1..Len(e) /\ e[i] \in StoredResponse
  BY LenProperties, ElementOfSeq DEF PartitionOK
<1>2. /\ RemoveAt(e, i) \in Seq(StoredResponse)
      /\ Len(RemoveAt(e, i)) = Len(e) - 1
      /\ Distinct(RemoveAt(e, i))
      /\ Refs(RemoveAt(e, i)) = Refs(e) \ {e[i].ref}
  BY <1>1, RemoveAtProperties, RemoveAtRefs DEF PartitionOK
<1>3. e[i].ref \in Refs(e)
  BY <1>1 DEF Refs
<1> DEFINE d == RemoveAt(e, i)
           f == Append(d, e[i])
<1> HIDE DEF d
<1>4. f \in Seq(StoredResponse) /\ Len(f) = Len(e)
  <2>1. d \in Seq(StoredResponse) /\ Len(d) = Len(e) - 1
    BY <1>2 DEF d
  <2> QED BY <2>1, <1>1, AppendProperties
<1>5. Distinct(f) /\ Refs(f) = Refs(e)
  <2>1. /\ d \in Seq(StoredResponse) /\ Distinct(d)
        /\ Refs(d) = Refs(e) \ {e[i].ref}
    BY <1>2 DEF d
  <2>2. Distinct(f) /\ Refs(f) = Refs(d) \cup {e[i].ref}
    BY <2>1, <1>1, AppendRefs
  <2> QED BY <2>1, <2>2, <1>3
<1> HIDE DEF f
<1>6. PartitionOK(f, t, c)
  BY <1>4, <1>5 DEF PartitionOK
<1> QED BY <1>6 DEF d, f

\* Inserting the next reference into a partition that has room.
LEMMA InsertEntry ==
    ASSUME NEW e, NEW t, NEW c, PartitionOK(e, t, c), Len(e) < MaxEntries,
           NEW x \in StoredResponse, x.ref = c + 1
    PROVE  PartitionOK(Append(e, x), t, c + 1)
<1>1. /\ e \in Seq(StoredResponse) /\ Len(e) \in Nat /\ c \in Nat
      /\ x.ref \in 1..MaxRef /\ MaxRef \in Nat /\ MaxEntries \in Nat
  BY LenProperties, StoreAssumption DEF PartitionOK, StoredResponse, Ref
<1>2. x.ref \notin Refs(e) /\ x.ref \notin Refs(t)
  BY <1>1 DEF PartitionOK
<1> DEFINE f == Append(e, x)
<1>3. f \in Seq(StoredResponse) /\ Len(f) = Len(e) + 1
  BY <1>1, AppendProperties
<1>4. Distinct(f) /\ Refs(f) = Refs(e) \cup {c + 1}
  BY <1>1, <1>2, AppendRefs DEF PartitionOK
<1> HIDE DEF f
<1>5. /\ Len(f) <= MaxEntries
      /\ c + 1 \in 0..MaxRef
      /\ Refs(f) \cap Refs(t) = {}
  BY <1>1, <1>2, <1>3, <1>4 DEF PartitionOK
<1>6. \A r \in Refs(f) \cup Refs(t) : r <= c + 1
  <2>1. \A r \in Refs(e) \cup Refs(t) : r \in Nat
    BY RefsAreNaturals DEF PartitionOK
  <2> QED BY <2>1, <1>1, <1>4 DEF PartitionOK
<1>7. \A r \in 1..c + 1 :
         r \in Refs(f) \/ r \in Refs(t) \/ Len(t) = TombstoneCap
  <2>1. \A r \in 1..c + 1 : r = c + 1 \/ r \in 1..c
    BY <1>1
  <2> QED BY <2>1, <1>4 DEF PartitionOK
<1>8. PartitionOK(f, t, c + 1)
  BY <1>3, <1>4, <1>5, <1>6, <1>7 DEF PartitionOK
<1> QED BY <1>8 DEF f

-----------------------------------------------------------------------------
(* The order of the partitions.                                            *)

Injective(s) == \A i, j \in DOMAIN s : s[i] = s[j] => i = j

LEMMA InOrderProperties ==
    ASSUME NEW s \in Seq(SessionKey), NEW K \in SUBSET ToSet(s),
           NEW t \in InOrderOf(s, K)
    PROVE  /\ t \in Seq(SessionKey) /\ Injective(t)
           /\ ToSet(t) = K
           /\ Len(t) <= Len(s)
<1> DEFINE n == Cardinality(K)
<1>1. /\ Len(s) \in Nat /\ DOMAIN s = 1..Len(s)
      /\ \A i \in 1..Len(s) : s[i] \in SessionKey
  BY LenProperties, ElementOfSeq
<1>2. ToSet(s) \in SUBSET SessionKey
  BY <1>1 DEF ToSet
<1>3. IsFiniteSet(ToSet(s)) /\ IsFiniteSet(K) /\ n \in Nat
  BY <1>2, StoreAssumption, FS_Subset, FS_CardinalityType
<1>4. n <= Len(s)
  <2>1. s \in Surjection(1..Len(s), ToSet(s))
    BY <1>1 DEF Surjection, ToSet
  <2>2. Cardinality(ToSet(s)) <= Len(s)
    BY <2>1, <1>1, FS_SurjCardinalityBound DEF ExistsSurjection
  <2>3. n <= Cardinality(ToSet(s)) /\ Cardinality(ToSet(s)) \in Nat
    BY <1>3, FS_Subset, FS_CardinalityType
  <2> QED BY <2>2, <2>3, <1>1, <1>3
<1>5. /\ t \in [1..n -> K]
      /\ \A i, j \in 1..n : i < j => PositionOf(s, t[i]) < PositionOf(s, t[j])
  BY DEF InOrderOf
<1> HIDE DEF n
<1>6. \A i \in 1..n : PositionOf(s, t[i]) \in Nat
  <2>1. SUFFICES ASSUME NEW i \in 1..n PROVE PositionOf(s, t[i]) \in Nat
    OBVIOUS
  <2>2. \E j \in DOMAIN s : s[j] = t[i]
    BY <1>5 DEF ToSet
  <2>3. PositionOf(s, t[i]) \in DOMAIN s
    BY <2>2 DEF PositionOf
  <2> QED BY <2>3, <1>1
<1>7. \A i, j \in 1..n : t[i] = t[j] => i = j
  BY <1>3, <1>5, <1>6
<1>8. /\ t \in Seq(SessionKey) /\ Len(t) = n /\ DOMAIN t = 1..n
  <2>1. t \in [1..n -> SessionKey]
    BY <1>2, <1>5
  <2> QED BY <2>1, <1>3
<1>9. ToSet(t) = K
  <2>1. t \in Injection(1..n, K)
    BY <1>5, <1>7 DEF Injection, IsInjective
  <2>2. IsFiniteSet(1..n) /\ Cardinality(1..n) = n
    BY <1>3, FS_Interval
  <2>3. t \in Surjection(1..n, K)
    BY <2>1, <2>2, <1>3, FS_Injection DEF n
  <2> QED BY <2>3, <1>5, <1>8 DEF Surjection, ToSet
<1> QED BY <1>4, <1>7, <1>8, <1>9 DEF Injective

LEMMA TouchedProperties ==
    ASSUME sessions \in Seq(SessionKey), Injective(sessions),
           Len(sessions) <= MaxSessions, NEW sk \in SessionKey
    PROVE  /\ Touched(sk) \in Seq(SessionKey) /\ Injective(Touched(sk))
           /\ Len(Touched(sk)) <= MaxSessions
           /\ sk \notin Displaced(sk)
           /\ ToSet(Touched(sk)) = (ToSet(sessions) \ Displaced(sk)) \cup {sk}
<1> DEFINE s == sessions
<1>1. /\ Len(s) \in Nat /\ DOMAIN s = 1..Len(s)
      /\ MaxSessions \in Nat \ {0}
  BY LenProperties, StoreAssumption
<1>2. ASSUME NEW k \in Seq(SessionKey), Injective(k), sk \notin ToSet(k),
             Len(k) < MaxSessions
      PROVE  /\ Append(k, sk) \in Seq(SessionKey) /\ Injective(Append(k, sk))
             /\ Len(Append(k, sk)) <= MaxSessions
             /\ ToSet(Append(k, sk)) = ToSet(k) \cup {sk}
  <2> DEFINE f == Append(k, sk)
  <2>1. Len(k) \in Nat /\ DOMAIN k = 1..Len(k)
    BY LenProperties
  <2>2. /\ f \in Seq(SessionKey) /\ Len(f) = Len(k) + 1
        /\ \A j \in 1..Len(k) : f[j] = k[j]
        /\ f[Len(k) + 1] = sk
    BY AppendProperties
  <2> HIDE DEF f
  <2>3. DOMAIN f = 1..Len(k) + 1
    BY <2>2, LenProperties
  <2>4. Injective(f)
    <3>1. SUFFICES ASSUME NEW i \in 1..Len(k) + 1, NEW j \in 1..Len(k) + 1, f[i] = f[j]
                   PROVE  i = j
      BY <2>3 DEF Injective
    <3>2. \A y \in 1..Len(k) : k[y] # sk
      BY <1>2, <2>1 DEF ToSet
    <3>3. \A y, z \in 1..Len(k) : k[y] = k[z] => y = z
      BY <1>2, <2>1 DEF Injective
    <3> QED BY <3>1, <3>2, <3>3, <2>1, <2>2
  <2>5. ToSet(f) = ToSet(k) \cup {sk}
    BY <2>1, <2>2, <2>3 DEF ToSet
  <2>6. Len(f) <= MaxSessions
    BY <2>1, <2>2, <1>1, <1>2
  <2> QED BY <2>2, <2>4, <2>5, <2>6 DEF f
<1>3. CASE sk \in ToSet(s)
  <2> DEFINE p == PositionOf(s, sk)
             k == RemoveAt(s, p)
  <2>1. p \in 1..Len(s) /\ s[p] = sk
    <3>1. \E i \in DOMAIN s : s[i] = sk
      BY <1>3 DEF ToSet
    <3> QED BY <3>1, <1>1 DEF PositionOf
  <2> HIDE DEF p
  <2>2. /\ k \in Seq(SessionKey) /\ Len(k) = Len(s) - 1
        /\ \A j \in 1..Len(s) - 1 : k[j] = IF j < p THEN s[j] ELSE s[j + 1]
    BY <2>1, RemoveAtProperties
  <2> HIDE DEF k
  <2>3. DOMAIN k = 1..Len(s) - 1 /\ p \in Nat
    BY <2>1, <2>2, <1>1, LenProperties
  <2>4. \A x, y \in 1..Len(s) : s[x] = s[y] => x = y
    BY <1>1 DEF Injective
  <2>5. Injective(k)
    <3>1. SUFFICES ASSUME NEW i \in 1..Len(s) - 1, NEW j \in 1..Len(s) - 1, k[i] = k[j]
                   PROVE  i = j
      BY <2>3 DEF Injective
    <3> QED BY <3>1, <2>2, <2>3, <2>4, <1>1
  <2>6. ToSet(k) = ToSet(s) \ {sk}
    <3>1. ASSUME NEW x \in ToSet(k) PROVE x \in ToSet(s) \ {sk}
      <4>1. PICK j \in 1..Len(s) - 1 : x = k[j]
        BY <2>3 DEF ToSet
      <4>2. PICK i \in 1..Len(s) : i # p /\ x = s[i]
        BY <4>1, <2>2, <2>3, <1>1
      <4> QED BY <4>2, <2>1, <2>4, <1>1 DEF ToSet
    <3>2. ASSUME NEW x \in ToSet(s) \ {sk} PROVE x \in ToSet(k)
      <4>1. PICK i \in 1..Len(s) : i # p /\ x = s[i]
        BY <2>1, <1>1 DEF ToSet
      <4>2. CASE i < p
        <5>1. i \in 1..Len(s) - 1 /\ k[i] = s[i]
          BY <4>1, <4>2, <2>1, <2>2, <2>3, <1>1
        <5> QED BY <5>1, <4>1, <2>3 DEF ToSet
      <4>3. CASE ~(i < p)
        <5>1. i - 1 \in 1..Len(s) - 1 /\ k[i - 1] = s[i]
          BY <4>1, <4>3, <2>1, <2>2, <2>3, <1>1
        <5> QED BY <5>1, <4>1, <2>3 DEF ToSet
      <4> QED BY <4>2, <4>3
    <3> QED BY <3>1, <3>2
  <2>7. sk \notin ToSet(k) /\ Len(k) < MaxSessions
    BY <2>2, <2>6, <1>1
  <2>8. Touched(sk) = Append(k, sk) /\ Displaced(sk) = {}
    BY <1>3 DEF Touched, Displaced, k, p
  <2> QED BY <2>2, <2>5, <2>6, <2>7, <2>8, <1>2
<1>4. CASE sk \notin ToSet(s)
  <2> DEFINE m == MaxSessions - 1
             k == KeepLast(s, m)
  <2>1. m \in Nat /\ m < MaxSessions
    BY <1>1
  <2>2. Touched(sk) = Append(k, sk) /\ Displaced(sk) = ToSet(s) \ ToSet(k)
    BY <1>4 DEF Touched, Displaced
  <2> HIDE DEF m
  <2>3. /\ k \in Seq(SessionKey)
        /\ Len(k) = IF Len(s) > m THEN m ELSE Len(s)
        /\ Len(s) <= m => k = s
        /\ Len(s) > m => \A j \in 1..m : k[j] = s[Len(s) - m + j]
    BY <2>1, KeepLastProperties
  <2> HIDE DEF k
  <2>4. DOMAIN k = 1..Len(k) /\ Len(k) \in Nat
    BY <2>3, LenProperties
  <2>5. Injective(k) /\ ToSet(k) \subseteq ToSet(s)
    <3>1. CASE Len(s) <= m
      BY <3>1, <2>3
    <3>2. CASE Len(s) > m
      <4>1. \A j \in 1..m : Len(s) - m + j \in 1..Len(s) /\ k[j] = s[Len(s) - m + j]
        BY <3>2, <2>1, <2>3, <1>1
      <4>2. ToSet(k) \subseteq ToSet(s)
        BY <4>1, <3>2, <2>3, <2>4, <1>1 DEF ToSet
      <4>3. ASSUME NEW i \in 1..m, NEW j \in 1..m, k[i] = k[j]
            PROVE  i = j
        <5> DEFINE x == Len(s) - m + i
                   y == Len(s) - m + j
        <5>1. x \in 1..Len(s) /\ y \in 1..Len(s) /\ k[i] = s[x] /\ k[j] = s[y]
          BY <4>1
        <5>2. x = y => i = j
          BY <1>1, <2>1
        <5> HIDE DEF x, y
        <5>3. x = y
          BY <5>1, <4>3, <1>1 DEF Injective
        <5> QED BY <5>2, <5>3
      <4> QED BY <4>2, <4>3, <3>2, <2>3, <2>4 DEF Injective
    <3> QED BY <3>1, <3>2, <2>1, <1>1
  <2>6. sk \notin ToSet(k) /\ Len(k) < MaxSessions
    BY <2>1, <2>3, <2>5, <1>1, <1>4
  <2>7. ToSet(s) \ (ToSet(s) \ ToSet(k)) = ToSet(k)
    BY <2>5
  <2> QED BY <2>2, <2>3, <2>5, <2>6, <2>7, <1>2, <1>4
<1> QED BY <1>3, <1>4

-----------------------------------------------------------------------------
(* The inductive invariant.  MissExplained needs RefsDistinct (an eviction  *)
(* tombstones a reference that has none yet), RefsDistinct needs the caps   *)
(* and PartitionsAgree (a partition that is opened starts from nothing), so *)
(* the invariants are proved together.                                     *)

IInv == TypeOK /\ PartitionsAgree /\ Bounded /\ RefsDistinct /\ MissExplained

SessionsOK ==
    /\ sessions \in Seq(SessionKey)
    /\ Injective(sessions)
    /\ Len(sessions) <= MaxSessions

PartOK(sk) == PartitionOK(entries[sk], tombstones[sk], counters[sk])

LEMMA IInvByPartition ==
    IInv <=> /\ SessionsOK
             /\ entries \in [SessionKey -> Seq(StoredResponse)]
             /\ counters \in [SessionKey -> 0..MaxRef]
             /\ tombstones \in [SessionKey -> Seq(Tombstone)]
             /\ now \in 0..MaxTime
             /\ PartitionsAgree
             /\ \A sk \in SessionKey : PartOK(sk)
BY DEF IInv, TypeOK, Bounded, RefsDistinct, MissExplained, SessionsOK, PartOK,
       PartitionOK, Distinct, Injective

LEMMA IInvByPartitionNext ==
    ASSUME SessionsOK', PartitionsAgree', \A sk \in SessionKey : PartOK(sk)',
           entries' \in [SessionKey -> Seq(StoredResponse)],
           counters' \in [SessionKey -> 0..MaxRef],
           tombstones' \in [SessionKey -> Seq(Tombstone)],
           now' \in 0..MaxTime
    PROVE  IInv'
BY DEF IInv, TypeOK, Bounded, RefsDistinct, MissExplained, SessionsOK, PartOK,
       PartitionOK, Distinct, Injective

LEMMA InitIInv == Init => IInv
<1> SUFFICES ASSUME Init PROVE IInv
  OBVIOUS
<1>1. /\ sessions = <<>> /\ now = 0
      /\ \A sk \in SessionKey : /\ entries[sk] = <<>> /\ tombstones[sk] = <<>>
                                /\ counters[sk] = 0
  BY DEF Init
<1>2. /\ entries \in [SessionKey -> Seq(StoredResponse)]
      /\ tombstones \in [SessionKey -> Seq(Tombstone)]
      /\ counters \in [SessionKey -> 0..MaxRef]
      /\ now \in 0..MaxTime
  BY EmptySeq, StoreAssumption DEF Init
<1>3. SessionsOK
  BY <1>1, EmptySeq, StoreAssumption DEF SessionsOK, Injective
<1>4. PartitionsAgree
  BY <1>1 DEF PartitionsAgree, ToSet
<1>5. \A sk \in SessionKey : PartOK(sk)
  BY <1>1, EmptyPartition DEF PartOK
<1> QED BY <1>2, <1>3, <1>4, <1>5, IInvByPartition

LEMMA StoreIInv ==
    ASSUME IInv, NEW sk \in SessionKey, NEW resp \in Response, Store(sk, resp)
    PROVE  IInv'
<1> DEFINE e == entries[sk]
           gone == Displaced(sk)
           full == Len(e) >= MaxEntries
           room == IF full THEN Tail(e) ELSE e
           stones == IF full THEN WithTombstone(tombstones[sk], Head(e), "lru")
                     ELSE tombstones[sk]
           x == [ref |-> NextRef(sk), timestamp |-> now, response |-> resp]
<1>1. /\ SessionsOK /\ PartitionsAgree
      /\ entries \in [SessionKey -> Seq(StoredResponse)]
      /\ counters \in [SessionKey -> 0..MaxRef]
      /\ tombstones \in [SessionKey -> Seq(Tombstone)]
      /\ now \in 0..MaxTime
      /\ \A k \in SessionKey : PartOK(k)
  BY IInvByPartition
<1>2. /\ NextRef(sk) \in Ref
      /\ sessions' = Touched(sk)
      /\ counters' = [Popped(counters, gone, 0) EXCEPT ![sk] = NextRef(sk)]
      /\ tombstones' = [Popped(tombstones, gone, <<>>) EXCEPT ![sk] = stones]
      /\ entries' = [Popped(entries, gone, <<>>) EXCEPT ![sk] = Append(room, x)]
      /\ now' = now
  BY DEF Store
<1>3. /\ Touched(sk) \in Seq(SessionKey) /\ Injective(Touched(sk))
      /\ Len(Touched(sk)) <= MaxSessions
      /\ sk \notin gone
      /\ ToSet(Touched(sk)) = (ToSet(sessions) \ gone) \cup {sk}
  BY <1>1, TouchedProperties DEF SessionsOK
<1>4. NextRef(sk) = counters[sk] + 1
  BY <1>1 DEF PartitionsAgree, NextRef
<1>5. PartitionOK(room, stones, counters[sk]) /\ Len(room) < MaxEntries
  <2>1. PartitionOK(e, tombstones[sk], counters[sk])
    BY <1>1 DEF PartOK
  <2>2. e \in Seq(StoredResponse) /\ Len(e) \in Nat /\ Len(e) <= MaxEntries
        /\ MaxEntries \in Nat \ {0}
    BY <2>1, LenProperties, StoreAssumption DEF PartitionOK
  <2>3. CASE full
    <3>1. 1 \in 1..Len(e) /\ e # <<>>
      BY <2>2, <2>3, EmptySeq
    <3>2. Head(e) = e[1]
      BY <3>1, <2>2
    <3>3. Tail(e) = RemoveAt(e, 1)
      <4>1. /\ Tail(e) \in Seq(StoredResponse) /\ Len(Tail(e)) = Len(e) - 1
            /\ \A j \in 1..Len(e) - 1 : Tail(e)[j] = e[j + 1]
        BY <3>1, <2>2, TailIsRemoval
      <4>2. /\ RemoveAt(e, 1) \in Seq(StoredResponse)
            /\ Len(RemoveAt(e, 1)) = Len(e) - 1
            /\ \A j \in 1..Len(e) - 1 :
                  RemoveAt(e, 1)[j] = IF j < 1 THEN e[j] ELSE e[j + 1]
        BY <3>1, <2>2, RemoveAtProperties
      <4>3. \A j \in 1..Len(e) - 1 : RemoveAt(e, 1)[j] = Tail(e)[j]
        BY <4>1, <4>2
      <4> HIDE DEF e
      <4> QED BY <4>1, <4>2, <4>3, SeqEqual
    <3>4. /\ PartitionOK(RemoveAt(e, 1), WithTombstone(tombstones[sk], e[1], "lru"),
                         counters[sk])
          /\ Len(RemoveAt(e, 1)) = Len(e) - 1
      BY <3>1, <2>1, EvictEntry DEF Reason
    <3>5. room = RemoveAt(e, 1)
          /\ stones = WithTombstone(tombstones[sk], e[1], "lru")
      BY <3>2, <3>3, <2>3
    <3> QED BY <3>4, <3>5, <2>2
  <2>4. CASE ~full
    BY <2>1, <2>2, <2>4
  <2> QED BY <2>3, <2>4
<1> HIDE DEF e, gone, full, room, stones
<1>6. x \in StoredResponse /\ x.ref = counters[sk] + 1
  BY <1>1, <1>2, <1>4 DEF StoredResponse
<1> HIDE DEF x
<1>7. PartitionOK(Append(room, x), stones, counters[sk] + 1)
  BY <1>5, <1>6, InsertEntry
<1>8. ASSUME NEW k \in SessionKey
      PROVE  /\ k = sk => /\ entries'[k] = Append(room, x) /\ tombstones'[k] = stones
                          /\ counters'[k] = counters[sk] + 1
             /\ k # sk /\ k \in gone => /\ entries'[k] = <<>> /\ tombstones'[k] = <<>>
                                        /\ counters'[k] = 0
             /\ k # sk /\ k \notin gone => /\ entries'[k] = entries[k]
                                           /\ tombstones'[k] = tombstones[k]
                                           /\ counters'[k] = counters[k]
  BY <1>1, <1>2, <1>4 DEF Popped
<1>9. \A k \in SessionKey : PartOK(k)'
  <2> SUFFICES ASSUME NEW k \in SessionKey PROVE PartOK(k)'
    OBVIOUS
  <2>1. CASE k = sk
    BY <2>1, <1>7, <1>8 DEF PartOK
  <2>2. CASE k # sk /\ k \in gone
    BY <2>2, <1>8, EmptyPartition DEF PartOK
  <2>3. CASE k # sk /\ k \notin gone
    BY <2>3, <1>1, <1>8 DEF PartOK
  <2> QED BY <2>1, <2>2, <2>3
<1>10. SessionsOK'
  BY <1>2, <1>3 DEF SessionsOK, Injective
<1>11. PartitionsAgree'
  <2> SUFFICES ASSUME NEW k \in SessionKey
               PROVE  /\ k \in ToSet(sessions') <=> counters'[k] > 0
                      /\ k \notin ToSet(sessions') => entries'[k] = <<>> /\ tombstones'[k] = <<>>
    BY DEF PartitionsAgree
  <2>1. ToSet(sessions') = (ToSet(sessions) \ gone) \cup {sk}
    BY <1>2, <1>3 DEF gone
  <2>2. CASE k = sk
    BY <2>1, <2>2, <1>1, <1>8
  <2>3. CASE k # sk /\ k \in gone
    BY <2>1, <2>3, <1>8
  <2>4. CASE k # sk /\ k \notin gone
    BY <2>1, <2>4, <1>1, <1>8 DEF PartitionsAgree
  <2> QED BY <2>2, <2>3, <2>4
<1>12. /\ entries' \in [SessionKey -> Seq(StoredResponse)]
       /\ counters' \in [SessionKey -> 0..MaxRef]
       /\ tombstones' \in [SessionKey -> Seq(Tombstone)]
  <2>1. /\ DOMAIN entries' = SessionKey /\ DOMAIN counters' = SessionKey
        /\ DOMAIN tombstones' = SessionKey
        /\ entries' = [k \in SessionKey |-> entries'[k]]
        /\ counters' = [k \in SessionKey |-> counters'[k]]
        /\ tombstones' = [k \in SessionKey |-> tombstones'[k]]
    BY <1>1, <1>2 DEF Popped
  <2>2. \A k \in SessionKey : /\ entries'[k] \in Seq(StoredResponse)
                              /\ counters'[k] \in 0..MaxRef
                              /\ tombstones'[k] \in Seq(Tombstone)
    BY <1>9 DEF PartOK, PartitionOK
  <2> QED BY <2>1, <2>2
<1>13. now' \in 0..MaxTime
  BY <1>1, <1>2
<1> QED BY <1>9, <1>10, <1>11, <1>12, <1>13, IInvByPartitionNext

\* A step inside one partition that leaves the set of partitions alone.
LEMMA PartitionStepIInv ==
    ASSUME IInv, NEW sk \in SessionKey, NEW e, NEW t,
           PartitionOK(e, t, counters[sk]), entries[sk] # <<>>,
           entries' = [entries EXCEPT ![sk] = e],
           tombstones' = [tombstones EXCEPT ![sk] = t],
           UNCHANGED <<sessions, counters, now>>
    PROVE  IInv'
<1>1. /\ SessionsOK /\ PartitionsAgree
      /\ entries \in [SessionKey -> Seq(StoredResponse)]
      /\ counters \in [SessionKey -> 0..MaxRef]
      /\ tombstones \in [SessionKey -> Seq(Tombstone)]
      /\ now \in 0..MaxTime
      /\ \A k \in SessionKey : PartOK(k)
  BY IInvByPartition
<1>2. \A k \in SessionKey : PartOK(k)'
  BY <1>1 DEF PartOK
<1>3. SessionsOK'
  BY <1>1 DEF SessionsOK, Injective
<1>4. PartitionsAgree'
  BY <1>1 DEF PartitionsAgree
<1>5. /\ entries' \in [SessionKey -> Seq(StoredResponse)]
      /\ tombstones' \in [SessionKey -> Seq(Tombstone)]
      /\ counters' \in [SessionKey -> 0..MaxRef] /\ now' \in 0..MaxTime
  BY <1>1 DEF PartitionOK
<1> QED BY <1>2, <1>3, <1>4, <1>5, IInvByPartitionNext

LEMMA GetIInv ==
    ASSUME IInv, NEW sk \in SessionKey, NEW r \in Ref, Get(sk, r)
    PROVE  IInv'
<1>1. /\ PartOK(sk) /\ entries[sk] \in Seq(StoredResponse)
      /\ entries \in [SessionKey -> Seq(StoredResponse)]
      /\ tombstones \in [SessionKey -> Seq(Tombstone)]
  BY IInvByPartition
<1>2. DOMAIN entries[sk] = 1..Len(entries[sk])
  BY <1>1, LenProperties
<1>3. CASE UNCHANGED storeVars
  BY <1>3 DEF storeVars, IInv, TypeOK, PartitionsAgree, Bounded, RefsDistinct,
              MissExplained
<1>4. ASSUME NEW i \in 1..Len(entries[sk]) PROVE entries[sk] # <<>>
  BY <1>4, EmptySeq
<1>5. ASSUME NEW i \in 1..Len(entries[sk]), GetHit(sk, i) PROVE IInv'
  <2>1. PartitionOK(Append(RemoveAt(entries[sk], i), entries[sk][i]),
                    tombstones[sk], counters[sk])
    BY <1>1, TouchEntry DEF PartOK
  <2>2. /\ entries' = [entries EXCEPT ![sk] =
                         Append(RemoveAt(entries[sk], i), entries[sk][i])]
        /\ tombstones' = [tombstones EXCEPT ![sk] = tombstones[sk]]
        /\ UNCHANGED <<sessions, counters, now>>
    BY <1>1, <1>5 DEF GetHit
  <2> QED BY <2>1, <2>2, <1>4, PartitionStepIInv
<1>6. ASSUME NEW i \in 1..Len(entries[sk]), GetExpired(sk, i) PROVE IInv'
  <2>1. PartitionOK(RemoveAt(entries[sk], i),
                    WithTombstone(tombstones[sk], entries[sk][i], "ttl"), counters[sk])
    BY <1>1, EvictEntry DEF PartOK, Reason
  <2>2. /\ entries' = [entries EXCEPT ![sk] = RemoveAt(entries[sk], i)]
        /\ tombstones' = [tombstones EXCEPT ![sk] =
                            WithTombstone(tombstones[sk], entries[sk][i], "ttl")]
        /\ UNCHANGED <<sessions, counters, now>>
    BY <1>1, <1>6 DEF GetExpired
  <2> QED BY <2>1, <2>2, <1>4, PartitionStepIInv
<1> QED BY <1>2, <1>3, <1>5, <1>6 DEF Get

LEMMA ClearIInv ==
    ASSUME IInv, NEW K \in SUBSET SessionKey, ClearPartitions(K)
    PROVE  IInv'
<1>1. /\ SessionsOK /\ PartitionsAgree
      /\ entries \in [SessionKey -> Seq(StoredResponse)]
      /\ counters \in [SessionKey -> 0..MaxRef]
      /\ tombstones \in [SessionKey -> Seq(Tombstone)]
      /\ now \in 0..MaxTime
      /\ \A k \in SessionKey : PartOK(k)
  BY IInvByPartition
<1>2. /\ sessions' \in InOrderOf(sessions, ToSet(sessions) \ K)
      /\ entries' = Popped(entries, K, <<>>)
      /\ counters' = Popped(counters, K, 0)
      /\ tombstones' = Popped(tombstones, K, <<>>)
      /\ now' = now
  BY DEF ClearPartitions
<1>3. /\ sessions' \in Seq(SessionKey) /\ Injective(sessions')
      /\ ToSet(sessions') = ToSet(sessions) \ K
      /\ Len(sessions') <= Len(sessions)
  BY <1>1, <1>2, InOrderProperties DEF SessionsOK
<1>4. Len(sessions') \in Nat /\ Len(sessions) \in Nat /\ MaxSessions \in Nat
  BY <1>1, <1>3, LenProperties, StoreAssumption DEF SessionsOK
<1>5. SessionsOK'
  BY <1>1, <1>3, <1>4 DEF SessionsOK, Injective
<1>6. \A k \in SessionKey :
         IF k \in K
         THEN entries'[k] = <<>> /\ tombstones'[k] = <<>> /\ counters'[k] = 0
         ELSE /\ entries'[k] = entries[k] /\ tombstones'[k] = tombstones[k]
              /\ counters'[k] = counters[k]
  BY <1>1, <1>2 DEF Popped
<1>7. \A k \in SessionKey : PartOK(k)'
  BY <1>1, <1>6, EmptyPartition DEF PartOK
<1>8. PartitionsAgree'
  BY <1>1, <1>3, <1>6 DEF PartitionsAgree
<1>9. /\ entries' \in [SessionKey -> Seq(StoredResponse)]
      /\ counters' \in [SessionKey -> 0..MaxRef]
      /\ tombstones' \in [SessionKey -> Seq(Tombstone)]
  BY <1>1, <1>2, EmptySeq, StoreAssumption DEF Popped
<1> QED BY <1>1, <1>2, <1>5, <1>7, <1>8, <1>9, IInvByPartitionNext

LEMMA NextIInv == IInv /\ [Next]_storeVars => IInv'
<1> SUFFICES ASSUME IInv, [Next]_storeVars PROVE IInv'
  OBVIOUS
<1>1. ASSUME NEW sk \in SessionKey, NEW resp \in Response, Store(sk, resp)
      PROVE  IInv'
  BY <1>1, StoreIInv
<1>2. ASSUME NEW sk \in SessionKey, NEW r \in Ref, Get(sk, r)
      PROVE  IInv'
  BY <1>2, GetIInv
<1>3. ASSUME NEW sk \in SessionKey, ClearSession(sk)
      PROVE  IInv'
  BY <1>3, ClearIInv DEF ClearSession
<1>4. ASSUME NEW c \in Credential, ClearCredentialSessions(c)
      PROVE  IInv'
  BY <1>4, ClearIInv DEF ClearCredentialSessions, OwnedBy
<1>5. CASE Tick
  BY <1>5, StoreAssumption DEF Tick, IInv, TypeOK, PartitionsAgree, Bounded,
     RefsDistinct, MissExplained
<1>6. CASE UNCHANGED storeVars
  BY <1>6 DEF storeVars, IInv, TypeOK, PartitionsAgree, Bounded, RefsDistinct,
              MissExplained
<1> QED BY <1>1, <1>2, <1>3, <1>4, <1>5, <1>6 DEF Next

\* The variables of the store keep their types.
THEOREM StoreTypeOK == Spec => []TypeOK
BY InitIInv, NextIInv, PTL DEF Spec, IInv

\* A partition, its counter and its tombstones come and go together.
THEOREM StorePartitionsAgree == Spec => []PartitionsAgree
BY InitIInv, NextIInv, PTL DEF Spec, IInv

\* The caps on partitions, entries and tombstones always hold.
THEOREM StoreBounded == Spec => []Bounded
BY InitIInv, NextIInv, PTL DEF Spec, IInv

\* Inside a partition a reference designates one response, live or gone.
THEOREM StoreRefsDistinct == Spec => []RefsDistinct
BY InitIInv, NextIInv, PTL DEF Spec, IInv

\* A miss on an issued reference has its tombstone unless the cap took it.
THEOREM StoreMissExplained == Spec => []MissExplained
BY InitIInv, NextIInv, PTL DEF Spec, IInv
-----------------------------------------------------------------------------
(* The response store implements ResponseShelf: whatever its dictionaries   *)
(* and their orders go through, seen as sets of responses every step is one *)
(* the shelf allows.  The refinement rests on the inductive invariant: the  *)
(* sizes of the sets are the lengths of the sequences only while no entry   *)
(* and no partition is listed twice.                                        *)

(* Sequences as sets.                                                      *)

\* Removing one item of a list without repetitions removes it from the set.
LEMMA RemovalLeavesSet ==
    ASSUME NEW S, NEW s \in Seq(S), Injective(s), NEW i \in 1..Len(s)
    PROVE  ToSet(RemoveAt(s, i)) = ToSet(s) \ {s[i]}
<1> DEFINE k == RemoveAt(s, i)
<1>1. Len(s) \in Nat /\ DOMAIN s = 1..Len(s) /\ i \in Nat
  BY LenProperties
<1>2. /\ k \in Seq(S) /\ Len(k) = Len(s) - 1
      /\ \A j \in 1..Len(s) - 1 : k[j] = IF j < i THEN s[j] ELSE s[j + 1]
  BY RemoveAtProperties
<1> HIDE DEF k
<1>3. DOMAIN k = 1..Len(s) - 1
  BY <1>2, LenProperties
<1>4. \A x, y \in 1..Len(s) : s[x] = s[y] => x = y
  BY <1>1 DEF Injective
<1>5. ASSUME NEW x \in ToSet(k) PROVE x \in ToSet(s) \ {s[i]}
  <2>1. PICK j \in 1..Len(s) - 1 : x = k[j]
    BY <1>3 DEF ToSet
  <2>2. PICK l \in 1..Len(s) : l # i /\ x = s[l]
    BY <2>1, <1>1, <1>2
  <2> QED BY <2>2, <1>1, <1>4 DEF ToSet
<1>6. ASSUME NEW x \in ToSet(s) \ {s[i]} PROVE x \in ToSet(k)
  <2>1. PICK l \in 1..Len(s) : l # i /\ x = s[l]
    BY <1>1 DEF ToSet
  <2>2. CASE l < i
    <3>1. l \in 1..Len(s) - 1 /\ k[l] = s[l]
      BY <2>1, <2>2, <1>1, <1>2
    <3> QED BY <3>1, <2>1, <1>3 DEF ToSet
  <2>3. CASE ~(l < i)
    <3>1. l - 1 \in 1..Len(s) - 1 /\ k[l - 1] = s[l]
      BY <2>1, <2>3, <1>1, <1>2
    <3> QED BY <3>1, <2>1, <1>3 DEF ToSet
  <2> QED BY <2>2, <2>3
<1> QED BY <1>5, <1>6 DEF k

LEMMA AppendAddsToSet ==
    ASSUME NEW S, NEW s \in Seq(S), NEW x \in S
    PROVE  ToSet(Append(s, x)) = ToSet(s) \cup {x}
<1> DEFINE f == Append(s, x)
<1>1. Len(s) \in Nat /\ DOMAIN s = 1..Len(s)
  BY LenProperties
<1>2. /\ f \in Seq(S) /\ Len(f) = Len(s) + 1
      /\ \A j \in 1..Len(s) : f[j] = s[j]
      /\ f[Len(s) + 1] = x
  BY AppendProperties
<1> HIDE DEF f
<1>3. DOMAIN f = 1..Len(s) + 1
  BY <1>2, LenProperties
<1>4. ToSet(f) = ToSet(s) \cup {x}
  BY <1>1, <1>2, <1>3 DEF ToSet
<1> QED BY <1>4 DEF f

\* A list without repetitions is as long as its set is large.
LEMMA LengthIsCardinality ==
    ASSUME NEW S, NEW s \in Seq(S), Injective(s)
    PROVE  Cardinality(ToSet(s)) = Len(s)
<1>1. Len(s) \in Nat /\ DOMAIN s = 1..Len(s) /\ s \in [1..Len(s) -> S]
  BY LenProperties
<1>2. s \in Bijection(1..Len(s), ToSet(s))
  BY <1>1 DEF Bijection, Injection, IsInjective, Surjection, Injective, ToSet
<1> QED BY <1>1, <1>2, FS_CountingElements DEF ExistsBijection

\* The shelf counts as the store does.
LEMMA ShelfCounts == \A S : Shelf!Cardinality(S) = Cardinality(S)
BY DEF Shelf!Cardinality, Cardinality

\* Entries with distinct references are distinct.
LEMMA DistinctIsInjective == \A e : Distinct(e) => Injective(e)
BY DEF Distinct, Injective

-----------------------------------------------------------------------------
(* Every step of the store is a step of the shelf, or none.                *)

\* The shelf of a session, in the state and in the next.
OnShelf == [sk \in SessionKey |-> ToSet(entries[sk])]

\* What the store displaces for a new partition the shelf allows to go.
LEMMA DisplacedMakesRoom ==
    ASSUME IInv, NEW sk \in SessionKey
    PROVE  Displaced(sk) \in Shelf!MakesRoom(sk)
<1> DEFINE s == sessions
           m == MaxSessions - 1
           k == KeepLast(s, m)
<1>1. /\ s \in Seq(SessionKey) /\ Injective(s) /\ Len(s) <= MaxSessions
      /\ PartitionsAgree
  BY IInvByPartition DEF SessionsOK
<1>2. /\ Len(s) \in Nat /\ DOMAIN s = 1..Len(s)
      /\ MaxSessions \in Nat \ {0} /\ m \in Nat
      /\ \A i \in 1..Len(s) : s[i] \in SessionKey
  BY <1>1, LenProperties, ElementOfSeq, StoreAssumption
<1>3. Shelf!InUse = ToSet(s)
  BY <1>1, <1>2 DEF Shelf!InUse, PartitionsAgree, ToSet
<1>4. Cardinality(ToSet(s)) = Len(s)
  BY <1>1, LengthIsCardinality
<1>5. CASE sk \in ToSet(s)
  BY <1>5, <1>3 DEF Shelf!MakesRoom, Displaced
<1>6. CASE sk \notin ToSet(s)
  <2>0. Len(s) \in Nat /\ Len(s) <= MaxSessions /\ MaxSessions \in Nat \ {0}
    BY <1>1, <1>2
  <2>1. Displaced(sk) = ToSet(s) \ ToSet(k)
    BY <1>6 DEF Displaced
  <2>2. /\ k \in Seq(SessionKey)
        /\ Len(k) = IF Len(s) > m THEN m ELSE Len(s)
        /\ Len(s) <= m => k = s
        /\ Len(s) > m => \A j \in 1..m : k[j] = s[Len(s) - m + j]
    BY <1>1, <1>2, KeepLastProperties
  <2> HIDE DEF k
  <2>3. CASE Len(s) <= m
    <3>1. Displaced(sk) = {}
      BY <2>1, <2>2, <2>3
    <3>2. Len(s) # MaxSessions
      BY <2>0, <2>3
    <3> QED BY <3>1, <3>2, <1>3, <1>4, ShelfCounts DEF Shelf!MakesRoom
  <2>4. CASE Len(s) > m
    <3>1. Len(s) = MaxSessions /\ Len(s) - m = 1 /\ 1 \in 1..Len(s)
      BY <2>4, <2>0
    <3>2. DOMAIN k = 1..m /\ \A j \in 1..m : k[j] = s[j + 1]
      BY <2>2, <2>4, <3>1, <1>2, LenProperties
    <3> HIDE DEF m
    <3>3. \A x, y \in 1..Len(s) : s[x] = s[y] => x = y
      BY <1>1, <1>2 DEF Injective
    <3>4. s[1] \in ToSet(s)
      BY <3>1, <1>2 DEF ToSet
    <3>5. s[1] \notin ToSet(k)
      <4>1. SUFFICES ASSUME NEW j \in 1..m, k[j] = s[1] PROVE FALSE
        BY <3>2 DEF ToSet
      <4>2. j + 1 \in 1..Len(s) /\ j + 1 # 1
        BY <3>1, <1>2 DEF m
      <4> QED BY <4>1, <4>2, <3>1, <3>2, <3>3
    <3>6. ASSUME NEW x \in ToSet(s), x # s[1] PROVE x \in ToSet(k)
      <4>1. PICK l \in 1..Len(s) : x = s[l]
        BY <1>2 DEF ToSet
      <4>2. l # 1 /\ l \in Nat
        BY <4>1, <3>6
      <4>3. l - 1 \in 1..m /\ l - 1 + 1 = l
        BY <4>1, <4>2, <3>1, <1>2 DEF m
      <4> QED BY <4>1, <4>3, <3>2 DEF ToSet
    <3>7. Displaced(sk) = {s[1]}
      BY <2>1, <3>4, <3>5, <3>6
    <3> QED BY <3>1, <3>4, <3>7, <1>3, <1>4, <1>6, ShelfCounts DEF Shelf!MakesRoom
  <2> QED BY <2>3, <2>4, <1>2
<1> QED BY <1>5, <1>6

\* A response that is stored is put away, whatever makes room for it.
LEMMA StorePutsAway ==
    ASSUME IInv, NEW sk \in SessionKey, NEW resp \in Response, Store(sk, resp)
    PROVE  Shelf!PutAway(sk, resp)
<1> DEFINE e == entries[sk]
           gone == Displaced(sk)
           full == Len(e) >= MaxEntries
           room == IF full THEN Tail(e) ELSE e
           old == IF full THEN {e[1]} ELSE {}
           x == [ref |-> NextRef(sk), timestamp |-> now, response |-> resp]
<1>1. /\ SessionsOK /\ PartitionsAgree
      /\ entries \in [SessionKey -> Seq(StoredResponse)]
      /\ counters \in [SessionKey -> 0..MaxRef]
      /\ now \in 0..MaxTime
      /\ PartOK(sk)
  BY IInvByPartition
<1>2. /\ NextRef(sk) \in Ref
      /\ counters' = [Popped(counters, gone, 0) EXCEPT ![sk] = NextRef(sk)]
      /\ entries' = [Popped(entries, gone, <<>>) EXCEPT ![sk] = Append(room, x)]
      /\ now' = now
  BY DEF Store
<1>3. NextRef(sk) = counters[sk] + 1
  BY <1>1 DEF PartitionsAgree, NextRef
<1>4. /\ e \in Seq(StoredResponse) /\ Distinct(e) /\ Len(e) <= MaxEntries
      /\ Len(e) \in Nat /\ DOMAIN e = 1..Len(e) /\ MaxEntries \in Nat \ {0}
  BY <1>1, LenProperties, StoreAssumption DEF PartOK, PartitionOK
<1>5. Injective(e) /\ Cardinality(ToSet(e)) = Len(e)
  BY <1>4, DistinctIsInjective, LengthIsCardinality
<1> HIDE DEF e
<1>6. /\ room \in Seq(StoredResponse) /\ ToSet(room) = ToSet(e) \ old
      /\ old \in IF Cardinality(ToSet(e)) = MaxEntries THEN {{d} : d \in ToSet(e)} ELSE {{}}
  <2>1. CASE full
    <3>1. 1 \in 1..Len(e) /\ e # <<>> /\ Len(e) = MaxEntries
      <4>1. Len(e) \in Nat /\ MaxEntries \in Nat \ {0} /\ Len(e) <= MaxEntries
            /\ Len(e) >= MaxEntries
        BY <1>4, <2>1 DEF full
      <4>2. Len(e) = MaxEntries /\ Len(e) # 0 /\ 1 \in 1..Len(e)
        BY <4>1
      <4> QED BY <4>2, EmptySeq
    <3>2. /\ Tail(e) \in Seq(StoredResponse) /\ Len(Tail(e)) = Len(e) - 1
          /\ \A j \in 1..Len(e) - 1 : Tail(e)[j] = e[j + 1]
      BY <3>1, <1>4, TailIsRemoval
    <3>3. /\ RemoveAt(e, 1) \in Seq(StoredResponse)
          /\ Len(RemoveAt(e, 1)) = Len(e) - 1
          /\ \A j \in 1..Len(e) - 1 :
                RemoveAt(e, 1)[j] = IF j < 1 THEN e[j] ELSE e[j + 1]
      BY <3>1, <1>4, RemoveAtProperties
    <3>4. Tail(e) = RemoveAt(e, 1)
      <4>1. \A j \in 1..Len(e) - 1 : RemoveAt(e, 1)[j] = Tail(e)[j]
        BY <3>2, <3>3
      <4> QED BY <3>2, <3>3, <4>1, SeqEqual
    <3>5. ToSet(Tail(e)) = ToSet(e) \ {e[1]}
      BY <3>1, <3>4, <1>4, <1>5, RemovalLeavesSet
    <3>6. e[1] \in ToSet(e)
      BY <3>1, <1>4 DEF ToSet
    <3> QED BY <2>1, <3>1, <3>2, <3>5, <3>6, <1>5
  <2>2. CASE ~full
    <3>1. Len(e) # MaxEntries
      BY <2>2, <1>4
    <3> QED BY <2>2, <3>1, <1>4, <1>5
  <2> QED BY <2>1, <2>2
<1> HIDE DEF room, old, full
<1>7. x \in StoredResponse
  BY <1>1, <1>2 DEF StoredResponse
<1>8. x = [ref |-> counters[sk] + 1, timestamp |-> now, response |-> resp]
  BY <1>3
<1> HIDE DEF x
<1>9. ToSet(Append(room, x)) = (OnShelf[sk] \ old) \cup {x}
  BY <1>6, <1>7, AppendAddsToSet DEF OnShelf, e
<1>10. gone \in Shelf!MakesRoom(sk)
  BY DisplacedMakesRoom
<1> HIDE DEF gone
<1>11. ToSet(<<>>) = {}
  BY DEF ToSet
<1>12. OnShelf' = [k \in SessionKey |-> IF k = sk THEN (OnShelf[sk] \ old) \cup {x}
                                        ELSE IF k \in gone THEN {} ELSE OnShelf[k]]
  <2>1. ASSUME NEW k \in SessionKey
        PROVE  ToSet(entries'[k]) = IF k = sk THEN (OnShelf[sk] \ old) \cup {x}
                                    ELSE IF k \in gone THEN {} ELSE OnShelf[k]
    <3>1. /\ k = sk => entries'[k] = Append(room, x)
          /\ k # sk /\ k \in gone => entries'[k] = <<>>
          /\ k # sk /\ k \notin gone => entries'[k] = entries[k]
      BY <1>1, <1>2 DEF Popped
    <3>2. OnShelf[k] = ToSet(entries[k])
      BY DEF OnShelf
    <3> QED BY <3>1, <3>2, <1>9, <1>11
  <2> QED BY <2>1 DEF OnShelf
<1>13. counters' = [k \in SessionKey |-> IF k = sk THEN counters[sk] + 1
                                         ELSE IF k \in gone THEN 0 ELSE counters[k]]
  BY <1>1, <1>2, <1>3 DEF Popped
<1>14. old \in Shelf!LeavesFor(sk)
  BY <1>6, ShelfCounts DEF Shelf!LeavesFor, e
<1> QED BY <1>2, <1>8, <1>10, <1>12, <1>13, <1>14 DEF Shelf!PutAway, OnShelf

\* A response that is read stays on the shelf; one past its age leaves it.
LEMMA GetReadsOrOutlives ==
    ASSUME IInv, NEW sk \in SessionKey, NEW r \in Ref, Get(sk, r)
    PROVE  Shelf!Outlived(sk) \/ UNCHANGED <<OnShelf, counters, now>>
<1> DEFINE e == entries[sk]
<1>1. /\ PartOK(sk)
      /\ entries \in [SessionKey -> Seq(StoredResponse)]
  BY IInvByPartition
<1>2. /\ e \in Seq(StoredResponse) /\ Distinct(e) /\ Injective(e)
      /\ DOMAIN e = 1..Len(e) /\ \A i \in 1..Len(e) : e[i] \in StoredResponse
  BY <1>1, LenProperties, ElementOfSeq, DistinctIsInjective DEF PartOK, PartitionOK
<1>3. CASE UNCHANGED storeVars
  BY <1>3 DEF storeVars, OnShelf
<1>4. ASSUME NEW i \in 1..Len(e)
      PROVE  /\ RemoveAt(e, i) \in Seq(StoredResponse)
             /\ ToSet(RemoveAt(e, i)) = ToSet(e) \ {e[i]}
             /\ e[i] \in ToSet(e)
  BY <1>2, RemoveAtProperties, RemovalLeavesSet DEF ToSet
<1>5. ASSUME NEW i \in 1..Len(e), GetHit(sk, i) PROVE UNCHANGED <<OnShelf, counters, now>>
  <2> DEFINE f == Append(RemoveAt(e, i), e[i])
  <2>1. entries' = [entries EXCEPT ![sk] = f] /\ UNCHANGED <<counters, now>>
    BY <1>5 DEF GetHit
  <2>2. ToSet(f) = ToSet(e)
    <3> DEFINE d == RemoveAt(e, i)
    <3>1. d \in Seq(StoredResponse) /\ ToSet(d) = ToSet(e) \ {e[i]} /\ e[i] \in ToSet(e)
      BY <1>4
    <3> HIDE DEF d
    <3>2. ToSet(Append(d, e[i])) = ToSet(d) \cup {e[i]}
      BY <3>1, <1>2, AppendAddsToSet
    <3>3. ToSet(Append(d, e[i])) = ToSet(e)
      BY <3>1, <3>2
    <3> QED BY <3>3 DEF d
  <2> HIDE DEF f
  <2>3. \A k \in SessionKey : ToSet(entries'[k]) = ToSet(entries[k])
    BY <1>1, <2>1, <2>2
  <2> QED BY <2>1, <2>3 DEF OnShelf
<1>6. ASSUME NEW i \in 1..Len(e), GetExpired(sk, i) PROVE Shelf!Outlived(sk)
  <2>1. /\ now - e[i].timestamp > TTL
        /\ entries' = [entries EXCEPT ![sk] = RemoveAt(e, i)]
        /\ UNCHANGED <<counters, now>>
    BY <1>6 DEF GetExpired, Expired
  <2>2. e[i] \in OnShelf[sk]
    BY <1>4 DEF OnShelf
  <2>3. OnShelf' = [OnShelf EXCEPT ![sk] = @ \ {e[i]}]
    BY <1>1, <1>4, <2>1 DEF OnShelf
  <2> QED BY <2>1, <2>2, <2>3 DEF Shelf!Outlived, OnShelf
<1> QED BY <1>2, <1>3, <1>5, <1>6 DEF Get

\* The partitions that are dropped are the shelves that are taken down.
LEMMA ClearTakesDown ==
    ASSUME IInv, NEW K \in SUBSET SessionKey, ClearPartitions(K)
    PROVE  Shelf!TakenDown(K)
<1>1. /\ entries \in [SessionKey -> Seq(StoredResponse)]
      /\ counters \in [SessionKey -> 0..MaxRef]
  BY IInvByPartition
<1>2. /\ entries' = Popped(entries, K, <<>>)
      /\ counters' = Popped(counters, K, 0)
      /\ now' = now
  BY DEF ClearPartitions
<1>3. ToSet(<<>>) = {}
  BY DEF ToSet
<1>4. OnShelf' = [sk \in SessionKey |-> IF sk \in K THEN {} ELSE OnShelf[sk]]
  BY <1>1, <1>2, <1>3 DEF Popped, OnShelf
<1>5. counters' = [sk \in SessionKey |-> IF sk \in K THEN 0 ELSE counters[sk]]
  BY <1>1, <1>2 DEF Popped
<1> QED BY <1>2, <1>4, <1>5 DEF Shelf!TakenDown, OnShelf

LEMMA InitOnShelf == Init => Shelf!ShelfInit
<1> SUFFICES ASSUME Init PROVE Shelf!ShelfInit
  OBVIOUS
<1>1. ToSet(<<>>) = {}
  BY DEF ToSet
<1>2. \A sk \in SessionKey : ToSet(entries[sk]) = {}
  BY <1>1 DEF Init
<1> QED BY <1>2 DEF Init, Shelf!ShelfInit

LEMMA NextOnShelf == IInv /\ [Next]_storeVars => [Shelf!ShelfNext]_Shelf!shelfVars
<1> SUFFICES ASSUME IInv, [Next]_storeVars
             PROVE  Shelf!ShelfNext \/ UNCHANGED <<OnShelf, counters, now>>
  BY DEF Shelf!shelfVars, OnShelf
<1>1. ASSUME NEW sk \in SessionKey, NEW resp \in Response, Store(sk, resp)
      PROVE  Shelf!ShelfNext
  BY <1>1, StorePutsAway DEF Shelf!ShelfNext
<1>2. ASSUME NEW sk \in SessionKey, NEW r \in Ref, Get(sk, r)
      PROVE  Shelf!ShelfNext \/ UNCHANGED <<OnShelf, counters, now>>
  BY <1>2, GetReadsOrOutlives DEF Shelf!ShelfNext
<1>3. ASSUME NEW sk \in SessionKey, ClearSession(sk)
      PROVE  Shelf!ShelfNext
  <2>1. Shelf!TakenDown({sk})
    BY <1>3, ClearTakesDown DEF ClearSession
  <2> QED BY <2>1 DEF Shelf!ShelfNext
<1>4. ASSUME NEW c \in Credential, ClearCredentialSessions(c)
      PROVE  Shelf!ShelfNext
  <2>1. Shelf!TakenDown({sk \in SessionKey : Owner[sk] = c})
    BY <1>4, ClearTakesDown DEF ClearCredentialSessions, OwnedBy
  <2> QED BY <2>1 DEF Shelf!ShelfNext
<1>5. CASE Tick
  <2>1. Shelf!TimePasses
    BY <1>5 DEF Tick, Shelf!TimePasses
  <2> QED BY <2>1 DEF Shelf!ShelfNext
<1>6. CASE UNCHANGED storeVars
  BY <1>6 DEF storeVars, OnShelf
<1> QED BY <1>1, <1>2, <1>3, <1>4, <1>5, <1>6 DEF Next

\* The store with its dictionaries, orders, caps and tombstones (class
\* ResponseStore) does nothing to the responses of its sessions that the
\* shelf does not allow.
THEOREM StoreKeepsShelf == Spec => KeepsShelf
<1>1. Init => IInv /\ Shelf!ShelfInit
  BY InitIInv, InitOnShelf
<1>2. IInv /\ [Next]_storeVars => IInv' /\ [Shelf!ShelfNext]_Shelf!shelfVars
  BY NextIInv, NextOnShelf
<1> QED BY <1>1, <1>2, PTL DEF Spec, KeepsShelf, Shelf!ShelfSpec
=============================================================================
