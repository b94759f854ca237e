---------------------------- MODULE ListingProofs ----------------------------
(***************************************************************************)
(* The listings that filter, join or sort what they were given, for any     *)
(* number of records: following the offsets of get_alerts reaches every      *)
(* alert, a rule listing counts what it should, and the risk timeline is    *)
(* the newest of what was asked for.  What these put in order is a finite    *)
(* set ranked by how many of its elements come before each (Ranking), so    *)
(* that their properties follow by counting.                               *)
(***************************************************************************)
EXTENDS AlertListing, RuleListing, RiskTimeline, FiniteSetTheorems, SequenceTheorems, TLAPS

-----------------------------------------------------------------------------
(* Ranking.                                                                *)

\* What makes the sets of those before each element of S an order of S.
Ordering(S, before) ==
    /\ IsFiniteSet(S) /\ before \in [S -> SUBSET S]
    /\ \A e \in S : e \notin before[e]
    /\ \A e \in S : \A d \in before[e] : before[d] \subseteq before[e]
    /\ \A d, e \in S : d = e \/ d \in before[e] \/ e \in before[d]

\* An element has fewer elements before it than one it is before.
LEMMA FewerBefore ==
    ASSUME NEW S, NEW before, Ordering(S, before), NEW e \in S, NEW d \in before[e]
    PROVE  /\ Cardinality(before[d]) \in Nat /\ Cardinality(before[e]) \in Nat
           /\ Cardinality(before[d]) < Cardinality(before[e])
<1>1. d \in S /\ before[e] \in SUBSET S /\ IsFiniteSet(S)
  BY DEF Ordering
<1>2. before[d] \subseteq before[e] /\ d \notin before[d]
  BY <1>1 DEF Ordering
<1>3. IsFiniteSet(before[e])
  BY <1>1, FS_Subset
<1>4. /\ IsFiniteSet(before[d]) /\ Cardinality(before[d]) <= Cardinality(before[e])
      /\ Cardinality(before[e]) = Cardinality(before[d]) => before[e] = before[d]
  BY <1>2, <1>3, FS_Subset
<1>5. Cardinality(before[d]) # Cardinality(before[e])
  BY <1>2, <1>4
<1>6. Cardinality(before[d]) \in Nat /\ Cardinality(before[e]) \in Nat
  BY <1>3, <1>4, FS_CardinalityType
<1> QED BY <1>4, <1>5, <1>6

\* Every place from the first to the last is that of one element.
LEMMA PlacesAreTaken ==
    ASSUME NEW S, NEW before, Ordering(S, before)
    PROVE  /\ Cardinality(S) \in Nat
           /\ \A e \in S : Cardinality(before[e]) \in 0..Cardinality(S) - 1
           /\ \A d, e \in S : Cardinality(before[d]) = Cardinality(before[e]) => d = e
           /\ \A k \in 0..Cardinality(S) - 1 : \E e \in S : Cardinality(before[e]) = k
<1> DEFINE n == Cardinality(S)
           places == 0..n - 1
           place == [e \in S |-> Cardinality(before[e])]
<1>1. IsFiniteSet(S) /\ n \in Nat
  BY FS_CardinalityType DEF Ordering
<1>2. ASSUME NEW e \in S PROVE Cardinality(before[e]) \in places
  <2>1. before[e] \in SUBSET S /\ e \notin before[e]
    BY DEF Ordering
  <2>2. /\ IsFiniteSet(before[e]) /\ Cardinality(before[e]) <= n
        /\ n = Cardinality(before[e]) => S = before[e]
    BY <1>1, <2>1, FS_Subset
  <2>3. Cardinality(before[e]) \in Nat /\ Cardinality(before[e]) # n
    BY <2>1, <2>2, FS_CardinalityType
  <2> QED BY <1>1, <2>2, <2>3
<1>3. ASSUME NEW d \in S, NEW e \in S, Cardinality(before[d]) = Cardinality(before[e])
      PROVE  d = e
  <2>1. CASE d \in before[e]
    BY <1>3, <2>1, FewerBefore
  <2>2. CASE e \in before[d]
    BY <1>3, <2>2, FewerBefore
  <2> QED BY <2>1, <2>2 DEF Ordering
<1>4. IsFiniteSet(places) /\ Cardinality(places) = n
  <2>1. 0 \in Int /\ n - 1 \in Int
    BY <1>1
  <2>2. Cardinality(places) = IF 0 > n - 1 THEN 0 ELSE n - 1 - 0 + 1
    BY <2>1, FS_Interval
  <2> QED BY <1>1, <2>1, <2>2, FS_Interval
<1>5. place \in Injection(S, places)
  BY <1>2, <1>3 DEF Injection, IsInjective
<1>6. place \in Surjection(S, places)
  BY <1>4, <1>5, FS_Injection
<1>7. \A k \in places : \E e \in S : place[e] = k
  BY <1>6 DEF Surjection
<1> QED BY <1>1, <1>2, <1>3, <1>7

\* Ranked lists every element once, each below those before it.
LEMMA RankedProperties ==
    ASSUME NEW S, NEW before, Ordering(S, before)
    PROVE  LET r == Ranked(S, before)
           IN  /\ Cardinality(S) \in Nat /\ r \in Seq(S) /\ Len(r) = Cardinality(S)
               /\ \A k \in 1..Len(r) : r[k] \in S /\ Cardinality(before[r[k]]) = k - 1
               /\ Range(r) = S
               /\ \A j, k \in 1..Len(r) : r[j] = r[k] => j = k
               /\ \A j, k \in 1..Len(r) : j < k => r[j] \in before[r[k]]
<1> DEFINE r == Ranked(S, before)
           n == Cardinality(S)
<1>1. /\ n \in Nat
      /\ \A e \in S : Cardinality(before[e]) \in 0..n - 1
      /\ \A d, e \in S : Cardinality(before[d]) = Cardinality(before[e]) => d = e
      /\ \A k \in 0..n - 1 : \E e \in S : Cardinality(before[e]) = k
  BY PlacesAreTaken
<1>2. ASSUME NEW k \in 1..n PROVE r[k] \in S /\ Cardinality(before[r[k]]) = k - 1
  <2>1. k - 1 \in 0..n - 1
    BY <1>1
  <2>2. \E e \in S : Cardinality(before[e]) = k - 1
    BY <1>1, <2>1
  <2>3. r[k] = CHOOSE e \in S : Cardinality(before[e]) = k - 1
    BY DEF Ranked
  <2> QED BY <2>2, <2>3
<1>3. r = [k \in 1..n |-> r[k]]
  BY DEF Ranked
<1> HIDE DEF r, n
<1>4. r \in Seq(S) /\ Len(r) = n
  BY <1>1, <1>2, <1>3, SeqDef, LenProperties
<1>5. ASSUME NEW e \in S PROVE \E k \in 1..n : r[k] = e
  <2> DEFINE k == Cardinality(before[e]) + 1
  <2>1. k \in 1..n /\ k - 1 = Cardinality(before[e])
    BY <1>1
  <2>2. r[k] \in S /\ Cardinality(before[r[k]]) = Cardinality(before[e])
    BY <1>2, <2>1
  <2> QED BY <1>1, <2>1, <2>2
<1>6. ASSUME NEW j \in 1..n, NEW k \in 1..n, r[j] = r[k] PROVE j = k
  <2>1. j - 1 = k - 1
    BY <1>2, <1>6
  <2> QED BY <1>1, <2>1
<1>7. ASSUME NEW j \in 1..n, NEW k \in 1..n, j < k PROVE r[j] \in before[r[k]]
  <2>1. r[j] \in S /\ r[k] \in S
    BY <1>2
  <2>2. r[j] # r[k]
    BY <1>1, <1>6, <1>7
  <2>3. r[k] \notin before[r[j]]
    <3> SUFFICES ASSUME r[k] \in before[r[j]] PROVE FALSE
      OBVIOUS
    <3>1. Cardinality(before[r[k]]) < Cardinality(before[r[j]])
      BY <2>1, FewerBefore
    <3> QED BY <1>1, <1>2, <1>7, <3>1
  <2> QED BY <2>1, <2>2, <2>3 DEF Ordering
<1>8. Range(r) = S
  <2>1. DOMAIN r = 1..n
    BY <1>4, LenProperties
  <2> QED BY <1>2, <1>5, <2>1 DEF Range
<1>9. /\ \A k \in 1..Len(r) : r[k] \in S /\ Cardinality(before[r[k]]) = k - 1
      /\ \A j, k \in 1..Len(r) : r[j] = r[k] => j = k
      /\ \A j, k \in 1..Len(r) : j < k => r[j] \in before[r[k]]
  BY <1>2, <1>4, <1>6, <1>7
<1>10. n \in Nat /\ r \in Seq(S) /\ Len(r) = n /\ Range(r) = S
  BY <1>1, <1>4, <1>8
<1> QED BY <1>9, <1>10 DEF n, r

\* Among keeps the elements of s that are in S, in their order, one for one.
LEMMA AmongProperties ==
    ASSUME NEW T, NEW s \in Seq(T), NEW S
    PROVE  LET a == Among(s, S)
           IN  /\ a \in Seq(T) /\ Range(a) = Range(s) \cap S
               /\ IsInjective(s) => IsInjective(a)
<1> DEFINE at == {i \in DOMAIN s : s[i] \in S}
           before == [i \in at |-> {j \in at : j < i}]
           p == Ranked(at, before)
           a == [k \in DOMAIN p |-> s[p[k]]]
<1>1. Len(s) \in Nat /\ DOMAIN s = 1..Len(s) /\ \A i \in 1..Len(s) : s[i] \in T
  BY LenProperties, ElementOfSeq
<1>2. at \in SUBSET (1..Len(s)) /\ \A i \in at : i \in Nat
  BY <1>1
<1>3. IsFiniteSet(at)
  <2>1. IsFiniteSet(1..Len(s))
    BY <1>1, FS_Interval
  <2> QED BY <1>2, <2>1, FS_Subset
<1>4. Ordering(at, before)
  <2>1. before \in [at -> SUBSET at]
    OBVIOUS
  <2>2. \A e \in at : e \notin before[e]
    BY <1>2
  <2>3. \A e \in at : \A d \in before[e] : before[d] \subseteq before[e]
    BY <1>2
  <2>4. \A d, e \in at : d = e \/ d \in before[e] \/ e \in before[d]
    BY <1>2
  <2> HIDE DEF at, before
  <2> QED BY <1>3, <2>1, <2>2, <2>3, <2>4 DEF Ordering
<1>5. \A i : i \in at <=> i \in 1..Len(s) /\ s[i] \in S
  BY <1>1
<1> HIDE DEF before, at
<1>6. /\ p \in Seq(at) /\ \A k \in 1..Len(p) : p[k] \in at
      /\ Range(p) = at
      /\ \A j, k \in 1..Len(p) : p[j] = p[k] => j = k
  <2> HIDE DEF p
  <2>1. p = Ranked(at, before)
    BY DEF p
  <2> QED BY <1>4, <2>1, RankedProperties
<1> HIDE DEF p
<1>7. DOMAIN p = 1..Len(p) /\ Len(p) \in Nat
  BY <1>6, LenProperties
<1>8. DOMAIN a = 1..Len(p) /\ \A k \in 1..Len(p) : a[k] = s[p[k]]
  BY <1>7
<1>9. a \in Seq(T)
  BY <1>1, <1>5, <1>6, <1>7, SeqDef
<1> HIDE DEF a
<1>10. Range(a) = Range(s) \cap S
  <2>1. ASSUME NEW x \in Range(a) PROVE x \in Range(s) \cap S
    <3>1. PICK k \in 1..Len(p) : a[k] = x
      BY <1>8 DEF Range
    <3>2. p[k] \in 1..Len(s) /\ s[p[k]] \in S /\ x = s[p[k]]
      BY <1>5, <1>6, <1>8, <3>1
    <3> QED BY <1>1, <3>2 DEF Range
  <2>2. ASSUME NEW x \in Range(s) \cap S PROVE x \in Range(a)
    <3>1. PICK i \in 1..Len(s) : s[i] = x
      BY <1>1 DEF Range
    <3>2. PICK k \in 1..Len(p) : p[k] = i
      BY <1>5, <1>6, <1>7, <3>1 DEF Range
    <3> QED BY <1>8, <3>1, <3>2 DEF Range
  <2> QED BY <2>1, <2>2
<1>11. ASSUME IsInjective(s) PROVE IsInjective(a)
  <2>1. ASSUME NEW j \in 1..Len(p), NEW k \in 1..Len(p), a[j] = a[k] PROVE j = k
    <3>1. p[j] \in 1..Len(s) /\ p[k] \in 1..Len(s) /\ s[p[j]] = s[p[k]]
      BY <1>5, <1>6, <1>8, <2>1
    <3>2. p[j] = p[k]
      BY <1>1, <1>11, <3>1 DEF IsInjective
    <3> QED BY <1>6, <3>2
  <2> QED BY <1>8, <2>1 DEF IsInjective
<1>12. Among(s, S) = a
  BY DEF Among, a, p, before, at
<1> QED BY <1>9, <1>10, <1>11, <1>12

\* The orders in which a finite set can be given are of all of it, once each.
LEMMA OrdersProperties ==
    ASSUME NEW S, IsFiniteSet(S), NEW s \in SetToSeqs(S)
    PROVE  /\ s \in Seq(S) /\ Len(s) = Cardinality(S) /\ Len(s) \in Nat
           /\ DOMAIN s = 1..Len(s) /\ Range(s) = S /\ IsInjective(s)
<1> DEFINE n == Cardinality(S)
<1>1. n \in Nat
  BY FS_CardinalityType
<1>2. s \in [1..n -> S] /\ \A i, j \in 1..n : i # j => s[i] # s[j]
  BY DEF SetToSeqs
<1> HIDE DEF n
<1>3. s \in Seq(S) /\ Len(s) = n /\ DOMAIN s = 1..n
  BY <1>1, <1>2, SeqDef, LenProperties
<1>4. s \in Injection(1..n, S)
  BY <1>2 DEF Injection, IsInjective
<1>5. Cardinality(1..n) = Cardinality(S)
  BY <1>1, FS_Interval DEF n
<1>6. s \in Surjection(1..n, S)
  BY <1>4, <1>5, FS_Injection
<1>7. Range(s) = S
  BY <1>2, <1>3, <1>6 DEF Surjection, Range
<1>8. IsInjective(s)
  BY <1>2, <1>3 DEF IsInjective
<1> QED BY <1>1, <1>3, <1>7, <1>8 DEF n

\* c is the first max elements of s, or all but the last -max; so it has
\* IsCutLength elements.
IsCutLength(shown, all, max) ==
    /\ max >= 0 => shown = IF all < max THEN all ELSE max
    /\ max < 0 => shown = IF all + max < 0 THEN 0 ELSE all + max
IsCut(c, s, max) ==
    /\ Len(c) \in Nat /\ Len(s) \in Nat /\ IsCutLength(Len(c), Len(s), max)
    /\ \A i \in 1..Len(c) : i \in 1..Len(s) /\ c[i] = s[i]

LEMMA CutProperties ==
    ASSUME NEW S, NEW s \in Seq(S), NEW max \in Int
    PROVE  Cut(s, max) \in Seq(S) /\ IsCut(Cut(s, max), s, max)
<1> DEFINE len == Len(s)
           left == IF max < 0 THEN len + max ELSE max
           n == IF left < len THEN left ELSE len
           c == SubSeq(s, 1, n)
<1>1. len \in Nat /\ \A i \in 1..len : s[i] \in S
  BY LenProperties, ElementOfSeq
<1> HIDE DEF len
<1>2. /\ n \in Int /\ n <= len
      /\ max >= 0 => n = IF len < max THEN len ELSE max
      /\ max < 0 => n = len + max
  BY <1>1
<1> HIDE DEF n
<1>3. \A i \in 1..n : s[i] \in S /\ i \in 1..len
  BY <1>1, <1>2
<1>4. /\ c \in Seq(S) /\ Len(c) = IF 1 <= n THEN n - 1 + 1 ELSE 0
      /\ \A i \in 1..n - 1 + 1 : c[i] = s[1 + i - 1]
  BY <1>2, <1>3, SubSeqProperties
<1> HIDE DEF c
<1>5. Len(c) = IF n < 0 THEN 0 ELSE n
  BY <1>2, <1>4
<1>6. ASSUME NEW i \in 1..Len(c) PROVE i \in 1..len /\ c[i] = s[i]
  <2>1. i \in 1..n /\ i \in 1..n - 1 + 1 /\ 1 + i - 1 = i
    BY <1>2, <1>5
  <2> QED BY <1>3, <1>4, <2>1
<1>7. /\ Len(c) \in Nat
      /\ max >= 0 => Len(c) = IF len < max THEN len ELSE max
      /\ max < 0 => Len(c) = IF len + max < 0 THEN 0 ELSE len + max
  BY <1>1, <1>2, <1>5
<1>8. c = Cut(s, max)
  BY DEF c, n, len, Cut
<1> QED BY <1>1, <1>4, <1>6, <1>7, <1>8 DEF IsCut, IsCutLength, len

LEMMA InjectiveConcat ==
    ASSUME NEW S, NEW s \in Seq(S), NEW t \in Seq(S),
           IsInjective(s), IsInjective(t), Range(s) \cap Range(t) = {}
    PROVE  IsInjective(s \o t)
<1> DEFINE both == s \o t
<1>1. /\ Len(s) \in Nat /\ Len(t) \in Nat
      /\ DOMAIN s = 1..Len(s) /\ DOMAIN t = 1..Len(t)
  BY LenProperties
<1>2. /\ both \in Seq(S) /\ Len(both) = Len(s) + Len(t)
      /\ \A i \in 1..Len(s) + Len(t) : both[i] = IF i <= Len(s) THEN s[i] ELSE t[i - Len(s)]
  BY ConcatProperties
<1> HIDE DEF both
<1>3. DOMAIN both = 1..Len(s) + Len(t)
  BY <1>2, LenProperties
<1>4. ASSUME NEW i \in 1..Len(s) + Len(t)
      PROVE  \/ i <= Len(s) /\ i \in 1..Len(s) /\ both[i] = s[i] /\ both[i] \in Range(s)
             \/ ~(i <= Len(s)) /\ i - Len(s) \in 1..Len(t) /\ both[i] = t[i - Len(s)] /\ both[i] \in Range(t)
  <2>1. CASE i <= Len(s)
    BY <1>1, <1>2, <2>1 DEF Range
  <2>2. CASE ~(i <= Len(s))
    <3>1. i - Len(s) \in 1..Len(t)
      BY <1>1, <2>2
    <3> QED BY <1>1, <1>2, <2>2, <3>1 DEF Range
  <2> QED BY <2>1, <2>2
<1>5. ASSUME NEW i \in 1..Len(s) + Len(t), NEW j \in 1..Len(s) + Len(t), both[i] = both[j]
      PROVE  i = j
  <2>1. CASE i <= Len(s) /\ j <= Len(s)
    BY <1>1, <1>4, <1>5, <2>1 DEF IsInjective
  <2>2. CASE ~(i <= Len(s)) /\ ~(j <= Len(s))
    <3>1. i - Len(s) = j - Len(s)
      BY <1>1, <1>4, <1>5, <2>2 DEF IsInjective
    <3> QED BY <1>1, <3>1
  <2>3. CASE (i <= Len(s)) # (j <= Len(s))
    <3>1. \/ both[i] \in Range(s) /\ both[j] \in Range(t)
          \/ both[i] \in Range(t) /\ both[j] \in Range(s)
      BY <1>4, <2>3
    <3> QED BY <1>5, <3>1
  <2> QED BY <2>1, <2>2, <2>3
<1>6. IsInjective(both)
  BY <1>3, <1>5 DEF IsInjective
<1> QED BY <1>6 DEF both

-----------------------------------------------------------------------------
(* The alerts.                                                             *)

LEMMA NewerIsOrdering ==
    ASSUME NEW n \in Nat, NEW S \in SUBSET (1..n)
    PROVE  IsFiniteSet(S) /\ Ordering(S, [a \in S |-> Newer(a, S)])
<1> DEFINE before == [a \in S |-> Newer(a, S)]
<1>1. IsFiniteSet(S)
  <2>1. IsFiniteSet(1..n)
    BY FS_Interval
  <2> QED BY <2>1, FS_Subset
<1>2. before \in [S -> SUBSET S] /\ \A a, b \in S : b \in before[a] <=> b > a
  BY DEF Newer
<1>3. \A a \in S : a \in Nat
  OBVIOUS
<1> HIDE DEF before
<1>4. \A e \in S : e \notin before[e]
  BY <1>2, <1>3
<1>5. \A e \in S : \A d \in before[e] : before[d] \subseteq before[e]
  <2> SUFFICES ASSUME NEW e \in S, NEW d \in before[e], NEW c \in before[d]
               PROVE  c \in before[e]
    OBVIOUS
  <2>1. d \in S /\ c \in S
    BY <1>2
  <2> QED BY <1>2, <1>3, <2>1
<1>6. \A d, e \in S : d = e \/ d \in before[e] \/ e \in before[d]
  BY <1>2, <1>3
<1>7. Ordering(S, before)
  BY <1>1, <1>2, <1>4, <1>5, <1>6 DEF Ordering
<1> QED BY <1>1, <1>7 DEF before

\* How many of S are newer tells its elements apart and leaves no gap.
LEMMA NewerPlaces ==
    ASSUME NEW S, NEW before, before = [a \in S |-> Newer(a, S)], Ordering(S, before)
    PROVE  /\ Cardinality(S) \in Nat
           /\ \A a \in S : Cardinality(Newer(a, S)) \in 0..Cardinality(S) - 1
           /\ \A a, b \in S : Cardinality(Newer(a, S)) = Cardinality(Newer(b, S)) => a = b
           /\ \A k \in 0..Cardinality(S) - 1 : \E a \in S : Cardinality(Newer(a, S)) = k
<1>1. \A a \in S : before[a] = Newer(a, S)
  OBVIOUS
<1> QED BY <1>1, PlacesAreTaken

LEMMA NewerCounts ==
    ASSUME NEW n \in Nat, NEW S \in SUBSET (1..n)
    PROVE  /\ Cardinality(S) \in Nat /\ Cardinality(S) <= n
           /\ \A a \in S : Cardinality(Newer(a, S)) \in 0..Cardinality(S) - 1
           /\ \A a, b \in S : Cardinality(Newer(a, S)) = Cardinality(Newer(b, S)) => a = b
           /\ \A k \in 0..Cardinality(S) - 1 : \E a \in S : Cardinality(Newer(a, S)) = k
<1>1. /\ Cardinality(S) \in Nat
      /\ \A a \in S : Cardinality(Newer(a, S)) \in 0..Cardinality(S) - 1
      /\ \A a, b \in S : Cardinality(Newer(a, S)) = Cardinality(Newer(b, S)) => a = b
      /\ \A k \in 0..Cardinality(S) - 1 : \E a \in S : Cardinality(Newer(a, S)) = k
  BY NewerIsOrdering, NewerPlaces, Zenon
<1>2. Cardinality(S) <= n
  <2>1. IsFiniteSet(1..n) /\ Cardinality(1..n) = n
    BY FS_Interval
  <2> QED BY <2>1, FS_Subset
<1> QED BY <1>1, <1>2

Walk == [pc : {"calls", "details", "ended", "failed"}, max : Nat \ {0}, offset : 0..MaxAlerts,
         ids : SUBSET (1..arrived), total : 0..MaxAlerts]

AlertsTyped ==
    /\ arrived \in 0..MaxAlerts /\ matched \subseteq 1..arrived /\ steady \subseteq matched
    /\ walk \in Walk /\ seen \in Seq(1..arrived)

\* How far from the top of the list an alert is, and how far the call got.
Ahead(a) == Cardinality(Newer(a, matched))
Reached == walk.offset + Cardinality(walk.ids)

\* What is not seen is still to come: the alerts that arrive push it further
\* down, and a page that lacks details goes on from fewer.
StillToCome ==
    \A a \in steady \ Range(seen) :
       /\ walk.pc = "calls" => Ahead(a) >= walk.offset
       /\ walk.pc = "details" => a \in walk.ids \/ (Ahead(a) >= Reached /\ Reached < walk.total)
       /\ walk.pc # "ended"

\* The alerts from some one up to hi.
IsRun(ids, hi) == \E lo \in 1..hi : ids = lo..hi

\* What is seen are the alerts from the newest down to the one after a, each
\* once, the newer before the older but on one page.
SeenDownTo(a) ==
    /\ Range(seen) = a + 1..arrived /\ IsInjective(seen)
    /\ \A i, j \in DOMAIN seen : i + walk.max <= j => seen[j] < seen[i]

\* While nothing happens the list is that of all alerts, seen from the newest
\* down to where the call is.
SeenFromTop ==
    /\ matched = 1..arrived /\ walk.offset <= arrived
    /\ walk.pc \in {"calls", "details"} => SeenDownTo(arrived - walk.offset)
    /\ walk.pc = "details" =>
          /\ walk.total = arrived /\ Cardinality(walk.ids) <= walk.max
          /\ IsRun(walk.ids, arrived - walk.offset)
    /\ walk.pc = "ended" => SeenDownTo(0)

\* None has left the filter, and the totals are those of the filter.
NoneLost == disturbed \cap {"departure", "unstated"} = {}

AlertsInv ==
    /\ AlertsTyped
    /\ NoneLost => StillToCome
    /\ disturbed = {} => SeenFromTop

LEMMA InitAlertsInv == WInit => AlertsInv
<1> SUFFICES ASSUME WInit PROVE AlertsInv
  OBVIOUS
<1>1. /\ arrived \in 0..MaxAlerts /\ matched = 1..arrived /\ steady = matched /\ seen = <<>>
      /\ MaxAlerts \in Nat
  BY AlertListingAssumption DEF WInit
<1>2. PICK max \in 1..MaxAlertPage : walk = [FirstCall EXCEPT !.max = max]
  BY DEF WInit
<1>3. /\ walk \in Walk /\ walk.pc = "calls" /\ walk.offset = 0
  BY <1>1, <1>2, AlertListingAssumption DEF Walk, FirstCall
<1>4. AlertsTyped
  BY <1>1, <1>3 DEF AlertsTyped
<1>5. StillToCome
  <2> SUFFICES ASSUME NEW a \in steady PROVE Ahead(a) >= 0
    BY <1>3 DEF StillToCome
  <2>1. Ahead(a) \in 0..Cardinality(matched) - 1 /\ Cardinality(matched) \in Nat
    BY <1>1, NewerCounts DEF Ahead
  <2> QED BY <2>1
<1>6. SeenFromTop
  <2>1. arrived - walk.offset + 1..arrived = {} /\ Range(seen) = {} /\ DOMAIN seen = {}
    BY <1>1, <1>3 DEF Range
  <2>2. SeenDownTo(arrived - walk.offset)
    BY <2>1 DEF SeenDownTo, IsInjective
  <2>3. walk.offset <= arrived
    BY <1>1, <1>3
  <2> QED BY <1>1, <1>3, <2>2, <2>3 DEF SeenFromTop
<1> QED BY <1>4, <1>5, <1>6 DEF AlertsInv

LEMMA MatchedCounts ==
    ASSUME AlertsTyped
    PROVE  /\ IsFiniteSet(matched) /\ Cardinality(matched) \in 0..MaxAlerts /\ MaxAlerts \in Nat
           /\ arrived \in Nat /\ matched \in SUBSET (1..arrived)
           /\ \A a \in matched : Ahead(a) \in 0..Cardinality(matched) - 1
           /\ \A a, b \in matched : Ahead(a) = Ahead(b) => a = b
           /\ \A k \in 0..Cardinality(matched) - 1 : \E a \in matched : Ahead(a) = k
<1>1. arrived \in Nat /\ arrived <= MaxAlerts /\ MaxAlerts \in Nat /\ matched \in SUBSET (1..arrived)
  BY AlertListingAssumption DEF AlertsTyped
<1>2. IsFiniteSet(matched)
  BY <1>1, NewerIsOrdering
<1>3. /\ Cardinality(matched) \in Nat /\ Cardinality(matched) <= arrived
      /\ \A a \in matched : Ahead(a) \in 0..Cardinality(matched) - 1
      /\ \A a, b \in matched : Ahead(a) = Ahead(b) => a = b
      /\ \A k \in 0..Cardinality(matched) - 1 : \E a \in matched : Ahead(a) = k
  BY <1>1, NewerCounts DEF Ahead
<1> QED BY <1>1, <1>2, <1>3

\* A new alert is newer than all, and pushes each down by one at most.
LEMMA ArrivalAlertsInv == ASSUME AlertsInv, AlertArrives PROVE AlertsInv'
<1>1. /\ arrived' = arrived + 1 /\ matched' = matched \cup {arrived + 1}
      /\ walk' = walk /\ seen' = seen /\ steady' = steady /\ arrived < MaxAlerts
      /\ disturbed' = disturbed \cup {"arrival"} /\ AlertsTyped
  BY DEF AlertArrives, AlertsInv
<1>2. /\ arrived \in Nat /\ arrived' \in Nat /\ MaxAlerts \in Nat /\ 1..arrived \subseteq 1..arrived'
      /\ matched' \subseteq 1..arrived'
  <2>1. arrived \in Nat /\ MaxAlerts \in Nat /\ matched \subseteq 1..arrived
    BY <1>1, MatchedCounts
  <2>2. 1..arrived \subseteq 1..arrived' /\ arrived' \in 1..arrived' /\ arrived' \in Nat
    BY <1>1, <2>1
  <2> QED BY <1>1, <2>1, <2>2
<1>3. AlertsTyped'
  <2>1. walk \in Walk'
    BY <1>1, <1>2 DEF AlertsTyped, Walk
  <2>2. seen \in Seq(1..arrived')
    BY <1>1, <1>2, SeqMonotonic DEF AlertsTyped
  <2> QED BY <1>1, <1>2, <2>1, <2>2 DEF AlertsTyped
<1>4. ASSUME NEW a \in matched PROVE Ahead(a) \in Nat /\ Ahead(a)' \in Nat /\ Ahead(a) <= Ahead(a)'
  <2>1. Newer(a, matched) \in SUBSET Newer(a, matched')
    BY <1>1 DEF Newer
  <2>2. Newer(a, matched') \in SUBSET (1..arrived')
    BY <1>2 DEF Newer
  <2>3. IsFiniteSet(Newer(a, matched'))
    <3>1. IsFiniteSet(1..arrived')
      BY <1>2, FS_Interval
    <3> QED BY <2>2, <3>1, FS_Subset
  <2>4. /\ IsFiniteSet(Newer(a, matched))
        /\ Cardinality(Newer(a, matched)) <= Cardinality(Newer(a, matched'))
    BY <2>1, <2>3, FS_Subset
  <2> QED BY <2>3, <2>4, FS_CardinalityType DEF Ahead
<1>5. NoneLost' => StillToCome'
  <2> SUFFICES ASSUME NoneLost, NEW a \in steady \ Range(seen)
               PROVE  /\ walk.pc = "calls" => Ahead(a)' >= walk.offset
                      /\ walk.pc = "details" => a \in walk.ids \/ (Ahead(a)' >= Reached /\ Reached < walk.total)
                      /\ walk.pc # "ended"
    BY <1>1 DEF NoneLost, StillToCome, Reached
  <2>1. /\ walk.pc = "calls" => Ahead(a) >= walk.offset
        /\ walk.pc = "details" => a \in walk.ids \/ (Ahead(a) >= Reached /\ Reached < walk.total)
        /\ walk.pc # "ended"
    BY DEF AlertsInv, StillToCome
  <2>2. Ahead(a) \in Nat /\ Ahead(a)' \in Nat /\ Ahead(a) <= Ahead(a)'
    BY <1>1, <1>4 DEF AlertsTyped
  <2>3. walk.offset \in Nat
    BY <1>1, <1>2 DEF AlertsTyped, Walk
  <2>4. walk.pc = "details" => Cardinality(walk.ids) \in Nat
    BY <1>1, <1>2, NewerCounts DEF AlertsTyped, Walk
  <2> DEFINE from == walk.offset
             count == Cardinality(walk.ids)
             now == Ahead(a)
             then == Ahead(a)'
  <2>5. walk.pc = "details" => from + count \in Nat
    BY <2>3, <2>4
  <2> QED BY <2>1, <2>2, <2>3, <2>5 DEF Reached
<1>6. disturbed' # {}
  BY <1>1
<1> QED BY <1>3, <1>5, <1>6 DEF AlertsInv

LEMMA DepartureAlertsInv ==
    ASSUME AlertsInv, NEW a \in 1..MaxAlerts, AlertLeaves(a) PROVE AlertsInv'
<1>1. AlertsTyped' /\ "departure" \in disturbed'
  BY DEF AlertLeaves, AlertsInv, AlertsTyped, Walk
<1>2. disturbed' # {} /\ ~NoneLost'
  BY <1>1 DEF NoneLost
<1> QED BY <1>1, <1>2 DEF AlertsInv

LEMMA FailureAlertsInv == ASSUME AlertsInv, GetAlertsFails PROVE AlertsInv'
<1>1. /\ walk' = [walk EXCEPT !.pc = "failed"] /\ walk \in Walk
      /\ UNCHANGED <<arrived, matched, seen, steady, disturbed>>
  BY DEF GetAlertsFails, AlertsInv, AlertsTyped
<1>2. walk' \in Walk' /\ walk'.pc = "failed" /\ walk'.offset = walk.offset
  BY <1>1 DEF Walk
<1>3. AlertsTyped'
  BY <1>1, <1>2 DEF AlertsInv, AlertsTyped
<1>4. StillToCome'
  BY <1>2 DEF StillToCome
<1>5. disturbed' = {} => SeenFromTop'
  BY <1>1, <1>2 DEF AlertsInv, SeenFromTop
<1> QED BY <1>3, <1>4, <1>5 DEF AlertsInv

\* A page holds no more alerts than it may.
LEMMA PageIsShort ==
    ASSUME AlertsTyped, NEW from \in Nat, NEW max \in Nat \ {0},
           NEW ids \in SUBSET matched, \A a \in ids : Ahead(a) \in from..from + max - 1
    PROVE  Cardinality(ids) \in Nat /\ Cardinality(ids) <= max
<1> DEFINE page == from..from + max - 1
           place == [a \in ids |-> Ahead(a)]
<1>1. IsFiniteSet(page) /\ Cardinality(page) = max
  <2>1. from \in Int /\ from + max - 1 \in Int
    OBVIOUS
  <2>2. Cardinality(page) = IF from > from + max - 1 THEN 0 ELSE from + max - 1 - from + 1
    BY <2>1, FS_Interval
  <2> QED BY <2>1, <2>2, FS_Interval
<1>2. place \in [ids -> page]
  OBVIOUS
<1>3. IsInjective(place)
  BY MatchedCounts DEF IsInjective
<1> HIDE DEF page, place
<1>4. place \in Injection(ids, page)
  BY <1>2, <1>3 DEF Injection
<1>5. IsFiniteSet(ids) /\ Cardinality(ids) <= Cardinality(page)
  BY <1>1, <1>4, FS_Injection
<1> QED BY <1>1, <1>5, FS_CardinalityType

\* The page asked for, while nothing has happened.
LEMMA PageOfAll ==
    ASSUME NEW n \in Nat, NEW from \in 0..n, NEW max \in Nat \ {0}, NEW ids,
           \A a : a \in ids <=> a \in 1..n /\ Cardinality(Newer(a, 1..n)) \in from..from + max - 1
    PROVE  /\ ids = {} => from = n
           /\ ids # {} => IsRun(ids, n - from)
<1>1. \A a \in 1..n : Cardinality(Newer(a, 1..n)) = n - a
  <2> TAKE a \in 1..n
  <2>1. Newer(a, 1..n) = a + 1..n
    BY DEF Newer
  <2>2. Cardinality(a + 1..n) = IF a + 1 > n THEN 0 ELSE n - (a + 1) + 1
    BY FS_Interval
  <2> QED BY <2>1, <2>2
<1>2. \A a : a \in ids <=> a \in 1..n /\ a <= n - from /\ a >= n - from - max + 1
  BY <1>1
<1>3. CASE from = n
  BY <1>2, <1>3
<1>4. CASE from < n
  <2> DEFINE lo == IF n - from - max + 1 >= 1 THEN n - from - max + 1 ELSE 1
  <2>1. lo \in 1..n - from
    BY <1>4
  <2>2. ids = lo..n - from
    <3>1. \A a \in Nat : a \in ids <=> 1 <= a /\ a <= n - from /\ a >= n - from - max + 1
      BY <1>2
    <3>2. \A a \in ids : a \in Nat
      BY <1>2
    <3>3. \A a \in Nat : a \in ids <=> lo <= a /\ a <= n - from
      BY <1>4, <3>1
    <3> HIDE DEF lo
    <3>4. \A a : a \in lo..n - from <=> a \in Nat /\ lo <= a /\ a <= n - from
      BY <2>1
    <3> QED BY <3>2, <3>3, <3>4
  <2>3. lo \in ids
    BY <2>1, <2>2
  <2> HIDE DEF lo
  <2> QED BY <2>1, <2>2, <2>3 DEF IsRun
<1> QED BY <1>3, <1>4

LEMMA QueryAlertsInv ==
    ASSUME AlertsInv, NEW stated \in BOOLEAN, QueryAlerts(stated) PROVE AlertsInv'
<1> DEFINE from == walk.offset
           ids == {a \in matched : Ahead(a) \in from..from + walk.max - 1}
           all == Cardinality(matched)
           total == Cardinality(IF stated THEN matched ELSE ids)
<1>1. /\ walk.pc = "calls" /\ walk \in Walk /\ AlertsTyped
      /\ walk' = [walk EXCEPT !.ids = ids, !.total = total,
                              !.pc = IF ids = {} THEN "ended" ELSE "details"]
      /\ UNCHANGED <<arrived, matched, seen, steady>>
      /\ disturbed' = IF stated THEN disturbed ELSE disturbed \cup {"unstated"}
  BY DEF QueryAlerts, AlertsInv, AlertsTyped, Ahead
<1>2. /\ all \in 0..MaxAlerts /\ MaxAlerts \in Nat /\ arrived \in Nat /\ matched \subseteq 1..arrived
      /\ IsFiniteSet(matched) /\ \A a \in matched : Ahead(a) \in 0..all - 1
      /\ \A k \in 0..all - 1 : \E a \in matched : Ahead(a) = k
  BY <1>1, MatchedCounts
<1>3. from \in Nat /\ walk.max \in Nat \ {0}
  BY <1>1, <1>2 DEF Walk
<1>4. ids \in SUBSET matched /\ \A a \in ids : Ahead(a) \in from..from + walk.max - 1
  OBVIOUS
<1>5. Cardinality(ids) \in Nat /\ Cardinality(ids) <= walk.max
  <2> HIDE DEF ids, from
  <2> QED BY <1>1, <1>3, <1>4, PageIsShort
<1>6. \A a \in matched \ ids : Ahead(a) >= from => Ahead(a) >= from + walk.max
  BY <1>2, <1>3
<1>7. ids = {} => all <= from
  <2> SUFFICES ASSUME ids = {}, from < all PROVE FALSE
    BY <1>2, <1>3
  <2>1. from \in 0..all - 1 /\ from \in from..from + walk.max - 1
    BY <1>2, <1>3
  <2> QED BY <1>2, <2>1
<1>t. total \in 0..MaxAlerts /\ (stated => total = all)
  <2> HIDE DEF ids
  <2>1. Cardinality(ids) <= all
    BY <1>2, <1>4, FS_Subset
  <2>2. CASE stated
    BY <1>2, <2>2
  <2>3. CASE ~stated
    BY <1>2, <1>5, <2>1, <2>3
  <2> QED BY <2>2, <2>3
<1> HIDE DEF total
<1>8. AlertsTyped'
  <2>1. walk' \in Walk'
    <3>1. ids \in SUBSET (1..arrived)
      BY <1>2
    <3> HIDE DEF ids
    <3> QED BY <1>1, <1>2, <1>t, <3>1 DEF Walk
  <2> QED BY <1>1, <2>1 DEF AlertsTyped
<1>9. /\ walk'.pc \in {"ended", "details"} /\ (walk'.pc = "ended" <=> ids = {})
      /\ walk'.offset = from /\ walk'.ids = ids /\ walk'.total = total
  BY <1>1 DEF Walk
<1>10. NoneLost' => StillToCome'
  <2> SUFFICES ASSUME NoneLost, stated, NEW a \in steady \ Range(seen)
               PROVE  /\ ids # {}
                      /\ a \in ids \/ /\ Ahead(a) >= from + Cardinality(ids)
                                      /\ from + Cardinality(ids) < all
    BY <1>1, <1>9, <1>t DEF NoneLost, StillToCome, Reached, Ahead
  <2>1. a \in matched /\ Ahead(a) >= from
    BY <1>1 DEF AlertsInv, StillToCome, AlertsTyped
  <2>2. Ahead(a) \in Nat /\ Ahead(a) < all /\ all \in Nat
    BY <1>2, <2>1
  <2>3. ids # {}
    BY <1>3, <1>7, <2>1, <2>2
  <2>4. a \notin ids => Ahead(a) >= from + walk.max
    BY <1>6, <2>1
  <2> HIDE DEF ids, from, all
  <2> QED BY <1>3, <1>5, <2>2, <2>3, <2>4
<1>11. disturbed' = {} => SeenFromTop'
  <2> SUFFICES ASSUME disturbed = {}, stated PROVE SeenFromTop'
    BY <1>1
  <2>1. /\ matched = 1..arrived /\ from <= arrived
        /\ SeenDownTo(arrived - from)
    BY <1>1 DEF AlertsInv, SeenFromTop
  <2>2. total = arrived
    BY <1>2, <1>t, <2>1, FS_Interval
  <2>3. \A a : a \in ids <=>
            a \in 1..arrived /\ Cardinality(Newer(a, 1..arrived)) \in from..from + walk.max - 1
    BY <2>1 DEF Ahead
  <2> HIDE DEF ids, from, all
  <2>4. /\ ids = {} => from = arrived
        /\ ids # {} => IsRun(ids, arrived - from)
    <3>1. arrived \in Nat /\ from \in 0..arrived /\ walk.max \in Nat \ {0}
      BY <1>2, <1>3, <2>1
    <3>2. ids = {} => from = arrived
      BY <2>3, <3>1, PageOfAll
    <3>3. ids # {} => IsRun(ids, arrived - from)
      BY <2>3, <3>1, PageOfAll
    <3> QED BY <3>2, <3>3
  <2>5. /\ arrived' = arrived /\ matched' = matched /\ seen' = seen
        /\ walk'.max = walk.max
    BY <1>1 DEF Walk
  <2>6. SeenDownTo(arrived - from)' /\ (ids = {} => SeenDownTo(0)')
    <3>1. /\ Range(seen) = arrived - from + 1..arrived /\ IsInjective(seen)
          /\ \A i, j \in DOMAIN seen : i + walk.max <= j => seen[j] < seen[i]
      BY <2>1 DEF SeenDownTo
    <3>2. from' = from
      BY <1>9 DEF from
    <3>3. SeenDownTo(arrived - from)'
      BY <2>5, <3>1, <3>2 DEF SeenDownTo
    <3>4. ids = {} => arrived - from = 0
      BY <1>2, <2>4
    <3>5. ids = {} => SeenDownTo(0)'
      BY <2>5, <3>1, <3>4 DEF SeenDownTo
    <3> QED BY <3>3, <3>5
  <2>7. walk'.offset = from' /\ from' = from
    BY <1>9 DEF from
  <2>8. SeenDownTo(arrived - walk.offset)'
    BY <2>6, <2>7
  <2> QED BY <1>5, <1>9, <2>1, <2>2, <2>4, <2>5, <2>6, <2>8 DEF SeenFromTop
<1> QED BY <1>8, <1>10, <1>11 DEF AlertsInv

LEMMA GetAlertsInv ==
    ASSUME AlertsInv, NEW missing, GetAlerts(missing) PROVE AlertsInv'
<1> DEFINE from == walk.offset
           got == walk.ids \ missing
           n == Cardinality(got)
           asks == Cardinality(walk.ids)
<1>p. PICK alerts \in SetToSeqs(got) : seen' = seen \o alerts /\ walk' = NextOffset(Len(alerts))
  BY DEF GetAlerts
<1>1. /\ walk.pc = "details" /\ walk \in Walk /\ AlertsTyped
      /\ seen' = seen \o alerts /\ walk' = NextOffset(Len(alerts))
      /\ steady' = steady \ missing /\ UNCHANGED <<arrived, matched>>
      /\ disturbed \subseteq disturbed' /\ (missing # {} => disturbed' # {})
  BY <1>p DEF GetAlerts, AlertsInv, AlertsTyped
<1>2. /\ arrived \in Nat /\ MaxAlerts \in Nat
      /\ walk.ids \in SUBSET (1..arrived) /\ got \in SUBSET (1..arrived)
      /\ from \in Nat /\ walk.total \in 0..MaxAlerts
  BY <1>1, MatchedCounts DEF Walk
<1>3. IsFiniteSet(walk.ids) /\ IsFiniteSet(got) /\ got \in SUBSET walk.ids
  BY <1>2, NewerIsOrdering
<1>4. n \in Nat /\ asks \in Nat /\ n <= asks
  BY <1>3, FS_Subset, FS_CardinalityType
<1> HIDE DEF got
<1>5. /\ alerts \in Seq(got) /\ Len(alerts) = n /\ Range(alerts) = got
      /\ DOMAIN alerts = 1..n /\ IsInjective(alerts)
  BY <1>3, OrdersProperties
<1> HIDE DEF n, asks
<1>6. /\ seen \in Seq(1..arrived) /\ alerts \in Seq(1..arrived) /\ Len(seen) \in Nat
  BY <1>1, <1>2, <1>5, SeqMonotonic, LenProperties DEF AlertsTyped
<1>7. /\ seen' \in Seq(1..arrived) /\ Len(seen') = Len(seen) + n
      /\ \A i \in 1..Len(seen) + n :
            seen'[i] = IF i <= Len(seen) THEN seen[i] ELSE alerts[i - Len(seen)]
  BY <1>1, <1>5, <1>6, ConcatProperties
<1>8. Range(seen') = Range(seen) \cup got
  BY <1>1, <1>5, <1>6, RangeConcatenation
<1>9. /\ walk'.pc \in {"calls", "ended"} /\ walk' \in Walk /\ walk'.max = walk.max
      /\ walk'.pc = "calls" => walk'.offset = from + n /\ from + n < walk.total
      /\ walk'.pc = "ended" => walk'.offset = from /\ ~(from + n < walk.total)
  <2>1. from + n \in Nat /\ (from + n < walk.total => from + n \in 0..MaxAlerts)
    BY <1>2, <1>4
  <2>2. walk' = NextOffset(n)
    BY <1>1, <1>5
  <2>3. CASE from + n < walk.total
    <3>1. walk' = [walk EXCEPT !.pc = "calls", !.offset = from + n]
      BY <2>2, <2>3 DEF NextOffset
    <3> HIDE DEF from
    <3> QED BY <1>1, <2>1, <2>3, <3>1 DEF Walk
  <2>4. CASE ~(from + n < walk.total)
    <3>1. walk' = [walk EXCEPT !.pc = "ended"]
      BY <2>2, <2>4 DEF NextOffset
    <3> QED BY <1>1, <2>4, <3>1 DEF Walk
  <2> QED BY <2>3, <2>4
<1>10. AlertsTyped'
  <2>1. Walk' = Walk
    BY <1>1 DEF Walk
  <2> QED BY <1>1, <1>7, <1>9, <2>1 DEF AlertsTyped
<1>11. NoneLost' => StillToCome'
  <2> SUFFICES ASSUME NoneLost, NEW a \in (steady \ missing) \ (Range(seen) \cup got)
               PROVE  /\ walk'.pc = "calls" => Ahead(a) >= from + n
                      /\ walk'.pc # "ended"
    BY <1>1, <1>8, <1>9 DEF NoneLost, StillToCome, Reached, Ahead
  <2>1. Ahead(a) >= from + asks /\ from + asks < walk.total
    BY <1>1 DEF AlertsInv, StillToCome, Reached, got, asks
  <2>2. Ahead(a) \in Nat
    BY <1>1, MatchedCounts DEF AlertsTyped
  <2>3. walk.total \in Nat
    BY <1>2
  <2> HIDE DEF from
  <2> QED BY <1>2, <1>4, <1>9, <2>1, <2>2, <2>3
<1>12. disturbed' = {} => SeenFromTop'
  <2> SUFFICES ASSUME disturbed' = {} PROVE SeenFromTop'
    OBVIOUS
  <2>1. disturbed = {} /\ missing = {}
    BY <1>1
  <2>2. /\ matched = 1..arrived /\ from <= arrived /\ walk.total = arrived
        /\ SeenDownTo(arrived - from) /\ asks <= walk.max
        /\ IsRun(walk.ids, arrived - from)
    BY <1>1, <2>1 DEF AlertsInv, SeenFromTop, asks
  <2>3. PICK lo \in 1..arrived - from : walk.ids = lo..arrived - from
    BY <2>2 DEF IsRun
  <2> DEFINE hi == arrived - from
  <2>4. lo \in Nat \ {0} /\ hi \in Nat /\ lo <= hi /\ hi = arrived - from
    BY <1>2, <2>2, <2>3
  <2>5. got = lo..hi
    BY <2>1, <2>3 DEF got
  <2>m. walk.max \in Nat \ {0}
    BY <1>1 DEF Walk
  <2>d. DOMAIN seen = 1..Len(seen) /\ DOMAIN seen' = 1..Len(seen) + n
    BY <1>6, <1>7, LenProperties
  <2> HIDE DEF hi, from
  <2>6. n = hi - lo + 1 /\ n <= walk.max
    <3>1. Cardinality(lo..hi) = IF lo > hi THEN 0 ELSE hi - lo + 1
      BY <2>4, FS_Interval
    <3> QED BY <1>4, <2>2, <2>4, <2>5, <2>m, <3>1 DEF n
  <2>7. /\ Range(seen) = hi + 1..arrived /\ IsInjective(seen)
        /\ \A i, j \in DOMAIN seen : i + walk.max <= j => seen[j] < seen[i]
    BY <2>2, <2>4 DEF SeenDownTo
  <2>8. Range(seen') = lo..arrived
    BY <1>2, <1>8, <2>4, <2>5, <2>7
  <2>9. IsInjective(seen')
    <3>1. Range(seen) \cap Range(alerts) = {}
      BY <1>5, <2>4, <2>5, <2>7
    <3> QED BY <1>1, <1>5, <1>6, <2>7, <3>1, InjectiveConcat
  <2>10. ASSUME NEW i \in 1..Len(seen) + n, NEW j \in 1..Len(seen) + n, i + walk.max <= j
         PROVE  seen'[j] < seen'[i]
    <3> DEFINE len == Len(seen)
               max == walk.max
    <3>t. len \in Nat /\ max \in Nat \ {0} /\ n \in Nat /\ n <= max
          /\ i \in 1..len + n /\ j \in 1..len + n /\ i + max <= j
      BY <1>4, <1>6, <2>6, <2>10, <2>m
    <3>d. /\ \A k \in 1..len : k \in DOMAIN seen /\ seen[k] \in hi + 1..arrived
          /\ \A k \in 1..n : alerts[k] \in lo..hi
          /\ \A k \in 1..len + n : seen'[k] = IF k <= len THEN seen[k] ELSE alerts[k - len]
      BY <1>5, <1>7, <2>5, <2>7, <2>d DEF Range
    <3>o. \A k, l \in 1..len : k + max <= l => seen[l] < seen[k]
      BY <2>7, <3>d
    <3> HIDE DEF len, max
    <3>1. i <= len /\ i \in 1..len
      BY <3>t
    <3>2. CASE j <= len
      BY <3>1, <3>2, <3>d, <3>o, <3>t
    <3>3. CASE ~(j <= len)
      <4>1. j - len \in 1..n
        BY <3>3, <3>t
      <4>2. seen'[j] \in lo..hi /\ seen'[i] \in hi + 1..arrived
        BY <3>1, <3>3, <3>d, <3>t, <4>1
      <4> QED BY <1>2, <2>4, <4>2
    <3> QED BY <3>2, <3>3
  <2>11. arrived' = arrived /\ matched' = matched /\ walk'.max = walk.max
    BY <1>1, <1>9
  <2>12. from + n = arrived - (lo - 1) /\ from + n <= arrived /\ (~(from + n < arrived) => from + n = arrived)
    BY <1>2, <1>4, <2>4, <2>6
  <2>13. CASE walk'.pc = "calls"
    <3>1. (arrived - walk.offset)' = lo - 1 /\ walk'.offset <= arrived
      BY <1>2, <1>4, <1>9, <2>4, <2>11, <2>12, <2>13
    <3>2. SeenDownTo(arrived - walk.offset)'
      BY <2>4, <2>8, <2>9, <2>10, <2>11, <2>d, <3>1 DEF SeenDownTo
    <3> QED BY <2>2, <2>11, <2>13, <3>1, <3>2 DEF SeenFromTop
  <2>14. CASE walk'.pc = "ended"
    <3> DEFINE total == walk.total
    <3>3. ~(from + n < total) /\ total = arrived /\ walk'.offset = from /\ from <= arrived
      BY <1>9, <2>2, <2>14
    <3> HIDE DEF total
    <3>4. lo - 1 = 0
      BY <1>2, <1>4, <2>4, <2>12, <3>3
    <3>1. lo - 1 = 0 /\ walk'.offset <= arrived
      BY <3>3, <3>4
    <3>2. SeenDownTo(0)'
      BY <2>4, <2>8, <2>9, <2>10, <2>11, <2>d, <3>1 DEF SeenDownTo
    <3> QED BY <2>2, <2>11, <2>14, <3>1, <3>2 DEF SeenFromTop
  <2> QED BY <1>9, <2>13, <2>14
<1> QED BY <1>10, <1>11, <1>12 DEF AlertsInv

LEMMA NextAlertsInv == AlertsInv /\ [WNext]_alertVars => AlertsInv'
<1> SUFFICES ASSUME AlertsInv, [WNext]_alertVars PROVE AlertsInv'
  OBVIOUS
<1>1. CASE AlertArrives
  BY <1>1, ArrivalAlertsInv
<1>2. CASE \E stated \in BOOLEAN : QueryAlerts(stated)
  BY <1>2, QueryAlertsInv
<1>3. CASE GetAlertsFails
  BY <1>3, FailureAlertsInv
<1>4. CASE \E a \in 1..MaxAlerts : AlertLeaves(a)
  BY <1>4, DepartureAlertsInv
<1>5. CASE \E missing \in SUBSET (1..MaxAlerts) : GetAlerts(missing)
  BY <1>5, GetAlertsInv
<1>6. CASE UNCHANGED alertVars
  BY <1>6 DEF alertVars, AlertsInv, AlertsTyped, Walk, NoneLost, StillToCome, Reached, Ahead,
              SeenFromTop, SeenDownTo
<1> QED BY <1>1, <1>2, <1>3, <1>4, <1>5, <1>6 DEF WNext

\* A caller who follows the next offsets to the end has seen every alert that
\* matched all along, unless one left the filter meanwhile or a total was not
\* stated; and each once, the newer before the older but on one page, when
\* nothing happened (_get_alerts, alerts.py): for any number of alerts and any
\* max_results, whatever order the details come in.
THEOREM OffsetsReachAll == WalkSpec => []OffsetsLeadToAll
<1>1. ASSUME AlertsInv PROVE OffsetsLeadToAll
  <2> SUFFICES ASSUME walk.pc = "ended"
               PROVE  /\ NoneLost => steady \subseteq Range(seen)
                      /\ disturbed = {} =>
                            /\ Range(seen) = matched /\ IsInjective(seen)
                            /\ \A i, j \in DOMAIN seen : i + walk.max <= j => seen[j] < seen[i]
    BY DEF OffsetsLeadToAll, NoneLost
  <2>1. NoneLost => steady \subseteq Range(seen)
    BY <1>1 DEF AlertsInv, StillToCome
  <2>2. disturbed = {} => matched = 0 + 1..arrived /\ SeenDownTo(0)
    BY <1>1 DEF AlertsInv, SeenFromTop
  <2> QED BY <2>1, <2>2 DEF SeenDownTo
<1> QED BY <1>1, InitAlertsInv, NextAlertsInv, PTL DEF WalkSpec

\* The pages and the caller of get_alerts keep their types, for any number of
\* alerts, page sizes and order of arrivals.
THEOREM AlertsTypeOK == WalkSpec => []WTypeOK
<1>1. ASSUME AlertsInv PROVE WTypeOK
  <2>1. AlertsTyped /\ MaxAlerts \in Nat /\ arrived \in Nat
    BY <1>1, MatchedCounts DEF AlertsInv
  <2>2. /\ walk.pc \in {"calls", "details", "ended", "failed"} /\ walk.offset \in 0..MaxAlerts
        /\ walk.ids \subseteq 1..arrived
    BY <2>1 DEF AlertsTyped, Walk
  <2>3. Range(seen) \subseteq 1..arrived
    <3>1. seen \in Seq(1..arrived)
      BY <2>1 DEF AlertsTyped
    <3> QED BY <3>1, RangeOfSeq
  <2> QED BY <2>1, <2>2, <2>3 DEF AlertsTyped, WTypeOK
<1> QED BY <1>1, InitAlertsInv, NextAlertsInv, PTL DEF WalkSpec

-----------------------------------------------------------------------------
(* The correlation rules.                                                  *)

\* p is at most n elements of s, those after the first k.
IsPart(p, s, k, n) ==
    /\ {Len(p), Len(s)} \subseteq Nat /\ Len(p) <= n /\ (p = <<>> <=> Len(p) = 0)
    /\ k + n < Len(s) => Len(p) = n
    /\ k + n >= Len(s) /\ k <= Len(s) => k + Len(p) = Len(s)
    /\ k >= Len(s) => Len(p) = 0
    /\ \A i \in 1..Len(p) : k + i \in 1..Len(s) /\ p[i] = s[k + i]

LEMMA PartProperties ==
    ASSUME NEW S, NEW s \in Seq(S), NEW k \in Nat, NEW n \in Nat
    PROVE  Part(s, k, n) \in Seq(S) /\ IsPart(Part(s, k, n), s, k, n)
<1> DEFINE last == IF k + n < Len(s) THEN k + n ELSE Len(s)
           p == SubSeq(s, k + 1, last)
<1>1. Len(s) \in Nat /\ \A i \in 1..Len(s) : s[i] \in S
  BY LenProperties, ElementOfSeq
<1>2. last \in Int /\ k + 1 \in Int /\ last <= Len(s) /\ last <= k + n
      /\ (k + n < Len(s) => last = k + n) /\ (k + n >= Len(s) => last = Len(s))
  BY <1>1
<1> HIDE DEF last
<1>3. \A i \in k + 1..last : s[i] \in S
  BY <1>1, <1>2
<1>4. /\ p \in Seq(S) /\ Len(p) = IF k + 1 <= last THEN last - (k + 1) + 1 ELSE 0
      /\ \A i \in 1..last - (k + 1) + 1 : p[i] = s[k + 1 + i - 1]
  BY <1>2, <1>3, SubSeqProperties
<1> HIDE DEF p
<1>5. /\ Len(p) \in Nat /\ Len(p) <= n
      /\ k + n < Len(s) => Len(p) = n
      /\ k + n >= Len(s) /\ k <= Len(s) => k + Len(p) = Len(s)
      /\ k >= Len(s) => Len(p) = 0
  BY <1>1, <1>2, <1>4
<1>6. ASSUME NEW i \in 1..Len(p) PROVE k + i \in 1..Len(s) /\ p[i] = s[k + i]
  <2>1. i \in 1..last - (k + 1) + 1 /\ k + 1 + i - 1 = k + i /\ k + i \in 1..Len(s)
    BY <1>1, <1>2, <1>4, <1>6
  <2> QED BY <1>4, <2>1
<1>7. p = <<>> <=> Len(p) = 0
  BY <1>4, EmptySeq
<1>8. IsPart(p, s, k, n)
  BY <1>1, <1>5, <1>6, <1>7 DEF IsPart
<1>9. p = Part(s, k, n)
  BY DEF p, last, Part
<1> QED BY <1>4, <1>8, <1>9

LEMMA RemovalProperties ==
    ASSUME NEW S, NEW s \in Seq(S), NEW i \in 1..Len(s)
    PROVE  LET r == RemoveAt(s, i)
           IN  /\ r \in Seq(S) /\ Len(r) = Len(s) - 1 /\ Len(s) \in Nat
               /\ \A j \in 1..Len(r) : r[j] = IF j < i THEN s[j] ELSE s[j + 1]
<1> DEFINE front == SubSeq(s, 1, i - 1)
           back == SubSeq(s, i + 1, Len(s))
           r == front \o back
<1>1. Len(s) \in Nat /\ i \in Nat /\ \A k \in 1..Len(s) : s[k] \in S
  BY LenProperties, ElementOfSeq
<1>2. front \in Seq(S) /\ Len(front) = i - 1 /\ \A k \in 1..i - 1 : front[k] = s[k]
  <2>1. i - 1 \in Int /\ \A k \in 1..i - 1 : s[k] \in S
    BY <1>1
  <2> QED BY <1>1, <2>1, SubSeqProperties
<1>3. back \in Seq(S) /\ Len(back) = Len(s) - i /\ \A k \in 1..Len(s) - i : back[k] = s[k + i]
  <2>1. i + 1 \in Int /\ \A k \in i + 1..Len(s) : s[k] \in S
    BY <1>1
  <2> QED BY <1>1, <2>1, SubSeqProperties
<1> HIDE DEF front, back
<1>4. /\ r \in Seq(S) /\ Len(r) = Len(front) + Len(back)
      /\ \A k \in 1..Len(front) + Len(back) :
            r[k] = IF k <= Len(front) THEN front[k] ELSE back[k - Len(front)]
  BY <1>2, <1>3, ConcatProperties
<1> HIDE DEF r
<1>5. Len(r) = Len(s) - 1
  BY <1>1, <1>2, <1>3, <1>4
<1>6. ASSUME NEW j \in 1..Len(r) PROVE r[j] = IF j < i THEN s[j] ELSE s[j + 1]
  <2>1. CASE j < i
    BY <1>1, <1>2, <1>3, <1>4, <1>5, <2>1
  <2>2. CASE ~(j < i)
    <3>1. /\ j - (i - 1) \in 1..Len(s) - i /\ ~(j <= i - 1)
          /\ j - (i - 1) + i = j + 1 /\ j \in 1..Len(front) + Len(back)
      BY <1>1, <1>2, <1>3, <1>5, <2>2
    <3> QED BY <1>2, <1>3, <1>4, <2>2, <3>1
  <2> QED BY <2>1, <2>2
<1>7. r = RemoveAt(s, i)
  BY DEF r, front, back, RemoveAt
<1> QED BY <1>1, <1>4, <1>5, <1>6, <1>7

LEMMA RangeIsFinite == ASSUME NEW S, NEW s \in Seq(S) PROVE IsFiniteSet(Range(s))
<1>1. Len(s) \in Nat /\ DOMAIN s = 1..Len(s) /\ s \in [1..Len(s) -> S]
  BY LenProperties
<1>2. s \in Surjection(1..Len(s), Range(s))
  BY <1>1 DEF Surjection, Range
<1>3. IsFiniteSet(1..Len(s))
  BY <1>1, FS_Interval
<1> QED BY <1>2, <1>3, FS_Surjection

\* A sequence without repetitions has as many elements as places.
LEMMA RangeCount ==
    ASSUME NEW S, NEW s \in Seq(S), IsInjective(s)
    PROVE  IsFiniteSet(Range(s)) /\ Cardinality(Range(s)) = Len(s) /\ Len(s) \in Nat
<1>1. Len(s) \in Nat /\ DOMAIN s = 1..Len(s) /\ s \in [1..Len(s) -> Range(s)]
  <2>1. Len(s) \in Nat /\ DOMAIN s = 1..Len(s) /\ s \in [1..Len(s) -> S]
    BY LenProperties
  <2> QED BY <2>1 DEF Range
<1>2. IsFiniteSet(1..Len(s)) /\ Cardinality(1..Len(s)) = Len(s)
  BY <1>1, FS_Interval
<1>3. s \in Surjection(1..Len(s), Range(s))
  BY <1>1 DEF Surjection, Range
<1>4. s \in Injection(1..Len(s), Range(s))
  BY <1>1 DEF Injection
<1> QED BY <1>1, <1>2, <1>3, <1>4, FS_Surjection

\* What all but m of the elements of B share with M all but m of theirs do.
LEMMA AllButSome ==
    ASSUME NEW B, IsFiniteSet(B), NEW A \in SUBSET B, NEW M, NEW m \in Nat,
           Cardinality(B) <= Cardinality(A) + m
    PROVE  /\ Cardinality(A \cap M) \in Nat /\ Cardinality(B \cap M) \in Nat
           /\ Cardinality(A \cap M) <= Cardinality(B \cap M)
           /\ Cardinality(B \cap M) <= Cardinality(A \cap M) + m
<1>1. IsFiniteSet(A) /\ IsFiniteSet(B \cap M) /\ IsFiniteSet(A \cap M)
  BY FS_Subset
<1>2. Cardinality(A \cap M) <= Cardinality(B \cap M)
  <2>1. A \cap M \in SUBSET (B \cap M)
    OBVIOUS
  <2> QED BY <1>1, <2>1, FS_Subset
<1>3. IsFiniteSet(B \ A) /\ Cardinality(B \ A) = Cardinality(B) - Cardinality(A)
  <2>1. B \cap A = A
    OBVIOUS
  <2> QED BY <2>1, FS_Difference, FS_Subset
<1>4. /\ IsFiniteSet((B \ A) \cap M) /\ Cardinality((B \ A) \cap M) <= Cardinality(B \ A)
  BY <1>3, FS_Intersection
<1>5. Cardinality(B \cap M) <= Cardinality(A \cap M) + Cardinality((B \ A) \cap M)
  <2> DEFINE X == A \cap M
             Y == (B \ A) \cap M
             Z == B \cap M
  <2>1. X \cup Y = Z /\ X \cap Y = {} /\ IsFiniteSet(X) /\ IsFiniteSet(Y)
    BY <1>1, <1>4
  <2> HIDE DEF X, Y, Z
  <2>2. Cardinality(X \cup Y) = Cardinality(X) + Cardinality(Y) - Cardinality(X \cap Y)
    BY <2>1, FS_Union
  <2>3. Cardinality(X \cap Y) = 0
    BY <2>1, FS_EmptySet
  <2>4. Cardinality(X) \in Nat /\ Cardinality(Y) \in Nat
    BY <2>1, FS_CardinalityType
  <2>5. Cardinality(Z) = Cardinality(X \cup Y)
    BY <2>1, Zenon
  <2>6. Cardinality(Z) <= Cardinality(X) + Cardinality(Y)
    BY <2>2, <2>3, <2>4, <2>5
  <2> QED BY <2>6 DEF X, Y, Z
<1>6. /\ Cardinality(A) \in Nat /\ Cardinality(B) \in Nat /\ Cardinality(A \cap M) \in Nat
      /\ Cardinality(B \cap M) \in Nat /\ Cardinality((B \ A) \cap M) \in Nat
  BY <1>1, <1>4, FS_CardinalityType
<1> QED BY <1>2, <1>3, <1>4, <1>5, <1>6

\* more is ids and the n elements of s, or as many as are left, that come next.
IdsGoOn(more, ids, page, s, n) ==
    /\ {Len(s), Len(ids), Len(more)} \subseteq Nat /\ Len(ids) <= Len(more)
    /\ DOMAIN more = 1..Len(more) /\ (more = <<>> => Len(more) = 0)
    /\ \A i \in 1..Len(more) : more[i] = IF i <= Len(ids) THEN ids[i] ELSE s[i]
    /\ \A i \in 1..Len(more) : i > Len(ids) => i \in 1..Len(s)
    /\ page # <<>> /\ Len(more) < Len(s) => Len(more) = Len(ids) + n
    /\ page = <<>> => Len(ids) >= Len(s)
    /\ Len(ids) <= Len(s) => Len(more) <= Len(s)

LEMMA PageOfIds ==
    ASSUME NEW S, NEW s \in Seq(S), NEW ids \in Seq(S), NEW n \in Nat \ {0}
    PROVE  LET page == Part(s, Len(ids), n)
           IN  ids \o page \in Seq(S) /\ IdsGoOn(ids \o page, ids, page, s, n)
<1> DEFINE from == Len(ids)
           page == Part(s, from, n)
           more == ids \o page
<1>1. from \in Nat /\ Len(s) \in Nat
  BY LenProperties
<1> HIDE DEF from
<1>2. page \in Seq(S) /\ IsPart(page, s, from, n)
  BY <1>1, PartProperties
<1> HIDE DEF page
<1>3. /\ Len(page) \in Nat /\ (page = <<>> <=> Len(page) = 0)
      /\ from + n < Len(s) => Len(page) = n
      /\ from + n >= Len(s) /\ from <= Len(s) => from + Len(page) = Len(s)
      /\ from >= Len(s) => Len(page) = 0
  BY <1>2 DEF IsPart
<1>4. \A i \in 1..Len(page) : from + i \in 1..Len(s) /\ page[i] = s[from + i]
  BY <1>2 DEF IsPart
<1>5. /\ more \in Seq(S) /\ Len(more) = from + Len(page)
      /\ \A i \in 1..from + Len(page) : more[i] = IF i <= from THEN ids[i] ELSE page[i - from]
  BY <1>2, ConcatProperties DEF from
<1> HIDE DEF more
<1>6. DOMAIN more = 1..Len(more) /\ Len(more) \in Nat /\ (more = <<>> => Len(more) = 0)
  BY <1>5, LenProperties, EmptySeq
<1>7. ASSUME NEW i \in 1..Len(more), ~(i <= from) PROVE more[i] = s[i] /\ i \in 1..Len(s)
  <2>1. i - from \in 1..Len(page) /\ from + (i - from) = i
    BY <1>1, <1>3, <1>5, <1>7
  <2>2. page[i - from] = s[i] /\ i \in 1..Len(s)
    BY <1>4, <2>1
  <2> QED BY <1>5, <1>7, <2>2
<1>8. \A i \in 1..Len(more) : more[i] = IF i <= from THEN ids[i] ELSE s[i]
  BY <1>5, <1>7
<1>9. \A i \in 1..Len(more) : i > from => i \in 1..Len(s)
  BY <1>1, <1>7
<1>10. /\ page # <<>> /\ Len(more) < Len(s) => Len(more) = from + n
       /\ page = <<>> => from >= Len(s)
       /\ from <= Len(s) => Len(more) <= Len(s)
       /\ from <= Len(more)
  <2> DEFINE count == Len(page)
  <2>1. Len(more) = from + count /\ count \in Nat
    BY <1>3, <1>5
  <2>2. page = <<>> <=> count = 0
    BY <1>3
  <2>3. from + n < Len(s) => count = n
    BY <1>3
  <2>4. from + n >= Len(s) /\ from <= Len(s) => from + count = Len(s)
    BY <1>3
  <2>5. from >= Len(s) => count = 0
    BY <1>3
  <2> HIDE DEF count
  <2>6. page # <<>> /\ Len(more) < Len(s) => Len(more) = from + n
    BY <1>1, <2>1, <2>2, <2>3, <2>4, <2>5
  <2>7. page = <<>> => from >= Len(s)
    BY <1>1, <2>2, <2>3, <2>4, <2>5
  <2>8. from <= Len(s) => Len(more) <= Len(s)
    BY <1>1, <2>1, <2>3, <2>4, <2>5
  <2>9. from <= Len(more)
    BY <1>1, <2>1
  <2> QED BY <2>6, <2>7, <2>8, <2>9
<1>11. {Len(s), from, Len(more)} \subseteq Nat
  BY <1>1, <1>6
<1>12. IdsGoOn(more, ids, page, s, n)
  BY <1>6, <1>8, <1>9, <1>10, <1>11 DEF IdsGoOn, from
<1> QED BY <1>5, <1>12 DEF more, page, from

Listing == [pc : {"ids", "rules", "listed", "failed"}, max : Int, offset : Nat, ids : Seq(Rule),
            batch : Nat \ {0}, details : Seq(Rule), rules : Seq(Rule), total : Nat]

RulesTyped ==
    /\ catalogue \in Seq(Rule) /\ IsInjective(catalogue)
    /\ listing \in Listing /\ Range(listing.rules) \subseteq matching
    /\ changes \in [made : Nat, removed : Nat, unstated : BOOLEAN, skipped : BOOLEAN]
    /\ listing.pc = "ids" =>
          /\ listing.offset = Len(listing.ids) /\ listing.total = 0
          /\ listing.details = <<>> /\ listing.batch = 1
    /\ listing.pc # "listed" => listing.rules = <<>>
    /\ listing.pc = "listed" => IsCutLength(Len(listing.rules), listing.total, listing.max)

\* The rules are in the order in which they were made, so the ids asked for are
\* older than those of the places still to be asked for, however the rules
\* moved up meanwhile.
AsMade ==
    /\ newest \in 0..MaxRule /\ \A i \in 1..Len(catalogue) : catalogue[i] <= newest
    /\ \A i, j \in 1..Len(catalogue) : i < j => catalogue[i] < catalogue[j]
    /\ listing.pc = "ids" => \A j \in 1..Len(listing.ids) :
          /\ listing.ids[j] <= newest
          /\ \A i \in 1..Len(catalogue) : i > Len(listing.ids) => listing.ids[j] < catalogue[i]

\* Nothing is listed twice: the ids are there once, and what was got is of the
\* batches asked for.
ListedOnce ==
    /\ listing.pc \in {"ids", "rules"} => IsInjective(listing.ids)
    /\ listing.pc = "rules" =>
          /\ IsInjective(listing.details)
          /\ \A r \in Range(listing.details) :
                \E j \in 1..Len(listing.ids) : j < listing.batch /\ listing.ids[j] = r
    /\ listing.pc = "listed" => IsInjective(listing.rules)

\* While no rule is removed the ids are those of the first rules.
IdsAreFirst ==
    listing.pc \in {"ids", "rules"} =>
       /\ Len(listing.ids) <= Len(catalogue)
       /\ \A i \in 1..Len(listing.ids) : listing.ids[i] = catalogue[i]

\* The ids lack the rules made meanwhile at most, the details no id asked for.
NoneLeftOut ==
    /\ listing.pc = "rules" /\ ~changes.unstated => Len(catalogue) <= Len(listing.ids) + changes.made
    /\ listing.pc = "rules" /\ ~changes.skipped =>
          \A j \in 1..Len(listing.ids) : j < listing.batch => listing.ids[j] \in Range(listing.details)
    /\ listing.pc = "listed" /\ ~changes.unstated /\ ~changes.skipped =>
          LET there == Cardinality(Range(catalogue) \cap matching)
          IN  listing.total \in (IF changes.made > there THEN 0 ELSE there - changes.made)..there

RulesInv ==
    /\ RulesTyped /\ AsMade /\ ListedOnce
    /\ changes.removed = 0 => IdsAreFirst /\ NoneLeftOut

LEMMA RulesTypes ==
    ASSUME RulesTyped
    PROVE  /\ Len(catalogue) \in Nat /\ Len(listing.ids) \in Nat /\ Len(listing.details) \in Nat
           /\ DOMAIN catalogue = 1..Len(catalogue) /\ DOMAIN listing.ids = 1..Len(listing.ids)
           /\ listing.ids \in Seq(Rule) /\ listing.details \in Seq(Rule)
           /\ listing.max \in Int /\ listing.offset \in Nat /\ listing.batch \in Nat \ {0}
           /\ changes.made \in Nat /\ changes.removed \in Nat
           /\ {IdBatch, RuleBatch, MaxRules} \subseteq Nat \ {0}
           /\ {MaxRule, MaxRuleChanges} \subseteq Nat
           /\ \A j \in 1..Len(listing.ids) : listing.ids[j] \in Range(listing.ids)
<1>1. /\ listing.ids \in Seq(Rule) /\ listing.details \in Seq(Rule) /\ catalogue \in Seq(Rule)
      /\ listing.max \in Int /\ listing.offset \in Nat /\ listing.batch \in Nat \ {0}
  BY DEF RulesTyped, Listing
<1>2. changes.made \in Nat /\ changes.removed \in Nat
  BY DEF RulesTyped
<1>3. /\ Len(catalogue) \in Nat /\ Len(listing.ids) \in Nat /\ Len(listing.details) \in Nat
      /\ DOMAIN catalogue = 1..Len(catalogue) /\ DOMAIN listing.ids = 1..Len(listing.ids)
  BY <1>1, LenProperties
<1>4. \A j \in 1..Len(listing.ids) : listing.ids[j] \in Range(listing.ids)
  BY <1>3 DEF Range
<1> QED BY <1>1, <1>2, <1>3, <1>4, RuleListingAssumption

LEMMA InitRulesInv == LInit => RulesInv
<1> SUFFICES ASSUME LInit PROVE RulesInv
  OBVIOUS
<1> DEFINE n == newest
<1>1. n \in 0..MaxRule /\ catalogue = [i \in 1..n |-> i]
  BY DEF LInit
<1> HIDE DEF n
<1>2. PICK max \in -MaxRules..MaxRules : listing = NewListing(max)
  BY DEF LInit
<1>3. n \in Nat /\ MaxRule \in Nat /\ MaxRules \in Nat /\ max \in Int
  BY <1>1, RuleListingAssumption
<1>4. /\ catalogue \in Seq(Rule) /\ IsInjective(catalogue)
      /\ Len(catalogue) = n /\ \A i \in 1..n : catalogue[i] = i
  <2>1. catalogue \in Seq(Rule) /\ IsInjective(catalogue) /\ DOMAIN catalogue = 1..n
    BY <1>1, <1>3, SeqDef DEF Rule, IsInjective
  <2>2. Len(catalogue) = n
    BY <1>3, <2>1, LenProperties
  <2> QED BY <1>1, <2>1, <2>2
<1>5. /\ listing.pc = "ids" /\ listing.offset = 0 /\ listing.ids = <<>> /\ listing.batch = 1
      /\ listing.details = <<>> /\ listing.rules = <<>> /\ listing \in Listing
      /\ listing.total = 0
  BY <1>2, <1>3 DEF NewListing, Listing
<1>6. changes = [made |-> 0, removed |-> 0, unstated |-> FALSE, skipped |-> FALSE]
  BY DEF LInit
<1>7. Len(<<>>) = 0 /\ Range(<<>>) = {} /\ IsInjective(<<>>)
  BY DEF Range, IsInjective
<1>8. RulesTyped
  BY <1>4, <1>5, <1>6, <1>7 DEF RulesTyped
<1>12. AsMade
  BY <1>1, <1>3, <1>4, <1>5, <1>7 DEF AsMade, n
<1>9. ListedOnce
  BY <1>5, <1>7 DEF ListedOnce
<1>10. IdsAreFirst
  <2>1. Len(catalogue) \in Nat
    BY <1>4, LenProperties
  <2> QED BY <1>5, <1>7, <2>1 DEF IdsAreFirst
<1>11. NoneLeftOut
  BY <1>5 DEF NoneLeftOut
<1> QED BY <1>8, <1>9, <1>10, <1>11, <1>12 DEF RulesInv

\* A page of ids goes on where the pages before it ended.
LEMMA QueryRulesInv ==
    ASSUME RulesInv, NEW stated \in BOOLEAN, QueryRules(stated) PROVE RulesInv'
<1> DEFINE old == listing.ids
           page == Part(catalogue, listing.offset, IdBatch)
           ids == old \o page
           last == Len(ids) >= (IF stated THEN Len(catalogue) ELSE 0) \/ page = <<>>
           at == IF ~last THEN "ids" ELSE IF ids = <<>> THEN "listed" ELSE "rules"
<1>1. /\ listing.pc = "ids" /\ RulesTyped /\ listing \in Listing
      /\ listing' = [listing EXCEPT !.ids = ids, !.offset = IF last THEN @ ELSE @ + IdBatch, !.pc = at]
      /\ changes' = [changes EXCEPT !.unstated = @ \/ ~stated]
      /\ catalogue' = catalogue /\ matching' = matching /\ newest' = newest
  BY DEF QueryRules, RulesInv, RulesTyped
<1>2. /\ old \in Seq(Rule) /\ catalogue \in Seq(Rule) /\ IdBatch \in Nat \ {0}
      /\ listing.offset = Len(old) /\ listing.offset \in Nat
      /\ changes.made \in Nat /\ IsInjective(catalogue)
  BY <1>1, RulesTypes DEF RulesTyped
<1>3. page = Part(catalogue, Len(old), IdBatch)
  BY <1>2
<1>4. /\ listing'.pc = at /\ listing'.ids = ids
      /\ listing'.offset = IF last THEN listing.offset ELSE listing.offset + IdBatch
      /\ listing'.details = listing.details /\ listing'.batch = listing.batch
      /\ listing'.rules = listing.rules /\ listing'.max = listing.max /\ listing'.total = listing.total
  BY <1>1 DEF Listing
<1>5. /\ at \in {"ids", "rules", "listed"} /\ (at = "ids" <=> ~last)
      /\ (at = "listed" => ids = <<>>) /\ (at # "ids" => last)
  OBVIOUS
<1> HIDE DEF at
<1>6. ids \in Seq(Rule) /\ IdsGoOn(ids, old, page, catalogue, IdBatch)
  <2> HIDE DEF old
  <2>1. old \in Seq(Rule) /\ catalogue \in Seq(Rule) /\ IdBatch \in Nat \ {0}
    BY <1>2
  <2> QED BY <1>2, <2>1, PageOfIds
<1> HIDE DEF page, ids
<1>16. /\ {Len(catalogue), Len(old), Len(ids)} \subseteq Nat /\ Len(old) <= Len(ids)
       /\ DOMAIN ids = 1..Len(ids) /\ (ids = <<>> => Len(ids) = 0) /\ ids \in Seq(Rule)
  BY <1>6 DEF IdsGoOn
<1>7. /\ \A i \in 1..Len(ids) : ids[i] = IF i <= Len(old) THEN old[i] ELSE catalogue[i]
      /\ \A i \in 1..Len(ids) : i > Len(old) => i \in 1..Len(catalogue)
  BY <1>6 DEF IdsGoOn
<1>8. /\ page # <<>> /\ Len(ids) < Len(catalogue) => Len(ids) = Len(old) + IdBatch
      /\ page = <<>> => Len(old) >= Len(catalogue)
      /\ Len(old) <= Len(catalogue) => Len(ids) <= Len(catalogue)
  BY <1>6 DEF IdsGoOn
<1>9. ~last => Len(ids) = Len(old) + IdBatch
  BY <1>16, <1>8
<1>10. last /\ stated => Len(old) >= Len(catalogue) \/ Len(ids) >= Len(catalogue)
  BY <1>16, <1>8
<1> HIDE DEF last
<1>11. listing.details = <<>> /\ listing.batch = 1 /\ listing.rules = <<>> /\ listing.total = 0
  BY <1>1 DEF RulesTyped
<1>12. /\ changes'.made = changes.made /\ changes'.removed = changes.removed
       /\ (~changes'.unstated => stated)
       /\ changes' \in [made : Nat, removed : Nat, unstated : BOOLEAN, skipped : BOOLEAN]
  BY <1>1 DEF RulesTyped
<1>13. RulesTyped'
  <2>1. listing' \in Listing
    <3>1. listing.offset + IdBatch \in Nat
      BY <1>2
    <3> QED BY <1>1, <1>2, <1>5, <1>16, <3>1 DEF Listing
  <2>2. Len(<<>>) = 0 /\ listing.max \in Int
    BY <1>1, RulesTypes
  <2>3. IsCutLength(Len(listing'.rules), listing'.total, listing'.max)
    BY <1>4, <1>11, <2>2 DEF IsCutLength
  <2>4. listing'.pc = "ids" => listing'.offset = Len(listing'.ids)
    BY <1>2, <1>4, <1>5, <1>9
  <2>5. Range(listing'.rules) \subseteq matching'
    BY <1>1, <1>4 DEF RulesTyped
  <2> QED BY <1>1, <1>2, <1>4, <1>11, <1>12, <2>1, <2>3, <2>4, <2>5 DEF RulesTyped
<1>14. AsMade' /\ ListedOnce'
  <2>1. /\ IsInjective(old) /\ newest \in 0..MaxRule
        /\ \A i \in 1..Len(catalogue) : catalogue[i] <= newest
        /\ \A i, j \in 1..Len(catalogue) : i < j => catalogue[i] < catalogue[j]
        /\ \A j \in 1..Len(old) :
              /\ old[j] <= newest
              /\ \A i \in 1..Len(catalogue) : i > Len(old) => old[j] < catalogue[i]
    BY <1>1 DEF RulesInv, AsMade, ListedOnce
  <2>2. DOMAIN old = 1..Len(old) /\ DOMAIN catalogue = 1..Len(catalogue)
    BY <1>2, LenProperties
  <2>3. /\ \A j \in 1..Len(old) : old[j] \in Int
        /\ \A i \in 1..Len(catalogue) : catalogue[i] \in Int
    <3>1. Rule \subseteq Int
      BY RuleListingAssumption DEF Rule
    <3> QED BY <1>2, <3>1, ElementOfSeq
  <2> HIDE DEF old
  <2>4. ASSUME NEW j \in 1..Len(ids)
        PROVE  \/ j \in 1..Len(old) /\ ids[j] = old[j]
               \/ j \in 1..Len(catalogue) /\ j > Len(old) /\ ids[j] = catalogue[j]
    BY <1>16, <1>7
  <2>5. ASSUME NEW j \in 1..Len(ids)
        PROVE  /\ ids[j] \in Int /\ ids[j] <= newest
               /\ \A i \in 1..Len(catalogue) : i > Len(old) /\ i > j => ids[j] < catalogue[i]
    BY <2>1, <2>3, <2>4
  <2>6. IsInjective(ids)
    <3>1. ASSUME NEW i \in 1..Len(ids), NEW j \in 1..Len(ids), i < j PROVE ids[i] # ids[j]
      <4>1. CASE j \in 1..Len(catalogue) /\ j > Len(old) /\ ids[j] = catalogue[j]
        BY <2>3, <2>5, <3>1, <4>1
      <4>2. CASE j \in 1..Len(old) /\ ids[j] = old[j]
        <5>1. i \in 1..Len(old) /\ ids[i] = old[i]
          BY <1>16, <2>4, <3>1, <4>2
        <5> QED BY <2>1, <2>2, <3>1, <4>2, <5>1 DEF IsInjective
      <4> QED BY <2>4, <4>1, <4>2
    <3> QED BY <1>16, <3>1 DEF IsInjective
  <2>7. \A j \in 1..Len(ids) :
           /\ ids[j] <= newest
           /\ \A i \in 1..Len(catalogue) : i > Len(ids) => ids[j] < catalogue[i]
    BY <1>16, <2>5
  <2>8. AsMade'
    BY <1>1, <1>4, <2>1, <2>7 DEF AsMade
  <2>9. IsInjective(<<>>) /\ Range(<<>>) = {}
    BY DEF IsInjective, Range
  <2> QED BY <1>4, <1>11, <2>6, <2>8, <2>9 DEF ListedOnce
<1>15. changes'.removed = 0 => IdsAreFirst' /\ NoneLeftOut'
  <2> SUFFICES ASSUME changes.removed = 0 PROVE IdsAreFirst' /\ NoneLeftOut'
    BY <1>12
  <2>1. Len(old) <= Len(catalogue) /\ \A i \in 1..Len(old) : old[i] = catalogue[i]
    BY <1>1 DEF RulesInv, IdsAreFirst
  <2> HIDE DEF old
  <2>2. Len(ids) <= Len(catalogue) /\ \A i \in 1..Len(ids) : ids[i] = catalogue[i]
    BY <1>16, <1>7, <1>8, <2>1
  <2>3. IdsAreFirst'
    BY <1>1, <1>4, <2>2 DEF IdsAreFirst
  <2>4. at # "ids" /\ ~changes'.unstated => Len(catalogue) <= Len(ids) + changes.made
    BY <1>2, <1>5, <1>16, <1>10, <1>12, <2>1
  <2>5. \A j \in 1..Len(ids) : ~(j < 1)
    BY <1>16
  <2>6. ASSUME at = "listed", ~changes'.unstated
        PROVE  LET there == Cardinality(Range(catalogue) \cap matching)
               IN  0 \in (IF changes.made > there THEN 0 ELSE there - changes.made)..there
    <3> DEFINE there == Cardinality(Range(catalogue) \cap matching)
    <3>1. Len(catalogue) <= changes.made
      BY <1>2, <1>5, <1>16, <2>4, <2>6
    <3>2. IsFiniteSet(Range(catalogue)) /\ Cardinality(Range(catalogue)) = Len(catalogue)
      BY <1>2, RangeCount
    <3>3. there \in Nat /\ there <= Len(catalogue)
      BY <3>2, FS_Intersection, FS_CardinalityType
    <3> HIDE DEF there
    <3>4. 0 \in (IF changes.made > there THEN 0 ELSE there - changes.made)..there
      BY <1>2, <1>16, <3>1, <3>3
    <3> QED BY <3>4 DEF there
  <2>7. NoneLeftOut'
    BY <1>1, <1>4, <1>11, <1>12, <2>4, <2>5, <2>6 DEF NoneLeftOut
  <2> QED BY <2>3, <2>7
<1> QED BY <1>13, <1>14, <1>15 DEF RulesInv

LEMMA ListingFailsInv == ASSUME RulesInv, ListingFails PROVE RulesInv'
<1>1. /\ listing' = [listing EXCEPT !.pc = "failed"] /\ listing \in Listing
      /\ catalogue' = catalogue /\ matching' = matching /\ newest' = newest /\ changes' = changes
      /\ listing.pc \in {"ids", "rules"}
  BY DEF ListingFails, RulesInv, RulesTyped
<1>2. listing' \in Listing /\ listing'.pc = "failed" /\ listing'.rules = listing.rules
  BY <1>1 DEF Listing
<1>3. RulesTyped'
  BY <1>1, <1>2 DEF RulesInv, RulesTyped
<1>4. AsMade' /\ ListedOnce' /\ IdsAreFirst' /\ NoneLeftOut'
  BY <1>1, <1>2 DEF RulesInv, AsMade, ListedOnce, IdsAreFirst, NoneLeftOut
<1> QED BY <1>3, <1>4 DEF RulesInv

\* A batch left out is one whose rules nothing counts on.
LEMMA RuleBatchRefusedInv == ASSUME RulesInv, RuleBatchRefused PROVE RulesInv'
<1>1. /\ listing.pc = "rules" /\ RulesTyped /\ listing \in Listing
      /\ listing' = [listing EXCEPT !.batch = @ + RuleBatch]
      /\ changes' = [changes EXCEPT !.skipped = TRUE]
      /\ catalogue' = catalogue /\ matching' = matching /\ newest' = newest
  BY DEF RuleBatchRefused, BatchLeft, RulesInv, RulesTyped
<1>2. listing.batch \in Nat \ {0} /\ RuleBatch \in Nat \ {0} /\ Len(listing.ids) \in Nat
      /\ listing.batch + RuleBatch \in Nat \ {0}
  BY <1>1, RulesTypes
<1>3. /\ listing' \in Listing /\ listing'.pc = "rules" /\ listing'.rules = listing.rules
      /\ listing'.ids = listing.ids /\ listing'.details = listing.details
      /\ listing'.batch = listing.batch + RuleBatch
  <2> DEFINE next == listing.batch + RuleBatch
  <2>1. next \in Nat \ {0} /\ listing' = [listing EXCEPT !.batch = next]
    BY <1>1, <1>2
  <2> HIDE DEF next
  <2>2. /\ listing' \in Listing /\ listing'.pc = "rules" /\ listing'.rules = listing.rules
        /\ listing'.ids = listing.ids /\ listing'.details = listing.details
        /\ listing'.batch = next
    BY <1>1, <2>1 DEF Listing
  <2> QED BY <2>2 DEF next
<1>4. /\ changes'.made = changes.made /\ changes'.removed = changes.removed
      /\ changes'.unstated = changes.unstated /\ changes'.skipped
      /\ changes' \in [made : Nat, removed : Nat, unstated : BOOLEAN, skipped : BOOLEAN]
  BY <1>1 DEF RulesTyped
<1>5. RulesTyped'
  BY <1>1, <1>3, <1>4 DEF RulesTyped
<1>6. AsMade' /\ ListedOnce'
  <2>1. /\ IsInjective(listing.ids) /\ IsInjective(listing.details)
        /\ \A r \in Range(listing.details) :
              \E j \in 1..Len(listing.ids) : j < listing.batch /\ listing.ids[j] = r
    BY <1>1 DEF RulesInv, ListedOnce
  <2>2. \A j \in 1..Len(listing.ids) : j < listing.batch => j < listing.batch + RuleBatch
    BY <1>2
  <2>3. AsMade'
    BY <1>1, <1>3 DEF RulesInv, AsMade
  <2> QED BY <1>3, <2>1, <2>2, <2>3 DEF ListedOnce
<1>7. changes'.removed = 0 => IdsAreFirst' /\ NoneLeftOut'
  BY <1>1, <1>3, <1>4 DEF RulesInv, IdsAreFirst, NoneLeftOut
<1> QED BY <1>5, <1>6, <1>7 DEF RulesInv

\* What a batch adds is of the ids from listing.batch on, each that is there once.
LEMMA GetRuleBatchInv == ASSUME RulesInv, GetRuleBatch PROVE RulesInv'
<1> DEFINE ids == listing.ids
           from == listing.batch - 1
           batch == Part(ids, from, RuleBatch)
           there == Range(batch) \cap Range(catalogue)
<1>1. /\ listing.pc = "rules" /\ RulesTyped /\ listing \in Listing /\ listing.batch <= Len(ids)
      /\ catalogue' = catalogue /\ matching' = matching /\ changes' = changes /\ newest' = newest
  BY DEF GetRuleBatch, BatchLeft, RulesInv, RulesTyped
<1>13. PICK got \in SetToSeqs(there) :
          listing' = [listing EXCEPT !.details = @ \o got, !.batch = @ + RuleBatch]
  BY DEF GetRuleBatch
<1> DEFINE details == listing.details \o got
<1>14. listing' = [listing EXCEPT !.details = details, !.batch = @ + RuleBatch]
  BY <1>13
<1>2. /\ ids \in Seq(Rule) /\ Len(ids) \in Nat /\ listing.details \in Seq(Rule)
      /\ listing.batch \in Nat \ {0} /\ RuleBatch \in Nat \ {0}
      /\ catalogue \in Seq(Rule)
  BY <1>1, RulesTypes DEF RulesTyped
<1>3. from \in Nat /\ listing.batch = from + 1
  BY <1>2
<1> HIDE DEF from
<1>4. batch \in Seq(Rule) /\ IsPart(batch, ids, from, RuleBatch)
  <2> HIDE DEF ids
  <2> QED BY <1>2, <1>3, PartProperties
<1> HIDE DEF batch
<1>5. got \in Seq(Rule) /\ Range(got) = Range(batch) \cap Range(catalogue) /\ IsInjective(got)
  <2>1. IsFiniteSet(there)
    <3>1. IsFiniteSet(Range(batch))
      BY <1>4, RangeIsFinite
    <3> QED BY <3>1, FS_Subset
  <2>2. got \in Seq(there) /\ Range(got) = there /\ IsInjective(got)
    BY <2>1, OrdersProperties
  <2>3. got \in Seq(Rule)
    <3>1. there \subseteq Rule
      BY <1>4, RangeOfSeq
    <3> QED BY <2>2, <3>1, SeqDef
  <2> QED BY <2>2, <2>3
<1> HIDE DEF there
<1>6. details \in Seq(Rule) /\ Range(details) = Range(listing.details) \cup Range(got)
  BY <1>2, <1>5, ConcatProperties, RangeConcatenation
<1>7. IsInjective(listing.details) /\ IsInjective(got) /\ Range(listing.details) \cap Range(got) = {}
         => IsInjective(details)
  BY <1>2, <1>5, InjectiveConcat
<1> HIDE DEF details
<1>8. /\ listing' \in Listing /\ listing'.pc = "rules" /\ listing'.rules = listing.rules
      /\ listing'.ids = ids /\ listing'.details = details
      /\ listing'.batch = listing.batch + RuleBatch
  <2> DEFINE next == listing.batch + RuleBatch
  <2>1. next \in Nat \ {0} /\ listing' = [listing EXCEPT !.details = details, !.batch = next]
    BY <1>14, <1>2
  <2> HIDE DEF next
  <2>2. /\ listing' \in Listing /\ listing'.pc = "rules" /\ listing'.rules = listing.rules
        /\ listing'.ids = ids /\ listing'.details = details /\ listing'.batch = next
    BY <1>1, <1>6, <2>1 DEF Listing
  <2> QED BY <2>2 DEF next
<1>9. /\ DOMAIN batch = 1..Len(batch) /\ DOMAIN ids = 1..Len(ids)
      /\ {Len(batch), Len(ids)} \subseteq Nat /\ Len(batch) <= RuleBatch
      /\ \A i \in 1..Len(batch) : from + i \in 1..Len(ids) /\ batch[i] = ids[from + i]
      /\ from + RuleBatch < Len(ids) => Len(batch) = RuleBatch
      /\ from + RuleBatch >= Len(ids) /\ from <= Len(ids) => from + Len(batch) = Len(ids)
  BY <1>2, <1>4, LenProperties DEF IsPart
<1>10. RulesTyped'
  BY <1>1, <1>8 DEF RulesTyped
<1>11. AsMade' /\ ListedOnce'
  <2>1. /\ IsInjective(ids) /\ IsInjective(listing.details)
        /\ \A r \in Range(listing.details) :
              \E j \in 1..Len(ids) : j < listing.batch /\ ids[j] = r
    BY <1>1 DEF RulesInv, ListedOnce
  <2>2. AsMade'
    BY <1>1, <1>8 DEF RulesInv, AsMade
  <2> HIDE DEF ids
  <2>3. ASSUME NEW r \in Range(batch)
        PROVE  \E j \in 1..Len(ids) : j >= listing.batch /\ j < listing.batch + RuleBatch /\ ids[j] = r
    <3>1. PICK i \in 1..Len(batch) : batch[i] = r
      BY <1>9 DEF Range
    <3>2. from + i \in 1..Len(ids) /\ ids[from + i] = r
      BY <1>9, <3>1
    <3>3. from + i >= from + 1 /\ from + i < from + 1 + RuleBatch
      <4>1. Len(batch) \in Nat /\ Len(batch) <= RuleBatch /\ RuleBatch \in Nat
        BY <1>2, <1>9
      <4>2. from \in Nat /\ i \in Nat /\ i >= 1 /\ i <= Len(batch)
        BY <1>3, <4>1
      <4> DEFINE len == Len(batch)
      <4>3. /\ len \in Nat /\ RuleBatch \in Nat /\ len <= RuleBatch
            /\ from \in Nat /\ i \in Nat /\ i >= 1 /\ i <= len
        BY <4>1, <4>2
      <4> HIDE DEF len
      <4> QED BY ONLY <4>3, SMT
    <3> QED BY <1>3, <3>2, <3>3
  <2>4. Range(listing.details) \cap Range(got) = {}
    <3> SUFFICES ASSUME NEW r \in Range(listing.details), r \in Range(batch) PROVE FALSE
      BY <1>5
    <3>1. PICK j \in 1..Len(ids) : j < listing.batch /\ ids[j] = r
      BY <2>1
    <3>2. PICK k \in 1..Len(ids) : k >= listing.batch /\ ids[k] = r
      BY <2>3
    <3>3. j = k
      BY <1>9, <2>1, <3>1, <3>2 DEF IsInjective
    <3> QED BY <1>2, <3>1, <3>2, <3>3
  <2>5. IsInjective(details)
    BY <1>5, <1>7, <2>1, <2>4
  <2>6. ASSUME NEW r \in Range(details)
        PROVE  \E j \in 1..Len(ids) : j < listing.batch + RuleBatch /\ ids[j] = r
    <3>1. CASE r \in Range(listing.details)
      <4>1. PICK j \in 1..Len(ids) : j < listing.batch /\ ids[j] = r
        BY <2>1, <3>1
      <4> QED BY <1>2, <4>1
    <3>2. CASE r \in Range(batch)
      BY <2>3, <3>2
    <3> QED BY <1>5, <1>6, <3>1, <3>2
  <2> QED BY <1>8, <2>1, <2>2, <2>5, <2>6 DEF ListedOnce
<1>12. changes'.removed = 0 => IdsAreFirst' /\ NoneLeftOut'
  <2> SUFFICES ASSUME changes.removed = 0 PROVE IdsAreFirst' /\ NoneLeftOut'
    BY <1>1
  <2>1. /\ Len(ids) <= Len(catalogue) /\ \A i \in 1..Len(ids) : ids[i] = catalogue[i]
        /\ ~changes.unstated => Len(catalogue) <= Len(ids) + changes.made
        /\ ~changes.skipped =>
              \A j \in 1..Len(ids) : j < listing.batch => ids[j] \in Range(listing.details)
    BY <1>1 DEF RulesInv, IdsAreFirst, NoneLeftOut
  <2> HIDE DEF ids
  <2>2. DOMAIN catalogue = 1..Len(catalogue) /\ Len(catalogue) \in Nat
    BY <1>2, LenProperties
  <2>3. ASSUME NEW j \in 1..Len(ids), ~(j < listing.batch), j < listing.batch + RuleBatch
        PROVE  ids[j] \in Range(got)
    <3>1. j - from \in 1..Len(batch) /\ from + (j - from) = j
      <4>1. ~(j < from + 1) /\ j < from + 1 + RuleBatch /\ RuleBatch \in Nat /\ j \in Nat
        BY <1>2, <1>3, <2>3
      <4>2. /\ {Len(batch), Len(ids)} \subseteq Nat
            /\ from + RuleBatch < Len(ids) => Len(batch) = RuleBatch
            /\ from + RuleBatch >= Len(ids) /\ from <= Len(ids) => from + Len(batch) = Len(ids)
        BY <1>9
      <4> QED BY <1>3, <4>1, <4>2
    <3>2. ids[j] \in Range(batch)
      <4>1. batch[j - from] = ids[j]
        BY <1>9, <3>1
      <4> QED BY <1>9, <3>1, <4>1 DEF Range
    <3>3. ids[j] \in Range(catalogue)
      <4>1. j \in 1..Len(catalogue) /\ ids[j] = catalogue[j]
        BY <1>2, <2>1, <2>2
      <4> QED BY <2>2, <4>1 DEF Range
    <3> QED BY <1>5, <3>2, <3>3
  <2>4. IdsAreFirst'
    BY <1>1, <1>8, <2>1 DEF IdsAreFirst
  <2>5. NoneLeftOut'
    BY <1>1, <1>6, <1>8, <2>1, <2>3 DEF NoneLeftOut
  <2> QED BY <2>4, <2>5
<1> QED BY <1>10, <1>11, <1>12 DEF RulesInv

\* The cut is of rules that passed the filters; when all that were there were
\* got, those not counted are of the rules made meanwhile.
LEMMA ListRulesInv == ASSUME RulesInv, ListRules PROVE RulesInv'
<1> DEFINE filtered == Among(listing.details, matching)
           shownRules == Cut(filtered, listing.max)
<1>1. /\ listing.pc = "rules" /\ RulesTyped /\ listing \in Listing /\ ~(listing.batch <= Len(listing.ids))
      /\ listing' = [listing EXCEPT !.pc = "listed", !.total = Len(filtered), !.rules = shownRules]
      /\ catalogue' = catalogue /\ matching' = matching /\ changes' = changes /\ newest' = newest
  BY DEF ListRules, BatchLeft, RulesInv, RulesTyped
<1>2. /\ listing.details \in Seq(Rule) /\ listing.max \in Int /\ Len(listing.ids) \in Nat
      /\ listing.batch \in Nat \ {0} /\ changes.made \in Nat
      /\ catalogue \in Seq(Rule) /\ IsInjective(catalogue)
      /\ listing.ids \in Seq(Rule)
  BY <1>1, RulesTypes DEF RulesTyped
<1>3. /\ filtered \in Seq(Rule) /\ Range(filtered) = Range(listing.details) \cap matching
      /\ IsInjective(listing.details) => IsInjective(filtered)
  BY <1>2, AmongProperties
<1> HIDE DEF filtered
<1>4. shownRules \in Seq(Rule) /\ IsCut(shownRules, filtered, listing.max)
  BY <1>2, <1>3, CutProperties
<1> HIDE DEF shownRules
<1>5. /\ {Len(shownRules), Len(filtered)} \subseteq Nat
      /\ DOMAIN shownRules = 1..Len(shownRules) /\ DOMAIN filtered = 1..Len(filtered)
      /\ \A i \in 1..Len(shownRules) : i \in 1..Len(filtered) /\ shownRules[i] = filtered[i]
  BY <1>3, <1>4, LenProperties DEF IsCut
<1>6. IsCutLength(Len(shownRules), Len(filtered), listing.max)
  BY <1>4 DEF IsCut
<1>7. /\ listing' \in Listing /\ listing'.pc = "listed" /\ listing'.max = listing.max
      /\ listing'.total = Len(filtered) /\ listing'.rules = shownRules
  BY <1>1, <1>4, <1>5 DEF Listing
<1>8. RulesTyped'
  <2>1. Range(shownRules) \subseteq matching
    BY <1>3, <1>5 DEF Range
  <2> QED BY <1>1, <1>6, <1>7, <2>1 DEF RulesTyped
<1>9. AsMade' /\ ListedOnce'
  <2>1. IsInjective(filtered)
    BY <1>1, <1>3 DEF RulesInv, ListedOnce
  <2>2. IsInjective(shownRules)
    BY <1>5, <2>1 DEF IsInjective
  <2>3. AsMade'
    BY <1>1, <1>7 DEF RulesInv, AsMade
  <2> QED BY <1>7, <2>2, <2>3 DEF ListedOnce
<1>10. changes'.removed = 0 => IdsAreFirst' /\ NoneLeftOut'
  <2> SUFFICES ASSUME changes.removed = 0, ~changes.unstated, ~changes.skipped
               PROVE  LET there == Cardinality(Range(catalogue) \cap matching)
                      IN  Len(filtered) \in (IF changes.made > there THEN 0 ELSE there - changes.made)..there
    BY <1>1, <1>7 DEF IdsAreFirst, NoneLeftOut
  <2> DEFINE ids == listing.ids
             A == Range(ids)
             B == Range(catalogue)
             there == Cardinality(B \cap matching)
  <2>1. /\ Len(ids) <= Len(catalogue) /\ \A i \in 1..Len(ids) : ids[i] = catalogue[i]
        /\ Len(catalogue) <= Len(ids) + changes.made
        /\ \A j \in 1..Len(ids) : j < listing.batch => ids[j] \in Range(listing.details)
        /\ IsInjective(ids) /\ IsInjective(listing.details)
        /\ \A r \in Range(listing.details) :
              \E j \in 1..Len(ids) : j < listing.batch /\ ids[j] = r
    <3>1. IdsAreFirst /\ NoneLeftOut /\ ListedOnce
      BY DEF RulesInv
    <3>2. Len(ids) <= Len(catalogue) /\ \A i \in 1..Len(ids) : ids[i] = catalogue[i]
      BY <1>1, <3>1 DEF IdsAreFirst
    <3>3. Len(catalogue) <= Len(ids) + changes.made
      BY <1>1, <3>1 DEF NoneLeftOut
    <3>4. \A j \in 1..Len(ids) : j < listing.batch => ids[j] \in Range(listing.details)
      BY <1>1, <3>1 DEF NoneLeftOut
    <3>5. /\ IsInjective(ids) /\ IsInjective(listing.details)
          /\ \A r \in Range(listing.details) :
                \E j \in 1..Len(ids) : j < listing.batch /\ ids[j] = r
      BY <1>1, <3>1 DEF ListedOnce
    <3> QED BY <3>2, <3>3, <3>4, <3>5
  <2>2. /\ DOMAIN ids = 1..Len(ids) /\ DOMAIN catalogue = 1..Len(catalogue)
        /\ Len(ids) \in Nat /\ Len(catalogue) \in Nat
    BY <1>2, LenProperties
  <2>3. ASSUME NEW j \in 1..Len(ids) PROVE j < listing.batch
    <3> DEFINE last == Len(ids)
               next == listing.batch
    <3>1. last \in Nat /\ next \in Nat /\ ~(next <= last) /\ j \in 1..last
      BY <1>1, <1>2, <2>2
    <3> HIDE DEF last, next
    <3>2. j < next
      BY ONLY <3>1, SMT
    <3> QED BY <3>2 DEF next
  <2>4. Range(listing.details) = A
    <3> DEFINE got == Range(listing.details)
    <3>1. \A j \in 1..Len(ids) : ids[j] \in got
      BY <2>1, <2>3
    <3>2. \A r \in got : \E j \in 1..Len(ids) : ids[j] = r
      BY <2>1
    <3> HIDE DEF got
    <3>3. \A r : r \in A <=> r \in got
      BY <2>2, <3>1, <3>2 DEF Range
    <3>4. got = A
      BY ONLY <3>3
    <3> QED BY <3>4 DEF got
  <2>5. A \in SUBSET B
    BY <2>1, <2>2 DEF Range
  <2>6. /\ IsFiniteSet(A) /\ Cardinality(A) = Len(ids)
        /\ IsFiniteSet(B) /\ Cardinality(B) = Len(catalogue)
    BY <1>2, <2>1, RangeCount
  <2>7. Cardinality(Range(filtered)) = Len(filtered)
    BY <1>3, <2>1, RangeCount
  <2>8. Range(filtered) = A \cap matching
    BY <1>3, <2>4
  <2>9. Cardinality(B) <= Cardinality(A) + changes.made
    BY <2>1, <2>6
  <2> HIDE DEF A, B
  <2>10. /\ Cardinality(A \cap matching) \in Nat /\ Cardinality(B \cap matching) \in Nat
         /\ Cardinality(A \cap matching) <= Cardinality(B \cap matching)
         /\ Cardinality(B \cap matching) <= Cardinality(A \cap matching) + changes.made
    BY <1>2, <2>5, <2>6, <2>9, AllButSome
  <2>11. Len(filtered) = Cardinality(A \cap matching)
    BY <2>7, <2>8
  <2> HIDE DEF there
  <2>12. there \in Nat /\ Len(filtered) \in Nat /\ Len(filtered) <= there
         /\ there <= Len(filtered) + changes.made
    BY <2>10, <2>11 DEF there
  <2> DEFINE made == changes.made
  <2>13. made \in Nat
    BY <1>2
  <2> HIDE DEF made
  <2>14. Len(filtered) \in (IF made > there THEN 0 ELSE there - made)..there
    <3>1. there <= Len(filtered) + made
      BY <2>12 DEF made
    <3> QED BY <2>12, <2>13, <3>1
  <2> QED BY <2>14 DEF made, there, B
<1> QED BY <1>8, <1>9, <1>10 DEF RulesInv

\* A rule made is newer than any there is and any asked for.
LEMMA RuleMadeInv == ASSUME RulesInv, RuleMade PROVE RulesInv'
<1> DEFINE r == newest + 1
<1>1. /\ listing.pc \in {"ids", "rules"} /\ RulesTyped /\ AsMade /\ ListedOnce
      /\ catalogue' = Append(catalogue, r) /\ changes' = [changes EXCEPT !.made = @ + 1]
      /\ matching' = matching /\ listing' = listing
      /\ newest' = r /\ newest < MaxRule
  BY DEF RuleMade, Ongoing, RulesInv
<1>9. r \in Rule /\ newest \in Nat /\ r \in 0..MaxRule /\ MaxRule \in Nat
  BY <1>1, RuleListingAssumption DEF AsMade, Rule
<1>2. /\ catalogue \in Seq(Rule) /\ IsInjective(catalogue) /\ Len(catalogue) \in Nat
      /\ DOMAIN catalogue = 1..Len(catalogue) /\ changes.made \in Nat
      /\ Len(listing.ids) \in Nat /\ DOMAIN listing.ids = 1..Len(listing.ids)
      /\ listing.ids \in Seq(Rule)
  BY <1>1, RulesTypes DEF RulesTyped
<1>10. /\ \A i \in 1..Len(catalogue) : catalogue[i] \in Nat
       /\ \A j \in 1..Len(listing.ids) : listing.ids[j] \in Nat
  <2>1. Rule \subseteq Nat
    BY <1>9 DEF Rule
  <2> QED BY <1>2, <2>1, ElementOfSeq
<1>11. /\ \A i \in 1..Len(catalogue) : catalogue[i] < r
       /\ listing.pc = "ids" => \A j \in 1..Len(listing.ids) : listing.ids[j] < r
  BY <1>1, <1>9, <1>10 DEF AsMade
<1> HIDE DEF r
<1>3. /\ catalogue' \in Seq(Rule) /\ Len(catalogue') = Len(catalogue) + 1
      /\ DOMAIN catalogue' = 1..Len(catalogue) + 1
      /\ \A i \in 1..Len(catalogue) : catalogue'[i] = catalogue[i]
      /\ catalogue'[Len(catalogue) + 1] = r
  <2>1. /\ Append(catalogue, r) \in Seq(Rule) /\ Len(Append(catalogue, r)) = Len(catalogue) + 1
        /\ \A i \in 1..Len(catalogue) : Append(catalogue, r)[i] = catalogue[i]
        /\ Append(catalogue, r)[Len(catalogue) + 1] = r
    BY <1>2, <1>9, AppendProperties
  <2> QED BY <1>1, <2>1, LenProperties
<1>4. IsInjective(catalogue')
  <2> SUFFICES ASSUME NEW i \in 1..Len(catalogue) + 1, NEW j \in 1..Len(catalogue) + 1,
                      catalogue'[i] = catalogue'[j]
               PROVE  i = j
    BY <1>3 DEF IsInjective
  <2>1. \A k \in 1..Len(catalogue) : catalogue[k] # r
    BY <1>9, <1>10, <1>11
  <2>2. \A k \in 1..Len(catalogue) + 1 : k \in 1..Len(catalogue) \/ k = Len(catalogue) + 1
    BY <1>2
  <2> QED BY <1>2, <1>3, <2>1, <2>2 DEF IsInjective
<1>5. /\ changes'.made = changes.made + 1 /\ changes'.removed = changes.removed
      /\ changes'.unstated = changes.unstated /\ changes'.skipped = changes.skipped
      /\ changes' \in [made : Nat, removed : Nat, unstated : BOOLEAN, skipped : BOOLEAN]
  BY <1>1, <1>2 DEF RulesTyped
<1>6. RulesTyped'
  BY <1>1, <1>3, <1>4, <1>5 DEF RulesTyped
<1>7. AsMade' /\ ListedOnce'
  <2>1. r \in Nat /\ newest < r
    BY <1>9 DEF r
  <2>2. ASSUME NEW i \in 1..Len(catalogue) + 1
        PROVE  \/ i \in 1..Len(catalogue) /\ catalogue'[i] = catalogue[i]
               \/ i = Len(catalogue) + 1 /\ catalogue'[i] = r
    BY <1>2, <1>3
  <2>3. \A i \in 1..Len(catalogue) + 1 : catalogue'[i] <= r
    BY <1>10, <1>11, <2>1, <2>2
  <2>4. ASSUME NEW i \in 1..Len(catalogue) + 1, NEW j \in 1..Len(catalogue) + 1, i < j
        PROVE  catalogue'[i] < catalogue'[j]
    <3>1. i \in 1..Len(catalogue) /\ catalogue'[i] = catalogue[i]
      BY <1>2, <2>2, <2>4
    <3> QED BY <1>1, <1>11, <2>2, <2>4, <3>1 DEF AsMade
  <2>5. ASSUME listing.pc = "ids", NEW j \in 1..Len(listing.ids)
        PROVE  /\ listing.ids[j] <= r
               /\ \A i \in 1..Len(catalogue) + 1 : i > Len(listing.ids) => listing.ids[j] < catalogue'[i]
    <3>1. listing.ids[j] < r /\ listing.ids[j] \in Nat
      BY <1>10, <1>11, <2>5
    <3>2. \A i \in 1..Len(catalogue) : i > Len(listing.ids) => listing.ids[j] < catalogue[i]
      BY <1>1, <2>5 DEF AsMade
    <3> QED BY <2>1, <2>2, <3>1, <3>2
  <2>6. AsMade'
    BY <1>1, <1>3, <1>9, <2>3, <2>4, <2>5 DEF AsMade
  <2> QED BY <1>1, <2>6 DEF ListedOnce
<1>8. changes'.removed = 0 => IdsAreFirst' /\ NoneLeftOut'
  <2> SUFFICES ASSUME changes.removed = 0 PROVE IdsAreFirst' /\ NoneLeftOut'
    BY <1>5
  <2>1. Len(listing.ids) <= Len(catalogue) /\ \A i \in 1..Len(listing.ids) : listing.ids[i] = catalogue[i]
    BY <1>1 DEF RulesInv, IdsAreFirst
  <2>2. IdsAreFirst'
    BY <1>1, <1>2, <1>3, <2>1 DEF IdsAreFirst
  <2>3. NoneLeftOut
    BY DEF RulesInv
  <2>4. listing.pc = "rules" /\ ~changes.unstated => Len(catalogue) + 1 <= Len(listing.ids) + (changes.made + 1)
    <3> DEFINE had == changes.made
    <3>1. listing.pc = "rules" /\ ~changes.unstated => Len(catalogue) <= Len(listing.ids) + had
      BY <2>3 DEF NoneLeftOut
    <3>2. had \in Nat
      BY <1>2
    <3> HIDE DEF had
    <3> DEFINE there == Len(catalogue)
               idsThere == Len(listing.ids)
    <3>3. there \in Nat /\ idsThere \in Nat
      BY <1>2
    <3>4. ASSUME there <= idsThere + had PROVE there + 1 <= idsThere + (had + 1)
      <4> HIDE DEF there, idsThere
      <4> QED BY <3>2, <3>3, <3>4
    <3> QED BY <3>1, <3>4 DEF had
  <2>5. NoneLeftOut'
    BY <1>1, <1>3, <1>5, <2>3, <2>4 DEF NoneLeftOut
  <2> QED BY <2>2, <2>5
<1> QED BY <1>6, <1>7, <1>8 DEF RulesInv

\* What is removed moves the rules after it up, so that those at the places
\* still to be asked for are as new as before, or newer.
LEMMA RuleRemovedInv == ASSUME RulesInv, NEW i, RuleRemoved(i) PROVE RulesInv'
<1>1. /\ listing.pc \in {"ids", "rules"} /\ i \in DOMAIN catalogue /\ RulesTyped /\ AsMade /\ ListedOnce
      /\ catalogue' = RemoveAt(catalogue, i) /\ changes' = [changes EXCEPT !.removed = @ + 1]
      /\ matching' = matching /\ listing' = listing /\ newest' = newest
  BY DEF RuleRemoved, Ongoing, RulesInv
<1>2. /\ catalogue \in Seq(Rule) /\ IsInjective(catalogue) /\ Len(catalogue) \in Nat
      /\ DOMAIN catalogue = 1..Len(catalogue) /\ changes.removed \in Nat /\ i \in 1..Len(catalogue)
      /\ Len(listing.ids) \in Nat
  BY <1>1, RulesTypes DEF RulesTyped
<1>3. /\ catalogue' \in Seq(Rule) /\ Len(catalogue') = Len(catalogue) - 1
      /\ \A j \in 1..Len(catalogue') : catalogue'[j] = IF j < i THEN catalogue[j] ELSE catalogue[j + 1]
  BY <1>1, <1>2, RemovalProperties
<1>4. DOMAIN catalogue' = 1..Len(catalogue) - 1
  BY <1>3, LenProperties
<1>5. ASSUME NEW j \in 1..Len(catalogue) - 1
      PROVE  \E k \in 1..Len(catalogue) : k = (IF j < i THEN j ELSE j + 1) /\ catalogue'[j] = catalogue[k]
  BY <1>2, <1>3
<1>6. IsInjective(catalogue')
  <2> SUFFICES ASSUME NEW j \in 1..Len(catalogue) - 1, NEW k \in 1..Len(catalogue) - 1,
                      catalogue'[j] = catalogue'[k]
               PROVE  j = k
    BY <1>4 DEF IsInjective
  <2>1. PICK p \in 1..Len(catalogue) : p = (IF j < i THEN j ELSE j + 1) /\ catalogue'[j] = catalogue[p]
    BY <1>5
  <2>2. PICK q \in 1..Len(catalogue) : q = (IF k < i THEN k ELSE k + 1) /\ catalogue'[k] = catalogue[q]
    BY <1>5
  <2>3. p = q
    BY <1>2, <2>1, <2>2 DEF IsInjective
  <2> QED BY <1>2, <2>1, <2>2, <2>3
<1>7. /\ changes'.made = changes.made /\ changes'.removed = changes.removed + 1
      /\ changes' \in [made : Nat, removed : Nat, unstated : BOOLEAN, skipped : BOOLEAN]
  BY <1>1, <1>2 DEF RulesTyped
<1>8. changes'.removed # 0
  BY <1>2, <1>7
<1>9. RulesTyped'
  BY <1>1, <1>3, <1>6, <1>7 DEF RulesTyped
<1>10. AsMade'
  <2>1. \A j \in 1..Len(catalogue) - 1 : catalogue'[j] <= newest
    BY <1>1, <1>5 DEF AsMade
  <2>2. ASSUME NEW j \in 1..Len(catalogue) - 1, NEW k \in 1..Len(catalogue) - 1, j < k
        PROVE  catalogue'[j] < catalogue'[k]
    <3>1. PICK p \in 1..Len(catalogue) : p = (IF j < i THEN j ELSE j + 1) /\ catalogue'[j] = catalogue[p]
      BY <1>5
    <3>2. PICK q \in 1..Len(catalogue) : q = (IF k < i THEN k ELSE k + 1) /\ catalogue'[k] = catalogue[q]
      BY <1>5
    <3>3. p < q
      BY <1>2, <2>2, <3>1, <3>2
    <3> QED BY <1>1, <3>1, <3>2, <3>3 DEF AsMade
  <2>3. ASSUME listing.pc = "ids", NEW j \in 1..Len(listing.ids),
               NEW k \in 1..Len(catalogue) - 1, k > Len(listing.ids)
        PROVE  listing.ids[j] < catalogue'[k]
    <3>1. PICK q \in 1..Len(catalogue) : q = (IF k < i THEN k ELSE k + 1) /\ catalogue'[k] = catalogue[q]
      BY <1>5
    <3>2. q > Len(listing.ids)
      BY <1>2, <2>3, <3>1
    <3> QED BY <1>1, <2>3, <3>1, <3>2 DEF AsMade
  <2>4. \A j \in 1..Len(listing.ids) : listing.pc = "ids" => listing.ids[j] <= newest
    BY <1>1 DEF AsMade
  <2>5. newest \in 0..MaxRule
    BY <1>1 DEF AsMade
  <2> QED BY <1>1, <1>3, <2>1, <2>2, <2>3, <2>4, <2>5 DEF AsMade
<1>11. ListedOnce'
  BY <1>1 DEF ListedOnce
<1> QED BY <1>8, <1>9, <1>10, <1>11 DEF RulesInv

LEMMA NextRulesInv == RulesInv /\ [LNext]_ruleVars => RulesInv'
<1> SUFFICES ASSUME RulesInv, [LNext]_ruleVars PROVE RulesInv'
  OBVIOUS
<1>1. CASE \E stated \in BOOLEAN : QueryRules(stated)
  BY <1>1, QueryRulesInv
<1>2. CASE ListingFails
  BY <1>2, ListingFailsInv
<1>3. CASE GetRuleBatch
  BY <1>3, GetRuleBatchInv
<1>4. CASE RuleBatchRefused
  BY <1>4, RuleBatchRefusedInv
<1>5. CASE ListRules
  BY <1>5, ListRulesInv
<1>6. CASE RuleMade
  BY <1>6, RuleMadeInv
<1>7. CASE \E i \in 1..MaxRule : RuleRemoved(i)
  BY <1>7, RuleRemovedInv
<1>8. CASE UNCHANGED ruleVars
  BY <1>8 DEF ruleVars, RulesInv, RulesTyped, AsMade, ListedOnce, IdsAreFirst, NoneLeftOut
<1> QED BY <1>1, <1>2, <1>3, <1>4, <1>5, <1>6, <1>7, <1>8 DEF LNext

\* A listing of correlation rules (_list_rules, correlation.py) has no rule twice
\* however rules are made and removed while it pages, shows as many as max_results
\* lets it, and counts each matching rule but those made meanwhile, when none is
\* removed and all is answered: for any catalogue, page and batch size.
THEOREM RulesCounted == ListingSpec => []ListingCounts
<1>1. RulesInv => ListingCounts
  BY DEF RulesInv, RulesTyped, IsCutLength, ListedOnce, NoneLeftOut, ListingCounts
<1> QED BY <1>1, InitRulesInv, NextRulesInv, PTL DEF ListingSpec

\* A rule listing (_list_rules) keeps its types, for any catalogue and batches.
THEOREM RulesTypeOK == ListingSpec => []LTypeOK
<1>1. ASSUME RulesInv PROVE LTypeOK
  <2>1. RulesTyped /\ catalogue \in Seq(Rule) /\ listing.ids \in Seq(Rule)
    BY <1>1, RulesTypes DEF RulesInv, RulesTyped
  <2>2. Range(catalogue) \subseteq Rule /\ Range(listing.ids) \subseteq Rule
    BY <2>1, RangeOfSeq
  <2>4. newest \in 0..MaxRule /\ Range(catalogue) \subseteq 1..newest
    <3>1. newest \in 0..MaxRule /\ DOMAIN catalogue = 1..Len(catalogue) /\ MaxRule \in Nat
          /\ \A i \in 1..Len(catalogue) : catalogue[i] <= newest
      BY <1>1, <2>1, LenProperties, RuleListingAssumption DEF RulesInv, AsMade
    <3>2. \A r \in Range(catalogue) : r \in Rule /\ r <= newest
      BY <2>2, <3>1 DEF Range
    <3> QED BY <3>1, <3>2 DEF Rule
  <2>3. listing.pc \in {"ids", "rules", "listed", "failed"} /\ listing.total \in Nat
    BY <2>1 DEF RulesTyped, Listing
  <2> QED BY <2>1, <2>2, <2>3, <2>4 DEF RulesTyped, LTypeOK
<1> QED BY <1>1, InitRulesInv, NextRulesInv, PTL DEF ListingSpec

-----------------------------------------------------------------------------
(* The risk timeline.                                                      *)

Kind == {"current_state", "risk", "change"}

\* A row: only the current state is of no event.
TimelineRow == [kind : Kind, source : Nat, nth : Nat, at : Time]
IsRow(r) == r \in TimelineRow /\ (r.kind = "current_state" <=> r.nth = 0)

\* Items of at most n, each with events of at most MaxEvents.
IsHistory(items, n) ==
    /\ DOMAIN items \subseteq 1..n
    /\ \A i \in DOMAIN items :
          /\ DOMAIN items[i] \subseteq 1..MaxEvents
          /\ \A k \in DOMAIN items[i] : items[i][k] \in Time

\* The rows of the risks' states, of the risks' events and of the changes'.
IsStateRow(r, risks) ==
    \E i \in DOMAIN risks : DOMAIN risks[i] = {} /\ r = Row("current_state", i, 0, asset.seen[i])
IsEventRow(r, kind, items) ==
    \E i \in DOMAIN items : \E k \in DOMAIN items[i] : r = Row(kind, i, k, items[i][k])

LEMMA RowsAre ==
    ASSUME NEW risks, NEW triggers, NEW r
    PROVE  r \in Rows(risks, triggers) <=>
              \/ IsStateRow(r, risks)
              \/ IsEventRow(r, "risk", risks)
              \/ IsEventRow(r, "change", triggers)
<1>1. r \in UNION {RiskRows(i, risks[i]) : i \in DOMAIN risks} <=>
         IsStateRow(r, risks) \/ IsEventRow(r, "risk", risks)
  <2>1. \A i \in DOMAIN risks :
           r \in RiskRows(i, risks[i]) <=>
              \/ DOMAIN risks[i] = {} /\ r = Row("current_state", i, 0, asset.seen[i])
              \/ \E k \in DOMAIN risks[i] : r = Row("risk", i, k, risks[i][k])
    BY DEF RiskRows
  <2>2. r \in UNION {RiskRows(i, risks[i]) : i \in DOMAIN risks}
           <=> \E i \in DOMAIN risks : r \in RiskRows(i, risks[i])
    OBVIOUS
  <2> QED BY ONLY <2>1, <2>2, Zenon DEF IsStateRow, IsEventRow
<1>2. r \in UNION {ChangeRows(i, triggers[i]) : i \in DOMAIN triggers} <=>
         IsEventRow(r, "change", triggers)
  BY DEF ChangeRows, IsEventRow
<1>3. r \in Rows(risks, triggers) <=>
         \/ r \in UNION {RiskRows(i, risks[i]) : i \in DOMAIN risks}
         \/ r \in UNION {ChangeRows(i, triggers[i]) : i \in DOMAIN triggers}
  <2> DEFINE A == UNION {RiskRows(i, risks[i]) : i \in DOMAIN risks}
             B == UNION {ChangeRows(i, triggers[i]) : i \in DOMAIN triggers}
  <2>1. Rows(risks, triggers) = A \cup B
    BY DEF Rows
  <2> HIDE DEF A, B
  <2>2. r \in Rows(risks, triggers) <=> r \in A \/ r \in B
    BY <2>1
  <2> QED BY <2>2 DEF A, B
<1> QED BY ONLY <1>1, <1>2, <1>3, Zenon

LEMMA RowsAreRows ==
    ASSUME NEW n \in Nat, NEW m \in Nat, NEW risks, NEW triggers,
           IsHistory(risks, n), IsHistory(triggers, m),
           \A i \in DOMAIN risks : asset.seen[i] \in Time,
           MaxEvents \in Nat
    PROVE  \A r \in Rows(risks, triggers) :
              IsRow(r) /\ r.source \in 1..n + m /\ r.nth \in 0..MaxEvents
<1> SUFFICES ASSUME NEW r \in Rows(risks, triggers)
             PROVE  IsRow(r) /\ r.source \in 1..n + m /\ r.nth \in 0..MaxEvents
  OBVIOUS
<1>1. CASE IsStateRow(r, risks)
  <2>1. PICK i \in DOMAIN risks : r = Row("current_state", i, 0, asset.seen[i])
    BY <1>1 DEF IsStateRow
  <2>2. i \in 1..n /\ asset.seen[i] \in Time
    BY DEF IsHistory
  <2>3. i \in 1..n + m /\ i \in Nat
    BY <2>2
  <2>4. r = [kind |-> "current_state", source |-> i, nth |-> 0, at |-> asset.seen[i]]
    BY <2>1 DEF Row
  <2>5. r \in TimelineRow
    BY <2>2, <2>3, <2>4 DEF TimelineRow, Kind
  <2>6. r.kind = "current_state" /\ r.nth = 0 /\ r.source = i
    BY <2>4
  <2>7. IsRow(r)
    BY <2>5, <2>6 DEF IsRow
  <2>8. r.source \in 1..n + m /\ r.nth \in 0..MaxEvents
    BY <2>3, <2>6
  <2> QED BY <2>7, <2>8
<1>2. ASSUME NEW kind \in {"risk", "change"}, NEW items, NEW l \in 0..n + m,
             IsHistory(items, l), IsEventRow(r, kind, items)
      PROVE  IsRow(r) /\ r.source \in 1..n + m /\ r.nth \in 0..MaxEvents
  <2>1. PICK i \in DOMAIN items : \E k \in DOMAIN items[i] : r = Row(kind, i, k, items[i][k])
    BY <1>2 DEF IsEventRow
  <2>4. PICK k \in DOMAIN items[i] : r = Row(kind, i, k, items[i][k])
    BY <2>1
  <2>2. i \in 1..l /\ k \in 1..MaxEvents /\ items[i][k] \in Time
    BY <1>2 DEF IsHistory
  <2>3. i \in 1..n + m /\ i \in Nat /\ k \in Nat \ {0} /\ k \in 0..MaxEvents
    BY <2>2
  <2> QED BY <2>4, <2>2, <2>3 DEF Row, IsRow, TimelineRow, Kind
<1>3. CASE IsEventRow(r, "risk", risks)
  BY <1>2, <1>3
<1>4. CASE IsEventRow(r, "change", triggers)
  BY <1>2, <1>4
<1> QED BY <1>1, <1>3, <1>4, RowsAre

\* There are finitely many rows.
LEMMA FiniteRows ==
    ASSUME NEW n \in Nat, NEW m \in Nat, NEW S,
           \A r \in S : IsRow(r) /\ r.source \in 1..n /\ r.nth \in 0..m,
           MaxTime \in Nat
    PROVE  IsFiniteSet(S)
<1> DEFINE T == (Kind \X (1..n)) \X ((0..m) \X Time)
           f == [r \in S |-> <<<<r.kind, r.source>>, <<r.nth, r.at>>>>]
<1>1. IsFiniteSet(T)
  <2>1. IsFiniteSet(1..n) /\ IsFiniteSet(0..m) /\ IsFiniteSet(Time)
    BY FS_Interval DEF Time
  <2>2. IsFiniteSet(Kind)
    <3>1. IsFiniteSet({"current_state"})
      BY FS_Singleton
    <3>2. IsFiniteSet({"current_state"} \cup {"risk"})
      BY <3>1, FS_AddElement
    <3>3. IsFiniteSet(({"current_state"} \cup {"risk"}) \cup {"change"})
      BY <3>2, FS_AddElement
    <3>4. Kind = ({"current_state"} \cup {"risk"}) \cup {"change"}
      BY DEF Kind
    <3> QED BY <3>3, <3>4
  <2>3. IsFiniteSet(Kind \X (1..n)) /\ IsFiniteSet((0..m) \X Time)
    BY <2>1, <2>2, FS_Product
  <2> QED BY <2>3, FS_Product
<1>2. f \in [S -> T]
  BY DEF IsRow, TimelineRow
<1>3. ASSUME NEW r \in S, NEW s \in S, f[r] = f[s] PROVE r = s
  <2>1. r.kind = s.kind /\ r.source = s.source /\ r.nth = s.nth /\ r.at = s.at
    BY <1>3
  <2>2. r \in TimelineRow /\ s \in TimelineRow
    BY DEF IsRow
  <2> QED BY <2>1, <2>2 DEF TimelineRow
<1>4. f \in Injection(S, T)
  BY <1>2, <1>3 DEF Injection, IsInjective
<1> QED BY <1>1, <1>4, FS_Injection

\* The rows above r in the timeline, and an order of the rows by them.
Over(s, r) == Above(s, r) \/ (~Above(r, s) /\ MadeBefore(s, r))
OverIn(S) == [r \in S |-> {s \in S : Over(s, r)}]

LEMMA OverIsOrder ==
    /\ \A r : IsRow(r) => ~Over(r, r)
    /\ \A r, s, t : IsRow(r) /\ IsRow(s) /\ IsRow(t) /\ Over(r, s) /\ Over(s, t) => Over(r, t)
    /\ \A r, s : IsRow(r) /\ IsRow(s) => r = s \/ Over(r, s) \/ Over(s, r)
    /\ \A r, s : IsRow(r) /\ IsRow(s) /\ Over(r, s) => ~Above(s, r)
<1> DEFINE Change(r) == IF r.kind = "change" THEN 1 ELSE 0
\* The sort as an order of four numbers.
<1>1. ASSUME NEW r, IsRow(r)
      PROVE  r.at \in Nat /\ r.source \in Nat /\ r.nth \in Nat /\ Change(r) \in {0, 1}
  <2>1. r \in TimelineRow
    BY <1>1 DEF IsRow
  <2>2. r.at \in Nat /\ r.source \in Nat /\ r.nth \in Nat
    BY <2>1 DEF TimelineRow, Time
  <2> QED BY <2>2
<1>2. ASSUME NEW r, NEW s, IsRow(r), IsRow(s)
      PROVE  /\ Above(r, s) <=> r.at > s.at \/ (r.at = s.at /\ Change(r) < Change(s))
             /\ MadeBefore(r, s) <=>
                   \/ Change(r) < Change(s)
                   \/ /\ Change(r) = Change(s)
                      /\ r.source < s.source \/ (r.source = s.source /\ r.nth < s.nth)
  BY DEF Above, MadeBefore
<1>3. ASSUME NEW r, NEW s, IsRow(r), IsRow(s)
      PROVE  Over(r, s) <=>
                \/ r.at > s.at
                \/ r.at = s.at /\ Change(r) < Change(s)
                \/ r.at = s.at /\ Change(r) = Change(s) /\ r.source < s.source
                \/ r.at = s.at /\ Change(r) = Change(s) /\ r.source = s.source /\ r.nth < s.nth
  <2> HIDE DEF Change
  <2> QED BY <1>1, <1>2, <1>3 DEF Over
<1>4. ASSUME NEW r, NEW s, IsRow(r), IsRow(s), r.at = s.at, Change(r) = Change(s),
             r.source = s.source, r.nth = s.nth
      PROVE  r = s
  <2>1. r.kind = "change" <=> s.kind = "change"
    BY <1>4
  <2>2. r.kind = "current_state" <=> s.kind = "current_state"
    BY <1>4 DEF IsRow
  <2>3. r.kind \in Kind /\ s.kind \in Kind
    BY <1>4 DEF IsRow, TimelineRow
  <2>4. r.kind = s.kind
    <3>1. r.kind = "change" \/ r.kind = "current_state" \/ r.kind = "risk"
      BY <2>3 DEF Kind
    <3>2. s.kind = "change" \/ s.kind = "current_state" \/ s.kind = "risk"
      BY <2>3 DEF Kind
    <3>3. CASE r.kind = "change"
      BY <2>1, <3>3
    <3>4. CASE r.kind = "current_state"
      BY <2>2, <3>4
    <3>5. CASE r.kind = "risk"
      BY <2>1, <2>2, <3>2, <3>5
    <3> QED BY <3>1, <3>3, <3>4, <3>5
  <2>5. /\ r = [kind |-> r.kind, source |-> r.source, nth |-> r.nth, at |-> r.at]
        /\ s = [kind |-> s.kind, source |-> s.source, nth |-> s.nth, at |-> s.at]
    BY <1>4 DEF IsRow, TimelineRow
  <2> QED BY <1>4, <2>4, <2>5
<1> HIDE DEF Change
<1>5. ASSUME NEW r, IsRow(r) PROVE ~Over(r, r)
  BY <1>1, <1>3, <1>5
<1>6. ASSUME NEW r, NEW s, NEW t, IsRow(r), IsRow(s), IsRow(t), Over(r, s), Over(s, t)
      PROVE  Over(r, t)
  <2> DEFINE ra == r.at
             sa == s.at
             ta == t.at
             rs == r.source
             ss == s.source
             ts == t.source
             rn == r.nth
             sn == s.nth
             tn == t.nth
             rc == Change(r)
             sc == Change(s)
             tc == Change(t)
  <2>1. /\ ra \in Nat /\ sa \in Nat /\ ta \in Nat /\ rs \in Nat /\ ss \in Nat /\ ts \in Nat
        /\ rn \in Nat /\ sn \in Nat /\ tn \in Nat /\ rc \in Int /\ sc \in Int /\ tc \in Int
    BY <1>1, <1>6
  <2>2. /\ ra > sa \/ (ra = sa /\ (rc < sc \/ (rc = sc /\ (rs < ss \/ (rs = ss /\ rn < sn)))))
        /\ sa > ta \/ (sa = ta /\ (sc < tc \/ (sc = tc /\ (ss < ts \/ (ss = ts /\ sn < tn)))))
    BY <1>3, <1>6
  <2>3. Over(r, t) <=>
           \/ ra > ta
           \/ ra = ta /\ rc < tc
           \/ ra = ta /\ rc = tc /\ rs < ts
           \/ ra = ta /\ rc = tc /\ rs = ts /\ rn < tn
    BY <1>3, <1>6
  <2> HIDE DEF ra, sa, ta, rs, ss, ts, rn, sn, tn, rc, sc, tc
  <2> QED BY ONLY <2>1, <2>2, <2>3, SMT
<1>7. ASSUME NEW r, NEW s, IsRow(r), IsRow(s), ~Over(r, s), ~Over(s, r) PROVE r = s
  <2>1. r.at = s.at /\ Change(r) = Change(s) /\ r.source = s.source /\ r.nth = s.nth
    BY <1>1, <1>3, <1>7
  <2> QED BY <1>4, <1>7, <2>1
<1>8. ASSUME NEW r, NEW s, IsRow(r), IsRow(s), Over(r, s) PROVE ~Above(s, r)
  BY <1>1, <1>2, <1>3, <1>8
<1> HIDE DEF Over
<1> QED BY <1>5, <1>6, <1>7, <1>8

LEMMA SortedProperties ==
    ASSUME NEW S, IsFiniteSet(S), \A r \in S : IsRow(r)
    PROVE  LET s == Sorted(S)
           IN  /\ s \in Seq(S) /\ Len(s) = Cardinality(S) /\ Range(s) = S
               /\ \A j, k \in 1..Len(s) : s[j] = s[k] => j = k
               /\ \A j, k \in 1..Len(s) : j < k => ~Above(s[k], s[j])
<1> DEFINE before == OverIn(S)
           s == Ranked(S, before)
<1>1. before \in [S -> SUBSET S] /\ \A r, t \in S : t \in before[r] <=> Over(t, r)
  BY DEF OverIn
<1>2. Sorted(S) = s
  BY DEF Sorted, OverIn, Over
<1> HIDE DEF before
<1>3. Ordering(S, before)
  <2>1. \A e \in S : e \notin before[e]
    BY <1>1, OverIsOrder
  <2>2. \A e \in S : \A d \in before[e] : before[d] \subseteq before[e]
    <3> SUFFICES ASSUME NEW e \in S, NEW d \in before[e], NEW c \in before[d]
                 PROVE  c \in before[e]
      OBVIOUS
    <3>1. d \in S /\ c \in S
      BY <1>1
    <3> QED BY <1>1, <3>1, OverIsOrder
  <2>3. \A d, e \in S : d = e \/ d \in before[e] \/ e \in before[d]
    BY <1>1, OverIsOrder
  <2> QED BY <1>1, <2>1, <2>2, <2>3 DEF Ordering
<1> HIDE DEF s
<1>4. /\ s \in Seq(S) /\ Len(s) = Cardinality(S) /\ Range(s) = S
      /\ \A k \in 1..Len(s) : s[k] \in S
      /\ \A j, k \in 1..Len(s) : s[j] = s[k] => j = k
      /\ \A j, k \in 1..Len(s) : j < k => s[j] \in before[s[k]]
  <2>1. s = Ranked(S, before)
    BY DEF s
  <2> QED BY <1>3, <2>1, RankedProperties
<1>5. ASSUME NEW j \in 1..Len(s), NEW k \in 1..Len(s), j < k PROVE ~Above(s[k], s[j])
  <2>1. s[j] \in S /\ s[k] \in S /\ Over(s[j], s[k])
    BY <1>1, <1>4, <1>5
  <2> QED BY <2>1, OverIsOrder
<1> QED BY <1>2, <1>4, <1>5

\* What is shown of S: as many rows as max lets be, none of those cut off above
\* them.
IsNewestPart(rows, S, max) ==
    /\ rows \in Seq(S) /\ Range(rows) \subseteq S /\ IsInjective(rows)
    /\ max >= 0 => Len(rows) = IF Cardinality(S) < max THEN Cardinality(S) ELSE max
    /\ max < 0 => Len(rows) = IF Cardinality(S) + max < 0 THEN 0 ELSE Cardinality(S) + max
    /\ \A i, j \in DOMAIN rows : i < j => ~Above(rows[j], rows[i])
    /\ \A r \in S \ Range(rows) : \A i \in DOMAIN rows : ~Above(r, rows[i])

LEMMA MergedIsNewestPart ==
    ASSUME NEW risks, NEW triggers, NEW max \in Int,
           IsFiniteSet(Rows(risks, triggers)), \A r \in Rows(risks, triggers) : IsRow(r)
    PROVE  IsNewestPart(MergedTimeline(risks, triggers, max), Rows(risks, triggers), max)
<1> DEFINE S == Rows(risks, triggers)
           s == Sorted(S)
           rows == Cut(s, max)
           n == Len(rows)
<1>1. MergedTimeline(risks, triggers, max) = rows
  BY DEF MergedTimeline
<1>2. /\ s \in Seq(S) /\ Len(s) = Cardinality(S) /\ Range(s) = S
      /\ \A j, k \in 1..Len(s) : s[j] = s[k] => j = k
      /\ \A j, k \in 1..Len(s) : j < k => ~Above(s[k], s[j])
  <2> HIDE DEF S
  <2>1. IsFiniteSet(S) /\ \A r \in S : IsRow(r)
    BY DEF S
  <2> QED BY <2>1, SortedProperties
<1> HIDE DEF S, s
<1>3. Len(s) \in Nat /\ DOMAIN s = 1..Len(s) /\ \A i \in 1..Len(s) : s[i] \in S
  BY <1>2, LenProperties, ElementOfSeq
<1>4. rows \in Seq(S) /\ IsCut(rows, s, max)
  BY <1>2, CutProperties
<1> HIDE DEF rows
<1>5. /\ max >= 0 => n = IF Cardinality(S) < max THEN Cardinality(S) ELSE max
      /\ max < 0 => n = IF Cardinality(S) + max < 0 THEN 0 ELSE Cardinality(S) + max
  BY <1>2, <1>4 DEF IsCut, IsCutLength
<1>6. n \in Nat /\ \A i \in 1..n : rows[i] = s[i] /\ i \in 1..Len(s)
  BY <1>4 DEF IsCut
<1>7. DOMAIN rows = 1..n
  BY <1>4, LenProperties
<1> HIDE DEF n
<1>8. Range(rows) \subseteq S
  BY <1>3, <1>6, <1>7 DEF Range
<1>9. IsInjective(rows)
  BY <1>2, <1>6, <1>7 DEF IsInjective
<1>10. \A i, j \in DOMAIN rows : i < j => ~Above(rows[j], rows[i])
  BY <1>2, <1>6, <1>7
<1>11. ASSUME NEW r \in S \ Range(rows), NEW i \in DOMAIN rows PROVE ~Above(r, rows[i])
  <2>1. PICK k \in 1..Len(s) : s[k] = r
    BY <1>2, <1>3 DEF Range
  <2>2. k \notin 1..n
    BY <1>6, <1>7, <2>1 DEF Range
  <2>3. i \in 1..Len(s) /\ i < k /\ rows[i] = s[i]
    BY <1>3, <1>6, <1>7, <2>2
  <2> QED BY <1>2, <2>1, <2>3
<1>12. IsNewestPart(rows, S, max)
  BY <1>4, <1>5, <1>8, <1>9, <1>10, <1>11 DEF IsNewestPart, n
<1> QED BY <1>1, <1>12 DEF S

\* The filters leave a history of what they are given.
LEMMA SinceKeepsHistory ==
    ASSUME NEW items, NEW n, IsHistory(items, n), NEW since
    PROVE  LET left == Since(items, since)
           IN  /\ IsHistory(left, n)
               /\ \A i \in DOMAIN left : i \in DOMAIN items /\ DOMAIN left[i] # {}
               /\ \A kind, r :
                     IsEventRow(r, kind, left) <=> IsEventRow(r, kind, items) /\ r.at >= since
<1> DEFINE Left(i) == {k \in DOMAIN items[i] : items[i][k] >= since}
           left == [i \in {i \in DOMAIN items : Left(i) # {}} |-> Restrict(items[i], Left(i))]
<1>1. Since(items, since) = left
  BY DEF Since
<1>2. \A i : i \in DOMAIN left <=> i \in DOMAIN items /\ Left(i) # {}
  OBVIOUS
<1>3. \A i \in DOMAIN left : DOMAIN left[i] = Left(i) /\ \A k \in Left(i) : left[i][k] = items[i][k]
  BY DEF Restrict
<1> HIDE DEF left
<1>4. IsHistory(left, n)
  BY <1>2, <1>3 DEF IsHistory
<1>5. \A i \in DOMAIN left : i \in DOMAIN items /\ DOMAIN left[i] # {}
  BY <1>2, <1>3
<1>6. ASSUME NEW kind, NEW r, IsEventRow(r, kind, left)
      PROVE  IsEventRow(r, kind, items) /\ r.at >= since
  <2>1. PICK i \in DOMAIN left : \E k \in DOMAIN left[i] : r = Row(kind, i, k, left[i][k])
    BY <1>6 DEF IsEventRow
  <2>2. PICK k \in DOMAIN left[i] : r = Row(kind, i, k, left[i][k])
    BY <2>1
  <2>3. k \in DOMAIN items[i] /\ i \in DOMAIN items /\ left[i][k] = items[i][k] /\ items[i][k] >= since
    BY <1>2, <1>3
  <2>4. r = Row(kind, i, k, items[i][k])
    BY <2>2, <2>3
  <2>5. r.at = items[i][k]
    BY <2>4 DEF Row
  <2> QED BY <2>3, <2>4, <2>5 DEF IsEventRow
<1>7. ASSUME NEW kind, NEW r, IsEventRow(r, kind, items), r.at >= since
      PROVE  IsEventRow(r, kind, left)
  <2>1. PICK i \in DOMAIN items : \E k \in DOMAIN items[i] : r = Row(kind, i, k, items[i][k])
    BY <1>7 DEF IsEventRow
  <2>2. PICK k \in DOMAIN items[i] : r = Row(kind, i, k, items[i][k])
    BY <2>1
  <2>3. r.at = items[i][k]
    BY <2>2 DEF Row
  <2>4. k \in Left(i)
    BY <1>7, <2>3
  <2>5. i \in DOMAIN left /\ k \in DOMAIN left[i] /\ left[i][k] = items[i][k]
    BY <1>2, <1>3, <2>4
  <2>6. r = Row(kind, i, k, left[i][k])
    BY <2>2, <2>5
  <2> QED BY <2>5, <2>6 DEF IsEventRow
<1> HIDE DEF Left
<1> QED BY <1>1, <1>4, <1>5, <1>6, <1>7

\* What is left of the rows of risks and changes after since.
LEMMA RowsSince ==
    ASSUME NEW risks, NEW triggers, NEW n, NEW m, IsHistory(risks, n), IsHistory(triggers, m),
           NEW since
    PROVE  \A r : r \in Rows(Since(risks, since), Since(triggers, since))
                     <=> r \in Rows(risks, triggers) /\ r.at >= since /\ r.kind # "current_state"
<1> SUFFICES ASSUME NEW r
             PROVE  r \in Rows(Since(risks, since), Since(triggers, since))
                       <=> r \in Rows(risks, triggers) /\ r.at >= since /\ r.kind # "current_state"
  OBVIOUS
<1> DEFINE leftRisks == Since(risks, since)
           leftTriggers == Since(triggers, since)
<1>1. /\ \A i \in DOMAIN leftRisks : DOMAIN leftRisks[i] # {}
      /\ IsEventRow(r, "risk", leftRisks) <=> IsEventRow(r, "risk", risks) /\ r.at >= since
      /\ IsEventRow(r, "change", leftTriggers) <=> IsEventRow(r, "change", triggers) /\ r.at >= since
  <2> HIDE DEF leftRisks, leftTriggers
  <2>1. leftRisks = Since(risks, since) /\ leftTriggers = Since(triggers, since)
    BY DEF leftRisks, leftTriggers
  <2>2. /\ \A i \in DOMAIN leftRisks : DOMAIN leftRisks[i] # {}
        /\ \A kind, row : IsEventRow(row, kind, leftRisks) <=> IsEventRow(row, kind, risks) /\ row.at >= since
    BY <2>1, SinceKeepsHistory
  <2>3. \A kind, row : IsEventRow(row, kind, leftTriggers) <=> IsEventRow(row, kind, triggers) /\ row.at >= since
    BY <2>1, SinceKeepsHistory
  <2> QED BY <2>2, <2>3
<1>2. r \in Rows(leftRisks, leftTriggers) <=>
         IsStateRow(r, leftRisks) \/ IsEventRow(r, "risk", leftRisks) \/ IsEventRow(r, "change", leftTriggers)
  BY RowsAre
<1>3. r \in Rows(risks, triggers) <=>
         IsStateRow(r, risks) \/ IsEventRow(r, "risk", risks) \/ IsEventRow(r, "change", triggers)
  BY RowsAre
<1> HIDE DEF leftRisks, leftTriggers
<1>4. ~IsStateRow(r, leftRisks)
  BY <1>1 DEF IsStateRow
<1>5. IsStateRow(r, risks) => r.kind = "current_state"
  BY DEF IsStateRow, Row
<1>6. IsEventRow(r, "risk", risks) => r.kind = "risk"
  BY DEF IsEventRow, Row
<1>7. IsEventRow(r, "change", triggers) => r.kind = "change"
  BY DEF IsEventRow, Row
<1>8. r \in Rows(leftRisks, leftTriggers)
         <=> r \in Rows(risks, triggers) /\ r.at >= since /\ r.kind # "current_state"
  BY <1>1, <1>2, <1>3, <1>4, <1>5, <1>6, <1>7
<1> QED BY <1>8 DEF leftRisks, leftTriggers

-----------------------------------------------------------------------------
\* The history as it is read, and the call's parameters.
HistoryTyped ==
    /\ \E n \in 0..MaxRisks : asset.risks \in [1..n -> Times] /\ asset.seen \in [1..n -> Time]
    /\ \E k \in 0..MaxChanges : asset.changes \in [1..k -> Times]
    /\ asked \in [risk : {All, 1}, since : {All} \cup Time, rows : -MaxRows..MaxRows]

History == {r \in Rows(OfRisk(asset.risks), asset.changes) :
               asked.since = All \/ (r.at >= asked.since /\ r.kind # "current_state")}

Pcs == {"asked", "failed", "unknown", "answered"}

TimelineInv ==
    /\ HistoryTyped /\ timeline.pc \in Pcs
    /\ timeline.pc = "asked" => timeline = NoTimeline
    /\ IF timeline.pc = "answered" THEN IsNewestPart(timeline.rows, History, asked.rows)
                                   ELSE timeline.rows = <<>>
    /\ \A r \in History : r.at \in Time

LEMMA HistoryIsTyped ==
    ASSUME HistoryTyped
    PROVE  /\ IsHistory(OfRisk(asset.risks), MaxRisks) /\ IsHistory(asset.changes, MaxChanges)
           /\ \A i \in DOMAIN OfRisk(asset.risks) : asset.seen[i] \in Time
           /\ asked.rows \in Int /\ asked.since \in {All} \cup Time
<1>1. PICK n \in 0..MaxRisks : asset.risks \in [1..n -> Times] /\ asset.seen \in [1..n -> Time]
  BY DEF HistoryTyped
<1>2. PICK k \in 0..MaxChanges : asset.changes \in [1..k -> Times]
  BY DEF HistoryTyped
<1>3. MaxRisks \in Nat /\ MaxChanges \in Nat /\ MaxEvents \in Nat /\ MaxTime \in Nat
  BY TimelineAssumption
<1>4. ASSUME NEW ts \in Times
      PROVE  DOMAIN ts \subseteq 1..MaxEvents /\ \A j \in DOMAIN ts : ts[j] \in Time
  <2>1. PICK l \in 0..MaxEvents : ts \in [1..l -> Time]
    BY DEF Times
  <2> QED BY <1>3, <2>1
<1>5. IsHistory(asset.changes, MaxChanges)
  <2>1. DOMAIN asset.changes = 1..k /\ \A i \in 1..k : asset.changes[i] \in Times
    BY <1>2
  <2>2. 1..k \subseteq 1..MaxChanges
    BY <1>3
  <2> QED BY <1>4, <2>1, <2>2 DEF IsHistory
<1>6. /\ DOMAIN OfRisk(asset.risks) \subseteq 1..n
      /\ \A i \in DOMAIN OfRisk(asset.risks) : OfRisk(asset.risks)[i] \in Times
  BY <1>1 DEF OfRisk, Restrict
<1>7. IsHistory(OfRisk(asset.risks), MaxRisks)
  <2>1. 1..n \subseteq 1..MaxRisks
    BY <1>3
  <2> QED BY <1>4, <1>6, <2>1 DEF IsHistory
<1>8. \A i \in DOMAIN OfRisk(asset.risks) : asset.seen[i] \in Time
  BY <1>1, <1>6
<1>9. asked.rows \in Int /\ asked.since \in {All} \cup Time
  BY DEF HistoryTyped
<1> QED BY <1>5, <1>7, <1>8, <1>9

\* What the call merges is the history asked for.
LEMMA RowsAreHistory ==
    ASSUME HistoryTyped
    PROVE  /\ Rows(SinceAsked(OfRisk(asset.risks)), SinceAsked(asset.changes)) = History
           /\ IsFiniteSet(History) /\ \A r \in History : IsRow(r)
<1> DEFINE risks == OfRisk(asset.risks)
<1>1. /\ IsHistory(risks, MaxRisks) /\ IsHistory(asset.changes, MaxChanges)
      /\ \A i \in DOMAIN risks : asset.seen[i] \in Time
  BY HistoryIsTyped
<1> HIDE DEF risks
<1>2. MaxRisks \in Nat /\ MaxChanges \in Nat /\ MaxEvents \in Nat /\ MaxTime \in Nat
      /\ MaxRisks + MaxChanges \in Nat
  BY TimelineAssumption
<1>3. \A r \in Rows(risks, asset.changes) :
         IsRow(r) /\ r.source \in 1..MaxRisks + MaxChanges /\ r.nth \in 0..MaxEvents
  BY <1>1, <1>2, RowsAreRows
<1>4. \A r : r \in History <=>
         /\ r \in Rows(risks, asset.changes)
         /\ asked.since = All \/ (r.at >= asked.since /\ r.kind # "current_state")
  BY DEF History, risks
<1>5. \A r \in History : IsRow(r) /\ r.source \in 1..MaxRisks + MaxChanges /\ r.nth \in 0..MaxEvents
  BY <1>3, <1>4
<1>6. IsFiniteSet(History)
  BY <1>2, <1>5, FiniteRows
<1>7. \A r : r \in Rows(SinceAsked(risks), SinceAsked(asset.changes)) <=> r \in History
  <2>1. CASE asked.since = All
    BY <1>4, <2>1 DEF SinceAsked
  <2>2. CASE asked.since # All
    <3>1. SinceAsked(risks) = Since(risks, asked.since)
      BY <2>2 DEF SinceAsked
    <3>2. SinceAsked(asset.changes) = Since(asset.changes, asked.since)
      BY <2>2 DEF SinceAsked
    <3>3. \A r : r \in Rows(Since(risks, asked.since), Since(asset.changes, asked.since))
             <=> r \in Rows(risks, asset.changes) /\ r.at >= asked.since /\ r.kind # "current_state"
      BY <1>1, RowsSince
    <3> QED BY <1>4, <2>2, <3>1, <3>2, <3>3
  <2> QED BY <2>1, <2>2
<1> QED BY <1>5, <1>6, <1>7 DEF risks

LEMMA InitTimelineInv == TInit => TimelineInv
<1> SUFFICES ASSUME TInit PROVE TimelineInv
  OBVIOUS
<1>1. HistoryTyped
  <2>1. PICK n \in 0..MaxRisks, k \in 0..MaxChanges :
           \E events \in [1..n -> Times], last \in [1..n -> Time], triggers \in [1..k -> Times] :
              asset = [risks |-> events, seen |-> last, changes |-> triggers]
    BY DEF TInit
  <2>2. asset.risks \in [1..n -> Times] /\ asset.seen \in [1..n -> Time] /\ asset.changes \in [1..k -> Times]
    BY <2>1
  <2> QED BY <2>2 DEF TInit, HistoryTyped
<1>2. timeline = NoTimeline /\ timeline.pc = "asked" /\ timeline.rows = <<>>
  BY DEF TInit, NoTimeline
<1>3. \A r \in History : r.at \in Time
  BY <1>1, RowsAreHistory DEF IsRow, TimelineRow
<1> QED BY <1>1, <1>2, <1>3 DEF TimelineInv, Pcs

LEMMA NextTimelineInv == TimelineInv /\ [TNext]_timelineVars => TimelineInv'
<1> SUFFICES ASSUME TimelineInv, [TNext]_timelineVars PROVE TimelineInv'
  OBVIOUS
<1>1. CASE UNCHANGED timelineVars
  <2>1. History' = History /\ HistoryTyped' = HistoryTyped
    BY <1>1 DEF timelineVars, HistoryTyped, History, OfRisk, Rows, RiskRows
  <2>2. timeline' = timeline /\ asked' = asked
    BY <1>1 DEF timelineVars
  <2> QED BY <2>1, <2>2 DEF TimelineInv, IsNewestPart, Above
<1>2. ASSUME asset' = asset, asked' = asked PROVE HistoryTyped' /\ History' = History
  <2>1. History' = History
    BY <1>2 DEF History, OfRisk, Rows, RiskRows
  <2>2. HistoryTyped
    BY DEF TimelineInv
  <2>3. \E n \in 0..MaxRisks : asset'.risks \in [1..n -> Times] /\ asset'.seen \in [1..n -> Time]
    BY <1>2, <2>2, Zenon DEF HistoryTyped
  <2>4. \E k \in 0..MaxChanges : asset'.changes \in [1..k -> Times]
    BY <1>2, <2>2, Zenon DEF HistoryTyped
  <2>5. asked' \in [risk : {All, 1}, since : {All} \cup Time, rows : -MaxRows..MaxRows]
    BY <1>2, <2>2, Zenon DEF HistoryTyped
  <2>6. HistoryTyped'
    BY <2>3, <2>4, <2>5, Zenon DEF HistoryTyped
  <2> QED BY <2>1, <2>6
<1>3. CASE TimelineFails
  <2>1. timeline = NoTimeline
    BY <1>3 DEF TimelineFails, TimelineInv
  <2>2. timeline'.pc \in {"failed", "unknown"} /\ timeline'.rows = <<>>
    BY <1>3, <2>1 DEF TimelineFails, NoTimeline
  <2> QED BY <1>2, <1>3, <2>2 DEF TimelineFails, TimelineInv, Pcs
<1>4. CASE GetRiskTimeline
  <2> DEFINE risks == SinceAsked(OfRisk(asset.risks))
             triggers == SinceAsked(asset.changes)
             rows == MergedTimeline(risks, triggers, asked.rows)
  <2>1. timeline'.pc = "answered" /\ timeline'.rows = rows /\ asset' = asset /\ asked' = asked
    BY <1>4 DEF GetRiskTimeline
  <2>2. HistoryTyped /\ Rows(risks, triggers) = History /\ asked.rows \in Int
        /\ IsFiniteSet(History) /\ \A r \in History : IsRow(r)
    BY RowsAreHistory, HistoryIsTyped DEF TimelineInv
  <2> HIDE DEF risks, triggers
  <2>3. IsNewestPart(rows, History, asked.rows)
    BY <2>2, MergedIsNewestPart
  <2> HIDE DEF rows
  <2> QED BY <1>2, <2>1, <2>3 DEF TimelineInv, Pcs, IsNewestPart, Above
<1> QED BY <1>1, <1>3, <1>4 DEF TNext

\* The rows cloud_get_risk_timeline answers with (_build_merged_timeline,
\* cloud_security.py) are the newest of the history asked for, newest first,
\* risks above the changes of their time, none twice and as many as max_results
\* lets be: for every history, every since and every max_results, also one of
\* zero or less.
THEOREM TimelineIsNewest == TimelineSpec => []TimelineIsNewestPart
<1>1. TimelineInv => TimelineIsNewestPart
  BY DEF TimelineInv, IsNewestPart, History, TimelineIsNewestPart
<1> QED BY <1>1, InitTimelineInv, NextTimelineInv, PTL DEF TimelineSpec

\* What a timeline is built from and where its call is (_get_risk_timeline).
THEOREM TimelineTypeOK == TimelineSpec => []TTypeOK
<1>1. ASSUME TimelineInv PROVE TTypeOK
  <2>1. \A row \in Range(timeline.rows) : row.at \in Time
    <3>1. CASE timeline.pc = "answered"
      BY <1>1, <3>1 DEF TimelineInv, IsNewestPart
    <3>2. CASE timeline.pc # "answered"
      BY <1>1, <3>2 DEF TimelineInv, Range
    <3> QED BY <3>1, <3>2
  <2>2. PICK n \in 0..MaxRisks : asset.risks \in [1..n -> Times] /\ asset.seen \in [1..n -> Time]
    BY <1>1 DEF TimelineInv, HistoryTyped
  <2>3. PICK k \in 0..MaxChanges : asset.changes \in [1..k -> Times]
    BY <1>1 DEF TimelineInv, HistoryTyped
  <2>4. Range(asset.risks) \cup Range(asset.changes) \subseteq Times /\ Range(asset.seen) \subseteq Time
    BY <2>2, <2>3 DEF Range
  <2> QED BY <1>1, <2>1, <2>4 DEF TTypeOK, TimelineInv, Pcs
<1> QED BY <1>1, InitTimelineInv, NextTimelineInv, PTL DEF TimelineSpec
=============================================================================
