------------------------------ MODULE Ranking ------------------------------
(* Putting the elements of a finite set in an order, for the listings that  *)
(* sort, filter or cut what they were given.                               *)
EXTENDS Integers, Sequences, FiniteSets

\* The elements of S in the order in which before[e] are those before e.
Ranked(S, before) ==
    [k \in 1..Cardinality(S) |-> CHOOSE e \in S : Cardinality(before[e]) = k - 1]

\* The elements of s that are in S, in their order in s.
Among(s, S) ==
    LET at == {i \in DOMAIN s : s[i] \in S}
        places == Ranked(at, [i \in at |-> {j \in at : j < i}])
    IN  [k \in DOMAIN places |-> s[places[k]]]

\* s[:max] of a list: the first max elements; of a negative max, all but the
\* last -max.
Cut(s, max) ==
    LET left == IF max < 0 THEN Len(s) + max ELSE max
    IN  SubSeq(s, 1, IF left < Len(s) THEN left ELSE Len(s))
=============================================================================
