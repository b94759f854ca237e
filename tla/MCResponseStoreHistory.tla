----------------------- MODULE MCResponseStoreHistory -----------------------
(* Two credentials, one of them with a bare partition and a connection's.  *)
EXTENDS ResponseStoreHistory, TLC

CONSTANTS c1, c2, a, a1, b, r1, r2

OwnerMap == (a :> c1) @@ (a1 :> c1) @@ (b :> c2)

\* Neighbouring references of a partition are issued for different responses:
\* enough to tell one from the other, and fewer states than every choice.
Alternating ==
    \A sk \in SessionKey : \A r \in DOMAIN given[sk] :
        given[sk][r].response = IF r % 2 = 1 THEN r1 ELSE r2
=============================================================================
