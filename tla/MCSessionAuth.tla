--------------------------- MODULE MCSessionAuth ---------------------------
(* Three credentials for a cache of two; the first has a bare partition and  *)
(* a connection's.                                                          *)
EXTENDS SessionAuth, TLC

CONSTANTS c1, c2, c3, a, a1, b, c, w1, r1

OwnerMap == (a :> c1) @@ (a1 :> c1) @@ (b :> c2) @@ (c :> c3)
TwoTenants == (a :> c1) @@ (b :> c2)
=============================================================================
