-------------------------- MODULE OAuthRefreshProofs --------------------------
(***************************************************************************)
(* The two double-checked locks of client.py, for any number of threads.    *)
(***************************************************************************)
EXTENDS OAuthRefresh, TLAPS

Place == {"idle", "auth_object", "init_wait", "init_locked", "headers", "refresh_wait",
          "inner", "login_wait", "exchange", "set_time", "read"}
HasObject == {"headers", "refresh_wait", "inner", "login_wait", "exchange", "set_time", "read"}
LoggingIn == {"exchange", "set_time"}

(* The lazily made object.                                                 *)

\* Constructing is done under _auth_init_lock only, and finds there whether
\* another thread has been before it.
ObjectInv ==
    /\ pc \in [Worker -> Place] /\ held \in [Worker -> 0..1]
    /\ auth \in 0..1 /\ made = auth
    /\ \A t \in Worker : /\ pc[t] = "init_locked" <=> initLock = t
                         /\ pc[t] \in HasObject => held[t] = auth /\ auth = 1
                         /\ held[t] \in {0, auth}

LEMMA InitObjectInv == OInit => ObjectInv
BY RefreshAssumption DEF OInit, ObjectInv, Place, HasObject

LEMMA NextObjectInv == ObjectInv /\ [ONext]_oauthVars => ObjectInv'
<1> SUFFICES ASSUME ObjectInv, [ONext]_oauthVars PROVE ObjectInv'
  OBVIOUS
<1>1. ASSUME NEW t \in Worker, UseClient(t) PROVE ObjectInv'
  BY <1>1 DEF UseClient, Goto, ObjectInv, Place, HasObject
<1>2. ASSUME NEW t \in Worker, AuthPresent(t) PROVE ObjectInv'
  BY <1>2 DEF AuthPresent, Goto, ObjectInv, Place, HasObject
<1>3. ASSUME NEW t \in Worker, AuthMissing(t) PROVE ObjectInv'
  BY <1>3 DEF AuthMissing, Goto, initVars, ObjectInv, Place, HasObject
<1>4. ASSUME NEW t \in Worker, InitLock(t) PROVE ObjectInv'
  BY <1>4, RefreshAssumption DEF InitLock, Goto, ObjectInv, Place, HasObject
<1>5. ASSUME NEW t \in Worker, Construct(t) PROVE ObjectInv'
  BY <1>5, RefreshAssumption DEF Construct, Goto, ObjectInv, Place, HasObject
<1>6. ASSUME NEW t \in Worker, NEW from \in HasObject, NEW to \in HasObject \cup {"idle"},
             Goto(t, from, to), UNCHANGED initVars
      PROVE  ObjectInv'
  BY <1>6 DEF Goto, initVars, ObjectInv, Place, HasObject
<1>7. ASSUME NEW t \in Worker,
             \/ SeesStale(t) \/ SeesFresh(t) \/ RefreshLock(t) \/ InnerStale(t)
             \/ InnerFresh(t) \/ LoginLock(t) \/ ExchangeOK(t) \/ SetTime(t)
             \/ ExchangeFails(t) \/ ReadHeader(t)
      PROVE  ObjectInv'
  <2>1. /\ UNCHANGED initVars
        /\ \E from \in HasObject, to \in HasObject \cup {"idle"} : Goto(t, from, to)
    BY <1>7 DEF SeesStale, SeesFresh, RefreshLock, InnerStale, InnerFresh, LoginLock,
                ExchangeOK, SetTime, ExchangeFails, ReadHeader, HasObject
  <2> QED BY <2>1, <1>6
<1>8. CASE Expire
  BY <1>8 DEF Expire, initVars, ObjectInv
<1>9. CASE UNCHANGED oauthVars
  BY <1>9 DEF oauthVars, ObjectInv
<1> QED BY <1>1, <1>2, <1>3, <1>4, <1>5, <1>7, <1>8, <1>9 DEF ONext, WorkerStep

\* However the first requests of a session race, one OAuth2 object is made and
\* every call uses it (FalconClient.auth_object).
THEOREM OneObject == RefreshSpec => []OneAuthObject
<1>1. ObjectInv => OneAuthObject
  BY DEF ObjectInv, OneAuthObject, Place, HasObject
<1> QED BY <1>1, InitObjectInv, NextObjectInv, PTL DEF RefreshSpec

-----------------------------------------------------------------------------
(* The re-entrant refresh lock.                                            *)

\* A thread holds the lock once from the refresh, or once or twice in login();
\* while it holds it on account of a stale token nobody can make that fresh.
HolderOK(t) ==
    /\ pc[t] \in LoggingIn => owner = t
    /\ owner = t => \/ pc[t] \in {"inner", "login_wait", "read"} /\ depth = 1
                    \/ pc[t] \in LoggingIn /\ depth \in 1..2
    /\ owner = t /\ (pc[t] = "login_wait" \/ (pc[t] \in LoggingIn /\ depth = 2)) => ~fresh

LockInv ==
    /\ pc \in [Worker -> Place]
    /\ owner \in Worker \cup {NoWorker} /\ depth \in 0..2 /\ fresh \in BOOLEAN
    /\ owner = NoWorker <=> depth = 0
    /\ \A t \in Worker : HolderOK(t)

LEMMA InitLockInv == OInit => LockInv
<1> SUFFICES ASSUME OInit PROVE LockInv
  OBVIOUS
<1>1. \A t \in Worker : pc[t] = "idle" /\ owner # t
  BY RefreshAssumption DEF OInit
<1>2. \A t \in Worker : HolderOK(t)
  BY <1>1 DEF HolderOK, LoggingIn
<1>3. pc \in [Worker -> Place]
  BY DEF OInit, Place
<1>4. owner = NoWorker /\ depth = 0 /\ fresh = FALSE
  BY DEF OInit
<1>5. depth \in 0..2
  BY <1>4
<1>6. owner \in Worker \cup {NoWorker} /\ fresh \in BOOLEAN /\ (owner = NoWorker <=> depth = 0)
  BY <1>4, Zenon
<1> QED BY <1>2, <1>3, <1>5, <1>6, Zenon DEF LockInv

\* Steps that leave the lock and the token alone and stay away from login().
LEMMA AsideLockInv ==
    ASSUME LockInv, NEW t \in Worker, NEW from \in Place \ LoggingIn,
           NEW to \in Place \ LoggingIn, Goto(t, from, to), UNCHANGED tokenVars,
           owner = t => \/ to \in {"inner", "read"}
                        \/ to = "login_wait" /\ ~fresh
    PROVE  LockInv'
BY DEF Goto, tokenVars, LockInv, HolderOK, Place, LoggingIn

LEMMA NextLockInv == LockInv /\ [ONext]_oauthVars => LockInv'
<1> SUFFICES ASSUME LockInv, [ONext]_oauthVars PROVE LockInv'
  OBVIOUS
<1>1. ASSUME NEW t \in Worker,
             \/ UseClient(t) \/ AuthPresent(t) \/ AuthMissing(t) \/ InitLock(t)
             \/ Construct(t) \/ SeesStale(t) \/ SeesFresh(t) \/ InnerStale(t) \/ InnerFresh(t)
      PROVE  LockInv'
  <2>1. \E from \in Place \ LoggingIn, to \in Place \ LoggingIn :
           /\ Goto(t, from, to) /\ UNCHANGED tokenVars
           /\ from # "inner" => from \in Place \ {"inner", "login_wait", "read"}
           /\ from = "inner" => to = "read" \/ (to = "login_wait" /\ ~fresh)
    BY <1>1 DEF UseClient, AuthPresent, AuthMissing, InitLock, Construct, SeesStale,
                SeesFresh, InnerStale, InnerFresh, Place, LoggingIn
  <2>2. PICK from \in Place \ LoggingIn, to \in Place \ LoggingIn :
           /\ Goto(t, from, to) /\ UNCHANGED tokenVars
           /\ from # "inner" => from \in Place \ {"inner", "login_wait", "read"}
           /\ from = "inner" => to = "read" \/ (to = "login_wait" /\ ~fresh)
    BY <2>1
  <2>3. owner = t => from = "inner"
    BY <2>2 DEF Goto, LockInv, HolderOK, Place, LoggingIn
  <2> QED BY <2>2, <2>3, AsideLockInv
<1>2. ASSUME NEW t \in Worker, RefreshLock(t) PROVE LockInv'
  BY <1>2, RefreshAssumption
     DEF RefreshLock, Goto, Acquire, LockInv, HolderOK, Place, LoggingIn
<1>3. ASSUME NEW t \in Worker, LoginLock(t) PROVE LockInv'
  BY <1>3, RefreshAssumption
     DEF LoginLock, Goto, Acquire, LockInv, HolderOK, Place, LoggingIn
<1>4. ASSUME NEW t \in Worker, ExchangeOK(t) PROVE LockInv'
  BY <1>4 DEF ExchangeOK, Goto, LockInv, HolderOK, Place, LoggingIn
<1>5. ASSUME NEW t \in Worker, SetTime(t) \/ ExchangeFails(t) PROVE LockInv'
  <2>1. /\ pc[t] \in LoggingIn /\ pc' = [pc EXCEPT ![t] = "read"]
        /\ Release(t) /\ fresh' \in BOOLEAN
    BY <1>5 DEF SetTime, ExchangeFails, Goto, LoggingIn, LockInv
  <2>2. owner = t /\ depth \in 1..2
    BY <2>1 DEF LockInv, HolderOK, LoggingIn
  <2>3. /\ depth' \in 0..2 /\ owner' \in Worker \cup {NoWorker}
        /\ owner' = NoWorker <=> depth' = 0
        /\ owner' = t => depth' = 1
        /\ owner' \in {t, NoWorker}
    BY <2>1, <2>2, RefreshAssumption DEF Release
  <2>4. pc' \in [Worker -> Place] /\ pc'[t] = "read"
    BY <2>1 DEF LockInv, Place
  <2>5. ASSUME NEW u \in Worker PROVE HolderOK(u)'
    <3>1. CASE u = t
      BY <3>1, <2>3, <2>4 DEF HolderOK, LoggingIn
    <3>2. CASE u # t
      <4>1. pc'[u] = pc[u] /\ pc[u] \notin LoggingIn /\ owner' # u
        BY <3>2, <2>1, <2>2, <2>3, RefreshAssumption DEF LockInv, HolderOK
      <4> QED BY <4>1 DEF HolderOK
    <3> QED BY <3>1, <3>2
  <2> QED BY <2>1, <2>3, <2>4, <2>5 DEF LockInv
<1>6. ASSUME NEW t \in Worker, ReadHeader(t) PROVE LockInv'
  BY <1>6, RefreshAssumption
     DEF ReadHeader, Goto, Release, LockInv, HolderOK, Place, LoggingIn
<1>7. CASE Expire
  BY <1>7 DEF Expire, LockInv, HolderOK
<1>8. CASE UNCHANGED oauthVars
  BY <1>8 DEF oauthVars, LockInv, HolderOK
<1> QED BY <1>1, <1>2, <1>3, <1>4, <1>5, <1>6, <1>7, <1>8 DEF ONext, WorkerStep

\* One thread at a time exchanges credentials and installs a token, so that a
\* token's value and its time come from the same login
\* (_ThreadSafeOAuth2.login under _refresh_lock).
THEOREM LoginsExclude == RefreshSpec => []LoginExclusive
<1>1. LockInv => LoginExclusive
  BY DEF LockInv, HolderOK, LoginExclusive, LoggingIn
<1> QED BY <1>1, InitLockInv, NextLockInv, PTL DEF RefreshSpec

\* A thread that took the refresh lock exchanges only while the token is still
\* stale (the second check of _ThreadSafeOAuth2.auth_headers).
THEOREM NoRepeatBehindLock == RefreshSpec => []WaitersDoNotRepeat
<1>1. LockInv => WaitersDoNotRepeat
  BY DEF LockInv, HolderOK, WaitersDoNotRepeat, LoggingIn
<1> QED BY <1>1, InitLockInv, NextLockInv, PTL DEF RefreshSpec
-----------------------------------------------------------------------------
(* What a stale token leads to.                                            *)

\* A token that was stale when a call began is behind as soon as one is fresh
\* or about to be: a value is written before it is made fresh.
NewerOK(t) ==
    /\ fresh \/ Installing => stalest[t] < value
    /\ pc[t] = "read" /\ ~failed[t] => stalest[t] < value
    /\ pc[t] = "idle" /\ calls[t] > 0 /\ ~failed[t] => stalest[t] < got[t]
    /\ stalest[t] <= value

HeaderInv ==
    /\ pc \in [Worker -> Place] /\ calls \in [Worker -> Nat]
    /\ value \in Nat /\ fresh \in BOOLEAN /\ failed \in [Worker -> BOOLEAN]
    /\ got \in [Worker -> Nat \cup {NoToken}] /\ stalest \in [Worker -> Nat \cup {NoToken}]
    /\ \A t \in Worker : NewerOK(t)

LEMMA InitHeaderInv == OInit => HeaderInv
<1> SUFFICES ASSUME OInit PROVE HeaderInv
  OBVIOUS
<1>1. /\ pc \in [Worker -> Place] /\ calls \in [Worker -> Nat] /\ value = 0
      /\ got \in [Worker -> Nat \cup {NoToken}] /\ stalest \in [Worker -> Nat \cup {NoToken}]
  BY DEF OInit, Place
<1>2. fresh = FALSE /\ failed = [t \in Worker |-> FALSE]
  BY DEF OInit
<1>3. ~Installing
  BY DEF OInit, Installing
<1>4. ASSUME NEW t \in Worker PROVE NewerOK(t)
  BY <1>2, <1>3 DEF OInit, NewerOK, NoToken
<1>5. value \in Nat /\ fresh \in BOOLEAN
  BY <1>1, <1>2
<1>6. failed \in [Worker -> BOOLEAN]
  BY <1>2, Zenon
<1> QED BY <1>1, <1>4, <1>5, <1>6 DEF HeaderInv

\* Steps that write neither token nor header and stay away from "read".
LEMMA AsideHeaderInv ==
    ASSUME HeaderInv, NEW t \in Worker, NEW from \in Place, NEW to \in Place \ {"read", "idle", "set_time"},
           Goto(t, from, to), UNCHANGED <<value, fresh, histVars>>
    PROVE  HeaderInv'
<1>1. /\ pc' = [pc EXCEPT ![t] = to] /\ pc' \in [Worker -> Place]
      /\ UNCHANGED <<value, fresh, calls, got, stalest, failed>>
  BY DEF Goto, histVars, HeaderInv
<1>2. Installing' => Installing
  BY <1>1 DEF Installing, HeaderInv
<1>3. ASSUME NEW u \in Worker PROVE NewerOK(u)'
  <2>1. NewerOK(u) BY DEF HeaderInv
  <2>2. pc'[u] \in {"read", "idle"} => pc[u] = pc'[u]
    BY <1>1 DEF HeaderInv
  <2> QED BY <2>1, <2>2, <1>1, <1>2 DEF NewerOK
<1> QED BY <1>1, <1>3 DEF HeaderInv

LEMMA NextHeaderInv == HeaderInv /\ [ONext]_oauthVars => HeaderInv'
<1> SUFFICES ASSUME HeaderInv, [ONext]_oauthVars PROVE HeaderInv'
  OBVIOUS
<1>1. ASSUME NEW t \in Worker, UseClient(t) PROVE HeaderInv'
  <2>1. /\ pc' = [pc EXCEPT ![t] = "auth_object"] /\ calls' = [calls EXCEPT ![t] = @ + 1]
        /\ got' = [got EXCEPT ![t] = NoToken] /\ failed' = [failed EXCEPT ![t] = FALSE]
        /\ stalest' = [stalest EXCEPT
                          ![t] = IF fresh \/ Installing THEN NoToken ELSE value]
        /\ UNCHANGED <<value, fresh>>
    BY <1>1 DEF UseClient, Goto, tokenVars
  <2>2. /\ pc' \in [Worker -> Place] /\ calls' \in [Worker -> Nat]
        /\ failed' \in [Worker -> BOOLEAN] /\ got' \in [Worker -> Nat \cup {NoToken}]
        /\ stalest' \in [Worker -> Nat \cup {NoToken}]
    BY <2>1 DEF HeaderInv, Place
  <2>3. Installing' => Installing
    BY <2>1 DEF Installing, HeaderInv
  <2>4. ASSUME NEW u \in Worker PROVE NewerOK(u)'
    <3>1. CASE u = t
      BY <3>1, <2>1, <2>3 DEF NewerOK, HeaderInv, NoToken
    <3>2. CASE u # t
      <4>1. /\ NewerOK(u) /\ pc'[u] = pc[u] /\ calls'[u] = calls[u] /\ got'[u] = got[u]
            /\ failed'[u] = failed[u] /\ stalest'[u] = stalest[u]
        BY <3>2, <2>1 DEF HeaderInv
      <4> QED BY <4>1, <2>1, <2>3 DEF NewerOK
    <3> QED BY <3>1, <3>2
  <2> QED BY <2>1, <2>2, <2>4 DEF HeaderInv
<1>2. ASSUME NEW t \in Worker,
             \/ AuthPresent(t) \/ AuthMissing(t) \/ InitLock(t) \/ Construct(t)
             \/ SeesStale(t) \/ SeesFresh(t) \/ RefreshLock(t) \/ InnerStale(t) \/ LoginLock(t)
      PROVE  HeaderInv'
  <2>1. /\ UNCHANGED <<value, fresh, histVars>>
        /\ \E from \in Place, to \in Place \ {"read", "idle", "set_time"} : Goto(t, from, to)
    BY <1>2 DEF AuthPresent, AuthMissing, InitLock, Construct, SeesStale, SeesFresh,
                RefreshLock, InnerStale, LoginLock, Acquire, tokenVars, Place
  <2> QED BY <2>1, AsideHeaderInv
<1>3. ASSUME NEW t \in Worker, InnerFresh(t) PROVE HeaderInv'
  BY <1>3 DEF InnerFresh, Goto, tokenVars, histVars, Installing, HeaderInv, NewerOK, Place
<1>4. ASSUME NEW t \in Worker, ExchangeOK(t) PROVE HeaderInv'
  BY <1>4 DEF ExchangeOK, Goto, histVars, Installing, HeaderInv, NewerOK, Place, NoToken
<1>5. ASSUME NEW t \in Worker, SetTime(t) PROVE HeaderInv'
  <2>1. Installing
    BY <1>5 DEF SetTime, Goto, Installing
  <2> QED BY <1>5, <2>1 DEF SetTime, Goto, histVars, HeaderInv, NewerOK, Place
<1>6. ASSUME NEW t \in Worker, ExchangeFails(t) PROVE HeaderInv'
  BY <1>6 DEF ExchangeFails, Goto, Installing, HeaderInv, NewerOK, Place
<1>7. ASSUME NEW t \in Worker, ReadHeader(t) PROVE HeaderInv'
  BY <1>7 DEF ReadHeader, Goto, Installing, HeaderInv, NewerOK, Place
<1>8. CASE Expire
  BY <1>8 DEF Expire, histVars, Installing, HeaderInv, NewerOK
<1>9. CASE UNCHANGED oauthVars
  BY <1>9 DEF oauthVars, Installing, HeaderInv, NewerOK
<1> QED BY <1>1, <1>2, <1>3, <1>4, <1>5, <1>6, <1>7, <1>8, <1>9 DEF ONext, WorkerStep

\* A token that was stale when a call began is not in the header it gets,
\* unless its own exchange failed (_ThreadSafeOAuth2.auth_headers).
THEOREM HeadersRefreshed == RefreshSpec => []HeaderRefreshed
<1>1. HeaderInv => HeaderRefreshed
  BY DEF HeaderInv, NewerOK, HeaderRefreshed, NoToken
<1> QED BY <1>1, InitHeaderInv, NextHeaderInv, PTL DEF RefreshSpec

-----------------------------------------------------------------------------
\* What the three invariants leave out: the calls a thread makes are bounded,
\* and the first lock is held by a worker or by nobody.
CountInv ==
    /\ calls \in [Worker -> 0..MaxCalls]
    /\ initLock \in Worker \cup {NoWorker}

LEMMA InitCountInv == OInit => CountInv
BY RefreshAssumption DEF OInit, CountInv

LEMMA NextCountInv == CountInv /\ [ONext]_oauthVars => CountInv'
<1> SUFFICES ASSUME CountInv, [ONext]_oauthVars PROVE CountInv'
  OBVIOUS
<1>1. ASSUME NEW t \in Worker, UseClient(t) PROVE CountInv'
  <2>1. calls[t] \in 0..MaxCalls /\ calls[t] < MaxCalls
    BY <1>1 DEF UseClient, CountInv
  <2>2. calls[t] + 1 \in 0..MaxCalls
    BY <2>1, RefreshAssumption
  <2> QED BY <1>1, <2>2 DEF UseClient, CountInv
<1>2. ASSUME NEW t \in Worker, WorkerStep(t) PROVE CountInv'
  BY <1>2 DEF WorkerStep, AuthPresent, AuthMissing, InitLock, Construct, SeesStale, SeesFresh,
              RefreshLock, InnerStale, InnerFresh, LoginLock, ExchangeOK, SetTime,
              ExchangeFails, ReadHeader, initVars, histVars, CountInv
<1>3. CASE Expire
  BY <1>3 DEF Expire, initVars, histVars, CountInv
<1>4. CASE UNCHANGED oauthVars
  BY <1>4 DEF oauthVars, CountInv
<1> QED BY <1>1, <1>2, <1>3, <1>4 DEF ONext

\* The state of the client keeps its types: the refresh lock is never held more
\* than twice over, and no call names an object that was not made (client.py).
THEOREM RefreshTypeOK == RefreshSpec => []OTypeOK
<1>1. ASSUME ObjectInv, LockInv, HeaderInv, CountInv PROVE OTypeOK
  <2>1. made \in Nat /\ auth \in 0..made /\ held \in [Worker -> 0..made]
    <3>1. made \in 0..1 /\ auth = made /\ \A t \in Worker : held[t] \in {0, auth}
      BY <1>1 DEF ObjectInv
    <3>2. ASSUME NEW t \in Worker PROVE held[t] \in 0..made
      BY <3>1
    <3> QED BY <1>1, <3>1, <3>2 DEF ObjectInv
  <2>2. /\ owner \in Worker \cup {NoWorker} /\ depth \in 0..2
        /\ calls \in [Worker -> 0..MaxCalls] /\ initLock \in Worker \cup {NoWorker}
    BY <1>1 DEF LockInv, CountInv
  <2>3. /\ pc \in [Worker -> Place] /\ value \in Nat /\ fresh \in BOOLEAN
        /\ failed \in [Worker -> BOOLEAN]
        /\ got \in [Worker -> Nat \cup {NoToken}] /\ stalest \in [Worker -> Nat \cup {NoToken}]
    BY <1>1 DEF HeaderInv
  <2> QED BY <2>1, <2>2, <2>3 DEF OTypeOK, Place
<1> QED BY <1>1, InitObjectInv, NextObjectInv, InitLockInv, NextLockInv, InitHeaderInv,
           NextHeaderInv, InitCountInv, NextCountInv, PTL DEF RefreshSpec
=============================================================================
