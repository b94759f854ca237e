---------------------------- MODULE ResponseShelf ----------------------------
(***************************************************************************)
(* What the response store promises its callers (response_store.py), without *)
(* the dictionaries and their orders by which it keeps the promise: every    *)
(* session has a shelf of responses under references that count up, nothing  *)
(* leaves a shelf but to make room, by expiry or by clearing, and what is on *)
(* it is what was put there.  Which response or session makes room is left   *)
(* open here.                                                               *)
(***************************************************************************)
EXTENDS Naturals, FiniteSets

CONSTANTS
    Credential, SessionKey, Owner, Response,
    MaxEntries,     \* responses on one shelf
    MaxSessions,    \* shelves in use
    TTL             \* the age a response can be read at

VARIABLES
    shelf,      \* shelf[sk]: the responses that can still be asked for
    issued,     \* issued[sk]: how many references sk has been given
    now         \* the time

shelfVars == <<shelf, issued, now>>

ShelfInit ==
    /\ shelf = [sk \in SessionKey |-> {}]
    /\ issued = [sk \in SessionKey |-> 0]
    /\ now = 0

InUse == {sk \in SessionKey : issued[sk] > 0}

\* At most one session makes room for a new one, if all shelves are in use.
MakesRoom(sk) ==
    IF sk \notin InUse /\ Cardinality(InUse) = MaxSessions THEN {{d} : d \in InUse} ELSE {{}}

\* At most one response makes room for a new one, if the shelf is full.
LeavesFor(sk) ==
    IF Cardinality(shelf[sk]) = MaxEntries THEN {{e} : e \in shelf[sk]} ELSE {{}}

PutAway(sk, resp) ==
    LET new == [ref |-> issued[sk] + 1, timestamp |-> now, response |-> resp]
    IN  \E gone \in MakesRoom(sk), old \in LeavesFor(sk) :
          /\ shelf' = [k \in SessionKey |-> IF k = sk THEN (shelf[sk] \ old) \cup {new}
                                            ELSE IF k \in gone THEN {} ELSE shelf[k]]
          /\ issued' = [k \in SessionKey |-> IF k = sk THEN issued[sk] + 1
                                             ELSE IF k \in gone THEN 0 ELSE issued[k]]
          /\ UNCHANGED now

\* A response that is past its age is asked for.
Outlived(sk) ==
    /\ \E e \in shelf[sk] :
          /\ now - e.timestamp > TTL
          /\ shelf' = [shelf EXCEPT ![sk] = @ \ {e}]
    /\ UNCHANGED <<issued, now>>

TakenDown(K) ==
    /\ shelf' = [sk \in SessionKey |-> IF sk \in K THEN {} ELSE shelf[sk]]
    /\ issued' = [sk \in SessionKey |-> IF sk \in K THEN 0 ELSE issued[sk]]
    /\ UNCHANGED now

TimePasses == now' = now + 1 /\ UNCHANGED <<shelf, issued>>

ShelfNext ==
    \/ \E sk \in SessionKey, resp \in Response : PutAway(sk, resp)
    \/ \E sk \in SessionKey : Outlived(sk) \/ TakenDown({sk})
    \/ \E c \in Credential : TakenDown({sk \in SessionKey : Owner[sk] = c})
    \/ TimePasses

ShelfSpec == ShelfInit /\ [][ShelfNext]_shelfVars
=============================================================================
