---------------------------- MODULE EdgeTypeCache ----------------------------
(***************************************************************************)
(* The Threat Graph edge-type cache shared by every session:               *)
(* ThreatGraphEdgeTypeCache (resources/threatgraph_reference.py) behind the *)
(* edge-types resource and the threatgraph_get_edge_types tool             *)
(* (modules/threat_graph.py).                                              *)
(*                                                                         *)
(* The lock is held for each dictionary access only, never across a fetch.  *)
(* The resource is read on the event loop, one read at a time; the tool     *)
(* runs on worker threads.  A list of edge types is its version in the      *)
(* catalogue of the tenant it was fetched for.                             *)
(***************************************************************************)
EXTENDS Naturals

CONSTANTS
    Client,         \* the tenants' client ids
    Loop,           \* the event loop's thread
    Refresher,      \* worker threads that run the tool
    MaxVersion      \* bound of the model: versions of a tenant's catalogue

ASSUME EdgeTypeAssumption == Loop \notin Refresher /\ MaxVersion \in Nat \ {0}

VARIABLES
    live,       \* live[c]: the version the API would answer c with
    cached,     \* _cached[c], as [owner, version]; version 0 where absent
    reader,     \* reader[t]: what thread t is doing
    overlapped  \* history: the threads whose call met another of its tenant

edgeVars == <<live, cached, reader, overlapped>>

Thread == Refresher \cup {Loop}
List == [owner : Client, version : 0..MaxVersion]
Nothing(c) == [owner |-> c, version |-> 0]

EInit ==
    /\ live = [c \in Client |-> 1]
    /\ cached = [c \in Client |-> Nothing(c)]
    /\ \E c \in Client :
          reader = [t \in Thread |-> [pc |-> "idle", client |-> c, tool |-> FALSE,
                                      began |-> 0, list |-> Nothing(c)]]
    /\ overlapped = {}

Busy(t) == reader[t].pc \notin {"idle", "answered", "failed"}

Rivals(t, c) == {u \in Thread \ {t} : Busy(u) /\ reader[u].client = c}

Begin(t, c, pc, tool) ==
    /\ ~Busy(t)
    /\ reader' = [reader EXCEPT ![t] = [pc |-> pc, client |-> c, tool |-> tool,
                                        began |-> live[c], list |-> Nothing(c)]]
    /\ overlapped' = IF Rivals(t, c) = {} THEN overlapped \ {t}
                     ELSE overlapped \cup Rivals(t, c) \cup {t}
    /\ UNCHANGED <<live, cached>>

ReadResource(c) == Begin(Loop, c, "lookup", FALSE)

GetEdgeTypes(t, c) == t \in Refresher /\ Begin(t, c, "probe", TRUE)

Go(t, pc) == reader' = [reader EXCEPT ![t].pc = pc]

\* The tool's own fetch: its list is thrown away, only its status counts.
Probe(t) ==
    /\ reader[t].pc = "probe"
    /\ Go(t, "invalidate") \/ Go(t, "failed")
    /\ UNCHANGED <<live, cached, overlapped>>

\* Mutant of Invalidate: the list stays.
InvalidateNothing(t) ==
    /\ reader[t].pc = "invalidate"
    /\ Go(t, "lookup")
    /\ UNCHANGED <<live, cached, overlapped>>

Invalidate(t) ==
    /\ reader[t].pc = "invalidate"
    /\ cached' = [cached EXCEPT ![reader[t].client] = Nothing(reader[t].client)]
    /\ Go(t, "lookup")
    /\ UNCHANGED <<live, overlapped>>

\* read(): a cached list is the answer; otherwise fetch, without the lock.
Lookup(t) ==
    /\ reader[t].pc = "lookup"
    /\ LET list == cached[reader[t].client]
       IN  IF list.version = 0 THEN Go(t, "fetch")
           ELSE reader' = [reader EXCEPT ![t].pc = "answered", ![t].list = list]
    /\ UNCHANGED <<live, cached, overlapped>>

\* The API answers with the caller's own catalogue.
Fetch(t) ==
    /\ reader[t].pc = "fetch"
    /\ LET c == reader[t].client
       IN  reader' = [reader EXCEPT
                        ![t].pc = "store",
                        ![t].list = [owner |-> c, version |-> live[c]]]
    /\ UNCHANGED <<live, cached, overlapped>>

\* The fetch fails: the failure text is the answer and nothing is cached.
FetchFails(t) ==
    /\ reader[t].pc = "fetch"
    /\ Go(t, "failed")
    /\ UNCHANGED <<live, cached, overlapped>>

\* Mutant of StoreList: one list for every tenant.
StoreListForAll(t) ==
    /\ reader[t].pc = "store"
    /\ cached' = [c \in Client |-> reader[t].list]
    /\ Go(t, "answered")
    /\ UNCHANGED <<live, overlapped>>

\* Whatever has been cached meanwhile is overwritten.
StoreList(t) ==
    /\ reader[t].pc = "store"
    /\ cached' = [cached EXCEPT ![reader[t].client] = reader[t].list]
    /\ Go(t, "answered")
    /\ UNCHANGED <<live, overlapped>>

\* CrowdStrike releases a new catalogue.
CatalogueChanges(c) ==
    /\ live[c] < MaxVersion
    /\ live' = [live EXCEPT ![c] = @ + 1]
    /\ UNCHANGED <<cached, reader, overlapped>>

ENext ==
    \/ \E c \in Client : ReadResource(c) \/ CatalogueChanges(c)
    \/ \E t \in Refresher, c \in Client : GetEdgeTypes(t, c)
    \/ \E t \in Thread :
          \/ Probe(t) \/ Invalidate(t) \/ Lookup(t)
          \/ Fetch(t) \/ FetchFails(t) \/ StoreList(t)

ESpec == EInit /\ [][ENext]_edgeVars

-----------------------------------------------------------------------------
ETypeOK ==
    /\ live \in [Client -> 1..MaxVersion]
    /\ cached \in [Client -> List]
    /\ reader \in [Thread -> [pc : {"idle", "probe", "invalidate", "lookup", "fetch",
                                    "store", "answered", "failed"},
                              client : Client, tool : BOOLEAN,
                              began : 0..MaxVersion, list : List]]
    /\ overlapped \subseteq Thread

\* A tenant is answered from its own catalogue, whoever filled the cache
\* first ("a tenant with a different edge-type entitlement would silently
\* receive another tenant's cached list", threatgraph_reference.py:37-38).
EdgeTypesOfOwnTenant ==
    \A t \in Thread :
        reader[t].pc = "answered" => reader[t].list.owner = reader[t].client

\* A refresh that meets no other call of its tenant answers with a list at
\* least as new as the catalogue when it began, however old the cached one.
LoneRefreshIsFresh ==
    \A t \in Refresher :
        reader[t].pc = "answered" /\ t \notin overlapped
        => reader[t].list.version >= reader[t].began
=============================================================================
