---------------------------- MODULE MCModuleTools ----------------------------
(* The tools whose module instance serves every session, at work on several  *)
(* threads, and the token refresh of the client they share.  They share no   *)
(* state, so each behaviour is of one of them: the states are the union of   *)
(* theirs, not the product.                                                 *)
EXTENDS EdgeTypeCache, AlertEvents, AlertUpdate, Containment, RtrCommands, CaseUpdate,
        OAuthRefresh, IacImport

CONSTANTS c1, c2, loop, n1, n2, al1, al2, al3, open, closed, u1, h1, w1, w2, o1, k1, e1, e2, f1, f2, v1, v2, i1,
          t1, t2, t3, d1, d2, p1, p2, m1, m2

VARIABLE tool       \* the tool this behaviour is of

toolVars == <<edgeVars, eventVars, updateVars, containVars, rtrVars, caseVars, oauthVars,
              iacVars, tool>>

Tools == {"edge types", "alert events", "alert update", "containment", "rtr", "cases",
          "tokens", "import"}

\* The tools that are not at work start in one state each.
ToolInit ==
    /\ tool \in Tools
    /\ EInit /\ AInit /\ UInit /\ CInit /\ RInit /\ KInit /\ OInit /\ IInit
    /\ tool = "edge types" \/ \A t \in Thread : reader[t].client = c1
    /\ tool = "alert events" \/ (server = Deferred /\ \A w \in Analyst : analysis[w].tenant = c1)
    /\ tool = "alert update" \/ \A al \in Alert : alertStatus[al] = open
    /\ tool = "containment" \/ protected = {}
    /\ tool = "rtr" \/ \A o \in Operator : command[o].base = "ls"

ToolNext ==
    \/ /\ tool = "edge types" /\ ENext
       /\ UNCHANGED <<eventVars, updateVars, containVars, rtrVars, caseVars, oauthVars, iacVars, tool>>
    \/ /\ tool = "alert events" /\ ANext
       /\ UNCHANGED <<edgeVars, updateVars, containVars, rtrVars, caseVars, oauthVars, iacVars, tool>>
    \/ /\ tool = "alert update" /\ UNext
       /\ UNCHANGED <<edgeVars, eventVars, containVars, rtrVars, caseVars, oauthVars, iacVars, tool>>
    \/ /\ tool = "containment" /\ CNext
       /\ UNCHANGED <<edgeVars, eventVars, updateVars, rtrVars, caseVars, oauthVars, iacVars, tool>>
    \/ /\ tool = "rtr" /\ RNext
       /\ UNCHANGED <<edgeVars, eventVars, updateVars, containVars, caseVars, oauthVars, iacVars, tool>>
    \/ /\ tool = "cases" /\ KNext
       /\ UNCHANGED <<edgeVars, eventVars, updateVars, containVars, rtrVars, oauthVars, iacVars, tool>>
    \/ /\ tool = "tokens" /\ ONext
       /\ UNCHANGED <<edgeVars, eventVars, updateVars, containVars, rtrVars, caseVars, iacVars, tool>>
    \/ /\ tool = "import" /\ INext
       /\ UNCHANGED <<edgeVars, eventVars, updateVars, containVars, rtrVars, caseVars, oauthVars, tool>>

\* The fairness of FairRefreshSpec, for the tool it is of.
ToolSpec ==
    /\ ToolInit /\ [][ToolNext]_toolVars
    /\ \A t \in Worker : WF_oauthVars(tool = "tokens" /\ WorkerStep(t))

ToolTypeOK ==
    /\ ETypeOK /\ ATypeOK /\ UTypeOK /\ CTypeOK /\ RTypeOK /\ KTypeOK /\ OTypeOK /\ ITypeOK

\* Every action on a host leaves its line in the audit log of its module.
ActionsAudited == ContainmentAudited /\ RtrAudited
=============================================================================
