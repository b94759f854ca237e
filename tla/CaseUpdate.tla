----------------------------- MODULE CaseUpdate -----------------------------
(***************************************************************************)
(* The case tools that change a case: CaseManagementModule._create_case,   *)
(* _update_case, the evidence, tag and file tools                          *)
(* (modules/case_management.py), called by several editors, against an API  *)
(* that others use too.  Any request may be refused, or take effect and its *)
(* answer be lost.                                                         *)
(*                                                                         *)
(* case_update is two requests, a read and a patch that names the version   *)
(* read.  The other tools are one request each.                             *)
(***************************************************************************)
EXTENDS Naturals

CONSTANTS
    Case,           \* case ids the API can give out
    Editor,         \* calls of case_update that can be under way at once
    Field,          \* status, severity, assignee, name, description
    Value,          \* their values
    Item,           \* alerts, events, tags and files a case can hold
    MaxCaseVersion  \* bound: no case is changed further

ASSUME CaseUpdateAssumption ==
    /\ Case # {} /\ Value # {}
    /\ MaxCaseVersion \in Nat \ {0}

VARIABLES
    cases,          \* the API's cases, by id
    edit            \* edit[e]: editor e's call of case_update

caseVars == <<cases, edit>>

Contents == [Field -> Value]

\* The fields that a call sets, with their values; the others are left out.
Updates == UNION {[fs -> Value] : fs \in SUBSET Field}

\* The API's side: a patch sets its fields and leaves the others, and every
\* change of a case makes a new version.
Merge(contents, updates) ==
    [f \in Field |-> IF f \in DOMAIN updates THEN updates[f] ELSE contents[f]]

Changed(c, contents, items) ==
    cases' = [cases EXCEPT ![c] = [version |-> @.version + 1,
                                   contents |-> contents, items |-> items]]

Changeable(c) == c \in DOMAIN cases /\ cases[c].version < MaxCaseVersion

\* A call that is over, or has not read yet, remembers nothing of a case.
Call(pc, c, updates) ==
    [pc |-> pc, case |-> c, asked |-> updates,
     version |-> 0, seen |-> CHOOSE contents \in Contents : TRUE]

Over(pc) == Call(pc, CHOOSE c \in Case : TRUE, [f \in {} |-> 0])

KInit ==
    /\ cases = [c \in {} |-> 0]
    /\ edit = [e \in Editor |-> Over("idle")]

\* The case is there once the request has taken effect, whatever the answer;
\* a call whose answer is lost and that is repeated creates another.
CreateCase(c, contents, items) ==
    /\ c \notin DOMAIN cases
    /\ cases' = [k \in DOMAIN cases \cup {c} |->
                   IF k = c THEN [version |-> 1, contents |-> contents, items |-> items]
                   ELSE cases[k]]
    /\ UNCHANGED edit

UpdateCase(e, c, updates) ==
    /\ edit[e].pc \in {"idle", "succeeded", "failed"}
    /\ edit' = [edit EXCEPT ![e] = Call("read", c, updates)]
    /\ UNCHANGED cases

EditFails(e) ==
    /\ edit' = [edit EXCEPT ![e] = Over("failed")]
    /\ UNCHANGED cases

\* A call without fields is turned down only after the read.
GetCurrent(e) ==
    LET c == edit[e].case
    IN  /\ edit[e].pc = "read"
        /\ c \in DOMAIN cases
        /\ edit' = [edit EXCEPT
                      ![e] = IF DOMAIN @.asked = {} THEN Over("failed")
                             ELSE [pc |-> "patch", case |-> c, asked |-> @.asked,
                                   version |-> cases[c].version, seen |-> cases[c].contents]]
        /\ UNCHANGED cases

\* The read is refused, raises, or finds no such case.
GetCurrentFails(e) == edit[e].pc = "read" /\ EditFails(e)

\* Mutant of Patch: no expected_version, and the API has nothing to compare.
PatchUnconditional(e) ==
    LET c == edit[e].case
    IN  /\ edit[e].pc = "patch"
        /\ Changeable(c)
        /\ Changed(c, Merge(cases[c].contents, edit[e].asked), cases[c].items)
        /\ \E pc \in {"succeeded", "failed"} : edit' = [edit EXCEPT ![e] = Over(pc)]

\* The API applies the patch to a case that still has the expected version; the
\* answer may be lost.
Patch(e) ==
    LET c == edit[e].case
    IN  /\ edit[e].pc = "patch"
        /\ Changeable(c)
        /\ cases[c].version = edit[e].version
        /\ Changed(c, Merge(cases[c].contents, edit[e].asked), cases[c].items)
        /\ \E pc \in {"succeeded", "failed"} : edit' = [edit EXCEPT ![e] = Over(pc)]

\* A version conflict, or any other refusal.
PatchRefused(e) == edit[e].pc = "patch" /\ EditFails(e)

\* Evidence or tags added, in one request.
AddToCase(c, items) ==
    /\ Changeable(c)
    /\ Changed(c, cases[c].contents, cases[c].items \cup items)
    /\ UNCHANGED edit

\* A file that is not there makes no request.
UploadFile(c, file) ==
    /\ Changeable(c)
    /\ Changed(c, cases[c].contents, cases[c].items \cup {file})
    /\ UNCHANGED edit

DeleteTags(c, items) ==
    /\ Changeable(c)
    /\ Changed(c, cases[c].contents, cases[c].items \ items)
    /\ UNCHANGED edit

\* Somebody edits a field in the console.
ConsoleEdit(c, f, v) ==
    /\ Changeable(c)
    /\ Changed(c, [cases[c].contents EXCEPT ![f] = v], cases[c].items)
    /\ UNCHANGED edit

KNext ==
    \/ \E e \in Editor :
          \/ \E c \in Case, updates \in Updates : UpdateCase(e, c, updates)
          \/ GetCurrent(e) \/ GetCurrentFails(e) \/ Patch(e) \/ PatchRefused(e)
    \/ \E c \in Case :
          \/ \E contents \in Contents, items \in SUBSET Item : CreateCase(c, contents, items)
          \/ \E items \in SUBSET Item \ {{}} : AddToCase(c, items) \/ DeleteTags(c, items)
          \/ \E file \in Item : UploadFile(c, file)
          \/ \E f \in Field, v \in Value : ConsoleEdit(c, f, v)

KSpec == KInit /\ [][KNext]_caseVars

-----------------------------------------------------------------------------
KTypeOK ==
    /\ DOMAIN cases \subseteq Case
    /\ \A c \in DOMAIN cases :
          cases[c] \in [version : 1..MaxCaseVersion, contents : Contents, items : SUBSET Item]
    /\ edit \in [Editor -> [pc : {"idle", "read", "patch", "succeeded", "failed"},
                            case : Case, asked : Updates,
                            version : 0..MaxCaseVersion, seen : Contents]]

\* The inductive invariant: a case that still has the version a call has read
\* still has the contents it has read, and no version is read before it exists.
ReadStillCurrent ==
    \A e \in Editor :
        edit[e].pc = "patch"
        => LET c == edit[e].case
           IN  /\ c \in DOMAIN cases
               /\ edit[e].version <= cases[c].version
               /\ edit[e].version = cases[c].version => edit[e].seen = cases[c].contents

\* case_update changes the case as it read it and nothing else: a field that
\* anybody has changed since, through a tool or in the console, is never set
\* back or mixed with the caller's ("automatic optimistic concurrency handling",
\* case_management.py:334).
UpdatesWhatItRead ==
    [][\A e \in Editor :
          edit[e].pc = "patch" /\ edit'[e].pc # "patch" /\ cases' # cases
          => /\ cases[edit[e].case].contents = edit[e].seen
             /\ cases'[edit[e].case].contents = Merge(edit[e].seen, edit[e].asked)]_caseVars
=============================================================================
