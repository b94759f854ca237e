-------------------------- MODULE CaseUpdateProofs --------------------------
(***************************************************************************)
(* case_update changes the case it has read, for any number of cases,       *)
(* callers, fields and values.  The version only grows, so a case with the  *)
(* expected version is the case as it was read: ReadStillCurrent.           *)
(***************************************************************************)
EXTENDS CaseUpdate, TLAPS

Record == [version : 1..MaxCaseVersion, contents : Contents, items : SUBSET Item]

CallSet == [pc : {"idle", "read", "patch", "succeeded", "failed"},
            case : Case, asked : Updates,
            version : 0..MaxCaseVersion, seen : Contents]

\* The invariant of the proof: the types and ReadStillCurrent.
KInv == KTypeOK /\ ReadStillCurrent

-----------------------------------------------------------------------------
\* A request's fields are values of fields.
LEMMA UpdatesType ==
    ASSUME NEW updates \in Updates
    PROVE  /\ DOMAIN updates \subseteq Field
           /\ \A f \in DOMAIN updates : updates[f] \in Value
  BY SMT DEF Updates

\* A patched case holds a value in each field.
LEMMA MergeType ==
    ASSUME NEW contents \in Contents, NEW updates \in Updates
    PROVE  Merge(contents, updates) \in Contents
  BY UpdatesType, SMT DEF Merge, Contents

\* A call without fields is a call.
LEMMA NoUpdates == [f \in {} |-> 0] \in Updates
  <1>1. [f \in {} |-> 0] \in [{} -> Value]
    BY SMT
  <1>2. [{} -> Value] \in {[fs -> Value] : fs \in SUBSET Field}
    BY Zenon
  <1> QED BY <1>1, <1>2, Zenon DEF Updates

\* There are contents, for a call that has read nothing.
LEMMA SomeContents == (CHOOSE contents \in Contents : TRUE) \in Contents
  <1>1. PICK v \in Value : TRUE
    BY CaseUpdateAssumption
  <1>2. [f \in Field |-> v] \in Contents
    BY <1>1, SMT DEF Contents
  <1> QED BY <1>2, Zenon

\* A call that has read nothing is a call.
LEMMA CallType ==
    ASSUME NEW pc \in {"idle", "read", "patch", "succeeded", "failed"},
           NEW c \in Case, NEW updates \in Updates
    PROVE  Call(pc, c, updates) \in CallSet
  BY SomeContents, CaseUpdateAssumption, SMT DEF Call, CallSet

LEMMA OverType ==
    ASSUME NEW pc \in {"idle", "read", "patch", "succeeded", "failed"}
    PROVE  /\ Over(pc) \in CallSet
           /\ Over(pc).pc = pc
  <1>1. (CHOOSE c \in Case : TRUE) \in Case
    BY CaseUpdateAssumption, Zenon
  <1>2. Over(pc) \in CallSet
    BY <1>1, NoUpdates, CallType, Zenon DEF Over
  <1>3. Over(pc).pc = pc
    BY SMT DEF Over, Call
  <1> QED BY <1>2, <1>3

\* KTypeOK in terms of the sets above.
LEMMA TypeForm ==
    KTypeOK <=> /\ DOMAIN cases \subseteq Case
                /\ \A c \in DOMAIN cases : cases[c] \in Record
                /\ edit \in [Editor -> CallSet]
  BY Zenon DEF KTypeOK, Record, CallSet

-----------------------------------------------------------------------------
LEMMA InitInv == KInit => KInv
  <1> SUFFICES ASSUME KInit PROVE KInv
    OBVIOUS
  <1>1. edit \in [Editor -> CallSet]
    BY OverType, SMT DEF KInit
  <1>2. DOMAIN cases = {}
    BY SMT DEF KInit
  <1>3. KTypeOK
    BY <1>1, <1>2, TypeForm, Zenon
  <1>4. \A e \in Editor : edit[e].pc = "idle"
    BY OverType, SMT DEF KInit
  <1>5. ReadStillCurrent
    BY <1>4, SMT DEF ReadStillCurrent
  <1> QED BY <1>3, <1>5 DEF KInv

\* A change moves one case to its next version and leaves its id.
LEMMA ChangedCases ==
    ASSUME KInv, NEW c \in Case, Changeable(c),
           NEW contents \in Contents, NEW items \in SUBSET Item,
           Changed(c, contents, items)
    PROVE  /\ DOMAIN cases' = DOMAIN cases
           /\ \A k \in DOMAIN cases : cases'[k] \in Record
           /\ cases'[c].version = cases[c].version + 1
           /\ cases'[c].contents = contents
           /\ \A k \in DOMAIN cases \ {c} : cases'[k] = cases[k]
  <1>1. /\ c \in DOMAIN cases
        /\ \A k \in DOMAIN cases : cases[k] \in Record
        /\ cases[c].version < MaxCaseVersion
    BY TypeForm, Zenon DEF KInv, Changeable
  <1>2. cases' = [cases EXCEPT ![c] = [version |-> cases[c].version + 1,
                                       contents |-> contents, items |-> items]]
    BY Zenon DEF Changed
  <1>3. [version |-> cases[c].version + 1, contents |-> contents, items |-> items] \in Record
    BY <1>1, CaseUpdateAssumption, SMT DEF Record
  <1> QED BY <1>1, <1>2, <1>3, SMT

\* The calls that have read a case can still tell whether it has changed.
LEMMA ChangedKeepsReads ==
    ASSUME KInv, NEW c \in Case, Changeable(c),
           NEW contents \in Contents, NEW items \in SUBSET Item,
           Changed(c, contents, items),
           edit' \in [Editor -> CallSet],
           \A e \in Editor : edit'[e].pc = "patch" => edit'[e] = edit[e]
    PROVE  KInv'
  <1>1. /\ DOMAIN cases' = DOMAIN cases
        /\ \A k \in DOMAIN cases : cases'[k] \in Record
        /\ cases'[c].version = cases[c].version + 1
        /\ \A k \in DOMAIN cases \ {c} : cases'[k] = cases[k]
    BY ChangedCases, Zenon
  <1>2. /\ DOMAIN cases \subseteq Case
        /\ \A k \in DOMAIN cases : cases[k] \in Record
        /\ edit \in [Editor -> CallSet]
    BY TypeForm, Zenon DEF KInv
  <1>3. KTypeOK'
    BY <1>1, <1>2, Zenon DEF KTypeOK, Record, CallSet
  <1>4. ReadStillCurrent'
    <2> SUFFICES ASSUME NEW e \in Editor, edit'[e].pc = "patch"
                 PROVE  LET k == edit'[e].case
                        IN  /\ k \in DOMAIN cases'
                            /\ edit'[e].version <= cases'[k].version
                            /\ edit'[e].version = cases'[k].version
                               => edit'[e].seen = cases'[k].contents
      BY Zenon DEF ReadStillCurrent
    <2> DEFINE k == edit[e].case
    <2>1. edit'[e] = edit[e] /\ edit[e].pc = "patch"
      OBVIOUS
    <2>2. /\ k \in DOMAIN cases
          /\ edit[e].version <= cases[k].version
          /\ edit[e].version = cases[k].version => edit[e].seen = cases[k].contents
      BY <2>1, Zenon DEF KInv, ReadStillCurrent
    <2>3. cases[k].version \in Nat /\ edit[e].version \in Nat
      BY <1>2, <2>2, CaseUpdateAssumption, SMT DEF Record, CallSet
    <2>4. CASE k = c
      BY <1>1, <2>1, <2>2, <2>3, <2>4, SMT
    <2>5. CASE k # c
      BY <1>1, <2>1, <2>2, <2>5, Zenon
    <2> QED BY <2>4, <2>5
  <1> QED BY <1>3, <1>4, Zenon DEF KInv

\* A call that goes on without changing a case forgets it or has just read it.
LEMMA CallKeepsReads ==
    ASSUME KInv, cases' = cases,
           NEW e \in Editor, NEW call \in CallSet,
           edit' = [edit EXCEPT ![e] = call],
           call.pc = "patch" => /\ call.case \in DOMAIN cases
                                /\ call.version = cases[call.case].version
                                /\ call.seen = cases[call.case].contents
    PROVE  KInv'
  <1>1. /\ DOMAIN cases \subseteq Case
        /\ \A k \in DOMAIN cases : cases[k] \in Record
        /\ edit \in [Editor -> CallSet]
    BY TypeForm, Zenon DEF KInv
  <1>2. edit' \in [Editor -> CallSet]
    BY <1>1, SMT
  <1>3. KTypeOK'
    BY <1>1, <1>2, Zenon DEF KTypeOK, Record, CallSet
  <1>4. ASSUME NEW d \in Editor, edit'[d].pc = "patch"
        PROVE  LET k == edit'[d].case
               IN  /\ k \in DOMAIN cases'
                   /\ edit'[d].version <= cases'[k].version
                   /\ edit'[d].version = cases'[k].version
                      => edit'[d].seen = cases'[k].contents
    <2>1. CASE d = e
      <3>1. edit'[d] = call
        BY <1>1, <2>1, SMT
      <3>2. call.pc = "patch"
        BY <1>4, <3>1, Zenon
      <3>3. cases[call.case].version \in Nat
        BY <1>1, <3>2, CaseUpdateAssumption, SMT DEF Record
      <3> QED BY <3>1, <3>2, <3>3, SMT
    <2>2. CASE d # e
      <3>1. edit'[d] = edit[d]
        BY <1>1, <2>2, SMT
      <3> QED BY <1>4, <3>1, Zenon DEF KInv, ReadStillCurrent
    <2> QED BY <2>1, <2>2
  <1>5. ReadStillCurrent'
    BY <1>4, Zenon DEF ReadStillCurrent
  <1> QED BY <1>3, <1>5, Zenon DEF KInv

\* A new case comes at an id that no call has read.
LEMMA CreateKeepsReads ==
    ASSUME KInv, NEW c \in Case, NEW contents \in Contents, NEW items \in SUBSET Item,
           CreateCase(c, contents, items)
    PROVE  KInv'
  <1>1. /\ DOMAIN cases \subseteq Case
        /\ \A k \in DOMAIN cases : cases[k] \in Record
        /\ edit \in [Editor -> CallSet]
    BY TypeForm, Zenon DEF KInv
  <1>2. [version |-> 1, contents |-> contents, items |-> items] \in Record
    BY CaseUpdateAssumption, SMT DEF Record
  <1>3. /\ c \notin DOMAIN cases
        /\ DOMAIN cases' = DOMAIN cases \cup {c}
        /\ cases'[c] = [version |-> 1, contents |-> contents, items |-> items]
        /\ \A k \in DOMAIN cases : cases'[k] = cases[k]
        /\ edit' = edit
    BY SMT DEF CreateCase
  <1>4. KTypeOK'
    <2>1. \A k \in DOMAIN cases' : cases'[k] \in Record
      BY <1>1, <1>2, <1>3, Zenon
    <2>2. DOMAIN cases' \subseteq Case
      BY <1>1, <1>3, Zenon
    <2> QED BY <1>1, <1>3, <2>1, <2>2, Zenon DEF KTypeOK, Record, CallSet
  <1>5. ReadStillCurrent'
    BY <1>3, Zenon DEF KInv, ReadStillCurrent
  <1> QED BY <1>4, <1>5, Zenon DEF KInv

-----------------------------------------------------------------------------
LEMMA NextInv == KInv /\ [KNext]_caseVars => KInv'
  <1> SUFFICES ASSUME KInv, [KNext]_caseVars PROVE KInv'
    OBVIOUS
  <1>t. /\ DOMAIN cases \subseteq Case
        /\ \A k \in DOMAIN cases : cases[k] \in Record
        /\ edit \in [Editor -> CallSet]
    BY TypeForm, Zenon DEF KInv
  <1>over. \A pc \in {"idle", "succeeded", "failed"} :
              Over(pc) \in CallSet /\ Over(pc).pc # "patch"
    BY OverType, SMT
  <1>1. ASSUME NEW e \in Editor, NEW c \in Case, NEW updates \in Updates,
               UpdateCase(e, c, updates)
        PROVE  KInv'
    <2>1. Call("read", c, updates) \in CallSet /\ Call("read", c, updates).pc # "patch"
      BY CallType, SMT DEF Call
    <2> QED BY <1>1, <2>1, CallKeepsReads, Zenon DEF UpdateCase
  <1>2. ASSUME NEW e \in Editor, EditFails(e)
        PROVE  KInv'
    BY <1>2, <1>over, CallKeepsReads, Zenon DEF EditFails
  <1>3. ASSUME NEW e \in Editor, GetCurrent(e)
        PROVE  KInv'
    <2> DEFINE c == edit[e].case
               read == [pc |-> "patch", case |-> c, asked |-> edit[e].asked,
                        version |-> cases[c].version, seen |-> cases[c].contents]
               call == IF DOMAIN edit[e].asked = {} THEN Over("failed") ELSE read
    <2>1. /\ c \in DOMAIN cases
          /\ edit' = [edit EXCEPT ![e] = call]
          /\ cases' = cases
      BY <1>3, <1>t, SMT DEF GetCurrent
    <2>2. cases[c] \in Record /\ edit[e] \in CallSet
      BY <1>t, <2>1, SMT
    <2>3. /\ read \in CallSet
          /\ read.case = c
          /\ read.version = cases[c].version
          /\ read.seen = cases[c].contents
      BY <2>2, CaseUpdateAssumption, SMT DEF Record, CallSet
    <2>4. call \in CallSet
      BY <1>over, <2>3, Zenon
    <2>5. call.pc = "patch" => /\ call.case \in DOMAIN cases
                               /\ call.version = cases[call.case].version
                               /\ call.seen = cases[call.case].contents
      <3> HIDE DEF read, c
      <3>1. SUFFICES ASSUME call.pc = "patch" PROVE call = read
        BY <2>1, <2>3, Zenon
      <3> QED BY <1>over, <3>1, Zenon
    <2> HIDE DEF call
    <2> QED BY <2>1, <2>4, <2>5, CallKeepsReads, Zenon
  <1>4. ASSUME NEW e \in Editor, Patch(e)
        PROVE  KInv'
    <2> DEFINE c == edit[e].case
               contents == Merge(cases[c].contents, edit[e].asked)
    <2>1. /\ Changeable(c)
          /\ Changed(c, contents, cases[c].items)
          /\ \E pc \in {"succeeded", "failed"} : edit' = [edit EXCEPT ![e] = Over(pc)]
      BY <1>4, Zenon DEF Patch
    <2>2. c \in Case /\ cases[c] \in Record /\ edit[e].asked \in Updates
      BY <1>t, <2>1, SMT DEF Changeable, CallSet
    <2>3. contents \in Contents /\ cases[c].items \in SUBSET Item
      <3>1. cases[c].contents \in Contents /\ cases[c].items \in SUBSET Item
        BY <2>2, SMT DEF Record
      <3> QED BY <2>2, <3>1, MergeType, Zenon
    <2>4. edit' \in [Editor -> CallSet]
      BY <1>t, <1>over, <2>1, SMT
    <2>5. \A d \in Editor : edit'[d].pc = "patch" => edit'[d] = edit[d]
      BY <1>t, <1>over, <2>1, SMT
    <2> HIDE DEF c, contents
    <2> QED BY <2>1, <2>2, <2>3, <2>4, <2>5, ChangedKeepsReads, Zenon
  <1>5. ASSUME NEW c \in Case, NEW contents \in Contents, NEW items \in SUBSET Item,
               Changeable(c), Changed(c, contents, items), UNCHANGED edit
        PROVE  KInv'
    BY <1>5, <1>t, ChangedKeepsReads, Zenon
  <1>6. ASSUME NEW c \in Case, NEW items \in SUBSET Item,
               AddToCase(c, items) \/ DeleteTags(c, items)
        PROVE  KInv'
    <2>1. Changeable(c) /\ UNCHANGED edit
      BY <1>6, Zenon DEF AddToCase, DeleteTags
    <2>2. cases[c].contents \in Contents /\ cases[c].items \in SUBSET Item
      BY <1>t, <2>1, SMT DEF Changeable, Record
    <2>3. /\ cases[c].items \cup items \in SUBSET Item
          /\ cases[c].items \ items \in SUBSET Item
      BY <2>2, Zenon
    <2>4. \/ Changed(c, cases[c].contents, cases[c].items \cup items)
          \/ Changed(c, cases[c].contents, cases[c].items \ items)
      BY <1>6, Zenon DEF AddToCase, DeleteTags
    <2> QED BY <1>5, <2>1, <2>2, <2>3, <2>4, Zenon
  <1>7. ASSUME NEW c \in Case, NEW f \in Field, NEW v \in Value, ConsoleEdit(c, f, v)
        PROVE  KInv'
    <2>1. /\ Changeable(c)
          /\ Changed(c, [cases[c].contents EXCEPT ![f] = v], cases[c].items)
          /\ UNCHANGED edit
      BY <1>7, Zenon DEF ConsoleEdit
    <2>2. cases[c].contents \in Contents /\ cases[c].items \in SUBSET Item
      BY <1>t, <2>1, SMT DEF Changeable, Record
    <2>3. [cases[c].contents EXCEPT ![f] = v] \in Contents
      BY <2>2, SMT DEF Contents
    <2> QED BY <1>5, <2>1, <2>2, <2>3, Zenon
  <1>8. ASSUME NEW c \in Case, NEW file \in Item, UploadFile(c, file)
        PROVE  KInv'
    <2>1. /\ Changeable(c)
          /\ Changed(c, cases[c].contents, cases[c].items \cup {file})
          /\ UNCHANGED edit
      BY <1>8, Zenon DEF UploadFile
    <2>2. cases[c].contents \in Contents /\ cases[c].items \in SUBSET Item
      BY <1>t, <2>1, SMT DEF Changeable, Record
    <2>3. cases[c].items \cup {file} \in SUBSET Item
      BY <2>2, Zenon
    <2> QED BY <1>5, <2>1, <2>2, <2>3, Zenon
  <1>9. CASE UNCHANGED caseVars
    BY <1>9, Zenon DEF caseVars, KInv, KTypeOK, ReadStillCurrent
  <1> QED
    BY <1>1, <1>2, <1>3, <1>4, <1>6, <1>7, <1>8, <1>9, CreateKeepsReads, Zenon
    DEF KNext, GetCurrentFails, PatchRefused

\* Every record of a case or of a call has its type in every state.
THEOREM CaseTypeOK == KSpec => []KTypeOK
  <1>1. KInv => KTypeOK
    BY DEF KInv
  <1> QED BY InitInv, NextInv, <1>1, PTL DEF KSpec

\* A case that still has the version a call has read is as the call read it.
THEOREM CaseReadStillCurrent == KSpec => []ReadStillCurrent
  <1>1. KInv => ReadStillCurrent
    BY DEF KInv
  <1> QED BY InitInv, NextInv, <1>1, PTL DEF KSpec

-----------------------------------------------------------------------------
\* The step of UpdatesWhatItRead.
UpdateStep ==
    \A e \in Editor :
        edit[e].pc = "patch" /\ edit'[e].pc # "patch" /\ cases' # cases
        => /\ cases[edit[e].case].contents = edit[e].seen
           /\ cases'[edit[e].case].contents = Merge(edit[e].seen, edit[e].asked)

\* A call that ends with the cases changed has just patched its case.
LEMMA EndsWithChange ==
    ASSUME KInv, KNext, NEW e \in Editor,
           edit[e].pc = "patch", edit'[e].pc # "patch", cases' # cases
    PROVE  Patch(e)
  <1>1. edit' # edit
    OBVIOUS
  <1>2. PICK d \in Editor : Patch(d)
    BY <1>1, Zenon DEF KNext, UpdateCase, GetCurrent, GetCurrentFails, PatchRefused,
                 EditFails, CreateCase, AddToCase, UploadFile, DeleteTags, ConsoleEdit
  <1>3. edit \in [Editor -> CallSet]
    BY TypeForm, Zenon DEF KInv
  <1>4. \A b \in Editor \ {d} : edit'[b] = edit[b]
    BY <1>2, <1>3, SMT DEF Patch
  <1>5. d = e
    BY <1>4, Zenon
  <1> QED BY <1>2, <1>5, Zenon

\* A call's change is to the case as it read it, so nobody's later change is
\* undone, whoever made it and however the calls interleave.
THEOREM CaseUpdatesWhatItRead == KSpec => UpdatesWhatItRead
  <1>1. ASSUME KInv, [KNext]_caseVars
        PROVE  [UpdateStep]_caseVars
    <2>1. CASE UNCHANGED caseVars
      BY <2>1
    <2>2. CASE KNext
      <3> SUFFICES ASSUME NEW e \in Editor,
                          edit[e].pc = "patch", edit'[e].pc # "patch", cases' # cases
                   PROVE  /\ cases[edit[e].case].contents = edit[e].seen
                          /\ cases'[edit[e].case].contents
                                = Merge(edit[e].seen, edit[e].asked)
        BY Zenon DEF UpdateStep
      <3> DEFINE c == edit[e].case
                 contents == Merge(cases[c].contents, edit[e].asked)
      <3>1. Patch(e)
        BY <1>1, <2>2, EndsWithChange, Zenon
      <3>2. /\ Changeable(c)
            /\ cases[c].version = edit[e].version
            /\ Changed(c, contents, cases[c].items)
        BY <3>1, Zenon DEF Patch
      <3>3. cases[c].contents = edit[e].seen
        BY <1>1, <3>2, Zenon DEF KInv, ReadStillCurrent
      <3>4. /\ c \in Case
            /\ cases[c].contents \in Contents
            /\ cases[c].items \in SUBSET Item
            /\ edit[e].asked \in Updates
        BY <1>1, <3>2, TypeForm, SMT DEF KInv, Changeable, Record, CallSet
      <3>5. contents \in Contents
        BY <3>4, MergeType, Zenon
      <3>6. cases'[c].contents = contents
        <4> HIDE DEF c, contents
        <4> QED BY <1>1, <3>2, <3>4, <3>5, ChangedCases, Zenon
      <3> QED BY <3>3, <3>6, Zenon
    <2> QED BY <1>1, <2>1, <2>2, Zenon
  <1>2. UpdatesWhatItRead <=> [][UpdateStep]_caseVars
    BY Zenon DEF UpdatesWhatItRead, UpdateStep
  <1> QED BY InitInv, NextInv, <1>1, <1>2, PTL DEF KSpec
=============================================================================
