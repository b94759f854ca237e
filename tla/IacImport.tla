------------------------------ MODULE IacImport ------------------------------
(***************************************************************************)
(* correlation_import_to_iac (modules/correlation.py): a rule is fetched,    *)
(* turned into a template and written to a file of the detections            *)
(* repository, unless there is one of that name.  Imports run on threads of  *)
(* one process, which may be killed.                                        *)
(***************************************************************************)
EXTENDS Naturals, FiniteSets

CONSTANTS
    IacRule,        \* the rules
    Path,           \* template files: a vendor directory and a resource id
    Importer,       \* calls of the tool that can be under way at once
    NoFile, Partial \* no file; one that holds no whole template

ASSUME IacAssumption ==
    /\ NoFile # Partial /\ {NoFile, Partial} \cap IacRule = {}
    /\ IacRule # {} /\ Path # {}

VARIABLES
    disk,       \* the file at each path: the rule it is the template of
    import,     \* the calls
    contended   \* the paths two imports were at together, for the properties

iacVars == <<disk, import, contended>>

Import(pc, r, p) == [pc |-> pc, rule |-> r, path |-> p]
Underway == {"fetch", "template", "offer", "check", "open", "write"}
HasPath == {"offer", "check", "open", "write"}

\* A call that has ended without writing is remembered by how it ended.
Ended(pc) == Import(pc, CHOOSE r \in IacRule : TRUE, CHOOSE p \in Path : TRUE)

IInit ==
    /\ disk = [p \in Path |-> NoFile]
    /\ import = [i \in Importer |-> Ended("idle")]
    /\ contended = {}

Goes(i, pc) == import' = [import EXCEPT ![i].pc = pc]
Ends(i, pc) == import' = [import EXCEPT ![i] = Ended(pc)]

ImportToIac(i, r) ==
    /\ import[i].pc \notin Underway
    /\ import' = [import EXCEPT ![i] = [Ended("fetch") EXCEPT !.rule = r]]
    /\ UNCHANGED <<disk, contended>>

\* An unknown vendor, or a rule that is not to be had.
RuleFetchFails(i) ==
    /\ import[i].pc = "fetch"
    /\ Ends(i, "refused")
    /\ UNCHANGED <<disk, contended>>

FetchRule(i) ==
    /\ import[i].pc = "fetch"
    /\ Goes(i, "template")
    /\ UNCHANGED <<disk, contended>>

\* The path is the one _generate_resource_id makes of the rule's name, to which
\* other names can come too, or that of resource_id_override.
RuleToTemplate(i, p) ==
    /\ import[i].pc = "template"
    /\ import' = [import EXCEPT ![i].pc = "offer", ![i].path = p]
    /\ contended' = contended \cup {q \in {p} : \E j \in Importer \ {i} :
                                       import[j].path = q /\ import[j].pc \in HasPath}
    /\ UNCHANGED disk

\* A dry run, or no repository to write to, ends with the template as text.
OfferTemplate(i) ==
    /\ import[i].pc = "offer"
    /\ Goes(i, "check") \/ Ends(i, "shown")
    /\ UNCHANGED <<disk, contended>>

\* Mutant of CheckTarget: an existing file does not matter.
CheckTargetDirectory(i) ==
    /\ import[i].pc = "check"
    /\ Goes(i, "open") \/ Ends(i, "refused")
    /\ UNCHANGED <<disk, contended>>

\* os.path.exists, then whether the vendor's directory is there.
CheckTarget(i) ==
    /\ import[i].pc = "check"
    /\ \/ disk[import[i].path] = NoFile /\ Goes(i, "open")
       \/ Ends(i, "refused")
    /\ UNCHANGED <<disk, contended>>

\* open(target_path, "w") empties the file, whoever made it since the check.
OpenTarget(i) ==
    /\ import[i].pc = "open"
    /\ disk' = [disk EXCEPT ![import[i].path] = Partial]
    /\ Goes(i, "write")
    /\ UNCHANGED contended

\* The text goes over what another import has written meanwhile; a longer one
\* shows at its end.
WriteTemplate(i) ==
    LET p == import[i].path
    IN  /\ import[i].pc = "write"
        /\ \E content \in {import[i].rule} \cup (IF disk[p] = Partial THEN {} ELSE {Partial}) :
              disk' = [disk EXCEPT ![p] = content]
        /\ Goes(i, "written")
        /\ UNCHANGED contended

\* The write raises, and leaves what it finds.
WriteFails(i) ==
    /\ import[i].pc = "write"
    /\ Ends(i, "raised")
    /\ UNCHANGED <<disk, contended>>

\* The process is killed: its calls are gone, the files stay.
ProcessKilled ==
    /\ \E i \in Importer : import[i].pc \in Underway
    /\ import' = [i \in Importer |-> IF import[i].pc \in Underway THEN Ended("killed")
                                     ELSE import[i]]
    /\ UNCHANGED <<disk, contended>>

INext ==
    \/ ProcessKilled
    \/ \E i \in Importer :
          \/ \E r \in IacRule : ImportToIac(i, r)
          \/ \E p \in Path : RuleToTemplate(i, p)
          \/ RuleFetchFails(i) \/ FetchRule(i) \/ OfferTemplate(i) \/ CheckTarget(i)
          \/ OpenTarget(i) \/ WriteTemplate(i) \/ WriteFails(i)

IacSpec == IInit /\ [][INext]_iacVars

-----------------------------------------------------------------------------
ITypeOK ==
    /\ disk \in [Path -> IacRule \cup {NoFile, Partial}]
    /\ import \in [Importer -> [pc : Underway \cup {"idle", "refused", "shown", "written", "raised", "killed"},
                               rule : IacRule, path : Path]]
    /\ contended \subseteq Path

\* A template that an import has reported as written stays as it is, whatever
\* is imported later and however the process ends, as long as no two imports
\* were at its path together.
WrittenTemplateStays ==
    \A i \in Importer :
        import[i].pc = "written" /\ import[i].path \notin contended =>
            disk[import[i].path] = import[i].rule
=============================================================================
