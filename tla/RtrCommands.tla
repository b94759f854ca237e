----------------------------- MODULE RtrCommands -----------------------------
(***************************************************************************)
(* rtr_execute_command (modules/rtr.py): the allow-list check, the request  *)
(* and the audit line, on worker threads.  A command is its base command    *)
(* and whether the command string starts with it.                          *)
(***************************************************************************)
EXTENDS FiniteSets

CONSTANTS
    BaseCommand,    \* base commands a caller may ask for
    DefaultAllowed, \* DEFAULT_ALLOWED_BASE_COMMANDS
    ExtraAllowed,   \* CROWDSTRIKE_MCP_RTR_EXTRA_ALLOWED
    HardDenied,     \* HARD_DENIED_BASE_COMMANDS
    Operator        \* worker threads that run the tool

ASSUME RtrAssumption ==
    DefaultAllowed \cup ExtraAllowed \cup HardDenied \subseteq BaseCommand

VARIABLES
    command,        \* command[o]: the call of worker o
    rtrLog,         \* rtrLog[o]: the result its line in rtr_audit.log gives
    unwritten       \* history: workers whose line could not be written

rtrVars == <<command, rtrLog, unwritten>>

Allowlist == (DefaultAllowed \cup ExtraAllowed) \ HardDenied

RInit ==
    /\ \E base \in BaseCommand :
          command = [o \in Operator |-> [pc |-> "idle", base |-> base, ids |-> FALSE,
                                         answer |-> "none", ran |-> FALSE]]
    /\ rtrLog = [o \in Operator |-> "none"]
    /\ unwritten = {}

\* The command is validated first; then a missing session or device id is
\* an error of its own, which is not logged.
ExecuteCommand(o, base, matches, ids) ==
    /\ command[o].pc \in {"idle", "answered"}
    /\ command' = [command EXCEPT
         ![o] = [base |-> base, ids |-> ids, ran |-> FALSE, answer |-> "none",
                 pc |-> IF base \notin Allowlist \/ ~matches THEN "audit"
                        ELSE IF ids THEN "execute" ELSE "answered"]]
    /\ rtrLog' = [rtrLog EXCEPT ![o] = "none"]
    /\ unwritten' = unwritten \ {o}

Responds(o, answer, ran, pc) ==
    /\ command[o].pc = "execute"
    /\ command' = [command EXCEPT ![o].pc = pc, ![o].answer = answer, ![o].ran = ran]
    /\ UNCHANGED <<rtrLog, unwritten>>

CommandAccepted(o) == Responds(o, "success", TRUE, "audit")

CommandRefused(o) == \E ran \in BOOLEAN : Responds(o, "failure", ran, "audit")

\* The request raises, perhaps after the API took the command; the handler
\* logs a failure.
CommandRaises(o) == \E ran \in BOOLEAN : Responds(o, "failure", ran, "audit")

WriteRtrLog(o) ==
    /\ command[o].pc = "audit"
    /\ command' = [command EXCEPT ![o].pc = "answered"]
    /\ rtrLog' = [rtrLog EXCEPT
                    ![o] = IF command[o].answer = "success" THEN "success" ELSE "failure"]
    /\ UNCHANGED unwritten

RtrLogFails(o) ==
    /\ command[o].pc = "audit"
    /\ command' = [command EXCEPT ![o].pc = "answered"]
    /\ unwritten' = unwritten \cup {o}
    /\ UNCHANGED rtrLog

RNext ==
    \E o \in Operator :
        \/ \E base \in BaseCommand, matches \in BOOLEAN, ids \in BOOLEAN :
              ExecuteCommand(o, base, matches, ids)
        \/ CommandAccepted(o) \/ CommandRefused(o) \/ CommandRaises(o)
        \/ WriteRtrLog(o) \/ RtrLogFails(o)

RSpec == RInit /\ [][RNext]_rtrVars

-----------------------------------------------------------------------------
RTypeOK ==
    /\ command \in [Operator -> [pc : {"idle", "execute", "audit", "answered"},
                                 base : BaseCommand, ids : BOOLEAN,
                                 answer : {"none", "success", "failure"}, ran : BOOLEAN]]
    /\ rtrLog \in [Operator -> {"none", "success", "failure"}]
    /\ unwritten \subseteq Operator

\* A command that may have run on a host has its line in the audit log when
\* the tool answers, also when the answer was lost ("Every invocation
\* (including rejections) is written to ~/.config/falcon/rtr_audit.log",
\* rtr.py:149-150), unless the log could not be written; a line that says
\* success is of an allowed command that ran.
RtrAudited ==
    \A o \in Operator :
        /\ command[o].pc = "answered" /\ command[o].ran
           => rtrLog[o] # "none" \/ o \in unwritten
        /\ rtrLog[o] = "success" => command[o].ran /\ command[o].base \in Allowlist
=============================================================================
