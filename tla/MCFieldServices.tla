-------------------------- MODULE MCFieldServices --------------------------
(* The services that are installed beside the phone system and its users:    *)
(* the auto-pager's, with three jobs; its execution of pages, with two pages *)
(* and one audio file; and the remote control agent's tasks, two of any      *)
(* kinds with one file, and terminals, two sessions with three SSH           *)
(* connections between them.  The four share no variable (the connection of  *)
(* the pages is here the surroundings' business): a behaviour is one of the  *)
(* "part" it is of, the others at rest.                                      *)
EXTENDS PagerServices, PageExecution, TaskLoop, Terminal, TLC

CONSTANTS j1, j2, j3, p1, p2, w1, t1, t2, f1, s1, s2, c1, c2, c3

VARIABLE part

allVars == <<part, vars, pageVars, taskVars, terminalVars>>

FieldInit ==
    /\ part \in {"services", "pages", "tasks", "terminals"}
    /\ Init /\ PagesInit /\ TaskInit /\ TerminalInit
    /\ part # "services" => ~settings.pbx /\ ~settings.sip
    /\ part # "tasks" => files = {} /\ \A t \in Task : runs[t].kind = "unknown"

FieldNext ==
    \/ part = "services"  /\ Next         /\ UNCHANGED <<part, pageVars, taskVars, terminalVars>>
    \/ part = "pages"     /\ PagesNext    /\ UNCHANGED <<part, vars, taskVars, terminalVars>>
    \/ part = "tasks"     /\ TaskNext     /\ UNCHANGED <<part, vars, pageVars, terminalVars>>
    \/ part = "terminals" /\ TerminalNext /\ UNCHANGED <<part, vars, pageVars, taskVars>>

FieldSpec == FieldInit /\ [][FieldNext]_allVars

FieldSymmetry == Permutations(Job) \cup Permutations(Page)
=============================================================================
