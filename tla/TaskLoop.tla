------------------------------ MODULE TaskLoop ------------------------------
(***************************************************************************)
(* The task loop of the remote control agent (rcc-agent/src/index.ts) with *)
(* the work it does on a phone system over SSH (ssh-deployer.ts) and its   *)
(* requests to the command center (api-client.ts).                         *)
(*                                                                         *)
(* An interval timer polls for a task.  "busy" is read before the request  *)
(* and set after the answer, so polls may overlap and so may tasks.  The   *)
(* command center is not part of this repository: it is taken to hand out  *)
(* each task once and to keep the last result it is told.                  *)
(*                                                                         *)
(* All tasks are for one phone system.  "run" is what a task is doing.     *)
(***************************************************************************)
EXTENDS Integers, FiniteSets

CONSTANTS
    Task,
    File,        \* the files of the SSO tasks
    Kinds        \* the kinds of task the command center may hand out

Kind == {"deploy_sso", "remove_sso", "deploy_3cx_tools", "remove_3cx_tools", "unknown"}

ASSUME TaskLoopAssumption ==
    /\ Kinds \subseteq Kind
    /\ IsFiniteSet(File) /\ File # {}

VARIABLES
    asking,      \* how many polls await an answer of the command center
    busy,        \* the flag
    runs,        \* what each task is doing
    files,       \* the SSO files in the target directory of the phone system
    service,     \* what systemctl says of the relay's service there
    result,      \* what the command center has been told of each task
    verified,    \* tasks whose work was found done at the end (history)
    mixed        \* tasks that ran while another did (history)

taskVars == <<asking, busy, runs, files, service, result, verified, mixed>>

Status == {"active", "activating", "failed", "inactive"}

\* "todo" holds the files a task has yet to write, remove or look for.
Step   == {"new", "connecting", "changing", "verifying", "reporting", "failing", "done"}
Run    == [kind : Kind, step : Step, todo : SUBSET File]

TaskTypeOK ==
    /\ asking \in 0..2
    /\ busy \in BOOLEAN
    /\ runs \in [Task -> Run]
    /\ files \subseteq File
    /\ service \in Status
    /\ result \in [Task -> {"none", "success", "failure"}]
    /\ verified \subseteq Task /\ mixed \subseteq Task

Processing == {t \in Task : runs[t].step \notin {"new", "done"}}

Reaches(t, step) == runs' = [runs EXCEPT ![t].step = step]

-----------------------------------------------------------------------------
(* poll()                                                                  *)

\* The interval timer fires and no task is under way: the request goes out.  (At
\* most two are considered at a time.)
Poll ==
    /\ ~busy
    /\ asking < 2
    /\ asking' = asking + 1
    /\ UNCHANGED <<busy, runs, files, service, result, verified, mixed>>

\* pollForTask() returns null or fails.
NoTask ==
    /\ asking > 0
    /\ asking' = asking - 1
    /\ UNCHANGED <<busy, runs, files, service, result, verified, mixed>>

\* pollForTask() returns a task, which is processed whatever "busy" says by now: an
\* unknown kind is reported as failed, the others begin with an SSH connection.
TakeTask(t) ==
    /\ asking > 0 /\ runs[t].step = "new"
    /\ asking' = asking - 1
    /\ busy' = TRUE
    /\ Reaches(t, IF runs[t].kind = "unknown" THEN "failing" ELSE "connecting")
    /\ mixed' = IF Processing = {} THEN mixed ELSE mixed \cup Processing \cup {t}
    /\ UNCHANGED <<files, service, result, verified>>

-----------------------------------------------------------------------------
(* deploySsoFiles(), removeSsoFiles(), deploy3cxTools(), remove3cxTools()   *)

\* ssh.connect() succeeds.  A task without files fails at once.
Connected(t, some) ==
    /\ runs[t].step = "connecting"
    /\ LET sso == runs[t].kind \in {"deploy_sso", "remove_sso"} IN
       runs' = [runs EXCEPT ![t].step = IF sso /\ ~some THEN "failing" ELSE "changing",
                            ![t].todo = IF sso /\ some THEN File ELSE {}]
    /\ UNCHANGED <<asking, busy, files, service, result, verified, mixed>>

\* One file is written, or removed; when all are, the task starts to verify.
ChangeFile(t, f) ==
    /\ runs[t].step = "changing" /\ f \in runs[t].todo
    /\ files' = IF runs[t].kind = "deploy_sso" THEN files \cup {f} ELSE files \ {f}
    /\ runs' = IF runs[t].todo = {f}
               THEN [runs EXCEPT ![t].step = "verifying", ![t].todo = File]
               ELSE [runs EXCEPT ![t].todo = @ \ {f}]
    /\ UNCHANGED <<asking, busy, service, result, verified, mixed>>

\* The install or uninstall script ends without an error code; that does not say
\* what has become of the service.
RunScript(t, status) ==
    /\ runs[t].step = "changing" /\ runs[t].kind \in {"deploy_3cx_tools", "remove_3cx_tools"}
    /\ service' = status
    /\ Reaches(t, "verifying")
    /\ UNCHANGED <<asking, busy, files, result, verified, mixed>>

\* One file is looked for.
VerifyFile(t, f) ==
    /\ runs[t].step = "verifying" /\ f \in runs[t].todo
    /\ IF (f \in files) = (runs[t].kind = "deploy_sso")
       THEN /\ runs' = [runs EXCEPT ![t].todo = @ \ {f},
                                    ![t].step = IF runs[t].todo = {f} THEN "reporting" ELSE @]
            /\ verified' = IF runs[t].todo = {f} THEN verified \cup {t} ELSE verified
       ELSE Reaches(t, "failing") /\ UNCHANGED verified
    /\ UNCHANGED <<asking, busy, files, service, result, mixed>>

\* What passes for a running service after an installation: includes("active").
LooksActive(status) == status \in {"active", "inactive"}

\* systemctl is-active, after an installation ...
VerifyInstalled(t) ==
    /\ runs[t].step = "verifying" /\ runs[t].kind = "deploy_3cx_tools"
    /\ Reaches(t, IF LooksActive(service) THEN "reporting" ELSE "failing")
    /\ verified' = IF LooksActive(service) THEN verified \cup {t} ELSE verified
    /\ UNCHANGED <<asking, busy, files, service, result, mixed>>

\* ... and after a removal, where "active" alone is a failure.
VerifyRemoved(t) ==
    /\ runs[t].step = "verifying" /\ runs[t].kind = "remove_3cx_tools"
    /\ Reaches(t, IF service = "active" THEN "failing" ELSE "reporting")
    /\ verified' = IF service = "active" THEN verified ELSE verified \cup {t}
    /\ UNCHANGED <<asking, busy, files, service, result, mixed>>

StepGoesOn(t) ==   \* fault: the failure is logged, not thrown
    /\ runs[t].step \in {"connecting", "changing", "verifying"}
    /\ Reaches(t, "reporting")
    /\ UNCHANGED <<asking, busy, files, service, result, verified, mixed>>

\* The connection, a command or a transfer fails; what was done stays.
StepFails(t) ==
    /\ runs[t].step \in {"connecting", "changing", "verifying"}
    /\ Reaches(t, "failing")
    /\ UNCHANGED <<asking, busy, files, service, result, verified, mixed>>

-----------------------------------------------------------------------------
(* reportResult()                                                          *)

DoneStillBusy(t) ==   \* fault: the flag stays set after a failure
    /\ Reaches(t, "done")
    /\ busy' = (runs[t].step = "failing")

\* The end of poll(): busy is cleared, also when another task is under way.
Done(t) ==
    /\ Reaches(t, "done")
    /\ busy' = FALSE

\* The report of a success: it arrives; or it fails, before or after the command
\* center has taken it, and the task is then reported as failed.
ReportSuccess(t, told, ok) ==
    /\ runs[t].step = "reporting"
    /\ ok => told
    /\ result' = IF told THEN [result EXCEPT ![t] = "success"] ELSE result
    /\ IF ok THEN Done(t) ELSE Reaches(t, "failing") /\ UNCHANGED busy
    /\ UNCHANGED <<asking, files, service, verified, mixed>>

\* The report of a failure; nothing repeats it when it is lost.
ReportFailure(t, told) ==
    /\ runs[t].step = "failing"
    /\ result' = IF told THEN [result EXCEPT ![t] = "failure"] ELSE result
    /\ Done(t)
    /\ UNCHANGED <<asking, files, service, verified, mixed>>

\* The agent ends and starts again: what was under way is not taken up again.
AgentRestarts ==
    /\ busy \/ asking > 0
    /\ asking' = 0 /\ busy' = FALSE
    /\ runs' = [t \in Task |-> IF t \in Processing THEN [runs[t] EXCEPT !.step = "done"] ELSE runs[t]]
    /\ UNCHANGED <<files, service, result, verified, mixed>>

\* The service starts, stops or fails by itself.
ServiceChanges(status) ==
    /\ status # service
    /\ service' = status
    /\ UNCHANGED <<asking, busy, runs, files, result, verified, mixed>>

TaskInit ==
    /\ asking = 0 /\ busy = FALSE
    /\ runs \in [Task -> [kind : Kinds, step : {"new"}, todo : {{}}]]
    /\ files \in {{}, File}
    /\ service = "inactive"
    /\ result = [t \in Task |-> "none"]
    /\ verified = {} /\ mixed = {}

TaskNext ==
    \/ Poll \/ NoTask \/ AgentRestarts
    \/ \E t \in Task :
         \/ TakeTask(t)
         \/ \E some \in BOOLEAN : Connected(t, some)
         \/ \E f \in File : ChangeFile(t, f) \/ VerifyFile(t, f)
         \/ \E status \in Status : RunScript(t, status)
         \/ VerifyInstalled(t) \/ VerifyRemoved(t) \/ StepFails(t)
         \/ \E told, ok \in BOOLEAN : ReportSuccess(t, told, ok)
         \/ \E told \in BOOLEAN : ReportFailure(t, told)
    \/ \E status \in Status : ServiceChanges(status)

TaskSpec == TaskInit /\ [][TaskNext]_taskVars

-----------------------------------------------------------------------------
(* What should hold.                                                       *)

\* As long as no two tasks have run at once, the flag says whether one runs (a flag
\* that is left set would end the polling for good, one that is cleared too early
\* would let tasks overlap).
BusyWhileProcessing ==
    mixed = {} => busy = (Processing # {}) /\ Cardinality(Processing) <= 1

\* Until the report of a task that ran alone is out, its files are as it verified
\* them; and a task is never reported as done that was not found done, whatever
\* failed on the way and however often it was reported.
ReportedAsVerified ==
    \A t \in Task :
        /\ result[t] = "success" => t \in verified
        /\ t \in verified \ mixed /\ runs[t].step \in {"reporting", "failing"} =>
              /\ runs[t].kind = "deploy_sso" => files = File
              /\ runs[t].kind = "remove_sso" => files = {}

\* "Verify the service is running": an installation that ran alone is not taken for
\* done when the service is down.
InstalledServiceRuns ==
    [][\A t \in verified' \ verified :
          runs[t].kind = "deploy_3cx_tools" => service = "active"]_taskVars

=============================================================================
