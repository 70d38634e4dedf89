---------------------------- MODULE PagerServices ----------------------------
(***************************************************************************)
(* The services of the auto-pager (auto-pager/src/index.ts) and the        *)
(* endpoints that start them again (api.ts): a phone system client, a      *)
(* queue monitor and a pager are kept in three global variables, and       *)
(* startServices() fills them across four awaits.  The server listens      *)
(* before the first start has ended, and nothing makes one restart wait    *)
(* for another.                                                            *)
(*                                                                         *)
(* A job is one asynchronous run of the code: the first start (main) or a  *)
(* PUT of the settings.  The client, monitor and pager a job creates carry *)
(* its name.  One action is what runs between two awaits.                  *)
(***************************************************************************)
EXTENDS Integers, FiniteSets

CONSTANTS
    Job,          \* names for jobs, each used once in the life of a process
    None,         \* null
    MaxVersion    \* bound on the changes of the settings

ASSUME PagerServicesAssumption ==
    /\ None \notin Job
    /\ MaxVersion \in Nat

VARIABLES
    up,           \* the process runs
    settings,     \* the table of settings
    session,      \* the session of a browser: "none", "live" or "old"
    jobs,         \* what each job awaits
    client, monitor, pager,   \* the global variables of index.ts
    monitors,     \* every monitor there is: its state, its client, its 'page' listeners
    pagers,       \* every pager there is; PageExecution follows its connection
    conf,         \* pjsip.conf: the version of the settings it was written from
    loaded,       \* the version Asterisk has loaded
    wanted,       \* the version the last job that decided to write it read (history)
    overlapped,   \* a restart came while a start was under way (history, of the process)
    raced,        \* the last job to decide to write it did while another had yet to (history)
    unwritten,    \* the last write decided on failed, or the process ended first (history)
    unloaded      \* a reload since the last write failed, or was never asked for (history)

globals == <<client, monitor, pager>>
objects == <<monitors, pagers>>
confs   == <<conf, loaded, wanted, raced, unwritten, unloaded>>
vars == <<up, settings, session, jobs, globals, objects, confs, overlapped>>

Version  == 0..MaxVersion
NoJob    == [stage |-> "unused", conf |-> 0, restart |-> FALSE, boot |-> FALSE]
NoMonitor == [state |-> "none", client |-> None, page |-> 0, log |-> 0]

Starting   == {"testing", "resolving", "reloading"}
ConfStages == {"resolving", "saveResolving"}
Reloads    == {"reloading", "saveReloading"}
Stages     == Starting \cup {"unused", "saveResolving", "saveReloading", "done"}

TypeOK ==
    /\ {up, overlapped, raced, unwritten, unloaded} \subseteq BOOLEAN
    /\ settings \in [pbx : BOOLEAN, sip : BOOLEAN, version : Version]
    /\ session \in {"none", "live", "old"}
    /\ jobs \in [Job -> [stage : Stages, conf : Version, restart : BOOLEAN, boot : BOOLEAN]]
    /\ {client, monitor, pager} \subseteq Job \cup {None}
    /\ monitors \in [Job -> [state : {"none", "running", "stopped"}, client : Job \cup {None},
                             page : 0..Cardinality(Job), log : 0..Cardinality(Job)]]
    /\ pagers \in [Job -> {"none", "open", "gone"}]
    /\ {conf, loaded, wanted} \subseteq Version

-----------------------------------------------------------------------------
(* startServices() and stopServices().                                     *)

At(stages) == {j \in Job : jobs[j].stage \in stages}

StopKeepsMonitor ==   \* fault: the monitor is dropped without being stopped
    /\ monitors' = [m \in Job |-> IF m = monitor THEN [monitors[m] EXCEPT !.page = 0, !.log = 0]
                                                 ELSE monitors[m]]
    /\ pagers' = [p \in Job |-> IF p = pager THEN "gone" ELSE pagers[p]]
    /\ monitor' = None /\ pager' = None

\* stopServices(): no await; it knows what the globals hold and nothing else.
StopServices ==
    /\ monitors' = [m \in Job |-> IF m = monitor
                                  THEN [monitors[m] EXCEPT !.state = "stopped", !.page = 0, !.log = 0]
                                  ELSE monitors[m]]
    /\ pagers' = [p \in Job |-> IF p = pager THEN "gone" ELSE pagers[p]]
    /\ monitor' = None /\ pager' = None

\* startServices() up to its first await, in a job that continues from the record
\* "job": without the connection settings there is nothing to start.
StartServices(j, job) ==
    /\ jobs' = [jobs EXCEPT ![j] = [job EXCEPT !.stage = IF settings'.pbx THEN "testing" ELSE "done"]]
    /\ client' = IF settings'.pbx THEN j ELSE None
    /\ overlapped' = (overlapped \/ At(Starting) # {})

\* restartServices()
RestartServices(j, job) == StopServices /\ StartServices(j, job)

Goes(j, stage) == jobs' = [jobs EXCEPT ![j].stage = stage]

WriteOldSettings(j, job) ==   \* fault: the settings are read before they are stored
    /\ jobs' = [jobs EXCEPT ![j] = [job EXCEPT !.conf = settings.version]]
    /\ wanted' = settings'.version
    /\ raced' = (At(ConfStages) # {})
    /\ unwritten' = FALSE

\* Decides to write pjsip.conf from the settings as they are now.
WillWrite(j, job) ==
    /\ jobs' = [jobs EXCEPT ![j] = [job EXCEPT !.conf = settings'.version]]
    /\ wanted' = settings'.version
    /\ raced' = (At(ConfStages) # {})
    /\ unwritten' = FALSE

\* The process ends, and with it its memory and whatever it was about to write.
Forget ==
    /\ up' = FALSE
    /\ session' = "none"
    /\ jobs' = [j \in Job |-> NoJob]
    /\ client' = None /\ monitor' = None /\ pager' = None
    /\ monitors' = [m \in Job |-> NoMonitor] /\ pagers' = [p \in Job |-> "none"]
    /\ overlapped' = FALSE
    /\ unwritten' = (unwritten \/ At(ConfStages) # {})
    /\ unloaded' = (unloaded \/ At(Reloads) # {})
    /\ UNCHANGED <<wanted, raced>>

-----------------------------------------------------------------------------
(* A job between its awaits.                                               *)

\* main(): the server listens, then the services start.
Boot(j) ==
    /\ ~up
    /\ up' = TRUE
    /\ UNCHANGED settings
    /\ StartServices(j, [NoJob EXCEPT !.boot = TRUE])
    /\ UNCHANGED <<session, monitor, pager, objects, confs>>

\* testConnection() fails: nothing tries again.
TestFails(j) ==
    /\ jobs[j].stage = "testing"
    /\ client' = None
    /\ Goes(j, "done")
    /\ UNCHANGED <<up, settings, session, monitor, pager, objects, confs, overlapped>>

\* testConnection() succeeds.  The monitor gets the client the global holds now;
\* without SIP settings its pages are only logged.
TestSucceeds(j) ==
    /\ jobs[j].stage = "testing"
    /\ monitor' = j
    /\ monitors' = [monitors EXCEPT ![j] =
                       [state |-> "running", client |-> client, page |-> 0,
                        log |-> IF settings.sip THEN 0 ELSE 1]]
    /\ UNCHANGED settings
    /\ IF settings.sip THEN WillWrite(j, [jobs[j] EXCEPT !.stage = "resolving"])
                       ELSE Goes(j, "done") /\ UNCHANGED <<wanted, raced, unwritten>>
    /\ UNCHANGED <<up, session, client, pager, pagers, conf, loaded, unloaded, overlapped>>

\* writePjsipConfig() after the lookup of the host name (with UDP there is none to
\* wait for); the file is written whatever has been written since.
Resolved(j) ==
    /\ jobs[j].stage \in ConfStages
    /\ conf' = jobs[j].conf /\ unloaded' = FALSE
    /\ Goes(j, IF jobs[j].stage = "resolving" THEN "reloading" ELSE "saveReloading")
    /\ UNCHANGED <<up, settings, session, globals, objects, loaded, wanted, raced, unwritten, overlapped>>

\* The file cannot be written: a save goes on, a start ends where it is, with a
\* running monitor nobody listens to, and the first start takes the process with it.
WriteFails(j) ==
    /\ jobs[j].stage \in ConfStages
    /\ UNCHANGED <<settings, conf, loaded>>
    /\ IF jobs[j].stage = "resolving" /\ jobs[j].boot THEN Forget
       ELSE /\ IF jobs[j].stage = "saveResolving" /\ jobs[j].restart
               THEN RestartServices(j, jobs[j])
               ELSE Goes(j, "done") /\ UNCHANGED <<globals, objects, overlapped>>
            /\ unwritten' = TRUE
            /\ UNCHANGED <<up, session, wanted, raced, unloaded>>

\* "pjsip reload": Asterisk loads what the file holds by now, if it can be told to.
ReloadAsterisk(ok) == loaded' = IF ok THEN conf ELSE loaded

\* reloadAsterisk() in a PUT of the settings; it never throws.
SaveReloaded(j, ok) ==
    /\ jobs[j].stage = "saveReloading"
    /\ ReloadAsterisk(ok) /\ unloaded' = ~ok
    /\ UNCHANGED settings
    /\ IF jobs[j].restart THEN RestartServices(j, jobs[j])
                          ELSE Goes(j, "done") /\ UNCHANGED <<globals, objects, overlapped>>
    /\ UNCHANGED <<up, session, conf, wanted, raced, unwritten>>

\* The end of startServices(): a new pager, and a listener on the monitor the global
\* holds now.  If a restart has emptied it, the access throws: a PUT logs it, the
\* first start ends the process.
Reloaded(j, ok) ==
    /\ jobs[j].stage = "reloading"
    /\ ReloadAsterisk(ok)
    /\ IF monitor = None /\ jobs[j].boot THEN Forget
       ELSE /\ pager' = j
            /\ pagers' = [pagers EXCEPT ![j] = "open"]
            /\ monitors' = [m \in Job |-> IF m = monitor THEN [monitors[m] EXCEPT !.page = @ + 1]
                                                         ELSE monitors[m]]
            /\ Goes(j, "done")
            /\ unloaded' = ~ok
            /\ UNCHANGED <<up, session, client, monitor, overlapped, wanted, raced, unwritten>>
    /\ UNCHANGED <<settings, conf>>

-----------------------------------------------------------------------------
(* The HTTP API.                                                           *)

\* POST /login: the phone system has accepted the password.  Given with the address
\* of a phone system it stores the connection; it starts nothing.
Login(store) ==
    /\ up
    /\ session' = "live"
    /\ IF store THEN /\ settings.version < MaxVersion
                     /\ settings' = [settings EXCEPT !.pbx = TRUE, !.version = @ + 1]
                ELSE /\ settings.pbx
                     /\ UNCHANGED settings
    /\ UNCHANGED <<up, jobs, globals, objects, confs, overlapped>>

\* POST /logout
Logout ==
    /\ session # "none"
    /\ session' = "none"
    /\ UNCHANGED <<up, settings, jobs, globals, objects, confs, overlapped>>

\* sessionTtlMs is over; getSession() removes the session when it is next used.
SessionExpires ==
    /\ session = "live"
    /\ session' = "old"
    /\ UNCHANGED <<up, settings, jobs, globals, objects, confs, overlapped>>

\* requireAuth()
Authenticated == session = "live"

\* PUT /settings: "keys" says which kinds of setting are given (the address of the
\* phone system, its login, the SIP account); what is stored may complete them or,
\* a blank value beside others, make them incomplete again.
PutSettings(j, keys, pbx, sip) ==
    /\ up /\ Authenticated
    /\ jobs[j].stage = "unused"
    /\ settings.version < MaxVersion
    /\ settings' = [pbx |-> pbx, sip |-> sip, version |-> settings.version + 1]
    /\ LET writes   == keys \cap {"url", "sip"} # {} /\ pbx /\ sip
           restarts == keys \cap {"url", "login"} # {}
       IN  \/ /\ writes
              /\ WillWrite(j, [NoJob EXCEPT !.stage = "saveResolving", !.restart = restarts])
              /\ UNCHANGED <<globals, objects, overlapped>>
           \/ /\ ~writes /\ restarts
              /\ RestartServices(j, NoJob)
              /\ UNCHANGED <<wanted, raced, unwritten>>
           \/ /\ ~writes /\ ~restarts
              /\ UNCHANGED <<jobs, globals, objects, overlapped, wanted, raced, unwritten>>
    /\ UNCHANGED <<up, session, conf, loaded, unloaded>>

-----------------------------------------------------------------------------
(* The surroundings.                                                       *)

\* SIGTERM, SIGINT or a crash.
Exit ==
    /\ up
    /\ Forget
    /\ UNCHANGED <<settings, conf, loaded>>

Init ==
    /\ up = FALSE
    /\ \E pbx, sip \in BOOLEAN : settings = [pbx |-> pbx, sip |-> sip, version |-> 0]
    /\ session = "none"
    /\ jobs = [j \in Job |-> NoJob]
    /\ client = None /\ monitor = None /\ pager = None
    /\ monitors = [m \in Job |-> NoMonitor] /\ pagers = [p \in Job |-> "none"]
    /\ conf = 0 /\ loaded = 0 /\ wanted = 0
    /\ overlapped = FALSE /\ raced = FALSE /\ unwritten = FALSE /\ unloaded = FALSE

Next ==
    \/ \E j \in Job :
         \/ Boot(j) \/ TestFails(j) \/ TestSucceeds(j) \/ Resolved(j) \/ WriteFails(j)
         \/ \E ok \in BOOLEAN : SaveReloaded(j, ok) \/ Reloaded(j, ok)
         \/ \E keys \in SUBSET {"url", "login", "sip"}, pbx, sip \in BOOLEAN :
               PutSettings(j, keys, pbx, sip)
    \/ \E store \in BOOLEAN : Login(store)
    \/ Logout \/ SessionExpires \/ Exit

Spec == Init /\ [][Next]_vars

-----------------------------------------------------------------------------
(* What should hold.                                                       *)

Running == {m \in Job : monitors[m].state = "running"}

\* As long as starts do not overlap, restarts leave nothing behind: one monitor runs
\* at most, the one the program knows, with the client it knows, and a page of that
\* monitor is executed once or, without a pager, logged once.  (Overlapping restarts
\* leave monitors that nothing stops and pages that are played twice.)
RestartsLeaveNothing ==
    ~overlapped =>
        /\ Running \subseteq {monitor}
        /\ monitor # None => client # None /\ monitors[monitor].client = client
        /\ \A m \in Job : monitors[m].page + monitors[m].log <= 1
        /\ \A p \in Job \ {pager} : pagers[p] \in {"none", "gone"}

\* Once no job is about to write it, pjsip.conf holds the settings the last job to decide
\* to write it read, unless that job decided while another had yet to write (the slower
\* lookup wins), its write failed or the process ended first: nothing tries again.
ConfIsWritten == ~raced /\ ~unwritten /\ At(ConfStages) = {} => conf = wanted

\* Once no job is about to reload it, Asterisk has loaded what the file holds, unless a
\* reload after the last write failed or the process ended between the two.
ConfIsLoaded == ~unloaded /\ At(Reloads) = {} => loaded = conf

\* The configuration of Asterisk is that of the newest settings somebody decided to
\* write, on disk and loaded, as far as the writes and reloads went well.
ConfIsNewest == ConfIsWritten /\ ConfIsLoaded

=============================================================================
