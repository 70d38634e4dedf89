------------------------ MODULE FieldServicesProofs -------------------------
(***************************************************************************)
(* Theorems about the services on site: the auto-pager's services and the  *)
(* execution of pages, the task loop and the terminal of the agent; for any *)
(* jobs, pages, tasks and sessions.                                        *)
(***************************************************************************)
EXTENDS PagerServices, PageExecution, TaskLoop, Terminal, FiniteSetTheorems,
        TLAPS

-----------------------------------------------------------------------------
(***************************************************************************)
(* PagerServices: settings that arrive while services start and stop.      *)
(***************************************************************************)

JobRecord == [stage : Stages, conf : Version, restart : BOOLEAN, boot : BOOLEAN]
MonitorRecord == [state : {"none", "running", "stopped"}, client : Job \cup {None}, page : Nat, log : Nat]

ServiceTypes ==
    /\ settings \in [pbx : BOOLEAN, sip : BOOLEAN, version : Version]
    /\ jobs \in [Job -> JobRecord]
    /\ {client, monitor, pager} \subseteq Job \cup {None}
    /\ monitors \in [Job -> MonitorRecord]
    /\ pagers \in [Job -> {"none", "open", "gone"}]
    /\ conf \in Version

(* A process that does not run has no memory.                                *)
DownIsEmpty ==
    ~up => /\ \A j \in Job : jobs[j].stage = "unused" /\ monitors[j] = NoMonitor /\ pagers[j] = "none"
           /\ monitor = None /\ pager = None

(* Unless two jobs were about to write at once, the one that is writes what  *)
(* is wanted;                                                                *)
OneWriter ==
    ~raced => \A j \in At(ConfStages) : At(ConfStages) = {j} /\ jobs[j].conf = wanted

(* unless starts overlapped, the one that is under way owns the globals: the *)
(* client is its own, there is no pager, and the monitor, from the answer of *)
(* the phone system on, is its own with no listener yet.                     *)
OneStart ==
    ~overlapped =>
        \A j \in At(Starting) :
            /\ At(Starting) = {j} /\ client = j /\ pager = None
            /\ jobs[j].stage = "testing" => monitor = None
            /\ jobs[j].stage # "testing" =>
                 monitor = j /\ monitors[j].page = 0 /\ monitors[j].log = 0

Writing == OneWriter /\ ConfIsWritten
Owning  == OneStart /\ RestartsLeaveNothing

ServicesIInv == ServiceTypes /\ DownIsEmpty /\ Writing /\ ConfIsLoaded /\ Owning

LEMMA EmptyServices ==
    ASSUME \A j \in Job : jobs[j].stage = "unused" /\ monitors[j] = NoMonitor /\ pagers[j] = "none",
           monitor = None, pager = None
    PROVE  DownIsEmpty /\ OneWriter /\ Owning
<1>1. At(Starting) = {} /\ At(ConfStages) = {}
  BY DEF At, Starting, ConfStages
<1>2. /\ \A j \in Job : /\ monitors[j].state = "none" /\ monitors[j].page = 0 /\ monitors[j].log = 0
                        /\ monitors[j].page + monitors[j].log <= 1
  BY DEF NoMonitor
<1>3. Running = {}
  BY <1>2 DEF Running
<1>4. RestartsLeaveNothing
  BY <1>2, <1>3 DEF RestartsLeaveNothing
<1> QED BY <1>1, <1>4 DEF DownIsEmpty, Owning, OneWriter, OneStart

LEMMA ServicesEmptied ==
    ((\A j \in Job : jobs[j].stage = "unused" /\ monitors[j] = NoMonitor /\ pagers[j] = "none")
     /\ monitor = None /\ pager = None
     => DownIsEmpty /\ OneWriter /\ Owning)'
<1>1. (\A j \in Job : jobs[j].stage = "unused" /\ monitors[j] = NoMonitor /\ pagers[j] = "none")
      /\ monitor = None /\ pager = None
      => DownIsEmpty /\ OneWriter /\ Owning
  BY EmptyServices
<1> QED BY <1>1, PTL

LEMMA NoServices ==
    /\ [j \in Job |-> NoJob] \in [Job -> JobRecord] /\ NoJob.stage = "unused"
    /\ [m \in Job |-> NoMonitor] \in [Job -> MonitorRecord] /\ NoMonitor.state = "none"
<1>1. 0 \in Version
  BY PagerServicesAssumption DEF Version
<1>2. NoJob \in JobRecord /\ NoJob.stage = "unused"
  BY <1>1 DEF NoJob, JobRecord, Stages
<1>3. NoMonitor \in MonitorRecord /\ NoMonitor.state = "none"
  BY DEF NoMonitor, MonitorRecord
<1> QED BY <1>2, <1>3

LEMMA ServicesInitIInv == Init => ServicesIInv
<1> SUFFICES ASSUME Init PROVE ServicesIInv
  OBVIOUS
<1>1. 0 \in Version
  BY PagerServicesAssumption DEF Version
<1>2. settings \in [pbx : BOOLEAN, sip : BOOLEAN, version : Version]
  <2>1. PICK pbx \in BOOLEAN, sip \in BOOLEAN : settings = [pbx |-> pbx, sip |-> sip, version |-> 0]
    BY DEF Init
  <2> QED BY <1>1, <2>1
<1>3. ServiceTypes
  BY <1>1, <1>2, NoServices DEF Init, ServiceTypes
<1>4. \A j \in Job : jobs[j].stage = "unused" /\ monitors[j] = NoMonitor /\ pagers[j] = "none"
  BY NoServices DEF Init
<1>5. monitor = None /\ pager = None /\ wanted = conf /\ loaded = conf
  BY DEF Init
<1> QED BY <1>3, <1>4, <1>5, EmptyServices DEF ServicesIInv, Writing, ConfIsWritten, ConfIsLoaded

(* The process ends.                                                         *)
LEMMA ServicesForget ==
    ASSUME ServicesIInv, Forget, UNCHANGED <<settings, conf>>, loaded' = loaded \/ At(Reloads) # {}
    PROVE  ServicesIInv'
<1>1. ServiceTypes'
  BY NoServices DEF Forget, ServicesIInv, ServiceTypes
<1>2. \A j \in Job : jobs'[j].stage = "unused" /\ monitors'[j] = NoMonitor /\ pagers'[j] = "none"
  BY NoServices DEF Forget
<1>3. monitor' = None /\ pager' = None
  BY DEF Forget
<1>4. (DownIsEmpty /\ OneWriter /\ Owning)'
  BY <1>2, <1>3, ServicesEmptied
<1>5. ConfIsWritten'
  BY DEF Forget, ServicesIInv, Writing, ConfIsWritten
<1>6. ConfIsLoaded'
  BY DEF Forget, ServicesIInv, ConfIsLoaded
<1> QED BY <1>1, <1>4, <1>5, <1>6 DEF ServicesIInv, Writing

-----------------------------------------------------------------------------
(* A step of one job.                                                        *)

LEMMA JobMoves ==
    ASSUME ServiceTypes, NEW j \in Job, NEW job \in JobRecord, jobs' = [jobs EXCEPT ![j] = job]
    PROVE  /\ jobs' \in [Job -> JobRecord] /\ jobs'[j] = job
           /\ \A i \in Job \ {j} : jobs'[i] = jobs[i]
           /\ \A stages : At(stages)' = (At(stages) \ {j}) \cup (IF job.stage \in stages THEN {j} ELSE {})
BY DEF ServiceTypes, At

(* What it writes: nothing, or it decides to write, or it has written or     *)
(* failed to.                                                                *)
LEMMA JobWrites ==
    ASSUME ServiceTypes, Writing, NEW j \in Job, NEW job \in JobRecord, jobs' = [jobs EXCEPT ![j] = job],
           \/ /\ jobs[j].stage \notin ConfStages /\ job.stage \notin ConfStages
              /\ UNCHANGED <<conf, wanted, raced, unwritten>>
           \/ /\ jobs[j].stage \notin ConfStages /\ job.stage \in ConfStages
              /\ wanted' = job.conf /\ raced' = (At(ConfStages) # {})
           \/ /\ jobs[j].stage \in ConfStages /\ job.stage \notin ConfStages
              /\ raced' = raced
              /\ (conf' = jobs[j].conf /\ wanted' = wanted) \/ unwritten'
    PROVE  Writing'
<1>1. /\ jobs'[j] = job /\ \A i \in Job \ {j} : jobs'[i] = jobs[i]
      /\ At(ConfStages)' = (At(ConfStages) \ {j}) \cup (IF job.stage \in ConfStages THEN {j} ELSE {})
  BY JobMoves
<1>2. j \in At(ConfStages) <=> jobs[j].stage \in ConfStages
  BY DEF At
<1>3. At(ConfStages) \subseteq Job
  BY DEF At
<1>4. CASE /\ jobs[j].stage \notin ConfStages /\ job.stage \notin ConfStages
           /\ UNCHANGED <<conf, wanted, raced, unwritten>>
  BY <1>1, <1>2, <1>3, <1>4 DEF Writing, OneWriter, ConfIsWritten
<1>5. CASE /\ jobs[j].stage \notin ConfStages /\ job.stage \in ConfStages
           /\ wanted' = job.conf /\ raced' = (At(ConfStages) # {})
  BY <1>1, <1>5 DEF Writing, OneWriter, ConfIsWritten
<1>6. CASE /\ jobs[j].stage \in ConfStages /\ job.stage \notin ConfStages
           /\ raced' = raced
           /\ (conf' = jobs[j].conf /\ wanted' = wanted) \/ unwritten'
  <2>1. ~raced => (conf' = wanted' \/ unwritten') /\ At(ConfStages) = {j}
    BY <1>2, <1>6 DEF Writing, OneWriter
  <2> QED BY <1>1, <1>6, <2>1 DEF Writing, OneWriter, ConfIsWritten
<1> QED BY <1>4, <1>5, <1>6

(* What it has loaded: nothing, or it has yet to, or it has tried.           *)
Loads(j, stage) ==
    \/ stage \in Reloads
    \/ jobs[j].stage \notin Reloads /\ UNCHANGED <<conf, loaded, unloaded>>
    \/ unloaded' \/ loaded' = conf'

LEMMA JobLoads ==
    ASSUME ServiceTypes, ConfIsLoaded, NEW j \in Job, NEW job \in JobRecord,
           jobs' = [jobs EXCEPT ![j] = job], Loads(j, job.stage)
    PROVE  ConfIsLoaded'
<1>1. At(Reloads)' = (At(Reloads) \ {j}) \cup (IF job.stage \in Reloads THEN {j} ELSE {})
  BY JobMoves
<1>2. j \in At(Reloads) <=> jobs[j].stage \in Reloads
  BY DEF At
<1> QED BY <1>1, <1>2 DEF Loads, ConfIsLoaded

(* What stopServices() leaves.                                               *)
LEMMA Stopped ==
    ASSUME ServiceTypes, StopServices
    PROVE  /\ monitor' = None /\ pager' = None
           /\ monitors' \in [Job -> MonitorRecord] /\ pagers' \in [Job -> {"none", "open", "gone"}]
           /\ \A m \in Job \ {monitor} : monitors'[m] = monitors[m]
           /\ monitor \in Job => /\ monitors'[monitor].state = "stopped"
                                 /\ monitors'[monitor].page = 0 /\ monitors'[monitor].log = 0
           /\ \A p \in Job \ {pager} : pagers'[p] = pagers[p]
           /\ pager \in Job => pagers'[pager] = "gone"
<1> DEFINE stopped(m) == [[[monitors[m] EXCEPT !.state = "stopped"] EXCEPT !.page = 0] EXCEPT !.log = 0]
<1>1. \A m \in Job : monitors[m] \in MonitorRecord
  BY DEF ServiceTypes
<1>2. ASSUME NEW m \in Job
      PROVE  /\ stopped(m) \in MonitorRecord /\ stopped(m).state = "stopped"
             /\ stopped(m).page = 0 /\ stopped(m).log = 0
  BY <1>1 DEF MonitorRecord
<1>3. monitors' = [m \in Job |-> IF m = monitor THEN stopped(m) ELSE monitors[m]]
  BY DEF StopServices
<1> HIDE DEF stopped
<1>4. /\ monitors' \in [Job -> MonitorRecord]
      /\ \A m \in Job : monitors'[m] = IF m = monitor THEN stopped(m) ELSE monitors[m]
  BY <1>1, <1>2, <1>3
<1>5. pagers' = [p \in Job |-> IF p = pager THEN "gone" ELSE pagers[p]]
  BY DEF StopServices
<1>6. /\ pagers' \in [Job -> {"none", "open", "gone"}]
      /\ \A p \in Job : pagers'[p] = IF p = pager THEN "gone" ELSE pagers[p]
  BY <1>5 DEF ServiceTypes
<1> QED BY <1>2, <1>4, <1>6 DEF StopServices

(* startServices(), after stopServices().                                    *)
LEMMA JobRestarts ==
    ASSUME ServiceTypes, Owning, NEW j \in Job, NEW job \in JobRecord, jobs' = [jobs EXCEPT ![j] = job],
           StopServices, jobs[j].stage \notin Starting,
           \/ job.stage = "testing" /\ client' = j
           \/ job.stage = "done" /\ client' = None,
           overlapped' = (overlapped \/ At(Starting) # {})
    PROVE  Owning'
<1>1. /\ jobs'[j] = job
      /\ At(Starting)' = (At(Starting) \ {j}) \cup (IF job.stage \in Starting THEN {j} ELSE {})
  BY JobMoves
<1>2. /\ monitor' = None /\ pager' = None
      /\ monitors' \in [Job -> MonitorRecord]
      /\ \A m \in Job \ {monitor} : monitors'[m] = monitors[m]
      /\ monitor \in Job => /\ monitors'[monitor].state = "stopped"
                            /\ monitors'[monitor].page = 0 /\ monitors'[monitor].log = 0
      /\ \A p \in Job \ {pager} : pagers'[p] = pagers[p]
      /\ pager \in Job => pagers'[pager] = "gone"
  BY Stopped
<1> SUFFICES ASSUME ~overlapped' PROVE Owning'
  BY DEF Owning, OneStart, RestartsLeaveNothing
<1>3. ~overlapped /\ At(Starting) = {}
  OBVIOUS
<1>4. OneStart'
  BY <1>1, <1>2, <1>3, PagerServicesAssumption DEF OneStart, Starting
<1>5. Running' = {}
  BY <1>2, <1>3 DEF Owning, RestartsLeaveNothing, Running
<1>6. \A m \in Job : monitors'[m].page + monitors'[m].log <= 1
  <2> SUFFICES ASSUME NEW m \in Job PROVE monitors'[m].page + monitors'[m].log <= 1
    OBVIOUS
  <2>1. CASE m = monitor
    <3>1. monitors'[m].page = 0 /\ monitors'[m].log = 0
      BY <1>2, <2>1
    <3> QED BY <3>1
  <2>2. CASE m # monitor
    BY <1>2, <1>3, <2>2 DEF Owning, RestartsLeaveNothing
  <2> QED BY <2>1, <2>2
<1>7. \A p \in Job : pagers'[p] \in {"none", "gone"}
  BY <1>2, <1>3 DEF Owning, RestartsLeaveNothing
<1> QED BY <1>2, <1>4, <1>5, <1>6, <1>7 DEF Owning, RestartsLeaveNothing

(* A job that leaves the globals and what they hold alone.                   *)
LEMMA JobKeepsGlobals ==
    ASSUME ServiceTypes, Owning, NEW j \in Job, NEW job \in JobRecord, jobs' = [jobs EXCEPT ![j] = job],
           UNCHANGED <<monitor, pager, objects, overlapped>>,
           \/ jobs[j].stage \notin Starting /\ job.stage \notin Starting /\ client' = client
           \/ jobs[j].stage = "resolving" /\ job.stage \in {"reloading", "done"} /\ client' = client
           \/ jobs[j].stage = "testing" /\ job.stage = "done" /\ client' = None
    PROVE  Owning'
<1>1. /\ jobs'[j] = job /\ \A i \in Job \ {j} : jobs'[i] = jobs[i]
      /\ At(Starting)' = (At(Starting) \ {j}) \cup (IF job.stage \in Starting THEN {j} ELSE {})
  BY JobMoves
<1>2. Running' = Running
  BY DEF Running, objects
<1>3. At(Starting) \subseteq Job /\ (j \in At(Starting) <=> jobs[j].stage \in Starting)
  BY DEF At
<1> SUFFICES ASSUME ~overlapped PROVE Owning'
  BY DEF Owning, OneStart, RestartsLeaveNothing
<1>4. CASE jobs[j].stage \notin Starting /\ job.stage \notin Starting /\ client' = client
  <2>1. OneStart'
    BY <1>1, <1>3, <1>4 DEF Owning, OneStart, objects
  <2> QED BY <1>2, <1>4, <2>1 DEF Owning, RestartsLeaveNothing, objects
<1>5. CASE jobs[j].stage = "resolving" /\ job.stage \in {"reloading", "done"} /\ client' = client
  <2>1. j \in At(Starting)
    BY <1>3, <1>5 DEF Starting
  <2>2. OneStart'
    BY <1>1, <1>5, <2>1 DEF Owning, OneStart, objects
  <2> QED BY <1>2, <1>5, <2>2 DEF Owning, RestartsLeaveNothing, objects
<1>6. CASE jobs[j].stage = "testing" /\ job.stage = "done" /\ client' = None
  <2>1. j \in At(Starting) /\ job.stage \notin Starting
    BY <1>3, <1>6 DEF Starting
  <2>2. At(Starting)' = {} /\ monitor = None
    BY <1>1, <1>6, <2>1 DEF Owning, OneStart
  <2> QED BY <1>2, <2>2 DEF Owning, OneStart, RestartsLeaveNothing, objects
<1> QED BY <1>4, <1>5, <1>6

(* The answer of the phone system: the monitor of the job is the only one.   *)
LEMMA JobMonitors ==
    ASSUME ServiceTypes, Owning, NEW j \in Job, NEW job \in JobRecord, jobs' = [jobs EXCEPT ![j] = job],
           jobs[j].stage = "testing",
           NEW new \in MonitorRecord, monitors' = [monitors EXCEPT ![j] = new], monitor' = j,
           new.client = client, new.page = 0, new.log \in 0..1,
           \/ job.stage = "resolving" /\ new.log = 0
           \/ job.stage = "done",
           UNCHANGED <<client, pager, pagers, overlapped>>
    PROVE  Owning'
<1>1. /\ jobs'[j] = job
      /\ At(Starting)' = (At(Starting) \ {j}) \cup (IF job.stage \in Starting THEN {j} ELSE {})
  BY JobMoves
<1>2. monitors'[j] = new /\ \A m \in Job \ {j} : monitors'[m] = monitors[m]
  BY DEF ServiceTypes
<1> SUFFICES ASSUME ~overlapped PROVE Owning'
  BY DEF Owning, OneStart, RestartsLeaveNothing
<1>3. At(Starting) = {j} /\ client = j /\ pager = None /\ monitor = None
  <2>1. j \in At(Starting)
    BY DEF At, Starting
  <2> QED BY <2>1 DEF Owning, OneStart
<1>4. OneStart'
  BY <1>1, <1>2, <1>3 DEF OneStart, Starting
<1>5. Running' \subseteq {j}
  BY <1>2, <1>3, PagerServicesAssumption DEF Owning, RestartsLeaveNothing, Running
<1>6. \A m \in Job : monitors'[m].page + monitors'[m].log <= 1
  BY <1>2 DEF Owning, RestartsLeaveNothing
<1>7. client' # None /\ monitors'[j].client = client'
  BY <1>2, <1>3, PagerServicesAssumption
<1> QED BY <1>3, <1>4, <1>5, <1>6, <1>7 DEF Owning, RestartsLeaveNothing

(* The end of startServices(): the pager of the job is the only one, and the *)
(* monitor gets its listener.                                                *)
LEMMA JobListens ==
    ASSUME ServiceTypes, Owning, NEW j \in Job, NEW job \in JobRecord, jobs' = [jobs EXCEPT ![j] = job],
           jobs[j].stage = "reloading", job.stage = "done",
           pager' = j, pagers' = [pagers EXCEPT ![j] = "open"],
           monitors' \in [Job -> MonitorRecord],
           \A m \in Job : /\ monitors'[m].state = monitors[m].state
                          /\ monitors'[m].client = monitors[m].client
                          /\ monitors'[m].log = monitors[m].log
                          /\ m # monitor => monitors'[m].page = monitors[m].page
                          /\ m = monitor => monitors'[m].page = monitors[m].page + 1,
           UNCHANGED <<client, monitor, overlapped>>
    PROVE  Owning'
<1>1. jobs'[j] = job /\ At(Starting)' = At(Starting) \ {j}
  <2>1. job.stage \notin Starting
    BY DEF Starting
  <2>2. /\ jobs'[j] = job
        /\ At(Starting)' = (At(Starting) \ {j}) \cup (IF job.stage \in Starting THEN {j} ELSE {})
    BY JobMoves
  <2> QED BY <2>1, <2>2
<1> SUFFICES ASSUME ~overlapped PROVE Owning'
  BY DEF Owning, OneStart, RestartsLeaveNothing
<1>2. At(Starting) = {j} /\ client = j /\ pager = None /\ monitor = j
      /\ monitors[j].page = 0 /\ monitors[j].log = 0
  <2>1. j \in At(Starting)
    BY DEF At, Starting
  <2> QED BY <2>1 DEF Owning, OneStart
<1>3. OneStart'
  BY <1>1, <1>2 DEF OneStart
<1>4. Running' = Running
  BY DEF Running
<1>5. \A m \in Job : monitors'[m].page + monitors'[m].log <= 1
  <2> SUFFICES ASSUME NEW m \in Job PROVE monitors'[m].page + monitors'[m].log <= 1
    OBVIOUS
  <2>1. CASE m = j
    <3>1. monitors'[m].page = 1 /\ monitors'[m].log = 0
      BY <1>2, <2>1
    <3> QED BY <3>1
  <2>2. CASE m # j
    <3>1. monitors'[m].page = monitors[m].page /\ monitors'[m].log = monitors[m].log
      BY <1>2, <2>2
    <3> QED BY <3>1 DEF Owning, RestartsLeaveNothing
  <2> QED BY <2>1, <2>2
<1>6. \A p \in Job \ {j} : pagers'[p] \in {"none", "gone"}
  BY <1>2, PagerServicesAssumption DEF Owning, RestartsLeaveNothing, ServiceTypes
<1> QED BY <1>2, <1>3, <1>4, <1>5, <1>6 DEF Owning, RestartsLeaveNothing

-----------------------------------------------------------------------------
(* The actions.                                                              *)

(* A job record that goes on.                                                *)
LEMMA JobAt ==
    ASSUME NEW job \in JobRecord, NEW stage \in Stages
    PROVE  LET new == [job EXCEPT !.stage = stage]
           IN  new \in JobRecord /\ new.stage = stage /\ new.conf = job.conf
BY DEF JobRecord

LEMMA RunningProcess ==
    ASSUME ServicesIInv, NEW j \in Job, jobs[j].stage # "unused"
    PROVE  up
BY DEF ServicesIInv, DownIsEmpty

(* A restart, whoever asks for it.                                           *)
LEMMA ServicesRestart ==
    ASSUME ServicesIInv, NEW j \in Job, NEW before \in JobRecord, jobs[j].stage \notin Starting,
           StopServices, StartServices(j, before), jobs[j].stage \notin ConfStages \/ unwritten',
           jobs[j].stage \notin ConfStages => unwritten' = unwritten,
           up', settings' \in [pbx : BOOLEAN, sip : BOOLEAN, version : Version],
           UNCHANGED <<conf, wanted, raced>>, \A stage \in {"testing", "done"} : Loads(j, stage)
    PROVE  ServicesIInv'
<1> PICK stage \in {"testing", "done"} : stage = IF settings'.pbx THEN "testing" ELSE "done"
  OBVIOUS
<1> DEFINE job == [before EXCEPT !.stage = stage]
<1>1. job \in JobRecord /\ job.stage = stage
  BY JobAt DEF Stages, Starting
<1>2. /\ jobs' = [jobs EXCEPT ![j] = job]
      /\ client' = IF stage = "testing" THEN j ELSE None
      /\ overlapped' = (overlapped \/ At(Starting) # {})
  BY DEF StartServices
<1> HIDE DEF job
<1>3. ServiceTypes /\ Owning /\ Writing /\ ConfIsLoaded
  BY DEF ServicesIInv
<1>4. Owning'
  BY <1>1, <1>2, <1>3, JobRestarts
<1>8. ConfIsLoaded'
  BY <1>1, <1>2, <1>3, JobLoads
<1>5. job.stage \notin ConfStages
  BY <1>1 DEF ConfStages
<1>6. Writing'
  <2>1. CASE jobs[j].stage \in ConfStages
    BY <1>1, <1>2, <1>3, <1>5, <2>1, JobWrites
  <2>2. CASE jobs[j].stage \notin ConfStages
    BY <1>1, <1>2, <1>3, <1>5, <2>2, JobWrites
  <2> QED BY <2>1, <2>2
<1>7. ServiceTypes'
  <2>1. jobs' \in [Job -> JobRecord]
    BY <1>1, <1>2, <1>3, JobMoves
  <2> QED BY <1>2, <1>3, <2>1, Stopped DEF ServiceTypes
<1> QED BY <1>4, <1>6, <1>7, <1>8 DEF ServicesIInv, DownIsEmpty

(* Another step of a job that changes none of the globals but the client.    *)
LEMMA ServicesStay ==
    ASSUME ServicesIInv, NEW j \in Job, NEW stage \in Stages, Goes(j, stage), up',
           settings' \in [pbx : BOOLEAN, sip : BOOLEAN, version : Version],
           UNCHANGED <<monitor, pager, objects, overlapped, raced>>,
           stage \notin ConfStages, wanted' = wanted, Loads(j, stage),
           \/ jobs[j].stage \notin ConfStages /\ UNCHANGED <<conf, unwritten>>
           \/ jobs[j].stage \in ConfStages
              /\ \/ conf' = jobs[j].conf
                 \/ unwritten' /\ conf' = conf,
           \/ jobs[j].stage \notin Starting /\ stage \notin Starting /\ client' = client
           \/ jobs[j].stage = "resolving" /\ stage \in {"reloading", "done"} /\ client' = client
           \/ jobs[j].stage = "testing" /\ stage = "done" /\ client' = None
    PROVE  ServicesIInv'
<1> DEFINE job == [jobs[j] EXCEPT !.stage = stage]
<1>1. ServiceTypes /\ Owning /\ Writing /\ ConfIsLoaded /\ jobs[j] \in JobRecord
  BY DEF ServicesIInv, ServiceTypes
<1>2. job \in JobRecord /\ job.stage = stage
  BY <1>1, JobAt
<1>3. jobs' = [jobs EXCEPT ![j] = job]
  BY DEF Goes
<1> HIDE DEF job
<1>4. Owning'
  BY <1>1, <1>2, <1>3, JobKeepsGlobals
<1>7. ConfIsLoaded'
  BY <1>1, <1>2, <1>3, JobLoads
<1>5. Writing'
  <2>1. CASE jobs[j].stage \in ConfStages
    BY <1>1, <1>2, <1>3, <2>1, JobWrites
  <2>2. CASE jobs[j].stage \notin ConfStages
    BY <1>1, <1>2, <1>3, <2>2, JobWrites
  <2> QED BY <2>1, <2>2
<1>6. ServiceTypes'
  <2>1. jobs' \in [Job -> JobRecord]
    BY <1>1, <1>2, <1>3, JobMoves
  <2>2. conf' \in Version /\ client' \in Job \cup {None}
    BY <1>1 DEF ServiceTypes, JobRecord
  <2> QED BY <1>1, <2>1, <2>2 DEF ServiceTypes, objects
<1> QED BY <1>4, <1>5, <1>6, <1>7 DEF ServicesIInv, DownIsEmpty

LEMMA ServicesBoot ==
    ASSUME ServicesIInv, NEW j \in Job, Boot(j)
    PROVE  ServicesIInv'
<1> DEFINE before == [NoJob EXCEPT !.boot = TRUE]
<1>1. before \in JobRecord
  <2>1. 0 \in Version
    BY PagerServicesAssumption DEF Version
  <2> QED BY <2>1 DEF NoJob, JobRecord, Stages
<1>2. ServiceTypes /\ ~up /\ up' /\ monitor = None /\ pager = None /\ jobs[j].stage = "unused"
  BY DEF Boot, ServicesIInv, DownIsEmpty
<1>3. StartServices(j, before)
      /\ UNCHANGED <<settings, monitor, pager, monitors, pagers, conf, loaded, wanted, raced, unwritten, unloaded>>
  BY DEF Boot, objects, confs
<1> HIDE DEF before
<1>4. StopServices
  <2>1. monitors = [m \in Job |-> monitors[m]] /\ pagers = [p \in Job |-> pagers[p]]
    BY <1>2 DEF ServiceTypes
  <2>2. \A m \in Job : m # monitor /\ m # pager
    BY <1>2, PagerServicesAssumption
  <2> QED BY <1>2, <1>3, <2>1, <2>2 DEF StopServices
<1>5. "unused" \notin Starting \cup ConfStages /\ \A stage \in {"testing", "done"} : Loads(j, stage)
  BY <1>2, <1>3 DEF Starting, ConfStages, Reloads, Loads
<1>6. settings' \in [pbx : BOOLEAN, sip : BOOLEAN, version : Version]
  BY <1>2, <1>3 DEF ServiceTypes
<1> QED BY <1>1, <1>2, <1>3, <1>4, <1>5, <1>6, ServicesRestart

LEMMA ServicesTested ==
    ASSUME ServicesIInv, NEW j \in Job, TestSucceeds(j)
    PROVE  ServicesIInv'
<1>1. ServiceTypes /\ Owning /\ Writing /\ ConfIsLoaded /\ jobs[j].stage = "testing" /\ jobs[j] \in JobRecord
      /\ client \in Job \cup {None} /\ settings.version \in Version /\ conf \in Version
  BY DEF TestSucceeds, ServicesIInv, ServiceTypes
<1>2. up /\ up'
  <2>1. up
    BY <1>1, RunningProcess
  <2> QED BY <2>1 DEF TestSucceeds
<1>3. PICK logs \in 0..1 : /\ logs = IF settings.sip THEN 0 ELSE 1
                           /\ settings.sip => logs = 0
  <2>1. CASE settings.sip
    BY <2>1
  <2>2. CASE ~settings.sip
    BY <2>2
  <2> QED BY <2>1, <2>2
<1> DEFINE new == [state |-> "running", client |-> client, page |-> 0, log |-> logs]
<1>4. new \in MonitorRecord /\ new.client = client /\ new.page = 0 /\ new.log = logs
  BY <1>1, <1>3 DEF MonitorRecord
<1>5. /\ monitors' = [monitors EXCEPT ![j] = new] /\ monitor' = j
      /\ UNCHANGED <<settings, client, pager, pagers, conf, loaded, unloaded, overlapped>>
  BY <1>3 DEF TestSucceeds
<1> HIDE DEF new
<1>6. ASSUME NEW job \in JobRecord, jobs' = [jobs EXCEPT ![j] = job],
             \/ settings.sip /\ job.stage = "resolving"
                /\ wanted' = job.conf /\ raced' = (At(ConfStages) # {})
             \/ job.stage = "done" /\ UNCHANGED <<wanted, raced, unwritten>>
      PROVE  ServicesIInv'
  <2>1. Owning'
    BY <1>1, <1>3, <1>4, <1>5, <1>6, JobMonitors
  <2>2. Writing'
    <3>1. "testing" \notin ConfStages /\ "resolving" \in ConfStages /\ "done" \notin ConfStages
      BY DEF ConfStages
    <3>2. CASE job.stage = "resolving"
      BY <1>1, <1>5, <1>6, <3>1, <3>2, JobWrites
    <3>3. CASE job.stage = "done"
      BY <1>1, <1>5, <1>6, <3>1, <3>3, JobWrites
    <3> QED BY <1>6, <3>2, <3>3
  <2>3. ServiceTypes'
    <3>1. jobs' \in [Job -> JobRecord]
      BY <1>1, <1>6, JobMoves
    <3> QED BY <1>1, <1>4, <1>5, <3>1 DEF ServiceTypes
  <2>4. ConfIsLoaded'
    <3>1. Loads(j, job.stage)
      BY <1>1, <1>5 DEF Loads, Reloads
    <3> QED BY <1>1, <1>6, <3>1, JobLoads
  <2> QED BY <1>2, <2>1, <2>2, <2>3, <2>4 DEF ServicesIInv, DownIsEmpty
<1>7. CASE settings.sip
  <2> DEFINE resolving == [jobs[j] EXCEPT !.stage = "resolving"]
             job == [resolving EXCEPT !.conf = settings.version]
  <2>1. resolving \in JobRecord /\ resolving.stage = "resolving"
    BY <1>1, JobAt DEF Stages, Starting
  <2>2. /\ jobs' = [jobs EXCEPT ![j] = job] /\ wanted' = settings.version
        /\ raced' = (At(ConfStages) # {})
    BY <1>5, <1>7 DEF TestSucceeds, WillWrite
  <2> HIDE DEF resolving
  <2>3. job \in JobRecord /\ job.stage = "resolving" /\ job.conf = settings.version
    BY <1>1, <2>1 DEF JobRecord
  <2> HIDE DEF job
  <2> QED BY <1>6, <1>7, <2>2, <2>3
<1>8. CASE ~settings.sip
  <2> DEFINE job == [jobs[j] EXCEPT !.stage = "done"]
  <2>1. job \in JobRecord /\ job.stage = "done"
    BY <1>1, JobAt DEF Stages
  <2>2. jobs' = [jobs EXCEPT ![j] = job] /\ UNCHANGED <<wanted, raced, unwritten>>
    BY <1>8 DEF TestSucceeds, Goes
  <2> HIDE DEF job
  <2> QED BY <1>6, <2>1, <2>2
<1> QED BY <1>7, <1>8

LEMMA ServicesWrite ==
    ASSUME ServicesIInv, NEW j \in Job, Resolved(j) \/ WriteFails(j)
    PROVE  ServicesIInv'
<1>1. /\ ServiceTypes /\ jobs[j] \in JobRecord /\ settings' = settings
      /\ settings \in [pbx : BOOLEAN, sip : BOOLEAN, version : Version]
      /\ jobs[j].stage \in ConfStages
  BY DEF Resolved, WriteFails, ServicesIInv, ServiceTypes
<1>2. jobs[j].stage \in {"resolving", "saveResolving"}
  BY <1>1 DEF ConfStages
<1>3. up
  BY <1>2, RunningProcess
<1>4. {"reloading", "saveReloading", "done"} \subseteq Stages
      /\ {"reloading", "saveReloading", "done"} \cap ConfStages = {}
      /\ {"saveResolving", "saveReloading", "done"} \cap Starting = {}
  BY DEF Stages, ConfStages, Starting
<1>5. CASE Resolved(j)
  <2>1. PICK stage \in {"reloading", "saveReloading"} :
          /\ Goes(j, stage)
          /\ \/ jobs[j].stage = "resolving" /\ stage = "reloading"
             \/ jobs[j].stage = "saveResolving" /\ stage = "saveReloading"
    BY <1>2, <1>5 DEF Resolved
  <2>2. /\ up' /\ UNCHANGED <<client, monitor, pager, objects, overlapped, raced>>
        /\ conf' = jobs[j].conf /\ wanted' = wanted /\ Loads(j, stage)
    BY <1>3, <1>5, <2>1 DEF Resolved, globals, Loads, Reloads
  <2>3. stage \in Stages /\ stage \notin ConfStages /\ (stage = "saveReloading" => stage \notin Starting)
    BY <1>4
  <2>4. jobs[j].stage = "saveResolving" => jobs[j].stage \notin Starting
    BY <1>4
  <2>5. CASE jobs[j].stage = "resolving"
    <3>1. stage \in {"reloading", "done"} /\ stage \in Stages /\ stage \notin ConfStages /\ Goes(j, stage)
      BY <2>1, <2>3, <2>5
    <3>2. /\ settings' \in [pbx : BOOLEAN, sip : BOOLEAN, version : Version]
          /\ jobs[j].stage \in ConfStages /\ conf' = jobs[j].conf /\ wanted' = wanted
      BY <1>1, <2>2
    <3> QED BY <2>2, <2>5, <3>1, <3>2, ServicesStay
  <2>6. CASE jobs[j].stage = "saveResolving"
    <3>1. stage \notin Starting /\ stage \in Stages /\ stage \notin ConfStages /\ Goes(j, stage)
      BY <2>1, <2>3, <2>6
    <3>2. /\ settings' \in [pbx : BOOLEAN, sip : BOOLEAN, version : Version]
          /\ jobs[j].stage \in ConfStages /\ conf' = jobs[j].conf /\ wanted' = wanted
          /\ jobs[j].stage \notin Starting
      BY <1>1, <2>2, <2>4, <2>6
    <3> QED BY <2>2, <3>1, <3>2, ServicesStay
  <2> QED BY <1>2, <2>5, <2>6
<1>6. CASE WriteFails(j)
  <2>1. CASE jobs[j].stage = "resolving" /\ jobs[j].boot
    <3>1. Forget /\ UNCHANGED <<settings, conf, loaded>>
      BY <1>6, <2>1 DEF WriteFails
    <3> QED BY <3>1, ServicesForget
  <2>2. CASE jobs[j].stage = "saveResolving" /\ jobs[j].restart
    <3>1. /\ StopServices /\ StartServices(j, jobs[j]) /\ unwritten' = TRUE
          /\ UNCHANGED <<up, conf, loaded, wanted, raced, unloaded>>
      BY <1>6, <2>2 DEF WriteFails, RestartServices
    <3>2. jobs[j].stage \notin Starting /\ \A stage \in {"testing", "done"} : Loads(j, stage)
      BY <1>4, <2>2, <3>1 DEF Loads, Reloads
    <3> QED BY <1>1, <1>3, <3>1, <3>2, ServicesRestart
  <2>3. CASE ~(jobs[j].stage = "resolving" /\ jobs[j].boot)
             /\ ~(jobs[j].stage = "saveResolving" /\ jobs[j].restart)
    <3>1. /\ Goes(j, "done") /\ up' = up /\ UNCHANGED <<client, monitor, pager, objects, overlapped, raced>>
          /\ unwritten' = TRUE /\ UNCHANGED <<wanted, conf>> /\ Loads(j, "done")
      BY <1>2, <1>6, <2>3 DEF WriteFails, globals, Loads, Reloads
    <3>2. "done" \in Stages /\ "done" \notin ConfStages /\ "done" \notin Starting
          /\ (jobs[j].stage = "saveResolving" => jobs[j].stage \notin Starting)
      BY <1>4
    <3> QED BY <1>1, <1>2, <1>3, <3>1, <3>2, ServicesStay
  <2> QED BY <2>1, <2>2, <2>3
<1> QED BY <1>5, <1>6

LEMMA ServicesReload ==
    ASSUME ServicesIInv, NEW j \in Job, NEW ok \in BOOLEAN, SaveReloaded(j, ok) \/ Reloaded(j, ok)
    PROVE  ServicesIInv'
<1>1. /\ ServiceTypes /\ Owning /\ Writing /\ ConfIsLoaded /\ jobs[j] \in JobRecord /\ settings' = settings
      /\ settings \in [pbx : BOOLEAN, sip : BOOLEAN, version : Version]
      /\ jobs[j].stage \in {"saveReloading", "reloading"}
  BY DEF SaveReloaded, Reloaded, ServicesIInv, ServiceTypes
<1>2. up
  BY <1>1, RunningProcess
<1>3. {"reloading", "saveReloading", "done"} \cap ConfStages = {}
      /\ {"saveReloading", "done"} \cap Starting = {} /\ "done" \in Stages
  BY DEF Stages, ConfStages, Starting
<1>8. ASSUME SaveReloaded(j, ok) PROVE \A stage : Loads(j, stage)
  <2>1. unloaded' = ~ok /\ (ok => loaded' = conf) /\ conf' = conf
    BY <1>8 DEF SaveReloaded, ReloadAsterisk
  <2> QED BY <2>1 DEF Loads
<1>4. CASE SaveReloaded(j, ok) /\ jobs[j].restart
  <2>1. StopServices /\ StartServices(j, jobs[j]) /\ UNCHANGED <<up, conf, wanted, raced, unwritten>>
    BY <1>4 DEF SaveReloaded, RestartServices
  <2>3. \A stage : Loads(j, stage)
    BY <1>4, <1>8
  <2>2. jobs[j].stage \notin Starting /\ jobs[j].stage \notin ConfStages
    BY <1>3, <1>4 DEF SaveReloaded
  <2> QED BY <1>1, <1>2, <2>1, <2>2, <2>3, ServicesRestart
<1>5. CASE SaveReloaded(j, ok) /\ ~jobs[j].restart
  <2>1. /\ Goes(j, "done")
        /\ UNCHANGED <<up, client, monitor, pager, objects, overlapped, raced, conf, wanted, unwritten>>
    BY <1>5 DEF SaveReloaded, globals
  <2>3. \A stage : Loads(j, stage)
    BY <1>5, <1>8
  <2>2. /\ jobs[j].stage \notin Starting /\ jobs[j].stage \notin ConfStages
        /\ "done" \in Stages /\ "done" \notin ConfStages /\ "done" \notin Starting
    BY <1>3, <1>5 DEF SaveReloaded
  <2> QED BY <1>1, <1>2, <2>1, <2>2, <2>3, ServicesStay
<1>6. CASE Reloaded(j, ok) /\ monitor = None /\ jobs[j].boot
  <2>1. Forget /\ UNCHANGED <<settings, conf>> /\ At(Reloads) # {}
    BY <1>6 DEF Reloaded, At, Reloads
  <2> QED BY <2>1, ServicesForget
<1>7. CASE Reloaded(j, ok) /\ ~(monitor = None /\ jobs[j].boot)
  <2> DEFINE job == [jobs[j] EXCEPT !.stage = "done"]
  <2>1. job \in JobRecord /\ job.stage = "done"
    BY <1>1, <1>3, JobAt
  <2>2. jobs' = [jobs EXCEPT ![j] = job]
    BY <1>7 DEF Reloaded, Goes
  <2>3. /\ pager' = j /\ pagers' = [pagers EXCEPT ![j] = "open"]
        /\ UNCHANGED <<up, client, monitor, overlapped, wanted, raced, conf, unwritten>>
    BY <1>7 DEF Reloaded
  <2> HIDE DEF job
  <2>4. /\ monitors' \in [Job -> MonitorRecord]
        /\ \A m \in Job : /\ monitors'[m].state = monitors[m].state
                          /\ monitors'[m].client = monitors[m].client
                          /\ monitors'[m].log = monitors[m].log
                          /\ m # monitor => monitors'[m].page = monitors[m].page
                          /\ m = monitor => monitors'[m].page = monitors[m].page + 1
    <3> DEFINE counted(m) == [monitors[m] EXCEPT !.page = monitors[m].page + 1]
    <3>1. monitors' = [m \in Job |-> IF m = monitor THEN counted(m) ELSE monitors[m]]
      BY <1>7 DEF Reloaded
    <3>2. ASSUME NEW m \in Job
          PROVE  /\ monitors[m] \in MonitorRecord /\ counted(m) \in MonitorRecord
                 /\ counted(m).state = monitors[m].state
                 /\ counted(m).client = monitors[m].client /\ counted(m).log = monitors[m].log
                 /\ counted(m).page = monitors[m].page + 1
      <4>1. monitors[m] \in MonitorRecord
        BY <1>1 DEF ServiceTypes
      <4>2. PICK one \in Nat : one = monitors[m].page + 1
        BY <4>1 DEF MonitorRecord
      <4>3. LET new == [monitors[m] EXCEPT !.page = one]
            IN  /\ new \in MonitorRecord /\ new.state = monitors[m].state
                /\ new.client = monitors[m].client /\ new.log = monitors[m].log /\ new.page = one
        BY <4>1 DEF MonitorRecord
      <4> QED BY <4>1, <4>2, <4>3
    <3> HIDE DEF counted
    <3> QED BY <3>1, <3>2
  <2>5. jobs[j].stage = "reloading"
    BY <1>7 DEF Reloaded
  <2>6. Owning'
    BY <1>1, <2>1, <2>2, <2>3, <2>4, <2>5, JobListens
  <2>7. Writing'
    <3>1. jobs[j].stage \notin ConfStages /\ job.stage \notin ConfStages
      BY <1>3, <2>1, <2>5
    <3> QED BY <1>1, <2>1, <2>2, <2>3, <3>1, JobWrites
  <2>8. ServiceTypes'
    <3>1. jobs' \in [Job -> JobRecord]
      BY <1>1, <2>1, <2>2, JobMoves
    <3> QED BY <1>1, <2>3, <2>4, <3>1 DEF ServiceTypes
  <2>9. ConfIsLoaded'
    <3>1. unloaded' = ~ok /\ (ok => loaded' = conf)
      BY <1>7 DEF Reloaded, ReloadAsterisk
    <3>2. Loads(j, job.stage)
      BY <2>3, <3>1 DEF Loads
    <3> QED BY <1>1, <2>1, <2>2, <3>2, JobLoads
  <2> QED BY <1>2, <2>3, <2>6, <2>7, <2>8, <2>9 DEF ServicesIInv, DownIsEmpty
<1> QED BY <1>4, <1>5, <1>6, <1>7

LEMMA ServicesLeftAlone ==
    ASSUME ServicesIInv, settings' \in [pbx : BOOLEAN, sip : BOOLEAN, version : Version],
           UNCHANGED <<up, jobs, globals, objects, confs, overlapped>>
    PROVE  ServicesIInv'
<1>1. UNCHANGED <<jobs, client, monitor, pager, monitors, pagers, overlapped, conf, loaded, wanted, raced,
                  unwritten, unloaded, up>>
  BY DEF globals, objects, confs
<1>2. Running' = Running /\ \A stages : At(stages)' = At(stages)
  BY <1>1 DEF Running, At
<1>3. Writing' /\ Owning' /\ ConfIsLoaded'
  BY <1>1, <1>2 DEF ServicesIInv, Writing, Owning, OneWriter, OneStart, ConfIsWritten, ConfIsLoaded,
                    RestartsLeaveNothing
<1> QED BY <1>1, <1>3 DEF ServicesIInv, ServiceTypes, DownIsEmpty

LEMMA ServicesPut ==
    ASSUME ServicesIInv, NEW j \in Job, NEW keys, NEW pbx \in BOOLEAN, NEW sip \in BOOLEAN,
           PutSettings(j, keys, pbx, sip)
    PROVE  ServicesIInv'
<1>1. /\ ServiceTypes /\ Owning /\ Writing /\ ConfIsLoaded /\ up /\ up' = up
      /\ UNCHANGED <<conf, loaded, unloaded>>
      /\ jobs[j].stage = "unused" /\ conf \in Version
      /\ settings \in [pbx : BOOLEAN, sip : BOOLEAN, version : Version]
  BY DEF PutSettings, ServicesIInv, ServiceTypes
<1>2. /\ settings' \in [pbx : BOOLEAN, sip : BOOLEAN, version : Version]
      /\ settings'.version \in Version
  <2>1. settings.version \in Version /\ settings.version < MaxVersion
    BY <1>1 DEF PutSettings
  <2>2. PICK version \in Version : version = settings.version + 1
    BY <2>1, PagerServicesAssumption DEF Version
  <2>3. settings' = [pbx |-> pbx, sip |-> sip, version |-> version]
    BY <2>2 DEF PutSettings
  <2> QED BY <2>3
<1>3. 0 \in Version
  BY PagerServicesAssumption DEF Version
<1>4. {"unused", "saveResolving"} \cap Starting = {} /\ "unused" \notin ConfStages
      /\ "saveResolving" \in ConfStages
  BY DEF Starting, ConfStages
<1> DEFINE restarts == keys \cap {"url", "login"} # {}
<1>5. PICK restart \in BOOLEAN : restart = restarts
  OBVIOUS
<1>6. CASE /\ WillWrite(j, [NoJob EXCEPT !.stage = "saveResolving", !.restart = restarts])
           /\ UNCHANGED <<globals, objects, overlapped>>
  <2> PICK version \in Version : version = settings'.version
    BY <1>2
  <2> DEFINE saving == [[NoJob EXCEPT !.stage = "saveResolving"] EXCEPT !.restart = restart]
             job == [saving EXCEPT !.conf = version]
  <2>1. saving \in JobRecord /\ saving.stage = "saveResolving"
    BY <1>3 DEF NoJob, JobRecord, Stages
  <2>2. [NoJob EXCEPT !.stage = "saveResolving", !.restart = restarts] = saving
    BY <1>5
  <2>3. jobs' = [jobs EXCEPT ![j] = job]
    BY <1>6, <2>2 DEF WillWrite
  <2> HIDE DEF saving
  <2>4. job \in JobRecord /\ job.stage = "saveResolving" /\ job.conf = version
    BY <2>1 DEF JobRecord
  <2> HIDE DEF job
  <2>5. wanted' = version /\ raced' = (At(ConfStages) # {})
    BY <1>6 DEF WillWrite
  <2>6. Writing'
    BY <1>1, <1>4, <2>3, <2>4, <2>5, JobWrites
  <2>7. UNCHANGED <<client, monitor, pager, objects, monitors, pagers, overlapped>>
    BY <1>6 DEF globals, objects
  <2>8. jobs[j].stage \notin Starting /\ job.stage \notin Starting
    BY <1>1, <1>4, <2>4
  <2>9. Owning'
    BY <1>1, <2>3, <2>4, <2>7, <2>8, JobKeepsGlobals
  <2>10. ServiceTypes'
    <3>1. jobs' \in [Job -> JobRecord]
      BY <1>1, <2>3, <2>4, JobMoves
    <3> QED BY <1>1, <1>2, <2>7, <3>1 DEF ServiceTypes
  <2>11. ConfIsLoaded'
    <3>1. Loads(j, job.stage)
      BY <1>1 DEF Loads, Reloads
    <3> QED BY <1>1, <2>3, <2>4, <3>1, JobLoads
  <2> QED BY <1>1, <2>6, <2>9, <2>10, <2>11 DEF ServicesIInv, DownIsEmpty
<1>7. CASE RestartServices(j, NoJob) /\ UNCHANGED <<wanted, raced, unwritten>>
  <2>1. NoJob \in JobRecord
    BY <1>3 DEF NoJob, JobRecord, Stages
  <2>2. StopServices /\ StartServices(j, NoJob)
    BY <1>7 DEF RestartServices
  <2>3. jobs[j].stage \notin Starting /\ jobs[j].stage \notin ConfStages
        /\ \A stage : Loads(j, stage)
    BY <1>1, <1>4 DEF Loads, Reloads
  <2> QED BY <1>1, <1>2, <1>7, <2>1, <2>2, <2>3, ServicesRestart
<1>8. CASE UNCHANGED <<jobs, globals, objects, overlapped, wanted, raced, unwritten>>
  BY <1>1, <1>2, <1>8, ServicesLeftAlone DEF confs
<1> QED BY <1>6, <1>7, <1>8 DEF PutSettings

(* The process runs on, and only its settings and sessions change.           *)
LEMMA ServicesStep == ServicesIInv /\ [Next]_vars => ServicesIInv'
<1> SUFFICES ASSUME ServicesIInv, [Next]_vars PROVE ServicesIInv'
  OBVIOUS
<1>1. settings \in [pbx : BOOLEAN, sip : BOOLEAN, version : Version]
  BY DEF ServicesIInv, ServiceTypes
<1>2. ASSUME NEW j \in Job, Boot(j) \/ TestSucceeds(j) \/ Resolved(j) \/ WriteFails(j)
      PROVE  ServicesIInv'
  BY <1>2, ServicesBoot, ServicesTested, ServicesWrite
<1>3. ASSUME NEW j \in Job, TestFails(j) PROVE ServicesIInv'
  <2>1. /\ jobs[j].stage = "testing" /\ Goes(j, "done") /\ client' = None
        /\ UNCHANGED <<up, settings, monitor, pager, objects, overlapped, conf, wanted, raced, unwritten>>
        /\ Loads(j, "done")
    BY <1>3 DEF TestFails, confs, Loads, Reloads
  <2>2. "done" \in Stages /\ "done" \notin ConfStages /\ "testing" \notin ConfStages
    BY DEF Stages, ConfStages
  <2>3. up
    BY <2>1, RunningProcess
  <2> QED BY <1>1, <2>1, <2>2, <2>3, ServicesStay
<1>4. ASSUME NEW j \in Job, NEW ok \in BOOLEAN, SaveReloaded(j, ok) \/ Reloaded(j, ok)
      PROVE  ServicesIInv'
  BY <1>4, ServicesReload
<1>5. ASSUME NEW j \in Job, NEW keys \in SUBSET {"url", "login", "sip"}, NEW pbx \in BOOLEAN,
             NEW sip \in BOOLEAN, PutSettings(j, keys, pbx, sip)
      PROVE  ServicesIInv'
  BY <1>5, ServicesPut
<1>6. ASSUME NEW store \in BOOLEAN, Login(store) PROVE ServicesIInv'
  <2>1. settings' \in [pbx : BOOLEAN, sip : BOOLEAN, version : Version]
    <3>1. CASE store
      <4>1. settings.version \in Version /\ settings.version < MaxVersion
        BY <1>1, <1>6, <3>1 DEF Login
      <4>2. PICK version \in Version : version = settings.version + 1
        BY <4>1, PagerServicesAssumption DEF Version
      <4>3. settings' = [[settings EXCEPT !.pbx = TRUE] EXCEPT !.version = version]
        BY <1>6, <3>1, <4>2 DEF Login
      <4> QED BY <1>1, <4>3
    <3>2. CASE ~store
      BY <1>1, <1>6, <3>2 DEF Login
    <3> QED BY <3>1, <3>2
  <2> QED BY <1>6, <2>1, ServicesLeftAlone DEF Login
<1>7. CASE Logout \/ SessionExpires
  BY <1>1, <1>7, ServicesLeftAlone DEF Logout, SessionExpires
<1>8. CASE Exit
  BY <1>8, ServicesForget DEF Exit
<1>9. CASE UNCHANGED vars
  BY <1>1, <1>9, ServicesLeftAlone DEF vars
<1> QED BY <1>2, <1>3, <1>4, <1>5, <1>6, <1>7, <1>8, <1>9 DEF Next

(* RestartsLeaveNothing of PagerServices, for any number of jobs: as long as *)
(* no restart came while a start was under way, at most one queue monitor    *)
(* runs, the one the auto-pager knows with the client it knows, no page is   *)
(* executed or logged twice and no pager but the known one is open.          *)
THEOREM RestartLeavesNothing == Spec => []RestartsLeaveNothing
<1>1. ServicesIInv => RestartsLeaveNothing
  BY DEF ServicesIInv, Owning
<1> QED BY ServicesInitIInv, ServicesStep, <1>1, PTL DEF Spec

(* ConfIsNewest of PagerServices, for any number of jobs and saves: when no  *)
(* job is about to write pjsip.conf, the file holds the settings that the    *)
(* last job to decide to write it read, unless that job raced another, its   *)
(* write failed or the process ended first; and when no job is about to      *)
(* reload it, Asterisk has loaded the file, unless a reload since the last   *)
(* write failed or the process ended before.                                 *)
THEOREM AsteriskHasNewest == Spec => []ConfIsNewest
<1>1. ServicesIInv => ConfIsNewest
  BY DEF ServicesIInv, Writing, ConfIsNewest
<1> QED BY ServicesInitIInv, ServicesStep, <1>1, PTL DEF Spec

(* A job that has ended stays so, and each adds one listener at most.        *)
EndedJobs == {j \in Job : jobs[j].stage = "done"}
Listened  == \A m \in Job : monitors[m].page <= Cardinality(EndedJobs) /\ monitors[m].log <= 1

(* What a step of a job other than the last leaves of both.                  *)
KeepsListeners ==
    /\ EndedJobs \subseteq EndedJobs'
    /\ \A m \in Job : /\ monitors'[m].page = 0 \/ monitors'[m].page <= monitors[m].page
                      /\ monitors'[m].log <= 1

LEMMA OneJobKeeps ==
    ASSUME ServiceTypes, NEW j \in Job, jobs[j].stage # "done",
           \E job : jobs' = [jobs EXCEPT ![j] = job]
    PROVE  EndedJobs \subseteq EndedJobs'
BY DEF ServiceTypes, EndedJobs

LEMMA PutMovesJob ==
    ASSUME NEW j \in Job, NEW keys, NEW pbx, NEW sip, PutSettings(j, keys, pbx, sip)
    PROVE  /\ jobs[j].stage = "unused"
           /\ \/ \E job : jobs' = [jobs EXCEPT ![j] = job] /\ UNCHANGED monitors
              \/ \E job : RestartServices(j, job)
              \/ UNCHANGED jobs /\ UNCHANGED monitors
BY DEF PutSettings, WillWrite, objects

LEMMA JobKeepsListeners ==
    ASSUME ServicesIInv, Listened, NEW j \in Job,
           \/ Boot(j) \/ TestFails(j) \/ TestSucceeds(j) \/ Resolved(j)
           \/ WriteFails(j) /\ ~Forget
           \/ \E ok \in BOOLEAN : SaveReloaded(j, ok)
           \/ \E keys \in SUBSET {"url", "login", "sip"}, pbx, sip \in BOOLEAN :
                 PutSettings(j, keys, pbx, sip)
    PROVE  KeepsListeners
<1>1. ServiceTypes /\ DownIsEmpty /\ \A m \in Job : monitors[m] \in MonitorRecord /\ monitors[m].log <= 1
  BY DEF ServicesIInv, ServiceTypes, Listened
<1>2. ASSUME UNCHANGED monitors
      PROVE  \A m \in Job : /\ monitors'[m].page = 0 \/ monitors'[m].page <= monitors[m].page
                            /\ monitors'[m].log <= 1
  BY <1>1, <1>2 DEF MonitorRecord
<1>3. ASSUME StopServices
      PROVE  \A m \in Job : /\ monitors'[m].page = 0 \/ monitors'[m].page <= monitors[m].page
                            /\ monitors'[m].log <= 1
  <2>1. /\ \A m \in Job \ {monitor} : monitors'[m] = monitors[m]
        /\ monitor \in Job => monitors'[monitor].page = 0 /\ monitors'[monitor].log = 0
    BY <1>1, <1>3, Stopped
  <2> QED BY <1>1, <2>1 DEF MonitorRecord
<1>4. ASSUME NEW stage, Goes(j, stage), jobs[j].stage # "done" PROVE EndedJobs \subseteq EndedJobs'
  BY <1>1, <1>4, OneJobKeeps DEF Goes
<1>5. ASSUME NEW job, StartServices(j, job), jobs[j].stage # "done" PROVE EndedJobs \subseteq EndedJobs'
  BY <1>1, <1>5, OneJobKeeps DEF StartServices
<1>6. CASE Boot(j)
  <2>1. jobs[j].stage # "done" /\ UNCHANGED monitors
    BY <1>1, <1>6 DEF Boot, DownIsEmpty, objects
  <2> QED BY <1>2, <1>5, <1>6, <2>1 DEF Boot, KeepsListeners
<1>7. CASE TestFails(j)
  BY <1>2, <1>4, <1>7 DEF TestFails, KeepsListeners, objects
<1>8. CASE TestSucceeds(j)
  <2>1. EndedJobs \subseteq EndedJobs'
    BY <1>1, <1>4, <1>8, OneJobKeeps DEF TestSucceeds, WillWrite
  <2>2. /\ monitors'[j].page = 0 /\ monitors'[j].log \in {0, 1}
        /\ \A m \in Job \ {j} : monitors'[m] = monitors[m]
    BY <1>1, <1>8 DEF TestSucceeds, ServiceTypes
  <2> QED BY <1>1, <2>1, <2>2 DEF KeepsListeners, MonitorRecord
<1>9. CASE Resolved(j)
  BY <1>2, <1>4, <1>9 DEF Resolved, KeepsListeners, objects, ConfStages
<1>10. ASSUME NEW job, RestartServices(j, job), jobs[j].stage # "done" PROVE KeepsListeners
  BY <1>3, <1>5, <1>10 DEF RestartServices, KeepsListeners
<1>11. CASE WriteFails(j) /\ ~Forget
  <2>1. jobs[j].stage # "done"
    BY <1>11 DEF WriteFails, ConfStages
  <2>2. RestartServices(j, jobs[j]) \/ (Goes(j, "done") /\ UNCHANGED objects)
    BY <1>11 DEF WriteFails
  <2> QED BY <1>2, <1>4, <1>10, <2>1, <2>2 DEF KeepsListeners, objects
<1>12. ASSUME NEW ok \in BOOLEAN, SaveReloaded(j, ok) PROVE KeepsListeners
  <2>1. jobs[j].stage # "done"
    BY <1>12 DEF SaveReloaded
  <2>2. RestartServices(j, jobs[j]) \/ (Goes(j, "done") /\ UNCHANGED objects)
    BY <1>12 DEF SaveReloaded
  <2> QED BY <1>2, <1>4, <1>10, <2>1, <2>2 DEF KeepsListeners, objects
<1>13. ASSUME NEW keys \in SUBSET {"url", "login", "sip"}, NEW pbx \in BOOLEAN, NEW sip \in BOOLEAN,
              PutSettings(j, keys, pbx, sip)
       PROVE  KeepsListeners
  <2>1. jobs[j].stage # "done"
    BY <1>13, PutMovesJob
  <2>2. \/ \E job : jobs' = [jobs EXCEPT ![j] = job] /\ UNCHANGED monitors
        \/ \E job : RestartServices(j, job)
        \/ UNCHANGED jobs /\ UNCHANGED monitors
    BY <1>13, PutMovesJob
  <2>3. CASE \E job : jobs' = [jobs EXCEPT ![j] = job] /\ UNCHANGED monitors
    BY <1>1, <1>2, <2>1, <2>3, OneJobKeeps DEF KeepsListeners
  <2>4. CASE UNCHANGED jobs /\ UNCHANGED monitors
    BY <1>2, <2>4 DEF KeepsListeners, EndedJobs
  <2> QED BY <1>10, <2>1, <2>2, <2>3, <2>4
<1> QED BY <1>6, <1>7, <1>8, <1>9, <1>11, <1>12, <1>13

LEMMA ListenersStep ==
    ASSUME IsFiniteSet(Job), ServicesIInv, ServicesIInv', Listened, [Next]_vars
    PROVE  Listened'
<1>1. /\ IsFiniteSet(EndedJobs) /\ IsFiniteSet(EndedJobs')
      /\ Cardinality(EndedJobs) \in Nat /\ Cardinality(EndedJobs') \in Nat
  <2>1. EndedJobs \in SUBSET Job /\ EndedJobs' \in SUBSET Job
    BY DEF EndedJobs
  <2> QED BY <2>1, FS_Subset, FS_CardinalityType
<1>2. \A m \in Job : monitors[m] \in MonitorRecord /\ monitors'[m] \in MonitorRecord
  BY DEF ServicesIInv, ServiceTypes
<1>3. CASE KeepsListeners
  <2>1. Cardinality(EndedJobs) <= Cardinality(EndedJobs')
    BY <1>1, <1>3, FS_Subset DEF KeepsListeners
  <2> HIDE DEF EndedJobs
  <2> QED BY <1>1, <1>2, <1>3, <2>1 DEF Listened, KeepsListeners, MonitorRecord
<1>4. CASE Forget
  <2>1. \A m \in Job : monitors'[m].page = 0 /\ monitors'[m].log = 0
    BY <1>4 DEF Forget, NoMonitor
  <2> QED BY <1>1, <2>1 DEF Listened
<1>5. ASSUME NEW j \in Job, NEW ok \in BOOLEAN, Reloaded(j, ok), ~Forget PROVE Listened'
  <2>1. /\ jobs[j].stage = "reloading" /\ Goes(j, "done")
        /\ monitors' = [m \in Job |-> IF m = monitor THEN [monitors[m] EXCEPT !.page = @ + 1]
                                                     ELSE monitors[m]]
    BY <1>5 DEF Reloaded
  <2>2. j \notin EndedJobs /\ EndedJobs' = EndedJobs \cup {j}
    BY <2>1 DEF Goes, EndedJobs, ServicesIInv, ServiceTypes, JobRecord
  <2>3. Cardinality(EndedJobs') = Cardinality(EndedJobs) + 1
    BY <1>1, <2>2, FS_AddElement
  <2>4. ASSUME NEW m \in Job
        PROVE  monitors'[m].page <= monitors[m].page + 1 /\ monitors'[m].log = monitors[m].log
    <3>1. monitors[m].page \in Nat
      BY <1>2 DEF MonitorRecord
    <3>2. CASE m = monitor
      <4>1. monitors'[m] = [monitors[m] EXCEPT !.page = @ + 1]
        BY <2>1, <3>2
      <4> QED BY <1>2, <3>1, <4>1 DEF MonitorRecord
    <3>3. CASE m # monitor
      BY <2>1, <3>1, <3>3
    <3> QED BY <3>2, <3>3
  <2> QED BY <1>1, <1>2, <2>3, <2>4 DEF Listened, MonitorRecord
<1>6. CASE UNCHANGED <<jobs, monitors>>
  BY <1>6 DEF Listened, EndedJobs
<1>7. ASSUME NEW store, Login(store) PROVE UNCHANGED <<jobs, monitors>>
  BY <1>7 DEF Login, objects
<1>8. CASE Logout \/ SessionExpires \/ UNCHANGED vars
  BY <1>6, <1>8 DEF Logout, SessionExpires, vars, objects
<1>9. CASE Exit
  BY <1>4, <1>9 DEF Exit
<1>10. ASSUME NEW j \in Job, WriteFails(j) PROVE Listened'
  BY <1>3, <1>4, <1>10, JobKeepsListeners
<1>11. ASSUME NEW j \in Job,
              \/ Boot(j) \/ TestFails(j) \/ TestSucceeds(j) \/ Resolved(j)
              \/ \E ok \in BOOLEAN : SaveReloaded(j, ok)
              \/ \E keys \in SUBSET {"url", "login", "sip"}, pbx, sip \in BOOLEAN :
                    PutSettings(j, keys, pbx, sip)
       PROVE  Listened'
  BY <1>3, <1>11, JobKeepsListeners
<1> QED BY <1>4, <1>5, <1>6, <1>7, <1>8, <1>9, <1>10, <1>11 DEF Next

(* TypeOK of PagerServices but for the fields that ServiceTypes bounds.      *)
ServiceFlags ==
    /\ {up, overlapped, raced, unwritten, unloaded} \subseteq BOOLEAN
    /\ session \in {"none", "live", "old"}
    /\ {loaded, wanted} \subseteq Version

LEMMA ServiceFlagsStep ==
    ASSUME ServicesIInv, ServicesIInv', ServiceFlags, [Next]_vars
    PROVE  ServiceFlags'
<1>1. /\ conf \in Version /\ conf' \in Version /\ settings' \in [pbx : BOOLEAN, sip : BOOLEAN, version : Version]
      /\ jobs \in [Job -> JobRecord]
  BY DEF ServicesIInv, ServiceTypes
<1> DEFINE flags == up' \in BOOLEAN /\ overlapped' \in BOOLEAN /\ raced' \in BOOLEAN
                    /\ unwritten' \in BOOLEAN /\ unloaded' \in BOOLEAN
                    /\ session' \in {"none", "live", "old"} /\ loaded' \in Version /\ wanted' \in Version
<1>2. ASSUME Forget, loaded' = loaded PROVE flags
  BY <1>1, <1>2 DEF ServiceFlags, Forget
<1>3. ASSUME NEW j \in Job, NEW job, StartServices(j, job) PROVE overlapped' \in BOOLEAN
  BY <1>3 DEF StartServices
<1>4. ASSUME NEW j \in Job, NEW job, WillWrite(j, job)
      PROVE  raced' \in BOOLEAN /\ unwritten' \in BOOLEAN /\ wanted' \in Version
  BY <1>1, <1>4 DEF WillWrite
<1>5. ASSUME NEW j \in Job, Boot(j) PROVE flags
  BY <1>3, <1>5 DEF ServiceFlags, Boot, confs
<1>6. ASSUME NEW j \in Job, TestFails(j) \/ TestSucceeds(j) PROVE flags
  BY <1>4, <1>6 DEF ServiceFlags, TestFails, TestSucceeds, confs
<1>7. ASSUME NEW j \in Job, Resolved(j) PROVE flags
  BY <1>7 DEF ServiceFlags, Resolved
<1>8. ASSUME NEW j \in Job, WriteFails(j), ~Forget PROVE flags
  BY <1>1, <1>3, <1>8 DEF ServiceFlags, WriteFails, RestartServices
<1>9. ASSUME NEW j \in Job, NEW ok \in BOOLEAN, SaveReloaded(j, ok) PROVE flags
  BY <1>1, <1>3, <1>9 DEF ServiceFlags, SaveReloaded, ReloadAsterisk, RestartServices
<1>10. ASSUME NEW j \in Job, NEW ok \in BOOLEAN, Reloaded(j, ok) PROVE flags
  BY <1>1, <1>10 DEF ServiceFlags, Reloaded, ReloadAsterisk, Forget
<1>11. ASSUME NEW j \in Job, NEW keys \in SUBSET {"url", "login", "sip"}, NEW pbx \in BOOLEAN,
              NEW sip \in BOOLEAN, PutSettings(j, keys, pbx, sip)
       PROVE  flags
  BY <1>3, <1>4, <1>11 DEF ServiceFlags, PutSettings, RestartServices
<1>12. ASSUME NEW store \in BOOLEAN, Login(store) PROVE flags
  BY <1>12 DEF ServiceFlags, Login, confs
<1>13. ASSUME Logout \/ SessionExpires \/ UNCHANGED vars PROVE flags
  BY <1>13 DEF ServiceFlags, Logout, SessionExpires, vars, confs
<1>14. ASSUME NEW j \in Job, WriteFails(j), Forget PROVE flags
  BY <1>2, <1>14 DEF WriteFails
<1>15. ASSUME Exit PROVE flags
  BY <1>2, <1>15 DEF Exit
<1>16. flags
  BY <1>5, <1>6, <1>7, <1>8, <1>9, <1>10, <1>11, <1>12, <1>13, <1>14, <1>15 DEF Next
<1> QED BY <1>16 DEF ServiceFlags

(* TypeOK of PagerServices, for any finite number of jobs: a monitor has no  *)
(* more listeners than jobs have ended (startServices() adds one each).      *)
THEOREM ServicesTypeCorrect == ASSUME IsFiniteSet(Job) PROVE Spec => []TypeOK
<1>1. Init => Listened /\ ServiceFlags
  <2> SUFFICES ASSUME Init PROVE Listened /\ ServiceFlags
    OBVIOUS
  <2>1. \A m \in Job : monitors[m].page = 0 /\ monitors[m].log = 0
    BY DEF Init, NoMonitor
  <2>2. EndedJobs \in SUBSET Job
    BY DEF EndedJobs
  <2>3. Cardinality(EndedJobs) \in Nat
    BY <2>2, FS_Subset, FS_CardinalityType
  <2>4. 0 \in Version
    BY PagerServicesAssumption DEF Version
  <2>5. Listened
    BY <2>1, <2>3 DEF Listened
  <2> QED BY <2>4, <2>5 DEF Init, ServiceFlags
<1>2. ServicesIInv /\ Listened /\ ServiceFlags => TypeOK
  <2> SUFFICES ASSUME ServicesIInv, Listened, ServiceFlags PROVE TypeOK
    OBVIOUS
  <2>1. EndedJobs \in SUBSET Job
    BY DEF EndedJobs
  <2>2. /\ Cardinality(EndedJobs) \in Nat /\ Cardinality(Job) \in Nat
        /\ Cardinality(EndedJobs) <= Cardinality(Job)
    BY <2>1, FS_Subset, FS_CardinalityType
  <2>3. ASSUME NEW m \in Job PROVE Cardinality(Job) >= 1
    <3>1. Cardinality(Job) # 0
      BY FS_EmptySet
    <3> QED BY <2>2, <3>1
  <2>4. monitors \in [Job -> [state : {"none", "running", "stopped"}, client : Job \cup {None},
                              page : 0..Cardinality(Job), log : 0..Cardinality(Job)]]
    <3>1. monitors \in [Job -> MonitorRecord]
      BY DEF ServicesIInv, ServiceTypes
    <3>2. ASSUME NEW m \in Job
          PROVE  monitors[m].page \in 0..Cardinality(Job) /\ monitors[m].log \in 0..Cardinality(Job)
      BY <2>2, <2>3, <3>1 DEF Listened, MonitorRecord
    <3> QED BY <3>1, <3>2 DEF MonitorRecord
  <2> QED BY <2>4 DEF TypeOK, ServicesIInv, ServiceTypes, ServiceFlags, JobRecord
<1>3. ServicesIInv /\ Listened /\ ServiceFlags /\ [Next]_vars => (Listened /\ ServiceFlags)'
  BY ServicesStep, ListenersStep, ServiceFlagsStep
<1> QED BY ServicesInitIInv, ServicesStep, <1>1, <1>2, <1>3, PTL DEF Spec

-----------------------------------------------------------------------------
(***************************************************************************)
(* PageExecution: pages that share a queue and files.                      *)
(***************************************************************************)

PageRecord == [stage : PageStages, audio : Audio \cup {NoSound}, attached : BOOLEAN,
               mine : BOOLEAN, heard : Content \cup {NoSound, Mixed}]

PageTypes ==
    /\ row \subseteq Wav /\ queueWav \in Wav \cup {NoSound}
    /\ out \in [Audio -> {"none", "partial", "whole"}]
    /\ current \in Content \cup {NoSound}
    /\ pages \in [Page -> PageRecord]
    /\ log \in [Page -> 0..1]
    /\ \A p \in UnderWay : pages[p].audio \in Audio
    /\ shared \subseteq Page

(* What LonePageIsHeardWhole rests on: a page that no other met is alone     *)
(* while it is under way, so that the file it plays from is its own;         *)
LoneAlone == \A p \in UnderWay \ shared : UnderWay = {p}

LoneCurrent ==
    \A p \in Page \ shared :
        pages[p].stage \in {"originating", "dialled"} /\ pages[p].audio \notin cut =>
            current = [audio |-> pages[p].audio, whole |-> TRUE]

(* a converted file that is not whole has a writer, or a crash cut it off;   *)
PartialHasWriter == \A w \in Wav : out[w] = "partial" => w \in cut \/ Writers(w) # {}

(* and nobody deletes the beep while sox writes it.                          *)
LoneBeep ==
    \A p \in Page \ shared :
        pages[p].stage = "converting" /\ pages[p].audio = Beep => pages[p].attached

NotYetHeard == \A p \in Page : pages[p].stage \notin {"playing", "played"} => pages[p].heard = NoSound

PagesIInv ==
    /\ PageTypes /\ PageIsLoggedOnce
    /\ LoneAlone /\ LoneCurrent /\ PartialHasWriter /\ LoneBeep /\ NotYetHeard
    /\ LonePageIsHeardWhole

LEMMA PagesInitIInv == PagesInit => PagesIInv
<1> SUFFICES ASSUME PagesInit PROVE PagesIInv
  OBVIOUS
<1>1. NewPage \in PageRecord /\ NewPage.stage = "new" /\ NewPage.heard = NoSound
  BY DEF NewPage, PageRecord, PageStages, Preparing
<1>2. \A p \in Page : pages[p] = NewPage /\ log[p] = 0
  BY DEF PagesInit
<1>3. UnderWay = {}
  BY <1>1, <1>2 DEF UnderWay, Preparing
<1>4. PageTypes
  BY <1>1, <1>3 DEF PageTypes, PagesInit
<1>5. PageIsLoggedOnce /\ NotYetHeard /\ LoneCurrent /\ LoneBeep /\ LonePageIsHeardWhole
  BY <1>1, <1>2 DEF PageIsLoggedOnce, NotYetHeard, LoneCurrent, LoneBeep, LonePageIsHeardWhole
<1>6. LoneAlone /\ PartialHasWriter
  BY <1>3 DEF LoneAlone, PartialHasWriter, PagesInit, Audio
<1> QED BY <1>4, <1>5, <1>6 DEF PagesIInv

-----------------------------------------------------------------------------
(* One that ends, is dialled or is played, and leaves the files alone.       *)
LEMMA PageGoesOn ==
    ASSUME PagesIInv, NEW p \in Page, NEW page \in PageRecord,
           pages' = [pages EXCEPT ![p] = page], page.audio = pages[p].audio,
           pages[p].stage # "new", pages[p].stage # "converting", page.stage # "converting",
           p \in UnderWay,
           \/ page.stage \in {"failed", "lost"} /\ page.heard = NoSound
           \/ page.stage = "dialled" /\ pages[p].stage = "originating" /\ page.heard = NoSound
           \/ page.stage = "playing" /\ pages[p].stage = "dialled" /\ page.heard = current
           \/ page.stage = "played" /\ page.heard = pages[p].heard,
           log' \in [Page -> 0..1], \A r \in Page \ {p} : log'[r] = log[r],
           log'[p] = IF page.stage \in {"dialled", "playing", "played", "failed"} THEN 1 ELSE 0,
           UNCHANGED <<row, queueWav, out, current, shared, cut>>
    PROVE  PagesIInv'
<1>1. pages' \in [Page -> PageRecord] /\ \A r \in Page : pages'[r] = IF r = p THEN page ELSE pages[r]
  BY DEF PagesIInv, PageTypes
<1>2. UnderWay' \subseteq UnderWay
  BY <1>1 DEF UnderWay, PageRecord
<1>3. PageTypes'
  BY <1>1, <1>2 DEF PagesIInv, PageTypes
<1>4. PageIsLoggedOnce'
  BY <1>1 DEF PagesIInv, PageIsLoggedOnce
<1>5. LoneAlone'
  BY <1>2 DEF PagesIInv, LoneAlone
<1>6. LoneCurrent'
  BY <1>1 DEF PagesIInv, LoneCurrent, PageRecord
<1>7. \A w : Writers(w)' = Writers(w)
  BY <1>1 DEF Writers
<1>8. PartialHasWriter' /\ LoneBeep' /\ NotYetHeard'
  BY <1>1, <1>7 DEF PagesIInv, PartialHasWriter, LoneBeep, NotYetHeard
<1>9. LonePageIsHeardWhole'
  <2> SUFFICES ASSUME NEW r \in Page \ shared, pages'[r].heard # NoSound, pages'[r].audio \notin cut
               PROVE  pages'[r].heard = [audio |-> pages'[r].audio, whole |-> TRUE]
    BY DEF LonePageIsHeardWhole
  <2>1. CASE r # p \/ page.heard = pages[p].heard
    BY <1>1, <2>1 DEF PagesIInv, LonePageIsHeardWhole
  <2>2. CASE r = p /\ page.heard = current /\ pages[p].stage = "dialled"
    BY <1>1, <2>2 DEF PagesIInv, LoneCurrent
  <2>3. CASE r = p /\ page.heard = NoSound
    BY <1>1, <2>3
  <2> QED BY <2>1, <2>2, <2>3
<1> QED BY <1>3, <1>4, <1>5, <1>6, <1>8, <1>9 DEF PagesIInv

(* Pages that go on together, none of them to be played: taken by a lost     *)
(* connection, a restart or a crash, or their file unlinked.                 *)
LEMMA PagesInterrupted ==
    ASSUME PagesIInv, NEW after \in [Page -> PageRecord], pages' = after,
           \A p \in Page :
              /\ after[p].audio = pages[p].audio /\ after[p].heard = pages[p].heard
              /\ \/ after[p].stage = pages[p].stage
                 \/ after[p].stage = "lost" /\ pages[p].stage \in Preparing \cup {"originating"},
           \A p \in Page : after[p].stage = "converting" /\ pages[p].audio = Beep =>
                             after[p].attached = pages[p].attached,
           PartialHasWriter', cut \subseteq cut', row' \subseteq row, queueWav' \in Wav \cup {NoSound},
           out' \in [Audio -> {"none", "partial", "whole"}],
           UNCHANGED <<current, log, shared>>
    PROVE  PagesIInv'
<1>1. UnderWay' \subseteq UnderWay
  BY DEF UnderWay, Preparing
<1>2. PageTypes'
  <2>1. \A p \in UnderWay' : p \in UnderWay /\ pages'[p].audio = pages[p].audio
    BY <1>1 DEF UnderWay
  <2> QED BY <2>1 DEF PagesIInv, PageTypes
<1>3. PageIsLoggedOnce'
  BY DEF PagesIInv, PageIsLoggedOnce, Preparing
<1>4. LoneAlone'
  BY <1>1 DEF PagesIInv, LoneAlone
<1>5. LoneCurrent' /\ LoneBeep'
  BY DEF PagesIInv, LoneCurrent, LoneBeep
<1>6. NotYetHeard' /\ LonePageIsHeardWhole'
  BY DEF PagesIInv, NotYetHeard, LonePageIsHeardWhole, Preparing
<1> QED BY <1>2, <1>3, <1>4, <1>5, <1>6 DEF PagesIInv

(* The surroundings of the pages change.                                     *)
LEMMA PagesLeftAlone ==
    ASSUME PagesIInv, UNCHANGED <<out, current, pages, log, shared, cut>>,
           row' \subseteq Wav, queueWav' \in Wav \cup {NoSound}
    PROVE  PagesIInv'
<1>1. UnderWay' = UnderWay /\ \A w : Writers(w)' = Writers(w)
  BY DEF UnderWay, Writers
<1> QED BY <1>1 DEF PagesIInv, PageTypes, PageIsLoggedOnce, LoneAlone, LoneCurrent, PartialHasWriter,
           LoneBeep, NotYetHeard, LonePageIsHeardWhole

(* A page that is ready for its call writes no converted file any more.      *)
LEMMA PreparedWriters ==
    ASSUME PagesIInv, NEW p \in Page, NEW record \in PageRecord, NEW state, Prepared(p, record, state)
    PROVE  \A w : Writers(w)' = Writers(w) \ {p}
<1>1. \A r \in Page : pages[r] \in PageRecord
  BY DEF PagesIInv, PageTypes
<1>2. ASSUME NEW r \in Page \ {p}
      PROVE  /\ pages'[r].stage = pages[r].stage /\ pages'[r].audio = pages[r].audio
             /\ pages'[r].attached = pages[r].attached
  BY <1>1 DEF Prepared, WriteCurrent, PageRecord
<1>3. pages'[p].stage # "converting"
  <2>1. pages'[p] = [record EXCEPT !.stage = IF record.mine THEN "originating" ELSE "failed"]
    BY DEF Prepared, WriteCurrent
  <2> QED BY <2>1 DEF PageRecord
<1> QED BY <1>2, <1>3 DEF Writers

(* A page writes the shared file, and changes what others are playing: they  *)
(* are under way with it.                                                    *)
LEMMA PageWritesCurrent ==
    ASSUME PagesIInv, NEW p \in Page, NEW record \in PageRecord, NEW state \in {"partial", "whole"},
           Prepared(p, record, state), record.audio \in Audio, ~record.attached,
           record.heard = NoSound,
           pages[p].stage = "new" \/ (p \in UnderWay /\ record.audio = pages[p].audio),
           pages[p].stage \in {"new", "converting"},
           \/ p \in shared'
           \/ state = "whole" \/ record.audio \in cut,
           shared \subseteq shared', shared' \subseteq Page,
           UnderWay \subseteq {p} \/ UnderWay \cup {p} \subseteq shared',
           PartialHasWriter',
           out' \in [Audio -> {"none", "partial", "whole"}],
           UNCHANGED <<libraryVars, cut>>
    PROVE  PagesIInv'
<1> DEFINE page == [record EXCEPT !.stage = IF record.mine THEN "originating" ELSE "failed"]
           content == [audio |-> record.audio, whole |-> state = "whole"]
<1>1. page \in PageRecord /\ page.audio = record.audio /\ page.heard = NoSound
      /\ page.stage \in {"originating", "failed"} /\ (page.stage = "originating" <=> record.mine)
  <2>1. PICK stage \in {"originating", "failed"} :
           /\ stage = IF record.mine THEN "originating" ELSE "failed"
           /\ stage = "originating" <=> record.mine
    OBVIOUS
  <2>2. stage \in PageStages
    BY DEF PageStages
  <2>3. LET new == [record EXCEPT !.stage = stage]
        IN  new \in PageRecord /\ new.audio = record.audio /\ new.heard = NoSound /\ new.stage = stage
    BY <2>2 DEF PageRecord
  <2> QED BY <2>1, <2>3
<1> HIDE DEF page
<1>2. current' = content /\ content \in Content
  BY DEF Prepared, WriteCurrent, Content
<1>3. /\ pages' \in [Page -> PageRecord] /\ pages'[p] = page
      /\ \A r \in Page \ {p} :
            /\ pages'[r].stage = pages[r].stage /\ pages'[r].audio = pages[r].audio
            /\ pages'[r].attached = pages[r].attached
            /\ pages'[r].heard = pages[r].heard \/ pages[r].stage = "playing"
  <2>1. pages' = [r \in Page |-> IF r = p THEN page
                                ELSE IF pages[r].stage = "playing" /\ current' # pages[r].heard
                                THEN [pages[r] EXCEPT !.heard = Mixed]
                                ELSE pages[r]]
    BY DEF Prepared, WriteCurrent, page
  <2>2. \A r \in Page : pages[r] \in PageRecord
    BY DEF PagesIInv, PageTypes
  <2>3. ASSUME NEW r \in Page
        PROVE  LET spoilt == [pages[r] EXCEPT !.heard = Mixed]
               IN  /\ spoilt \in PageRecord /\ spoilt.stage = pages[r].stage
                   /\ spoilt.audio = pages[r].audio /\ spoilt.attached = pages[r].attached
    BY <2>2 DEF PageRecord
  <2> QED BY <1>1, <2>1, <2>2, <2>3
<1>4. UnderWay' \subseteq UnderWay \cup {p}
  BY <1>3 DEF UnderWay
<1>5. PageTypes'
  BY <1>1, <1>2, <1>3, <1>4 DEF PagesIInv, PageTypes, Prepared, Logged, libraryVars, PageIsLoggedOnce
<1>6. PageIsLoggedOnce'
  <2>1. log' = IF record.mine THEN log ELSE [log EXCEPT ![p] = log[p] + 1]
    BY DEF Prepared, Logged
  <2>2. log \in [Page -> 0..1] /\ log[p] = 0
    BY DEF PagesIInv, PageTypes, PageIsLoggedOnce
  <2>3. log'[p] = IF record.mine THEN 0 ELSE 1
    BY <2>1, <2>2
  <2>4. \A r \in Page \ {p} : log'[r] = log[r]
    BY <2>1, <2>2
  <2> QED BY <1>1, <1>3, <2>3, <2>4 DEF PagesIInv, PageIsLoggedOnce
<1>7. ASSUME NEW r \in Page \ {p}, r \notin shared'
      PROVE  r \notin UnderWay /\ r \notin shared /\ pages[r].stage # "playing"
  BY <1>7 DEF UnderWay
<1>8. LoneAlone'
  <2>1. p \notin shared' => UnderWay' \subseteq {p}
    BY <1>4
  <2>2. \A r \in UnderWay' : r = p \/ r \in shared'
    BY <1>4, <1>7 DEF UnderWay
  <2> QED BY <2>1, <2>2 DEF LoneAlone
<1>9. LoneCurrent'
  <2> SUFFICES ASSUME NEW r \in Page, r \notin shared', pages'[r].stage \in {"originating", "dialled"},
                      pages'[r].audio \notin cut
               PROVE  current' = [audio |-> pages'[r].audio, whole |-> TRUE]
    BY DEF LoneCurrent
  <2>1. r = p
    BY <1>3, <1>7 DEF UnderWay
  <2>2. state = "whole"
    BY <1>1, <1>3, <2>1
  <2> QED BY <1>1, <1>2, <1>3, <2>1, <2>2
<1>10. LoneBeep' /\ NotYetHeard'
  BY <1>1, <1>3 DEF PagesIInv, LoneBeep, NotYetHeard
<1>11. LonePageIsHeardWhole'
  BY <1>1, <1>3, <1>7 DEF PagesIInv, LonePageIsHeardWhole
<1> QED BY <1>5, <1>6, <1>8, <1>9, <1>10, <1>11 DEF PagesIInv

LEMMA PageBegins ==
    ASSUME PagesIInv, NEW p \in Page, NEW a \in Audio, BeginPage(p, a)
    PROVE  PagesIInv'
<1> DEFINE record == [NewPage EXCEPT !.audio = a, !.mine = TRUE]
<1>1. /\ record \in PageRecord /\ record.stage = "new" /\ record.audio = a /\ record.heard = NoSound
      /\ ~record.attached /\ record.mine
  BY DEF NewPage, PageRecord, PageStages
<1>2. pages[p].stage = "new" /\ p \notin UnderWay /\ log[p] = 0 /\ pages[p].heard = NoSound
  BY DEF BeginPage, UnderWay, Preparing, PagesIInv, PageIsLoggedOnce, NotYetHeard
<1>3. UNCHANGED <<libraryVars, out, ami, cut>>
  BY DEF BeginPage
<1>4. ASSUME NEW stage \in {"failed", "spawned"},
             pages' = [pages EXCEPT ![p] = [record EXCEPT !.stage = stage]],
             current' = current, shared \subseteq shared', shared' \subseteq Page,
             stage = "failed" \/ UnderWay = {} \/ UnderWay \cup {p} \subseteq shared',
             log' = IF stage = "failed" THEN [log EXCEPT ![p] = log[p] + 1] ELSE log
      PROVE  PagesIInv'
  <2> DEFINE page == [record EXCEPT !.stage = stage]
  <2>1. page \in PageRecord /\ page.stage = stage /\ page.audio = a /\ page.heard = NoSound
    <3>1. stage \in PageStages
      BY DEF PageStages, Preparing
    <3> HIDE DEF record
    <3> QED BY <1>1, <3>1 DEF PageRecord
  <2> HIDE DEF page, record
  <2>2. pages' \in [Page -> PageRecord] /\ \A r \in Page : pages'[r] = IF r = p THEN page ELSE pages[r]
    BY <1>4, <2>1 DEF PagesIInv, PageTypes, page
  <2>3. UnderWay' \subseteq UnderWay \cup {p} /\ (stage = "failed" => UnderWay' \subseteq UnderWay)
    BY <2>1, <2>2 DEF UnderWay, Preparing
  <2>4. \A w : Writers(w)' = Writers(w)
    BY <1>2, <2>1, <2>2 DEF Writers
  <2>5. log' \in [Page -> 0..1] /\ \A r \in Page : log'[r] = IF r = p /\ stage = "failed" THEN 1 ELSE log[r]
    BY <1>2, <1>4 DEF PagesIInv, PageTypes
  <2>6. PageTypes'
    <3>1. \A r \in UnderWay' : pages'[r].audio \in Audio
      <4>1. UnderWay \subseteq Page
        BY DEF UnderWay
      <4> QED BY <2>1, <2>2, <2>3, <4>1 DEF PagesIInv, PageTypes
    <3>2. UNCHANGED <<row, queueWav, out, current>>
      BY <1>3, <1>4 DEF libraryVars
    <3>3. shared' \subseteq Page
      BY <1>4
    <3> QED BY <2>2, <2>5, <3>1, <3>2, <3>3 DEF PagesIInv, PageTypes
  <2>7. PageIsLoggedOnce'
    BY <1>2, <2>1, <2>2, <2>5 DEF PagesIInv, PageIsLoggedOnce
  <2>8. LoneAlone'
    BY <1>4, <2>3 DEF PagesIInv, LoneAlone
  <2>9. LoneCurrent' /\ LoneBeep' /\ NotYetHeard'
    BY <1>3, <1>4, <2>1, <2>2 DEF PagesIInv, LoneCurrent, LoneBeep, NotYetHeard
  <2>10. PartialHasWriter' /\ LonePageIsHeardWhole'
    BY <1>3, <1>4, <2>1, <2>2, <2>4 DEF PagesIInv, PartialHasWriter, LonePageIsHeardWhole
  <2> QED BY <2>6, <2>7, <2>8, <2>9, <2>10 DEF PagesIInv
<1>5. shared \subseteq Page /\ UnderWay \subseteq Page
  BY DEF PagesIInv, UnderWay, PageTypes
<1>6. CASE ami \in {"none", "lost"}
  <2>1. pages' = [pages EXCEPT ![p] = [record EXCEPT !.stage = "failed"]] /\ Logged(p)
        /\ UNCHANGED <<current, shared>>
    BY <1>6 DEF BeginPage
  <2> HIDE DEF record
  <2> QED BY <1>4, <1>5, <2>1 DEF Logged
<1>7. CASE ami = "up"
  <2>1. shared' = IF UnderWay = {} THEN shared ELSE shared \cup UnderWay \cup {p}
    BY <1>7 DEF BeginPage
  <2>2. CASE a # Beep /\ out[a] # "none"
    <3>1. Prepared(p, record, out[a])
      BY <1>7, <2>2 DEF BeginPage
    <3>2. a \in Wav /\ out[a] \in {"partial", "whole"}
      BY <2>2 DEF Audio, PagesIInv, PageTypes
    <3>3. UnderWay = {} => out[a] = "whole" \/ a \in cut
      <4>1. Writers(a) \subseteq UnderWay
        BY DEF Writers, UnderWay, Preparing
      <4> QED BY <3>2, <4>1 DEF PagesIInv, PartialHasWriter
    <3>4. PartialHasWriter'
      <4>1. \A w : Writers(w)' = Writers(w)
        BY <1>1, <1>2, <3>1, PreparedWriters DEF Writers
      <4> QED BY <1>3, <4>1 DEF PagesIInv, PartialHasWriter
    <3>5. out' \in [Audio -> {"none", "partial", "whole"}]
      BY <1>3 DEF PagesIInv, PageTypes
    <3> HIDE DEF record
    <3> QED BY <1>1, <1>2, <1>3, <1>5, <2>1, <3>1, <3>2, <3>3, <3>4, <3>5, PageWritesCurrent
  <2>3. CASE ~(a # Beep /\ out[a] # "none")
    <3>1. pages' = [pages EXCEPT ![p] = [record EXCEPT !.stage = "spawned"]] /\ UNCHANGED <<current, log>>
      BY <1>7, <2>3 DEF BeginPage
    <3> HIDE DEF record
    <3> QED BY <1>4, <1>5, <2>1, <3>1
  <2> QED BY <2>2, <2>3
<1> QED BY <1>6, <1>7 DEF BeginPage

(* sox has opened the file it writes.                                        *)
LEMMA PageConverts ==
    ASSUME PagesIInv, NEW p \in Page, SoxOpens(p)
    PROVE  PagesIInv'
<1> DEFINE page == [[pages[p] EXCEPT !.stage = "converting"] EXCEPT !.attached = TRUE]
<1> PICK a : a = pages[p].audio
  OBVIOUS
<1>1. pages[p].stage = "spawned" /\ p \in UnderWay /\ a \in Audio /\ pages[p] \in PageRecord
  BY DEF SoxOpens, UnderWay, Preparing, PagesIInv, PageTypes
<1>2. /\ page \in PageRecord /\ page.stage = "converting" /\ page.audio = a
      /\ page.heard = pages[p].heard /\ page.attached
  BY <1>1 DEF PageRecord, PageStages, Preparing
<1>3. pages' = [pages EXCEPT ![p] = page]
  BY DEF SoxOpens
<1> HIDE DEF page
<1>4. pages' \in [Page -> PageRecord] /\ \A r \in Page : pages'[r] = IF r = p THEN page ELSE pages[r]
  BY <1>2, <1>3 DEF PagesIInv, PageTypes
<1>5. UnderWay' = UnderWay
  BY <1>1, <1>2, <1>4 DEF UnderWay, Preparing
<1>6. /\ out' \in [Audio -> {"none", "partial", "whole"}]
      /\ \A w \in Audio : out'[w] = IF w = a THEN "partial" ELSE out[w]
  BY <1>1 DEF SoxOpens, PagesIInv, PageTypes
<1>7. \A w : Writers(w) \subseteq Writers(w)'
  BY <1>1, <1>2, <1>4 DEF Writers
<1>8. p \in Writers(a)'
  BY <1>2, <1>4 DEF Writers
<1>9. UNCHANGED <<row, queueWav, current, log, shared, cut>>
  BY DEF SoxOpens, libraryVars
<1>10. PageTypes'
  <2>1. \A r \in UnderWay' : pages'[r].audio \in Audio
    BY <1>1, <1>2, <1>4, <1>5 DEF PagesIInv, PageTypes, UnderWay
  <2> QED BY <1>4, <1>6, <1>9, <2>1 DEF PagesIInv, PageTypes
<1>11. PageIsLoggedOnce' /\ LoneAlone' /\ LoneCurrent' /\ LoneBeep'
  BY <1>1, <1>2, <1>4, <1>5, <1>9 DEF PagesIInv, PageIsLoggedOnce, LoneAlone, LoneCurrent, LoneBeep
<1>12. PartialHasWriter'
  BY <1>6, <1>7, <1>8, <1>9 DEF PagesIInv, PartialHasWriter, Audio
<1>13. NotYetHeard' /\ LonePageIsHeardWhole'
  BY <1>1, <1>2, <1>4, <1>9 DEF PagesIInv, NotYetHeard, LonePageIsHeardWhole
<1> QED BY <1>10, <1>11, <1>12, <1>13 DEF PagesIInv

(* A page fails while it is being prepared: nobody writes the file of its    *)
(* sound any more, or the file was not there to be read.                     *)
LEMMA PageFails ==
    ASSUME PagesIInv, NEW p \in Page, pages[p].stage \in Preparing,
           NEW after \in [Page -> PageRecord], pages' = after,
           after[p].stage = "failed" /\ after[p].audio = pages[p].audio /\ after[p].heard = NoSound,
           \A r \in Page \ {p} : /\ after[r].stage = pages[r].stage
                                 /\ after[r].audio = pages[r].audio /\ after[r].heard = pages[r].heard,
           Logged(p), PartialHasWriter',
           out' \in [Audio -> {"none", "partial", "whole"}],
           UNCHANGED <<row, queueWav, current, shared, cut>>
    PROVE  PagesIInv'
<1>1. p \in UnderWay
  BY DEF UnderWay
<1>2. UnderWay' \subseteq UnderWay \ {p}
  BY DEF UnderWay, Preparing
<1>3. UnderWay \ shared \subseteq {p}
  BY <1>1 DEF PagesIInv, LoneAlone
<1>4. log[p] = 0 /\ log \in [Page -> 0..1]
  BY DEF PagesIInv, PageTypes, PageIsLoggedOnce, Preparing
<1>5. log' \in [Page -> 0..1] /\ \A r \in Page : log'[r] = IF r = p THEN 1 ELSE log[r]
  BY <1>4 DEF Logged
<1>6. PageTypes'
  <2>1. \A r \in UnderWay' : pages'[r].audio \in Audio
    BY <1>2 DEF PagesIInv, PageTypes, UnderWay
  <2> QED BY <1>5, <2>1 DEF PagesIInv, PageTypes
<1>7. PageIsLoggedOnce'
  BY <1>5 DEF PagesIInv, PageIsLoggedOnce
<1>8. LoneAlone' /\ LoneBeep'
  BY <1>2, <1>3 DEF LoneAlone, LoneBeep, UnderWay, Preparing
<1>9. LoneCurrent' /\ NotYetHeard' /\ LonePageIsHeardWhole'
  BY DEF PagesIInv, LoneCurrent, NotYetHeard, LonePageIsHeardWhole
<1> QED BY <1>6, <1>7, <1>8, <1>9 DEF PagesIInv

(* Detaching the writers changes nothing else of a page.                     *)
LEMMA DetachedPages ==
    ASSUME PagesIInv, NEW ps
    PROVE  /\ Detached(ps) \in [Page -> PageRecord]
           /\ \A r \in Page :
                 /\ Detached(ps)[r].stage = pages[r].stage /\ Detached(ps)[r].audio = pages[r].audio
                 /\ Detached(ps)[r].heard = pages[r].heard
                 /\ Detached(ps)[r].attached = (pages[r].attached /\ r \notin ps)
<1>1. \A r \in Page : pages[r] \in PageRecord
  BY DEF PagesIInv, PageTypes
<1>2. ASSUME NEW r \in Page
      PROVE  LET alone == [pages[r] EXCEPT !.attached = FALSE]
             IN  /\ alone \in PageRecord /\ alone.stage = pages[r].stage /\ alone.audio = pages[r].audio
                 /\ alone.heard = pages[r].heard /\ alone.attached = FALSE
  BY <1>1 DEF PageRecord
<1>3. \A r \in Page : pages[r].attached \in BOOLEAN
  BY <1>1 DEF PageRecord
<1> QED BY <1>1, <1>2, <1>3 DEF Detached

LEMMA PageSoxFails ==
    ASSUME PagesIInv, NEW p \in Page, SoxFails(p)
    PROVE  PagesIInv'
<1> PICK a : a = pages[p].audio
  OBVIOUS
<1>1. /\ pages[p].stage \in Preparing /\ p \in UnderWay /\ a \in Audio /\ pages[p] \in PageRecord
      /\ pages[p].heard = NoSound
  BY DEF SoxFails, UnderWay, Preparing, PagesIInv, PageTypes, NotYetHeard
<1>2. UNCHANGED <<row, queueWav, current, shared, cut>> /\ Logged(p)
  BY DEF SoxFails, libraryVars
<1>3. \A r \in Page : pages[r] \in PageRecord
  BY DEF PagesIInv, PageTypes
<1>4. ASSUME NEW before \in [Page -> PageRecord], pages' = [before EXCEPT ![p].stage = "failed"],
             \A r \in Page : /\ before[r].stage = pages[r].stage /\ before[r].audio = pages[r].audio
                             /\ before[r].heard = pages[r].heard,
             PartialHasWriter', out' \in [Audio -> {"none", "partial", "whole"}]
      PROVE  PagesIInv'
  <2> DEFINE page == [before[p] EXCEPT !.stage = "failed"]
  <2>1. /\ page \in PageRecord /\ page.stage = "failed" /\ page.audio = before[p].audio
        /\ page.heard = before[p].heard
    <3>1. before[p] \in PageRecord
      OBVIOUS
    <3> QED BY <3>1 DEF PageRecord, PageStages
  <2>2. pages' = [before EXCEPT ![p] = page]
    BY <1>4
  <2> HIDE DEF page
  <2> DEFINE after == [before EXCEPT ![p] = page]
  <2>3. after \in [Page -> PageRecord] /\ \A r \in Page : after[r] = IF r = p THEN page ELSE before[r]
    BY <2>1
  <2>4. pages' = after
    BY <2>2
  <2> HIDE DEF after
  <2> QED BY <1>1, <1>2, <1>4, <2>1, <2>3, <2>4, PageFails
<1>5. CASE pages[p].stage = "converting"
  <2> PICK before : before = Detached(Writers(a))
    OBVIOUS
  <2>1. /\ before \in [Page -> PageRecord]
        /\ \A r \in Page : /\ before[r].stage = pages[r].stage /\ before[r].audio = pages[r].audio
                          /\ before[r].heard = pages[r].heard
                          /\ before[r].attached = (pages[r].attached /\ r \notin Writers(a))
    BY DetachedPages
  <2>2. pages' = [before EXCEPT ![p].stage = "failed"] /\ out' = [out EXCEPT ![a] = "none"]
    BY <1>5 DEF SoxFails
  <2>3. /\ out' \in [Audio -> {"none", "partial", "whole"}]
        /\ \A w \in Audio : out'[w] = IF w = a THEN "none" ELSE out[w]
    BY <1>1, <2>2 DEF PagesIInv, PageTypes
  <2>4. \A w \in Audio \ {a} : Writers(w) \subseteq Writers(w)'
    <3> SUFFICES ASSUME NEW w \in Audio \ {a}, NEW r \in Writers(w) PROVE r \in Writers(w)'
      OBVIOUS
    <3>1. r # p /\ r \notin Writers(a)
      BY DEF Writers
    <3>2. pages'[r] = before[r]
      BY <2>1, <2>2, <3>1
    <3> QED BY <2>1, <3>1, <3>2 DEF Writers
  <2>5. PartialHasWriter'
    BY <1>2, <2>3, <2>4 DEF PagesIInv, PartialHasWriter, Audio
  <2> QED BY <1>4, <2>1, <2>2, <2>3, <2>5
<1>6. CASE pages[p].stage # "converting"
  <2>1. pages' = [pages EXCEPT ![p].stage = "failed"] /\ out' = out
    BY <1>6 DEF SoxFails
  <2>2. pages \in [Page -> PageRecord] /\ out \in [Audio -> {"none", "partial", "whole"}]
    BY DEF PagesIInv, PageTypes
  <2>3. \A r \in Page \ {p} : pages'[r] = pages[r]
    BY <2>1, <2>2
  <2>4. \A w : Writers(w) \subseteq Writers(w)'
    BY <1>6, <2>3 DEF Writers
  <2>5. PartialHasWriter'
    BY <1>2, <2>1, <2>4 DEF PagesIInv, PartialHasWriter
  <2> QED BY <1>4, <2>1, <2>2, <2>5
<1> QED BY <1>5, <1>6

(* sox ends well.  A lone page reads a whole file: it was the only one that  *)
(* wrote it, or nobody writes it and no crash has cut it off.                *)
LEMMA PageSoxEnds ==
    ASSUME PagesIInv, NEW p \in Page, SoxEnds(p)
    PROVE  PagesIInv'
<1> PICK a : a = pages[p].audio
  OBVIOUS
<1> PICK state : state = IF pages[p].attached /\ Writers(a) = {p} THEN "whole" ELSE out[a]
  OBVIOUS
<1> DEFINE record == [pages[p] EXCEPT !.attached = FALSE]
<1>1. /\ pages[p].stage = "converting" /\ p \in UnderWay /\ a \in Audio /\ pages[p] \in PageRecord
      /\ pages[p].heard = NoSound
  BY DEF SoxEnds, UnderWay, Preparing, PagesIInv, PageTypes, NotYetHeard
<1>2. /\ record \in PageRecord /\ record.audio = a /\ record.heard = NoSound /\ record.attached = FALSE
  BY <1>1 DEF PageRecord
<1>3. UNCHANGED <<libraryVars, row, queueWav, shared, cut>>
  BY DEF SoxEnds, libraryVars
<1>4. state \in {"none", "partial", "whole"} /\ out \in [Audio -> {"none", "partial", "whole"}]
  BY <1>1 DEF PagesIInv, PageTypes
<1>5. CASE state = "none"
  <2>1. /\ pages' = [pages EXCEPT ![p].stage = "failed", ![p].attached = FALSE]
        /\ Logged(p) /\ UNCHANGED <<out, current>>
    BY <1>5 DEF SoxEnds
  <2> DEFINE page == [[pages[p] EXCEPT !.stage = "failed"] EXCEPT !.attached = FALSE]
             after == [pages EXCEPT ![p] = page]
  <2>2. page \in PageRecord /\ page.stage = "failed" /\ page.audio = a /\ page.heard = NoSound
    BY <1>1 DEF PageRecord, PageStages
  <2>3. pages' = after
    BY <2>1
  <2> HIDE DEF page, record
  <2>4. after \in [Page -> PageRecord] /\ \A r \in Page : after[r] = IF r = p THEN page ELSE pages[r]
    BY <2>2 DEF PagesIInv, PageTypes
  <2> HIDE DEF after
  <2>5. \A w \in Wav \ {a} : Writers(w)' = Writers(w)
    BY <1>1, <2>2, <2>3, <2>4 DEF Writers
  <2>6. out[a] = "none"
    BY <1>5
  <2>7. PartialHasWriter'
    BY <1>3, <2>1, <2>5, <2>6 DEF PagesIInv, PartialHasWriter
  <2>8. pages[p].stage \in Preparing /\ out' \in [Audio -> {"none", "partial", "whole"}]
    BY <1>1, <1>4, <2>1 DEF Preparing
  <2> QED BY <1>1, <1>3, <2>1, <2>2, <2>3, <2>4, <2>7, <2>8, PageFails
<1>6. CASE state # "none"
  <2>1. Prepared(p, record, state) /\ out' = [out EXCEPT ![a] = IF a = Beep THEN "none" ELSE state]
    BY <1>6 DEF SoxEnds
  <2> HIDE DEF record
  <2>2. \A w : Writers(w)' = Writers(w) \ {p}
    BY <1>2, <2>1, PreparedWriters
  <2>3. PICK left \in {"none", "partial", "whole"} : left = IF a = Beep THEN "none" ELSE state
    BY <1>4
  <2>4. /\ out' \in [Audio -> {"none", "partial", "whole"}]
        /\ \A w \in Audio : out'[w] = IF w = a THEN left ELSE out[w]
    BY <1>1, <1>4, <2>1, <2>3
  <2>5. Writers(a) \subseteq UnderWay /\ (p \in Writers(a) <=> pages[p].attached)
    BY <1>1 DEF Writers, UnderWay, Preparing
  <2>6. PartialHasWriter'
    <3> SUFFICES ASSUME NEW w \in Wav, out'[w] = "partial", w \notin cut PROVE Writers(w)' # {}
      BY <1>3 DEF PartialHasWriter
    <3>1. out[w] = "partial" /\ (w = a => ~(pages[p].attached /\ Writers(a) = {p}))
      BY <2>3, <2>4 DEF Audio
    <3>2. Writers(w) # {}
      BY <3>1 DEF PagesIInv, PartialHasWriter
    <3>3. p \in Writers(w) => w = a
      BY DEF Writers
    <3> QED BY <2>2, <2>5, <3>1, <3>2, <3>3
  <2>7. p \in shared \/ UnderWay = {p}
    BY <1>1 DEF PagesIInv, LoneAlone
  <2>8. p \in shared \/ state = "whole" \/ a \in cut
    <3> SUFFICES ASSUME p \notin shared, a \notin cut PROVE state = "whole"
      OBVIOUS
    <3>1. CASE pages[p].attached
      BY <2>5, <2>7, <3>1
    <3>2. CASE ~pages[p].attached
      <4>1. Writers(a) = {}
        BY <2>5, <2>7, <3>2
      <4>2. a \in Wav
        BY <1>1, <3>2 DEF PagesIInv, LoneBeep, Audio
      <4> QED BY <1>4, <1>6, <3>2, <4>1, <4>2 DEF PagesIInv, PartialHasWriter
    <3> QED BY <3>1, <3>2
  <2>9. UnderWay \subseteq {p} \/ UnderWay \cup {p} \subseteq shared
    BY <1>1, <2>7 DEF PagesIInv, LoneAlone
  <2>10. shared \subseteq Page
    BY DEF PagesIInv, PageTypes
  <2>11. state \in {"partial", "whole"}
    BY <1>4, <1>6
  <2> QED BY <1>1, <1>2, <1>3, <2>1, <2>4, <2>6, <2>8, <2>9, <2>10, <2>11, PageWritesCurrent
<1> QED BY <1>5, <1>6

-----------------------------------------------------------------------------
(* Asterisk and the device.                                                  *)

LEMMA PageCallAnswered ==
    ASSUME PagesIInv, NEW p \in Page, NEW ok \in BOOLEAN, Originated(p, ok)
    PROVE  PagesIInv'
<1> PICK stage \in {"dialled", "failed"} : stage = IF ok THEN "dialled" ELSE "failed"
  OBVIOUS
<1> DEFINE page == [pages[p] EXCEPT !.stage = stage]
<1>1. /\ pages[p].stage = "originating" /\ p \in UnderWay /\ pages[p] \in PageRecord
      /\ pages[p].heard = NoSound /\ log[p] = 0 /\ log \in [Page -> 0..1]
  BY DEF Originated, UnderWay, Preparing, PagesIInv, PageTypes, NotYetHeard, PageIsLoggedOnce
<1>2. /\ page \in PageRecord /\ page.stage = stage /\ page.audio = pages[p].audio
      /\ page.heard = NoSound
  BY <1>1 DEF PageRecord, PageStages
<1>3. pages' = [pages EXCEPT ![p] = page]
  BY DEF Originated
<1>4. log' = [log EXCEPT ![p] = 1]
  BY <1>1 DEF Originated, Logged
<1>5. log' \in [Page -> 0..1] /\ log'[p] = 1 /\ \A r \in Page \ {p} : log'[r] = log[r]
  BY <1>1, <1>4
<1>6. UNCHANGED <<row, queueWav, out, current, shared, cut>>
  BY DEF Originated, libraryVars
<1> HIDE DEF page
<1> QED BY <1>1, <1>2, <1>3, <1>5, <1>6, PageGoesOn

LEMMA PageStarts ==
    ASSUME PagesIInv, NEW p \in Page, Answered(p)
    PROVE  PagesIInv'
<1> DEFINE page == [[pages[p] EXCEPT !.stage = "playing"] EXCEPT !.heard = current]
<1>1. /\ pages[p].stage = "dialled" /\ p \in UnderWay /\ pages[p] \in PageRecord
      /\ current \in Content \cup {NoSound} /\ log \in [Page -> 0..1] /\ log[p] = 1
  BY DEF Answered, UnderWay, PagesIInv, PageTypes, PageIsLoggedOnce
<1>2. page \in PageRecord /\ page.stage = "playing" /\ page.audio = pages[p].audio /\ page.heard = current
  BY <1>1 DEF PageRecord, PageStages
<1>3. pages' = [pages EXCEPT ![p] = page]
  BY DEF Answered
<1>4. UNCHANGED <<row, queueWav, out, current, shared, cut, log>>
  BY DEF Answered, libraryVars
<1> HIDE DEF page
<1> QED BY <1>1, <1>2, <1>3, <1>4, PageGoesOn

LEMMA PageHangsUp ==
    ASSUME PagesIInv, NEW p \in Page, HungUp(p)
    PROVE  PagesIInv'
<1> DEFINE page == [pages[p] EXCEPT !.stage = "played"]
<1>1. /\ pages[p].stage \in {"dialled", "playing"} /\ p \in UnderWay /\ pages[p] \in PageRecord
      /\ log \in [Page -> 0..1] /\ log[p] = 1
  BY DEF HungUp, UnderWay, PagesIInv, PageTypes, PageIsLoggedOnce
<1>2. page \in PageRecord /\ page.stage = "played" /\ page.audio = pages[p].audio
      /\ page.heard = pages[p].heard
  BY <1>1 DEF PageRecord, PageStages
<1>3. pages' = [pages EXCEPT ![p] = page]
  BY DEF HungUp
<1>4. UNCHANGED <<row, queueWav, out, current, shared, cut, log>>
  BY DEF HungUp, libraryVars
<1> HIDE DEF page
<1> QED BY <1>1, <1>2, <1>3, <1>4, PageGoesOn

(* The connection is lost, or the services are restarted: the calls that are *)
(* asked for get no answer.  Who writes which file does not change.          *)
LEMMA PagesLoseConnection ==
    ASSUME PagesIInv, NEW after \in [Page -> PageRecord], pages' = after,
           \A p \in Page :
              /\ after[p].audio = pages[p].audio /\ after[p].heard = pages[p].heard
              /\ after[p].attached = pages[p].attached
              /\ after[p].stage = IF pages[p].stage = "originating" THEN "lost" ELSE pages[p].stage,
           UNCHANGED <<libraryVars, out, current, log, shared, cut>>
    PROVE  PagesIInv'
<1>1. \A w : Writers(w)' = Writers(w)
  BY DEF Writers
<1>2. PartialHasWriter'
  BY <1>1 DEF PagesIInv, PartialHasWriter
<1>3. row' \subseteq row /\ queueWav' \in Wav \cup {NoSound} /\ out' \in [Audio -> {"none", "partial", "whole"}]
  BY DEF PagesIInv, PageTypes, libraryVars
<1> QED BY <1>2, <1>3, PagesInterrupted

LEMMA PagesLost ==
    ASSUME PagesIInv, AmiLost \/ PagerDisconnects
    PROVE  PagesIInv'
<1>1. \A p \in Page : pages[p] \in PageRecord
  BY DEF PagesIInv, PageTypes
<1>2. CASE AmiLost
  <2> DEFINE after == [p \in Page |-> IF pages[p].stage = "originating"
                                      THEN [pages[p] EXCEPT !.stage = "lost"] ELSE pages[p]]
  <2>1. ASSUME NEW p \in Page
        PROVE  LET page == [pages[p] EXCEPT !.stage = "lost"]
               IN  /\ page \in PageRecord /\ page.stage = "lost" /\ page.audio = pages[p].audio
                   /\ page.heard = pages[p].heard /\ page.attached = pages[p].attached
    BY <1>1 DEF PageRecord, PageStages
  <2>2. /\ after \in [Page -> PageRecord]
        /\ \A p \in Page :
              /\ after[p].audio = pages[p].audio /\ after[p].heard = pages[p].heard
              /\ after[p].attached = pages[p].attached
              /\ after[p].stage = IF pages[p].stage = "originating" THEN "lost" ELSE pages[p].stage
    BY <1>1, <2>1
  <2>3. pages' = after /\ UNCHANGED <<libraryVars, out, current, log, shared, cut>>
    BY <1>2 DEF AmiLost
  <2> HIDE DEF after
  <2> QED BY <2>2, <2>3, PagesLoseConnection
<1>3. CASE PagerDisconnects
  <2> DEFINE lost(p) == IF pages[p].stage = "originating" THEN "lost" ELSE pages[p].stage
             after == [p \in Page |-> [[pages[p] EXCEPT !.mine = FALSE] EXCEPT !.stage = lost(p)]]
  <2>2. \A p \in Page : lost(p) \in PageStages
    BY <1>1 DEF PageRecord, PageStages
  <2>3. pages' = after /\ UNCHANGED <<libraryVars, out, current, log, shared, cut>>
    BY <1>3 DEF PagerDisconnects
  <2>4. ASSUME NEW p \in Page
        PROVE  /\ after[p] \in PageRecord
               /\ after[p].audio = pages[p].audio /\ after[p].heard = pages[p].heard
               /\ after[p].attached = pages[p].attached /\ after[p].stage = lost(p)
    <3> PICK stage \in PageStages : stage = lost(p)
      BY <2>2
    <3>1. after[p] = [[pages[p] EXCEPT !.mine = FALSE] EXCEPT !.stage = stage]
      OBVIOUS
    <3>2. LET page == [[pages[p] EXCEPT !.mine = FALSE] EXCEPT !.stage = stage]
          IN  /\ page \in PageRecord /\ page.stage = stage /\ page.audio = pages[p].audio
              /\ page.heard = pages[p].heard /\ page.attached = pages[p].attached
      BY <1>1 DEF PageRecord
    <3> HIDE DEF after, lost
    <3> QED BY <3>1, <3>2
  <2>5. /\ after \in [Page -> PageRecord]
        /\ \A p \in Page :
              /\ after[p].audio = pages[p].audio /\ after[p].heard = pages[p].heard
              /\ after[p].attached = pages[p].attached
              /\ after[p].stage = lost(p)
    BY <2>4
  <2> HIDE DEF after
  <2> QED BY <2>3, <2>5, PagesLoseConnection
<1> QED BY <1>2, <1>3

(* A crash takes the pages that are prepared or dialled, and cuts the files  *)
(* off that were being written.                                              *)
LEMMA PagesCrash ==
    ASSUME PagesIInv, Crash
    PROVE  PagesIInv'
<1> DEFINE taken(p) == pages[p].stage \in Preparing \cup {"originating"}
           after == [p \in Page |-> IF taken(p)
                                    THEN [[pages[p] EXCEPT !.stage = "lost"] EXCEPT !.attached = FALSE]
                                    ELSE pages[p]]
<1>1. \A p \in Page : pages[p] \in PageRecord
  BY DEF PagesIInv, PageTypes
<1>2. ASSUME NEW p \in Page
      PROVE  LET page == [[pages[p] EXCEPT !.stage = "lost"] EXCEPT !.attached = FALSE]
             IN  /\ page \in PageRecord /\ page.stage = "lost" /\ page.audio = pages[p].audio
                 /\ page.heard = pages[p].heard
  BY <1>1 DEF PageRecord, PageStages
<1>3. /\ after \in [Page -> PageRecord]
      /\ \A p \in Page : /\ after[p].audio = pages[p].audio /\ after[p].heard = pages[p].heard
                         /\ taken(p) => after[p].stage = "lost"
                         /\ ~taken(p) => after[p] = pages[p]
  BY <1>1, <1>2
<1>4. pages' = after /\ UNCHANGED <<libraryVars, out, current, log, shared>>
      /\ cut' = cut \cup {w \in Wav : Writers(w) # {}}
  BY DEF Crash
<1> HIDE DEF after
<1>5. PartialHasWriter'
  BY <1>4 DEF PagesIInv, PartialHasWriter
<1>6. row' \subseteq row /\ queueWav' \in Wav \cup {NoSound} /\ out' \in [Audio -> {"none", "partial", "whole"}]
  BY <1>4 DEF PagesIInv, PageTypes, libraryVars
<1>7. \A p \in Page : after[p].stage # "converting" \/ after[p] = pages[p]
  BY <1>3
<1> QED BY <1>3, <1>4, <1>5, <1>6, <1>7, PagesInterrupted

(* A file is deleted, and with it the converted one: whoever writes it       *)
(* writes to a file that is gone.                                            *)
LEMMA PagesLoseFile ==
    ASSUME PagesIInv, NEW w \in Wav, DeleteWavFile(w)
    PROVE  PagesIInv'
<1> PICK after : after = Detached(Writers(w))
  OBVIOUS
<1>1. /\ after \in [Page -> PageRecord]
      /\ \A r \in Page :
            /\ after[r].stage = pages[r].stage /\ after[r].audio = pages[r].audio
            /\ after[r].heard = pages[r].heard
            /\ after[r].attached = (pages[r].attached /\ r \notin Writers(w))
  BY DetachedPages
<1>2. pages' = after /\ UNCHANGED <<current, log, shared, cut>>
  BY DEF DeleteWavFile
<1>3. row' = row \ {w} /\ queueWav' = (IF queueWav = w THEN NoSound ELSE queueWav)
      /\ out' = [out EXCEPT ![w] = "none"]
  BY DEF DeleteWavFile
<1>4. w \in Audio /\ w # Beep
  BY PageExecutionAssumption DEF Audio
<1>5. /\ out' \in [Audio -> {"none", "partial", "whole"}]
      /\ \A a \in Audio : out'[a] = IF a = w THEN "none" ELSE out[a]
  BY <1>3, <1>4 DEF PagesIInv, PageTypes
<1>6. \A a \in Audio \ {w} : Writers(a) \subseteq Writers(a)'
  <2> SUFFICES ASSUME NEW a \in Audio \ {w}, NEW r \in Writers(a) PROVE r \in Writers(a)'
    OBVIOUS
  <2>1. r \in Page /\ r \notin Writers(w) /\ pages[r].attached /\ pages[r].stage = "converting"
        /\ pages[r].audio = a
    BY DEF Writers
  <2> QED BY <1>1, <1>2, <2>1 DEF Writers
<1>7. PartialHasWriter'
  BY <1>2, <1>5, <1>6 DEF PagesIInv, PartialHasWriter, Audio
<1>8. \A r \in Page : pages[r].audio = Beep => after[r].attached = pages[r].attached
  <2>1. \A r \in Page : pages[r].attached \in BOOLEAN
    BY DEF PagesIInv, PageTypes, PageRecord
  <2>2. \A r \in Page : pages[r].audio = Beep => r \notin Writers(w)
    BY <1>4 DEF Writers
  <2> QED BY <1>1, <2>1, <2>2
<1>9. row' \subseteq row /\ queueWav' \in Wav \cup {NoSound}
  BY <1>3 DEF PagesIInv, PageTypes
<1> QED BY <1>1, <1>2, <1>5, <1>7, <1>8, <1>9, PagesInterrupted

-----------------------------------------------------------------------------

LEMMA PagesStep == PagesIInv /\ [PagesNext]_pageVars => PagesIInv'
<1> SUFFICES ASSUME PagesIInv, [PagesNext]_pageVars PROVE PagesIInv'
  OBVIOUS
<1>1. queueWav \in Wav \cup {NoSound} /\ row \subseteq Wav
  BY DEF PagesIInv, PageTypes
<1>2. ASSUME NEW p \in Page, PageOfQueue(p) PROVE PagesIInv'
  <2>1. PICK a \in Audio : BeginPage(p, a)
    BY <1>1, <1>2 DEF PageOfQueue, Audio
  <2> QED BY <2>1, PageBegins
<1>3. ASSUME NEW p \in Page, NEW a \in Audio, TestPage(p, a) PROVE PagesIInv'
  BY <1>3, PageBegins DEF TestPage
<1>4. ASSUME NEW p \in Page, SoxOpens(p) \/ SoxFails(p) \/ SoxEnds(p) PROVE PagesIInv'
  BY <1>4, PageConverts, PageSoxFails, PageSoxEnds
<1>5. ASSUME NEW p \in Page, NEW ok \in BOOLEAN, Originated(p, ok) PROVE PagesIInv'
  BY <1>5, PageCallAnswered
<1>6. ASSUME NEW p \in Page, Answered(p) \/ HungUp(p) PROVE PagesIInv'
  BY <1>6, PageStarts, PageHangsUp
<1>7. CASE AmiLost \/ PagerDisconnects \/ Crash
  BY <1>7, PagesLost, PagesCrash
<1>8. CASE PagerConnects
  BY <1>1, <1>8, PagesLeftAlone DEF PagerConnects, libraryVars
<1>9. ASSUME NEW w \in Wav, StoreUpload(w) \/ AddWavFile(w) PROVE PagesIInv'
  <2>1. row' \subseteq Wav /\ queueWav' \in Wav \cup {NoSound}
        /\ UNCHANGED <<out, current, pages, log, shared, cut>>
    BY <1>1, <1>9 DEF StoreUpload, AddWavFile
  <2> QED BY <2>1, PagesLeftAlone
<1>10. ASSUME NEW w \in Wav, DeleteWavFile(w) PROVE PagesIInv'
  BY <1>10, PagesLoseFile
<1>11. ASSUME NEW w \in Wav \cup {NoSound}, PutQueueWav(w) PROVE PagesIInv'
  BY <1>1, <1>11, PagesLeftAlone DEF PutQueueWav
<1>12. CASE UNCHANGED pageVars
  BY <1>1, <1>12, PagesLeftAlone DEF pageVars, libraryVars
<1> QED BY <1>2, <1>3, <1>4, <1>5, <1>6, <1>7, <1>8, <1>9, <1>10, <1>11, <1>12 DEF PagesNext

LEMMA LibraryStep ==
    PagesTypeOK /\ [PagesNext]_pageVars =>
        /\ row' \subseteq uploaded' /\ uploaded' \subseteq Wav /\ queueWav' \in row' \cup {NoSound}
        /\ deleted' \subseteq Wav /\ cut' \subseteq Wav /\ ami' \in {"none", "up", "lost"}
<1> SUFFICES ASSUME PagesTypeOK, [PagesNext]_pageVars
             PROVE  /\ row' \subseteq uploaded' /\ uploaded' \subseteq Wav /\ queueWav' \in row' \cup {NoSound}
                    /\ deleted' \subseteq Wav /\ cut' \subseteq Wav /\ ami' \in {"none", "up", "lost"}
  OBVIOUS
<1>1. /\ row \subseteq uploaded /\ uploaded \subseteq Wav /\ queueWav \in row \cup {NoSound}
      /\ deleted \subseteq Wav /\ cut \subseteq Wav /\ ami \in {"none", "up", "lost"}
  BY DEF PagesTypeOK
<1>2. ASSUME NEW p \in Page, NEW a \in Audio, BeginPage(p, a) PROVE UNCHANGED <<libraryVars, ami, cut>>
  BY <1>2 DEF BeginPage
<1>3. ASSUME NEW p \in Page, PageOfQueue(p) PROVE UNCHANGED <<libraryVars, ami, cut>>
  BY <1>1, <1>2, <1>3 DEF PageOfQueue, Audio
<1>4. ASSUME NEW p \in Page, NEW a \in Audio, TestPage(p, a) PROVE UNCHANGED <<libraryVars, ami, cut>>
  BY <1>2, <1>4 DEF TestPage
<1>5. ASSUME NEW p \in Page, NEW ok \in BOOLEAN,
             SoxOpens(p) \/ SoxFails(p) \/ SoxEnds(p) \/ Originated(p, ok) \/ Answered(p) \/ HungUp(p)
      PROVE  UNCHANGED <<libraryVars, ami, cut>>
  BY <1>5 DEF SoxOpens, SoxFails, SoxEnds, Originated, Answered, HungUp
<1>6. CASE UNCHANGED <<libraryVars, ami, cut>>
  BY <1>1, <1>6 DEF libraryVars
<1>7. CASE PagerConnects \/ AmiLost \/ PagerDisconnects
  BY <1>1, <1>7 DEF PagerConnects, AmiLost, PagerDisconnects, libraryVars
<1>8. CASE Crash
  BY <1>1, <1>8 DEF Crash, libraryVars
<1>9. ASSUME NEW w \in Wav, StoreUpload(w) \/ AddWavFile(w) \/ DeleteWavFile(w)
      PROVE  /\ row' \subseteq uploaded' /\ uploaded' \subseteq Wav /\ queueWav' \in row' \cup {NoSound}
             /\ deleted' \subseteq Wav /\ UNCHANGED <<ami, cut>>
  BY <1>1, <1>9 DEF StoreUpload, AddWavFile, DeleteWavFile
<1>10. ASSUME NEW w \in Wav \cup {NoSound}, PutQueueWav(w)
       PROVE  queueWav' \in row \cup {NoSound} /\ UNCHANGED <<row, uploaded, deleted, ami, cut>>
  BY <1>10 DEF PutQueueWav
<1>11. CASE UNCHANGED pageVars
  BY <1>6, <1>11 DEF pageVars
<1> QED BY <1>1, <1>3, <1>4, <1>5, <1>6, <1>7, <1>8, <1>9, <1>10, <1>11 DEF PagesNext

(* The types of PageExecution: every file in the table has been uploaded, and *)
(* the queue's is in the table.                                              *)
THEOREM PagesTypeCorrect == PagesSpec => []PagesTypeOK
<1>1. PagesInit => PagesTypeOK
  BY PagesInitIInv DEF PagesInit, PagesIInv, PageTypes, PageRecord, PagesTypeOK
<1>2. PagesIInv /\ PagesTypeOK /\ [PagesNext]_pageVars => PagesTypeOK'
  <2> SUFFICES ASSUME PagesIInv, PagesTypeOK, [PagesNext]_pageVars PROVE PagesTypeOK'
    OBVIOUS
  <2>1. PageTypes'
    BY PagesStep DEF PagesIInv
  <2> QED BY <2>1, LibraryStep DEF PageTypes, PageRecord, PagesTypeOK
<1> QED BY <1>1, <1>2, PagesInitIInv, PagesStep, PTL DEF PagesSpec

(* PageIsLoggedOnce of PageExecution, for any number of pages, sounds and    *)
(* files: every page that comes to an end the auto-pager learns of has one   *)
(* entry in the page log and no page has two.                                *)
THEOREM PageHasOneEntry == PagesSpec => []PageIsLoggedOnce
<1>1. PagesIInv => PageIsLoggedOnce
  BY DEF PagesIInv
<1> QED BY PagesInitIInv, PagesStep, <1>1, PTL DEF PagesSpec

(* LonePageIsHeardWhole of PageExecution: a page that met no other plays its *)
(* own sound and all of it, with uploads, deletions, lost connections and    *)
(* restarts at any moment, unless a crash cut the conversion of it off.      *)
THEOREM LonePagePlaysItsSound == PagesSpec => []LonePageIsHeardWhole
<1>1. PagesIInv => LonePageIsHeardWhole
  BY DEF PagesIInv
<1> QED BY PagesInitIInv, PagesStep, <1>1, PTL DEF PagesSpec

-----------------------------------------------------------------------------
(***************************************************************************)
(* TaskLoop: the agent's report of being busy.                             *)
(***************************************************************************)

(* A task that has not run beside another is the only one that runs.         *)
Alone == \A t \in Processing \ mixed : \A u \in Processing : u = t

BusyIfProcessing == mixed = {} => busy = (Processing # {})

(* How far a task has come, what it found and what it reported.              *)
FoundThenReported(t) ==
    /\ t \in verified => runs[t].step \in {"reporting", "failing", "done"}
    /\ runs[t].step = "reporting" => t \in verified
    /\ result[t] = "success" => t \in verified

(* The files a task has looked for are as it wants them, and stay so until   *)
(* its report is out.                                                        *)
FilesFound(t) ==
    /\ runs[t].step = "verifying" =>
          /\ runs[t].kind = "deploy_sso" => File \ runs[t].todo \subseteq files
          /\ runs[t].kind = "remove_sso" => files \subseteq runs[t].todo
    /\ t \in verified /\ runs[t].step \in {"reporting", "failing"} =>
          /\ runs[t].kind = "deploy_sso" => files = File
          /\ runs[t].kind = "remove_sso" => files = {}

TasksIInv ==
    /\ TaskTypeOK /\ Alone /\ BusyIfProcessing
    /\ \A t \in Task : FoundThenReported(t)
    /\ \A t \in Processing \ mixed : FilesFound(t)

(* A step of a task that runs, from SSH to the report.                       *)
RunStep(t) ==
    \/ \E some \in BOOLEAN : Connected(t, some)
    \/ \E f \in File : ChangeFile(t, f)
    \/ \E f \in File : VerifyFile(t, f)
    \/ \E status \in Status : RunScript(t, status)
    \/ VerifyInstalled(t) \/ VerifyRemoved(t) \/ StepFails(t)
    \/ \E told, ok \in BOOLEAN : ReportSuccess(t, told, ok)
    \/ \E told \in BOOLEAN : ReportFailure(t, told)

LEMMA TasksSteps ==
    ASSUME TaskNext
    PROVE  \/ Poll \/ NoTask \/ AgentRestarts
           \/ \E t \in Task : TakeTask(t) \/ RunStep(t)
           \/ \E status \in Status : ServiceChanges(status)
BY DEF TaskNext, RunStep

-----------------------------------------------------------------------------
(* Types.                                                                    *)

LEMMA RunStepType ==
    ASSUME TaskTypeOK, NEW t \in Task, RunStep(t)
    PROVE  TaskTypeOK'
<1> USE DEF TaskTypeOK, Run, Step, Reaches
<1>1. ASSUME NEW some \in BOOLEAN, Connected(t, some) PROVE TaskTypeOK'
  <2>1. \E step \in {"failing", "changing"}, todo \in SUBSET File :
           runs' = [runs EXCEPT ![t].step = step, ![t].todo = todo]
    <3>1. CASE runs[t].kind \in {"deploy_sso", "remove_sso"} /\ some
      BY <1>1, <3>1, Zenon DEF Connected
    <3>2. CASE runs[t].kind \in {"deploy_sso", "remove_sso"} /\ ~some
      BY <1>1, <3>2, Zenon DEF Connected
    <3>3. CASE runs[t].kind \notin {"deploy_sso", "remove_sso"}
      BY <1>1, <3>3, Zenon DEF Connected
    <3> QED BY <3>1, <3>2, <3>3
  <2>2. PICK step \in {"failing", "changing"}, todo \in SUBSET File :
           runs' = [runs EXCEPT ![t].step = step, ![t].todo = todo]
    BY <2>1
  <2>3. runs' \in [Task -> Run]
    BY <2>2
  <2> QED BY <1>1, <2>3, Zenon DEF Connected
<1>2. ASSUME NEW f \in File, ChangeFile(t, f) PROVE TaskTypeOK'
  BY <1>2 DEF ChangeFile
<1>3. ASSUME NEW f \in File, VerifyFile(t, f) PROVE TaskTypeOK'
  BY <1>3 DEF VerifyFile
<1>4. ASSUME NEW status \in Status, RunScript(t, status) PROVE TaskTypeOK'
  BY <1>4 DEF RunScript
<1>5. CASE VerifyInstalled(t) \/ VerifyRemoved(t)
  BY <1>5 DEF VerifyInstalled, VerifyRemoved
<1>6. CASE StepFails(t)
  BY <1>6 DEF StepFails
<1>7. ASSUME NEW told \in BOOLEAN, NEW ok \in BOOLEAN, ReportSuccess(t, told, ok) PROVE TaskTypeOK'
  BY <1>7 DEF ReportSuccess, Done
<1>8. ASSUME NEW told \in BOOLEAN, ReportFailure(t, told) PROVE TaskTypeOK'
  BY <1>8 DEF ReportFailure, Done
<1> QED BY <1>1, <1>2, <1>3, <1>4, <1>5, <1>6, <1>7, <1>8 DEF RunStep

LEMMA TasksStepType ==
    ASSUME TaskTypeOK, [TaskNext]_taskVars
    PROVE  TaskTypeOK'
<1> USE DEF TaskTypeOK
<1>1. CASE Poll \/ NoTask
  BY <1>1 DEF Poll, NoTask
<1>2. CASE AgentRestarts
  <2>1. runs' \in [Task -> Run]
    BY <1>2 DEF AgentRestarts, Run, Step
  <2>2. asking' \in 0..2
    BY <1>2 DEF AgentRestarts
  <2> QED BY <1>2, <2>1, <2>2, Zenon DEF AgentRestarts
<1>3. ASSUME NEW t \in Task, TakeTask(t) PROVE TaskTypeOK'
  BY <1>3 DEF TakeTask, Reaches, Run, Step, Processing
<1>4. ASSUME NEW t \in Task, RunStep(t) PROVE TaskTypeOK'
  BY <1>4, RunStepType
<1>5. ASSUME NEW status \in Status, ServiceChanges(status) PROVE TaskTypeOK'
  BY <1>5 DEF ServiceChanges
<1>6. CASE UNCHANGED taskVars
  BY <1>6 DEF taskVars
<1> QED BY <1>1, <1>2, <1>3, <1>4, <1>5, <1>6, TasksSteps

-----------------------------------------------------------------------------
(* The steps of a task that runs.                                            *)

(* Only that task moves; the flag is cleared when, and only when, it ends.   *)
LEMMA RunStepFrame ==
    ASSUME TaskTypeOK, NEW t \in Task, RunStep(t)
    PROVE  /\ t \in Processing /\ mixed' = mixed
           /\ \A u \in Task \ {t} : /\ runs'[u] = runs[u] /\ result'[u] = result[u]
                                    /\ u \in verified' <=> u \in verified
           /\ runs'[t].kind = runs[t].kind
           /\ runs'[t].step # "new"
           /\ runs'[t].step = "done" => busy' = FALSE
           /\ runs'[t].step # "done" => busy' = busy
<1> DEFINE Framed == 
           /\ t \in Processing /\ mixed' = mixed
           /\ \A u \in Task \ {t} : /\ runs'[u] = runs[u] /\ result'[u] = result[u]
                                    /\ u \in verified' <=> u \in verified
           /\ runs'[t].kind = runs[t].kind
           /\ runs'[t].step # "new"
           /\ runs'[t].step = "done" => busy' = FALSE
           /\ runs'[t].step # "done" => busy' = busy
<1> USE DEF TaskTypeOK, Run, Step, Reaches, Processing
<1>1. ASSUME NEW some \in BOOLEAN, Connected(t, some) PROVE Framed
  BY <1>1 DEF Connected
<1>2. ASSUME NEW f \in File, ChangeFile(t, f) PROVE Framed
  BY <1>2 DEF ChangeFile
<1>3. ASSUME NEW f \in File, VerifyFile(t, f) PROVE Framed
  BY <1>3 DEF VerifyFile
<1>4. ASSUME NEW status \in Status, RunScript(t, status) PROVE Framed
  BY <1>4 DEF RunScript
<1>5. CASE VerifyInstalled(t) \/ VerifyRemoved(t)
  BY <1>5 DEF VerifyInstalled, VerifyRemoved
<1>6. CASE StepFails(t)
  BY <1>6 DEF StepFails
<1>7. ASSUME NEW told \in BOOLEAN, NEW ok \in BOOLEAN, ReportSuccess(t, told, ok) PROVE Framed
  BY <1>7 DEF ReportSuccess, Done
<1>8. ASSUME NEW told \in BOOLEAN, ReportFailure(t, told) PROVE Framed
  BY <1>8 DEF ReportFailure, Done
<1> QED BY <1>1, <1>2, <1>3, <1>4, <1>5, <1>6, <1>7, <1>8 DEF RunStep

(* It reports what it found, and finds what the files are.                   *)
LEMMA RunStepFinds ==
    ASSUME TaskTypeOK, NEW t \in Task, RunStep(t), FoundThenReported(t)
    PROVE  /\ FoundThenReported(t)'
           /\ FilesFound(t) => FilesFound(t)'
<1> DEFINE Finds == FoundThenReported(t)' /\ (FilesFound(t) => FilesFound(t)')
<1> USE DEF TaskTypeOK, Run, Step, Reaches, FoundThenReported, FilesFound
<1>1. ASSUME NEW some \in BOOLEAN, Connected(t, some) PROVE Finds
  BY <1>1 DEF Connected
<1>2. ASSUME NEW f \in File, ChangeFile(t, f) PROVE Finds
  BY <1>2 DEF ChangeFile
<1>3. ASSUME NEW f \in File, VerifyFile(t, f) PROVE Finds
  BY <1>3 DEF VerifyFile
<1>4. ASSUME NEW status \in Status, RunScript(t, status) PROVE Finds
  BY <1>4 DEF RunScript
<1>5. CASE VerifyInstalled(t) \/ VerifyRemoved(t)
  BY <1>5 DEF VerifyInstalled, VerifyRemoved
<1>6. CASE StepFails(t)
  BY <1>6 DEF StepFails
<1>7. ASSUME NEW told \in BOOLEAN, NEW ok \in BOOLEAN, ReportSuccess(t, told, ok) PROVE Finds
  BY <1>7 DEF ReportSuccess, Done
<1>8. ASSUME NEW told \in BOOLEAN, ReportFailure(t, told) PROVE Finds
  BY <1>8 DEF ReportFailure, Done
<1> QED BY <1>1, <1>2, <1>3, <1>4, <1>5, <1>6, <1>7, <1>8 DEF RunStep

LEMMA RunStepKeeps ==
    ASSUME TasksIInv, NEW t \in Task, RunStep(t)
    PROVE  TasksIInv'
<1>1. TaskTypeOK /\ TaskTypeOK'
  BY RunStepType DEF TasksIInv
<1>2. /\ t \in Processing /\ mixed' = mixed
      /\ \A u \in Task \ {t} : /\ runs'[u] = runs[u] /\ result'[u] = result[u]
                               /\ u \in verified' <=> u \in verified
      /\ runs'[t].step # "new"
      /\ runs'[t].step = "done" => busy' = FALSE
      /\ runs'[t].step # "done" => busy' = busy
  BY <1>1, RunStepFrame
<1>3. Processing' = IF runs'[t].step = "done" THEN Processing \ {t} ELSE Processing
  BY <1>2 DEF Processing
<1>4. Alone'
  BY <1>2, <1>3 DEF TasksIInv, Alone
<1>5. BusyIfProcessing'
  <2> SUFFICES ASSUME mixed = {} PROVE busy' = (Processing' # {})
    BY <1>2 DEF BusyIfProcessing
  <2>1. Processing = {t} /\ busy = TRUE
    BY <1>2 DEF TasksIInv, Alone, BusyIfProcessing
  <2>2. CASE runs'[t].step = "done"
    BY <1>2, <1>3, <2>1, <2>2
  <2>3. CASE runs'[t].step # "done"
    BY <1>2, <1>3, <2>1, <2>3
  <2> QED BY <2>2, <2>3
<1>6. \A u \in Task : FoundThenReported(u)'
  <2>1. FoundThenReported(t)'
    BY <1>1, RunStepFinds DEF TasksIInv
  <2>2. \A u \in Task \ {t} : FoundThenReported(u)'
    BY <1>2 DEF TasksIInv, FoundThenReported
  <2> QED BY <2>1, <2>2
<1>7. \A u \in Processing' \ mixed' : FilesFound(u)'
  <2> SUFFICES ASSUME NEW u \in Processing' \ mixed' PROVE FilesFound(u)'
    OBVIOUS
  <2>1. u = t
    BY <1>2, <1>3 DEF TasksIInv, Alone
  <2>2. FilesFound(t)
    BY <1>2, <2>1 DEF TasksIInv
  <2> QED BY <1>1, <2>1, <2>2, RunStepFinds DEF TasksIInv
<1> QED BY <1>1, <1>4, <1>5, <1>6, <1>7 DEF TasksIInv

-----------------------------------------------------------------------------
(* The other steps.                                                          *)

(* A task that is taken runs alone, or all that run are mixed from now on.   *)
LEMMA TakeTaskKeeps ==
    ASSUME TasksIInv, NEW t \in Task, TakeTask(t)
    PROVE  TasksIInv'
<1>1. TaskTypeOK'
  BY TasksStepType DEF TasksIInv, TaskNext
<1>2. /\ t \notin Processing /\ t \notin verified /\ runs[t].step = "new"
      /\ runs'[t].step \in {"failing", "connecting"} /\ busy' = TRUE
      /\ \A u \in Task \ {t} : runs'[u] = runs[u]
      /\ files' = files /\ result' = result /\ verified' = verified
  BY DEF TasksIInv, TaskTypeOK, FoundThenReported, TakeTask, Reaches, Processing, Run
<1>3. Processing' = Processing \cup {t}
  BY <1>2 DEF Processing
<1>4. \/ Processing' = {t} /\ mixed' = mixed
      \/ Processing' \ mixed' = {} /\ mixed' # {}
  BY <1>3 DEF TakeTask
<1>5. Alone' /\ BusyIfProcessing'
  BY <1>2, <1>3, <1>4 DEF Alone, BusyIfProcessing
<1>6. \A u \in Task : FoundThenReported(u)'
  BY <1>2 DEF TasksIInv, FoundThenReported
<1>7. \A u \in Processing' \ mixed' : FilesFound(u)'
  <2>1. FilesFound(t)'
    BY <1>2 DEF FilesFound
  <2> QED BY <1>4, <2>1
<1> QED BY <1>1, <1>5, <1>6, <1>7 DEF TasksIInv

(* A restart leaves nothing running.                                         *)
LEMMA RestartKeeps ==
    ASSUME TasksIInv, AgentRestarts
    PROVE  TasksIInv'
<1>1. TaskTypeOK'
  BY TasksStepType DEF TasksIInv, TaskNext
<1>2. Processing' = {} /\ busy' = FALSE
  BY DEF TasksIInv, TaskTypeOK, AgentRestarts, Processing, Run
<1>3. Alone' /\ BusyIfProcessing'
  BY <1>2 DEF Alone, BusyIfProcessing
<1>4. ASSUME NEW u \in Task PROVE FoundThenReported(u)'
  <2>1. runs'[u].step = IF u \in Processing THEN "done" ELSE runs[u].step
    BY DEF TasksIInv, TaskTypeOK, AgentRestarts, Run
  <2> QED BY <2>1 DEF TasksIInv, FoundThenReported, AgentRestarts
<1> QED BY <1>1, <1>2, <1>3, <1>4 DEF TasksIInv

LEMMA TasksStep ==
    ASSUME TasksIInv, [TaskNext]_taskVars
    PROVE  TasksIInv'
<1>1. CASE AgentRestarts
  BY <1>1, RestartKeeps
<1>2. ASSUME NEW t \in Task, TakeTask(t) PROVE TasksIInv'
  BY <1>2, TakeTaskKeeps
<1>3. ASSUME NEW t \in Task, RunStep(t) PROVE TasksIInv'
  BY <1>3, RunStepKeeps
<1>4. CASE Poll \/ NoTask \/ (\E status \in Status : ServiceChanges(status)) \/ UNCHANGED taskVars
  <2>1. TaskTypeOK'
    BY TasksStepType DEF TasksIInv
  <2>2. UNCHANGED <<busy, runs, files, result, verified, mixed>>
    BY <1>4 DEF Poll, NoTask, ServiceChanges, taskVars
  <2>3. Processing' = Processing
    BY <2>2 DEF Processing
  <2>4. Alone' /\ BusyIfProcessing'
    BY <2>2, <2>3 DEF TasksIInv, Alone, BusyIfProcessing
  <2>5. \A t \in Task : FoundThenReported(t)'
    BY <2>2 DEF TasksIInv, FoundThenReported
  <2>6. \A t \in Processing' \ mixed' : FilesFound(t)'
    BY <2>2, <2>3 DEF TasksIInv, FilesFound
  <2> QED BY <2>1, <2>4, <2>5, <2>6 DEF TasksIInv
<1> QED BY <1>1, <1>2, <1>3, <1>4, TasksSteps

LEMMA TasksInitIInv == TaskInit => TasksIInv
<1> SUFFICES ASSUME TaskInit PROVE TasksIInv
  OBVIOUS
<1>1. \A t \in Task : runs[t].step = "new" /\ result[t] = "none"
  BY DEF TaskInit
<1>2. TaskTypeOK
  <2>1. runs \in [Task -> Run]
    BY TaskLoopAssumption DEF TaskInit, Run, Step
  <2>2. result \in [Task -> {"none", "success", "failure"}]
    BY DEF TaskInit
  <2>3. asking \in 0..2 /\ files \subseteq File
    BY DEF TaskInit
  <2> QED BY <2>1, <2>2, <2>3, Zenon DEF TaskInit, TaskTypeOK, Status
<1>3. Processing = {}
  BY <1>1 DEF Processing
<1>4. Alone /\ BusyIfProcessing
  BY <1>3 DEF TaskInit, Alone, BusyIfProcessing
<1>5. \A t \in Task : FoundThenReported(t)
  BY <1>1 DEF TaskInit, FoundThenReported
<1> QED BY <1>2, <1>3, <1>4, <1>5 DEF TasksIInv

-----------------------------------------------------------------------------

LEMMA IInvImplies == TasksIInv => BusyWhileProcessing /\ ReportedAsVerified
<1> SUFFICES ASSUME TasksIInv PROVE BusyWhileProcessing /\ ReportedAsVerified
  OBVIOUS
<1>1. ASSUME mixed = {} PROVE busy = (Processing # {}) /\ Cardinality(Processing) <= 1
  <2>1. CASE Processing = {}
    <3>1. Cardinality(Processing) = 0
      BY <2>1, FS_EmptySet
    <3> QED BY <1>1, <3>1 DEF TasksIInv, BusyIfProcessing
  <2>2. ASSUME NEW t \in Processing PROVE Cardinality(Processing) = 1
    <3>1. Processing = {t}
      BY <1>1, <2>2 DEF TasksIInv, Alone
    <3> QED BY <3>1, FS_Singleton
  <2> QED BY <1>1, <2>1, <2>2 DEF TasksIInv, BusyIfProcessing
<1>2. ReportedAsVerified
  BY DEF TasksIInv, ReportedAsVerified, FoundThenReported, FilesFound, Processing
<1> QED BY <1>1, <1>2 DEF BusyWhileProcessing

(* The flag, the tasks and what is known of them keep their types.           *)
THEOREM TaskTypeCorrect == TaskSpec => []TaskTypeOK
<1>1. TasksIInv => TaskTypeOK
  BY DEF TasksIInv
<1>2. TasksIInv /\ [TaskNext]_taskVars => TasksIInv'
  BY TasksStep
<1> QED BY <1>1, <1>2, TasksInitIInv, PTL DEF TaskSpec

(* For any number of tasks: until two of them overlap, at most one runs and  *)
(* the flag says whether one does.                                           *)
THEOREM BusyIsTrue == TaskSpec => []BusyWhileProcessing
<1>1. TasksIInv => BusyWhileProcessing
  BY IInvImplies
<1>2. TasksIInv /\ [TaskNext]_taskVars => TasksIInv'
  BY TasksStep
<1> QED BY <1>1, <1>2, TasksInitIInv, PTL DEF TaskSpec

(* For any tasks and files: no task is reported as done that was not found   *)
(* done, and the files of one that ran alone stay as they were found until   *)
(* its report is out.                                                        *)
THEOREM ReportsAreTrue == TaskSpec => []ReportedAsVerified
<1>1. TasksIInv => ReportedAsVerified
  BY IInvImplies
<1>2. TasksIInv /\ [TaskNext]_taskVars => TasksIInv'
  BY TasksStep
<1> QED BY <1>1, <1>2, TasksInitIInv, PTL DEF TaskSpec

-----------------------------------------------------------------------------
(***************************************************************************)
(* Terminal: connections that outlive their entry.                         *)
(***************************************************************************)

Conn == [stage : SshStages, session : Session \cup {NoEntry}]

TerminalTypes == entries \in [Session -> Entry \cup {NoEntry}] /\ conns \in [Ssh -> Conn]

Alive(c) == conns[c].stage \notin {"new", "dead"}

(* An entry leads to a connection of its session; a connection that was used *)
(* belongs to a session; and a session that was never opened again early has *)
(* at most one connection that may still report.                             *)
EntryOfSession == \A s \in Session : entries[s] # NoEntry => conns[entries[s].ssh].session = s
ConnSession    == \A c \in Ssh : conns[c].stage # "new" => conns[c].session \in Session
OneAlive       == \A s \in Session \ reopened : \A c, d \in Of(s) : Alive(c) /\ Alive(d) => c = d

TerminalIInv == TerminalTypes /\ EntryOfSession /\ ConnSession /\ OneAlive /\ LiveConnectionsAreKnown

(* LiveConnectionsAreKnown, for one session.                                 *)
Known(s) ==
    /\ \A c \in Of(s) : conns[c].stage \in Live =>
         /\ entries[s] # NoEntry /\ entries[s].ssh = c
         /\ entries[s].stream = (conns[c].stage = "shell")
         /\ broker = "open"
    /\ entries[s] # NoEntry => conns[entries[s].ssh].stage \in Live \cup {"endingShell"}

LEMMA KnownSessions == LiveConnectionsAreKnown <=> \A s \in Session \ reopened : Known(s)
BY DEF LiveConnectionsAreKnown, Known

LEMMA KnownSessionsNext == (LiveConnectionsAreKnown <=> \A s \in Session \ reopened : Known(s))'
BY KnownSessions, PTL

LEMMA TerminalInitIInv == TerminalInit => TerminalIInv
<1> SUFFICES ASSUME TerminalInit PROVE TerminalIInv
  OBVIOUS
<1>1. NoConn \in Conn /\ NoConn.stage = "new" /\ NoConn.session = NoEntry
  BY DEF NoConn, Conn, SshStages
<1>2. (\A c \in Ssh : conns[c] = NoConn) /\ \A s \in Session : entries[s] = NoEntry
  BY DEF TerminalInit
<1>3. TerminalTypes
  BY <1>1 DEF TerminalInit, TerminalTypes
<1>4. \A s \in Session : Of(s) = {}
  BY <1>1, <1>2, TerminalAssumption DEF Of
<1>5. EntryOfSession /\ ConnSession /\ OneAlive
  BY <1>1, <1>2, <1>4 DEF EntryOfSession, ConnSession, OneAlive
<1>6. LiveConnectionsAreKnown
  BY <1>2, <1>4 DEF LiveConnectionsAreKnown
<1> QED BY <1>3, <1>5, <1>6 DEF TerminalIInv

(* What ssh.end() makes of a connection.                                     *)
LEMMA EndedConn ==
    ASSUME NEW conn \in Conn
    PROVE  /\ Ended(conn) \in Conn /\ Ended(conn).session = conn.session
           /\ Ended(conn).stage \in Ending \cup {"dead"}
           /\ (Ended(conn).stage = "dead") <=> (conn.stage = "dead")
<1>1. PICK stage \in Ending \cup {"dead"} :
         /\ Ended(conn) = [conn EXCEPT !.stage = stage]
         /\ (stage = "dead") <=> (conn.stage = "dead")
  <2>1. CASE conn.stage = "shell"
    BY <2>1 DEF Ended, Ending
  <2>2. CASE conn.stage = "asking"
    BY <2>2 DEF Ended, Ending
  <2>3. CASE conn.stage \in Ending \cup {"dead"}
    BY <2>3 DEF Ended, Ending
  <2>4. CASE conn.stage \notin Ending \cup {"dead", "shell", "asking"}
    BY <2>4 DEF Ended, Ending
  <2> QED BY <2>1, <2>2, <2>3, <2>4
<1> QED BY <1>1 DEF Conn, SshStages

(* The connections of entries are ended and the entries removed.             *)
LEMMA SessionsClosed ==
    ASSUME TerminalIInv, NEW ss \in SUBSET Session, CloseSessions(ss), UNCHANGED reopened,
           broker' = broker \/ ss = Session
    PROVE  TerminalIInv'
<1>1. \A c \in Ssh : conns[c] \in Conn
  BY DEF TerminalIInv, TerminalTypes
<1> DEFINE closed(c) == \E s \in ss : entries[s] # NoEntry /\ entries[s].ssh = c
<1>2. \A c \in Ssh : conns'[c] = IF closed(c) THEN Ended(conns[c]) ELSE conns[c]
  BY DEF CloseSessions
<1>3. /\ conns' \in [Ssh -> Conn]
      /\ \A c \in Ssh : /\ conns'[c].session = conns[c].session
                        /\ closed(c) => conns'[c].stage \in Ending \cup {"dead"}
                        /\ (conns'[c].stage = "dead") <=> (conns[c].stage = "dead")
                        /\ ~closed(c) => conns'[c] = conns[c]
  BY <1>1, <1>2, EndedConn DEF CloseSessions
<1>4. /\ entries' \in [Session -> Entry \cup {NoEntry}]
      /\ \A s \in Session : entries'[s] = IF s \in ss THEN NoEntry ELSE entries[s]
  BY DEF CloseSessions, TerminalIInv, TerminalTypes
<1>5. TerminalTypes'
  BY <1>3, <1>4 DEF TerminalTypes
<1>6. \A s : Of(s)' = Of(s)
  BY <1>3 DEF Of
<1>7. ASSUME NEW s \in Session, NEW c \in Of(s), s \notin ss PROVE ~closed(c)
  BY <1>7 DEF TerminalIInv, EntryOfSession, Of
<1>8. \A c \in Ssh : closed(c) => conns[c].session \in Session
  BY DEF TerminalIInv, EntryOfSession
<1>9. \A s \in Session : entries'[s] # NoEntry => entries'[s] = entries[s] /\ entries[s].ssh \in Ssh
  BY <1>4 DEF TerminalIInv, TerminalTypes, Entry
<1>10. EntryOfSession'
  BY <1>3, <1>9 DEF TerminalIInv, EntryOfSession
<1>11. ConnSession'
  BY <1>3, <1>8 DEF TerminalIInv, ConnSession
<1>12. \A c \in Ssh : closed(c) => conns'[c].stage # "new" /\ conns'[c].stage \notin Live
  BY <1>3 DEF Live, Ending
<1>13. OneAlive'
  <2>1. \A s \in Session \ reopened : \A c \in Of(s) : conns'[c].stage \notin {"new", "dead"} => Alive(c)
    <3> SUFFICES ASSUME NEW s \in Session \ reopened, NEW c \in Of(s), conns'[c].stage \notin {"new", "dead"},
                        conns[c].stage = "new"
                 PROVE  FALSE
      BY <1>3 DEF Alive, Of
    <3>1. c \in Ssh /\ conns[c].session = s /\ closed(c)
      BY <1>3 DEF Of
    <3>2. entries[s] # NoEntry /\ entries[s].ssh = c
      BY <3>1 DEF TerminalIInv, EntryOfSession
    <3> QED BY <3>2 DEF TerminalIInv, LiveConnectionsAreKnown, Live
  <2> QED BY <1>6, <2>1 DEF TerminalIInv, OneAlive, Alive
<1>14. ASSUME NEW s \in Session \ reopened PROVE Known(s)'
  <2>1. Known(s)
    BY KnownSessions DEF TerminalIInv
  <2>2. CASE s \in ss
    <3>1. \A c \in Of(s) : conns'[c].stage \notin Live
      <4> SUFFICES ASSUME NEW c \in Of(s), conns'[c].stage \in Live PROVE FALSE
        OBVIOUS
      <4>1. c \in Ssh
        BY DEF Of
      <4>2. ~closed(c) /\ conns[c].stage \in Live
        BY <1>3, <1>12, <4>1
      <4> QED BY <2>1, <2>2, <4>2 DEF Known
    <3> QED BY <1>4, <1>6, <2>2, <3>1 DEF Known
  <2>3. CASE s \notin ss
    <3>1. \A c \in Of(s) : conns'[c] = conns[c]
      BY <1>3, <1>7, <2>3 DEF Of
    <3>2. entries'[s] = entries[s] /\ broker' = broker
      BY <1>4, <2>3
    <3>3. entries[s] # NoEntry => entries[s].ssh \in Of(s)
      BY <1>4, <1>9, <3>2 DEF TerminalIInv, EntryOfSession, Of
    <3> QED BY <1>6, <2>1, <3>1, <3>2, <3>3 DEF Known
  <2> QED BY <2>2, <2>3
<1> QED BY <1>5, <1>10, <1>11, <1>13, <1>14, KnownSessionsNext DEF TerminalIInv

(* An event of a connection: the connection goes on to another stage and the *)
(* entry of its session stays, is set to it or is removed.                   *)
LEMMA ConnMoves ==
    ASSUME TerminalIInv, NEW c \in Ssh, NEW s \in Session, s = conns[c].session, NEW stage \in SshStages \ {"new"},
           Becomes(c, stage), conns[c].stage \notin {"new", "dead"},
           NEW entry \in Entry \cup {NoEntry}, entries' = [entries EXCEPT ![s] = entry],
           UNCHANGED <<broker, reopened>>,
           \/ entry = NoEntry /\ stage \notin Live
           \/ entry # NoEntry /\ entry.ssh = c /\ entry.stream = TRUE
              /\ stage \in {"shell", "endingShell"} /\ (stage = "shell" => conns[c].stage \in Live)
           \/ entry = entries[s] /\ stage = "asking" /\ conns[c].stage = "connecting"
           \/ entry = entries[s] /\ stage = "dead" /\ conns[c].stage = "ending"
    PROVE  TerminalIInv'
<1>1. conns[c] \in Conn /\ conns \in [Ssh -> Conn] /\ entries \in [Session -> Entry \cup {NoEntry}]
  BY DEF TerminalIInv, TerminalTypes
<1> DEFINE conn == [conns[c] EXCEPT !.stage = stage]
<1>2. conn \in Conn /\ conn.stage = stage /\ conn.session = s
  BY <1>1 DEF Conn
<1>3. conns' = [conns EXCEPT ![c] = conn]
  BY DEF Becomes
<1> HIDE DEF conn
<1>4. conns' \in [Ssh -> Conn] /\ \A d \in Ssh : conns'[d] = IF d = c THEN conn ELSE conns[d]
  BY <1>1, <1>2, <1>3
<1>5. /\ entries' \in [Session -> Entry \cup {NoEntry}]
      /\ \A t \in Session : entries'[t] = IF t = s THEN entry ELSE entries[t]
  BY <1>1
<1>6. \A t : Of(t)' = Of(t)
  BY <1>2, <1>4 DEF Of
<1>7. TerminalTypes'
  BY <1>4, <1>5 DEF TerminalTypes
<1>8. \A t \in Session : entries[t] # NoEntry => entries[t].ssh \in Ssh
  BY <1>1 DEF Entry
<1>9. EntryOfSession'
  BY <1>2, <1>4, <1>5, <1>8 DEF TerminalIInv, EntryOfSession
<1>10. ConnSession'
  BY <1>2, <1>4 DEF TerminalIInv, ConnSession
<1>11. OneAlive'
  BY <1>2, <1>4, <1>6 DEF TerminalIInv, OneAlive, Alive, Of
<1>12. ASSUME NEW t \in Session \ reopened PROVE Known(t)'
  <2>1. Known(t)
    BY KnownSessions DEF TerminalIInv
  <2>2. CASE t # s
    <3>1. \A d \in Of(t) : conns'[d] = conns[d]
      BY <1>4, <2>2 DEF Of
    <3>2. entries'[t] = entries[t] /\ (entries[t] # NoEntry => entries[t].ssh \in Of(t))
      BY <1>5, <1>8, <2>2 DEF TerminalIInv, EntryOfSession, Of
    <3> QED BY <1>6, <2>1, <3>1, <3>2 DEF Known
  <2>3. CASE t = s
    <3>1. c \in Of(s) /\ \A d \in Of(s) \ {c} : conns'[d] = conns[d] /\ ~Alive(d)
      BY <1>4, <2>3 DEF TerminalIInv, OneAlive, Alive, Of
    <3>2. \A d \in Of(s) \ {c} : conns'[d].stage \notin Live
      BY <3>1 DEF Alive, Live
    <3>3. entries'[s] = entry /\ conns'[c].stage = stage
      BY <1>2, <1>4, <1>5
    <3>4. CASE entry = NoEntry /\ stage \notin Live
      BY <1>6, <2>3, <3>2, <3>3, <3>4 DEF Known
    <3>5. CASE /\ entry # NoEntry /\ entry.ssh = c /\ entry.stream = TRUE
               /\ stage \in {"shell", "endingShell"} /\ (stage = "shell" => conns[c].stage \in Live)
      <4>1. CASE stage = "shell"
        <5>1. broker = "open" /\ entry.stream = (stage = "shell")
          BY <2>1, <2>3, <3>1, <3>5, <4>1 DEF Known
        <5> QED BY <1>6, <2>3, <3>2, <3>3, <3>5, <4>1, <5>1 DEF Known, Live
      <4>2. CASE stage = "endingShell"
        BY <1>6, <2>3, <3>2, <3>3, <3>5, <4>2 DEF Known, Live
      <4> QED BY <3>5, <4>1, <4>2
    <3>6. CASE entry = entries[s] /\ stage = "asking" /\ conns[c].stage = "connecting"
      <4>1. entry # NoEntry /\ entry.ssh = c /\ entry.stream = FALSE /\ broker = "open"
        BY <2>1, <2>3, <3>1, <3>6 DEF Known, Live
      <4> QED BY <1>6, <2>3, <3>2, <3>3, <3>6, <4>1 DEF Known, Live
    <3>7. CASE entry = entries[s] /\ stage = "dead" /\ conns[c].stage = "ending"
      <4>1. entry = NoEntry
        <5> SUFFICES ASSUME entry # NoEntry PROVE FALSE
          OBVIOUS
        <5>1. entry.ssh \in Of(s) /\ conns[entry.ssh].stage \in Live \cup {"endingShell"}
          BY <1>8, <2>1, <2>3, <3>7 DEF Known, TerminalIInv, EntryOfSession, Of
        <5> QED BY <3>1, <3>7, <5>1 DEF Alive, Live
      <4> QED BY <1>6, <2>3, <3>2, <3>3, <3>7, <4>1 DEF Known, Live
    <3> QED BY <3>4, <3>5, <3>6, <3>7
  <2> QED BY <2>2, <2>3
<1> QED BY <1>7, <1>9, <1>10, <1>11, <1>12, KnownSessionsNext DEF TerminalIInv

LEMMA NewEntry ==
    ASSUME NEW c \in Ssh, NEW stream \in BOOLEAN
    PROVE  LET entry == [ssh |-> c, stream |-> stream]
           IN  entry \in Entry /\ entry.ssh = c /\ entry.stream = stream
BY DEF Entry

(* A session is opened: the connection it had, if any, is ended.             *)
LEMMA SessionOpened ==
    ASSUME TerminalIInv, NEW s \in Session, NEW c \in Ssh, OpenSsh(s, c)
    PROVE  TerminalIInv'
<1> DEFINE conn == [stage |-> "connecting", session |-> s]
           entry == [ssh |-> c, stream |-> FALSE]
           closed(d) == entries[s] # NoEntry /\ entries[s].ssh = d
<1>1. (\A d \in Ssh : conns[d] \in Conn) /\ entries \in [Session -> Entry \cup {NoEntry}]
  BY DEF TerminalIInv, TerminalTypes
<1>2. conn \in Conn /\ conn.stage = "connecting" /\ conn.session = s
  BY DEF Conn, SshStages, Live
<1>3. entry \in Entry /\ entry # NoEntry /\ entry.ssh = c /\ entry.stream = FALSE
  BY NewEntry, TerminalAssumption
<1>4. conns[c].stage = "new" /\ conns[c].session = NoEntry
  BY DEF OpenSsh, NoConn
<1>5. \A d \in Ssh : conns'[d] = IF d = c THEN conn ELSE IF closed(d) THEN Ended(conns[d]) ELSE conns[d]
  BY DEF OpenSsh
<1>6. entries' = [entries EXCEPT ![s] = entry]
  BY DEF OpenSsh
<1>7. \A d \in Ssh : closed(d) => conns[d].session = s /\ d # c
  BY <1>4, TerminalAssumption DEF TerminalIInv, EntryOfSession
<1>8. /\ broker = "open" /\ broker' = "open" /\ reopened \subseteq reopened'
      /\ s \notin reopened' => s \notin reopened /\ \A d \in Of(s) : conns[d].stage = "dead"
      /\ \A t \in Session : t \notin reopened' => t \notin reopened
  BY DEF OpenSsh
<1> HIDE DEF conn, entry
<1>9. /\ conns' \in [Ssh -> Conn] /\ conns'[c] = conn
      /\ \A d \in Ssh \ {c} :
            /\ conns'[d].session = conns[d].session
            /\ ~closed(d) => conns'[d] = conns[d]
            /\ closed(d) => conns'[d].stage # "new"
            /\ (conns'[d].stage = "dead") <=> (conns[d].stage = "dead")
  <2>1. \A d \in Ssh : /\ Ended(conns[d]) \in Conn /\ Ended(conns[d]).session = conns[d].session
                       /\ Ended(conns[d]).stage # "new"
                       /\ (Ended(conns[d]).stage = "dead") <=> (conns[d].stage = "dead")
    BY <1>1, EndedConn DEF Ending
  <2>2. \E f : conns' = [d \in Ssh |-> f[d]]
    <3>1. conns' = [d \in Ssh |-> conns'[d]]
      BY DEF OpenSsh
    <3> QED BY <3>1
  <2>3. \A d \in Ssh : conns'[d] \in Conn
    BY <1>1, <1>2, <1>5, <2>1
  <2> QED BY <1>5, <2>1, <2>2, <2>3
<1>10. /\ entries' \in [Session -> Entry \cup {NoEntry}]
       /\ \A t \in Session : entries'[t] = IF t = s THEN entry ELSE entries[t]
  BY <1>1, <1>3, <1>6
<1>11. TerminalTypes'
  BY <1>9, <1>10 DEF TerminalTypes
<1>12. (\A t \in Session \ {s} : Of(t)' = Of(t)) /\ Of(s)' = Of(s) \cup {c}
  BY <1>2, <1>4, <1>9, TerminalAssumption DEF Of
<1>13. \A t \in Session : entries[t] # NoEntry => entries[t].ssh \in Of(t)
  BY <1>1 DEF TerminalIInv, EntryOfSession, Of, Entry
<1>14. EntryOfSession'
  <2> SUFFICES ASSUME NEW t \in Session, entries'[t] # NoEntry PROVE conns'[entries'[t].ssh].session = t
    BY DEF EntryOfSession
  <2>1. CASE t = s
    BY <1>2, <1>3, <1>9, <1>10, <2>1
  <2>2. CASE t # s
    <3>1. entries'[t] = entries[t] /\ entries[t].ssh \in Of(t)
      BY <1>10, <1>13, <2>2
    <3>2. entries[t].ssh \in Ssh \ {c}
      BY <1>4, <3>1, TerminalAssumption DEF Of
    <3> QED BY <1>9, <3>1, <3>2 DEF Of
  <2> QED BY <2>1, <2>2
<1>15. ConnSession'
  <2> SUFFICES ASSUME NEW d \in Ssh, conns'[d].stage # "new" PROVE conns'[d].session \in Session
    BY DEF ConnSession
  <2> QED BY <1>2, <1>7, <1>9 DEF TerminalIInv, ConnSession
<1>16. ASSUME NEW t \in Session \ {s}, NEW d \in Of(t)
       PROVE  d \in Ssh /\ d # c /\ conns'[d] = conns[d]
  BY <1>4, <1>7, <1>9, TerminalAssumption DEF Of
<1>17. ASSUME s \notin reopened', NEW d \in Of(s)
       PROVE  d \in Ssh /\ d # c /\ conns'[d].stage = "dead"
  BY <1>4, <1>8, <1>9, <1>17, TerminalAssumption DEF Of
<1>18. OneAlive'
  <2> SUFFICES ASSUME NEW t \in Session, t \notin reopened', NEW d \in Of(t)', NEW e \in Of(t)',
                      conns'[d].stage \notin {"new", "dead"}, conns'[e].stage \notin {"new", "dead"}
               PROVE  d = e
    BY DEF OneAlive, Alive
  <2>1. CASE t = s
    BY <1>12, <1>17, <2>1
  <2>2. CASE t # s
    BY <1>8, <1>12, <1>16, <2>2 DEF TerminalIInv, OneAlive, Alive
  <2> QED BY <2>1, <2>2
<1>19. ASSUME NEW t \in Session, t \notin reopened' PROVE Known(t)'
  <2>1. Known(t)
    BY <1>8, <1>19, KnownSessions DEF TerminalIInv
  <2>2. CASE t = s
    <3>1. \A d \in Of(s) : d # c /\ conns'[d].stage \notin Live
      BY <1>17, <1>19, <2>2 DEF Live
    <3>2. entries'[s] = entry /\ conns'[c].stage = "connecting" /\ "connecting" \in Live
      BY <1>2, <1>9, <1>10 DEF Live
    <3> QED BY <1>3, <1>8, <1>12, <2>2, <3>1, <3>2 DEF Known
  <2>3. CASE t # s
    BY <1>8, <1>10, <1>12, <1>13, <1>16, <2>1, <2>3 DEF Known
  <2> QED BY <2>2, <2>3
<1> QED BY <1>11, <1>14, <1>15, <1>18, <1>19, KnownSessionsNext DEF TerminalIInv

LEMMA TerminalStep == TerminalIInv /\ [TerminalNext]_terminalVars => TerminalIInv'
<1> SUFFICES ASSUME TerminalIInv, [TerminalNext]_terminalVars PROVE TerminalIInv'
  OBVIOUS
<1>1. CASE UNCHANGED <<broker, entries, conns, reopened>>
  BY <1>1 DEF TerminalIInv, TerminalTypes, EntryOfSession, ConnSession, OneAlive, Alive, Of,
              LiveConnectionsAreKnown
<1>2. CASE TimerFires \/ BrokerOpens
  <2>1. \A s \in Session : Of(s)' = Of(s)
    BY <1>2 DEF Of, TimerFires, BrokerOpens
  <2>2. UNCHANGED <<entries, conns, reopened>> /\ (broker = "open" => broker' = "open")
    BY <1>2 DEF TimerFires, BrokerOpens
  <2>3. \A s \in Session \ reopened : Known(s)'
    BY <2>1, <2>2, KnownSessions DEF TerminalIInv, Known
  <2> QED BY <2>1, <2>2, <2>3, KnownSessionsNext
          DEF TerminalIInv, TerminalTypes, EntryOfSession, ConnSession, OneAlive, Alive
<1>3. CASE BrokerCloses
  BY <1>3, SessionsClosed DEF BrokerCloses
<1>4. ASSUME NEW s \in Session, CloseSsh(s) PROVE TerminalIInv'
  BY <1>4, SessionsClosed DEF CloseSsh
<1>5. ASSUME NEW s \in Session, NEW c \in Ssh, OpenSsh(s, c) PROVE TerminalIInv'
  BY <1>5, SessionOpened
<1>6. ASSUME NEW c \in Ssh,
             Ready(c) \/ ShellOpens(c) \/ ShellRefused(c) \/ ShellCloses(c) \/ SshError(c) \/ SshGone(c)
      PROVE  TerminalIInv'
  <2> PICK s : s = conns[c].session
    OBVIOUS
  <2>1. conns[c].stage \notin {"new", "dead"} /\ UNCHANGED <<broker, reopened>>
    BY <1>6 DEF Ready, ShellOpens, ShellRefused, ShellCloses, SshError, SshGone, Live
  <2>2. s \in Session
    BY <2>1 DEF TerminalIInv, ConnSession
  <2>3. entries \in [Session -> Entry \cup {NoEntry}]
    BY DEF TerminalIInv, TerminalTypes
  <2>4. /\ {"asking", "shell", "idle", "dead", "endingShell"} \subseteq SshStages \ {"new"}
        /\ {"idle", "dead"} \cap Live = {} /\ "asking" \in Live
    BY DEF SshStages, Live, Ending
  <2>5. CASE Ready(c) \/ SshGone(c)
    <3>0. PICK stage \in {"asking", "dead"} :
           /\ Becomes(c, stage) /\ entries' = entries
           /\ \/ stage = "asking" /\ conns[c].stage = "connecting"
              \/ stage = "dead" /\ conns[c].stage = "ending"
      BY <2>5 DEF Ready, SshGone
    <3> PICK entry \in Entry \cup {NoEntry} : entry = entries[s]
      BY <2>2, <2>3
    <3>1. entries' = [entries EXCEPT ![s] = entry]
      BY <2>3, <3>0
    <3>2. stage \in SshStages \ {"new"}
      BY <2>4
    <3> QED BY <2>1, <2>2, <3>0, <3>1, <3>2, ConnMoves
  <2>6. CASE ShellOpens(c)
    <3> PICK stage \in {"shell", "endingShell"} :
           stage = (IF conns[c].stage = "asking" THEN "shell" ELSE "endingShell")
      OBVIOUS
    <3> PICK entry \in Entry : /\ entry = [ssh |-> c, stream |-> TRUE] /\ entry.ssh = c
                               /\ entry.stream = TRUE
      BY NewEntry
    <3>1. Becomes(c, stage) /\ entries' = [entries EXCEPT ![s] = entry] /\ entry # NoEntry
      BY <2>6, TerminalAssumption DEF ShellOpens
    <3>2. stage \in SshStages \ {"new"}
      BY <2>4
    <3>3. (stage = "shell" => conns[c].stage \in Live)
      BY <2>4 DEF ShellOpens
    <3> QED BY <2>1, <2>2, <3>1, <3>2, <3>3, ConnMoves
  <2>7. CASE ShellRefused(c) \/ ShellCloses(c) \/ SshError(c)
    <3> PICK stage \in {"idle", "dead"} :
           Becomes(c, stage) /\ entries' = [entries EXCEPT ![s] = NoEntry]
      BY <2>7 DEF ShellRefused, ShellCloses, SshError, ForgetEntry
    <3>1. stage \in SshStages \ {"new"} /\ stage \notin Live
      BY <2>4
    <3> QED BY <2>1, <2>2, <3>1, ConnMoves
  <2> QED BY <1>6, <2>5, <2>6, <2>7
<1> QED BY <1>1, <1>2, <1>3, <1>4, <1>5, <1>6 DEF TerminalNext, terminalVars

LEMMA TerminalTypeStep ==
    TerminalIInv /\ TerminalTypeOK /\ [TerminalNext]_terminalVars => TerminalTypeOK'
<1> SUFFICES ASSUME TerminalIInv, TerminalTypeOK, [TerminalNext]_terminalVars PROVE TerminalTypeOK'
  OBVIOUS
<1>1. TerminalTypes'
  BY TerminalStep DEF TerminalIInv
<1>2. broker' \in {"none", "connecting", "open"} /\ timer' \in {"none", "set"} /\ reopened' \subseteq Session
  <2>1. CASE UNCHANGED <<broker, timer, reopened>>
    BY <2>1 DEF TerminalTypeOK
  <2>2. CASE TimerFires \/ BrokerOpens \/ BrokerCloses
    BY <2>2 DEF TerminalTypeOK, TimerFires, BrokerOpens, BrokerCloses
  <2>3. ASSUME NEW s \in Session, NEW c \in Ssh, OpenSsh(s, c)
        PROVE  UNCHANGED <<broker, timer>> /\ reopened' \subseteq Session
    BY <2>3 DEF TerminalTypeOK, OpenSsh
  <2> QED BY <2>1, <2>2, <2>3 DEF TerminalTypeOK, TerminalNext, terminalVars, CloseSsh, Ready, ShellOpens,
                                  ShellRefused, ShellCloses, SshError, SshGone
<1> QED BY <1>1, <1>2 DEF TerminalTypes, TerminalTypeOK, Conn

(* The types of Terminal: every entry is one of a connection.                *)
THEOREM TerminalTypeCorrect == TerminalSpec => []TerminalTypeOK
<1>1. TerminalInit => TerminalTypeOK
  BY TerminalInitIInv DEF TerminalInit, TerminalIInv, TerminalTypes, TerminalTypeOK, Conn
<1> QED BY <1>1, TerminalInitIInv, TerminalStep, TerminalTypeStep, PTL DEF TerminalSpec

(* LiveConnectionsAreKnown of Terminal, for any number of sessions and       *)
(* connections: a live SSH connection is the entry of its session, and ends  *)
(* with the connection to the command center, unless the session was opened  *)
(* again while an earlier connection could still report.                     *)
THEOREM TerminalKeepsItsConnections == TerminalSpec => []LiveConnectionsAreKnown
<1>1. TerminalIInv => LiveConnectionsAreKnown
  BY DEF TerminalIInv
<1> QED BY TerminalInitIInv, TerminalStep, <1>1, PTL DEF TerminalSpec
=============================================================================
