----------------------- MODULE WallboardServerProofs ------------------------
(***************************************************************************)
(* Theorems about the wallboard's server and what uses it: its tables and jobs, *)
(* the membership of queues, the client of the phone system, the browser's *)
(* hooks and its pages; for any users, queues, values and number of requests. *)
(***************************************************************************)
EXTENDS WallboardServer, QueueMembership, BrowserClient, PhoneClient,
        ThresholdsPage, Preferences, SettingsPage, FiniteSetTheorems,
        WellFoundedInduction, TLAPS

-----------------------------------------------------------------------------
(***************************************************************************)
(* WallboardServer: the order of the queues, the setup and the last admin. *)
(***************************************************************************)

(* A set of naturals below a bound, with -1 perhaps, has a largest element.  *)
LEMMA MaxOfBounded ==
    ASSUME NEW S \in SUBSET (Nat \cup {-1}), S # {}, NEW bound \in Nat, \A x \in S : x <= bound
    PROVE  Max(S) \in S /\ \A x \in S : x <= Max(S)
<1> DEFINE T == {bound - x : x \in S}
<1>1. T \subseteq Nat /\ T # {}
  <2>1. \A x \in S : bound - x \in Nat
    OBVIOUS
  <2> QED BY <2>1
<1>2. PICK m \in T : \A y \in T : ~ (<<y, m>> \in OpToRel(<, Nat))
  BY <1>1, NatLessThanWellFounded, WFMin
<1>3. \A y \in T : m <= y
  <2> SUFFICES ASSUME NEW y \in T PROVE m <= y
    OBVIOUS
  <2>1. m \in Nat /\ y \in Nat
    BY <1>1
  <2>2. <<y, m>> \notin {ss \in Nat \X Nat : ss[1] < ss[2]}
    BY <1>2 DEF OpToRel
  <2>3. ~ (y < m)
    BY <2>1, <2>2
  <2> QED BY <2>1, <2>3
<1>4. PICK x \in S : m = bound - x
  OBVIOUS
<1>5. \A y \in S : x >= y
  BY <1>3, <1>4
<1>6. Max(S) \in S /\ \A y \in S : Max(S) >= y
  BY <1>5 DEF Max
<1> QED BY <1>6

(* Rows with places of their own below a number are no more than that.       *)
LEMMA PlacesAreEnough ==
    ASSUME NEW R, IsFiniteSet(R), NEW n \in Nat, NEW place \in [R -> Nat],
           \A p, q \in R : p # q => place[p] # place[q],
           \A q \in R : place[q] < n
    PROVE  Cardinality(R) <= n
<1>1. IsFiniteSet(0..n-1) /\ Cardinality(0..n-1) = n
  BY FS_Interval
<1>2. place \in [R -> 0..n-1]
  OBVIOUS
<1>3. ~ (Cardinality(0..n-1) < Cardinality(R))
  BY <1>1, <1>2, FS_PigeonHole
<1>4. Cardinality(R) \in Nat
  BY FS_CardinalityType
<1> QED BY <1>1, <1>3, <1>4

-----------------------------------------------------------------------------

Session == [user : Extension \cup {None}, live : BOOLEAN]
Job == [stage : Stages, user : Extension \cup {None}, owner : Extension \cup {None},
        queues : SUBSET PbxQueue, next : Nat]

ServerTypes ==
    /\ owner \in Extension \cup {None}
    /\ role \in [Extension -> {"USER", "ADMIN", None}]
    /\ session \in [Browser -> Session]
    /\ job \in [Browser -> Job]
    /\ order \in [PbxQueue -> Nat \cup {None}]
    /\ listed \in [Browser -> SUBSET PbxQueue]
    /\ globals \in Nat
    /\ \E bound \in Nat : \A q \in Rows : order[q] <= bound

JobStage(b) == job[b].stage
NobodyIn == \A b \in Browser : session[b].user = None

(* Before the set-up has written the configuration there is nothing.         *)
UnconfiguredIsEmpty ==
    owner = None =>
        /\ NobodyIn /\ Rows = {} /\ globals = 0
        /\ \A e \in Extension : role[e] = None
        /\ \A b \in Browser : JobStage(b) \in {"none", "setupHealth"}

SetupIsByAUser == \A b \in Browser : JobStage(b) \in {"setupHealth", "login"} => job[b].user \in Extension

(* A set-up is alone, and only one browser adds queues, or a threshold.      *)
ExcludedAreAlone ==
    \A b, c \in Browser : b # c =>
        /\ JobStage(b) \in Setup => JobStage(c) = "none"
        /\ JobStage(b) = "syncRows" => JobStage(c) # "syncRows"
        /\ JobStage(b) = "threshold" => JobStage(c) # "threshold"

(* What every procedure has read still holds.                                *)
JobKnows(b) ==
    /\ JobStage(b) \in Setup => NobodyIn
    /\ JobStage(b) = "setupHealth" => owner = None
    /\ JobStage(b) = "setupUser" => Rows = {}
    /\ JobStage(b) \in {"setupUser", "setupQueues", "setupThresholds", "threshold"} => globals = 0
    /\ JobStage(b) = "setupSession" => globals = 1
    /\ JobStage(b) \in {"setupQueues", "syncRows"} => \A q \in Rows : order[q] < job[b].next

TablesAreRight ==
    /\ \A p, q \in Rows : p # q => order[p] # order[q]
    /\ globals <= 1
    /\ wholeSetup => globals = 1

ServerIInv ==
    /\ ServerTypes /\ UnconfiguredIsEmpty /\ SetupIsByAUser
    /\ ~overlapped => ExcludedAreAlone /\ TablesAreRight /\ \A b \in Browser : JobKnows(b)

LEMMA NoJobIsAJob == NoJob \in Job /\ NoJob.stage = "none"
  BY DEF NoJob, Job, Stages

LEMMA ServerInitIInv == ServerInit => ServerIInv
<1> SUFFICES ASSUME ServerInit PROVE ServerIInv
  OBVIOUS
<1>1. SignedOut \in Session /\ SignedOut.user = None
  BY DEF SignedOut, Session
<1>2. Rows = {}
  BY DEF Rows, ServerInit
<1>3. ServerTypes
  BY <1>1, <1>2, NoJobIsAJob DEF ServerInit, ServerTypes
<1>4. \A b \in Browser : JobStage(b) = "none" /\ session[b].user = None
  BY <1>1, NoJobIsAJob DEF ServerInit, JobStage
<1>5. UnconfiguredIsEmpty /\ SetupIsByAUser
  BY <1>2, <1>4 DEF ServerInit, UnconfiguredIsEmpty, SetupIsByAUser, NobodyIn
<1>6. ExcludedAreAlone /\ TablesAreRight /\ \A b \in Browser : JobKnows(b)
  BY <1>2, <1>4 DEF ServerInit, ExcludedAreAlone, TablesAreRight, JobKnows, Setup
<1> QED BY <1>3, <1>5, <1>6 DEF ServerIInv

-----------------------------------------------------------------------------
(* Jobs.                                                                     *)

LEMMA JobEntered ==
    ASSUME ServerTypes, NEW b \in Browser, NEW j \in Job, Enters(b, j)
    PROVE  /\ job' \in [Browser -> Job] /\ job'[b] = j
           /\ \A c \in Browser \ {b} : job'[c] = job[c]
           /\ overlapped => overlapped'
           /\ ~overlapped' => \A c \in Browser \ {b} : JobStage(c) \notin Excludes(j.stage)
  BY DEF ServerTypes, Enters, In, JobStage

LEMMA JobMoved ==
    ASSUME ServerTypes, NEW b \in Browser, NEW stage \in Stages, Moves(b, stage)
    PROVE  \E j \in Job : Enters(b, j) /\ j.stage = stage /\ j.user = job[b].user /\ j.next = job[b].next
<1>1. PICK before \in Job : before = job[b]
  BY DEF ServerTypes
<1> DEFINE j == [before EXCEPT !.stage = stage]
<1>2. j \in Job /\ j.stage = stage /\ j.user = before.user /\ j.next = before.next
  BY DEF Job
<1>3. Enters(b, j)
  BY <1>1 DEF Moves
<1> HIDE DEF j
<1> QED BY <1>1, <1>2, <1>3

LEMMA QueueCounted ==
    ASSUME ServerTypes, NEW b \in Browser, NEW q \in PbxQueue,
           Enters(b, [job[b] EXCEPT !.queues = @ \cup {q}, !.next = @ + 1])
    PROVE  \E j \in Job : Enters(b, j) /\ j.stage = job[b].stage /\ j.next = job[b].next + 1
<1>1. PICK before \in Job : before = job[b]
  BY DEF ServerTypes
<1>2. PICK queues \in SUBSET PbxQueue, next \in Nat : queues = before.queues \cup {q} /\ next = before.next + 1
  <2>1. before.queues \cup {q} \in SUBSET PbxQueue
    BY DEF Job
  <2>2. before.next + 1 \in Nat
    BY DEF Job
  <2> QED BY <2>1, <2>2
<1> DEFINE j == [before EXCEPT !.queues = queues, !.next = next]
<1>3. j \in Job /\ j.stage = before.stage /\ j.next = next
  BY DEF Job
<1>4. Enters(b, j)
  BY <1>1, <1>2
<1> HIDE DEF j
<1> QED BY <1>1, <1>2, <1>3, <1>4

LEMMA ExcludedStay ==
    ASSUME ServerTypes, ExcludedAreAlone, NEW b \in Browser, NEW j \in Job, Enters(b, j), ~overlapped'
    PROVE  /\ ExcludedAreAlone'
           /\ j.stage \in Setup => \A c \in Browser \ {b} : JobStage(c)' = "none"
<1>1. /\ job'[b] = j /\ \A c \in Browser \ {b} : job'[c] = job[c]
      /\ \A c \in Browser \ {b} : JobStage(c) \notin Excludes(j.stage) /\ JobStage(c) \in Stages
  BY JobEntered DEF ServerTypes, Job, JobStage
<1>2. \A c \in Browser \ {b} :
        /\ JobStage(c) \notin Setup
        /\ j.stage \in Setup => JobStage(c) = "none"
        /\ j.stage = "syncRows" => JobStage(c) # "syncRows"
        /\ j.stage = "threshold" => JobStage(c) # "threshold"
  BY <1>1 DEF Excludes, Setup
<1>3. JobStage(b)' = j.stage /\ \A c \in Browser \ {b} : JobStage(c)' = JobStage(c)
  BY <1>1 DEF JobStage
<1> QED BY <1>2, <1>3 DEF ExcludedAreAlone

LEMMA JobEnded ==
    ASSUME ServerTypes, NEW b \in Browser, Ends(b)
    PROVE  /\ job' \in [Browser -> Job] /\ JobStage(b)' = "none" /\ overlapped' = overlapped
           /\ \A c \in Browser \ {b} : job'[c] = job[c] /\ JobStage(c)' = JobStage(c)
           /\ ExcludedAreAlone => ExcludedAreAlone'
<1>1. /\ job' \in [Browser -> Job] /\ JobStage(b)' = "none" /\ overlapped' = overlapped
      /\ \A c \in Browser \ {b} : job'[c] = job[c] /\ JobStage(c)' = JobStage(c)
  BY NoJobIsAJob DEF ServerTypes, Ends, JobStage
<1> QED BY <1>1 DEF ExcludedAreAlone, Setup

(* Who is signed in is so after the set-up.                                  *)
LEMMA SignedInIsLater ==
    ASSUME ServerIInv, NEW b \in Browser, SignedIn(b)
    PROVE  /\ owner # None /\ ~NobodyIn
           /\ ~overlapped => \A c \in Browser : JobStage(c) \notin Setup
<1>1. ~NobodyIn
  BY DEF SignedIn, NobodyIn
<1> QED BY <1>1 DEF ServerIInv, UnconfiguredIsEmpty, JobKnows

(* A procedure that goes on, or begins, and has written nothing.             *)
LEMMA OnlyEnters ==
    ASSUME ServerIInv, NEW b \in Browser, NEW j \in Job, Enters(b, j),
           UNCHANGED <<tables, browsers, wholeSetup>>,
           owner = None => j.stage = "setupHealth",
           j.stage \in {"setupHealth", "login"} => j.user \in Extension,
           ~overlapped' => JobKnows(b)'
    PROVE  ServerIInv'
<1>1. ServerTypes
  BY DEF ServerIInv
<1>2. UNCHANGED <<owner, role, order, globals, session, listed, wholeSetup>> /\ Rows' = Rows
  BY DEF tables, browsers, Rows
<1>3. /\ job' \in [Browser -> Job] /\ job'[b] = j /\ \A c \in Browser \ {b} : job'[c] = job[c]
      /\ overlapped => overlapped'
  BY <1>1, JobEntered
<1>4. ServerTypes'
  BY <1>1, <1>2, <1>3 DEF ServerTypes
<1>5. UnconfiguredIsEmpty' /\ SetupIsByAUser'
  BY <1>2, <1>3 DEF ServerIInv, UnconfiguredIsEmpty, SetupIsByAUser, NobodyIn, JobStage
<1>6. ASSUME ~overlapped' PROVE ExcludedAreAlone' /\ TablesAreRight' /\ \A c \in Browser : JobKnows(c)'
  <2>1. ExcludedAreAlone'
    BY <1>1, <1>3, <1>6, ExcludedStay DEF ServerIInv
  <2>2. TablesAreRight'
    BY <1>2, <1>3, <1>6 DEF ServerIInv, TablesAreRight
  <2>3. \A c \in Browser \ {b} : JobKnows(c)'
    BY <1>2, <1>3, <1>6 DEF ServerIInv, JobKnows, JobStage, NobodyIn
  <2> QED BY <1>6, <2>1, <2>2, <2>3
<1> QED BY <1>4, <1>5, <1>6 DEF ServerIInv

-----------------------------------------------------------------------------
(* Browsers, and procedures that end.                                        *)

LEMMA JobsEnd ==
    ASSUME ServerIInv, ServerCrash \/ \E b \in Browser : JobFails(b)
    PROVE  ServerIInv'
<1>1. UNCHANGED <<owner, role, order, globals, session, listed, wholeSetup, overlapped>> /\ Rows' = Rows
  BY DEF ServerCrash, JobFails, Ends, tables, browsers, Rows
<1>2. job' \in [Browser -> Job] /\ \A c \in Browser : job'[c] \in {job[c], NoJob}
  BY NoJobIsAJob DEF ServerCrash, JobFails, Ends, ServerIInv, ServerTypes
<1>3. \A c \in Browser : JobStage(c)' = "none" \/ (JobStage(c)' = JobStage(c) /\ job'[c] = job[c])
  BY <1>2, NoJobIsAJob DEF JobStage
<1>4. ServerTypes'
  BY <1>1, <1>2 DEF ServerIInv, ServerTypes
<1>5. UnconfiguredIsEmpty' /\ SetupIsByAUser'
  BY <1>1, <1>3 DEF ServerIInv, UnconfiguredIsEmpty, SetupIsByAUser, NobodyIn
<1>6. ASSUME ~overlapped PROVE ExcludedAreAlone' /\ TablesAreRight' /\ \A c \in Browser : JobKnows(c)'
  <2>1. ExcludedAreAlone'
    BY <1>3, <1>6 DEF ServerIInv, ExcludedAreAlone, Setup
  <2>2. TablesAreRight'
    BY <1>1, <1>6 DEF ServerIInv, TablesAreRight
  <2>3. \A c \in Browser : JobKnows(c)'
    BY <1>1, <1>3, <1>6 DEF ServerIInv, JobKnows, NobodyIn, Setup
  <2> QED BY <2>1, <2>2, <2>3
<1> QED BY <1>1, <1>4, <1>5, <1>6 DEF ServerIInv

LEMMA BrowsersMove ==
    ASSUME ServerIInv, NEW b \in Browser,
           \/ SessionExpires(b) \/ Logout(b) \/ GetQueues(b)
           \/ \E to \in {"setup", "login", "wallboard"} : Navigate(b, to)
           \/ \E other \in Browser : RevokeSession(b, other)
    PROVE  ServerIInv'
<1>1. UNCHANGED <<owner, role, order, globals, job, wholeSetup, overlapped>> /\ Rows' = Rows
      /\ \A c \in Browser : JobStage(c)' = JobStage(c)
  BY DEF SessionExpires, Logout, GetQueues, Navigate, RevokeSession, tables, Rows, JobStage
<1>2. listed' \in [Browser -> SUBSET PbxQueue]
  BY DEF SessionExpires, Logout, GetQueues, Navigate, RevokeSession, Rows, ServerIInv, ServerTypes
<1>3. session' \in [Browser -> Session] /\ (NobodyIn => NobodyIn')
  <2>1. session \in [Browser -> Session]
    BY DEF ServerIInv, ServerTypes
  <2>2. SignedOut \in Session /\ SignedOut.user = None
    BY DEF SignedOut, Session
  <2>3. CASE SessionExpires(b) \/ Logout(b)
    BY <2>1, <2>2, <2>3 DEF SessionExpires, Logout, NobodyIn
  <2>4. CASE GetQueues(b) \/ \E to \in {"setup", "login", "wallboard"} : Navigate(b, to)
    BY <2>1, <2>4 DEF GetQueues, Navigate, NobodyIn
  <2>5. ASSUME NEW other \in Browser, RevokeSession(b, other) PROVE session' \in [Browser -> Session] /\ ~NobodyIn
    <3>1. PICK one \in Session : one = session[other]
      BY <2>1
    <3>2. [one EXCEPT !.live = FALSE] \in Session
      BY DEF Session
    <3>3. session' = [session EXCEPT ![other] = [one EXCEPT !.live = FALSE]]
      BY <3>1, <2>5 DEF RevokeSession
    <3>4. ~NobodyIn
      BY <2>5 DEF RevokeSession, SignedIn, NobodyIn
    <3> QED BY <2>1, <3>2, <3>3, <3>4
  <2> QED BY <2>3, <2>4, <2>5
<1>4. ServerTypes'
  BY <1>1, <1>2, <1>3 DEF ServerIInv, ServerTypes
<1>5. UnconfiguredIsEmpty' /\ SetupIsByAUser'
  BY <1>1, <1>3 DEF ServerIInv, UnconfiguredIsEmpty, SetupIsByAUser
<1>6. ASSUME ~overlapped PROVE ExcludedAreAlone' /\ TablesAreRight' /\ \A c \in Browser : JobKnows(c)'
  BY <1>1, <1>3, <1>6 DEF ServerIInv, ExcludedAreAlone, TablesAreRight, JobKnows
<1> QED BY <1>1, <1>4, <1>5, <1>6 DEF ServerIInv

-----------------------------------------------------------------------------
(* Procedures that begin or have read.                                       *)

LEMMA BeginsSetup == ASSUME ServerIInv, NEW b \in Browser, NEW e \in Extension, BeginSetup(b, e) PROVE ServerIInv'
<1> DEFINE j == [NoJob EXCEPT !.stage = "setupHealth", !.user = e]
<1>1. j \in Job /\ j.stage = "setupHealth" /\ j.user = e
  BY NoJobIsAJob DEF Job, Stages, Setup, NoJob
<1>2. Enters(b, j) /\ UNCHANGED <<tables, browsers, wholeSetup>> /\ owner = None
  BY DEF BeginSetup
<1> HIDE DEF j
<1>3. job'[b] = j /\ NobodyIn /\ UNCHANGED <<session, owner>>
  BY <1>1, <1>2, JobEntered DEF ServerIInv, UnconfiguredIsEmpty, tables, browsers
<1>4. JobKnows(b)'
  BY <1>1, <1>2, <1>3 DEF JobKnows, JobStage, NobodyIn
<1> QED BY <1>1, <1>2, <1>4, OnlyEnters

LEMMA BeginsLogin == ASSUME ServerIInv, NEW b \in Browser, NEW e \in Extension, BeginLogin(b, e) PROVE ServerIInv'
<1> PICK o \in Extension \cup {None} : o = owner
  BY DEF ServerIInv, ServerTypes
<1> DEFINE j == [NoJob EXCEPT !.stage = "login", !.user = e, !.owner = o]
<1>1. j \in Job /\ j.stage = "login" /\ j.user = e
  BY NoJobIsAJob DEF Job, Stages, NoJob
<1>2. Enters(b, j) /\ UNCHANGED <<tables, browsers, wholeSetup>> /\ owner # None
  BY DEF BeginLogin
<1> HIDE DEF j
<1>3. job'[b] = j
  BY <1>1, <1>2, JobEntered DEF ServerIInv
<1>4. JobKnows(b)'
  BY <1>1, <1>3 DEF JobKnows, JobStage, Setup
<1> QED BY <1>1, <1>2, <1>4, OnlyEnters

LEMMA BeginsSyncOrThreshold ==
    ASSUME ServerIInv, NEW b \in Browser, BeginSync(b) \/ BeginThreshold(b)
    PROVE  ServerIInv'
<1>1. PICK stage \in {"syncFetch", "threshold"} :
        /\ Enters(b, [NoJob EXCEPT !.stage = stage])
        /\ stage = "threshold" => globals = 0
  BY DEF BeginSync, BeginThreshold
<1>2. UNCHANGED <<tables, browsers, wholeSetup>> /\ globals' = globals /\ owner # None
  BY SignedInIsLater DEF BeginSync, BeginThreshold, IsAdmin, tables
<1> DEFINE j == [NoJob EXCEPT !.stage = stage]
<1>3. j \in Job /\ j.stage = stage
  BY NoJobIsAJob DEF Job, Stages, SyncJob, NoJob
<1>4. Enters(b, j)
  BY <1>1
<1> HIDE DEF j
<1>5. job'[b] = j
  BY <1>3, <1>4, JobEntered DEF ServerIInv
<1>6. JobKnows(b)'
  BY <1>1, <1>2, <1>3, <1>5 DEF JobKnows, JobStage, Setup
<1> QED BY <1>2, <1>3, <1>4, <1>6, OnlyEnters

LEMMA SyncHasRead == ASSUME ServerIInv, NEW b \in Browser, SyncReads(b) PROVE ServerIInv'
<1> DEFINE places == {order[q] : q \in Rows} \cup {-1}
<1>1. PICK bound \in Nat : \A q \in Rows : order[q] <= bound
  BY DEF ServerIInv, ServerTypes
<1>2. \A q \in Rows : order[q] \in Nat
  BY DEF ServerIInv, ServerTypes, Rows
<1>3. places \in SUBSET (Nat \cup {-1}) /\ places # {} /\ \A x \in places : x <= bound
  BY <1>1, <1>2
<1>4. Max(places) \in places /\ \A x \in places : x <= Max(places)
  BY <1>3, MaxOfBounded
<1>5. PICK next \in Nat : next = Max(places) + 1
  <2> HIDE DEF places
  <2>1. PICK top \in Nat \cup {-1} : top = Max(places)
    BY <1>3, <1>4
  <2>2. top + 1 \in Nat
    OBVIOUS
  <2> QED BY <2>1, <2>2
<1>6. \A q \in Rows : order[q] < next
  <2> SUFFICES ASSUME NEW q \in Rows PROVE order[q] < next
    OBVIOUS
  <2>1. order[q] \in places /\ order[q] \in Nat /\ Max(places) \in Nat \cup {-1}
    BY <1>2, <1>3, <1>4
  <2>2. order[q] <= Max(places)
    BY <1>4, <2>1
  <2> HIDE DEF places
  <2> QED BY <1>5, <2>1, <2>2
<1> PICK queues \in SUBSET PbxQueue : queues = Rows
  BY DEF Rows
<1> DEFINE j == [NoJob EXCEPT !.stage = "syncRows", !.queues = queues, !.next = next]
<1>7. j \in Job /\ j.stage = "syncRows" /\ j.next = next
  BY NoJobIsAJob DEF Job, Stages, SyncJob, NoJob
<1>8. Enters(b, j) /\ UNCHANGED <<tables, browsers, wholeSetup>> /\ job[b].stage = "syncFetch"
  BY <1>5 DEF SyncReads
<1> HIDE DEF j, places
<1>9. job'[b] = j /\ Rows' = Rows /\ order' = order /\ owner # None
  BY <1>7, <1>8, JobEntered DEF ServerIInv, tables, Rows, UnconfiguredIsEmpty, JobStage
<1>10. JobKnows(b)'
  BY <1>6, <1>7, <1>9 DEF JobKnows, JobStage, Setup
<1> QED BY <1>7, <1>8, <1>9, <1>10, OnlyEnters

LEMMA QueuesAreThere == ASSUME ServerIInv, NEW b \in Browser, SetupQueuesEnd(b) PROVE ServerIInv'
<1>1. /\ job[b].stage = "setupQueues" /\ Moves(b, "setupThresholds") /\ UNCHANGED <<tables, browsers, wholeSetup>>
      /\ "setupThresholds" \in Stages
  BY DEF SetupQueuesEnd, Stages, Setup
<1>2. PICK j \in Job : Enters(b, j) /\ j.stage = "setupThresholds"
  BY <1>1, JobMoved DEF ServerIInv
<1>3. owner # None /\ job'[b] = j /\ UNCHANGED <<session, globals>>
  BY <1>1, <1>2, JobEntered DEF ServerIInv, UnconfiguredIsEmpty, JobStage, tables, browsers
<1>4. ASSUME ~overlapped' PROVE JobKnows(b)'
  <2>1. ~overlapped
    BY <1>2, <1>4, JobEntered DEF ServerIInv
  <2>2. NobodyIn /\ globals = 0
    BY <1>1, <2>1 DEF ServerIInv, JobKnows, JobStage, Setup
  <2> QED BY <1>2, <1>3, <2>2 DEF JobKnows, JobStage, NobodyIn
<1> QED BY <1>1, <1>2, <1>3, <1>4, OnlyEnters

-----------------------------------------------------------------------------
(* The set-up writes.                                                        *)

(* What it writes only it sees.                                              *)
LEMMA OnlySetup ==
    ASSUME ServerIInv, NEW b \in Browser, JobStage(b) \in Setup, NEW j \in Job, Enters(b, j), j.stage \in Setup \ {"setupHealth"},
           UNCHANGED <<session, listed, wholeSetup>>, ServerTypes', owner' # None,
           ~overlapped => TablesAreRight' /\ JobKnows(b)'
    PROVE  ServerIInv'
<1>1. ServerTypes
  BY DEF ServerIInv
<1>2. job'[b] = j /\ (\A c \in Browser \ {b} : job'[c] = job[c]) /\ (overlapped => overlapped')
  BY <1>1, JobEntered
<1>3. UnconfiguredIsEmpty'
  BY DEF UnconfiguredIsEmpty
<1>4. SetupIsByAUser'
  BY <1>2 DEF ServerIInv, SetupIsByAUser, JobStage, Setup
<1>5. ASSUME ~overlapped' PROVE ExcludedAreAlone' /\ TablesAreRight' /\ \A c \in Browser : JobKnows(c)'
  <2>1. ~overlapped
    BY <1>2, <1>5
  <2>2. ExcludedAreAlone' /\ \A c \in Browser \ {b} : JobStage(c)' = "none"
    BY <1>1, <1>5, <2>1, ExcludedStay DEF ServerIInv
  <2>3. \A c \in Browser \ {b} : JobKnows(c)'
    BY <2>2 DEF JobKnows, Setup
  <2> QED BY <2>1, <2>2, <2>3
<1> QED BY <1>3, <1>4, <1>5 DEF ServerIInv

LEMMA SetupWritesOwner == ASSUME ServerIInv, NEW b \in Browser, SetupConfigures(b) PROVE ServerIInv'
<1>1. /\ job[b].stage = "setupHealth" /\ owner' = job[b].user /\ Moves(b, "setupUser")
      /\ UNCHANGED <<role, order, globals, session, listed, wholeSetup>> /\ Rows' = Rows
      /\ "setupUser" \in Stages
  BY DEF SetupConfigures, Stages, Setup, browsers, Rows
<1>2. owner' \in Extension /\ owner' # None
  BY <1>1, WallboardServerAssumption DEF ServerIInv, SetupIsByAUser, JobStage
<1>3. PICK j \in Job : Enters(b, j) /\ j.stage = "setupUser"
  BY <1>1, JobMoved DEF ServerIInv
<1>4. job' \in [Browser -> Job] /\ job'[b] = j
  BY <1>3, JobEntered DEF ServerIInv
<1>5. ServerTypes'
  BY <1>1, <1>2, <1>4 DEF ServerIInv, ServerTypes
<1>6. ASSUME ~overlapped PROVE TablesAreRight' /\ JobKnows(b)'
  <2>1. NobodyIn /\ owner = None
    BY <1>1, <1>6 DEF ServerIInv, JobKnows, JobStage, Setup
  <2>2. Rows = {} /\ globals = 0
    BY <2>1 DEF ServerIInv, UnconfiguredIsEmpty
  <2>3. TablesAreRight'
    BY <1>1, <1>6 DEF ServerIInv, TablesAreRight
  <2>4. JobKnows(b)'
    BY <1>1, <1>3, <1>4, <2>1, <2>2 DEF JobKnows, JobStage, NobodyIn
  <2> QED BY <2>3, <2>4
<1>7. JobStage(b) \in Setup /\ "setupUser" \in Setup \ {"setupHealth"}
  BY <1>1 DEF JobStage, Setup
<1> QED BY <1>1, <1>2, <1>3, <1>5, <1>6, <1>7, OnlySetup

LEMMA SetupWritesUser == ASSUME ServerIInv, NEW b \in Browser, SetupUser(b) PROVE ServerIInv'
<1>1. /\ job[b].stage = "setupUser" /\ role' = [role EXCEPT ![job[b].user] = "ADMIN"] /\ Moves(b, "setupQueues")
      /\ UNCHANGED <<owner, order, globals, session, listed, wholeSetup>> /\ Rows' = Rows
      /\ "setupQueues" \in Stages
  BY DEF SetupUser, Stages, Setup, browsers, Rows
<1>2. owner' # None
  BY <1>1 DEF ServerIInv, UnconfiguredIsEmpty, JobStage
<1>3. PICK j \in Job : Enters(b, j) /\ j.stage = "setupQueues"
  BY <1>1, JobMoved DEF ServerIInv
<1>4. job' \in [Browser -> Job] /\ job'[b] = j
  BY <1>3, JobEntered DEF ServerIInv
<1>5. ServerTypes'
  BY <1>1, <1>4 DEF ServerIInv, ServerTypes
<1>6. ASSUME ~overlapped PROVE TablesAreRight' /\ JobKnows(b)'
  <2>1. NobodyIn /\ Rows = {} /\ globals = 0
    BY <1>1, <1>6 DEF ServerIInv, JobKnows, JobStage, Setup
  <2>2. TablesAreRight'
    BY <1>1, <1>6 DEF ServerIInv, TablesAreRight
  <2>3. JobKnows(b)'
    BY <1>1, <1>3, <1>4, <2>1 DEF JobKnows, JobStage, NobodyIn
  <2> QED BY <2>2, <2>3
<1>7. JobStage(b) \in Setup /\ "setupQueues" \in Setup \ {"setupHealth"}
  BY <1>1 DEF JobStage, Setup
<1> QED BY <1>1, <1>2, <1>3, <1>5, <1>6, <1>7, OnlySetup

(* A row that is added, with the next place.                                 *)
LEMMA RowAdded ==
    ASSUME ServerTypes, NEW q \in PbxQueue, NEW n \in Nat, order[q] = None, order' = [order EXCEPT ![q] = n]
    PROVE  /\ order' \in [PbxQueue -> Nat \cup {None}]
           /\ Rows' = Rows \cup {q} /\ q \notin Rows /\ order'[q] = n /\ \A p \in Rows : order'[p] = order[p] /\ order[p] \in Nat
           /\ \E bound \in Nat : \A p \in Rows' : order'[p] <= bound
<1>1. order' \in [PbxQueue -> Nat \cup {None}] /\ None \notin Nat
  BY WallboardServerAssumption DEF ServerTypes
<1>2. order'[q] = n /\ \A p \in PbxQueue \ {q} : order'[p] = order[p]
  BY DEF ServerTypes
<1>3. Rows' = Rows \cup {q} /\ q \notin Rows /\ \A p \in Rows : order'[p] = order[p] /\ order[p] \in Nat
  BY <1>1, <1>2 DEF Rows, ServerTypes
<1>4. PICK bound \in Nat : \A p \in Rows : order[p] <= bound
  BY DEF ServerTypes
<1>5. \A p \in Rows' : order'[p] <= bound + n
  BY <1>2, <1>3, <1>4
<1> QED BY <1>1, <1>2, <1>3, <1>4, <1>5

LEMMA PlacesStayApart ==
    ASSUME ServerTypes, NEW q \in PbxQueue, NEW n \in Nat, order[q] = None, order' = [order EXCEPT ![q] = n],
           \A p \in Rows : order[p] < n
    PROVE  /\ (\A p, r \in Rows : p # r => order[p] # order[r]) => \A p, r \in Rows' : p # r => order'[p] # order'[r]
           /\ \A p \in Rows' : order'[p] < n + 1
<1>1. Rows' = Rows \cup {q} /\ q \notin Rows /\ order'[q] = n /\ \A p \in Rows : order'[p] = order[p] /\ order[p] \in Nat
  BY RowAdded
<1>2. \A p \in Rows : order'[p] # n /\ order'[p] < n + 1
  BY <1>1
<1> QED BY <1>1, <1>2

LEMMA SetupWritesQueue == ASSUME ServerIInv, NEW b \in Browser, NEW q \in PbxQueue, SetupQueue(b, q) PROVE ServerIInv'
<1>1. PICK n \in Nat : n = job[b].next
  BY DEF ServerIInv, ServerTypes, Job
<1>2. /\ job[b].stage = "setupQueues" /\ order[q] = None /\ order' = [order EXCEPT ![q] = n]
      /\ Enters(b, [job[b] EXCEPT !.queues = @ \cup {q}, !.next = @ + 1])
      /\ UNCHANGED <<owner, role, globals, session, listed, wholeSetup>>
  BY <1>1 DEF SetupQueue, browsers
<1>3. owner' # None
  BY <1>2 DEF ServerIInv, UnconfiguredIsEmpty, JobStage
<1>4. PICK j \in Job : Enters(b, j) /\ j.stage = "setupQueues" /\ j.next = n + 1
  BY <1>1, <1>2, QueueCounted DEF ServerIInv
<1>5. job' \in [Browser -> Job] /\ job'[b] = j
  BY <1>4, JobEntered DEF ServerIInv
<1>6. ServerTypes'
  BY <1>2, <1>5, RowAdded DEF ServerIInv, ServerTypes
<1>7. ASSUME ~overlapped PROVE TablesAreRight' /\ JobKnows(b)'
  <2>1. NobodyIn /\ globals = 0 /\ \A p \in Rows : order[p] < n
    BY <1>1, <1>2, <1>7 DEF ServerIInv, JobKnows, JobStage, Setup
  <2>2. \A p, r \in Rows : p # r => order[p] # order[r]
    BY <1>7 DEF ServerIInv, TablesAreRight
  <2>3. /\ \A p, r \in Rows' : p # r => order'[p] # order'[r]
        /\ \A p \in Rows' : order'[p] < n + 1
    BY <1>2, <2>1, <2>2, PlacesStayApart DEF ServerIInv
  <2>4. TablesAreRight'
    BY <1>2, <1>7, <2>3 DEF ServerIInv, TablesAreRight
  <2>5. JobKnows(b)'
    BY <1>2, <1>4, <1>5, <2>1, <2>3 DEF JobKnows, JobStage, NobodyIn
  <2> QED BY <2>4, <2>5
<1>8. JobStage(b) \in Setup /\ "setupQueues" \in Setup \ {"setupHealth"}
  BY <1>2 DEF JobStage, Setup
<1> QED BY <1>2, <1>3, <1>4, <1>6, <1>7, <1>8, OnlySetup

LEMMA SetupWritesThresholds == ASSUME ServerIInv, NEW b \in Browser, SetupThresholds(b) PROVE ServerIInv'
<1>1. /\ job[b].stage = "setupThresholds" /\ globals' = globals + 1 /\ Moves(b, "setupSession")
      /\ UNCHANGED <<owner, role, order, session, listed, wholeSetup>> /\ Rows' = Rows
      /\ "setupSession" \in Stages
  BY DEF SetupThresholds, Stages, Setup, browsers, Rows
<1>2. owner' # None
  BY <1>1 DEF ServerIInv, UnconfiguredIsEmpty, JobStage
<1>3. PICK j \in Job : Enters(b, j) /\ j.stage = "setupSession"
  BY <1>1, JobMoved DEF ServerIInv
<1>4. job' \in [Browser -> Job] /\ job'[b] = j
  BY <1>3, JobEntered DEF ServerIInv
<1>5. ServerTypes'
  BY <1>1, <1>4 DEF ServerIInv, ServerTypes
<1>6. ASSUME ~overlapped PROVE TablesAreRight' /\ JobKnows(b)'
  <2>1. NobodyIn /\ globals' = 1
    BY <1>1, <1>6 DEF ServerIInv, JobKnows, JobStage, Setup
  <2>2. TablesAreRight'
    BY <1>1, <1>6, <2>1 DEF ServerIInv, TablesAreRight
  <2>3. JobKnows(b)'
    BY <1>1, <1>3, <1>4, <2>1 DEF JobKnows, JobStage, NobodyIn
  <2> QED BY <2>2, <2>3
<1>7. JobStage(b) \in Setup /\ "setupSession" \in Setup \ {"setupHealth"}
  BY <1>1 DEF JobStage, Setup
<1> QED BY <1>1, <1>2, <1>3, <1>5, <1>6, <1>7, OnlySetup

-----------------------------------------------------------------------------
(* Sessions, users and settings.                                             *)

LEMMA SessionBegins == ASSUME ServerIInv, NEW b \in Browser, SetupEnds(b) \/ LoginEnds(b) PROVE ServerIInv'
<1>1. /\ Ends(b) /\ UNCHANGED <<owner, role, order, globals, listed>> /\ Rows' = Rows
      /\ session' = [session EXCEPT ![b] = [user |-> job[b].user, live |-> TRUE]]
      /\ JobStage(b) \in {"setupSession", "loginSession"} /\ (wholeSetup' => wholeSetup \/ JobStage(b) = "setupSession")
  BY DEF SetupEnds, LoginEnds, SessionCreated, tables, Rows, JobStage
<1>2. owner' # None
  BY <1>1 DEF ServerIInv, UnconfiguredIsEmpty
<1>3. /\ job' \in [Browser -> Job] /\ JobStage(b)' = "none" /\ overlapped' = overlapped
      /\ \A c \in Browser \ {b} : job'[c] = job[c] /\ JobStage(c)' = JobStage(c)
      /\ ExcludedAreAlone => ExcludedAreAlone'
  BY <1>1, JobEnded DEF ServerIInv
<1>4. ServerTypes'
  <2>1. PICK user \in Extension \cup {None} : user = job[b].user
    BY DEF ServerIInv, ServerTypes, Job
  <2>2. \A live \in BOOLEAN : [user |-> user, live |-> live] \in Session
    BY DEF Session
  <2>3. session' = [session EXCEPT ![b] = [user |-> user, live |-> TRUE]]
    BY <1>1, <2>1
  <2>4. session' \in [Browser -> Session]
    BY <2>2, <2>3 DEF ServerIInv, ServerTypes
  <2> QED BY <1>1, <1>3, <2>4 DEF ServerIInv, ServerTypes
<1>5. UnconfiguredIsEmpty' /\ SetupIsByAUser'
  BY <1>2, <1>3 DEF ServerIInv, UnconfiguredIsEmpty, SetupIsByAUser
<1>6. ASSUME ~overlapped PROVE TablesAreRight' /\ \A c \in Browser : JobKnows(c)'
  <2>1. TablesAreRight'
    BY <1>1, <1>6 DEF ServerIInv, TablesAreRight, JobKnows
  <2>2. \A c \in Browser \ {b} : JobStage(c) \notin Setup
    BY <1>1, <1>6 DEF ServerIInv, ExcludedAreAlone
  <2>3. \A c \in Browser : JobKnows(c)'
    BY <1>1, <1>3, <1>6, <2>2 DEF ServerIInv, JobKnows, Setup
  <2> QED BY <2>1, <2>3
<1> QED BY <1>3, <1>4, <1>5, <1>6 DEF ServerIInv

LEMMA LoginWrites == ASSUME ServerIInv, NEW b \in Browser, LoginUpserts(b) PROVE ServerIInv'
<1>1. /\ JobStage(b) = "login" /\ Moves(b, "loginSession") /\ "loginSession" \in Stages
      /\ UNCHANGED <<owner, order, globals, session, listed, wholeSetup>> /\ Rows' = Rows
  BY DEF LoginUpserts, Stages, browsers, Rows, JobStage
<1>2. role' \in [Extension -> {"USER", "ADMIN", None}]
  BY DEF LoginUpserts, ServerIInv, ServerTypes
<1>3. owner' # None
  BY <1>1 DEF ServerIInv, UnconfiguredIsEmpty
<1>4. PICK j \in Job : Enters(b, j) /\ j.stage = "loginSession"
  BY <1>1, JobMoved DEF ServerIInv
<1>5. /\ job' \in [Browser -> Job] /\ job'[b] = j /\ \A c \in Browser \ {b} : job'[c] = job[c]
      /\ overlapped => overlapped'
  BY <1>4, JobEntered DEF ServerIInv
<1>6. ServerTypes'
  BY <1>1, <1>2, <1>5 DEF ServerIInv, ServerTypes
<1>7. UnconfiguredIsEmpty' /\ SetupIsByAUser'
  BY <1>3, <1>4, <1>5 DEF ServerIInv, UnconfiguredIsEmpty, SetupIsByAUser, JobStage
<1>8. ASSUME ~overlapped' PROVE ExcludedAreAlone' /\ TablesAreRight' /\ \A c \in Browser : JobKnows(c)'
  <2>1. ExcludedAreAlone'
    BY <1>4, <1>5, <1>8, ExcludedStay DEF ServerIInv
  <2>2. TablesAreRight'
    BY <1>1, <1>5, <1>8 DEF ServerIInv, TablesAreRight
  <2>3. \A c \in Browser : JobKnows(c)'
    BY <1>1, <1>4, <1>5, <1>8 DEF ServerIInv, JobKnows, JobStage, NobodyIn, Setup
  <2> QED BY <2>1, <2>2, <2>3
<1> QED BY <1>6, <1>7, <1>8 DEF ServerIInv

LEMMA AdminWrites ==
    ASSUME ServerIInv, NEW b \in Browser, NEW e \in Extension,
           UpdateSettings(b, e) \/ \E r \in {"USER", "ADMIN"} : UpdateUserRole(b, e, r)
    PROVE  ServerIInv'
<1>1. /\ SignedIn(b) /\ owner' \in {owner, e} /\ role' \in [Extension -> {"USER", "ADMIN", None}]
      /\ UNCHANGED <<order, globals, job, session, listed, wholeSetup, overlapped>> /\ Rows' = Rows
      /\ \A c \in Browser : JobStage(c)' = JobStage(c)
  BY DEF UpdateSettings, UpdateUserRole, IsAdmin, browsers, Rows, JobStage, ServerIInv, ServerTypes
<1>2. owner' # None
  BY <1>1, SignedInIsLater, WallboardServerAssumption
<1>3. ServerTypes'
  BY <1>1 DEF ServerIInv, ServerTypes
<1>4. UnconfiguredIsEmpty' /\ SetupIsByAUser'
  BY <1>1, <1>2 DEF ServerIInv, UnconfiguredIsEmpty, SetupIsByAUser
<1>5. ASSUME ~overlapped PROVE ExcludedAreAlone' /\ TablesAreRight' /\ \A c \in Browser : JobKnows(c)'
  <2>1. \A c \in Browser : JobStage(c) \notin Setup
    BY <1>1, <1>5, SignedInIsLater
  <2> QED BY <1>1, <1>5, <2>1 DEF ServerIInv, ExcludedAreAlone, TablesAreRight, JobKnows, Setup
<1> QED BY <1>1, <1>3, <1>4, <1>5 DEF ServerIInv

-----------------------------------------------------------------------------
(* The wallboard's queues and thresholds.                                    *)

LEMMA SyncWritesQueue == ASSUME ServerIInv, NEW b \in Browser, NEW q \in PbxQueue, SyncAdds(b, q) PROVE ServerIInv'
<1>1. PICK n \in Nat : n = job[b].next
  BY DEF ServerIInv, ServerTypes, Job
<1>2. /\ JobStage(b) = "syncRows" /\ order[q] = None /\ order' = [order EXCEPT ![q] = n]
      /\ Enters(b, [job[b] EXCEPT !.queues = @ \cup {q}, !.next = @ + 1])
      /\ UNCHANGED <<owner, role, globals, session, listed, wholeSetup>>
  BY <1>1 DEF SyncAdds, browsers, JobStage
<1>3. owner' # None
  BY <1>2 DEF ServerIInv, UnconfiguredIsEmpty
<1>4. PICK j \in Job : Enters(b, j) /\ j.stage = "syncRows" /\ j.next = n + 1
  BY <1>1, <1>2, QueueCounted DEF ServerIInv, JobStage
<1>5. /\ job' \in [Browser -> Job] /\ job'[b] = j /\ \A c \in Browser \ {b} : job'[c] = job[c]
      /\ overlapped => overlapped'
  BY <1>4, JobEntered DEF ServerIInv
<1>6. ServerTypes'
  BY <1>2, <1>5, RowAdded DEF ServerIInv, ServerTypes
<1>7. UnconfiguredIsEmpty' /\ SetupIsByAUser'
  BY <1>3, <1>4, <1>5 DEF ServerIInv, UnconfiguredIsEmpty, SetupIsByAUser, JobStage
<1>8. ASSUME ~overlapped' PROVE ExcludedAreAlone' /\ TablesAreRight' /\ \A c \in Browser : JobKnows(c)'
  <2>1. ExcludedAreAlone' /\ ExcludedAreAlone
    BY <1>4, <1>5, <1>8, ExcludedStay DEF ServerIInv
  <2>2. \A p \in Rows : order[p] < n
    BY <1>1, <1>2, <1>5, <1>8 DEF ServerIInv, JobKnows
  <2>3. \A p, r \in Rows : p # r => order[p] # order[r]
    BY <1>5, <1>8 DEF ServerIInv, TablesAreRight
  <2>4. /\ \A p, r \in Rows' : p # r => order'[p] # order'[r]
        /\ \A p \in Rows' : order'[p] < n + 1
    BY <1>2, <2>2, <2>3, PlacesStayApart DEF ServerIInv
  <2>5. TablesAreRight'
    BY <1>2, <1>5, <1>8, <2>4 DEF ServerIInv, TablesAreRight
  <2>6. JobKnows(b)'
    BY <1>2, <1>4, <1>5, <2>4 DEF JobKnows, JobStage, Setup
  <2>7. \A c \in Browser \ {b} : JobStage(c) \notin Setup /\ JobStage(c) # "syncRows" /\ JobStage(c)' = JobStage(c)
    BY <1>2, <1>5, <2>1 DEF ExcludedAreAlone, JobStage
  <2>8. \A c \in Browser \ {b} : JobKnows(c)'
    BY <1>2, <1>5, <1>8, <2>7 DEF ServerIInv, JobKnows, Setup
  <2> QED BY <2>1, <2>5, <2>6, <2>8
<1> QED BY <1>6, <1>7, <1>8 DEF ServerIInv

LEMMA OrderIsSaved ==
    ASSUME ServerIInv, NEW b \in Browser, NEW place \in Places(listed[b]), UpdateQueueOrder(b, place)
    PROVE  ServerIInv'
<1>1. PICK shown \in SUBSET PbxQueue : shown = listed[b]
  BY DEF ServerIInv, ServerTypes
<1>2. PICK n \in Nat : n = Cardinality(shown)
  BY <1>1, FS_Subset, FS_CardinalityType, WallboardServerAssumption
<1>3. place \in [shown -> 0..n-1] /\ \A p, q \in shown : p # q => place[p] # place[q]
  BY <1>1, <1>2 DEF Places
<1>4. /\ SignedIn(b) /\ order' = [q \in PbxQueue |-> IF q \in shown THEN place[q] ELSE order[q]]
      /\ UNCHANGED <<owner, role, globals, job, session, listed, wholeSetup>>
      /\ \A c \in Browser : JobStage(c)' = JobStage(c)
      /\ overlapped => overlapped'
      /\ ~overlapped' => shown = Rows
  BY <1>1 DEF UpdateQueueOrder, IsAdmin, browsers, JobStage
<1>5. \A q \in PbxQueue : order'[q] = IF q \in shown THEN place[q] ELSE order[q]
  BY <1>4
<1>6. ServerTypes'
  <2>1. order' \in [PbxQueue -> Nat \cup {None}]
    <3>1. \A q \in shown : place[q] \in Nat
      BY <1>3
    <3> QED BY <1>4, <3>1 DEF ServerIInv, ServerTypes
  <2>2. PICK bound \in Nat : \A q \in Rows : order[q] <= bound
    BY DEF ServerIInv, ServerTypes
  <2>3. \A q \in Rows' : order'[q] <= bound + n
    <3> SUFFICES ASSUME NEW q \in PbxQueue, order'[q] # None PROVE order'[q] <= bound + n
      BY DEF Rows
    <3>1. CASE q \in shown
      <4>1. order'[q] = place[q] /\ place[q] \in 0..n-1
        BY <1>3, <1>5, <3>1
      <4> QED BY <4>1
    <3>2. CASE q \notin shown
      <4>1. order'[q] = order[q] /\ q \in Rows /\ order[q] \in Nat
        BY <1>5, <3>2 DEF Rows, ServerIInv, ServerTypes
      <4> QED BY <2>2, <4>1
    <3> QED BY <3>1, <3>2
  <2>4. bound + n \in Nat
    OBVIOUS
  <2> QED BY <1>4, <2>1, <2>3, <2>4 DEF ServerIInv, ServerTypes
<1>7. owner' # None /\ (~overlapped => \A c \in Browser : JobStage(c) \notin Setup)
  BY <1>4, SignedInIsLater
<1>8. UnconfiguredIsEmpty' /\ SetupIsByAUser'
  BY <1>4, <1>7 DEF ServerIInv, UnconfiguredIsEmpty, SetupIsByAUser
<1>9. ASSUME ~overlapped' PROVE ExcludedAreAlone' /\ TablesAreRight' /\ \A c \in Browser : JobKnows(c)'
  <2>1. /\ shown = Rows /\ Rows' = Rows /\ \A q \in Rows : order'[q] = place[q] /\ order'[q] \in 0..n-1
    <3>1. shown = Rows /\ \A q \in Rows : order'[q] = place[q] /\ place[q] \in 0..n-1
      BY <1>3, <1>4, <1>5, <1>9
    <3>2. \A q \in PbxQueue \ Rows : order'[q] = None
      BY <1>5, <3>1 DEF Rows
    <3>3. None \notin 0..n-1
      BY WallboardServerAssumption
    <3> QED BY <3>1, <3>2, <3>3 DEF Rows
  <2>2. ExcludedAreAlone'
    BY <1>4, <1>9 DEF ServerIInv, ExcludedAreAlone
  <2>3. TablesAreRight'
    BY <1>3, <1>4, <1>9, <2>1 DEF ServerIInv, TablesAreRight
  <2>4. ASSUME NEW c \in Browser, JobStage(c) = "syncRows" PROVE \A q \in Rows' : order'[q] < job[c].next
    <3>1. PICK m \in Nat : m = job[c].next
      BY DEF ServerIInv, ServerTypes, Job
    <3>2. \A q \in Rows : order[q] < m /\ order[q] \in Nat
      BY <1>4, <1>9, <2>4, <3>1 DEF ServerIInv, JobKnows, ServerTypes, Rows
    <3> DEFINE before == [q \in Rows |-> order[q]]
    <3>3. before \in [Rows -> Nat] /\ \A q \in Rows : before[q] = order[q]
      BY <3>2
    <3> HIDE DEF before
    <3>4. /\ \A q \in Rows : before[q] < m
          /\ \A p, q \in Rows : p # q => before[p] # before[q]
      BY <1>4, <1>9, <3>2, <3>3 DEF ServerIInv, TablesAreRight
    <3>5. IsFiniteSet(Rows)
      BY <1>1, <2>1, FS_Subset, WallboardServerAssumption
    <3>6. Cardinality(Rows) <= m
      BY <3>3, <3>4, <3>5, PlacesAreEnough
    <3>7. n <= m
      BY <1>2, <2>1, <3>6
    <3>8. \A q \in Rows : order'[q] < m
      <4> SUFFICES ASSUME NEW q \in Rows PROVE order'[q] < m
        OBVIOUS
      <4>1. order'[q] \in 0..n-1
        BY <2>1
      <4> QED BY <3>7, <4>1
    <3> QED BY <2>1, <3>1, <3>8
  <2>5. \A c \in Browser : JobKnows(c)'
    <3> SUFFICES ASSUME NEW c \in Browser PROVE JobKnows(c)'
      OBVIOUS
    <3>1. JobKnows(c) /\ JobStage(c) \notin Setup
      BY <1>4, <1>7, <1>9 DEF ServerIInv
    <3> QED BY <1>4, <2>4, <3>1 DEF JobKnows, Setup
  <2> QED BY <2>2, <2>3, <2>5
<1> QED BY <1>6, <1>8, <1>9 DEF ServerIInv

LEMMA ThresholdWritten == ASSUME ServerIInv, NEW b \in Browser, ThresholdCreated(b) PROVE ServerIInv'
<1>1. /\ JobStage(b) = "threshold" /\ globals' = globals + 1 /\ Ends(b)
      /\ UNCHANGED <<owner, role, order, session, listed, wholeSetup>> /\ Rows' = Rows
  BY DEF ThresholdCreated, browsers, Rows, JobStage
<1>2. owner' # None
  BY <1>1 DEF ServerIInv, UnconfiguredIsEmpty
<1>3. /\ job' \in [Browser -> Job] /\ JobStage(b)' = "none" /\ overlapped' = overlapped
      /\ \A c \in Browser \ {b} : job'[c] = job[c] /\ JobStage(c)' = JobStage(c)
      /\ ExcludedAreAlone => ExcludedAreAlone'
  BY <1>1, JobEnded DEF ServerIInv
<1>4. ServerTypes'
  BY <1>1, <1>3 DEF ServerIInv, ServerTypes
<1>5. UnconfiguredIsEmpty' /\ SetupIsByAUser'
  BY <1>2, <1>3 DEF ServerIInv, UnconfiguredIsEmpty, SetupIsByAUser
<1>6. ASSUME ~overlapped PROVE TablesAreRight' /\ \A c \in Browser : JobKnows(c)'
  <2>1. globals' = 1
    BY <1>1, <1>6 DEF ServerIInv, JobKnows
  <2>2. TablesAreRight'
    BY <1>1, <1>6, <2>1 DEF ServerIInv, TablesAreRight
  <2>3. \A c \in Browser \ {b} : JobStage(c) \notin Setup /\ JobStage(c) # "threshold"
    BY <1>1, <1>6 DEF ServerIInv, ExcludedAreAlone
  <2>4. \A c \in Browser : JobKnows(c)'
    BY <1>1, <1>3, <1>6, <2>3 DEF ServerIInv, JobKnows, Setup
  <2> QED BY <2>2, <2>4
<1> QED BY <1>3, <1>4, <1>5, <1>6 DEF ServerIInv

LEMMA ServerStep == ServerIInv /\ [ServerNext]_serverVars => ServerIInv'
<1> SUFFICES ASSUME ServerIInv, [ServerNext]_serverVars PROVE ServerIInv'
  OBVIOUS
<1>1. CASE UNCHANGED serverVars
  BY <1>1 DEF serverVars, tables, browsers, ServerIInv, ServerTypes, UnconfiguredIsEmpty, SetupIsByAUser,
              ExcludedAreAlone, TablesAreRight, JobKnows, NobodyIn, JobStage, Rows
<1>2. CASE ServerCrash
  BY <1>2, JobsEnd
<1>3. ASSUME NEW b \in Browser,
             \/ JobFails(b) \/ SessionExpires(b) \/ Logout(b)
             \/ \E to \in {"setup", "login", "wallboard"} : Navigate(b, to)
             \/ SetupConfigures(b) \/ SetupUser(b) \/ SetupQueuesEnd(b) \/ SetupThresholds(b)
             \/ SetupEnds(b)
             \/ LoginUpserts(b) \/ LoginEnds(b)
             \/ BeginSync(b) \/ SyncReads(b) \/ GetQueues(b)
             \/ BeginThreshold(b) \/ ThresholdCreated(b)
             \/ \E other \in Browser : RevokeSession(b, other)
      PROVE  ServerIInv'
  BY <1>3, JobsEnd, BrowsersMove, SetupWritesOwner, SetupWritesUser, QueuesAreThere, SetupWritesThresholds,
     SessionBegins, LoginWrites, BeginsSyncOrThreshold, SyncHasRead, ThresholdWritten
<1>4. ASSUME NEW b \in Browser, NEW e \in Extension,
             \/ BeginSetup(b, e) \/ BeginLogin(b, e) \/ UpdateSettings(b, e)
             \/ \E r \in {"USER", "ADMIN"} : UpdateUserRole(b, e, r)
      PROVE  ServerIInv'
  BY <1>4, BeginsSetup, BeginsLogin, AdminWrites
<1>5. ASSUME NEW b \in Browser, NEW q \in PbxQueue, SetupQueue(b, q) \/ SyncAdds(b, q) PROVE ServerIInv'
  BY <1>5, SetupWritesQueue, SyncWritesQueue
<1>6. ASSUME NEW b \in Browser, NEW place \in Places(listed[b]), UpdateQueueOrder(b, place) PROVE ServerIInv'
  BY <1>6, OrderIsSaved
<1> QED BY <1>1, <1>2, <1>3, <1>4, <1>5, <1>6 DEF ServerNext

(* What every browser shows, as a function, and the two flags.               *)
PagesAndFlags ==
    /\ page \in [Browser -> {"setup", "login", "wallboard"}]
    /\ {wholeSetup, overlapped} \subseteq BOOLEAN

LEMMA PagesAndFlagsStep == PagesAndFlags /\ [ServerNext]_serverVars => PagesAndFlags'
<1> SUFFICES ASSUME PagesAndFlags, [ServerNext]_serverVars PROVE PagesAndFlags'
  OBVIOUS
<1> DEFINE shown == {"setup", "login", "wallboard"}
<1>1. CASE page' = page
  <2>1. {wholeSetup', overlapped'} \subseteq BOOLEAN
    BY DEF PagesAndFlags, ServerNext, serverVars, ServerCrash, JobFails, SessionExpires, Logout, Navigate,
           SetupConfigures, SetupUser, SetupQueuesEnd, SetupThresholds, SetupEnds, LoginUpserts, LoginEnds,
           BeginSync, SyncReads, GetQueues, BeginThreshold, ThresholdCreated, RevokeSession, BeginSetup,
           BeginLogin, UpdateSettings, UpdateUserRole, SetupQueue, SyncAdds, UpdateQueueOrder,
           SessionCreated, Enters, Moves, Ends
  <2> QED BY <1>1, <2>1 DEF PagesAndFlags
<1>2. ASSUME NEW b \in Browser, Logout(b) \/ SetupEnds(b) \/ LoginEnds(b) PROVE PagesAndFlags'
  <2>1. PICK to \in shown : page' = [page EXCEPT ![b] = to]
    BY <1>2 DEF Logout, SetupEnds, LoginEnds, SessionCreated
  <2>2. {wholeSetup', overlapped'} \subseteq BOOLEAN
    BY <1>2 DEF PagesAndFlags, Logout, SetupEnds, LoginEnds, SessionCreated, Ends
  <2> QED BY <2>1, <2>2 DEF PagesAndFlags
<1>3. ASSUME NEW b \in Browser, NEW to \in shown, Navigate(b, to) PROVE PagesAndFlags'
  <2>1. Landing(b, to) \in shown
    BY DEF Landing
  <2> QED BY <1>3, <2>1 DEF PagesAndFlags, Navigate
<1>4. \/ page' = page
      \/ \E b \in Browser : \/ Logout(b) \/ SetupEnds(b) \/ LoginEnds(b)
                           \/ \E to \in shown : Navigate(b, to)
  BY DEF ServerNext, serverVars, browsers, ServerCrash, JobFails, SessionExpires, SetupConfigures, SetupUser,
         SetupQueuesEnd, SetupThresholds, LoginUpserts, BeginSync, SyncReads, GetQueues, BeginThreshold,
         ThresholdCreated, RevokeSession, BeginSetup, BeginLogin, UpdateSettings, UpdateUserRole,
         SetupQueue, SyncAdds, UpdateQueueOrder
<1> QED BY <1>1, <1>2, <1>3, <1>4

(* The types of WallboardServer: every job is one of its stages, and every    *)
(* browser shows one of the three pages.                                     *)
THEOREM ServerTypeCorrect == ServerSpec => []ServerTypeOK
<1>1. ServerInit => PagesAndFlags
  BY DEF ServerInit, PagesAndFlags
<1>2. ServerIInv /\ PagesAndFlags => ServerTypeOK
  BY DEF ServerIInv, ServerTypes, Session, Job, PagesAndFlags, ServerTypeOK
<1> QED BY <1>1, <1>2, ServerInitIInv, ServerStep, PagesAndFlagsStep, PTL DEF ServerSpec

(* TablesKeepOrder of WallboardServer, for any number of browsers, users and *)
(* queues: as long as no procedures that exclude each other overlap, every   *)
(* queue has a place of its own and no threshold is there twice, whatever    *)
(* crashes, fails or is started again; and after a whole set-up the          *)
(* thresholds are there.                                                     *)
THEOREM TablesAreInOrder == ServerSpec => []TablesKeepOrder
<1>1. ServerIInv => TablesKeepOrder
  BY DEF ServerIInv, TablesAreRight, TablesKeepOrder
<1> QED BY ServerInitIInv, ServerStep, <1>1, PTL DEF ServerSpec

-----------------------------------------------------------------------------
(***************************************************************************)
(* QueueMembership: no change of the members of a queue is lost.           *)
(***************************************************************************)

(* What MembershipKept lacks to be inductive: while no changes overlapped,   *)
(* the list an action is about to write was made from the list there is, and *)
(* no other action is about to write one.                                    *)
ListIsCurrent ==
    ~raced => \A a \in AboutToWrite :
        actions[a].list = UpdatedAgents(actions[a].does, actions[a].agent, members)

OneWriter == ~raced => \A a, b \in AboutToWrite : a = b

MembershipIInv == MembershipTypeOK /\ ListIsCurrent /\ OneWriter /\ MembershipKept

(* An action moves on, and nothing else happens to the list.                 *)
MovesOn(a) ==
    /\ actions' = [actions EXCEPT ![a] = actions'[a]]
    /\ a \notin AboutToWrite'
    /\ UNCHANGED <<members, expected, raced>>

-----------------------------------------------------------------------------

LEMMA MembershipInitIInv == MembershipInit => MembershipIInv
<1> SUFFICES ASSUME MembershipInit PROVE MembershipIInv
  OBVIOUS
<1>1. NewAction \in [stage : Stage, does : Membership \cup Status \cup {"none"},
                     agent : Agent \cup {"none"}, list : SUBSET Agent]
  BY DEF NewAction, Stage
<1>2. MembershipTypeOK
  <2>1. actions \in [Action -> [stage : Stage, does : Membership \cup Status \cup {"none"},
                               agent : Agent \cup {"none"}, list : SUBSET Agent]]
    BY <1>1, Zenon DEF MembershipInit
  <2>2. \A a \in Action : actions[a].stage = "new"
    BY DEF MembershipInit, NewAction
  <2> QED BY <2>1, <2>2 DEF MembershipInit, MembershipTypeOK
<1>3. AboutToWrite = {}
  BY DEF MembershipInit, AboutToWrite, NewAction
<1>4. ListIsCurrent /\ OneWriter
  BY <1>3 DEF ListIsCurrent, OneWriter
<1>5. MembershipKept
  BY DEF MembershipInit, MembershipKept
<1> QED BY <1>2, <1>4, <1>5 DEF MembershipIInv

(* The steps of an action, the changes of the list aside.                    *)
LEMMA MembershipSteps ==
    ASSUME MembershipNext
    PROVE  \/ \E a \in Action, does \in Membership \cup Status, agent \in Agent,
                 stage \in {"checking", "reading"} :
                 Begins(a, does, agent, stage)
           \/ \E a \in Action, user \in Agent : ManagerChecked(a, user)
           \/ \E a \in Action : ReadAgents(a)
           \/ \E a \in Action : ActionFails(a)
           \/ \E a \in Action, yes \in BOOLEAN : WriteAgents(a, yes)
           \/ \E a \in Action, yes \in BOOLEAN : UserResolved(a, yes)
           \/ \E a \in Action, yes \in BOOLEAN : StatusSet(a, yes)
           \/ \E agents \in SUBSET Agent : ChangedElsewhere(agents)
BY DEF MembershipNext, SignSelf, SignAgent, MoveSelf, MoveAgent

(* Every step keeps the types.                                               *)
LEMMA MembershipStepType ==
    ASSUME MembershipTypeOK, [MembershipNext]_membershipVars
    PROVE  MembershipTypeOK'
<1> USE DEF MembershipTypeOK
<1>1. ASSUME NEW a \in Action, NEW does \in Membership \cup Status, NEW agent \in Agent,
             NEW stage \in {"checking", "reading"}, Begins(a, does, agent, stage)
      PROVE  MembershipTypeOK'
  BY <1>1 DEF Begins, phoneSystem, Stage
<1>2. ASSUME NEW a \in Action, NEW user \in Agent, ManagerChecked(a, user)
      PROVE  MembershipTypeOK'
  BY <1>2 DEF ManagerChecked, Proceeds, phoneSystem, Stage
<1>3. ASSUME NEW a \in Action, ReadAgents(a)
      PROVE  MembershipTypeOK'
  <2>1. CASE (actions[a].agent \in members) = (actions[a].does = "addAgentToQueue")
    BY <1>3, <2>1 DEF ReadAgents, Proceeds, phoneSystem, Stage
  <2>2. CASE (actions[a].agent \in members) # (actions[a].does = "addAgentToQueue")
    <3>1. UpdatedAgents(actions[a].does, actions[a].agent, members) \in SUBSET Agent
      BY <1>3 DEF ReadAgents, UpdatedAgents
    <3> QED BY <1>3, <2>2, <3>1 DEF ReadAgents, Proceeds, phoneSystem, Stage
  <2> QED BY <2>1, <2>2
<1>4. ASSUME NEW a \in Action, ActionFails(a)
      PROVE  MembershipTypeOK'
  BY <1>4 DEF ActionFails, Proceeds, phoneSystem, Stage
<1>5. ASSUME NEW a \in Action, NEW yes \in BOOLEAN, WriteAgents(a, yes)
      PROVE  MembershipTypeOK'
  <2>1. members' \subseteq Agent /\ signedIn' \subseteq members' /\ expected' \subseteq Agent
    BY <1>5 DEF WriteAgents, AboutToWrite
  <2>2. actions' \in [Action -> [stage : Stage, does : Membership \cup Status \cup {"none"},
                                agent : Agent \cup {"none"}, list : SUBSET Agent]]
    BY <1>5 DEF WriteAgents, Proceeds, Stage
  <2>3. \A b \in Action : actions'[b].stage # "new" => actions'[b].agent \in Agent
    BY <1>5 DEF WriteAgents, Proceeds, AboutToWrite
  <2> QED BY <1>5, <2>1, <2>2, <2>3 DEF WriteAgents
<1>6. ASSUME NEW a \in Action, NEW yes \in BOOLEAN, UserResolved(a, yes)
      PROVE  MembershipTypeOK'
  BY <1>6 DEF UserResolved, Proceeds, phoneSystem, Stage
<1>7. ASSUME NEW a \in Action, NEW yes \in BOOLEAN, StatusSet(a, yes)
      PROVE  MembershipTypeOK'
  BY <1>7 DEF StatusSet, Proceeds, Stage
<1>8. ASSUME NEW agents \in SUBSET Agent, ChangedElsewhere(agents)
      PROVE  MembershipTypeOK'
  BY <1>8 DEF ChangedElsewhere
<1>9. CASE UNCHANGED membershipVars
  BY <1>9 DEF membershipVars
<1> QED
  BY <1>1, <1>2, <1>3, <1>4, <1>5, <1>6, <1>7, <1>8, <1>9, MembershipSteps

(* An action that moves on makes no list old.                                *)
LEMMA MovingOnKeeps ==
    ASSUME MembershipIInv, NEW a \in Action, MovesOn(a)
    PROVE  ListIsCurrent' /\ OneWriter' /\ MembershipKept'
<1>1. \A b \in AboutToWrite' : b \in AboutToWrite /\ actions'[b] = actions[b]
  BY DEF MembershipIInv, MembershipTypeOK, MovesOn, AboutToWrite
<1>2. members' = members /\ expected' = expected /\ raced' = raced
  BY DEF MovesOn
<1>3. ListIsCurrent'
  BY <1>1, <1>2 DEF MembershipIInv, ListIsCurrent, UpdatedAgents
<1>4. OneWriter'
  BY <1>1, <1>2 DEF MembershipIInv, OneWriter
<1>5. MembershipKept'
  BY <1>2 DEF MembershipIInv, MembershipKept
<1> QED BY <1>3, <1>4, <1>5

(* Every step but the two that touch the list moves an action on.            *)
LEMMA OtherStepsMoveOn ==
    ASSUME MembershipTypeOK, NEW a \in Action,
           \/ \E does \in Membership \cup Status, agent \in Agent, stage \in {"checking", "reading"} :
                 Begins(a, does, agent, stage)
           \/ \E user \in Agent : ManagerChecked(a, user)
           \/ ActionFails(a)
           \/ \E yes \in BOOLEAN : UserResolved(a, yes) \/ StatusSet(a, yes)
    PROVE  MovesOn(a)
<1> USE DEF MembershipTypeOK, MovesOn, AboutToWrite, phoneSystem
<1>1. ASSUME NEW does \in Membership \cup Status, NEW agent \in Agent,
             NEW stage \in {"checking", "reading"}, Begins(a, does, agent, stage)
      PROVE  MovesOn(a)
  BY <1>1 DEF Begins
<1>2. ASSUME NEW user \in Agent, ManagerChecked(a, user)
      PROVE  MovesOn(a)
  BY <1>2 DEF ManagerChecked, Proceeds
<1>3. CASE ActionFails(a)
  BY <1>3 DEF ActionFails, Proceeds
<1>4. ASSUME NEW yes \in BOOLEAN, UserResolved(a, yes)
      PROVE  MovesOn(a)
  BY <1>4 DEF UserResolved, Proceeds, Membership, Status
<1>5. ASSUME NEW yes \in BOOLEAN, StatusSet(a, yes)
      PROVE  MovesOn(a)
  BY <1>5 DEF StatusSet, Proceeds, Membership, Status
<1> QED BY <1>1, <1>2, <1>3, <1>4, <1>5

(* A list that is read is current; the action is the only writer, or the     *)
(* changes overlap from now on.                                              *)
LEMMA ReadingKeeps ==
    ASSUME MembershipIInv, NEW a \in Action, ReadAgents(a)
    PROVE  ListIsCurrent' /\ OneWriter' /\ MembershipKept'
<1>1. CASE (actions[a].agent \in members) = (actions[a].does = "addAgentToQueue")
  <2>1. MovesOn(a)
    BY <1>1 DEF MembershipIInv, MembershipTypeOK, ReadAgents, Proceeds, MovesOn, AboutToWrite, phoneSystem
  <2> QED BY <2>1, MovingOnKeeps
<1>2. CASE (actions[a].agent \in members) # (actions[a].does = "addAgentToQueue")
  <2> DEFINE written == UpdatedAgents(actions[a].does, actions[a].agent, members)
  <2>1. /\ actions' = [actions EXCEPT ![a].stage = "writing", ![a].list = written]
        /\ raced' = (raced \/ AboutToWrite # {})
        /\ members' = members /\ expected' = expected
    BY <1>2, Zenon DEF ReadAgents, phoneSystem
  <2>2. \A b \in AboutToWrite' : b = a \/ b \in AboutToWrite
    BY <2>1 DEF MembershipIInv, MembershipTypeOK, AboutToWrite
  <2>3. ~raced' => ~raced /\ AboutToWrite = {}
    BY <2>1
  <2>4. actions'[a].list = UpdatedAgents(actions'[a].does, actions'[a].agent, members')
    BY <2>1 DEF MembershipIInv, MembershipTypeOK, UpdatedAgents
  <2>5. ListIsCurrent' /\ OneWriter'
    BY <2>2, <2>3, <2>4 DEF ListIsCurrent, OneWriter
  <2>6. MembershipKept'
    BY <2>1, <2>3 DEF MembershipIInv, MembershipKept
  <2> QED BY <2>5, <2>6
<1> QED BY <1>1, <1>2

(* The one writer leaves the list as its change to the current one would, and *)
(* nobody is about to write after it.                                        *)
LEMMA WritingKeeps ==
    ASSUME MembershipIInv, NEW a \in Action, NEW answered \in BOOLEAN, WriteAgents(a, answered)
    PROVE  ListIsCurrent' /\ OneWriter' /\ MembershipKept'
<1> SUFFICES ASSUME ~raced' PROVE AboutToWrite' = {} /\ members' = expected'
  BY DEF ListIsCurrent, OneWriter, MembershipKept
<1>1. ~raced /\ a \in AboutToWrite
  BY DEF WriteAgents
<1>2. \A b \in AboutToWrite : b = a
  BY <1>1 DEF MembershipIInv, OneWriter
<1>3. AboutToWrite' = {}
  BY <1>2 DEF MembershipIInv, MembershipTypeOK, WriteAgents, Proceeds, AboutToWrite
<1>4. actions[a].list = UpdatedAgents(actions[a].does, actions[a].agent, expected)
  BY <1>1 DEF MembershipIInv, ListIsCurrent, MembershipKept
<1>5. members' = expected'
  BY <1>4 DEF WriteAgents, UpdatedAgents
<1> QED BY <1>3, <1>5

(* A change at the phone system makes the list of a writer old, which counts *)
(* as an overlap.                                                            *)
LEMMA ChangeElsewhereKeeps ==
    ASSUME MembershipIInv, NEW agents \in SUBSET Agent, ChangedElsewhere(agents)
    PROVE  ListIsCurrent' /\ OneWriter' /\ MembershipKept'
<1>1. AboutToWrite' = AboutToWrite
  BY DEF ChangedElsewhere, AboutToWrite
<1>2. ~raced' => AboutToWrite = {}
  BY DEF ChangedElsewhere
<1>3. members' = expected'
  BY DEF ChangedElsewhere
<1> QED BY <1>1, <1>2, <1>3 DEF ListIsCurrent, OneWriter, MembershipKept

LEMMA MembershipStep ==
    ASSUME MembershipIInv, [MembershipNext]_membershipVars
    PROVE  MembershipIInv'
<1>1. MembershipTypeOK'
  BY MembershipStepType DEF MembershipIInv
<1>2. ListIsCurrent' /\ OneWriter' /\ MembershipKept'
  <2>1. CASE UNCHANGED membershipVars
    BY <2>1 DEF MembershipIInv, membershipVars, ListIsCurrent, OneWriter, MembershipKept, AboutToWrite,
                UpdatedAgents
  <2>2. CASE \E a \in Action :
                \/ \E does \in Membership \cup Status, agent \in Agent,
                      stage \in {"checking", "reading"} : Begins(a, does, agent, stage)
                \/ \E user \in Agent : ManagerChecked(a, user)
                \/ ActionFails(a)
                \/ \E yes \in BOOLEAN : UserResolved(a, yes) \/ StatusSet(a, yes)
    BY <2>2, OtherStepsMoveOn, MovingOnKeeps DEF MembershipIInv
  <2>3. CASE \E a \in Action : ReadAgents(a)
    BY <2>3, ReadingKeeps
  <2>4. CASE \E a \in Action, yes \in BOOLEAN : WriteAgents(a, yes)
    BY <2>4, WritingKeeps
  <2>5. CASE \E agents \in SUBSET Agent : ChangedElsewhere(agents)
    BY <2>5, ChangeElsewhereKeeps
  <2> QED BY <2>1, <2>2, <2>3, <2>4, <2>5, MembershipSteps
<1> QED BY <1>1, <1>2 DEF MembershipIInv

-----------------------------------------------------------------------------

(* The actions and the lists keep their types; nobody is signed in to a queue *)
(* who is not in it.                                                         *)
THEOREM MembershipTypeCorrect == MembershipSpec => []MembershipTypeOK
<1>1. MembershipInit => MembershipIInv
  BY MembershipInitIInv
<1>2. MembershipIInv /\ [MembershipNext]_membershipVars => MembershipIInv'
  BY MembershipStep
<1>3. MembershipIInv => MembershipTypeOK
  BY DEF MembershipIInv
<1> QED BY <1>1, <1>2, <1>3, PTL DEF MembershipSpec

(* For any number of queue actions: as long as no two changes of the list    *)
(* overlap, none is lost, also when answers are.                             *)
THEOREM NoChangeIsLost == MembershipSpec => []MembershipKept
<1>1. MembershipInit => MembershipIInv
  BY MembershipInitIInv
<1>2. MembershipIInv /\ [MembershipNext]_membershipVars => MembershipIInv'
  BY MembershipStep
<1>3. MembershipIInv => MembershipKept
  BY DEF MembershipIInv
<1> QED BY <1>1, <1>2, <1>3, PTL DEF MembershipSpec

-----------------------------------------------------------------------------
(***************************************************************************)
(* BrowserClient: the alerts of the wallboard and its stream.              *)
(***************************************************************************)

(* The level the alerts remember of a queue is the one it is shown with, as  *)
(* long as its alerts are on: no change of figures, thresholds or settings   *)
(* goes by unseen.                                                           *)
LevelsSeen ==
    figures # <<>> => \A q \in alertsOn : prevLevels[q] = Level(figures, red, q)

BrowserIInv == BrowserTypeOK /\ StreamIsRetried /\ LevelsSeen /\ RedIsAlerted

(* An effect of the page after new figures, thresholds or settings.          *)
Seen(fs, r, on) ==
    /\ figures' = fs /\ red' = r /\ alertsOn' = on
    /\ Evaluate /\ Shown
    /\ UNCHANGED streamVars

StreamStep == Opens \/ Interrupted \/ Closed \/ RetryElapses \/ Mount

Shownable == [ShownQueue -> Figure] \cup {<<>>}

LEMMA BrowserSteps ==
    ASSUME BrowserTypeOK, BrowserNext
    PROVE  \/ StreamStep \/ Unmount \/ Tick
           \/ \E fs \in Shownable, r \in Figure \ {0}, on \in SUBSET ShownQueue : Seen(fs, r, on)
<1>1. ASSUME NEW fs \in [ShownQueue -> Figure], StateReceived(fs)
      PROVE  fs \in Shownable /\ Seen(fs, red, alertsOn)
  BY <1>1, Zenon DEF StateReceived, Seen, Shownable
<1>2. ASSUME NEW r \in Figure \ {0}, ThresholdsRead(r)
      PROVE  Seen(figures, r, alertsOn)
  BY <1>2, Zenon DEF ThresholdsRead, Seen
<1>3. ASSUME NEW on \in SUBSET ShownQueue, AlertsSwitched(on)
      PROVE  Seen(figures, red, on)
  BY <1>3, Zenon DEF AlertsSwitched, Seen
<1>4. figures \in Shownable /\ red \in Figure \ {0} /\ alertsOn \in SUBSET ShownQueue
  BY DEF BrowserTypeOK, Shownable
<1> QED BY <1>1, <1>2, <1>3, <1>4, Zenon DEF BrowserNext, StreamStep

-----------------------------------------------------------------------------
(* The stream.                                                               *)

LEMMA StreamStepType ==
    ASSUME BrowserTypeOK, StreamStep
    PROVE  BrowserTypeOK'
<1>1. mounted' \in BOOLEAN /\ retry' \in BOOLEAN
  BY Zenon DEF BrowserTypeOK, StreamStep, Mount, Opens, Interrupted, Closed, RetryElapses
<1>2. source' \in {"none", "connecting", "open"}
  BY DEF BrowserTypeOK, StreamStep, Mount, Opens, Interrupted, Closed, RetryElapses, Connect
<1>3. backoff' \in 0..MaxBackoff
  BY BrowserClientAssumption
     DEF BrowserTypeOK, StreamStep, Mount, Opens, Interrupted, Closed, RetryElapses
<1>4. UNCHANGED alertVars
  BY Zenon DEF StreamStep, Mount, Opens, Interrupted, Closed, RetryElapses
<1> QED BY <1>1, <1>2, <1>3, <1>4, Zenon DEF BrowserTypeOK, alertVars

(* A stream that closes leaves a timer, and only a page has either.          *)
LEMMA StreamStepRetries ==
    ASSUME StreamIsRetried, StreamStep
    PROVE  StreamIsRetried'
<1>1. CASE Mount
  BY <1>1 DEF StreamIsRetried, Mount, Connect
<1>2. CASE Opens
  BY <1>2 DEF StreamIsRetried, Opens
<1>3. CASE Interrupted
  BY <1>3 DEF StreamIsRetried, Interrupted
<1>4. CASE Closed
  BY <1>4 DEF StreamIsRetried, Closed
<1>5. CASE RetryElapses
  BY <1>5 DEF StreamIsRetried, RetryElapses, Connect
<1> QED BY <1>1, <1>2, <1>3, <1>4, <1>5 DEF StreamStep

-----------------------------------------------------------------------------
(* The alerts.                                                               *)

LEMMA EvaluateType ==
    ASSUME BrowserTypeOK, NEW fs \in Shownable, NEW r \in Figure \ {0},
           NEW on \in SUBSET ShownQueue, Seen(fs, r, on)
    PROVE  BrowserTypeOK'
<1>1. prevLevels' \in [ShownQueue -> {"unknown", "calm", "red"}]
  BY DEF BrowserTypeOK, Seen, Evaluate, Level
<1>2. sinceAlert' \in 0..Quiet
  BY BrowserClientAssumption DEF BrowserTypeOK, Seen, Evaluate, Quiet
<1>3. redAge' \in [ShownQueue -> -1..MaxAge]
  BY BrowserClientAssumption DEF BrowserTypeOK, Seen, Shown
<1>4. UNCHANGED <<mounted, retry, source, backoff>>
  BY DEF Seen, streamVars
<1> QED BY <1>1, <1>2, <1>3, <1>4, Zenon DEF BrowserTypeOK, Seen, Shownable

(* The levels are those of what is shown now, for every queue with alerts.   *)
LEMMA EvaluateSees ==
    ASSUME BrowserTypeOK, NEW fs \in Shownable, NEW r \in Figure \ {0},
           NEW on \in SUBSET ShownQueue, Seen(fs, r, on)
    PROVE  LevelsSeen'
<1> SUFFICES ASSUME figures' # <<>>, NEW q \in alertsOn'
             PROVE  prevLevels'[q] = Level(figures', red', q)
  BY DEF LevelsSeen
<1>1. q \in ShownQueue
  BY DEF Seen
<1> QED BY <1>1, Zenon DEF Seen, Evaluate

(* A queue that turns red was seen calm, so the metric alerts now unless it  *)
(* did less than the debounce time ago; an alert makes none older.           *)
LEMMA EvaluateAlerts ==
    ASSUME BrowserTypeOK, LevelsSeen, RedIsAlerted, NEW fs \in Shownable, NEW r \in Figure \ {0},
           NEW on \in SUBSET ShownQueue, Seen(fs, r, on)
    PROVE  RedIsAlerted'
<1> SUFFICES ASSUME NEW q \in ShownQueue, redAge'[q] >= 0
             PROVE  sinceAlert' < redAge'[q] + Debounce
  BY DEF RedIsAlerted
<1>1. redAge'[q] = IF \/ figures' = <<>> \/ q \notin alertsOn \cap alertsOn'
                      \/ Level(figures', red', q) # "red"
                   THEN -1
                   ELSE IF figures # <<>> /\ Level(figures, red, q) # "red" THEN 0 ELSE redAge[q]
  BY DEF Seen, Shown
<1>2. figures' # <<>> /\ q \in alertsOn /\ q \in alertsOn' /\ Level(figures', red', q) = "red"
  BY <1>1
<1>3. /\ sinceAlert \in Nat /\ redAge[q] \in Int
      /\ Debounce \in Nat /\ Debounce > 0
  BY BrowserClientAssumption DEF BrowserTypeOK, Quiet
<1> DEFINE turned == {p \in alertsOn' : Level(figures', red', p) = "red" /\ prevLevels[p] = "calm"}
<1>4. sinceAlert' = IF turned # {} /\ sinceAlert >= Debounce THEN 0 ELSE sinceAlert
  BY <1>2, Zenon DEF Seen, Evaluate
<1>5. CASE figures # <<>> /\ Level(figures, red, q) # "red"
  <2>1. redAge'[q] = 0
    BY <1>1, <1>2, <1>5
  <2>2. q \in turned
    BY <1>2, <1>5 DEF LevelsSeen, Level
  <2> QED BY <1>3, <1>4, <2>1, <2>2
<1>6. CASE ~(figures # <<>> /\ Level(figures, red, q) # "red")
  <2>1. redAge'[q] = redAge[q]
    BY <1>1, <1>2, <1>6
  <2>2. sinceAlert < redAge[q] + Debounce
    BY <2>1 DEF RedIsAlerted
  <2> QED BY <1>3, <1>4, <2>1, <2>2
<1> QED BY <1>5, <1>6

(* A page that goes takes what it remembers with it.                         *)
LEMMA UnmountKeeps ==
    ASSUME BrowserIInv, Unmount
    PROVE  BrowserIInv'
<1>1. Quiet \in 0..Quiet /\ -1 \in -1..MaxAge
  BY BrowserClientAssumption DEF Quiet
<1>2. /\ redAge' \in [ShownQueue -> -1..MaxAge] /\ sinceAlert' \in 0..Quiet
      /\ prevLevels' \in [ShownQueue -> {"unknown", "calm", "red"}]
  BY <1>1, Zenon DEF Unmount
<1>3. BrowserTypeOK'
  BY <1>2, Zenon DEF BrowserIInv, BrowserTypeOK, Unmount
<1>4. StreamIsRetried'
  BY DEF StreamIsRetried, Unmount
<1>5. LevelsSeen'
  BY DEF LevelsSeen, Unmount
<1>6. RedIsAlerted'
  BY DEF RedIsAlerted, Unmount
<1> QED BY <1>3, <1>4, <1>5, <1>6 DEF BrowserIInv

(* Time makes an alert and a red figure older alike.                         *)
LEMMA TickKeeps ==
    ASSUME BrowserIInv, Tick
    PROVE  BrowserIInv'
<1>1. redAge' \in [ShownQueue -> -1..MaxAge] /\ sinceAlert' \in 0..Quiet
  BY BrowserClientAssumption DEF BrowserIInv, BrowserTypeOK, Tick, Quiet
<1>2. UNCHANGED <<mounted, retry, source, backoff, figures, red, alertsOn, prevLevels>>
  BY DEF Tick, streamVars
<1>3. BrowserTypeOK'
  BY <1>1, <1>2, Zenon DEF BrowserIInv, BrowserTypeOK
<1>4. StreamIsRetried' /\ LevelsSeen'
  BY <1>2 DEF BrowserIInv, StreamIsRetried, LevelsSeen, Level
<1>5. RedIsAlerted'
  BY BrowserClientAssumption DEF BrowserIInv, BrowserTypeOK, RedIsAlerted, Tick, Quiet
<1> QED BY <1>3, <1>4, <1>5 DEF BrowserIInv

-----------------------------------------------------------------------------

LEMMA BrowserInitIInv == BrowserInit => BrowserIInv
<1> SUFFICES ASSUME BrowserInit PROVE BrowserIInv
  OBVIOUS
<1>1. /\ Quiet \in 0..Quiet /\ -1 \in -1..MaxAge /\ backoff \in 0..MaxBackoff
      /\ red \in Figure \ {0}
  BY BrowserClientAssumption DEF BrowserInit, Quiet, Figure
<1>2. /\ redAge \in [ShownQueue -> -1..MaxAge]
      /\ prevLevels \in [ShownQueue -> {"unknown", "calm", "red"}]
  BY <1>1, Zenon DEF BrowserInit
<1>3. BrowserTypeOK
  BY <1>1, <1>2, Zenon DEF BrowserInit, BrowserTypeOK
<1>4. StreamIsRetried /\ LevelsSeen
  BY DEF BrowserInit, StreamIsRetried, LevelsSeen
<1>5. RedIsAlerted
  BY DEF BrowserInit, RedIsAlerted
<1> QED BY <1>3, <1>4, <1>5 DEF BrowserIInv

LEMMA BrowserStep ==
    ASSUME BrowserIInv, [BrowserNext]_browserVars
    PROVE  BrowserIInv'
<1>1. CASE StreamStep
  <2>1. UNCHANGED alertVars
    BY <1>1, Zenon DEF StreamStep, Mount, Opens, Interrupted, Closed, RetryElapses
  <2>2. LevelsSeen' /\ RedIsAlerted'
    BY <2>1 DEF BrowserIInv, LevelsSeen, RedIsAlerted, Level, alertVars
  <2> QED BY <1>1, <2>2, StreamStepType, StreamStepRetries DEF BrowserIInv
<1>2. CASE Unmount
  BY <1>2, UnmountKeeps
<1>3. CASE Tick
  BY <1>3, TickKeeps
<1>4. ASSUME NEW fs \in Shownable, NEW r \in Figure \ {0}, NEW on \in SUBSET ShownQueue,
             Seen(fs, r, on)
      PROVE  BrowserIInv'
  <2>1. StreamIsRetried'
    BY <1>4, Zenon DEF BrowserIInv, StreamIsRetried, Seen, streamVars
  <2> QED BY <1>4, <2>1, EvaluateType, EvaluateSees, EvaluateAlerts DEF BrowserIInv
<1>5. CASE UNCHANGED browserVars
  BY <1>5 DEF BrowserIInv, browserVars, streamVars, alertVars, BrowserTypeOK, StreamIsRetried, LevelsSeen,
              RedIsAlerted, Level
<1> QED BY <1>1, <1>2, <1>3, <1>4, <1>5, BrowserSteps DEF BrowserIInv

-----------------------------------------------------------------------------

(* What the hooks hold keeps its types.                                      *)
THEOREM BrowserTypeCorrect == BrowserSpec => []BrowserTypeOK
<1>1. BrowserIInv => BrowserTypeOK
  BY DEF BrowserIInv
<1>2. BrowserIInv /\ [BrowserNext]_browserVars => BrowserIInv'
  BY BrowserStep
<1> QED BY <1>1, <1>2, BrowserInitIInv, PTL DEF BrowserSpec

(* A page that is shown has a stream or will open one; one that is not shown *)
(* leaves neither behind.                                                    *)
THEOREM StreamComesBack == BrowserSpec => []StreamIsRetried
<1>1. BrowserIInv => StreamIsRetried
  BY DEF BrowserIInv
<1>2. BrowserIInv /\ [BrowserNext]_browserVars => BrowserIInv'
  BY BrowserStep
<1> QED BY <1>1, <1>2, BrowserInitIInv, PTL DEF BrowserSpec

(* For any number of queues and any debounce time: no queue turns red with   *)
(* its alerts on unless an alert of the metric sounds then or did so less    *)
(* than the debounce time before.                                            *)
THEOREM RedIsHeard == BrowserSpec => []RedIsAlerted
<1>1. BrowserIInv => RedIsAlerted
  BY DEF BrowserIInv
<1>2. BrowserIInv /\ [BrowserNext]_browserVars => BrowserIInv'
  BY BrowserStep
<1> QED BY <1>1, <1>2, BrowserInitIInv, PTL DEF BrowserSpec

-----------------------------------------------------------------------------
(***************************************************************************)
(* PhoneClient: a call to the phone system is executed once.               *)
(***************************************************************************)

(* A call has not been executed before its last answer, and the token of a   *)
(* request that is repeated was granted after the first was given up.        *)
CallRecord == [stage : {"new"} \cup Waiting \cup EndStages, second : BOOLEAN,
               uses : Era, since : Era, executed : 0..2]

CallInOrder(c, call) ==
    /\ call.executed <= 1 /\ call.since <= tokenEra
    /\ call.stage = "new" => ~call.second
    /\ call.stage \notin EndStages => call.executed = 0
    /\ c \in Request /\ call.stage = "done" => call.executed = 1
    /\ call.stage = "refused" => tokenEra > call.since
    /\ c \in Request /\ call.stage = "sent" =>
          call.uses <= tokenEra /\ (call.second => call.since <= call.uses)

ClientIInv ==
    /\ {tokenEra, sessionEra} \subseteq Era
    /\ {cachedToken, cachedSession} \subseteq Era \cup {Uncached}
    /\ cachedToken # Uncached => cachedToken <= tokenEra
    /\ calls \in [Call -> CallRecord]
    /\ \A c \in Call : CallInOrder(c, calls[c])

LEMMA ClientEras == Era \subseteq Int /\ 0 \in Era /\ Uncached \notin Era /\ MaxEra \in Nat
BY PhoneClientAssumption DEF Era

LEMMA ClientInitIInv == ClientInit => ClientIInv
<1> SUFFICES ASSUME ClientInit PROVE ClientIInv
  OBVIOUS
<1>1. NewCall \in CallRecord
  BY ClientEras DEF NewCall, CallRecord
<1>2. \A c \in Call : CallInOrder(c, NewCall)
  BY DEF NewCall, CallInOrder, ClientInit, EndStages
<1> QED BY <1>1, <1>2, ClientEras DEF ClientInit, ClientIInv, CallInOrder

(* A step of one call, that leaves the eras alone.                           *)
LEMMA ClientBecomes ==
    ASSUME ClientIInv, NEW c \in Call, NEW call \in CallRecord,
           Becomes(c, call), CallInOrder(c, call),
           UNCHANGED <<tokenEra, sessionEra>>,
           cachedToken' \in {cachedToken, Uncached} \cup {t \in Era : t <= tokenEra},
           cachedSession' \in {cachedSession, Uncached, sessionEra}
    PROVE  ClientIInv'
<1>1. calls' \in [Call -> CallRecord] /\ \A d \in Call : calls'[d] = IF d = c THEN call ELSE calls[d]
  BY DEF Becomes, ClientIInv
<1>2. \A d \in Call : CallInOrder(d, calls[d])'
  BY <1>1 DEF ClientIInv, CallInOrder
<1> QED BY <1>1, <1>2 DEF ClientIInv

(* The calls that go on with a token, or wait for one.                       *)
LEMMA ClientWithToken ==
    ASSUME ClientIInv, NEW c \in Call, NEW call \in CallRecord, NEW token \in Era,
           token <= tokenEra, call.second /\ c \in Request => call.since <= token,
           call.since <= tokenEra, call.executed = 0,
           WithToken(c, call, token),
           UNCHANGED <<tokenEra, sessionEra>>, cachedToken' \in {cachedToken, token},
           UNCHANGED cachedSession \/ cachedSession' = Uncached
    PROVE  ClientIInv'
<1> DEFINE new == [call EXCEPT !.stage = IF c \in Request THEN "sent" ELSE "session", !.uses = token]
<1>1. new \in CallRecord
  BY DEF CallRecord, Waiting
<1>2. CallInOrder(c, new)
  BY ClientEras DEF CallInOrder, CallRecord, EndStages, ClientIInv
<1>3. Becomes(c, new)
  BY DEF WithToken
<1> HIDE DEF new
<1> QED BY <1>1, <1>2, <1>3, ClientBecomes

LEMMA ClientLogsIn ==
    ASSUME ClientIInv, NEW c \in Call, NEW call \in CallRecord,
           call.since <= tokenEra, call.executed = 0,
           Becomes(c, [call EXCEPT !.stage = "login"]),
           UNCHANGED <<tokenEra, sessionEra>>, cachedToken' \in {cachedToken, Uncached},
           UNCHANGED cachedSession \/ cachedSession' = Uncached
    PROVE  ClientIInv'
<1> DEFINE new == [call EXCEPT !.stage = "login"]
<1>1. new \in CallRecord
  BY DEF CallRecord, Waiting
<1>2. CallInOrder(c, new)
  BY DEF CallInOrder, CallRecord, EndStages
<1> HIDE DEF new
<1> QED BY <1>1, <1>2, ClientBecomes DEF new

LEMMA ClientAuthenticates ==
    ASSUME ClientIInv, NEW c \in Call, NEW call \in CallRecord,
           call.second => c \notin Request,
           call.since <= tokenEra, call.executed = 0,
           Authenticate(c, call),
           UNCHANGED <<tokenEra, sessionEra, cachedToken>>,
           UNCHANGED cachedSession \/ cachedSession' = Uncached
    PROVE  ClientIInv'
<1>1. CASE cachedToken # Uncached
  BY <1>1, ClientWithToken DEF Authenticate, ClientIInv
<1>2. CASE cachedToken = Uncached
  BY <1>2, ClientLogsIn DEF Authenticate
<1> QED BY <1>1, <1>2

LEMMA ClientWithSession ==
    ASSUME ClientIInv, NEW m \in Call, m \notin Request, NEW call \in CallRecord,
           call.since <= tokenEra, call.executed = 0,
           NEW token \in {cachedSession, Uncached}, WithSession(m, call, token),
           UNCHANGED <<tokenEra, sessionEra, cachedToken>>,
           UNCHANGED cachedSession \/ cachedSession' = Uncached
    PROVE  ClientIInv'
<1>1. CASE token # Uncached
  <2> DEFINE new == [call EXCEPT !.stage = "sent", !.uses = token]
  <2>1. token \in Era
    BY <1>1 DEF ClientIInv
  <2>2. new \in CallRecord /\ CallInOrder(m, new)
    <3>1. new \in CallRecord
      BY <2>1 DEF CallRecord, Waiting
    <3>2. new.stage = "sent" /\ new.executed = 0 /\ new.since = call.since
      BY DEF CallRecord
    <3> QED BY <3>1, <3>2 DEF CallInOrder, EndStages
  <2>3. Becomes(m, new)
    BY <1>1 DEF WithSession
  <2> HIDE DEF new
  <2> QED BY <2>2, <2>3, ClientBecomes
<1>2. CASE token = Uncached
  BY <1>2, ClientAuthenticates DEF WithSession
<1> QED BY <1>1, <1>2

LEMMA StageRecord ==
    ASSUME NEW call \in CallRecord, NEW stage \in EndStages
    PROVE  LET new == [call EXCEPT !.stage = stage]
           IN  /\ new \in CallRecord /\ new.stage = stage
               /\ new.executed = call.executed /\ new.since = call.since
BY DEF CallRecord

LEMMA ExecutedRecord ==
    ASSUME NEW call \in CallRecord, call.executed = 0, NEW answered \in BOOLEAN
    PROVE  LET new == [call EXCEPT !.executed = @ + 1,
                                   !.stage = IF answered THEN "done" ELSE "failed"]
           IN  /\ new \in CallRecord /\ new.stage \in {"done", "failed"}
               /\ new.executed = 1 /\ new.since = call.since
<1>1. PICK stage \in {"done", "failed"} : stage = IF answered THEN "done" ELSE "failed"
  OBVIOUS
<1>2. PICK one \in 0..2 : one = call.executed + 1 /\ one = 1
  OBVIOUS
<1>3. stage \in EndStages
  BY DEF EndStages
<1>4. LET new == [call EXCEPT !.executed = one, !.stage = stage]
      IN  new \in CallRecord /\ new.stage = stage /\ new.executed = one /\ new.since = call.since
  BY <1>3 DEF CallRecord
<1> QED BY <1>1, <1>2, <1>4

(* The calls that end.                                                       *)
LEMMA ClientEnds ==
    ASSUME ClientIInv, NEW c \in Call, NEW call \in CallRecord, Becomes(c, call),
           call.stage \in EndStages, call.executed \in 0..1, call.since = calls[c].since,
           c \in Request /\ call.stage = "done" => call.executed = 1,
           call.stage = "refused" => tokenEra > calls[c].since,
           UNCHANGED <<tokenEra, sessionEra>>, cachedToken' \in {cachedToken, Uncached},
           UNCHANGED cachedSession \/ cachedSession' = Uncached
    PROVE  ClientIInv'
<1>1. CallInOrder(c, calls[c])
  BY DEF ClientIInv
<1>2. CallInOrder(c, call)
  BY <1>1 DEF CallInOrder, CallRecord, EndStages
<1> QED BY <1>2, ClientBecomes

LEMMA ClientStep == ClientIInv /\ [ClientNext]_clientVars => ClientIInv'
<1> SUFFICES ASSUME ClientIInv, [ClientNext]_clientVars PROVE ClientIInv'
  OBVIOUS
<1> USE ClientEras
<1>1. \A c \in Call : calls[c] \in CallRecord /\ CallInOrder(c, calls[c])
  BY DEF ClientIInv
<1>2. Request \subseteq Call /\ Command \subseteq Call /\ Request \cap Command = {}
  BY PhoneClientAssumption DEF Call
<1>3. ASSUME NEW c \in Call, NEW again \in BOOLEAN
      PROVE  LET call == [calls[c] EXCEPT !.second = again, !.since = tokenEra]
             IN  /\ call \in CallRecord /\ call.second = again /\ call.since = tokenEra
                 /\ call.executed = calls[c].executed
  BY <1>1 DEF CallRecord, ClientIInv
<1>4. ASSUME NEW c \in Call
      PROVE  LET call == [calls[c] EXCEPT !.since = tokenEra]
             IN  /\ call \in CallRecord /\ call.second = calls[c].second /\ call.since = tokenEra
                 /\ call.executed = calls[c].executed
  BY <1>1 DEF CallRecord, ClientIInv
<1>5. \A c \in Call : calls[c].stage \notin EndStages => calls[c].executed = 0
  BY <1>1 DEF CallInOrder
<1>6. tokenEra <= tokenEra /\ tokenEra \in Era /\ sessionEra \in Era
  <2>1. tokenEra \in Era /\ sessionEra \in Era
    BY DEF ClientIInv
  <2> QED BY <2>1
<1>7. ASSUME NEW r \in Request, BeginRequest(r) PROVE ClientIInv'
  <2> DEFINE call == [calls[r] EXCEPT !.since = tokenEra]
  <2>1. call \in CallRecord /\ call.executed = 0 /\ call.since <= tokenEra /\ ~call.second
    BY <1>1, <1>2, <1>4, <1>5, <1>6, <1>7 DEF BeginRequest, CallInOrder, EndStages
  <2>2. Authenticate(r, call) /\ UNCHANGED <<tokenEra, sessionEra, cachedToken, cachedSession>>
    BY <1>7 DEF BeginRequest
  <2> HIDE DEF call
  <2> QED BY <1>2, <2>1, <2>2, ClientAuthenticates
<1>8. ASSUME NEW r \in Request, NEW answered \in BOOLEAN, RequestExecuted(r, answered) PROVE ClientIInv'
  <2> DEFINE call == [calls[r] EXCEPT !.executed = @ + 1,
                                    !.stage = IF answered THEN "done" ELSE "failed"]
  <2>1. calls[r].executed = 0 /\ calls[r] \in CallRecord
    BY <1>1, <1>2, <1>5, <1>8 DEF RequestExecuted, EndStages
  <2>2. call \in CallRecord /\ call.stage \in {"done", "failed"} /\ call.executed = 1
        /\ call.since = calls[r].since
    BY <2>1, ExecutedRecord DEF EndStages
  <2>3. Becomes(r, call) /\ UNCHANGED <<tokenEra, sessionEra, cachedToken, cachedSession>>
    BY <1>8 DEF RequestExecuted
  <2> HIDE DEF call
  <2>4. call.stage \in EndStages /\ call.executed \in 0..1
    BY <2>2 DEF EndStages
  <2> QED BY <1>2, <2>2, <2>3, <2>4, ClientEnds
<1>9. ASSUME NEW r \in Request, RequestRefused(r) PROVE ClientIInv'
  <2>1. calls[r].executed = 0 /\ calls[r] \in CallRecord /\ CallInOrder(r, calls[r])
    BY <1>1, <1>2, <1>5, <1>9 DEF RequestRefused, EndStages
  <2>2. CASE calls[r].second
    <3>1. tokenEra > calls[r].since
      BY <1>2, <1>6, <1>9, <2>1, <2>2 DEF RequestRefused, CallInOrder, CallRecord
    <3> DEFINE call == [calls[r] EXCEPT !.stage = "refused"]
    <3>2. call \in CallRecord /\ call.stage = "refused" /\ call.executed = 0
          /\ call.since = calls[r].since
      BY <2>1, StageRecord DEF EndStages
    <3>3. Becomes(r, call) /\ UNCHANGED <<tokenEra, sessionEra, cachedToken, cachedSession>>
      BY <1>9, <2>2 DEF RequestRefused, Ended
    <3> HIDE DEF call
    <3>4. call.stage \in EndStages /\ call.executed \in 0..1
      BY <3>2 DEF EndStages
    <3> QED BY <1>2, <3>1, <3>2, <3>3, <3>4, ClientEnds
  <2>3. CASE ~calls[r].second
    <3> DEFINE call == [calls[r] EXCEPT !.second = TRUE, !.since = tokenEra]
    <3>1. call \in CallRecord /\ call.since <= tokenEra /\ call.executed = 0
      BY <1>2, <1>3, <1>6, <2>1
    <3>2. Becomes(r, [call EXCEPT !.stage = "login"])
      BY <1>9, <2>1, <2>3 DEF RequestRefused, Becomes, CallRecord
    <3> HIDE DEF call
    <3> QED BY <1>2, <1>9, <2>3, <3>1, <3>2, ClientLogsIn DEF RequestRefused
  <2> QED BY <2>2, <2>3
<1>10. ASSUME NEW m \in Command, BeginCommand(m) PROVE ClientIInv'
  <2> DEFINE call == [calls[m] EXCEPT !.since = tokenEra]
  <2>1. call \in CallRecord /\ call.executed = 0 /\ call.since <= tokenEra /\ m \notin Request
    BY <1>1, <1>2, <1>4, <1>5, <1>6, <1>10 DEF BeginCommand, EndStages
  <2>2. WithSession(m, call, cachedSession) /\ UNCHANGED <<tokenEra, sessionEra, cachedToken, cachedSession>>
    BY <1>10 DEF BeginCommand
  <2> HIDE DEF call
  <2> QED BY <1>2, <2>1, <2>2, ClientWithSession
<1>11. ASSUME NEW m \in Command, SessionGranted(m) PROVE ClientIInv'
  <2> DEFINE call == [calls[m] EXCEPT !.stage = "sent", !.uses = sessionEra]
  <2>1. calls[m] \in CallRecord /\ CallInOrder(m, calls[m]) /\ m \notin Request /\ m \in Call
        /\ calls[m].executed = 0
    BY <1>1, <1>2, <1>5, <1>11 DEF SessionGranted, EndStages
  <2>2. call \in CallRecord /\ CallInOrder(m, call)
    BY <1>6, <2>1 DEF CallRecord, CallInOrder, EndStages, Waiting
  <2>3. Becomes(m, call) /\ UNCHANGED <<tokenEra, sessionEra, cachedToken>> /\ cachedSession' = sessionEra
    BY <1>11 DEF SessionGranted
  <2> HIDE DEF call
  <2> QED BY <2>1, <2>2, <2>3, ClientBecomes
<1>12. ASSUME NEW c \in Call, calls[c].stage \in Waiting, Ended(c, "failed"),
              UNCHANGED <<tokenEra, sessionEra>>, cachedToken' \in {cachedToken, Uncached},
              UNCHANGED cachedSession \/ cachedSession' = Uncached
       PROVE  ClientIInv'
  <2> DEFINE call == [calls[c] EXCEPT !.stage = "failed"]
  <2>1. calls[c].executed = 0 /\ calls[c] \in CallRecord
    BY <1>1, <1>5, <1>12 DEF Waiting, EndStages
  <2>2. call \in CallRecord /\ call.stage = "failed" /\ call.executed = 0 /\ call.since = calls[c].since
    BY <2>1, StageRecord DEF EndStages
  <2>3. Becomes(c, call)
    BY <1>12 DEF Ended
  <2> HIDE DEF call
  <2>4. call.stage \in EndStages /\ call.executed \in 0..1
    BY <2>2 DEF EndStages
  <2> QED BY <1>12, <2>2, <2>3, <2>4, ClientEnds
<1>13. ASSUME NEW m \in Command, SessionRefused(m) PROVE ClientIInv'
  BY <1>2, <1>12, <1>13 DEF SessionRefused, Waiting
<1>14. ASSUME NEW m \in Command, NEW answered \in BOOLEAN, CommandExecuted(m, answered) PROVE ClientIInv'
  <2> DEFINE call == [calls[m] EXCEPT !.executed = @ + 1,
                                    !.stage = IF answered THEN "done" ELSE "failed"]
  <2>1. calls[m].executed = 0 /\ calls[m] \in CallRecord
    BY <1>1, <1>2, <1>5, <1>14 DEF CommandExecuted, EndStages
  <2>2. call \in CallRecord /\ call.stage \in {"done", "failed"} /\ call.executed = 1
        /\ call.since = calls[m].since
    BY <2>1, ExecutedRecord DEF EndStages
  <2>3. Becomes(m, call) /\ UNCHANGED <<tokenEra, sessionEra, cachedToken, cachedSession>>
    BY <1>14 DEF CommandExecuted
  <2> HIDE DEF call
  <2>4. call.stage \in EndStages /\ call.executed \in 0..1
    BY <2>2 DEF EndStages
  <2> QED BY <1>2, <2>2, <2>3, <2>4, ClientEnds
<1>21. ASSUME NEW m \in Command, CommandIgnored(m) PROVE ClientIInv'
  <2> DEFINE call == [calls[m] EXCEPT !.stage = "done"]
  <2>1. calls[m].executed = 0 /\ calls[m] \in CallRecord /\ m \notin Request
    BY <1>1, <1>2, <1>5, <1>21 DEF CommandIgnored, EndStages
  <2>2. call \in CallRecord /\ call.stage = "done" /\ call.executed = 0 /\ call.since = calls[m].since
    BY <2>1, StageRecord DEF EndStages
  <2>3. Becomes(m, call) /\ UNCHANGED <<tokenEra, sessionEra, cachedToken, cachedSession>>
    BY <1>21 DEF CommandIgnored, Ended
  <2> HIDE DEF call
  <2>4. call.stage \in EndStages /\ call.executed \in 0..1 /\ call.stage # "refused"
    BY <2>2 DEF EndStages
  <2> QED BY <1>2, <2>1, <2>2, <2>3, <2>4, ClientEnds
<1>15. ASSUME NEW m \in Command, CommandRefused(m) PROVE ClientIInv'
  <2>1. CASE calls[m].second
    BY <1>2, <1>12, <1>15, <2>1 DEF CommandRefused, Waiting
  <2>2. CASE ~calls[m].second
    <3> DEFINE call == [calls[m] EXCEPT !.second = TRUE, !.since = tokenEra]
    <3>1. call \in CallRecord /\ call.executed = 0 /\ call.since <= tokenEra /\ m \notin Request
      BY <1>1, <1>2, <1>3, <1>5, <1>6, <1>15 DEF CommandRefused, EndStages
    <3>2. WithSession(m, call, Uncached) /\ UNCHANGED <<tokenEra, sessionEra, cachedToken>>
          /\ cachedSession' = Uncached
      BY <1>15, <2>2 DEF CommandRefused
    <3> HIDE DEF call
    <3> QED BY <1>2, <3>1, <3>2, ClientWithSession
  <2> QED BY <2>1, <2>2
<1>16. ASSUME NEW c \in Call, CallFails(c) PROVE ClientIInv'
  BY <1>12, <1>16 DEF CallFails
<1>17. ASSUME NEW c \in Call, NEW token \in Era, LoggedIn(c, token) PROVE ClientIInv'
  <2>1. calls[c] \in CallRecord /\ calls[c].executed = 0 /\ CallInOrder(c, calls[c])
    BY <1>1, <1>5, <1>17 DEF LoggedIn, EndStages
  <2>2. calls[c].since <= token /\ token <= tokenEra /\ calls[c].since <= tokenEra
    BY <1>6, <1>17, <2>1 DEF LoggedIn, CallRecord, CallInOrder
  <2> QED BY <1>17, <2>1, <2>2, ClientWithToken DEF LoggedIn
<1>18. CASE TokenAges \/ SessionAges \/ UNCHANGED clientVars
  BY <1>18 DEF TokenAges, SessionAges, clientVars, ClientIInv, CallInOrder
<1>19. CASE TokensEnd
  <2>1. tokenEra' \in Era /\ tokenEra' = tokenEra + 1
    BY <1>6, <1>19 DEF TokensEnd, Era
  <2>2. \A t \in Era : t <= tokenEra => t <= tokenEra' /\ (tokenEra > t => tokenEra' > t)
    BY <1>6, <2>1
  <2>3. \A c \in Call : CallInOrder(c, calls[c])'
    BY <1>1, <1>19, <2>2 DEF TokensEnd, CallInOrder, CallRecord
  <2>4. cachedToken' # Uncached => cachedToken' <= tokenEra'
    BY <1>19, <2>2 DEF TokensEnd, ClientIInv
  <2> QED BY <1>6, <1>19, <2>1, <2>3, <2>4 DEF TokensEnd, ClientIInv
<1>20. CASE SessionsEnd
  <2>1. sessionEra' \in Era
    BY <1>6, <1>20 DEF SessionsEnd, Era
  <2> QED BY <1>20, <2>1 DEF SessionsEnd, ClientIInv, CallInOrder
<1> QED BY <1>7, <1>8, <1>9, <1>10, <1>11, <1>13, <1>14, <1>15, <1>16, <1>17, <1>18, <1>19, <1>20,
         <1>21
        DEF ClientNext

(* The types of PhoneClient: no cached token or session is of an era to come. *)
THEOREM ClientTypeCorrect == ClientSpec => []ClientTypeOK
<1>1. ClientIInv => ClientTypeOK
  BY DEF ClientIInv, ClientTypeOK, CallRecord
<1> QED BY <1>1, ClientInitIInv, ClientStep, PTL DEF ClientSpec

(* Requests and commands share a token and a session that any of them, their *)
(* age or the phone system may end at any time, and each repeats itself: none *)
(* is executed twice, a request reported as done was done, and a request     *)
(* gives up only after a second refusal that the phone system's giving up    *)
(* its tokens again explains.                                                *)
THEOREM ClientCallsOnce == ClientSpec => []CallsAreExecutedOnce
<1>1. ClientIInv => CallsAreExecutedOnce
  BY DEF ClientIInv, CallInOrder, CallsAreExecutedOnce, Call
<1> QED BY <1>1, ClientInitIInv, ClientStep, PTL DEF ClientSpec

-----------------------------------------------------------------------------
(***************************************************************************)
(* ThresholdsPage: the form of the thresholds, saved more than once.       *)
(***************************************************************************)

Limits     == [yellow : Limit \cup {Blank}, red : Limit \cup {Blank}]
LimitsRow  == [values : Limits, id : Nat] \cup {NoRow}
LimitsSent == [stage : {"none", "sent", "found", "written"}, scope : Scope,
               values : Limits \cup {NoValues}, id : Nat]

ThresholdTypes ==
    /\ rows \in [Scope -> LimitsRow] /\ lastId \in Nat
    /\ shownRows \in [Scope -> LimitsRow] \cup {<<>>}
    /\ {pending, meant} \subseteq [Scope -> Limits \cup {NoValues}]
    /\ {upsert, reset} \subseteq LimitsSent
    /\ upsert.stage \in {"sent", "found"} => upsert.values \in Limits
    /\ reading.stage \in {"none", "asked", "answered"}
    /\ reading.stage = "answered" => reading.data \in [Scope -> LimitsRow]

(* A mutation is under way in the scope, and has yet to write there.         *)
UnderWayIn(m, s)  == m.stage # "none" /\ m.scope = s
YetToWrite(m, s)  == m.stage \in {"sent", "found"} /\ m.scope = s

(* What is shown of a scope, and what is on its way to the page, is what is  *)
(* stored, unless a mutation has just written the scope: it will have the    *)
(* thresholds fetched again.                                                 *)
Rewritten(s) ==
    \/ upsert.stage = "written" /\ upsert.scope = s
    \/ reset.stage = "written" /\ reset.scope = s

ScopeIsShown(s) ==
    ~Rewritten(s) =>
       /\ reading.stage = "none" => shownRows \in [Scope -> LimitsRow] /\ shownRows[s] = rows[s]
       /\ reading.stage = "answered" => reading.data[s] = rows[s]

(* What was meant for a scope is in its edit, in the mutation under way, the *)
(* only one, or in its row.                                                  *)
ScopeIsMeant(s) ==
    /\ ~(UnderWayIn(upsert, s) /\ UnderWayIn(reset, s))
    /\ pending[s] # NoValues =>
         pending[s] = meant[s] /\ ~UnderWayIn(upsert, s) /\ ~UnderWayIn(reset, s)
    /\ YetToWrite(upsert, s) => upsert.values = meant[s]
    /\ YetToWrite(reset, s) => meant[s] = NoValues
    /\ pending[s] = NoValues /\ ~YetToWrite(upsert, s) /\ ~YetToWrite(reset, s) =>
         rows[s].values = meant[s]

ThresholdsIInv ==
    /\ ThresholdTypes
    /\ ~lost => /\ \A s \in Scope : ScopeIsShown(s)
                /\ \A s \in Scope \ early : ScopeIsMeant(s)

LEMMA LimitsRows ==
    ASSUME NEW r \in LimitsRow
    PROVE  /\ r.values \in Limits \cup {NoValues} /\ r.id \in Nat
           /\ r # NoRow => r.values \in Limits
           /\ r.values # NoValues => r # NoRow
<1>1. NoRow.values = NoValues /\ NoRow.id = 0
  BY DEF NoRow
<1> QED BY <1>1 DEF LimitsRow

LEMMA ThresholdsInitIInv == ThresholdsInit => ThresholdsIInv
<1> SUFFICES ASSUME ThresholdsInit PROVE ThresholdsIInv
  OBVIOUS
<1>1. PICK some \in SUBSET Scope, l \in Limit :
        rows = [s \in Scope |-> IF s \in some THEN [values |-> [yellow |-> l, red |-> l], id |-> 1] ELSE NoRow]
  BY DEF ThresholdsInit
<1>2. [values |-> [yellow |-> l, red |-> l], id |-> 1] \in LimitsRow /\ NoRow \in LimitsRow
  BY DEF LimitsRow, Limits, NoRow
<1>3. rows \in [Scope -> LimitsRow]
  BY <1>1, <1>2
<1>4. \A s \in Scope : rows[s].values \in Limits \cup {NoValues}
  <2> TAKE s \in Scope
  <2> PICK r \in LimitsRow : r = rows[s]
    BY <1>3
  <2> QED BY LimitsRows
<1>5. NothingUnderWay \in LimitsSent /\ NothingUnderWay.stage = "none"
  BY ThresholdsPageAssumption DEF NothingUnderWay, LimitsSent
<1>6. Reading("asked").stage = "asked"
  BY DEF Reading
<1>7. ThresholdTypes
  BY <1>3, <1>4, <1>5, <1>6 DEF ThresholdsInit, ThresholdTypes
<1>8. ASSUME NEW s \in Scope PROVE ScopeIsShown(s) /\ ScopeIsMeant(s)
  <2>1. upsert.stage = "none" /\ reset.stage = "none" /\ reading.stage = "asked"
        /\ pending[s] = NoValues /\ meant[s] = rows[s].values
    BY <1>5, <1>6 DEF ThresholdsInit
  <2> QED BY <2>1 DEF ScopeIsShown, Rewritten, ScopeIsMeant, UnderWayIn, YetToWrite
<1> QED BY <1>7, <1>8 DEF ThresholdsIInv

-----------------------------------------------------------------------------
(* The administrator.                                                        *)

LEMMA ThresholdEdited ==
    ASSUME ThresholdsIInv, NEW s \in Scope, NEW field \in {"yellow", "red"},
           NEW value \in Limit \cup {Blank}, EditLimit(s, field, value)
    PROVE  ThresholdsIInv'
<1> DEFINE shown == ValuesShown(s)
           before == IF meant[s] = NoValues THEN shown ELSE meant[s]
           edit == [shown EXCEPT ![field] = value]
           wish == [before EXCEPT ![field] = value]
<1>1. /\ ThresholdTypes /\ shownRows \in [Scope -> LimitsRow]
      /\ pending \in [Scope -> Limits \cup {NoValues}] /\ meant \in [Scope -> Limits \cup {NoValues}]
  BY DEF EditLimit, Step, ThresholdsIInv, ThresholdTypes
<1>2. shown \in Limits
  <2>1. Blanks \in Limits
    BY DEF Blanks, Limits
  <2>2. PICK r \in LimitsRow : r = shownRows[s]
    BY <1>1
  <2>3. PICK g \in LimitsRow : g = shownRows[Global]
    BY <1>1, ThresholdsPageAssumption
  <2>4. (r # NoRow => r.values \in Limits) /\ (g # NoRow => g.values \in Limits)
    BY LimitsRows
  <2> QED BY <1>1, <2>1, <2>2, <2>3, <2>4 DEF ValuesShown
<1>3. before \in Limits /\ (meant[s] # NoValues => before = meant[s])
  BY <1>1, <1>2
<1> HIDE DEF shown, before
<1>4. edit \in Limits /\ wish \in Limits
  <2>1. CASE field = "yellow"
    BY <1>2, <1>3, <2>1 DEF Limits
  <2>2. CASE field = "red"
    BY <1>2, <1>3, <2>2 DEF Limits
  <2> QED BY <2>1, <2>2
<1>5. before = shown => edit = wish
  OBVIOUS
<1>6. pending' = [pending EXCEPT ![s] = edit] /\ meant' = [meant EXCEPT ![s] = wish]
  BY DEF EditLimit, shown, before
<1>7. /\ UNCHANGED <<rows, lastId, shownRows, upsert, reset, reading, lost>> /\ early \subseteq early'
      /\ s \notin early' => ~MayBeBehind(s)
  BY DEF EditLimit, Touches
<1> HIDE DEF edit, wish
<1>8. ThresholdTypes'
  BY <1>1, <1>4, <1>6, <1>7 DEF ThresholdTypes
<1>9. ASSUME ~lost, NEW t \in Scope PROVE ScopeIsShown(t)'
  BY <1>7, <1>9 DEF ThresholdsIInv, ScopeIsShown, Rewritten
<1>10. ASSUME ~lost, NEW t \in Scope, t \notin early' PROVE ScopeIsMeant(t)'
  <2>1. ScopeIsMeant(t) /\ ScopeIsShown(t)
    BY <1>7, <1>10 DEF ThresholdsIInv
  <2>2. CASE t # s
    BY <1>1, <1>6, <1>7, <2>1, <2>2 DEF ScopeIsMeant, UnderWayIn, YetToWrite
  <2>3. CASE t = s
    <3>1. /\ reading.stage = "none" /\ ~UnderWayIn(upsert, s) /\ ~UnderWayIn(reset, s)
          /\ ~YetToWrite(upsert, s) /\ ~YetToWrite(reset, s)
      BY <1>7, <1>10, <2>3 DEF MayBeBehind, UnderWayIn, Idle, YetToWrite
    <3>2. shownRows[s] = rows[s]
      <4>1. ~Rewritten(s)
        BY <3>1 DEF UnderWayIn, Rewritten
      <4> QED BY <2>1, <2>3, <3>1, <4>1 DEF ScopeIsShown, Rewritten
    <3>3. meant[s] # NoValues => shown = meant[s]
      <4>1. CASE pending[s] # NoValues
        BY <2>1, <2>3, <4>1 DEF ScopeIsMeant, ValuesShown, shown
      <4>2. CASE pending[s] = NoValues
        <5>1. rows[s].values = meant[s] /\ rows[s] \in LimitsRow
          BY <1>1, <2>1, <2>3, <3>1, <4>2 DEF ScopeIsMeant, ThresholdTypes
        <5>2. PICK r \in LimitsRow : r = rows[s]
          BY <5>1
        <5>3. r.values # NoValues => r # NoRow
          BY LimitsRows
        <5> QED BY <3>2, <4>2, <5>1, <5>2, <5>3 DEF ValuesShown, shown
      <4> QED BY <4>1, <4>2
    <3>4. edit = wish
      BY <1>5, <3>3 DEF before
    <3>5. pending'[s] = wish /\ meant'[s] = wish /\ wish # NoValues
      BY <1>1, <1>4, <1>6, <3>4, ThresholdsPageAssumption DEF Limits
    <3> QED BY <1>7, <2>3, <3>1, <3>5 DEF ScopeIsMeant, UnderWayIn, YetToWrite
  <2> QED BY <2>2, <2>3
<1> QED BY <1>7, <1>8, <1>9, <1>10 DEF ThresholdsIInv

LEMMA ThresholdSent ==
    ASSUME ThresholdsIInv, NEW s \in Scope, SaveEdit(s)
    PROVE  ThresholdsIInv'
<1>1. /\ ThresholdTypes /\ upsert.stage = "none" /\ pending[s] # NoValues /\ pending[s] \in Limits
      /\ pending \in [Scope -> Limits \cup {NoValues}]
  BY DEF SaveEdit, Idle, ThresholdsIInv, ThresholdTypes
<1> DEFINE sent == [stage |-> "sent", scope |-> s, values |-> pending[s], id |-> 0]
<1>2. sent \in LimitsSent /\ sent.stage = "sent" /\ sent.scope = s /\ sent.values = pending[s]
  BY <1>1 DEF LimitsSent
<1>3. upsert' = sent /\ pending' = [pending EXCEPT ![s] = NoValues]
      /\ UNCHANGED <<rows, lastId, shownRows, reset, reading, meant, early, lost>>
  BY DEF SaveEdit
<1> HIDE DEF sent
<1>4. ThresholdTypes'
  BY <1>1, <1>2, <1>3 DEF ThresholdTypes
<1>5. ASSUME ~lost, NEW t \in Scope PROVE ScopeIsShown(t)'
  BY <1>1, <1>2, <1>3, <1>5 DEF ThresholdsIInv, ScopeIsShown, Rewritten
<1>6. ASSUME ~lost, NEW t \in Scope, t \notin early PROVE ScopeIsMeant(t)'
  <2>1. ScopeIsMeant(t)
    BY <1>6 DEF ThresholdsIInv
  <2>2. CASE t = s
    BY <1>1, <1>2, <1>3, <2>1, <2>2 DEF ScopeIsMeant, UnderWayIn, YetToWrite
  <2>3. CASE t # s
    BY <1>1, <1>2, <1>3, <2>1, <2>3 DEF ScopeIsMeant, UnderWayIn, YetToWrite
  <2> QED BY <2>2, <2>3
<1> QED BY <1>3, <1>4, <1>5, <1>6 DEF ThresholdsIInv

LEMMA ThresholdReset ==
    ASSUME ThresholdsIInv, NEW s \in Scope, ResetToGlobal(s)
    PROVE  ThresholdsIInv'
<1>1. /\ ThresholdTypes /\ reset.stage = "none" /\ shownRows \in [Scope -> LimitsRow]
      /\ pending \in [Scope -> Limits \cup {NoValues}] /\ meant \in [Scope -> Limits \cup {NoValues}]
  BY DEF ResetToGlobal, Step, Idle, ThresholdsIInv, ThresholdTypes
<1> DEFINE sent == [stage |-> "sent", scope |-> s, values |-> NoValues, id |-> shownRows[s].id]
<1>2. sent \in LimitsSent /\ sent.stage = "sent" /\ sent.scope = s
  <2>1. PICK r \in LimitsRow : r = shownRows[s]
    BY <1>1
  <2>2. shownRows[s].id \in Nat
    BY <2>1, LimitsRows
  <2> QED BY <2>2 DEF LimitsSent
<1>3. /\ reset' = sent /\ pending' = [pending EXCEPT ![s] = NoValues]
      /\ meant' = [meant EXCEPT ![s] = NoValues]
      /\ UNCHANGED <<rows, lastId, shownRows, upsert, reading, lost>> /\ early \subseteq early'
      /\ s \notin early' => ~MayBeBehind(s)
  BY DEF ResetToGlobal, Touches
<1> HIDE DEF sent
<1>4. ThresholdTypes'
  BY <1>1, <1>2, <1>3 DEF ThresholdTypes
<1>5. ASSUME ~lost, NEW t \in Scope PROVE ScopeIsShown(t)'
  BY <1>1, <1>2, <1>3, <1>5 DEF ThresholdsIInv, ScopeIsShown, Rewritten
<1>6. ASSUME ~lost, NEW t \in Scope, t \notin early' PROVE ScopeIsMeant(t)'
  <2>1. ScopeIsMeant(t)
    BY <1>3, <1>6 DEF ThresholdsIInv
  <2>2. CASE t = s
    <3>1. ~UnderWayIn(upsert, s) /\ ~YetToWrite(upsert, s)
      BY <1>3, <1>6, <2>2 DEF MayBeBehind, UnderWayIn, YetToWrite, Idle
    <3> QED BY <1>1, <1>2, <1>3, <2>2, <3>1 DEF ScopeIsMeant, UnderWayIn, YetToWrite
  <2>3. CASE t # s
    BY <1>1, <1>2, <1>3, <2>1, <2>3 DEF ScopeIsMeant, UnderWayIn, YetToWrite
  <2> QED BY <2>2, <2>3
<1> QED BY <1>3, <1>4, <1>5, <1>6 DEF ThresholdsIInv

-----------------------------------------------------------------------------
(* The mutations.                                                            *)

LEMMA UpsertMoves ==
    ASSUME ThresholdsIInv, UpsertFinds \/ UpsertWrites
    PROVE  ThresholdsIInv'
<1> PICK s \in Scope : s = upsert.scope
  BY DEF ThresholdsIInv, ThresholdTypes, LimitsSent
<1>1. /\ ThresholdTypes /\ upsert \in LimitsSent /\ upsert.stage \in {"sent", "found"}
      /\ upsert.values \in Limits /\ rows[s].id \in Nat /\ lastId \in Nat
  <2>1. PICK r \in LimitsRow : r = rows[s]
    BY DEF ThresholdsIInv, ThresholdTypes
  <2>2. rows[s].id \in Nat
    BY <2>1, LimitsRows
  <2> QED BY <2>2 DEF UpsertFinds, UpsertWrites, ThresholdsIInv, ThresholdTypes
<1>2. UNCHANGED <<shownRows, pending, reset, reading, meant, early, lost>>
  BY DEF UpsertFinds, UpsertWrites
<1>3. CASE UpsertFinds
  <2> DEFINE found == [[upsert EXCEPT !.stage = "found"] EXCEPT !.id = rows[s].id]
  <2>1. /\ found \in LimitsSent /\ found.stage = "found" /\ found.scope = s
        /\ found.values = upsert.values
    BY <1>1 DEF LimitsSent
  <2>2. upsert' = found /\ UNCHANGED <<rows, lastId>> /\ upsert.stage = "sent"
    BY <1>3 DEF UpsertFinds
  <2> HIDE DEF found
  <2>3. ThresholdTypes'
    BY <1>1, <1>2, <2>1, <2>2 DEF ThresholdTypes
  <2>4. ASSUME NEW t \in Scope
        PROVE  (ScopeIsShown(t) => ScopeIsShown(t)') /\ (ScopeIsMeant(t) => ScopeIsMeant(t)')
    BY <1>2, <2>1, <2>2 DEF ScopeIsShown, Rewritten, ScopeIsMeant, UnderWayIn, YetToWrite
  <2> QED BY <1>2, <2>3, <2>4 DEF ThresholdsIInv
<1>4. CASE UpsertWrites
  <2> PICK id \in Nat : id = IF upsert.id = 0 THEN lastId + 1 ELSE upsert.id
    BY <1>1 DEF LimitsSent
  <2> DEFINE new == [values |-> upsert.values, id |-> id]
             written == [upsert EXCEPT !.stage = "written"]
  <2>1. new \in LimitsRow /\ new.values = upsert.values
    BY <1>1 DEF LimitsRow
  <2>2. written \in LimitsSent /\ written.stage = "written" /\ written.scope = s
    BY <1>1 DEF LimitsSent
  <2>3. rows' = [rows EXCEPT ![s] = new] /\ upsert' = written /\ lastId' \in Nat
    BY <1>1, <1>4 DEF UpsertWrites
  <2> HIDE DEF new, written
  <2>4. rows' \in [Scope -> LimitsRow] /\ \A t \in Scope : rows'[t] = IF t = s THEN new ELSE rows[t]
    BY <1>1, <2>1, <2>3 DEF ThresholdTypes
  <2>5. ThresholdTypes'
    BY <1>1, <1>2, <2>2, <2>3, <2>4 DEF ThresholdTypes
  <2>6. ASSUME NEW t \in Scope
        PROVE  (ScopeIsShown(t) => ScopeIsShown(t)') /\ (ScopeIsMeant(t) => ScopeIsMeant(t)')
    <3>1. CASE t # s
      BY <1>2, <2>2, <2>3, <2>4, <3>1 DEF ScopeIsShown, Rewritten, ScopeIsMeant, UnderWayIn, YetToWrite
    <3>2. CASE t = s
      BY <1>1, <1>2, <2>1, <2>2, <2>3, <2>4, <3>2 DEF ScopeIsShown, Rewritten, ScopeIsMeant, UnderWayIn, YetToWrite
    <3> QED BY <3>1, <3>2
  <2> QED BY <1>2, <2>5, <2>6 DEF ThresholdsIInv
<1> QED BY <1>3, <1>4

LEMMA ResetMoves ==
    ASSUME ThresholdsIInv, ResetFinds \/ ResetWrites
    PROVE  ThresholdsIInv'
<1> PICK s \in Scope : s = reset.scope
  BY DEF ThresholdsIInv, ThresholdTypes, LimitsSent
<1>1. ThresholdTypes /\ reset \in LimitsSent /\ reset.stage \in {"sent", "found"}
  BY DEF ResetFinds, ResetWrites, ThresholdsIInv, ThresholdTypes
<1>2. UNCHANGED <<lastId, shownRows, pending, upsert, reading, meant, early, lost>>
  BY DEF ResetFinds, ResetWrites
<1>3. CASE ResetFinds
  <2> DEFINE found == [reset EXCEPT !.stage = "found"]
  <2>1. found \in LimitsSent /\ found.stage = "found" /\ found.scope = s
    BY <1>1 DEF LimitsSent
  <2>2. reset' = found /\ UNCHANGED rows /\ reset.stage = "sent"
    BY <1>3 DEF ResetFinds
  <2> HIDE DEF found
  <2>3. ThresholdTypes'
    BY <1>1, <1>2, <2>1, <2>2 DEF ThresholdTypes
  <2>4. ASSUME NEW t \in Scope
        PROVE  (ScopeIsShown(t) => ScopeIsShown(t)') /\ (ScopeIsMeant(t) => ScopeIsMeant(t)')
    BY <1>2, <2>1, <2>2 DEF ScopeIsShown, Rewritten, ScopeIsMeant, UnderWayIn, YetToWrite
  <2> QED BY <1>2, <2>3, <2>4 DEF ThresholdsIInv
<1>4. CASE ResetWrites
  <2> DEFINE written == [reset EXCEPT !.stage = "written"]
  <2>1. NoRow \in LimitsRow /\ NoRow.values = NoValues
    BY DEF LimitsRow, NoRow
  <2>2. written \in LimitsSent /\ written.stage = "written" /\ written.scope = s
    BY <1>1 DEF LimitsSent
  <2>3. rows' = [rows EXCEPT ![s] = NoRow] /\ reset' = written
    BY <1>4 DEF ResetWrites
  <2> HIDE DEF written
  <2>4. rows' \in [Scope -> LimitsRow] /\ \A t \in Scope : rows'[t] = IF t = s THEN NoRow ELSE rows[t]
    BY <1>1, <2>1, <2>3 DEF ThresholdTypes
  <2>5. ThresholdTypes'
    BY <1>1, <1>2, <2>2, <2>3, <2>4 DEF ThresholdTypes
  <2>6. ASSUME NEW t \in Scope
        PROVE  (ScopeIsShown(t) => ScopeIsShown(t)') /\ (ScopeIsMeant(t) => ScopeIsMeant(t)')
    <3>1. CASE t # s
      BY <1>2, <2>2, <2>3, <2>4, <3>1 DEF ScopeIsShown, Rewritten, ScopeIsMeant, UnderWayIn, YetToWrite
    <3>2. CASE t = s
      BY <1>1, <1>2, <2>1, <2>2, <2>3, <2>4, <3>2 DEF ScopeIsShown, Rewritten, ScopeIsMeant, UnderWayIn, YetToWrite
    <3> QED BY <3>1, <3>2
  <2> QED BY <1>2, <2>5, <2>6 DEF ThresholdsIInv
<1> QED BY <1>3, <1>4

LEMMA MutationsEnd ==
    ASSUME ThresholdsIInv, UpsertSucceeds \/ ResetSucceeds \/ MutationFails
    PROVE  ThresholdsIInv'
<1>1. ThresholdTypes
  BY DEF ThresholdsIInv
<1>2. NothingUnderWay \in LimitsSent /\ NothingUnderWay.stage = "none"
  BY ThresholdsPageAssumption DEF NothingUnderWay, LimitsSent
<1>3. UNCHANGED <<rows, lastId, shownRows, pending, meant, early>>
  BY DEF UpsertSucceeds, ResetSucceeds, MutationFails
<1>4. /\ upsert' \in {upsert, NothingUnderWay} /\ reset' \in {reset, NothingUnderWay}
      /\ reading' \in {reading, Reading("asked")}
  BY DEF UpsertSucceeds, ResetSucceeds, MutationFails, ReadAgain
<1>5. Reading("asked").stage = "asked"
  BY DEF Reading
<1>6. ThresholdTypes'
  <2>1. upsert' \in LimitsSent /\ (upsert'.stage \in {"sent", "found"} => upsert'.values \in Limits)
    BY <1>1, <1>2, <1>4 DEF ThresholdTypes
  <2>2. reset' \in LimitsSent
    BY <1>1, <1>2, <1>4 DEF ThresholdTypes
  <2>3. reading'.stage \in {"none", "asked", "answered"}
        /\ (reading'.stage = "answered" => reading'.data \in [Scope -> LimitsRow])
    BY <1>1, <1>4, <1>5 DEF ThresholdTypes
  <2> QED BY <1>1, <1>3, <2>1, <2>2, <2>3 DEF ThresholdTypes
<1>7. CASE UpsertSucceeds
  <2>1. ASSUME NEW t \in Scope
        PROVE  ScopeIsShown(t)' /\ (ScopeIsMeant(t) => ScopeIsMeant(t)')
    <3>1. upsert.stage = "written" /\ upsert' = NothingUnderWay /\ reset' = reset
          /\ reading'.stage = "asked"
      BY <1>5, <1>7 DEF UpsertSucceeds, ReadAgain
    <3> QED BY <1>2, <1>3, <3>1 DEF ScopeIsShown, Rewritten, ScopeIsMeant, UnderWayIn, YetToWrite
  <2> QED BY <1>3, <1>6, <1>7, <2>1 DEF ThresholdsIInv, UpsertSucceeds
<1>8. CASE ResetSucceeds
  <2>1. ASSUME NEW t \in Scope
        PROVE  ScopeIsShown(t)' /\ (ScopeIsMeant(t) => ScopeIsMeant(t)')
    <3>1. reset.stage = "written" /\ reset' = NothingUnderWay /\ upsert' = upsert
          /\ reading'.stage = "asked"
      BY <1>5, <1>8 DEF ResetSucceeds, ReadAgain
    <3> QED BY <1>2, <1>3, <3>1 DEF ScopeIsShown, Rewritten, ScopeIsMeant, UnderWayIn, YetToWrite
  <2> QED BY <1>3, <1>6, <1>8, <2>1 DEF ThresholdsIInv, ResetSucceeds
<1>9. CASE MutationFails
  BY <1>6, <1>9 DEF ThresholdsIInv, MutationFails
<1> QED BY <1>7, <1>8, <1>9

-----------------------------------------------------------------------------
(* The thresholds are fetched.                                               *)

LEMMA ThresholdsReadKeeps ==
    ASSUME ThresholdsIInv, ReadingAnswered \/ ReadingArrives \/ ReadingFails \/ ReadOnReconnect
    PROVE  ThresholdsIInv'
<1>1. ThresholdTypes
  BY DEF ThresholdsIInv
<1>2. UNCHANGED <<rows, lastId, pending, upsert, reset, meant, early>>
  BY DEF ReadingAnswered, ReadingArrives, ReadingFails, ReadOnReconnect
<1>3. ASSUME NEW t \in Scope, ScopeIsMeant(t) PROVE ScopeIsMeant(t)'
  BY <1>2, <1>3 DEF ScopeIsMeant, UnderWayIn, YetToWrite
<1>4. Reading("none").stage = "none" /\ Reading("asked").stage = "asked"
  BY DEF Reading
<1>5. CASE ReadingAnswered
  <2>1. reading'.stage = "answered" /\ reading'.data = rows /\ UNCHANGED <<shownRows, lost>>
    BY <1>5 DEF ReadingAnswered
  <2>2. ThresholdTypes'
    BY <1>1, <1>2, <2>1 DEF ThresholdTypes
  <2>3. \A t \in Scope : ScopeIsShown(t)'
    BY <1>2, <2>1 DEF ScopeIsShown, Rewritten
  <2> QED BY <1>2, <1>3, <2>1, <2>2, <2>3 DEF ThresholdsIInv
<1>6. CASE ReadingArrives
  <2>1. reading.stage = "answered" /\ reading'.stage = "none" /\ shownRows' = reading.data /\ UNCHANGED lost
    BY <1>4, <1>6 DEF ReadingArrives
  <2>2. reading.data \in [Scope -> LimitsRow]
    BY <1>1, <2>1 DEF ThresholdTypes
  <2>3. ThresholdTypes'
    BY <1>1, <1>2, <2>1, <2>2 DEF ThresholdTypes
  <2>4. \A t \in Scope : ScopeIsShown(t) => ScopeIsShown(t)'
    BY <1>2, <2>1, <2>2 DEF ScopeIsShown, Rewritten
  <2> QED BY <1>2, <1>3, <2>1, <2>3, <2>4 DEF ThresholdsIInv
<1>7. CASE ReadingFails
  <2>1. reading'.stage = "none" /\ lost' /\ UNCHANGED shownRows
    BY <1>4, <1>7 DEF ReadingFails
  <2>2. ThresholdTypes'
    BY <1>1, <1>2, <2>1 DEF ThresholdTypes
  <2> QED BY <2>1, <2>2 DEF ThresholdsIInv
<1>8. CASE ReadOnReconnect
  <2>1. reading'.stage = "asked" /\ UNCHANGED <<shownRows, lost>>
    BY <1>4, <1>8 DEF ReadOnReconnect
  <2>2. ThresholdTypes'
    BY <1>1, <1>2, <2>1 DEF ThresholdTypes
  <2>3. \A t \in Scope : ScopeIsShown(t)'
    BY <2>1 DEF ScopeIsShown, Rewritten
  <2> QED BY <1>2, <1>3, <2>1, <2>2, <2>3 DEF ThresholdsIInv
<1> QED BY <1>5, <1>6, <1>7, <1>8

LEMMA ThresholdsStep == ThresholdsIInv /\ [ThresholdsNext]_thresholdVars => ThresholdsIInv'
<1> SUFFICES ASSUME ThresholdsIInv, [ThresholdsNext]_thresholdVars PROVE ThresholdsIInv'
  OBVIOUS
<1>1. CASE UNCHANGED thresholdVars
  BY <1>1 DEF thresholdVars, atPage, ThresholdsIInv, ThresholdTypes, ScopeIsShown, Rewritten, ScopeIsMeant,
              UnderWayIn, YetToWrite
<1>2. CASE ThresholdsNext
  BY <1>2, ThresholdEdited, ThresholdSent, ThresholdReset, UpsertMoves, ResetMoves, MutationsEnd,
     ThresholdsReadKeeps DEF ThresholdsNext
<1> QED BY <1>1, <1>2

LEMMA ThresholdsTypeStep ==
    ThresholdsIInv /\ ThresholdsTypeOK /\ [ThresholdsNext]_thresholdVars => ThresholdsTypeOK'
<1> SUFFICES ASSUME ThresholdsIInv, ThresholdsTypeOK, [ThresholdsNext]_thresholdVars PROVE ThresholdsTypeOK'
  OBVIOUS
<1>1. ThresholdTypes /\ ThresholdTypes'
  BY ThresholdsStep DEF ThresholdsIInv
<1>2. {upsert'.stage, reset'.stage} \subseteq {"none", "sent", "found", "written"}
      /\ reading'.stage \in {"none", "asked", "answered"} /\ lastId' \in Nat
  BY <1>1 DEF ThresholdTypes, LimitsSent
<1>3. early' \subseteq Scope /\ lost' \in BOOLEAN
  BY DEF ThresholdsTypeOK, ThresholdsNext, thresholdVars, EditLimit, Touches, SaveEdit, ResetToGlobal,
         UpsertFinds, UpsertWrites, UpsertSucceeds, ResetFinds, ResetWrites, ResetSucceeds, MutationFails,
         ReadingAnswered, ReadingArrives, ReadingFails, ReadOnReconnect
<1>4. CASE UpsertWrites
  <2>1. PICK s \in Scope, v \in Limits, id \in Nat : upsert.scope = s /\ upsert.values = v /\ upsert.id = id
    BY <1>1, <1>4 DEF ThresholdTypes, LimitsSent, UpsertWrites
  <2>2. PICK new \in Nat \ {0} : rows' = [rows EXCEPT ![s] = [values |-> v, id |-> new]]
    <3>1. lastId \in Nat
      BY <1>1 DEF ThresholdTypes
    <3>2. PICK new \in Nat \ {0} : new = IF id = 0 THEN lastId + 1 ELSE id
      BY <3>1
    <3>3. rows' = [rows EXCEPT ![s] = [values |-> v, id |-> new]]
      BY <1>4, <2>1, <3>2 DEF UpsertWrites
    <3> QED BY <3>3
  <2>3. v # NoValues
    BY ThresholdsPageAssumption DEF Limits
  <2> QED BY <1>1, <1>2, <1>3, <2>2, <2>3 DEF ThresholdsTypeOK, ThresholdTypes
<1>5. CASE ResetWrites
  <2>1. PICK s \in Scope : rows' = [rows EXCEPT ![s] = NoRow]
    BY <1>1, <1>5 DEF ThresholdTypes, LimitsSent, ResetWrites
  <2>2. NoRow.values = NoValues /\ NoRow.id = 0
    BY DEF NoRow
  <2> QED BY <1>1, <1>2, <1>3, <2>1, <2>2 DEF ThresholdsTypeOK, ThresholdTypes
<1>6. CASE UNCHANGED rows
  BY <1>2, <1>3, <1>6 DEF ThresholdsTypeOK
<1> QED BY <1>4, <1>5, <1>6 DEF ThresholdsNext, thresholdVars, EditLimit, SaveEdit, ResetToGlobal, UpsertFinds,
              UpsertSucceeds, ResetFinds, ResetSucceeds, MutationFails, ReadingAnswered, ReadingArrives,
              ReadingFails, ReadOnReconnect

(* The types of ThresholdsPage: a row has values if it has an id, and only    *)
(* then.                                                                     *)
THEOREM ThresholdsTypeCorrect == ThresholdsSpec => []ThresholdsTypeOK
<1>1. ThresholdsInit => ThresholdsTypeOK
  <2> SUFFICES ASSUME ThresholdsInit PROVE ThresholdsTypeOK
    OBVIOUS
  <2>1. PICK some \in SUBSET Scope, l \in Limit :
          rows = [s \in Scope |-> IF s \in some THEN [values |-> [yellow |-> l, red |-> l], id |-> 1] ELSE NoRow]
    BY DEF ThresholdsInit
  <2>2. [yellow |-> l, red |-> l] # NoValues
    BY ThresholdsPageAssumption
  <2>3. \A s \in Scope : rows[s].values = NoValues <=> rows[s].id = 0
    BY <2>1, <2>2 DEF NoRow
  <2> QED BY <2>3 DEF ThresholdsInit, ThresholdsTypeOK, NothingUnderWay, Reading
<1> QED BY <1>1, ThresholdsInitIInv, ThresholdsStep, ThresholdsTypeStep, PTL DEF ThresholdsSpec

(* ThresholdsAreSaved of ThresholdsPage, for any queues, values and number   *)
(* of edits: when the page is at rest and no request has failed it shows the *)
(* thresholds there are, and they are as they were last typed or reset,      *)
(* except in scopes that were changed again too early.                       *)
THEOREM ThresholdsKept == ThresholdsSpec => []ThresholdsAreSaved
<1>1. ThresholdsIInv => ThresholdsAreSaved
  <2> SUFFICES ASSUME ThresholdsIInv, Idle(upsert), Idle(reset), reading.stage = "none", ~lost
               PROVE  /\ shownRows = rows
                      /\ \A s \in Scope \ early : pending[s] = NoValues => rows[s].values = meant[s]
    BY DEF ThresholdsAreSaved
  <2>1. \A s \in Scope : shownRows \in [Scope -> LimitsRow] /\ shownRows[s] = rows[s]
    BY DEF ThresholdsIInv, ScopeIsShown, Rewritten, Idle
  <2>2. shownRows = rows
    BY <2>1, ThresholdsPageAssumption DEF ThresholdsIInv, ThresholdTypes
  <2>3. \A s \in Scope \ early : pending[s] = NoValues => rows[s].values = meant[s]
    BY DEF ThresholdsIInv, ScopeIsMeant, YetToWrite, Idle
  <2> QED BY <2>2, <2>3
<1> QED BY ThresholdsInitIInv, ThresholdsStep, <1>1, PTL DEF ThresholdsSpec

-----------------------------------------------------------------------------
(***************************************************************************)
(* Preferences: changes of several fields, answered in any order.          *)
(***************************************************************************)

(* The values a field may have.                                              *)
FieldValues == [columns |-> SUBSET Column, order |-> SUBSET Column, alerts |-> SUBSET Metric,
            descending |-> BOOLEAN, density |-> {"compact", "comfortable"}, theme |-> Themes]

PrefRequest == [id : Nat, field : Field, value : UNION {FieldValues[f] : f \in Field}, served : BOOLEAN]

PrefTypes ==
    /\ {stored, wanted} \subseteq Preference
    /\ cached \in Preference \cup {NotLoaded} /\ fetch \in Preference \cup {NoFetch, Asked}
    /\ requests \subseteq PrefRequest /\ \A r \in requests : r.value \in FieldValues[r.field]
    /\ changes \in Nat /\ theme \in Themes

(* What the page has of a field, and what is on its way to it, is what is    *)
(* stored, unless a change of the field has been served and not answered:    *)
(* its answer will have the row fetched again.                               *)
FieldIsFresh(f) ==
    (\A r \in requests : r.field = f => ~r.served) =>
        /\ fetch \in Preference => fetch[f] = stored[f]
        /\ fetch = NoFetch /\ cached # NotLoaded => cached[f] = stored[f]

(* What the user has set is in the one change of the field under way, or in  *)
(* the row.                                                                  *)
FieldIsKept(f) ==
    /\ \A r, u \in requests : r.field = f /\ u.field = f => r = u
    /\ \A r \in requests : r.field = f => r.value = wanted[f] /\ (r.served => stored[f] = wanted[f])
    /\ (\A r \in requests : r.field # f) => stored[f] = wanted[f]

ThemeIsKept ==
    /\ cached # NotLoaded => theme = wanted["theme"]
    /\ fetch \in Preference => fetch["theme"] = wanted["theme"]

PrefIInv ==
    /\ PrefTypes
    /\ ~disturbed =>
          /\ cached = NotLoaded => requests = {}
          /\ \A f \in Field \ {"theme"} : FieldIsFresh(f)
          /\ \A f \in Field \ crossed : FieldIsKept(f)
          /\ "theme" \notin crossed => ThemeIsKept

(* A row of preferences, as a function of its fields.                        *)
LEMMA PreferenceFields ==
    /\ \A p : p \in Preference <=> p = [f \in Field |-> p[f]] /\ \A f \in Field : p[f] \in FieldValues[f]
<1>1. ASSUME NEW p \in Preference
      PROVE  p = [f \in Field |-> p[f]] /\ \A f \in Field : p[f] \in FieldValues[f]
  BY DEF Preference, Field, FieldValues
<1>2. ASSUME NEW p, p = [f \in Field |-> p[f]], \A f \in Field : p[f] \in FieldValues[f]
      PROVE  p \in Preference
  BY <1>2 DEF Preference, Field, FieldValues
<1> QED BY <1>1, <1>2

LEMMA PreferenceChanged ==
    ASSUME NEW p \in Preference, NEW f \in Field, NEW value \in FieldValues[f]
    PROVE  LET new == [p EXCEPT ![f] = value]
           IN  /\ new \in Preference /\ new[f] = value
               /\ \A g \in Field \ {f} : new[g] = p[g]
<1> DEFINE new == [p EXCEPT ![f] = value]
<1>1. p = [g \in Field |-> p[g]] /\ \A g \in Field : p[g] \in FieldValues[g]
  BY PreferenceFields
<1>2. new = [g \in Field |-> IF g = f THEN value ELSE p[g]]
  BY <1>1
<1>3. new = [g \in Field |-> new[g]] /\ new[f] = value /\ \A g \in Field \ {f} : new[g] = p[g]
  BY <1>2
<1>4. \A g \in Field : new[g] \in FieldValues[g]
  BY <1>1, <1>3
<1> HIDE DEF new
<1>5. new \in Preference
  BY <1>3, <1>4, PreferenceFields
<1> QED BY <1>3, <1>5 DEF new

LEMMA PrefInitIInv == PrefInit => PrefIInv
<1> SUFFICES ASSUME PrefInit PROVE PrefIInv
  OBVIOUS
<1>1. Defaults \in Preference
  BY DEF Defaults, Preference, Themes
<1>2. stored \in Preference
  <2>1. PICK o \in {Column \ NewColumn, Column}, cs \in (SUBSET Column) \ {{}}, t \in Themes :
           /\ FixedColumn \subseteq cs /\ cs \subseteq o
           /\ stored = [Defaults EXCEPT !.columns = cs, !.order = o, !.theme = t]
    BY Zenon DEF PrefInit
  <2>2. [Defaults EXCEPT !.columns = cs, !.order = o, !.theme = t] \in Preference
    BY <1>1 DEF Preference
  <2> QED BY <2>1, <2>2
<1>3. /\ cached = NotLoaded /\ fetch = Asked /\ requests = {} /\ changes = 0 /\ wanted = stored
      /\ theme \in Themes
  BY DEF PrefInit, Defaults, Themes
<1>4. PrefTypes
  BY <1>2, <1>3 DEF PrefTypes
<1>5. \A f \in Field : FieldIsFresh(f) /\ FieldIsKept(f)
  BY <1>3, PreferencesAssumption DEF FieldIsFresh, FieldIsKept
<1>6. ThemeIsKept
  BY <1>3, PreferencesAssumption DEF ThemeIsKept
<1> QED BY <1>3, <1>4, <1>5, <1>6 DEF PrefIInv

-----------------------------------------------------------------------------
(* The user.                                                                 *)

LEMMA PrefChange ==
    ASSUME PrefIInv, NEW field \in Field, NEW value \in FieldValues[field], NEW wish \in FieldValues[field],
           Change(field, value, wish),
           crossed \subseteq crossed', field \notin crossed' => ~Crosses(field),
           field \notin crossed' /\ cached # NotLoaded /\ cached[field] = wanted[field] => value = wish,
           field # "theme" => theme' = theme,
           field = "theme" => theme' = wish /\ value = wish
    PROVE  PrefIInv'
<1> DEFINE new == [id |-> changes + 1, field |-> field, value |-> value, served |-> FALSE]
<1>1. PrefTypes /\ changes \in Nat
  BY DEF PrefIInv, PrefTypes
<1>2. new \in PrefRequest /\ new.field = field /\ new.value = value /\ new.served = FALSE
  BY <1>1 DEF PrefRequest
<1>3. /\ requests' = requests \cup {new} /\ changes' = changes + 1
      /\ wanted' = [wanted EXCEPT ![field] = wish]
      /\ crossed \subseteq crossed' /\ (field \notin crossed' => ~Crosses(field))
      /\ (~disturbed' => ~disturbed /\ cached # NotLoaded)
      /\ UNCHANGED <<stored, cached, fetch>>
  BY DEF Change
<1> HIDE DEF new
<1>4. wanted' \in Preference /\ wanted'[field] = wish /\ \A f \in Field \ {field} : wanted'[f] = wanted[f]
  <2>1. PICK before \in Preference : before = wanted
    BY <1>1 DEF PrefTypes
  <2>2. LET after == [before EXCEPT ![field] = wish]
        IN  after \in Preference /\ after[field] = wish /\ \A f \in Field \ {field} : after[f] = before[f]
    BY PreferenceChanged
  <2> QED BY <1>3, <2>1, <2>2
<1>5. theme' \in Themes
  BY <1>1 DEF PrefTypes, FieldValues
<1>6. PrefTypes'
  BY <1>1, <1>2, <1>3, <1>4, <1>5 DEF PrefTypes
<1> SUFFICES ASSUME ~disturbed' PROVE PrefIInv'
  BY <1>6 DEF PrefIInv
<1>7. ~disturbed /\ cached # NotLoaded
  BY <1>3
<1>8. ASSUME NEW f \in Field \ {"theme"} PROVE FieldIsFresh(f)'
  BY <1>2, <1>3, <1>7 DEF PrefIInv, FieldIsFresh
<1>9. ASSUME NEW f \in Field, f \notin crossed', f # field PROVE FieldIsKept(f)'
  <2>1. FieldIsKept(f)
    BY <1>3, <1>7, <1>9 DEF PrefIInv
  <2> QED BY <1>2, <1>3, <1>4, <1>9, <2>1 DEF FieldIsKept
<1>10. ASSUME field \notin crossed' PROVE FieldIsKept(field)'
  <2>1. FieldIsKept(field) /\ \A r \in requests : r.field # field
    BY <1>3, <1>7, <1>10 DEF PrefIInv, Crosses
  <2>2. stored[field] = wanted[field]
    BY <2>1 DEF FieldIsKept
  <2>3. value = wish
    <3>1. CASE field = "theme"
      BY <3>1
    <3>2. CASE field # "theme"
      BY <1>3, <1>7, <1>10, <2>2, <3>2 DEF Crosses
    <3> QED BY <3>1, <3>2
  <2> QED BY <1>2, <1>3, <1>4, <2>1, <2>3 DEF FieldIsKept
<1>11. ASSUME "theme" \notin crossed' PROVE ThemeIsKept'
  <2>1. ThemeIsKept
    BY <1>3, <1>7, <1>11 DEF PrefIInv
  <2>2. CASE field = "theme"
    <3>1. fetch \notin Preference
      BY <1>3, <1>11, <2>2, PreferencesAssumption DEF Crosses
    <3> QED BY <1>3, <1>4, <2>2, <3>1 DEF ThemeIsKept
  <2>3. CASE field # "theme"
    <3>1. wanted'["theme"] = wanted["theme"] /\ theme' = theme
      BY <1>4, <2>3 DEF Field
    <3> QED BY <1>3, <2>1, <3>1 DEF ThemeIsKept
  <2> QED BY <2>2, <2>3
<1> QED BY <1>3, <1>6, <1>7, <1>8, <1>9, <1>10, <1>11 DEF PrefIInv

(* A list of columns the page shows, of any preferences.                     *)
LEMMA DisplayedPreference == ASSUME PrefTypes
                             PROVE  /\ Displayed \in Preference /\ wanted \in Preference
                                    /\ cached # NotLoaded =>
                                          /\ Displayed.columns = Listed(cached["columns"])
                                          /\ Displayed.order = Listed(cached["order"])
                                          /\ Displayed.alerts = cached["alerts"]
                                          /\ Displayed.descending = cached["descending"]
<1>1. Defaults \in Preference /\ wanted \in Preference
  BY DEF PrefTypes, Defaults, Preference, Themes
<1>2. CASE cached = NotLoaded
  BY <1>1, <1>2 DEF Displayed
<1>3. CASE cached # NotLoaded
  <2>1. cached \in Preference
    BY <1>3 DEF PrefTypes
  <2>2. Displayed = [cached EXCEPT !.columns = Listed(cached.columns), !.order = Listed(cached.order)]
    BY <1>3 DEF Displayed
  <2>3. Listed(cached.columns) \in SUBSET Column /\ Listed(cached.order) \in SUBSET Column
    BY <2>1 DEF Preference, Listed
  <2> QED BY <1>1, <2>1, <2>2, <2>3 DEF Preference
<1> QED BY <1>2, <1>3

LEMMA PrefSet ==
    ASSUME PrefIInv,
           \/ \E c \in Column : ColumnSwitchedOff(c) \/ ColumnSwitchedOn(c)
           \/ OrderReset \/ ColumnDragged
           \/ \E m \in Metric : AlertToggled(m)
           \/ \E value \in {"compact", "comfortable"} : SettingChosen(value)
           \/ DirectionSwitched \/ ThemeCycled
    PROVE  PrefIInv'
<1>1. /\ Displayed \in Preference /\ wanted \in Preference
      /\ cached # NotLoaded =>
            /\ Displayed.columns = Listed(cached["columns"])
            /\ Displayed.order = Listed(cached["order"])
            /\ Displayed.alerts = cached["alerts"]
            /\ Displayed.descending = cached["descending"]
  BY DisplayedPreference DEF PrefIInv
<1>2. /\ FieldValues["columns"] = SUBSET Column /\ FieldValues["alerts"] = SUBSET Metric
      /\ FieldValues["order"] = SUBSET Column
      /\ FieldValues["descending"] = BOOLEAN /\ FieldValues["density"] = {"compact", "comfortable"}
      /\ FieldValues["theme"] = Themes
      /\ {"columns", "order", "alerts", "descending", "density", "theme"} = Field
  BY DEF FieldValues, Field
<1>3. /\ Displayed.columns \subseteq Column /\ wanted.columns \subseteq Column
      /\ Displayed.order \subseteq Column /\ wanted.order \subseteq Column
      /\ Listed(wanted.columns) \subseteq Column /\ Listed(wanted.order) \subseteq Column
      /\ Displayed.alerts \subseteq Metric /\ wanted.alerts \subseteq Metric
      /\ Displayed.descending \in BOOLEAN /\ wanted.descending \in BOOLEAN
  BY <1>1 DEF Preference, Listed
<1>4. ASSUME NEW c \in Column, ColumnSwitchedOff(c) PROVE PrefIInv'
  <2> DEFINE value == Displayed.columns \ {c}
             wish  == Listed(wanted.columns) \ {c}
  <2>1. value \in FieldValues["columns"] /\ wish \in FieldValues["columns"]
    BY <1>2, <1>3
  <2>2. Change("columns", value, wish) /\ Sent("columns") /\ theme' = theme
    BY <1>4 DEF ColumnSwitchedOff
  <2>3. cached # NotLoaded /\ cached["columns"] = wanted["columns"] => value = wish
    BY <1>1
  <2> HIDE DEF value, wish
  <2> QED BY <1>2, <2>1, <2>2, <2>3, PrefChange DEF Sent
<1>9. ASSUME NEW c \in Column, ColumnSwitchedOn(c) PROVE PrefIInv'
  <2> DEFINE value == {k \in Displayed.order : k = c \/ k \in Displayed.columns}
             wish  == Listed(wanted.columns) \cup {c}
  <2>1. value \in FieldValues["columns"] /\ wish \in FieldValues["columns"]
    BY <1>2, <1>3
  <2>2. /\ Change("columns", value, wish) /\ theme' = theme
        /\ IF Displayed.columns \cup {c} \subseteq Displayed.order THEN Sent("columns")
           ELSE crossed' = crossed \cup {"columns"}
    BY <1>9 DEF ColumnSwitchedOn
  <2>3. /\ crossed \subseteq crossed' /\ ("columns" \notin crossed' => ~Crosses("columns"))
        /\ "columns" \notin crossed' => Displayed.columns \cup {c} \subseteq Displayed.order
    BY <2>2 DEF Sent
  <2>4. "columns" \notin crossed' => value = Displayed.columns \cup {c}
    BY <2>3
  <2>5. "columns" \notin crossed' /\ cached # NotLoaded /\ cached["columns"] = wanted["columns"] => value = wish
    BY <1>1, <2>4
  <2> HIDE DEF value, wish
  <2> QED BY <1>2, <2>1, <2>2, <2>3, <2>5, PrefChange
<1>10. CASE OrderReset
  <2>1. Column \in FieldValues["order"]
    BY <1>2
  <2>2. Change("order", Column, Column) /\ Sent("order") /\ theme' = theme
    BY <1>10 DEF OrderReset
  <2> QED BY <1>2, <2>1, <2>2, PrefChange DEF Sent
<1>11. CASE ColumnDragged
  <2> DEFINE value == Displayed.order
             wish  == Listed(wanted.order)
  <2>1. value \in FieldValues["order"] /\ wish \in FieldValues["order"]
    BY <1>2, <1>3
  <2>2. Change("order", value, wish) /\ Sent("order") /\ theme' = theme
    BY <1>11 DEF ColumnDragged
  <2>3. cached # NotLoaded /\ cached["order"] = wanted["order"] => value = wish
    BY <1>1
  <2> HIDE DEF value, wish
  <2> QED BY <1>2, <2>1, <2>2, <2>3, PrefChange DEF Sent
<1>5. ASSUME NEW m \in Metric, AlertToggled(m) PROVE PrefIInv'
  <2> DEFINE value == Toggled(Displayed.alerts, Displayed.alerts, m)
             wish  == Toggled(wanted.alerts, Displayed.alerts, m)
  <2>1. value \in FieldValues["alerts"] /\ wish \in FieldValues["alerts"]
    BY <1>2, <1>3 DEF Toggled
  <2>2. Change("alerts", value, wish) /\ Sent("alerts") /\ theme' = theme
    BY <1>5 DEF AlertToggled
  <2>3. cached # NotLoaded /\ cached["alerts"] = wanted["alerts"] => value = wish
    BY <1>1
  <2> HIDE DEF value, wish
  <2> QED BY <1>2, <2>1, <2>2, <2>3, PrefChange DEF Sent
<1>6. ASSUME NEW value \in {"compact", "comfortable"}, SettingChosen(value) PROVE PrefIInv'
  BY <1>2, <1>6, PrefChange DEF SettingChosen, Sent
<1>7. CASE DirectionSwitched
  <2>1. PICK value \in BOOLEAN : value = ~Displayed.descending
    OBVIOUS
  <2>2. PICK wish \in BOOLEAN : wish = ~wanted.descending
    OBVIOUS
  <2>3. Change("descending", value, wish) /\ Sent("descending") /\ theme' = theme
    BY <1>7, <2>1, <2>2 DEF DirectionSwitched
  <2>4. cached # NotLoaded /\ cached["descending"] = wanted["descending"] => value = wish
    BY <1>1, <2>1, <2>2
  <2> QED BY <1>2, <2>3, <2>4, PrefChange DEF Sent
<1>8. CASE ThemeCycled
  <2>1. PICK next \in Themes : next = NextTheme[theme]
    BY DEF PrefIInv, PrefTypes, Themes, NextTheme
  <2>2. theme' = next /\ Change("theme", next, next) /\ Sent("theme")
    BY <1>8, <2>1 DEF ThemeCycled
  <2> QED BY <1>2, <2>1, <2>2, PrefChange DEF Sent
<1> QED BY <1>4, <1>5, <1>6, <1>7, <1>8, <1>9, <1>10, <1>11

-----------------------------------------------------------------------------
(* The server, and what comes back.                                          *)

LEMMA PrefServed == ASSUME PrefIInv, NEW r \in requests, Served(r) PROVE PrefIInv'
<1>1. PrefTypes /\ r \in PrefRequest /\ r.value \in FieldValues[r.field] /\ r.field \in Field
  BY DEF PrefIInv, PrefTypes, PrefRequest
<1>2. PICK q : q = [r EXCEPT !.served = TRUE]
  OBVIOUS
<1>3. q \in PrefRequest /\ q.field = r.field /\ q.value = r.value /\ q.served
  BY <1>1, <1>2 DEF PrefRequest
<1>4. PICK field, value : field = r.field /\ value = r.value /\ field \in Field /\ value \in FieldValues[field]
  BY <1>1
<1>5. /\ ~r.served /\ requests' = (requests \ {r}) \cup {q} /\ stored' = [stored EXCEPT ![field] = value]
      /\ UNCHANGED <<cached, theme, fetch, changes, wanted, crossed, disturbed>>
  BY <1>2, <1>4 DEF Served
<1>6. stored' \in Preference /\ stored'[field] = value /\ \A f \in Field \ {field} : stored'[f] = stored[f]
  <2>1. PICK before \in Preference : before = stored
    BY <1>1 DEF PrefTypes
  <2>2. LET after == [before EXCEPT ![field] = value]
        IN  after \in Preference /\ after[field] = value /\ \A f \in Field \ {field} : after[f] = before[f]
    BY <1>4, PreferenceChanged
  <2> QED BY <1>5, <2>1, <2>2
<1>7. PrefTypes'
  BY <1>1, <1>3, <1>4, <1>5, <1>6 DEF PrefTypes
<1> SUFFICES ASSUME ~disturbed PROVE PrefIInv'
  BY <1>5, <1>7 DEF PrefIInv
<1>8. cached # NotLoaded
  BY DEF PrefIInv
<1>9. ASSUME NEW f \in Field \ {"theme"} PROVE FieldIsFresh(f)'
  <2>1. FieldIsFresh(f)
    BY DEF PrefIInv
  <2> QED BY <1>3, <1>4, <1>5, <1>6, <2>1 DEF FieldIsFresh
<1>10. ASSUME NEW f \in Field \ crossed PROVE FieldIsKept(f)'
  <2>1. FieldIsKept(f)
    BY DEF PrefIInv
  <2>2. CASE f = field
    BY <1>3, <1>4, <1>5, <1>6, <2>1, <2>2 DEF FieldIsKept
  <2>3. CASE f # field
    BY <1>3, <1>4, <1>5, <1>6, <2>1, <2>3 DEF FieldIsKept
  <2> QED BY <2>2, <2>3
<1>11. ASSUME "theme" \notin crossed PROVE ThemeIsKept'
  BY <1>5, <1>11 DEF PrefIInv, ThemeIsKept
<1> QED BY <1>5, <1>7, <1>8, <1>9, <1>10, <1>11 DEF PrefIInv

LEMMA PrefAnswered == ASSUME PrefIInv, NEW r \in requests, ChangeAnswered(r) PROVE PrefIInv'
<1>1. PrefTypes /\ r.field \in Field
  BY DEF PrefIInv, PrefTypes, PrefRequest
<1>2. /\ r.served /\ requests' = requests \ {r}
      /\ fetch' = IF r.field = "theme" THEN fetch ELSE FetchedAgain
      /\ UNCHANGED <<stored, cached, theme, changes, wanted, crossed, disturbed>>
  BY DEF ChangeAnswered
<1>3. fetch' \in {fetch, Asked}
  BY <1>2 DEF FetchedAgain
<1>4. PrefTypes'
  BY <1>1, <1>2, <1>3 DEF PrefTypes
<1> SUFFICES ASSUME ~disturbed PROVE PrefIInv'
  BY <1>2, <1>4 DEF PrefIInv
<1>5. cached # NotLoaded
  BY DEF PrefIInv
<1>6. r.field # "theme" => fetch' = Asked
  BY <1>2, <1>5 DEF FetchedAgain
<1>7. ASSUME NEW f \in Field \ {"theme"} PROVE FieldIsFresh(f)'
  <2>1. FieldIsFresh(f)
    BY DEF PrefIInv
  <2>2. CASE r.field = "theme"
    BY <1>2, <2>1, <2>2 DEF FieldIsFresh
  <2>3. CASE r.field # "theme"
    BY <1>6, <2>3, PreferencesAssumption DEF FieldIsFresh
  <2> QED BY <2>2, <2>3
<1>8. ASSUME NEW f \in Field \ crossed PROVE FieldIsKept(f)'
  <2>1. FieldIsKept(f)
    BY DEF PrefIInv
  <2> QED BY <1>2, <2>1 DEF FieldIsKept
<1>9. ASSUME "theme" \notin crossed PROVE ThemeIsKept'
  BY <1>2, <1>3, <1>9, PreferencesAssumption DEF PrefIInv, ThemeIsKept
<1> QED BY <1>2, <1>4, <1>5, <1>7, <1>8, <1>9 DEF PrefIInv

LEMMA PrefFails == ASSUME PrefIInv, NEW r \in requests, ChangeFails(r) PROVE PrefIInv'
  BY DEF PrefIInv, PrefTypes, ChangeFails

LEMMA PrefReads == ASSUME PrefIInv, Reads PROVE PrefIInv'
<1>1. PrefTypes
  BY DEF PrefIInv
<1>2. /\ fetch = Asked /\ fetch' = stored
      /\ crossed' = crossed \cup {"theme" : r \in {u \in requests : u.field = "theme" /\ ~u.served}}
      /\ UNCHANGED <<stored, cached, theme, requests, changes, wanted, disturbed>>
  BY DEF Reads
<1>3. PrefTypes'
  BY <1>1, <1>2 DEF PrefTypes
<1> SUFFICES ASSUME ~disturbed PROVE PrefIInv'
  BY <1>2, <1>3 DEF PrefIInv
<1>4. stored \in Preference
  BY <1>1 DEF PrefTypes
<1>5. ASSUME NEW f \in Field \ {"theme"} PROVE FieldIsFresh(f)'
  BY <1>2, <1>4, PreferencesAssumption DEF FieldIsFresh
<1>6. ASSUME NEW f \in Field \ crossed' PROVE FieldIsKept(f)'
  <2>1. FieldIsKept(f)
    BY <1>2 DEF PrefIInv
  <2> QED BY <1>2, <2>1 DEF FieldIsKept
<1>7. ASSUME "theme" \notin crossed' PROVE ThemeIsKept'
  <2>1. "theme" \notin crossed /\ \A u \in requests : u.field = "theme" => u.served
    BY <1>2, <1>7
  <2>2. ThemeIsKept /\ FieldIsKept("theme")
    BY <2>1 DEF PrefIInv, Field
  <2>3. stored["theme"] = wanted["theme"]
    BY <2>1, <2>2 DEF FieldIsKept
  <2> QED BY <1>2, <2>2, <2>3 DEF ThemeIsKept
<1> QED BY <1>2, <1>3, <1>5, <1>6, <1>7 DEF PrefIInv

LEMMA PrefArrives == ASSUME PrefIInv, Arrives PROVE PrefIInv'
<1>1. PrefTypes /\ fetch \in Preference
  BY DEF PrefIInv, PrefTypes, Arrives
<1>2. /\ cached' = fetch /\ fetch' = NoFetch /\ cached' # NotLoaded
      /\ UNCHANGED <<stored, requests, changes, wanted, crossed, disturbed>>
  BY <1>1, PreferencesAssumption DEF Arrives
<1>3. /\ theme' \in {fetch["theme"], theme}
      /\ cached = NotLoaded => theme' = fetch["theme"]
  BY DEF Arrives
<1>4. fetch["theme"] \in Themes
  BY <1>1 DEF Preference
<1>5. PrefTypes'
  BY <1>1, <1>2, <1>3, <1>4 DEF PrefTypes
<1> SUFFICES ASSUME ~disturbed PROVE PrefIInv'
  BY <1>2, <1>5 DEF PrefIInv
<1>6. ASSUME NEW f \in Field \ {"theme"} PROVE FieldIsFresh(f)'
  <2>1. FieldIsFresh(f)
    BY DEF PrefIInv
  <2> QED BY <1>1, <1>2, <2>1, PreferencesAssumption DEF FieldIsFresh
<1>7. ASSUME NEW f \in Field \ crossed PROVE FieldIsKept(f)'
  <2>1. FieldIsKept(f)
    BY DEF PrefIInv
  <2> QED BY <1>2, <2>1 DEF FieldIsKept
<1>8. ASSUME "theme" \notin crossed PROVE ThemeIsKept'
  <2>1. ThemeIsKept
    BY <1>8 DEF PrefIInv
  <2> QED BY <1>1, <1>2, <1>3, <2>1, PreferencesAssumption DEF ThemeIsKept
<1> QED BY <1>2, <1>5, <1>6, <1>7, <1>8 DEF PrefIInv

LEMMA PrefFetch == ASSUME PrefIInv, FetchFails \/ Refetched PROVE PrefIInv'
<1>1. PrefTypes /\ UNCHANGED <<stored, cached, theme, requests, changes, wanted, crossed>>
  BY DEF PrefIInv, FetchFails, Refetched
<1>2. \/ fetch' = Asked /\ disturbed' = disturbed
      \/ fetch' = NoFetch /\ disturbed'
  BY DEF FetchFails, Refetched
<1>3. PrefTypes'
  BY <1>1, <1>2 DEF PrefTypes
<1> SUFFICES ASSUME ~disturbed' PROVE PrefIInv'
  BY <1>3 DEF PrefIInv
<1>4. fetch' = Asked /\ ~disturbed
  BY <1>2
<1>5. ASSUME NEW f \in Field \ {"theme"} PROVE FieldIsFresh(f)'
  BY <1>4, PreferencesAssumption DEF FieldIsFresh
<1>6. ASSUME NEW f \in Field \ crossed PROVE FieldIsKept(f)'
  <2>1. FieldIsKept(f)
    BY <1>4 DEF PrefIInv
  <2> QED BY <1>1, <2>1 DEF FieldIsKept
<1>7. ASSUME "theme" \notin crossed PROVE ThemeIsKept'
  BY <1>1, <1>4, <1>7, PreferencesAssumption DEF PrefIInv, ThemeIsKept
<1> QED BY <1>1, <1>3, <1>4, <1>5, <1>6, <1>7 DEF PrefIInv

LEMMA PrefRemounted == ASSUME PrefIInv, Remounted PROVE PrefIInv'
<1>1. PrefTypes /\ cached \in Preference
  BY DEF PrefIInv, PrefTypes, Remounted
<1>2. /\ theme' = cached["theme"] /\ crossed' = crossed \cup {"theme"}
      /\ UNCHANGED <<stored, cached, requests, fetch, changes, wanted, disturbed>>
  BY DEF Remounted
<1>3. cached["theme"] \in Themes
  BY <1>1 DEF Preference
<1>4. PrefTypes'
  BY <1>1, <1>2, <1>3 DEF PrefTypes
<1> SUFFICES ASSUME ~disturbed PROVE PrefIInv'
  BY <1>2, <1>4 DEF PrefIInv
<1>5. ASSUME NEW f \in Field \ {"theme"} PROVE FieldIsFresh(f)'
  <2>1. FieldIsFresh(f)
    BY DEF PrefIInv
  <2> QED BY <1>2, <2>1 DEF FieldIsFresh
<1>6. ASSUME NEW f \in Field \ crossed' PROVE FieldIsKept(f)'
  <2>1. FieldIsKept(f)
    BY <1>2 DEF PrefIInv
  <2> QED BY <1>2, <2>1 DEF FieldIsKept
<1> QED BY <1>2, <1>4, <1>5, <1>6 DEF PrefIInv

LEMMA PrefStep == PrefIInv /\ [PrefNext]_prefVars => PrefIInv'
<1> SUFFICES ASSUME PrefIInv, [PrefNext]_prefVars PROVE PrefIInv'
  OBVIOUS
<1>1. CASE UNCHANGED prefVars
  BY <1>1 DEF prefVars, PrefIInv, PrefTypes, FieldIsFresh, FieldIsKept, ThemeIsKept
<1>2. CASE PrefNext
  BY <1>2, PrefSet, PrefServed, PrefAnswered, PrefFails, PrefReads, PrefArrives, PrefFetch,
     PrefRemounted DEF PrefNext
<1> QED BY <1>1, <1>2

LEMMA PrefIInvImplies == PrefIInv => PreferencesKept
<1> SUFFICES ASSUME PrefIInv, requests = {}, fetch = NoFetch, cached # NotLoaded, ~disturbed
             PROVE  /\ \A f \in Field \ {"theme"} : cached[f] = stored[f]
                    /\ \A f \in Field \ crossed : stored[f] = wanted[f]
                    /\ "theme" \notin crossed => theme = stored["theme"]
  BY DEF PreferencesKept
<1>1. ASSUME NEW f \in Field \ {"theme"} PROVE cached[f] = stored[f]
  BY DEF PrefIInv, FieldIsFresh
<1>2. ASSUME NEW f \in Field \ crossed PROVE stored[f] = wanted[f]
  BY DEF PrefIInv, FieldIsKept
<1>3. ASSUME "theme" \notin crossed PROVE theme = stored["theme"]
  <2>1. theme = wanted["theme"]
    BY <1>3 DEF PrefIInv, ThemeIsKept
  <2>2. "theme" \in Field \ crossed
    BY <1>3 DEF Field
  <2> QED BY <1>2, <2>1, <2>2
<1> QED BY <1>1, <1>2, <1>3

(* When every request is back and none failed, the page shows the stored     *)
(* preferences, and these are what the user has set: this is not claimed of  *)
(* a setting changed again before its earlier change was back, of the        *)
(* columns once one was switched on that the stored order does not list, and *)
(* of a theme changed while an older copy was on its way or before the page  *)
(* was shown anew.                                                           *)
THEOREM PreferencesAreKept == PrefSpec => []PreferencesKept
<1>1. PrefInit => PrefIInv
  BY PrefInitIInv
<1>2. PrefIInv /\ [PrefNext]_prefVars => PrefIInv'
  BY PrefStep
<1>3. PrefIInv => PreferencesKept
  BY PrefIInvImplies
<1> QED BY <1>1, <1>2, <1>3, PTL DEF PrefSpec

-----------------------------------------------------------------------------
(***************************************************************************)
(* SettingsPage: the cards of the settings, saved one by one.              *)
(***************************************************************************)

(* The form is as the settings were fetched but for what was typed, and that *)
(* is how the field was last set; a card is only clean with typed fields     *)
(* while the form is about to be filled again.                               *)
FormIsFilled ==
    /\ settings = NotFetched <=> form = NotFetched
    /\ \A f \in Setting \ typed : form[f] = settings[f]
    /\ \A f \in typed \ overlaid : form[f] = wishes[f]
    /\ \A f \in typed : Card(f) \in dirty \/ query.stage # "none" \/ isError

(* A field that was not overlaid is stored as it was last set, or it is      *)
(* typed, no fetch is about to undo that, and a save that leaves it out has  *)
(* nothing to store.                                                         *)
Kept(f) == row[f] = wishes[f]

FieldsAreKept ==
    \A f \in Setting \ overlaid :
       /\ f \notin typed => Kept(f)
       /\ f \in typed /\ settings[f] # row[f] => Kept(f)
       /\ f \in typed /\ query.stage # "none" => Kept(f)
       /\ saving # NothingSent =>
             /\ f \in DOMAIN saving.data => saving.data[f] = wishes[f] /\ (saving.served => Kept(f))
             /\ f \in typed /\ Card(f) = saving.card /\ f \notin DOMAIN saving.data => Kept(f)

FormIInv == SettingsTypeOK /\ FormIsFilled /\ FieldsAreKept

LEMMA FormInit == SettingsInit => FormIInv
<1> SUFFICES ASSUME SettingsInit PROVE FormIInv
  OBVIOUS
<1>1. Query("asked") \in [stage : {"none", "asked", "answered"}, data : Form \cup {NotFetched}]
  BY DEF Query
<1>2. SettingsTypeOK
  <2>1. 0 \in 0..MaxEdits
    BY SettingsPageAssumption
  <2> QED BY <1>1, <2>1 DEF SettingsInit, SettingsTypeOK
<1>3. FormIsFilled
  BY DEF SettingsInit, FormIsFilled
<1>4. FieldsAreKept
  BY DEF SettingsInit, FieldsAreKept, Kept
<1> QED BY <1>2, <1>3, <1>4 DEF FormIInv

-----------------------------------------------------------------------------
(* The administrators.                                                       *)

LEMMA FormTyped ==
    ASSUME FormIInv, NEW f \in Setting, NEW value \in Setpoint, Type(f, value)
    PROVE  FormIInv'
<1>1. /\ SettingsTypeOK /\ form \in Form /\ wishes \in Form /\ settings # NotFetched /\ ~isError
  BY SettingsPageAssumption DEF FormIInv, SettingsTypeOK, Type, CardsShown, FormIsFilled
<1>2. form' = [form EXCEPT ![f] = value] /\ wishes' = [wishes EXCEPT ![f] = value]
  BY DEF Type
<1>3. /\ form' \in Form /\ form'[f] = value /\ \A g \in Setting \ {f} : form'[g] = form[g]
      /\ wishes' \in Form /\ wishes'[f] = value /\ \A g \in Setting \ {f} : wishes'[g] = wishes[g]
  BY <1>1, <1>2 DEF Form
<1>4. /\ dirty' = dirty \cup {Card(f)} /\ typed' = typed \cup {f} /\ overlaid \subseteq overlaid'
      /\ overlaid' \subseteq overlaid \cup {f}
      /\ f \notin overlaid' => AtRest /\ settings[f] = row[f]
      /\ UNCHANGED <<row, settings, password, saving, query, isError, keyVars>>
      /\ edits' \in 0..MaxEdits
  BY <1>1, SettingsPageAssumption DEF Type, Edit, SettingsTypeOK
<1>5. Card(f) \in Cards
  BY DEF Card, Cards
<1>6. SettingsTypeOK'
  BY <1>1, <1>3, <1>4, <1>5 DEF SettingsTypeOK, keyVars
<1>7. FormIsFilled'
  <2>1. FormIsFilled
    BY DEF FormIInv
  <2>2. form' # NotFetched
    BY <1>3, SettingsPageAssumption
  <2>3. \A g \in Setting \ typed' : form'[g] = settings'[g]
    BY <1>3, <1>4, <2>1 DEF FormIsFilled
  <2>4. \A g \in typed' \ overlaid' : form'[g] = wishes'[g]
    <3>1. typed \subseteq Setting
      BY <1>1 DEF SettingsTypeOK
    <3> QED BY <1>3, <1>4, <2>1, <3>1 DEF FormIsFilled
  <2>5. \A g \in typed' : Card(g) \in dirty' \/ query'.stage # "none" \/ isError'
    BY <1>4, <2>1 DEF FormIsFilled
  <2> QED BY <1>1, <1>4, <2>2, <2>3, <2>4, <2>5 DEF FormIsFilled, Card
<1>8. FieldsAreKept'
  <2> SUFFICES ASSUME NEW g \in Setting \ overlaid'
               PROVE  /\ g \notin typed' => Kept(g)'
                      /\ g \in typed' /\ (settings[g] # row[g])' => Kept(g)'
                      /\ g \in typed' /\ query'.stage # "none" => Kept(g)'
                      /\ saving' # NothingSent =>
                            /\ g \in DOMAIN saving'.data => saving'.data[g] = wishes'[g] /\ (saving'.served => Kept(g)')
                            /\ g \in typed' /\ Card(g) = saving'.card /\ g \notin DOMAIN saving'.data => Kept(g)'
    BY DEF FieldsAreKept, Card
  <2>1. CASE g = f
    BY <1>1, <1>3, <1>4, <2>1 DEF AtRest, Kept
  <2>2. CASE g # f
    <3>1. g \in Setting \ overlaid /\ (g \in typed' <=> g \in typed) /\ (Kept(g)' <=> Kept(g)) /\ wishes'[g] = wishes[g]
      BY <1>3, <1>4, <2>2 DEF Kept
    <3> QED BY <1>4, <3>1 DEF FormIInv, FieldsAreKept
  <2> QED BY <2>1, <2>2
<1> QED BY <1>6, <1>7, <1>8 DEF FormIInv

LEMMA PasswordTyped ==
    ASSUME FormIInv, NEW some \in BOOLEAN, TypePassword(some)
    PROVE  FormIInv'
<1>1. /\ password' \in BOOLEAN /\ dirty' = dirty \cup {"pbx"} /\ edits' \in 0..MaxEdits
      /\ UNCHANGED <<row, settings, form, saving, query, isError, wishes, typed, overlaid, keyVars>>
  BY SettingsPageAssumption DEF TypePassword, Edit, FormIInv, SettingsTypeOK
<1>2. SettingsTypeOK'
  BY <1>1 DEF FormIInv, SettingsTypeOK, keyVars, Cards
<1>3. FormIsFilled' /\ FieldsAreKept'
  BY <1>1 DEF FormIInv, FormIsFilled, FieldsAreKept, Kept, Card
<1> QED BY <1>2, <1>3 DEF FormIInv

LEMMA FieldSetByAnother ==
    ASSUME FormIInv, NEW f \in Setting, NEW value \in Setpoint, SetByAnother(f, value)
    PROVE  FormIInv'
<1>1. SettingsTypeOK /\ row \in Form /\ wishes \in Form
  BY DEF FormIInv, SettingsTypeOK
<1>2. row' = [row EXCEPT ![f] = value] /\ wishes' = [wishes EXCEPT ![f] = value]
  BY DEF SetByAnother
<1>3. /\ row' \in Form /\ row'[f] = value /\ \A g \in Setting \ {f} : row'[g] = row[g]
      /\ wishes' \in Form /\ wishes'[f] = value /\ \A g \in Setting \ {f} : wishes'[g] = wishes[g]
  BY <1>1, <1>2 DEF Form
<1>4. /\ overlaid \subseteq overlaid' /\ overlaid' \subseteq overlaid \cup {f}
      /\ f \notin overlaid' => f \notin typed /\ (saving # NothingSent => f \notin DOMAIN saving.data)
      /\ UNCHANGED <<settings, form, password, dirty, saving, query, isError, typed, keyVars>>
      /\ edits' \in 0..MaxEdits
  BY <1>1, SettingsPageAssumption DEF SetByAnother, Edit, SettingsTypeOK
<1>5. SettingsTypeOK'
  BY <1>1, <1>3, <1>4 DEF SettingsTypeOK, keyVars
<1>6. FormIsFilled'
  <2>1. FormIsFilled
    BY DEF FormIInv
  <2> QED BY <1>3, <1>4, <1>1, <2>1 DEF FormIsFilled, Card, SettingsTypeOK
<1>7. FieldsAreKept'
  <2> SUFFICES ASSUME NEW g \in Setting \ overlaid'
               PROVE  /\ g \notin typed => Kept(g)'
                      /\ g \in typed /\ (settings[g] # row[g])' => Kept(g)'
                      /\ g \in typed /\ query.stage # "none" => Kept(g)'
                      /\ saving # NothingSent =>
                            /\ g \in DOMAIN saving.data => saving.data[g] = wishes'[g] /\ (saving.served => Kept(g)')
                            /\ g \in typed /\ Card(g) = saving.card /\ g \notin DOMAIN saving.data => Kept(g)'
    BY <1>4 DEF FieldsAreKept, Card
  <2>1. CASE g = f
    BY <1>3, <1>4, <2>1 DEF Kept
  <2>2. CASE g # f
    <3>1. g \in Setting \ overlaid /\ (Kept(g)' <=> Kept(g)) /\ wishes'[g] = wishes[g] /\ row'[g] = row[g]
      BY <1>3, <1>4, <2>2 DEF Kept
    <3> QED BY <1>4, <3>1 DEF FormIInv, FieldsAreKept
  <2> QED BY <2>1, <2>2
<1> QED BY <1>5, <1>6, <1>7 DEF FormIInv

-----------------------------------------------------------------------------
(* A save.                                                                   *)

LEMMA CardSaved ==
    ASSUME FormIInv, NEW card \in Cards, Save(card)
    PROVE  FormIInv'
<1>1. SettingsTypeOK /\ form \in Form /\ FormIsFilled /\ FieldsAreKept
  BY SettingsPageAssumption DEF FormIInv, SettingsTypeOK, Save, CardsShown, FormIsFilled
<1> DEFINE differ == {f \in Setting : Card(f) = card /\ form[f] # settings[f]}
           data == [f \in differ |-> form[f]]
           sent == [card |-> card, data |-> data, served |-> FALSE]
<1>2. /\ saving = NothingSent /\ saving' = sent
      /\ UNCHANGED <<row, settings, form, password, dirty, query, isError, wishes, typed, overlaid, keyVars, edits>>
  BY DEF Save
<1>3. differ \in SUBSET Setting /\ data \in [differ -> Setpoint] /\ DOMAIN data = differ
  BY <1>1 DEF Form
<1>4. \A f \in differ : data[f] = form[f] /\ f \in typed
  BY <1>1 DEF FormIsFilled
<1>5. \A f \in Setting : Card(f) = card /\ f \notin differ => form[f] = settings[f]
  OBVIOUS
<1> HIDE DEF differ, data
<1>6. /\ sent \in SentSave /\ sent.card = card /\ sent.data = data /\ sent.served = FALSE
  BY <1>3 DEF SentSave
<1> HIDE DEF sent
<1>7. SettingsTypeOK'
  BY <1>1, <1>2, <1>6 DEF SettingsTypeOK, keyVars
<1>8. FormIsFilled'
  BY <1>1, <1>2 DEF FormIsFilled, Card
<1>9. FieldsAreKept'
  <2> SUFFICES ASSUME NEW f \in Setting \ overlaid
               PROVE  /\ f \notin typed => Kept(f)
                      /\ f \in typed /\ settings[f] # row[f] => Kept(f)
                      /\ f \in typed /\ query.stage # "none" => Kept(f)
                      /\ f \in DOMAIN data => data[f] = wishes[f]
                      /\ f \in typed /\ Card(f) = card /\ f \notin DOMAIN data => Kept(f)
    BY <1>2, <1>6 DEF FieldsAreKept, Kept, Card
  <2>1. /\ f \notin typed => Kept(f)
        /\ f \in typed /\ settings[f] # row[f] => Kept(f)
        /\ f \in typed /\ query.stage # "none" => Kept(f)
    BY <1>1 DEF FieldsAreKept
  <2>2. f \in DOMAIN data => data[f] = wishes[f]
    BY <1>1, <1>3, <1>4 DEF FormIsFilled
  <2>3. f \in typed /\ Card(f) = card /\ f \notin DOMAIN data => Kept(f)
    <3> SUFFICES ASSUME f \in typed, Card(f) = card, f \notin DOMAIN data PROVE Kept(f)
      OBVIOUS
    <3>1. form[f] = settings[f] /\ form[f] = wishes[f]
      BY <1>1, <1>3, <1>5 DEF FormIsFilled
    <3> QED BY <2>1, <3>1 DEF Kept
  <2> QED BY <2>1, <2>2, <2>3
<1> QED BY <1>7, <1>8, <1>9 DEF FormIInv

LEMMA SaveIsServed == ASSUME FormIInv, SaveServed PROVE FormIInv'
<1>1. /\ SettingsTypeOK /\ FormIsFilled /\ FieldsAreKept /\ saving # NothingSent /\ saving \in SentSave /\ ~saving.served
      /\ row \in Form
  BY DEF FormIInv, SettingsTypeOK, SaveServed
<1> PICK sent \in SentSave : sent = saving
  BY <1>1
<1> PICK data : data = sent.data
  OBVIOUS
<1> PICK fields \in SUBSET Setting : data \in [fields -> Setpoint]
  BY DEF SentSave
<1> DEFINE served == [sent EXCEPT !.served = TRUE]
<1>2. served \in SentSave /\ served.card = sent.card /\ served.data = data /\ served.served
  BY DEF SentSave
<1>3. /\ row' = [f \in Setting |-> IF f \in DOMAIN data THEN data[f] ELSE row[f]] /\ saving' = served
      /\ UNCHANGED <<settings, form, password, dirty, query, isError, wishes, typed, overlaid, keyVars, edits>>
  BY DEF SaveServed
<1> HIDE DEF served
<1>4. /\ row' \in Form
      /\ \A f \in Setting : row'[f] = IF f \in DOMAIN data THEN data[f] ELSE row[f]
  BY <1>1, <1>3 DEF Form
<1>5. SettingsTypeOK'
  BY <1>1, <1>2, <1>3, <1>4 DEF SettingsTypeOK, keyVars
<1>6. FormIsFilled'
  BY <1>1, <1>3 DEF FormIsFilled, Card
<1>7. \A f \in Setting \ overlaid : (Kept(f) => Kept(f)') /\ (f \in DOMAIN data => Kept(f)' /\ data[f] = wishes[f])
  BY <1>1, <1>3, <1>4 DEF Kept, FieldsAreKept
<1>8. FieldsAreKept'
  <2> SUFFICES ASSUME NEW f \in Setting \ overlaid
               PROVE  /\ f \notin typed => Kept(f)'
                      /\ f \in typed /\ settings[f] # row'[f] => Kept(f)'
                      /\ f \in typed /\ query.stage # "none" => Kept(f)'
                      /\ f \in DOMAIN data => data[f] = wishes[f] /\ Kept(f)'
                      /\ f \in typed /\ Card(f) = sent.card /\ f \notin DOMAIN data => Kept(f)'
    BY <1>2, <1>3 DEF FieldsAreKept, Card, Kept
  <2>1. CASE f \in DOMAIN data
    BY <1>7, <2>1
  <2>2. CASE f \notin DOMAIN data
    <3>1. row'[f] = row[f]
      BY <1>4, <2>2
    <3> QED BY <1>1, <1>7, <2>2, <3>1 DEF FieldsAreKept
  <2> QED BY <2>1, <2>2
<1> QED BY <1>5, <1>6, <1>8 DEF FormIInv

LEMMA SaveEnds == ASSUME FormIInv, SaveSucceeds \/ SaveFails PROVE FormIInv'
<1>1. SettingsTypeOK /\ FormIsFilled /\ FieldsAreKept
  BY DEF FormIInv
<1>2. /\ saving # NothingSent /\ saving' = NothingSent
      /\ UNCHANGED <<row, settings, form, isError, wishes, typed, keyVars, edits>>
  BY DEF SaveSucceeds, SaveFails
<1>3. /\ Query("asked") \in [stage : {"none", "asked", "answered"}, data : Form \cup {NotFetched}]
      /\ Query("asked").stage = "asked"
  BY DEF Query
<1>4. CASE SaveFails
  <2>1. UNCHANGED <<password, dirty, query, overlaid>>
    BY <1>4 DEF SaveFails
  <2>2. SettingsTypeOK'
    BY <1>1, <1>2, <2>1 DEF SettingsTypeOK, keyVars
  <2>3. FormIsFilled' /\ FieldsAreKept'
    BY <1>1, <1>2, <2>1 DEF FormIsFilled, FieldsAreKept, Kept, Card
  <2> QED BY <2>2, <2>3 DEF FormIInv
<1>5. CASE SaveSucceeds
  <2>1. /\ dirty' = {} /\ password' = FALSE /\ query' = Query("asked") /\ saving.served
        /\ overlaid' = overlaid \cup {f \in typed : Card(f) # saving.card}
    BY <1>5 DEF SaveSucceeds
  <2>2. SettingsTypeOK'
    BY <1>1, <1>2, <1>3, <2>1 DEF SettingsTypeOK, keyVars
  <2>3. FormIsFilled'
    BY <1>1, <1>2, <1>3, <2>1 DEF FormIsFilled, Card
  <2>4. ASSUME NEW f \in Setting \ overlaid' PROVE Kept(f)'
    <3>1. f \notin overlaid /\ (f \in typed => Card(f) = saving.card)
      BY <2>1
    <3>2. Kept(f)
      BY <1>1, <1>2, <2>1, <3>1 DEF FieldsAreKept
    <3> QED BY <1>2, <3>2 DEF Kept
  <2>5. FieldsAreKept'
    BY <1>2, <2>4 DEF FieldsAreKept
  <2> QED BY <2>2, <2>3, <2>5 DEF FormIInv
<1> QED BY <1>4, <1>5

-----------------------------------------------------------------------------
(* The settings are fetched.                                                 *)

LEMMA SettingsRead ==
    ASSUME FormIInv, QueryReads \/ QueryFails \/ Reconnected
    PROVE  FormIInv'
<1>1. SettingsTypeOK /\ FormIsFilled /\ FieldsAreKept
  BY DEF FormIInv
<1>2. UNCHANGED <<row, settings, form, password, dirty, saving, wishes, typed, keyVars, edits>>
  BY DEF QueryReads, QueryFails, Reconnected
<1>3. \A stage \in {"none", "asked", "answered"} :
         /\ Query(stage) \in [stage : {"none", "asked", "answered"}, data : Form \cup {NotFetched}]
         /\ Query(stage).stage = stage
  BY DEF Query
<1>4. CASE QueryReads
  <2> DEFINE answer == [stage |-> "answered", data |-> row]
  <2>1. answer \in [stage : {"none", "asked", "answered"}, data : Form \cup {NotFetched}] /\ answer.stage = "answered"
    BY <1>1 DEF SettingsTypeOK
  <2>2. query.stage = "asked" /\ query' = answer /\ UNCHANGED <<isError, overlaid>>
    BY <1>4 DEF QueryReads
  <2> HIDE DEF answer
  <2>3. SettingsTypeOK'
    BY <1>1, <1>2, <2>1, <2>2 DEF SettingsTypeOK, keyVars
  <2>4. FormIsFilled' /\ FieldsAreKept'
    BY <1>1, <1>2, <2>1, <2>2 DEF FormIsFilled, FieldsAreKept, Kept, Card
  <2> QED BY <2>3, <2>4 DEF FormIInv
<1>5. CASE QueryFails
  <2>1. query' = Query("none") /\ isError' = TRUE /\ UNCHANGED overlaid
    BY <1>5 DEF QueryFails
  <2>2. SettingsTypeOK'
    BY <1>1, <1>2, <1>3, <2>1 DEF SettingsTypeOK, keyVars
  <2>3. FormIsFilled' /\ FieldsAreKept'
    BY <1>1, <1>2, <1>3, <2>1 DEF FormIsFilled, FieldsAreKept, Kept, Card
  <2> QED BY <2>2, <2>3 DEF FormIInv
<1>6. CASE Reconnected
  <2>1. query' = Query("asked") /\ overlaid' = overlaid \cup typed /\ UNCHANGED isError
    BY <1>6 DEF Reconnected
  <2>2. SettingsTypeOK'
    BY <1>1, <1>2, <1>3, <2>1 DEF SettingsTypeOK, keyVars
  <2>3. FormIsFilled' /\ FieldsAreKept'
    BY <1>1, <1>2, <1>3, <2>1 DEF FormIsFilled, FieldsAreKept, Kept, Card
  <2> QED BY <2>2, <2>3 DEF FormIInv
<1> QED BY <1>4, <1>5, <1>6

LEMMA FormFilled == ASSUME FormIInv, QueryArrives PROVE FormIInv'
<1>1. SettingsTypeOK /\ FormIsFilled /\ FieldsAreKept /\ row \in Form /\ wishes \in Form
  BY DEF FormIInv, SettingsTypeOK
<1>2. PICK data \in Form \cup {NotFetched} : data = query.data
  BY <1>1 DEF SettingsTypeOK
<1>3. /\ query.stage = "answered" /\ settings' = data /\ form' = data /\ query' = Query("none") /\ isError' = FALSE
      /\ typed' = {} /\ UNCHANGED <<row, password, dirty, saving, keyVars, edits>>
      /\ IF saving = NothingSent
         THEN /\ wishes' = [f \in Setting |-> IF f \in overlaid THEN row[f] ELSE wishes[f]]
              /\ overlaid' = {}
         ELSE UNCHANGED <<wishes, overlaid>>
  BY <1>2 DEF QueryArrives
<1>4. Query("none") \in [stage : {"none", "asked", "answered"}, data : Form \cup {NotFetched}]
  BY DEF Query
<1>5. wishes' \in Form /\ \A f \in Setting \ overlaid : wishes'[f] = wishes[f]
  BY <1>1, <1>3 DEF Form
<1>6. overlaid' \subseteq overlaid
  BY <1>3
<1>7. SettingsTypeOK'
  BY <1>1, <1>3, <1>4, <1>5, <1>6 DEF SettingsTypeOK, keyVars
<1>8. FormIsFilled'
  BY <1>3 DEF FormIsFilled
<1>9. ASSUME NEW f \in Setting \ overlaid PROVE Kept(f) /\ Kept(f)'
  BY <1>1, <1>3, <1>5 DEF FieldsAreKept, Kept
<1>10. CASE saving = NothingSent
  <2>1. ASSUME NEW f \in Setting PROVE Kept(f)'
    <3>1. CASE f \in overlaid
      BY <1>3, <1>10, <3>1 DEF Kept
    <3> QED BY <1>9, <3>1
  <2>2. FieldsAreKept'
    BY <1>3, <1>10, <2>1 DEF FieldsAreKept
  <2> QED BY <1>7, <1>8, <2>2 DEF FormIInv
<1>11. CASE saving # NothingSent
  <2>1. FieldsAreKept'
    BY <1>1, <1>3, <1>9, <1>11 DEF FieldsAreKept, Card
  <2> QED BY <1>7, <1>8, <2>1 DEF FormIInv
<1> QED BY <1>10, <1>11

-----------------------------------------------------------------------------
(* The dialog of the relay's key.                                            *)

DialogAction ==
    \/ OpenDialog \/ CloseDialog \/ GenerateKey \/ KeyStored \/ KeyOfAnother
    \/ \E k \in generating : KeyArrives(k) \/ KeyLost(k)

(* No key is shown while one is generated, at most one at a time, and a key  *)
(* that is on its way or shown is the relay's unless another administrator   *)
(* made the last one.                                                        *)
KeyIsRelays ==
    /\ \A k, l \in generating : k = l
    /\ generating # {} => generatedKey = 0
    /\ ~otherKey => /\ generatedKey # 0 => generatedKey = relayKey
                    /\ \A k \in generating \ {0} : k = relayKey

LEMMA DialogTypes == SettingsTypeOK /\ DialogAction => SettingsTypeOK' /\ UNCHANGED formVars
<1> SUFFICES ASSUME SettingsTypeOK, DialogAction PROVE SettingsTypeOK' /\ UNCHANGED formVars
  OBVIOUS
<1>1. UNCHANGED formVars
  BY DEF DialogAction, OpenDialog, CloseDialog, GenerateKey, KeyStored, KeyOfAnother, KeyArrives, KeyLost
<1>2. edits \in 0..MaxEdits /\ relayKey \in 0..MaxEdits /\ generatedKey \in 0..MaxEdits /\ generating \subseteq 0..MaxEdits
  BY DEF SettingsTypeOK
<1>3. edits' \in 0..MaxEdits
  BY <1>2, SettingsPageAssumption
     DEF DialogAction, OpenDialog, CloseDialog, GenerateKey, KeyStored, KeyOfAnother, KeyArrives, KeyLost, Edit
<1>4. /\ relayKey' \in {relayKey, edits'} /\ generatedKey' \in {0, generatedKey} \cup generating
      /\ generating' \subseteq generating \cup {0, edits'}
  BY DEF DialogAction, OpenDialog, CloseDialog, GenerateKey, KeyStored, KeyOfAnother, KeyArrives, KeyLost
<1>5. 0 \in 0..MaxEdits
  BY SettingsPageAssumption
<1>6. {relayKey', generatedKey'} \subseteq 0..MaxEdits /\ generating' \subseteq 0..MaxEdits
  BY <1>2, <1>3, <1>4, <1>5
<1> QED BY <1>1, <1>3, <1>6 DEF SettingsTypeOK, formVars

LEMMA DialogKeys == SettingsTypeOK /\ KeyIsRelays /\ DialogAction => KeyIsRelays'
<1> SUFFICES ASSUME SettingsTypeOK, KeyIsRelays, DialogAction PROVE KeyIsRelays'
  OBVIOUS
<1>1. CASE OpenDialog \/ CloseDialog \/ GenerateKey
  BY <1>1 DEF KeyIsRelays, OpenDialog, CloseDialog, GenerateKey
<1>2. CASE KeyStored
  BY <1>2 DEF KeyIsRelays, KeyStored
<1>3. CASE KeyOfAnother
  BY <1>3 DEF KeyIsRelays, KeyOfAnother
<1>4. ASSUME NEW k \in generating, KeyArrives(k) \/ KeyLost(k) PROVE KeyIsRelays'
  BY <1>4 DEF KeyIsRelays, KeyArrives, KeyLost
<1> QED BY <1>1, <1>2, <1>3, <1>4 DEF DialogAction

-----------------------------------------------------------------------------

SettingsIInv == FormIInv /\ KeyIsRelays

LEMMA SettingsStep == SettingsIInv /\ [SettingsNext]_settingsVars => SettingsIInv'
<1> SUFFICES ASSUME SettingsIInv, [SettingsNext]_settingsVars PROVE SettingsIInv'
  OBVIOUS
<1> USE DEF SettingsIInv
<1>1. ASSUME UNCHANGED formVars, SettingsTypeOK' PROVE FormIInv'
  BY <1>1 DEF formVars, FormIInv, FormIsFilled, FieldsAreKept, Kept, Card
<1>2. ASSUME UNCHANGED keyVars PROVE KeyIsRelays'
  BY <1>2 DEF keyVars, KeyIsRelays
<1>3. CASE UNCHANGED settingsVars
  <2>1. SettingsTypeOK'
    BY <1>3 DEF FormIInv, SettingsTypeOK, settingsVars, formVars, keyVars
  <2> QED BY <1>1, <1>2, <1>3, <2>1 DEF settingsVars
<1>4. CASE DialogAction
  BY <1>1, <1>4, DialogTypes, DialogKeys DEF FormIInv
<1>5. ASSUME NEW f \in Setting, NEW value \in Setpoint, Type(f, value) \/ SetByAnother(f, value) PROVE SettingsIInv'
  <2>1. UNCHANGED keyVars
    BY <1>5 DEF Type, SetByAnother
  <2> QED BY <1>2, <1>5, <2>1, FormTyped, FieldSetByAnother
<1>6. ASSUME NEW some \in BOOLEAN, TypePassword(some) PROVE SettingsIInv'
  <2>1. UNCHANGED keyVars
    BY <1>6 DEF TypePassword
  <2> QED BY <1>2, <1>6, <2>1, PasswordTyped
<1>7. ASSUME NEW card \in Cards, Save(card) PROVE SettingsIInv'
  <2>1. UNCHANGED keyVars
    BY <1>7 DEF Save
  <2> QED BY <1>2, <1>7, <2>1, CardSaved
<1>8. CASE SaveServed \/ SaveSucceeds \/ SaveFails
  <2>1. UNCHANGED keyVars
    BY <1>8 DEF SaveServed, SaveSucceeds, SaveFails
  <2> QED BY <1>2, <1>8, <2>1, SaveIsServed, SaveEnds
<1>9. CASE QueryReads \/ QueryArrives \/ QueryFails \/ Reconnected
  <2>1. UNCHANGED keyVars
    BY <1>9 DEF QueryReads, QueryArrives, QueryFails, Reconnected
  <2> QED BY <1>2, <1>9, <2>1, SettingsRead, FormFilled
<1> QED BY <1>3, <1>4, <1>5, <1>6, <1>7, <1>8, <1>9 DEF SettingsNext, DialogAction

LEMMA SettingsInitIInv == SettingsInit => SettingsIInv
<1>1. SettingsInit => KeyIsRelays
  BY DEF SettingsInit, KeyIsRelays
<1> QED BY <1>1, FormInit DEF SettingsIInv

(* The types of SettingsPage: its form, what it has sent and what is fetched. *)
THEOREM SettingsTypeCorrect == SettingsSpec => []SettingsTypeOK
<1>1. SettingsIInv => SettingsTypeOK
  BY DEF SettingsIInv, FormIInv
<1> QED BY <1>1, SettingsInitIInv, SettingsStep, PTL DEF SettingsSpec

(* SettingsAreSaved of SettingsPage, for any settings, values and number of  *)
(* edits: when the page is at rest every field is stored as it was last set, *)
(* or is still to be saved and shown as it was typed; and the key that the   *)
(* dialog shows is the one the relay needs.                                  *)
THEOREM SettingsAreKept == SettingsSpec => []SettingsAreSaved
<1>2. SettingsIInv => SettingsAreSaved
  <2> SUFFICES ASSUME SettingsIInv PROVE SettingsAreSaved
    OBVIOUS
  <2> USE DEF SettingsIInv
  <2>1. ASSUME AtRest, ~isError, NEW f \in Setting
        PROVE  /\ f \notin overlaid => IF Card(f) \in dirty THEN f \in typed => form[f] = wishes[f]
                                                            ELSE row[f] = wishes[f]
               /\ Card(f) \notin dirty => form[f] = settings[f]
    <3>1. f \in typed => Card(f) \in dirty
      BY <2>1 DEF AtRest, FormIInv, FormIsFilled
    <3> QED BY <3>1 DEF FormIInv, FormIsFilled, FieldsAreKept, Kept
  <2>2. ASSUME generatedKey # 0, ~otherKey PROVE generatedKey = relayKey
    BY <2>2 DEF KeyIsRelays
  <2> QED BY <2>1, <2>2 DEF SettingsAreSaved
<1> QED BY <1>2, SettingsInitIInv, SettingsStep, PTL DEF SettingsSpec
=============================================================================
