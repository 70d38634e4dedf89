--------------------------- MODULE WallboardServer ---------------------------
(***************************************************************************)
(* The wallboard's own data and who may change it: the set-up wizard,      *)
(* login and sessions (wallboard/src/server/routers/auth.ts, lib/          *)
(* session.ts, middleware.ts) and the administration of queues, thresholds *)
(* and users (server/routers/admin.ts).                                    *)
(*                                                                         *)
(* A procedure that awaits between its reads and its writes is cut there;  *)
(* it is the one job of its browser.  The database keeps what a crash of   *)
(* the server leaves.  Thresholds are those of one metric for all queues.  *)
(***************************************************************************)
EXTENDS Integers, FiniteSets, FiniteSetsExt

CONSTANTS
    Browser,
    Extension,
    AdminExtension,   \* ADMIN_EXTENSIONS
    PbxQueue,         \* queues of the phone system
    None              \* nobody, no configuration, no row

ASSUME WallboardServerAssumption ==
    /\ AdminExtension \subseteq Extension
    /\ None \notin Extension \cup Nat
    /\ IsFiniteSet(PbxQueue)

VARIABLES
    owner,        \* extensionNumber of the system configuration, None before the set-up
    role,         \* every user's role; None: no such user
    session,      \* every browser's cookie: its user, and whether the session is there
    page,         \* what every browser shows
    job,          \* the procedure every browser is waiting for
    order,        \* sortOrder of the wallboard queues; None: no row
    listed,       \* the queues every browser has last been shown
    globals,      \* how many threshold rows the metric has
    wholeSetup,   \* a set-up has come to its end (history)
    overlapped    \* two procedures that exclude each other overlapped (history)

tables     == <<owner, role, order, globals>>
browsers   == <<session, page, listed>>
serverVars == <<tables, browsers, job, wholeSetup, overlapped>>

SignedOut == [user |-> None, live |-> FALSE]
NoJob     == [stage |-> "none", user |-> None, owner |-> None, queues |-> {}, next |-> 0]

Setup   == {"setupHealth", "setupUser", "setupQueues", "setupThresholds", "setupSession"}
SyncJob == {"syncFetch", "syncRows"}
Stages  == {"none", "login", "loginSession", "threshold"} \cup Setup \cup SyncJob

ServerTypeOK ==
    /\ owner \in Extension \cup {None}
    /\ role \in [Extension -> {"USER", "ADMIN", None}]
    /\ \A b \in Browser :
        /\ session[b].user \in Extension \cup {None} /\ session[b].live \in BOOLEAN
        /\ page[b] \in {"setup", "login", "wallboard"}
        /\ job[b].stage \in Stages /\ job[b].queues \subseteq PbxQueue /\ job[b].next \in Nat
        /\ listed[b] \subseteq PbxQueue
    /\ order \in [PbxQueue -> Nat \cup {None}]
    /\ globals \in Nat
    /\ {wholeSetup, overlapped} \subseteq BOOLEAN

-----------------------------------------------------------------------------
(* Jobs and who may start them.                                            *)

\* createContext(), protectedProcedure and adminProcedure
SignedIn(b) == session[b].user # None /\ session[b].live
IsAdmin(b)  == SignedIn(b) /\ role[session[b].user] = "ADMIN"

Rows == {q \in PbxQueue : order[q] # None}
In(stages) == {b \in Browser : job[b].stage \in stages}

\* What must not overlap for the tables to keep their order: a set-up with anything
\* that writes, two that add queues, two that add a threshold.
Excludes(stage) == Setup \cup (IF stage \in Setup THEN Stages \ {"none"}
                               ELSE IF stage = "syncRows" THEN {"syncRows"}
                               ELSE IF stage = "threshold" THEN {"threshold"} ELSE {})

Enters(b, j) ==
    /\ job' = [job EXCEPT ![b] = j]
    /\ overlapped' = (overlapped \/ In(Excludes(j.stage)) \ {b} # {})

Moves(b, stage) == Enters(b, [job[b] EXCEPT !.stage = stage])
Ends(b) == job' = [job EXCEPT ![b] = NoJob] /\ UNCHANGED overlapped

\* A request that is refused, or a query of the phone system or the database that fails.
JobFails(b) ==
    /\ job[b].stage # "none"
    /\ Ends(b)
    /\ UNCHANGED <<tables, browsers, wholeSetup>>

\* The server goes down: what has not been written is not.
ServerCrash ==
    /\ job' = [b \in Browser |-> NoJob]
    /\ UNCHANGED <<tables, browsers, wholeSetup, overlapped>>

-----------------------------------------------------------------------------
(* Pages (middleware.ts, the layout of the dashboard).                     *)

\* A page is chosen by the presence of a cookie: with one, the login page is the
\* wallboard, and without one the wallboard is the login page.
Landing(b, to) ==
    IF to = "setup" THEN "setup"
    ELSE IF session[b].user # None THEN "wallboard"
    ELSE "login"

\* A page is opened; so is the login page when "me" fails.
Navigate(b, to) ==
    /\ page' = [page EXCEPT ![b] = Landing(b, to)]
    /\ UNCHANGED <<tables, session, listed, job, wholeSetup, overlapped>>

\* createSession(): the row, and the cookie in the answer.
SessionCreated(b) ==
    /\ session' = [session EXCEPT ![b] = [user |-> job[b].user, live |-> TRUE]]
    /\ page' = [page EXCEPT ![b] = "wallboard"]
    /\ Ends(b)
    /\ UNCHANGED <<tables, listed>>

\* The 24 hours are over, of the cookie and of the session, whose row is deleted when
\* it is next asked for.
SessionExpires(b) ==
    /\ session' = [session EXCEPT ![b] = SignedOut]
    /\ UNCHANGED <<tables, page, listed, job, wholeSetup, overlapped>>

\* logout: for who has a session; the cookie goes with it.
Logout(b) ==
    /\ SignedIn(b) /\ job[b] = NoJob
    /\ session' = [session EXCEPT ![b] = SignedOut]
    /\ page' = [page EXCEPT ![b] = "login"]
    /\ UNCHANGED <<tables, listed, job, wholeSetup, overlapped>>

-----------------------------------------------------------------------------
(* The set-up wizard.                                                      *)

\* setupComplete is read ...
BeginSetup(b, e) ==
    /\ page[b] = "setup" /\ job[b] = NoJob
    /\ owner = None
    /\ Enters(b, [NoJob EXCEPT !.stage = "setupHealth", !.user = e])
    /\ UNCHANGED <<tables, browsers, wholeSetup>>

\* ... the credentials tried, and the configuration is written, complete already.
SetupConfigures(b) ==
    /\ job[b].stage = "setupHealth"
    /\ owner' = job[b].user
    /\ Moves(b, "setupUser")
    /\ UNCHANGED <<role, order, globals, browsers, wholeSetup>>

\* The first user: an error if there is one with the extension.
SetupUser(b) ==
    /\ job[b].stage = "setupUser"
    /\ role[job[b].user] = None
    /\ role' = [role EXCEPT ![job[b].user] = "ADMIN"]
    /\ Moves(b, "setupQueues")
    /\ UNCHANGED <<owner, order, globals, browsers, wholeSetup>>

\* The queues, one by one ...
SetupQueue(b, q) ==
    /\ job[b].stage = "setupQueues" /\ q \notin job[b].queues
    /\ order[q] = None
    /\ order' = [order EXCEPT ![q] = job[b].next]
    /\ Enters(b, [job[b] EXCEPT !.queues = @ \cup {q}, !.next = @ + 1])
    /\ UNCHANGED <<owner, role, globals, browsers, wholeSetup>>

\* ... until there are no more, or one cannot be added, which is not an error.
SetupQueuesEnd(b) ==
    /\ job[b].stage = "setupQueues"
    /\ Moves(b, "setupThresholds")
    /\ UNCHANGED <<tables, browsers, wholeSetup>>

SetupThresholds(b) ==
    /\ job[b].stage = "setupThresholds"
    /\ globals' = globals + 1
    /\ Moves(b, "setupSession")
    /\ UNCHANGED <<owner, role, order, browsers, wholeSetup>>

SetupEnds(b) ==
    /\ job[b].stage = "setupSession"
    /\ SessionCreated(b)
    /\ wholeSetup' = TRUE

-----------------------------------------------------------------------------
(* login                                                                   *)

BeginLogin(b, e) ==
    /\ page[b] = "login" /\ job[b] = NoJob
    /\ owner # None
    /\ Enters(b, [NoJob EXCEPT !.stage = "login", !.user = e, !.owner = owner])
    /\ UNCHANGED <<tables, browsers, wholeSetup>>

\* The credentials are good: the user's role is set anew, by the configuration as it
\* was read.
LoginUpserts(b) ==
    LET e == job[b].user IN
    /\ job[b].stage = "login"
    /\ role' = [role EXCEPT ![e] = IF e \in AdminExtension \cup {job[b].owner} THEN "ADMIN" ELSE "USER"]
    /\ Moves(b, "loginSession")
    /\ UNCHANGED <<owner, order, globals, browsers, wholeSetup>>

LoginEnds(b) ==
    /\ job[b].stage = "loginSession"
    /\ SessionCreated(b)
    /\ UNCHANGED wholeSetup

-----------------------------------------------------------------------------
(* Administration.                                                         *)

\* updateSettings: the system owner's extension among them.
UpdateSettings(b, e) ==
    /\ IsAdmin(b) /\ job[b] = NoJob
    /\ owner' = e
    /\ UNCHANGED <<role, order, globals, browsers, job, wholeSetup, overlapped>>

UpdateUserRole(b, e, r) ==
    /\ IsAdmin(b) /\ job[b] = NoJob
    /\ role[e] # None
    /\ role' = [role EXCEPT ![e] = r]
    /\ UNCHANGED <<owner, order, globals, browsers, job, wholeSetup, overlapped>>

\* revokeSession: the row goes, the cookie stays.
RevokeSession(b, other) ==
    /\ IsAdmin(b) /\ job[b] = NoJob
    /\ SignedIn(other)
    /\ session' = [session EXCEPT ![other].live = FALSE]
    /\ UNCHANGED <<tables, page, listed, job, wholeSetup, overlapped>>

BeginSync(b) ==
    /\ IsAdmin(b) /\ job[b] = NoJob
    /\ Enters(b, [NoJob EXCEPT !.stage = "syncFetch"])
    /\ UNCHANGED <<tables, browsers, wholeSetup>>

\* syncQueues has the queues of the phone system and reads its own.
SyncReads(b) ==
    /\ job[b].stage = "syncFetch"
    /\ Enters(b, [NoJob EXCEPT !.stage = "syncRows", !.queues = Rows,
                               !.next = Max({order[q] : q \in Rows} \cup {-1}) + 1])
    /\ UNCHANGED <<tables, browsers, wholeSetup>>

SyncCounts(b, q) ==   \* fault: the next place is the number of queues added so far
    /\ job[b].stage = "syncRows" /\ q \notin job[b].queues
    /\ order[q] = None
    /\ order' = [order EXCEPT ![q] = Cardinality(job[b].queues \ Rows)]
    /\ Enters(b, [job[b] EXCEPT !.queues = @ \cup {q}])
    /\ UNCHANGED <<owner, role, globals, browsers, wholeSetup>>

\* A queue it had not: at the end.  One that somebody else has added by now is an error
\* (JobFails).
SyncAdds(b, q) ==
    /\ job[b].stage = "syncRows" /\ q \notin job[b].queues
    /\ order[q] = None
    /\ order' = [order EXCEPT ![q] = job[b].next]
    /\ Enters(b, [job[b] EXCEPT !.queues = @ \cup {q}, !.next = @ + 1])
    /\ UNCHANGED <<owner, role, globals, browsers, wholeSetup>>

\* getQueues, of the administration's page.
GetQueues(b) ==
    /\ IsAdmin(b)
    /\ listed' = [listed EXCEPT ![b] = Rows]
    /\ UNCHANGED <<tables, session, page, job, wholeSetup, overlapped>>

\* updateQueueOrder: the queues as the browser was shown them, in another order, are
\* numbered, in one transaction; those it was not shown keep their number.
UpdateQueueOrder(b, place) ==
    /\ IsAdmin(b) /\ job[b] = NoJob
    /\ Cardinality(listed[b]) > 1
    /\ order' = [q \in PbxQueue |-> IF q \in listed[b] THEN place[q] ELSE order[q]]
    /\ overlapped' = (overlapped \/ listed[b] # Rows)
    /\ UNCHANGED <<owner, role, globals, browsers, job, wholeSetup>>

\* upsertThreshold: a row that is found is updated (no change here) ...
BeginThreshold(b) ==
    /\ IsAdmin(b) /\ job[b] = NoJob
    /\ globals = 0
    /\ Enters(b, [NoJob EXCEPT !.stage = "threshold"])
    /\ UNCHANGED <<tables, browsers, wholeSetup>>

\* ... and one that was not is created: null is not unique.
ThresholdCreated(b) ==
    /\ job[b].stage = "threshold"
    /\ globals' = globals + 1
    /\ Ends(b)
    /\ UNCHANGED <<owner, role, order, browsers, wholeSetup>>

Places(queues) ==
    {place \in [queues -> 0..Cardinality(queues) - 1] :
        \A p, q \in queues : p # q => place[p] # place[q]}

ServerInit ==
    /\ owner = None
    /\ role = [e \in Extension |-> None]
    /\ session = [b \in Browser |-> SignedOut]
    /\ page = [b \in Browser |-> "login"]
    /\ job = [b \in Browser |-> NoJob]
    /\ order = [q \in PbxQueue |-> None]
    /\ listed = [b \in Browser |-> {}]
    /\ globals = 0
    /\ wholeSetup = FALSE /\ overlapped = FALSE

ServerNext ==
    \/ ServerCrash
    \/ \E b \in Browser :
        \/ JobFails(b) \/ SessionExpires(b) \/ Logout(b)
        \/ \E to \in {"setup", "login", "wallboard"} : Navigate(b, to)
        \/ SetupConfigures(b) \/ SetupUser(b) \/ SetupQueuesEnd(b) \/ SetupThresholds(b)
        \/ SetupEnds(b)
        \/ LoginUpserts(b) \/ LoginEnds(b)
        \/ BeginSync(b) \/ SyncReads(b) \/ GetQueues(b)
        \/ BeginThreshold(b) \/ ThresholdCreated(b)
        \/ \E other \in Browser : RevokeSession(b, other)
        \/ \E e \in Extension : \/ BeginSetup(b, e) \/ BeginLogin(b, e) \/ UpdateSettings(b, e)
                                \/ \E r \in {"USER", "ADMIN"} : UpdateUserRole(b, e, r)
        \/ \E q \in PbxQueue : SetupQueue(b, q) \/ SyncAdds(b, q)
        \/ \E place \in Places(listed[b]) : UpdateQueueOrder(b, place)

ServerSpec == ServerInit /\ [][ServerNext]_serverVars

-----------------------------------------------------------------------------
(* What should hold.                                                       *)

\* As long as no procedures that exclude each other overlap, and no order is saved by
\* a page that does not show every queue (the queues it does not show may have any of
\* the places it gives away): every queue has a place of its own on the wallboard,
\* also one that is added while the others are moved, and no threshold is there twice; and a set-up that came to its
\* end has left the thresholds there.  (One that was interrupted after it had written
\* the configuration has not, and is not made again.)
TablesKeepOrder ==
    ~overlapped =>
        /\ \A p, q \in Rows : p # q => order[p] # order[q]
        /\ globals <= 1
        /\ wholeSetup => globals = 1

=============================================================================
