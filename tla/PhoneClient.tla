----------------------------- MODULE PhoneClient -----------------------------
(***************************************************************************)
(* A client of the phone system (wallboard/src/lib/threecx-client.ts; that *)
(* of the auto-pager, auto-pager/src/threecx-client.ts, differs in what it *)
(* calls).  It keeps a token and a MyPhone session that all its requests   *)
(* share, and each request repeats itself once when the phone system does  *)
(* not accept them.                                                        *)
(*                                                                         *)
(* tokenEra and sessionEra count how often the phone system has given up   *)
(* the tokens, or the sessions, it had granted: a restart, or their age.   *)
(* A token is the era it was granted in.                                   *)
(***************************************************************************)
EXTENDS Integers

CONSTANTS
    Request,     \* requests of the XAPI
    Command,     \* MyPhone commands
    Uncached,    \* null
    MaxEra       \* bound on the eras

ASSUME PhoneClientAssumption ==
    /\ Request \cap Command = {}
    /\ MaxEra \in Nat
    /\ Uncached \notin 0..MaxEra

VARIABLES
    tokenEra, sessionEra,
    cachedToken, cachedSession,
    calls        \* every request and command

clientVars == <<tokenEra, sessionEra, cachedToken, cachedSession, calls>>

Era  == 0..MaxEra
Call == Request \cup Command

\* "uses" is the token, or the session, the call was sent with; "since" the era at
\* which it gave up the one before; "executed" how often the phone system did it.
Waiting == {"login", "sent", "session"}
EndStages    == {"done", "failed", "refused"}
NewCall == [stage |-> "new", second |-> FALSE, uses |-> 0, since |-> 0, executed |-> 0]

\* Bound of the model: how often a call may be executed.
ClientTypeOK ==
    /\ {tokenEra, sessionEra} \subseteq Era
    /\ {cachedToken, cachedSession} \subseteq Era \cup {Uncached}
    /\ calls \in [Call -> [stage : {"new"} \cup Waiting \cup EndStages, second : BOOLEAN,
                           uses : Era, since : Era, executed : 0..2]]

Becomes(c, call) == calls' = [calls EXCEPT ![c] = call]
Ended(c, stage)  == Becomes(c, [calls[c] EXCEPT !.stage = stage])

-----------------------------------------------------------------------------
(* authenticate() and the token.                                           *)

\* What a call does with the token it has: a request is sent, a command asks for a
\* session.
WithToken(c, call, token) ==
    Becomes(c, [call EXCEPT !.stage = IF c \in Request THEN "sent" ELSE "session", !.uses = token])

\* authenticate(): the cached token, or a login.
Authenticate(c, call) ==
    IF cachedToken # Uncached THEN WithToken(c, call, cachedToken)
                              ELSE Becomes(c, [call EXCEPT !.stage = "login"])

\* The answer to a login.  It may carry a token of an era that ended on its way.
LoggedIn(c, token) ==
    /\ calls[c].stage = "login"
    /\ token \in calls[c].since..tokenEra
    /\ cachedToken' = token
    /\ WithToken(c, calls[c], token)
    /\ UNCHANGED <<tokenEra, sessionEra, cachedSession>>

\* TOKEN_TTL_MS, or the life the auto-pager was told, is over; or invalidateToken().
TokenAges ==
    /\ cachedToken # Uncached
    /\ cachedToken' = Uncached
    /\ UNCHANGED <<tokenEra, sessionEra, cachedSession, calls>>

-----------------------------------------------------------------------------
(* request()                                                               *)

BeginRequest(r) ==
    /\ calls[r].stage = "new"
    /\ Authenticate(r, [calls[r] EXCEPT !.since = tokenEra])
    /\ UNCHANGED <<tokenEra, sessionEra, cachedToken, cachedSession>>

\* The phone system accepts the token and does what is asked; its answer may be lost,
\* or come after the timeout.
RequestExecuted(r, answered) ==
    /\ r \in Request /\ calls[r].stage = "sent" /\ calls[r].uses = tokenEra
    /\ Becomes(r, [calls[r] EXCEPT !.executed = @ + 1,
                                   !.stage = IF answered THEN "done" ELSE "failed"])
    /\ UNCHANGED <<tokenEra, sessionEra, cachedToken, cachedSession>>

\* A 401: the token is dropped, whichever it is by now, and the request repeated with
\* one of its own; a second 401 is an error.
RequestRefused(r) ==
    /\ r \in Request /\ calls[r].stage = "sent" /\ calls[r].uses # tokenEra
    /\ IF calls[r].second
       THEN Ended(r, "refused") /\ UNCHANGED cachedToken
       ELSE /\ cachedToken' = Uncached
            /\ Becomes(r, [calls[r] EXCEPT !.second = TRUE, !.since = tokenEra, !.stage = "login"])
    /\ UNCHANGED <<tokenEra, sessionEra, cachedSession>>

RetriesWhatFailed(c) ==   \* fault: whatever fails is sent again
    /\ calls[c].stage \in Waiting
    /\ IF calls[c].second THEN Ended(c, "failed")
       ELSE Becomes(c, [calls[c] EXCEPT !.second = TRUE,
                           !.executed = IF calls[c].stage = "sent" THEN @ + 1 ELSE @])
    /\ UNCHANGED <<tokenEra, sessionEra, cachedToken, cachedSession>>

\* A login, a session or a request fails otherwise: an error, and nothing is repeated.
CallFails(c) ==
    /\ calls[c].stage \in Waiting
    /\ Ended(c, "failed")
    /\ UNCHANGED <<tokenEra, sessionEra, cachedToken, cachedSession>>

-----------------------------------------------------------------------------
(* sendMyPhoneCommand()                                                    *)

\* getMyPhoneSession(): the cached session, or a new one, which takes a token.
WithSession(m, call, session) ==
    IF session # Uncached THEN Becomes(m, [call EXCEPT !.stage = "sent", !.uses = session])
                          ELSE Authenticate(m, call)

BeginCommand(m) ==
    /\ m \in Command /\ calls[m].stage = "new"
    /\ WithSession(m, [calls[m] EXCEPT !.since = tokenEra], cachedSession)
    /\ UNCHANGED <<tokenEra, sessionEra, cachedToken, cachedSession>>

\* A session is granted for a good token ...
SessionGranted(m) ==
    /\ m \in Command /\ calls[m].stage = "session" /\ calls[m].uses = tokenEra
    /\ cachedSession' = sessionEra
    /\ Becomes(m, [calls[m] EXCEPT !.stage = "sent", !.uses = sessionEra])
    /\ UNCHANGED <<tokenEra, sessionEra, cachedToken>>

\* ... and refused for another: both are dropped and the command fails.
SessionRefused(m) ==
    /\ m \in Command /\ calls[m].stage = "session" /\ calls[m].uses # tokenEra
    /\ cachedToken' = Uncached /\ cachedSession' = Uncached
    /\ Ended(m, "failed")
    /\ UNCHANGED <<tokenEra, sessionEra>>

CommandExecuted(m, answered) ==
    /\ m \in Command /\ calls[m].stage = "sent" /\ calls[m].uses = sessionEra
    /\ Becomes(m, [calls[m] EXCEPT !.executed = @ + 1,
                                   !.stage = IF answered THEN "done" ELSE "failed"])
    /\ UNCHANGED <<tokenEra, sessionEra, cachedToken, cachedSession>>

\* The session is good and the command is not done: its answer says neither that a login
\* is required nor that the command was processed, and has status 200, which is enough.
CommandIgnored(m) ==
    /\ m \in Command /\ calls[m].stage = "sent" /\ calls[m].uses = sessionEra
    /\ Ended(m, "done")
    /\ UNCHANGED <<tokenEra, sessionEra, cachedToken, cachedSession>>

\* "Login is required": once, the command gets a new session.
CommandRefused(m) ==
    /\ m \in Command /\ calls[m].stage = "sent" /\ calls[m].uses # sessionEra
    /\ IF calls[m].second
       THEN Ended(m, "failed") /\ UNCHANGED cachedSession
       ELSE /\ cachedSession' = Uncached
            /\ WithSession(m, [calls[m] EXCEPT !.second = TRUE, !.since = tokenEra], Uncached)
    /\ UNCHANGED <<tokenEra, sessionEra, cachedToken>>

\* SESSION_TTL_MS is over.
SessionAges ==
    /\ cachedSession # Uncached
    /\ cachedSession' = Uncached
    /\ UNCHANGED <<tokenEra, sessionEra, cachedToken, calls>>

-----------------------------------------------------------------------------
(* The phone system.                                                       *)

TokensEnd ==
    /\ tokenEra < MaxEra
    /\ tokenEra' = tokenEra + 1
    /\ UNCHANGED <<sessionEra, cachedToken, cachedSession, calls>>

SessionsEnd ==
    /\ sessionEra < MaxEra
    /\ sessionEra' = sessionEra + 1
    /\ UNCHANGED <<tokenEra, cachedToken, cachedSession, calls>>

ClientInit ==
    /\ tokenEra = 0 /\ sessionEra = 0
    /\ cachedToken = Uncached /\ cachedSession = Uncached
    /\ calls = [c \in Call |-> NewCall]

ClientNext ==
    \/ \E r \in Request : \/ BeginRequest(r) \/ RequestRefused(r)
                          \/ \E answered \in BOOLEAN : RequestExecuted(r, answered)
    \/ \E m \in Command : \/ BeginCommand(m) \/ SessionGranted(m) \/ SessionRefused(m)
                          \/ CommandRefused(m) \/ CommandIgnored(m)
                          \/ \E answered \in BOOLEAN : CommandExecuted(m, answered)
    \/ \E c \in Call : CallFails(c) \/ \E token \in Era : LoggedIn(c, token)
    \/ TokenAges \/ SessionAges \/ TokensEnd \/ SessionsEnd

ClientSpec == ClientInit /\ [][ClientNext]_clientVars

-----------------------------------------------------------------------------
(* What should hold.                                                       *)

\* No request or command is executed twice, whatever is repeated and however the
\* calls share their token and session; a request that is reported as done was done, of
\* a command that cannot be said; and a request is refused for good only when the phone
\* system has given up its tokens again after the request had dropped the first.
CallsAreExecutedOnce ==
    /\ \A c \in Call : calls[c].executed <= 1
    /\ \A r \in Request : calls[r].stage = "done" => calls[r].executed = 1
    /\ \A r \in Request : calls[r].stage = "refused" => tokenEra > calls[r].since

=============================================================================
