------------------------------ MODULE Terminal ------------------------------
(***************************************************************************)
(* The terminal of the remote control agent (rcc-agent/src/ssh-terminal.ts)*)
(* keeps a WebSocket to the command center and, for each terminal session  *)
(* a browser opens there, an SSH connection with a shell.  The map         *)
(* activeSshSessions has one entry for a session; the events of an SSH     *)
(* connection act on the entry of its session, whichever connection the    *)
(* entry belongs to by then.                                               *)
(***************************************************************************)
CONSTANTS
    Session,    \* identifiers of terminal sessions
    Ssh,        \* SSH connections, each used once
    NoEntry     \* no entry

Entry == [ssh : Ssh, stream : BOOLEAN]

ASSUME TerminalAssumption == NoEntry \notin Session \cup Entry

VARIABLES
    broker,     \* the WebSocket: "none", "connecting" or "open"
    timer,      \* reconnectTimer: "none" or "set"
    entries,    \* activeSshSessions
    conns,      \* every SSH connection
    reopened    \* sessions opened again before the events of an earlier connection
                \* were over (history)

terminalVars == <<broker, timer, entries, conns, reopened>>

\* A connection is up to "ready", asks for a shell, has one, or is idle without one.
\* One that the agent has ended may still report what was under way.
Live   == {"connecting", "asking", "shell"}
Ending == {"ending", "endingAsking", "endingShell"}
SshStages == Live \cup Ending \cup {"new", "idle", "dead"}
NoConn == [stage |-> "new", session |-> NoEntry]

TerminalTypeOK ==
    /\ broker \in {"none", "connecting", "open"}
    /\ timer \in {"none", "set"}
    /\ entries \in [Session -> Entry \cup {NoEntry}]
    /\ conns \in [Ssh -> [stage : SshStages, session : Session \cup {NoEntry}]]
    /\ reopened \subseteq Session

Of(s) == {c \in Ssh : conns[c].session = s}

-----------------------------------------------------------------------------
(* The connection to the command center.                                   *)

\* The timer of scheduleReconnect() fires: connect().
TimerFires ==
    /\ timer = "set"
    /\ timer' = "none"
    /\ broker' = IF broker = "none" THEN "connecting" ELSE broker
    /\ UNCHANGED <<entries, conns, reopened>>

\* 'open'
BrokerOpens ==
    /\ broker = "connecting"
    /\ broker' = "open"
    /\ timer' = "none"
    /\ UNCHANGED <<entries, conns, reopened>>

\* The connection of an entry ends: ssh.end().
Ended(conn) ==
    [conn EXCEPT !.stage = CASE @ = "shell"  -> "endingShell"
                             [] @ = "asking" -> "endingAsking"
                             [] @ \in Ending \cup {"dead"} -> @
                             [] OTHER        -> "ending"]

CloseLeavesRunning(ss) ==   \* fault: the entries go, the connections stay
    /\ entries' = [s \in Session |-> IF s \in ss THEN NoEntry ELSE entries[s]]
    /\ UNCHANGED conns

\* closeSshSession() for each of the sessions "ss".
CloseSessions(ss) ==
    /\ entries' = [s \in Session |-> IF s \in ss THEN NoEntry ELSE entries[s]]
    /\ conns' = [c \in Ssh |-> IF \E s \in ss : entries[s] # NoEntry /\ entries[s].ssh = c
                               THEN Ended(conns[c]) ELSE conns[c]]

\* 'close', after an error too: all sessions are closed and a reconnection is due.
BrokerCloses ==
    /\ broker # "none"
    /\ broker' = "none"
    /\ CloseSessions(Session)
    /\ timer' = IF timer = "none" THEN "set" ELSE timer
    /\ UNCHANGED reopened

-----------------------------------------------------------------------------
(* Messages of the command center.                                         *)

\* open_ssh: an entry the session has is closed, and replaced.
OpenSsh(s, c) ==
    /\ broker = "open"
    /\ conns[c] = NoConn
    /\ entries' = [entries EXCEPT ![s] = [ssh |-> c, stream |-> FALSE]]
    /\ conns' = [d \in Ssh |-> IF d = c THEN [stage |-> "connecting", session |-> s]
                               ELSE IF entries[s] # NoEntry /\ entries[s].ssh = d THEN Ended(conns[d])
                               ELSE conns[d]]
    /\ reopened' = IF \E d \in Of(s) : conns[d].stage # "dead"
                   THEN reopened \cup {s} ELSE reopened
    /\ UNCHANGED <<broker, timer>>

\* close_ssh
CloseSsh(s) ==
    /\ broker = "open"
    /\ entries[s] # NoEntry
    /\ CloseSessions({s})
    /\ UNCHANGED <<broker, timer, reopened>>

-----------------------------------------------------------------------------
(* Events of an SSH connection.                                            *)

ForgetEntry(s) == entries' = [entries EXCEPT ![s] = NoEntry]

Becomes(c, stage) == conns' = [conns EXCEPT ![c].stage = stage]

\* 'ready': a shell is asked for.
Ready(c) ==
    /\ conns[c].stage = "connecting"
    /\ Becomes(c, "asking")
    /\ UNCHANGED <<broker, timer, entries, reopened>>

\* The shell is there: the entry is set, with the stream, whatever it was.
ShellOpens(c) ==
    /\ conns[c].stage \in {"asking", "endingAsking"}
    /\ Becomes(c, IF conns[c].stage = "asking" THEN "shell" ELSE "endingShell")
    /\ entries' = [entries EXCEPT ![conns[c].session] = [ssh |-> c, stream |-> TRUE]]
    /\ UNCHANGED <<broker, timer, reopened>>

\* The shell is refused, or the connection ends while it is asked for.
ShellRefused(c) ==
    /\ conns[c].stage \in {"asking", "endingAsking"}
    /\ Becomes(c, "dead")
    /\ ForgetEntry(conns[c].session)
    /\ UNCHANGED <<broker, timer, reopened>>

\* 'close' of the stream: a user has left the shell, or the connection was ended.
\* The connection of a shell that was left is not ended.
ShellCloses(c) ==
    /\ conns[c].stage \in {"shell", "endingShell"}
    /\ Becomes(c, IF conns[c].stage = "shell" THEN "idle" ELSE "dead")
    /\ ForgetEntry(conns[c].session)
    /\ UNCHANGED <<broker, timer, reopened>>

\* 'error': refused, timed out, lost.
SshError(c) ==
    /\ conns[c].stage \in Live \cup {"idle", "ending"}
    /\ Becomes(c, "dead")
    /\ ForgetEntry(conns[c].session)
    /\ UNCHANGED <<broker, timer, reopened>>

\* An ended connection is gone without another event.
SshGone(c) ==
    /\ conns[c].stage = "ending"
    /\ Becomes(c, "dead")
    /\ UNCHANGED <<broker, timer, entries, reopened>>

TerminalInit ==
    /\ broker = "connecting" /\ timer = "none"
    /\ entries = [s \in Session |-> NoEntry]
    /\ conns = [c \in Ssh |-> NoConn]
    /\ reopened = {}

TerminalNext ==
    \/ TimerFires \/ BrokerOpens \/ BrokerCloses
    \/ \E s \in Session : CloseSsh(s) \/ \E c \in Ssh : OpenSsh(s, c)
    \/ \E c \in Ssh : \/ Ready(c) \/ ShellOpens(c) \/ ShellRefused(c) \/ ShellCloses(c)
                      \/ SshError(c) \/ SshGone(c)

TerminalSpec == TerminalInit /\ [][TerminalNext]_terminalVars

-----------------------------------------------------------------------------
(* What should hold.                                                       *)

\* A live connection is the entry of its session: input reaches its shell, a request
\* to close ends it and it does not outlive the connection to the command center;
\* for sessions that were not opened again while an earlier connection could still
\* report (then its late events remove the entry of the new one, and its shell is
\* out of reach).
LiveConnectionsAreKnown ==
    \A s \in Session \ reopened :
        LET live == {c \in Of(s) : conns[c].stage \in Live} IN
        /\ \A c \in live : /\ entries[s] # NoEntry /\ entries[s].ssh = c
                           /\ entries[s].stream = (conns[c].stage = "shell")
        /\ entries[s] # NoEntry => conns[entries[s].ssh].stage \in Live \cup {"endingShell"}
        /\ broker # "open" => live = {}

=============================================================================
