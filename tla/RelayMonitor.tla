---------------------------- MODULE RelayMonitor ----------------------------
(***************************************************************************)
(* The relay agent's own monitor of the phone system                       *)
(* (3cxtools-relay/src/monitor.ts): a port of the wallboard's, without its *)
(* keep-alive and with other timers.  index.ts starts it once; it ends     *)
(* with the process.                                                       *)
(*                                                                         *)
(* Time is left out: a timer that is set may fire at any time.  What it    *)
(* makes of the agents is in MonitorData (the wallboard's monitor).        *)
(***************************************************************************)
EXTENDS Integers

CONSTANTS
    MaxWaiting    \* bound on the untracked timers of each kind

ASSUME RelayMonitorAssumption == MaxWaiting \in Nat \ {0}

VARIABLES
    attempt,       \* connect(): "idle", "login", "session", "upgrade"; or "hung" in it
    socket,        \* the WebSocket: "none", "up", "silent" (its peer is gone), "closed"
    isConnected,   \* connected
    gotInitialData,
    reconnectTimer, staleTimer, refreshTimer,   \* set or not
    commandsOut,   \* responses to commands may come, of this session or of one before
    attempts,      \* timers of 3 s after which connect() is called
    dataChecks     \* timers of 8 s after which data should have come

relayMonitorVars == <<attempt, socket, isConnected, gotInitialData, reconnectTimer, staleTimer,
                      refreshTimer, commandsOut, attempts, dataChecks>>

RelayMonitorTypeOK ==
    /\ attempt \in {"idle", "login", "session", "upgrade", "hung"}
    /\ socket \in {"none", "up", "silent", "closed"}
    /\ isConnected \in BOOLEAN /\ gotInitialData \in BOOLEAN /\ commandsOut \in BOOLEAN
    /\ reconnectTimer \in BOOLEAN /\ staleTimer \in BOOLEAN /\ refreshTimer \in BOOLEAN
    /\ attempts \in 0..MaxWaiting /\ dataChecks \in 0..MaxWaiting

-----------------------------------------------------------------------------
(* Connecting.                                                             *)

\* connect(), which a connection or an attempt under way turns away.
Begins == attempt' = IF isConnected \/ attempt # "idle" THEN attempt ELSE "login"

\* scheduleReconnect(): the timer that was set is replaced.
SchedulesReconnect == reconnectTimer' = TRUE

\* The token is there.
LoggedIn ==
    /\ attempt = "login"
    /\ attempt' = "session"
    /\ UNCHANGED <<socket, isConnected, gotInitialData, reconnectTimer, staleTimer,
                   refreshTimer, commandsOut, attempts, dataChecks>>

\* The session key is there.
HasSession ==
    /\ attempt = "session"
    /\ attempt' = "upgrade"
    /\ gotInitialData' = FALSE
    /\ UNCHANGED <<socket, isConnected, reconnectTimer, staleTimer, refreshTimer,
                   commandsOut, attempts, dataChecks>>

\* 'upgrade', and the rest of connect().
Upgraded ==
    /\ attempt = "upgrade" /\ dataChecks < MaxWaiting
    /\ attempt' = "idle"
    /\ socket' = "up" /\ isConnected' = TRUE
    /\ staleTimer' = TRUE /\ refreshTimer' = TRUE /\ commandsOut' = TRUE
    /\ dataChecks' = dataChecks + 1
    /\ UNCHANGED <<gotInitialData, reconnectTimer, attempts>>

AttemptFailsQuietly ==   \* fault: no token, no session: connect() returns and nothing else
    /\ attempt \in {"login", "session", "upgrade"}
    /\ attempt' = "idle"
    /\ UNCHANGED <<socket, isConnected, gotInitialData, reconnectTimer, staleTimer,
                   refreshTimer, commandsOut, attempts, dataChecks>>

\* A login or a session that is refused, or any step that fails or takes 15 s.
AttemptFails ==
    /\ attempt \in {"login", "session", "upgrade"}
    /\ attempt' = "idle"
    /\ SchedulesReconnect
    /\ UNCHANGED <<socket, isConnected, gotInitialData, staleTimer, refreshTimer,
                   commandsOut, attempts, dataChecks>>

\* The phone system answers the upgrade with an ordinary response, which nothing
\* handles: the promise never settles and isConnecting stays set.
UpgradeAnswered ==
    /\ attempt = "upgrade"
    /\ attempt' = "hung"
    /\ UNCHANGED <<socket, isConnected, gotInitialData, reconnectTimer, staleTimer,
                   refreshTimer, commandsOut, attempts, dataChecks>>

-----------------------------------------------------------------------------
(* The connection.                                                         *)

\* Agents come over the WebSocket, or in the response to a command of this session or
\* of one before, whatever has become of the connection.
AgentsArrive ==
    /\ socket = "up" \/ commandsOut
    /\ gotInitialData' = TRUE
    /\ staleTimer' = TRUE
    /\ UNCHANGED <<attempt, socket, isConnected, reconnectTimer, refreshTimer,
                   commandsOut, attempts, dataChecks>>

\* The commands under way have been answered, or will not be.
CommandsEnd ==
    /\ commandsOut
    /\ commandsOut' = FALSE
    /\ UNCHANGED <<attempt, socket, isConnected, gotInitialData, reconnectTimer,
                   staleTimer, refreshTimer, attempts, dataChecks>>

\* The peer goes without a word: no event of the socket follows.
GoesSilent ==
    /\ socket = "up"
    /\ socket' = "silent"
    /\ UNCHANGED <<attempt, isConnected, gotInitialData, reconnectTimer, staleTimer,
                   refreshTimer, commandsOut, attempts, dataChecks>>

\* A close frame, or 'error': the socket still counts as connected.
CloseAnnounced ==
    /\ socket = "up"
    /\ SchedulesReconnect
    /\ UNCHANGED <<attempt, socket, isConnected, gotInitialData, staleTimer,
                   refreshTimer, commandsOut, attempts, dataChecks>>

\* 'close'
SocketCloses ==
    /\ socket \in {"up", "silent"}
    /\ socket' = "closed" /\ isConnected' = FALSE
    /\ SchedulesReconnect
    /\ UNCHANGED <<attempt, gotInitialData, staleTimer, refreshTimer,
                   commandsOut, attempts, dataChecks>>

-----------------------------------------------------------------------------
(* The timers.                                                             *)

\* The reconnect timer: disconnect(), and connect() 3 s later.  The listeners of the
\* socket are gone; an attempt under way is not.
ReconnectFires ==
    /\ reconnectTimer /\ attempts < MaxWaiting
    /\ reconnectTimer' = FALSE
    /\ socket' = "none" /\ isConnected' = FALSE /\ refreshTimer' = FALSE
    /\ attempts' = attempts + 1
    /\ UNCHANGED <<attempt, gotInitialData, staleTimer, commandsOut, dataChecks>>

AttemptDue ==
    /\ attempts > 0
    /\ attempts' = attempts - 1
    /\ Begins
    /\ UNCHANGED <<socket, isConnected, gotInitialData, reconnectTimer, staleTimer,
                   refreshTimer, commandsOut, dataChecks>>

\* No agents for 120 s.
StaleFires ==
    /\ staleTimer
    /\ staleTimer' = FALSE
    /\ reconnectTimer' = (reconnectTimer \/ isConnected)
    /\ UNCHANGED <<attempt, socket, isConnected, gotInitialData, refreshTimer,
                   commandsOut, attempts, dataChecks>>

\* No agents in the first 8 s, of this connection or of one before.
DataCheckDue ==
    /\ dataChecks > 0
    /\ dataChecks' = dataChecks - 1
    /\ reconnectTimer' = (reconnectTimer \/ (isConnected /\ ~gotInitialData))
    /\ UNCHANGED <<attempt, socket, isConnected, gotInitialData, staleTimer,
                   refreshTimer, commandsOut, attempts>>

\* The refresh of every 3 s: it ends with the connection.
RefreshFires ==
    /\ refreshTimer
    /\ refreshTimer' = isConnected
    /\ commandsOut' = (commandsOut \/ isConnected)
    /\ UNCHANGED <<attempt, socket, isConnected, gotInitialData, reconnectTimer,
                   staleTimer, attempts, dataChecks>>

RelayMonitorInit ==
    /\ attempt = "login" /\ socket = "none"
    /\ isConnected = FALSE /\ gotInitialData = FALSE
    /\ reconnectTimer = FALSE /\ staleTimer = FALSE /\ refreshTimer = FALSE /\ commandsOut = FALSE
    /\ attempts = 0 /\ dataChecks = 0

RelayMonitorNext ==
    \/ LoggedIn \/ HasSession \/ Upgraded \/ AttemptFails \/ UpgradeAnswered
    \/ AgentsArrive \/ CommandsEnd \/ GoesSilent \/ CloseAnnounced \/ SocketCloses
    \/ ReconnectFires \/ AttemptDue \/ StaleFires \/ DataCheckDue \/ RefreshFires

RelayMonitorSpec == RelayMonitorInit /\ [][RelayMonitorNext]_relayMonitorVars

-----------------------------------------------------------------------------
(* What should hold.                                                       *)

\* However attempts, timers of earlier connections and events of the socket fall
\* together: the relay's monitor tries to connect, will try, or has a connection
\* whose silence it will notice; unless the phone system answered the upgrade with an
\* ordinary response, after which it never does.  And no attempt replaces a socket
\* that is still open.
RelayMonitorComesBack ==
    /\ \/ attempt # "idle" \/ attempts > 0
       \/ reconnectTimer
       \/ isConnected /\ staleTimer
    /\ attempt # "idle" => ~isConnected

=============================================================================
