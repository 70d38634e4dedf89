------------------------- MODULE MonitorConnection -------------------------
(***************************************************************************)
(* The connection of the wallboard's live monitor to the phone system      *)
(* (wallboard/src/lib/threecx-queue-monitor.ts): login, session and        *)
(* WebSocket upgrade one after the other, four kinds of timer that bring   *)
(* the connection back, and handlers of old sockets and old requests that  *)
(* go on running.  The poller starts, stops and restarts the monitor.      *)
(*                                                                         *)
(* One action is one callback of the event loop.  A timer is the set of    *)
(* the times that are left: {} when it is off, due when 0 is in it.  The   *)
(* handles reconnectTimer and staleTimer hold one time at most; the 3 s    *)
(* and 8 s timeouts have no handle, so any number of them may run (two     *)
(* that are due together do what one does).                                *)
(*                                                                         *)
(* The flag "connected" and the field "socket" are always assigned         *)
(* together: connected is socket # NoSocket here.                          *)
(***************************************************************************)
EXTENDS Integers, FiniteSets

CONSTANTS
    SocketId,        \* the sockets that may exist at a time
    NoSocket,        \* null
    CleanupDelay,    \* 3 s, between a disconnect and the next connect
    QuickDelay,      \* 2 s, reconnect after a connection without data
    NoDataDelay,     \* 8 s, the wait for the first data
    RetryDelay,      \* 15 s, reconnect after a failure or a close
    ErrorDelay,      \* 30 s, reconnect after a socket error
    StaleDelay,      \* STALE_TIMEOUT_MS
    RequestTimeout,  \* 15 s, the timeout of every request
    MaxCloseFrames   \* bound on the close frames the phone system sends

ASSUME MonitorConnectionAssumption ==
    /\ IsFiniteSet(SocketId)
    /\ NoSocket \notin SocketId
    /\ CleanupDelay \in Nat /\ QuickDelay \in Nat /\ NoDataDelay \in Nat
    /\ RetryDelay \in Nat /\ ErrorDelay \in Nat /\ StaleDelay \in Nat
    /\ RequestTimeout \in Nat
    /\ RequestTimeout < StaleDelay
    /\ MaxCloseFrames \in Nat

VARIABLES
    phase,           \* "new", "running" or "stopped" (the flag stopped)
    attempt,         \* connect() in flight: the request it awaits and its time left
    socket,          \* the field socket
    peer,            \* the state of every socket
    closeFrames,     \* how many close frames came (history)
    gotInitialData,
    reconnectTimer,
    staleTimer,
    pendingConnects, \* the 3 s timeouts
    noDataChecks,    \* the 8 s timeouts
    commands,        \* login commands over HTTP that may still be answered
    outlivedStop     \* stop() was called since the last attempt began (history)

timers == <<reconnectTimer, staleTimer, pendingConnects, noDataChecks>>
vars == <<phase, attempt, socket, peer, closeFrames, gotInitialData, timers,
          commands, outlivedStop>>

Stages == {"login", "session", "upgrade"}
Idle   == [stage |-> "idle", left |-> 0]
Request(stage) == [stage |-> stage, left |-> RequestTimeout]
Attempt == {Idle} \cup [stage : Stages, left : 0..RequestTimeout]

MaxDelay == CleanupDelay + QuickDelay + NoDataDelay + RetryDelay + ErrorDelay
            + StaleDelay + 2 * RequestTimeout
Timer(d) == {{}} \cup {{t} : t \in 0..d}

TypeOK ==
    /\ phase \in {"new", "running", "stopped"}
    /\ attempt \in Attempt
    /\ socket \in SocketId \cup {NoSocket}
    /\ peer \in [SocketId -> {"gone", "open", "greeted", "closing"}]
    /\ closeFrames \in 0..MaxCloseFrames
    /\ gotInitialData \in BOOLEAN
    /\ reconnectTimer \in Timer(MaxDelay)
    /\ staleTimer \in Timer(StaleDelay)
    /\ pendingConnects \in SUBSET (0..CleanupDelay)
    /\ noDataChecks \in SUBSET (0..NoDataDelay)
    /\ commands \in Timer(2 * RequestTimeout)
    /\ outlivedStop \in BOOLEAN

-----------------------------------------------------------------------------
(* The methods the callbacks call.                                         *)

Live == {s \in SocketId : peer[s] # "gone"}

\* scheduleReconnect(): replaces a timer that runs; nothing when stopped.
ScheduleReconnect(delay) ==
    reconnectTimer' = IF phase = "stopped" THEN reconnectTimer ELSE {delay}

\* A handler of a socket that closes: plans a reconnect unless one is planned.
ReconnectUnlessPlanned(delay) ==
    IF reconnectTimer = {} /\ attempt = Idle THEN ScheduleReconnect(delay)
                                             ELSE UNCHANGED reconnectTimer

DisconnectForgets ==   \* fault: the socket is not destroyed
    /\ socket' = NoSocket
    /\ UNCHANGED peer

\* disconnect(): removes the handlers of the current socket and destroys it.
Disconnect ==
    /\ socket' = NoSocket
    /\ peer' = [s \in SocketId |-> IF s = socket THEN "gone" ELSE peer[s]]

\* connect() up to its first await, when the socket is "current".
BeginConnect(current) ==
    IF phase # "stopped" /\ current = NoSocket /\ attempt = Idle
    THEN attempt' = Request("login") /\ outlivedStop' = FALSE
    ELSE UNCHANGED <<attempt, outlivedStop>>

-----------------------------------------------------------------------------
(* What the poller calls.                                                  *)

\* start(), also of a monitor that runs or was stopped.
Start ==
    /\ phase' = "running"
    /\ IF socket = NoSocket /\ attempt = Idle
       THEN attempt' = Request("login") /\ outlivedStop' = FALSE
       ELSE UNCHANGED <<attempt, outlivedStop>>
    /\ UNCHANGED <<socket, peer, closeFrames, gotInitialData, timers, commands>>

\* stop(): two timers off and the socket closed; an attempt in flight goes on.
Stop ==
    /\ phase = "running"
    /\ phase' = "stopped"
    /\ reconnectTimer' = {}
    /\ staleTimer' = {}
    /\ Disconnect
    /\ outlivedStop' = TRUE
    /\ UNCHANGED <<attempt, closeFrames, gotInitialData, pendingConnects, noDataChecks, commands>>

ForceReconnectTracked ==   \* fault: a second call replaces the pending connect
    /\ phase = "running"
    /\ reconnectTimer' = {}
    /\ Disconnect
    /\ pendingConnects' = {CleanupDelay}
    /\ UNCHANGED <<phase, attempt, closeFrames, gotInitialData, staleTimer, noDataChecks,
                   commands, outlivedStop>>

\* forceReconnect()
ForceReconnect ==
    /\ phase = "running"
    /\ reconnectTimer' = {}
    /\ Disconnect
    /\ pendingConnects' = pendingConnects \cup {CleanupDelay}
    /\ UNCHANGED <<phase, attempt, closeFrames, gotInitialData, staleTimer, noDataChecks,
                   commands, outlivedStop>>

-----------------------------------------------------------------------------
(* connect(), after each of its awaits.                                    *)

LoginGranted ==
    /\ attempt.stage = "login"
    /\ attempt' = Request("session")
    /\ UNCHANGED <<phase, socket, peer, closeFrames, gotInitialData, timers, commands, outlivedStop>>

SessionGrantedKeepsFlag ==   \* fault: gotInitialData is not reset
    /\ attempt.stage = "session"
    /\ attempt' = Request("upgrade")
    /\ UNCHANGED <<phase, socket, peer, closeFrames, gotInitialData, timers, commands, outlivedStop>>

SessionGranted ==
    /\ attempt.stage = "session"
    /\ attempt' = Request("upgrade")
    /\ gotInitialData' = FALSE
    /\ UNCHANGED <<phase, socket, peer, closeFrames, timers, commands, outlivedStop>>

\* The upgrade event: the socket is taken without a look at the flag stopped, and
\* the 8 s check is set.
Upgraded(s) ==
    /\ attempt.stage = "upgrade"
    /\ peer[s] = "gone"
    /\ peer' = [peer EXCEPT ![s] = "open"]
    /\ socket' = s
    /\ attempt' = Idle
    /\ noDataChecks' = noDataChecks \cup {NoDataDelay}
    /\ UNCHANGED <<phase, closeFrames, gotInitialData, reconnectTimer, staleTimer,
                   pendingConnects, commands, outlivedStop>>

\* One of the three requests fails, is refused or times out.
AttemptFails ==
    /\ attempt # Idle
    /\ attempt' = Idle
    /\ ScheduleReconnect(RetryDelay)
    /\ UNCHANGED <<phase, socket, peer, closeFrames, gotInitialData, staleTimer, pendingConnects,
                   noDataChecks, commands, outlivedStop>>

-----------------------------------------------------------------------------
(* The handlers of the sockets, of whichever socket they were set on.      *)

\* The START text frame: Login(100) and GetMyInfo(102) go out over HTTP.
StartFrame(s) ==
    /\ peer[s] = "open"
    /\ peer' = [peer EXCEPT ![s] = "greeted"]
    /\ commands' = {2 * RequestTimeout}
    /\ UNCHANGED <<phase, attempt, socket, closeFrames, gotInitialData, timers, outlivedStop>>

\* A QueuesInfo message, from a socket or in the answer of a command that may
\* belong to a connection that is gone: handleProtobufMessage().
QueuesInfo ==
    /\ commands # {} \/ \E s \in SocketId : peer[s] \in {"open", "greeted"}
    /\ gotInitialData' = TRUE
    /\ staleTimer' = {StaleDelay}
    /\ UNCHANGED <<phase, attempt, socket, peer, closeFrames, reconnectTimer, pendingConnects,
                   noDataChecks, commands, outlivedStop>>

\* A close frame (opcode 8): the socket is forgotten, not destroyed, and keeps its
\* close handler.
CloseFrame(s) ==
    /\ peer[s] \in {"open", "greeted"}
    /\ closeFrames < MaxCloseFrames
    /\ closeFrames' = closeFrames + 1
    /\ peer' = [peer EXCEPT ![s] = "closing"]
    /\ socket' = NoSocket
    /\ ReconnectUnlessPlanned(RetryDelay)
    /\ UNCHANGED <<phase, attempt, gotInitialData, staleTimer, pendingConnects, noDataChecks,
                   commands, outlivedStop>>

\* The close event of "s", after an error event or without one: the field is
\* cleared even when it holds another socket by now.
SocketClosed(s, delay) ==
    /\ peer[s] # "gone"
    /\ peer' = [peer EXCEPT ![s] = "gone"]
    /\ socket' = NoSocket
    /\ ReconnectUnlessPlanned(delay)
    /\ UNCHANGED <<phase, attempt, closeFrames, gotInitialData, staleTimer, pendingConnects,
                   noDataChecks, commands, outlivedStop>>

-----------------------------------------------------------------------------
(* The timers.                                                             *)

\* The reconnect timer (stop() clears it, so the monitor is not stopped).
ReconnectFires ==
    /\ 0 \in reconnectTimer
    /\ reconnectTimer' = {}
    /\ Disconnect
    /\ pendingConnects' = pendingConnects \cup {CleanupDelay}
    /\ UNCHANGED <<phase, attempt, closeFrames, gotInitialData, staleTimer, noDataChecks,
                   commands, outlivedStop>>

\* A 3 s timeout
PendingConnectFires ==
    /\ 0 \in pendingConnects
    /\ pendingConnects' = pendingConnects \ {0}
    /\ BeginConnect(socket)
    /\ UNCHANGED <<phase, socket, peer, closeFrames, gotInitialData, reconnectTimer, staleTimer,
                   noDataChecks, commands>>

\* An 8 s timeout: it looks at the connection of now, not at the one it was set for.
NoDataCheckFires ==
    /\ 0 \in noDataChecks
    /\ noDataChecks' = noDataChecks \ {0}
    /\ IF phase = "running" /\ ~gotInitialData /\ socket # NoSocket
       THEN ScheduleReconnect(QuickDelay)
       ELSE UNCHANGED reconnectTimer
    /\ UNCHANGED <<phase, attempt, socket, peer, closeFrames, gotInitialData, staleTimer,
                   pendingConnects, commands, outlivedStop>>

StaleFiresNoConnect ==   \* fault: disconnects only
    /\ 0 \in staleTimer
    /\ staleTimer' = {}
    /\ IF phase = "running" /\ socket # NoSocket THEN Disconnect ELSE UNCHANGED <<socket, peer>>
    /\ UNCHANGED <<phase, attempt, closeFrames, gotInitialData, reconnectTimer, pendingConnects,
                   noDataChecks, commands, outlivedStop>>

\* The stale timer: disconnects and connects at once; nothing when not connected.
StaleFires ==
    /\ 0 \in staleTimer
    /\ staleTimer' = {}
    /\ IF phase = "running" /\ socket # NoSocket
       THEN Disconnect /\ BeginConnect(NoSocket)
       ELSE UNCHANGED <<socket, peer, attempt, outlivedStop>>
    /\ UNCHANGED <<phase, closeFrames, gotInitialData, reconnectTimer, pendingConnects,
                   noDataChecks, commands>>

-----------------------------------------------------------------------------

Less(timer) == {t - 1 : t \in timer}

\* Time passes.  Timers that are due fire first, and a request ends in time.
Tick ==
    /\ 0 \notin reconnectTimer \cup staleTimer \cup pendingConnects \cup noDataChecks
    /\ attempt # Idle => attempt.left > 0
    /\ reconnectTimer' = Less(reconnectTimer)
    /\ staleTimer' = Less(staleTimer)
    /\ pendingConnects' = Less(pendingConnects)
    /\ noDataChecks' = Less(noDataChecks)
    /\ commands' = Less(commands \ {0})
    /\ attempt' = IF attempt = Idle THEN Idle
                  ELSE [stage |-> attempt.stage, left |-> attempt.left - 1]
    /\ UNCHANGED <<phase, socket, peer, closeFrames, gotInitialData, outlivedStop>>

Init ==
    /\ phase = "new"
    /\ attempt = Idle
    /\ socket = NoSocket
    /\ peer = [s \in SocketId |-> "gone"]
    /\ closeFrames = 0
    /\ gotInitialData = FALSE
    /\ reconnectTimer = {} /\ staleTimer = {}
    /\ pendingConnects = {} /\ noDataChecks = {}
    /\ commands = {}
    /\ outlivedStop = FALSE

AttemptStep == LoginGranted \/ SessionGranted \/ (\E s \in SocketId : Upgraded(s)) \/ AttemptFails
TimerFires  == ReconnectFires \/ PendingConnectFires \/ NoDataCheckFires \/ StaleFires

Next ==
    \/ Start \/ Stop \/ ForceReconnect
    \/ AttemptStep
    \/ \E s \in SocketId : \/ StartFrame(s) \/ CloseFrame(s)
                           \/ \E d \in {RetryDelay, ErrorDelay} : SocketClosed(s, d)
    \/ QueuesInfo
    \/ TimerFires
    \/ Tick

Spec == Init /\ [][Next]_vars

\* Every request has a timeout, every timer fires, time passes.
FairSpec == Spec /\ WF_vars(AttemptStep) /\ WF_vars(TimerFires) /\ WF_vars(Tick)

-----------------------------------------------------------------------------
(* What should hold.                                                       *)

\* A running monitor is connected, or connecting, or will connect: no order of
\* failures, closes and timers leaves it without a way back.
NeverAbandoned ==
    phase = "running" =>
        \/ socket # NoSocket
        \/ attempt # Idle
        \/ reconnectTimer # {}
        \/ pendingConnects # {}

\* Something is set that will end the current connection if it stays silent.
Watched ==
    \/ staleTimer # {}
    \/ ~gotInitialData /\ noDataChecks # {}
    \/ reconnectTimer # {}

\* A running monitor notices that its connection has gone silent, provided that
\* the attempt that opened it did not outlive a stop().
SilenceNoticed ==
    phase = "running" /\ socket # NoSocket /\ ~outlivedStop => Watched

\* Sockets the monitor has lost hold of (their data still reaches it, their close
\* clears the field) come from close frames, one from each at most: reconnecting
\* never multiplies them.
LostSocketsFromCloseFrames ==
    Cardinality(Live \ {socket}) <= closeFrames

\* However often failures and forced reconnects come, a monitor that is not
\* stopped is connected or tries to connect again and again.
KeepsTrying ==
    []<>(phase # "running" \/ socket # NoSocket \/ attempt # Idle)

=============================================================================
