-------------------------- MODULE WallboardPoller --------------------------
(***************************************************************************)
(* The polling engine of the wallboard (wallboard/src/lib/                 *)
(* threecx-poller.ts) with the streams of its clients (app/api/sse/        *)
(* wallboard/route.ts): it runs while clients watch and for a grace period *)
(* after the last has left, polls at an interval and on pushes of the      *)
(* relay, switches between the relay's data and its own, and owns the live *)
(* monitor of the phone system (module MonitorConnection).                 *)
(*                                                                         *)
(* One action is one callback of the event loop.  poll() is cut at its     *)
(* awaits: what it reads from the database, then the visible queues, then  *)
(* everything it fetches and stores (one stage here).  Timers are sets of  *)
(* the times left, as in MonitorConnection; only the grace period is       *)
(* measured, the polling interval may elapse at any moment.                *)
(***************************************************************************)
EXTENDS Integers, FiniteSets

CONSTANTS
    Client,           \* browsers
    Credentials,      \* pbxUrl, extension and password: the configHash
    Interval,         \* the values of pollIntervalMs
    DefaultInterval,  \* DEFAULT_POLL_INTERVAL_MS
    GracePeriod,      \* GRACE_PERIOD_MS
    MonitorId,        \* the queue monitors that may exist at a time
    None              \* null, or no configuration

ASSUME WallboardPollerAssumption ==
    /\ Interval \subseteq Nat \ {0}
    /\ DefaultInterval \in Interval
    /\ GracePeriod \in Nat \ {0}
    /\ None \notin Credentials \cup MonitorId

VARIABLES
    clients,          \* the clients of the hub
    served,           \* those that got the result of a poll (history)
    running, interval,   \* interval: of intervalHandle, 0 when null
    currentInterval,  \* currentIntervalMs
    grace,            \* graceTimeoutHandle
    debounce,         \* _relayPollDebounce is set
    poll,             \* where poll() is: "idle" when the flag polling is false
    credentials,      \* lastConfigHash and monitorConfigHash
    queueMonitor,     \* the field queueMonitor
    monitors,         \* the monitors that are started and not stopped
    lastRelayMode,
    stoppedOnce,      \* the engine has been stopped before (history)
    config,           \* the system configuration in the database
    relayFresh        \* isRelayFresh()

engine == <<running, interval, currentInterval, grace, debounce>>
hubVars == <<clients, served>>
monitorVars == <<credentials, queueMonitor, monitors, lastRelayMode>>
world == <<config, relayFresh>>
vars == <<hubVars, engine, poll, monitorVars, stoppedOnce, world>>

Config == [credentials : Credentials, interval : Interval]

TypeOK ==
    /\ clients \subseteq Client /\ served \subseteq clients
    /\ running \in BOOLEAN
    /\ interval \in Interval \cup {0}
    /\ currentInterval \in Interval
    /\ grace \in {{}} \cup {{t} : t \in 0..GracePeriod}
    /\ debounce \in BOOLEAN
    /\ poll \in {"idle", "config", "queues", "fetch"}
    /\ credentials \in Credentials \cup {None}
    /\ queueMonitor \in MonitorId \cup {None}
    /\ monitors \subseteq MonitorId
    /\ lastRelayMode \in BOOLEAN
    /\ stoppedOnce \in BOOLEAN
    /\ config \in Config \cup {None}
    /\ relayFresh \in BOOLEAN

-----------------------------------------------------------------------------
(* Clients come and go.                                                    *)

\* poll() up to its first await; returns when a poll runs.
BeginPoll == poll' = IF poll = "idle" THEN "config" ELSE poll

StartEngineOnce ==   \* fault: one poll, no interval
    IF running THEN UNCHANGED <<engine, poll>>
    ELSE /\ running' = TRUE
         /\ grace' = {}
         /\ BeginPoll
         /\ UNCHANGED <<interval, currentInterval, debounce>>

\* start(): returns when running, before it would cancel a grace period.
StartEngine ==
    IF running THEN UNCHANGED <<engine, poll>>
    ELSE /\ running' = TRUE
         /\ grace' = {}
         /\ BeginPoll
         /\ interval' = DefaultInterval
         /\ UNCHANGED <<currentInterval, debounce>>

\* A stream opens: the client is registered, the engine is started if need be.
Connect(c) ==
    /\ c \notin clients
    /\ clients' = clients \cup {c}
    /\ StartEngine
    /\ UNCHANGED <<served, monitorVars, stoppedOnce, world>>

DisconnectStopsFirst(c) ==   \* fault: stopGraceful() before the client is removed
    /\ c \in clients
    /\ clients' = clients \ {c}
    /\ served' = served \ {c}
    /\ UNCHANGED <<engine, poll, monitorVars, stoppedOnce, world>>

\* cleanup() of a stream and stopGraceful()
Disconnect(c) ==
    /\ c \in clients
    /\ clients' = clients \ {c}
    /\ served' = served \ {c}
    /\ grace' = IF running /\ clients' = {} /\ grace = {} THEN {GracePeriod} ELSE grace
    /\ UNCHANGED <<running, interval, currentInterval, debounce, poll, monitorVars,
                   stoppedOnce, world>>

\* stop(): a poll in flight goes on.
StopEngine ==
    /\ running' = FALSE
    /\ interval' = 0
    /\ debounce' = FALSE
    /\ monitors' = monitors \ {queueMonitor}
    /\ stoppedOnce' = TRUE

GraceExpiresAnyway ==   \* fault: no second look at the clients
    /\ 0 \in grace
    /\ grace' = {}
    /\ StopEngine
    /\ UNCHANGED <<hubVars, currentInterval, poll, credentials, queueMonitor, lastRelayMode, world>>

\* The grace period ends: stop() unless a client is there.
GraceExpires ==
    /\ 0 \in grace
    /\ grace' = {}
    /\ IF clients = {} THEN StopEngine
       ELSE UNCHANGED <<running, interval, debounce, monitors, stoppedOnce>>
    /\ UNCHANGED <<hubVars, currentInterval, poll, credentials, queueMonitor, lastRelayMode, world>>

-----------------------------------------------------------------------------
(* What makes it poll.                                                     *)

IntervalElapses ==
    /\ interval # 0 /\ poll = "idle"
    /\ BeginPoll
    /\ UNCHANGED <<hubVars, engine, monitorVars, stoppedOnce, world>>

\* setRelayData() and the handler that start() subscribed and stop() removes.
RelayPush ==
    /\ relayFresh' = TRUE
    /\ debounce' = (debounce \/ running)
    /\ UNCHANGED <<hubVars, running, interval, currentInterval, grace, poll, monitorVars,
                   stoppedOnce, config>>

DebounceElapses ==
    /\ debounce
    /\ debounce' = FALSE
    /\ IF running THEN BeginPoll ELSE UNCHANGED poll
    /\ UNCHANGED <<hubVars, running, interval, currentInterval, grace, monitorVars, stoppedOnce,
                   world>>

\* forcePoll() after a queue action (the monitor reconnects, see ForceReconnect of
\* MonitorConnection).
ForcePoll ==
    /\ running
    /\ BeginPoll
    /\ UNCHANGED <<hubVars, engine, monitorVars, stoppedOnce, world>>

-----------------------------------------------------------------------------
(* poll() after its awaits.                                                *)

\* emitState() and the finally block
EndPoll ==
    /\ poll' = "idle"
    /\ served' = clients

AdjustIntervalAlways ==   \* fault: also when no interval is set
    IF config.interval # currentInterval
    THEN currentInterval' = config.interval /\ interval' = config.interval
    ELSE UNCHANGED <<currentInterval, interval>>

\* Another interval is taken over only while one is set.
AdjustInterval ==
    IF config.interval # currentInterval /\ interval # 0
    THEN currentInterval' = config.interval /\ interval' = config.interval
    ELSE UNCHANGED <<currentInterval, interval>>

RenewMonitorOnly ==   \* fault: the old monitor is not stopped
    IF config.credentials # credentials
    THEN \E m \in MonitorId \ (monitors \cup {queueMonitor}) :
            /\ queueMonitor' = m
            /\ monitors' = monitors \cup {m}
            /\ credentials' = config.credentials
    ELSE UNCHANGED <<credentials, queueMonitor, monitors>>

\* A new client and a new monitor for new credentials; the old monitor is stopped.
\* Nothing else looks whether the monitor runs.
RenewMonitor ==
    IF config.credentials # credentials
    THEN \E m \in MonitorId \ {queueMonitor} :
            /\ m \notin monitors
            /\ queueMonitor' = m
            /\ monitors' = (monitors \ {queueMonitor}) \cup {m}
            /\ credentials' = config.credentials
    ELSE UNCHANGED <<credentials, queueMonitor, monitors>>

\* The configuration is there.
ConfigLoaded ==
    /\ poll = "config"
    /\ config # None
    /\ AdjustInterval
    /\ RenewMonitor
    /\ poll' = "queues"
    /\ UNCHANGED <<hubVars, running, grace, debounce, lastRelayMode, stoppedOnce, world>>

\* Setup is not complete: a "connecting" state.
NoConfig ==
    /\ poll = "config"
    /\ config = None
    /\ EndPoll
    /\ UNCHANGED <<clients, engine, monitorVars, stoppedOnce, world>>

\* decrypt() throws on the password of new credentials: the interval is adjusted already.
DecryptFails ==
    /\ poll = "config"
    /\ config # None /\ config.credentials # credentials
    /\ AdjustInterval
    /\ EndPoll
    /\ UNCHANGED <<clients, running, grace, debounce, monitorVars, stoppedOnce, world>>

SwitchModeKeepsMonitor ==   \* fault: the monitor is not started again
    /\ lastRelayMode' = relayFresh
    /\ monitors' = IF relayFresh /\ ~lastRelayMode THEN monitors \ {queueMonitor} ELSE monitors

\* Relay mode stops the monitor when it begins and starts it again when it ends.
SwitchMode ==
    /\ lastRelayMode' = relayFresh
    /\ monitors' = IF relayFresh = lastRelayMode THEN monitors
                   ELSE IF relayFresh THEN monitors \ {queueMonitor}
                   ELSE (monitors \cup {queueMonitor}) \ {None}

\* The visible queues are there, one at least.
QueuesLoaded ==
    /\ poll = "queues"
    /\ SwitchMode
    /\ poll' = "fetch"
    /\ UNCHANGED <<hubVars, engine, credentials, queueMonitor, stoppedOnce, world>>

\* No queue is visible: an empty state, the mode is not looked at.
NoVisibleQueues ==
    /\ poll = "queues"
    /\ EndPoll
    /\ UNCHANGED <<clients, engine, monitorVars, stoppedOnce, world>>

\* The relay's or the phone system's data are there and stored.
FetchEnds ==
    /\ poll = "fetch"
    /\ EndPoll
    /\ UNCHANGED <<clients, engine, monitorVars, stoppedOnce, world>>

\* Anything throws: an "error" state.
PollFails ==
    /\ poll # "idle"
    /\ EndPoll
    /\ UNCHANGED <<clients, engine, monitorVars, stoppedOnce, world>>

-----------------------------------------------------------------------------
(* The surroundings.                                                       *)

SetConfig(c) ==
    /\ config' = c
    /\ UNCHANGED <<hubVars, engine, poll, monitorVars, stoppedOnce, relayFresh>>

RelayGoesStale ==
    /\ relayFresh' = FALSE
    /\ UNCHANGED <<hubVars, engine, poll, monitorVars, stoppedOnce, config>>

Tick ==
    /\ 0 \notin grace
    /\ grace' = {t - 1 : t \in grace}
    /\ UNCHANGED <<clients, served, running, interval, currentInterval, debounce, poll,
                   monitorVars, stoppedOnce, world>>

Init ==
    /\ clients = {} /\ served = {}
    /\ running = FALSE /\ interval = 0 /\ currentInterval = DefaultInterval
    /\ grace = {} /\ debounce = FALSE
    /\ poll = "idle"
    /\ credentials = None /\ queueMonitor = None /\ monitors = {}
    /\ lastRelayMode = FALSE
    /\ stoppedOnce = FALSE
    /\ config \in Config \cup {None}
    /\ relayFresh = FALSE

PollStep == \/ ConfigLoaded \/ NoConfig \/ DecryptFails
            \/ QueuesLoaded \/ NoVisibleQueues
            \/ FetchEnds \/ PollFails

Next ==
    \/ \E c \in Client : Connect(c) \/ Disconnect(c)
    \/ GraceExpires
    \/ IntervalElapses \/ RelayPush \/ DebounceElapses \/ ForcePoll
    \/ PollStep
    \/ \E c \in Config : SetConfig(c)
    \/ RelayGoesStale
    \/ Tick

Spec == Init /\ [][Next]_vars

\* Timers fire, time passes, and what poll() awaits settles: the requests it sends
\* have timeouts, the database answers or throws.
FairSpec == /\ Spec
            /\ WF_vars(GraceExpires) /\ WF_vars(Tick)
            /\ WF_vars(IntervalElapses) /\ WF_vars(PollStep)

-----------------------------------------------------------------------------
(* What should hold.                                                       *)

\* While a client watches, the engine runs and its interval is set: no grace
\* period of an earlier audience stops it.
ServedWhileWatched ==
    clients # {} => running /\ interval # 0

\* An engine nobody watches has a grace period running that will stop it.
UnwatchedWillStop ==
    running /\ clients = {} => grace # {}

\* A stopped engine starts no poll: neither an interval nor a debounce is left,
\* nor does a poll still in flight set one.
StoppedIsQuiet ==
    ~running => interval = 0 /\ ~debounce /\ grace = {}

\* Two monitors never run side by side (their sessions on the shared extension
\* conflict): a monitor that is replaced has been stopped.
OneMonitor ==
    monitors \subseteq {queueMonitor}

\* An engine that fetches from the phone system itself has its monitor running.
PollingModeHasMonitor ==
    running /\ poll = "fetch" /\ ~lastRelayMode => queueMonitor \in monitors

\* The same until the engine is stopped for the first time.
FirstRunHasMonitor ==
    ~stoppedOnce => PollingModeHasMonitor

\* A client that stays gets the result of a poll.
ClientIsServed ==
    \A c \in Client : c \in clients ~> (c \in served \/ c \notin clients)

\* Without clients the engine comes to rest.
UnwatchedStops ==
    <>[](clients = {}) => <>[](~running /\ poll = "idle")

=============================================================================
