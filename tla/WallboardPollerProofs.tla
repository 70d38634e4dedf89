----------------------- MODULE WallboardPollerProofs -----------------------
(* Theorems about WallboardPoller for any clients, credentials, intervals    *)
(* and grace period.                                                         *)
EXTENDS WallboardPoller, TLAPS

(* An engine that runs has its interval, also through the grace period.      *)
RunningHasInterval == running => interval # 0

(* The four promises of the engine and what a client that returns within the *)
(* grace period relies on.                                                   *)
Promises == ServedWhileWatched /\ UnwatchedWillStop /\ StoppedIsQuiet /\ OneMonitor
IInv == TypeOK /\ RunningHasInterval /\ Promises

LEMMA Steps ==
    ASSUME Next
    PROVE  \/ \E c \in Client : Connect(c)
           \/ \E c \in Client : Disconnect(c)
           \/ GraceExpires
           \/ IntervalElapses \/ RelayPush \/ DebounceElapses \/ ForcePoll
           \/ ConfigLoaded \/ NoConfig \/ DecryptFails \/ QueuesLoaded \/ NoVisibleQueues \/ FetchEnds \/ PollFails
           \/ \E c \in Config : SetConfig(c)
           \/ RelayGoesStale \/ Tick
BY DEF Next, PollStep

LEMMA InitInv == Init => IInv
<1> SUFFICES ASSUME Init PROVE IInv
  OBVIOUS
<1>1. TypeOK
  <2>1. 0 \in 0..GracePeriod
    BY WallboardPollerAssumption
  <2> QED BY <2>1, WallboardPollerAssumption DEF Init, TypeOK
<1>2. RunningHasInterval /\ Promises
  BY DEF Init, RunningHasInterval, Promises, ServedWhileWatched, UnwatchedWillStop, StoppedIsQuiet, OneMonitor
<1> QED BY <1>1, <1>2 DEF IInv

(* Another interval is a legal one, and is set only in place of one.         *)
LEMMA IntervalAdjusted ==
    ASSUME TypeOK, config # None, AdjustInterval
    PROVE  /\ interval' \in Interval \cup {0} /\ currentInterval' \in Interval
           /\ interval' = 0 <=> interval = 0
<1>1. config.interval \in Interval /\ config.interval # 0
  BY WallboardPollerAssumption DEF TypeOK, Config
<1> QED BY <1>1 DEF TypeOK, AdjustInterval

LEMMA TypeStep == TypeOK /\ [Next]_vars => TypeOK'
<1> USE WallboardPollerAssumption
<1> SUFFICES ASSUME TypeOK, [Next]_vars PROVE TypeOK'
  OBVIOUS
<1> USE DEF TypeOK, engine, hubVars, monitorVars, world
<1>1. CASE UNCHANGED vars
  BY <1>1 DEF vars
<1>2. ASSUME NEW c \in Client, Connect(c) PROVE TypeOK'
  <2>1. /\ running' \in BOOLEAN /\ interval' \in Interval \cup {0} /\ currentInterval' \in Interval
        /\ grace' \in {{}} \cup {{t} : t \in 0..GracePeriod}
        /\ debounce' \in BOOLEAN /\ poll' \in {"idle", "config", "queues", "fetch"}
    BY <1>2 DEF Connect, StartEngine, BeginPoll
  <2> QED BY <1>2, <2>1 DEF Connect
<1>3. ASSUME NEW c \in Client, Disconnect(c) PROVE TypeOK'
  BY <1>3 DEF Disconnect
<1>4. CASE GraceExpires
  BY <1>4 DEF GraceExpires, StopEngine
<1>5. CASE IntervalElapses
  BY <1>5 DEF IntervalElapses, BeginPoll
<1>6. CASE RelayPush
  BY <1>6 DEF RelayPush
<1>7. CASE DebounceElapses
  BY <1>7 DEF DebounceElapses, BeginPoll
<1>8. CASE ForcePoll
  BY <1>8 DEF ForcePoll, BeginPoll
<1>9. CASE ConfigLoaded
  <2>1. interval' \in Interval \cup {0} /\ currentInterval' \in Interval
    BY <1>9, IntervalAdjusted DEF ConfigLoaded
  <2>2. config.credentials \in Credentials
    BY <1>9 DEF ConfigLoaded, Config
  <2>3. /\ credentials' \in Credentials \cup {None}
        /\ queueMonitor' \in MonitorId \cup {None}
        /\ monitors' \subseteq MonitorId
    BY <1>9, <2>2 DEF ConfigLoaded, RenewMonitor
  <2> QED BY <1>9, <2>1, <2>3 DEF ConfigLoaded
<1>10. CASE NoConfig
  BY <1>10 DEF NoConfig, EndPoll
<1>11. CASE QueuesLoaded
  <2>1. lastRelayMode' \in BOOLEAN
    BY <1>11 DEF QueuesLoaded, SwitchMode
  <2>2. monitors' \subseteq MonitorId
    BY <1>11 DEF QueuesLoaded, SwitchMode
  <2> QED BY <1>11, <2>1, <2>2 DEF QueuesLoaded
<1>12. CASE NoVisibleQueues
  BY <1>12 DEF NoVisibleQueues, EndPoll
<1>13. CASE FetchEnds
  BY <1>13 DEF FetchEnds, EndPoll
<1>14. CASE PollFails
  BY <1>14 DEF PollFails, EndPoll
<1>15. ASSUME NEW c \in Config, SetConfig(c) PROVE TypeOK'
  BY <1>15 DEF SetConfig
<1>16. CASE RelayGoesStale
  BY <1>16 DEF RelayGoesStale
<1>17. CASE Tick
  BY <1>17 DEF Tick
<1>18. CASE DecryptFails
  <2>1. interval' \in Interval \cup {0} /\ currentInterval' \in Interval
    BY <1>18, IntervalAdjusted DEF DecryptFails
  <2> QED BY <1>18, <2>1 DEF DecryptFails, EndPoll
<1> QED BY Steps, <1>1, <1>2, <1>3, <1>4, <1>5, <1>6, <1>7, <1>8, <1>9, <1>10, <1>11,
           <1>12, <1>13, <1>14, <1>15, <1>16, <1>17, <1>18

LEMMA InvStep == IInv /\ [Next]_vars => IInv'
<1> USE WallboardPollerAssumption
<1> SUFFICES ASSUME IInv, [Next]_vars
             PROVE  (RunningHasInterval /\ Promises)'
  BY TypeStep DEF IInv
<1>0. TypeOK /\ RunningHasInterval /\ Promises
  BY DEF IInv
<1> USE DEF RunningHasInterval, Promises, ServedWhileWatched, UnwatchedWillStop, StoppedIsQuiet, OneMonitor,
            engine, hubVars, monitorVars, world
<1>1. CASE UNCHANGED vars
  BY <1>0, <1>1 DEF vars
<1>2. ASSUME NEW c \in Client, Connect(c)
      PROVE  (RunningHasInterval /\ Promises)'
  <2>1. CASE running
    BY <1>0, <1>2, <2>1 DEF Connect, StartEngine
  <2>2. CASE ~running
    BY <1>0, <1>2, <2>2 DEF Connect, StartEngine, TypeOK
  <2> QED BY <2>1, <2>2
<1>3. ASSUME NEW c \in Client, Disconnect(c)
      PROVE  (RunningHasInterval /\ Promises)'
  BY <1>0, <1>3 DEF Disconnect
<1>4. CASE GraceExpires
  BY <1>0, <1>4 DEF GraceExpires, StopEngine
<1>5. CASE IntervalElapses
  BY <1>0, <1>5 DEF IntervalElapses
<1>6. CASE RelayPush
  BY <1>0, <1>6 DEF RelayPush
<1>7. CASE DebounceElapses
  BY <1>0, <1>7 DEF DebounceElapses
<1>8. CASE ForcePoll
  BY <1>0, <1>8 DEF ForcePoll
<1>9. CASE ConfigLoaded
  <2>1. interval' = 0 <=> interval = 0
    BY <1>0, <1>9, IntervalAdjusted DEF ConfigLoaded
  <2>2. monitors' \subseteq {queueMonitor'}
    BY <1>0, <1>9 DEF ConfigLoaded, RenewMonitor
  <2> QED BY <1>0, <1>9, <2>1, <2>2 DEF ConfigLoaded
<1>10. CASE NoConfig
  BY <1>0, <1>10 DEF NoConfig
<1>11. CASE QueuesLoaded
  BY <1>0, <1>11 DEF QueuesLoaded, SwitchMode
<1>12. CASE NoVisibleQueues
  BY <1>0, <1>12 DEF NoVisibleQueues
<1>13. CASE FetchEnds
  BY <1>0, <1>13 DEF FetchEnds
<1>14. CASE PollFails
  BY <1>0, <1>14 DEF PollFails
<1>15. ASSUME NEW c \in Config, SetConfig(c)
       PROVE  (RunningHasInterval /\ Promises)'
  BY <1>0, <1>15 DEF SetConfig
<1>16. CASE RelayGoesStale
  BY <1>0, <1>16 DEF RelayGoesStale
<1>17. CASE Tick
  <2>1. grace # {} <=> grace' # {}
    BY <1>17 DEF Tick
  <2> QED BY <1>0, <1>17, <2>1 DEF Tick
<1>18. CASE DecryptFails
  <2>1. interval' = 0 <=> interval = 0
    BY <1>0, <1>18, IntervalAdjusted DEF DecryptFails
  <2> QED BY <1>0, <1>18, <2>1 DEF DecryptFails
<1> QED BY Steps, <1>1, <1>2, <1>3, <1>4, <1>5, <1>6, <1>7, <1>8, <1>9, <1>10, <1>11,
           <1>12, <1>13, <1>14, <1>15, <1>16, <1>17, <1>18

LEMMA Invariance == Spec => []IInv
<1> QED BY InitInv, InvStep, PTL DEF Spec

(* The types of WallboardPoller, for any clients, configurations and delays.  *)
THEOREM TypeCorrect == Spec => []TypeOK
<1>1. IInv => TypeOK
  BY DEF IInv
<1> QED BY <1>1, Invariance, PTL

(* A client never watches a stopped engine: the grace period an earlier      *)
(* audience left behind ends without effect while a client is there.         *)
THEOREM WatchedIsServed == Spec => []ServedWhileWatched
<1>1. IInv => ServedWhileWatched
  BY DEF IInv, Promises
<1> QED BY <1>1, Invariance, PTL

(* An engine without clients always has its end before it.                   *)
THEOREM UnwatchedHasAnEnd == Spec => []UnwatchedWillStop
<1>1. IInv => UnwatchedWillStop
  BY DEF IInv, Promises
<1> QED BY <1>1, Invariance, PTL

(* Nothing wakes a stopped engine, not even a poll it left in flight that    *)
(* reads another interval from the database.                                 *)
THEOREM StopIsQuiet == Spec => []StoppedIsQuiet
<1>1. IInv => StoppedIsQuiet
  BY DEF IInv, Promises
<1> QED BY <1>1, Invariance, PTL

(* Whatever the order of new credentials, mode switches and stops, at most   *)
(* one monitor runs, and it is the one the engine can stop.                  *)
THEOREM OnlyOneMonitor == Spec => []OneMonitor
<1>1. IInv => OneMonitor
  BY DEF IInv, Promises
<1> QED BY <1>1, Invariance, PTL

(* Credentials and monitor are renewed together, a poll past the credentials *)
(* has a monitor, and until the engine is stopped for the first time only    *)
(* relay mode keeps that monitor stopped.                                    *)
MonitorForCredentials == credentials = None <=> queueMonitor = None
PollHasMonitor == poll \in {"queues", "fetch"} => queueMonitor # None
OnlyRelayStopsMonitor ==
    ~stoppedOnce /\ ~lastRelayMode /\ queueMonitor # None => queueMonitor \in monitors
FirstRun == MonitorForCredentials /\ PollHasMonitor /\ OnlyRelayStopsMonitor

LEMMA FirstRunStep == TypeOK /\ FirstRun /\ [Next]_vars => FirstRun'
<1> SUFFICES ASSUME TypeOK, FirstRun, [Next]_vars PROVE FirstRun'
  OBVIOUS
<1> USE DEF FirstRun, MonitorForCredentials, PollHasMonitor, OnlyRelayStopsMonitor, monitorVars
<1>1. CASE UNCHANGED vars
  BY <1>1 DEF vars
<1>2. ASSUME NEW c \in Client, Connect(c) PROVE FirstRun'
  BY <1>2 DEF Connect, StartEngine, BeginPoll
<1>3. ASSUME NEW c \in Client, Disconnect(c) PROVE FirstRun'
  BY <1>3 DEF Disconnect
<1>4. CASE GraceExpires
  <2>1. CASE clients = {}
    BY <1>4, <2>1 DEF GraceExpires, StopEngine
  <2>2. CASE clients # {}
    BY <1>4, <2>2 DEF GraceExpires
  <2> QED BY <2>1, <2>2
<1>5. CASE IntervalElapses \/ ForcePoll
  BY <1>5 DEF IntervalElapses, ForcePoll, BeginPoll
<1>6. CASE RelayPush
  BY <1>6 DEF RelayPush
<1>7. CASE DebounceElapses
  BY <1>7 DEF DebounceElapses, BeginPoll
<1>8. CASE ConfigLoaded
  <2>1. config.credentials # None
    BY <1>8, WallboardPollerAssumption DEF ConfigLoaded, TypeOK, Config
  <2>2. CASE config.credentials # credentials
    BY <1>8, <2>1, <2>2, WallboardPollerAssumption DEF ConfigLoaded, RenewMonitor
  <2>3. CASE config.credentials = credentials
    BY <1>8, <2>1, <2>3 DEF ConfigLoaded, RenewMonitor
  <2> QED BY <2>2, <2>3
<1>9. CASE NoConfig \/ DecryptFails \/ NoVisibleQueues \/ FetchEnds \/ PollFails
  BY <1>9 DEF NoConfig, DecryptFails, NoVisibleQueues, FetchEnds, PollFails, EndPoll
<1>10. CASE QueuesLoaded
  <2>1. queueMonitor # None
    BY <1>10 DEF QueuesLoaded
  <2> QED BY <1>10, <2>1 DEF QueuesLoaded, SwitchMode
<1>11. ASSUME NEW c \in Config, SetConfig(c) PROVE FirstRun'
  BY <1>11 DEF SetConfig
<1>12. CASE RelayGoesStale \/ Tick
  BY <1>12 DEF RelayGoesStale, Tick
<1> QED BY Steps, <1>1, <1>2, <1>3, <1>4, <1>5, <1>6, <1>7, <1>8, <1>9, <1>10, <1>11, <1>12

(* Until the engine has been stopped once, a poll that fetches from the      *)
(* phone system itself has its monitor running, also after a switch to the   *)
(* relay and back and after new credentials.                                 *)
THEOREM FirstRunIsMonitored == Spec => []FirstRunHasMonitor
<1>1. Init => FirstRun
  BY DEF Init, FirstRun, MonitorForCredentials, PollHasMonitor, OnlyRelayStopsMonitor
<1>2. IInv /\ FirstRun /\ [Next]_vars => FirstRun'
  BY FirstRunStep DEF IInv
<1>3. FirstRun => FirstRunHasMonitor
  BY DEF FirstRun, PollHasMonitor, OnlyRelayStopsMonitor, FirstRunHasMonitor, PollingModeHasMonitor
<1> QED BY <1>1, <1>2, <1>3, Invariance, PTL DEF Spec

=============================================================================
