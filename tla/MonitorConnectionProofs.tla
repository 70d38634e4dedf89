---------------------- MODULE MonitorConnectionProofs ----------------------
(* Theorems about MonitorConnection for every number of sockets and close    *)
(* frames and all delays.                                                    *)
EXTENDS MonitorConnection, FiniteSetTheorems, TLAPS

(* The steps of Next one by one, for the case splits below. *)
LEMMA Steps ==
    ASSUME Next
    PROVE  \/ Start \/ Stop \/ ForceReconnect
           \/ LoginGranted \/ SessionGranted \/ AttemptFails
           \/ \E s \in SocketId : Upgraded(s)
           \/ \E s \in SocketId : StartFrame(s)
           \/ \E s \in SocketId : CloseFrame(s)
           \/ \E s \in SocketId, d \in {RetryDelay, ErrorDelay} : SocketClosed(s, d)
           \/ QueuesInfo
           \/ ReconnectFires \/ PendingConnectFires \/ NoDataCheckFires \/ StaleFires
           \/ Tick
BY DEF Next, AttemptStep, TimerFires

(* A timer that is not due has a legal value after a unit of time.           *)
LEMMA LessIsTimer ==
    ASSUME NEW d \in Nat, NEW T \in Timer(d), 0 \notin T
    PROVE  Less(T) \in Timer(d)
<1>1. CASE T = {}
  BY <1>1 DEF Timer, Less
<1>2. CASE \E t \in 0..d : T = {t}
  <2>1. PICK t \in 0..d : T = {t}
    BY <1>2
  <2>2. t - 1 \in 0..d
    BY <2>1
  <2>3. Less(T) = {t - 1}
    BY <2>1 DEF Less
  <2> QED BY <2>2, <2>3 DEF Timer
<1> QED BY <1>1, <1>2 DEF Timer

LEMMA LessIsSubset ==
    ASSUME NEW d \in Nat, NEW T \in SUBSET (0..d), 0 \notin T
    PROVE  Less(T) \in SUBSET (0..d)
BY DEF Less

(* A fresh delay is a legal value of the timer it is given to.               *)
LEMMA DelaysAreTimers ==
    /\ MaxDelay \in Nat
    /\ {RetryDelay} \in Timer(MaxDelay)
    /\ {ErrorDelay} \in Timer(MaxDelay)
    /\ {QuickDelay} \in Timer(MaxDelay)
    /\ {StaleDelay} \in Timer(StaleDelay)
    /\ {2 * RequestTimeout} \in Timer(2 * RequestTimeout)
    /\ \A d \in Nat : {} \in Timer(d)
<1>1. \A d \in Nat : \A t \in 0..d : {t} \in Timer(d)
  BY DEF Timer
<1>2. MaxDelay \in Nat /\ RetryDelay \in 0..MaxDelay /\ ErrorDelay \in 0..MaxDelay
      /\ QuickDelay \in 0..MaxDelay
  BY MonitorConnectionAssumption DEF MaxDelay
<1>3. StaleDelay \in 0..StaleDelay /\ 2 * RequestTimeout \in 0..(2 * RequestTimeout)
      /\ StaleDelay \in Nat /\ 2 * RequestTimeout \in Nat
  BY MonitorConnectionAssumption
<1>4. \A d \in Nat : {} \in Timer(d)
  BY DEF Timer
<1> QED BY <1>1, <1>2, <1>3, <1>4

(* What connect() leaves in "attempt" is an attempt.                         *)
LEMMA Attempts ==
    /\ Idle \in Attempt
    /\ \A stage \in Stages : Request(stage) \in Attempt
    /\ "login" \in Stages /\ "session" \in Stages /\ "upgrade" \in Stages
BY MonitorConnectionAssumption DEF Idle, Attempt, Request, Stages

-----------------------------------------------------------------------------

LEMMA TypeInit == Init => TypeOK
<1> USE MonitorConnectionAssumption
<1> SUFFICES ASSUME Init PROVE TypeOK
  OBVIOUS
<1>1. reconnectTimer \in Timer(MaxDelay) /\ staleTimer \in Timer(StaleDelay)
      /\ commands \in Timer(2 * RequestTimeout)
  BY DelaysAreTimers DEF Init
<1>2. pendingConnects \in SUBSET (0..CleanupDelay) /\ noDataChecks \in SUBSET (0..NoDataDelay)
      /\ closeFrames \in 0..MaxCloseFrames
  BY DEF Init
<1>3. peer \in [SocketId -> {"gone", "open", "greeted", "closing"}]
  BY DEF Init
<1> QED BY <1>1, <1>2, <1>3, Attempts DEF Init, TypeOK

LEMMA TypeStep == TypeOK /\ [Next]_vars => TypeOK'
<1> USE MonitorConnectionAssumption
<1> SUFFICES ASSUME TypeOK, [Next]_vars PROVE TypeOK'
  OBVIOUS
<1> USE DEF TypeOK
<1>1. CASE UNCHANGED vars
  BY <1>1 DEF vars, timers
<1>2. CASE Start
  BY <1>2, Attempts DEF Start, timers
<1>3. CASE Stop
  BY <1>3, DelaysAreTimers DEF Stop, Disconnect
<1>4. CASE ForceReconnect
  BY <1>4, DelaysAreTimers DEF ForceReconnect, Disconnect
<1>5. CASE LoginGranted
  BY <1>5, Attempts DEF LoginGranted, timers
<1>6. CASE SessionGranted
  BY <1>6, Attempts DEF SessionGranted, timers
<1>7. CASE AttemptFails
  BY <1>7, DelaysAreTimers, Attempts DEF AttemptFails, ScheduleReconnect
<1>8. ASSUME NEW s \in SocketId, Upgraded(s) PROVE TypeOK'
  BY <1>8, Attempts DEF Upgraded
<1>9. ASSUME NEW s \in SocketId, StartFrame(s) PROVE TypeOK'
  BY <1>9, DelaysAreTimers DEF StartFrame, timers
<1>10. ASSUME NEW s \in SocketId, CloseFrame(s) PROVE TypeOK'
  <2>1. reconnectTimer' \in Timer(MaxDelay)
    BY <1>10, DelaysAreTimers DEF CloseFrame, ReconnectUnlessPlanned, ScheduleReconnect
  <2>2. closeFrames' \in 0..MaxCloseFrames
    BY <1>10 DEF CloseFrame
  <2> QED BY <1>10, <2>1, <2>2 DEF CloseFrame
<1>11. ASSUME NEW s \in SocketId, NEW d \in {RetryDelay, ErrorDelay}, SocketClosed(s, d)
       PROVE  TypeOK'
  <2>1. reconnectTimer' \in Timer(MaxDelay)
    BY <1>11, DelaysAreTimers DEF SocketClosed, ReconnectUnlessPlanned, ScheduleReconnect
  <2> QED BY <1>11, <2>1 DEF SocketClosed
<1>12. CASE QueuesInfo
  BY <1>12, DelaysAreTimers DEF QueuesInfo
<1>13. CASE ReconnectFires
  BY <1>13, DelaysAreTimers DEF ReconnectFires, Disconnect
<1>14. CASE PendingConnectFires
  BY <1>14, Attempts DEF PendingConnectFires, BeginConnect
<1>15. CASE NoDataCheckFires
  <2>1. reconnectTimer' \in Timer(MaxDelay)
    BY <1>15, DelaysAreTimers DEF NoDataCheckFires, ScheduleReconnect
  <2> QED BY <1>15, <2>1 DEF NoDataCheckFires
<1>16. CASE StaleFires
  <2>1. staleTimer' \in Timer(StaleDelay)
    BY <1>16, DelaysAreTimers DEF StaleFires
  <2>2. attempt' \in Attempt /\ outlivedStop' \in BOOLEAN
    BY <1>16, Attempts DEF StaleFires, BeginConnect
  <2>3. socket' \in SocketId \cup {NoSocket}
        /\ peer' \in [SocketId -> {"gone", "open", "greeted", "closing"}]
    BY <1>16 DEF StaleFires, Disconnect
  <2> QED BY <1>16, <2>1, <2>2, <2>3 DEF StaleFires
<1>17. CASE Tick
  <2>1. reconnectTimer' \in Timer(MaxDelay) /\ staleTimer' \in Timer(StaleDelay)
    BY <1>17, LessIsTimer, DelaysAreTimers DEF Tick
  <2>2. pendingConnects' \in SUBSET (0..CleanupDelay) /\ noDataChecks' \in SUBSET (0..NoDataDelay)
    BY <1>17, LessIsSubset DEF Tick
  <2>3. commands' \in Timer(2 * RequestTimeout)
    <3>1. commands \ {0} \in Timer(2 * RequestTimeout)
      BY DEF Timer
    <3> QED BY <1>17, <3>1, LessIsTimer DEF Tick
  <2>4. attempt' \in Attempt
    <3>1. CASE attempt = Idle
      BY <1>17, <3>1, Attempts DEF Tick
    <3>2. CASE attempt # Idle
      <4>1. attempt.stage \in Stages /\ attempt.left \in 1..RequestTimeout
        BY <1>17, <3>2 DEF Tick, Attempt, Idle
      <4>2. attempt' = [stage |-> attempt.stage, left |-> attempt.left - 1]
        BY <1>17, <3>2 DEF Tick
      <4> QED BY <4>1, <4>2 DEF Attempt
    <3> QED BY <3>1, <3>2
  <2> QED BY <1>17, <2>1, <2>2, <2>3, <2>4 DEF Tick
<1> QED BY Steps, <1>1, <1>2, <1>3, <1>4, <1>5, <1>6, <1>7, <1>8, <1>9, <1>10, <1>11,
           <1>12, <1>13, <1>14, <1>15, <1>16, <1>17

(* Every variable of the connection keeps its type: in particular each of    *)
(* the two timers with a handle is one timer, never two.                     *)
THEOREM TypeCorrect == Spec => []TypeOK
<1>1. Init => TypeOK
  BY TypeInit
<1>2. TypeOK /\ [Next]_vars => TypeOK'
  BY TypeStep
<1> QED BY <1>1, <1>2, PTL DEF Spec

-----------------------------------------------------------------------------
(* A running monitor always has a way back to a connection: each step that   *)
(* takes one away leaves another.                                            *)
THEOREM NeverLeftAbandoned == Spec => []NeverAbandoned
<1>1. Init => NeverAbandoned
  BY DEF Init, NeverAbandoned
<1>2. TypeOK /\ NeverAbandoned /\ [Next]_vars => NeverAbandoned'
  <2> SUFFICES ASSUME TypeOK, NeverAbandoned, [Next]_vars PROVE NeverAbandoned'
    OBVIOUS
  <2> USE DEF NeverAbandoned
  <2>0. \A stage \in {"login", "session", "upgrade"} : Request(stage) # Idle
    BY DEF Request, Idle
  <2>1. CASE UNCHANGED vars
    BY <2>1 DEF vars, timers
  <2>2. CASE Start
    BY <2>2, <2>0 DEF Start
  <2>3. CASE Stop
    BY <2>3 DEF Stop
  <2>4. CASE ForceReconnect
    BY <2>4 DEF ForceReconnect
  <2>5. CASE LoginGranted
    BY <2>5, <2>0 DEF LoginGranted
  <2>6. CASE SessionGranted
    BY <2>6, <2>0 DEF SessionGranted
  <2>7. CASE AttemptFails
    BY <2>7 DEF AttemptFails, ScheduleReconnect
  <2>8. ASSUME NEW s \in SocketId, Upgraded(s) PROVE NeverAbandoned'
    BY <2>8, MonitorConnectionAssumption DEF Upgraded
  <2>9. ASSUME NEW s \in SocketId, StartFrame(s) PROVE NeverAbandoned'
    BY <2>9 DEF StartFrame, timers
  <2>10. ASSUME NEW s \in SocketId, CloseFrame(s) PROVE NeverAbandoned'
    BY <2>10 DEF CloseFrame, ReconnectUnlessPlanned, ScheduleReconnect
  <2>11. ASSUME NEW s \in SocketId, NEW d \in {RetryDelay, ErrorDelay}, SocketClosed(s, d)
         PROVE  NeverAbandoned'
    BY <2>11 DEF SocketClosed, ReconnectUnlessPlanned, ScheduleReconnect
  <2>12. CASE QueuesInfo
    BY <2>12 DEF QueuesInfo
  <2>13. CASE ReconnectFires
    BY <2>13 DEF ReconnectFires
  <2>14. CASE PendingConnectFires
    BY <2>14, <2>0 DEF PendingConnectFires, BeginConnect
  <2>15. CASE NoDataCheckFires
    BY <2>15 DEF NoDataCheckFires, ScheduleReconnect
  <2>16. CASE StaleFires
    BY <2>16, <2>0 DEF StaleFires, BeginConnect
  <2>17. CASE Tick
    <3>1. attempt # Idle => attempt' # Idle
      <4> SUFFICES ASSUME attempt # Idle PROVE attempt' # Idle
        OBVIOUS
      <4>2. attempt.stage # "idle"
        BY DEF TypeOK, Attempt, Stages
      <4>3. attempt'.stage = attempt.stage
        BY <2>17 DEF Tick
      <4> QED BY <4>2, <4>3 DEF Idle
    <3>2. \A T : T # {} => Less(T) # {}
      BY DEF Less
    <3> QED BY <2>17, <3>1, <3>2 DEF Tick
  <2> QED BY Steps, <2>1, <2>2, <2>3, <2>4, <2>5, <2>6, <2>7, <2>8, <2>9, <2>10, <2>11,
             <2>12, <2>13, <2>14, <2>15, <2>16, <2>17
<1> QED BY <1>1, <1>2, TypeCorrect, PTL DEF Spec

-----------------------------------------------------------------------------
(* How the parts of the connection fit together.                             *)

(* A stopped monitor has seen a stop; connect() runs only without a socket;  *)
(* nothing happens before start().                                           *)
Consistent ==
    /\ phase = "stopped" => outlivedStop
    /\ attempt # Idle => socket = NoSocket
    /\ phase = "new" => /\ attempt = Idle /\ Live = {}
                        /\ reconnectTimer = {} /\ pendingConnects = {}
    /\ socket # NoSocket => socket \in Live

(* Data of an older connection that comes during the upgrade sets a stale    *)
(* timer that outlasts the upgrade.                                          *)
StaleOutlastsUpgrade ==
    attempt.stage = "upgrade" /\ gotInitialData /\ ~outlivedStop =>
        staleTimer # {} /\ \A t \in staleTimer : t > attempt.left

LEMMA NotIdle == \A stage \in Stages : Request(stage) # Idle /\ Request(stage).stage = stage
BY DEF Request, Idle, Stages

LEMMA ConsistentInit == Init => Consistent
BY DEF Init, Consistent, Live

LEMMA ConsistentStep == TypeOK /\ Consistent /\ [Next]_vars => Consistent'
<1> USE MonitorConnectionAssumption
<1> SUFFICES ASSUME TypeOK, Consistent, [Next]_vars PROVE Consistent'
  OBVIOUS
<1> USE DEF Consistent
<1>0. socket = NoSocket \/ socket \in SocketId
  BY DEF TypeOK
<1>1. CASE UNCHANGED vars
  BY <1>1 DEF vars, timers, Live
<1>2. CASE Start
  BY <1>2 DEF Start, Live, timers
<1>3. CASE Stop
  BY <1>3 DEF Stop, Disconnect, Live
<1>4. CASE ForceReconnect
  BY <1>4 DEF ForceReconnect, Disconnect, Live
<1>5. CASE LoginGranted
  BY <1>5 DEF LoginGranted, Live, timers, Idle
<1>6. CASE SessionGranted
  BY <1>6 DEF SessionGranted, Live, timers, Idle
<1>7. CASE AttemptFails
  BY <1>7 DEF AttemptFails, ScheduleReconnect, Live
<1>8. ASSUME NEW s \in SocketId, Upgraded(s) PROVE Consistent'
  <2>1. attempt # Idle
    BY <1>8 DEF Upgraded, Idle
  <2>2. s \in Live'
    BY <1>8 DEF Upgraded, Live, TypeOK
  <2> QED BY <1>8, <2>1, <2>2 DEF Upgraded
<1>9. ASSUME NEW s \in SocketId, StartFrame(s) PROVE Consistent'
  <2>1. Live' = Live
    BY <1>9 DEF StartFrame, Live, TypeOK
  <2> QED BY <1>9, <2>1 DEF StartFrame, timers
<1>10. ASSUME NEW s \in SocketId, CloseFrame(s) PROVE Consistent'
  <2>1. Live' = Live /\ Live # {}
    BY <1>10 DEF CloseFrame, Live, TypeOK
  <2> QED BY <1>10, <2>1 DEF CloseFrame
<1>11. ASSUME NEW s \in SocketId, NEW d \in {RetryDelay, ErrorDelay}, SocketClosed(s, d)
       PROVE  Consistent'
  <2>1. Live # {}
    BY <1>11 DEF SocketClosed, Live
  <2> QED BY <1>11, <2>1 DEF SocketClosed
<1>12. CASE QueuesInfo
  BY <1>12 DEF QueuesInfo, Live
<1>13. CASE ReconnectFires
  BY <1>13 DEF ReconnectFires, Disconnect, Live
<1>14. CASE PendingConnectFires
  BY <1>14 DEF PendingConnectFires, BeginConnect, Live
<1>15. CASE NoDataCheckFires
  BY <1>15 DEF NoDataCheckFires, ScheduleReconnect, Live
<1>16. CASE StaleFires
  <2>1. CASE phase = "running" /\ socket # NoSocket
    BY <1>16, <2>1 DEF StaleFires, Disconnect, BeginConnect
  <2>2. CASE ~(phase = "running" /\ socket # NoSocket)
    BY <1>16, <2>2 DEF StaleFires, Live
  <2> QED BY <2>1, <2>2
<1>17. CASE Tick
  <2>1. attempt = Idle <=> attempt' = Idle
    BY <1>17 DEF Tick, TypeOK, Attempt, Stages, Idle
  <2>2. Less({}) = {}
    BY DEF Less
  <2> QED BY <1>17, <2>1, <2>2 DEF Tick, Live
<1> QED BY Steps, <1>1, <1>2, <1>3, <1>4, <1>5, <1>6, <1>7, <1>8, <1>9, <1>10, <1>11,
           <1>12, <1>13, <1>14, <1>15, <1>16, <1>17

(* The fields of the monitor always fit together: while an attempt is in     *)
(* flight there is no socket, and the socket the field holds exists.         *)
THEOREM IsConsistent == Spec => []Consistent
<1> QED BY ConsistentInit, ConsistentStep, TypeInit, TypeStep, PTL DEF Spec

-----------------------------------------------------------------------------
(* Silence is noticed.                                                       *)

SilenceInv == TypeOK /\ Consistent /\ StaleOutlastsUpgrade /\ SilenceNoticed

LEMMA StaleOutlastsStep ==
    TypeOK /\ Consistent /\ StaleOutlastsUpgrade /\ [Next]_vars => StaleOutlastsUpgrade'
<1> USE MonitorConnectionAssumption
<1> SUFFICES ASSUME TypeOK, Consistent, StaleOutlastsUpgrade, [Next]_vars
             PROVE  StaleOutlastsUpgrade'
  OBVIOUS
<1> USE DEF StaleOutlastsUpgrade
<1>1. CASE UNCHANGED vars
  BY <1>1 DEF vars, timers
<1>2. CASE Start
  BY <1>2, NotIdle DEF Start, timers, Request
<1>3. CASE Stop
  BY <1>3 DEF Stop
<1>4. CASE ForceReconnect
  BY <1>4 DEF ForceReconnect
<1>5. CASE LoginGranted
  BY <1>5 DEF LoginGranted, Request
<1>6. CASE SessionGranted
  BY <1>6 DEF SessionGranted
<1>7. CASE AttemptFails
  BY <1>7 DEF AttemptFails, Idle
<1>8. ASSUME NEW s \in SocketId, Upgraded(s) PROVE StaleOutlastsUpgrade'
  BY <1>8 DEF Upgraded, Idle
<1>9. ASSUME NEW s \in SocketId, StartFrame(s) PROVE StaleOutlastsUpgrade'
  BY <1>9 DEF StartFrame, timers
<1>10. ASSUME NEW s \in SocketId, CloseFrame(s) PROVE StaleOutlastsUpgrade'
  BY <1>10 DEF CloseFrame
<1>11. ASSUME NEW s \in SocketId, NEW d \in {RetryDelay, ErrorDelay}, SocketClosed(s, d)
       PROVE  StaleOutlastsUpgrade'
  BY <1>11 DEF SocketClosed
<1>12. CASE QueuesInfo
  <2>1. attempt.stage = "upgrade" => attempt.left \in 0..RequestTimeout
    BY DEF TypeOK, Attempt, Idle
  <2> QED BY <1>12, <2>1 DEF QueuesInfo
<1>13. CASE ReconnectFires
  BY <1>13 DEF ReconnectFires
<1>14. CASE PendingConnectFires
  BY <1>14 DEF PendingConnectFires, BeginConnect, Request
<1>15. CASE NoDataCheckFires
  BY <1>15 DEF NoDataCheckFires
<1>16. CASE StaleFires
  <2>1. CASE attempt.stage = "upgrade"
    <3>1. attempt.left \in 0..RequestTimeout
      BY <2>1 DEF TypeOK, Attempt, Idle
    <3>2. socket = NoSocket
      BY <2>1 DEF Consistent, Idle
    <3>3. UNCHANGED <<attempt, gotInitialData, outlivedStop>>
      BY <1>16, <3>2 DEF StaleFires
    <3>4. ~(gotInitialData /\ ~outlivedStop)
      BY <1>16, <2>1, <3>1 DEF StaleFires
    <3> QED BY <3>3, <3>4
  <2>2. CASE attempt.stage # "upgrade"
    BY <1>16, <2>2 DEF StaleFires, BeginConnect, Request
  <2> QED BY <2>1, <2>2
<1>17. CASE Tick
  <2>1. CASE attempt = Idle
    BY <1>17, <2>1 DEF Tick, Idle
  <2>2. CASE attempt # Idle
    <3>1. attempt' = [stage |-> attempt.stage, left |-> attempt.left - 1]
          /\ attempt.left \in 1..RequestTimeout
      BY <1>17, <2>2 DEF Tick, TypeOK, Attempt
    <3>2. staleTimer \subseteq Nat
      BY DEF TypeOK, Timer
    <3> QED BY <1>17, <3>1, <3>2 DEF Tick, Less
  <2> QED BY <2>1, <2>2
<1> QED BY Steps, <1>1, <1>2, <1>3, <1>4, <1>5, <1>6, <1>7, <1>8, <1>9, <1>10, <1>11,
           <1>12, <1>13, <1>14, <1>15, <1>16, <1>17

LEMMA SilenceStep == SilenceInv /\ [Next]_vars => SilenceNoticed'
<1> USE MonitorConnectionAssumption
<1> SUFFICES ASSUME TypeOK, Consistent, StaleOutlastsUpgrade, SilenceNoticed, [Next]_vars
             PROVE  SilenceNoticed'
  BY DEF SilenceInv
<1> USE DEF SilenceNoticed, Watched
<1>1. CASE UNCHANGED vars
  BY <1>1 DEF vars, timers
<1>2. CASE Start
  <2>1. phase = "new" => socket = NoSocket
    BY DEF Consistent
  <2> QED BY <1>2, <2>1 DEF Start, Consistent, timers, TypeOK
<1>3. CASE Stop
  BY <1>3 DEF Stop
<1>4. CASE ForceReconnect
  BY <1>4 DEF ForceReconnect, Disconnect
<1>5. CASE LoginGranted
  BY <1>5 DEF LoginGranted, timers
<1>6. CASE SessionGranted
  BY <1>6 DEF SessionGranted, Consistent, timers, Idle
<1>7. CASE AttemptFails
  BY <1>7 DEF AttemptFails, ScheduleReconnect
<1>8. ASSUME NEW s \in SocketId, Upgraded(s) PROVE SilenceNoticed'
  BY <1>8 DEF Upgraded, StaleOutlastsUpgrade
<1>9. ASSUME NEW s \in SocketId, StartFrame(s) PROVE SilenceNoticed'
  BY <1>9 DEF StartFrame, timers
<1>10. ASSUME NEW s \in SocketId, CloseFrame(s) PROVE SilenceNoticed'
  BY <1>10 DEF CloseFrame
<1>11. ASSUME NEW s \in SocketId, NEW d \in {RetryDelay, ErrorDelay}, SocketClosed(s, d)
       PROVE  SilenceNoticed'
  BY <1>11 DEF SocketClosed
<1>12. CASE QueuesInfo
  BY <1>12 DEF QueuesInfo
<1>13. CASE ReconnectFires
  BY <1>13 DEF ReconnectFires, Disconnect
<1>14. CASE PendingConnectFires
  BY <1>14 DEF PendingConnectFires, BeginConnect
<1>15. CASE NoDataCheckFires
  BY <1>15 DEF NoDataCheckFires, ScheduleReconnect
<1>16. CASE StaleFires
  BY <1>16 DEF StaleFires, Disconnect
<1>17. CASE Tick
  <2>1. \A T : T # {} => Less(T) # {}
    BY DEF Less
  <2> QED BY <1>17, <2>1 DEF Tick
<1> QED BY Steps, <1>1, <1>2, <1>3, <1>4, <1>5, <1>6, <1>7, <1>8, <1>9, <1>10, <1>11,
           <1>12, <1>13, <1>14, <1>15, <1>16, <1>17

(* A connection that no stop() came between is always watched: some timer    *)
(* runs that will end it if it stays silent, even when data of an older      *)
(* connection has switched its own first check off.                          *)
THEOREM SilenceIsNoticed == Spec => []SilenceNoticed
<1>1. Init => SilenceInv
  BY TypeInit, ConsistentInit DEF Init, SilenceInv, StaleOutlastsUpgrade, SilenceNoticed
<1>2. SilenceInv /\ [Next]_vars => SilenceInv'
  BY TypeStep, ConsistentStep, StaleOutlastsStep, SilenceStep DEF SilenceInv
<1>3. SilenceInv => SilenceNoticed
  BY DEF SilenceInv
<1> QED BY <1>1, <1>2, <1>3, PTL DEF Spec

-----------------------------------------------------------------------------
(* Lost sockets are counted by the close frames.                             *)

LEMMA LiveIsFinite == IsFiniteSet(Live) /\ \A S : IsFiniteSet(Live \ S)
<1>1. Live \subseteq SocketId
  BY DEF Live
<1>2. \A S : Live \ S \subseteq SocketId
  BY <1>1
<1> QED BY <1>1, <1>2, FS_Subset, MonitorConnectionAssumption

LEMMA LostSame ==
    ASSUME TypeOK, LostSocketsFromCloseFrames, Live' \ {socket'} \subseteq Live \ {socket},
           closeFrames' = closeFrames
    PROVE  LostSocketsFromCloseFrames'
<1>1. /\ Cardinality(Live' \ {socket'}) <= Cardinality(Live \ {socket})
      /\ Cardinality(Live' \ {socket'}) \in Nat /\ Cardinality(Live \ {socket}) \in Nat
  BY LiveIsFinite, FS_Subset, FS_CardinalityType
<1> QED BY <1>1, MonitorConnectionAssumption DEF LostSocketsFromCloseFrames, TypeOK

LEMMA LostStep ==
    TypeOK /\ Consistent /\ LostSocketsFromCloseFrames /\ [Next]_vars
        => LostSocketsFromCloseFrames'
<1> USE MonitorConnectionAssumption
<1> SUFFICES ASSUME TypeOK, Consistent, LostSocketsFromCloseFrames, [Next]_vars
             PROVE  LostSocketsFromCloseFrames'
  OBVIOUS
<1> DEFINE lost == Live \ {socket}
<1>a. NoSocket \notin Live /\ (socket = NoSocket \/ socket \in SocketId)
  BY DEF Live, TypeOK
<1>b. ASSUME Disconnect, closeFrames' = closeFrames PROVE LostSocketsFromCloseFrames'
  <2>1. Live' = lost
    BY <1>b DEF Disconnect, Live, TypeOK
  <2>2. Live' \ {socket'} \subseteq lost
    BY <2>1
  <2> QED BY <1>b, <2>2, LostSame
<1>c. ASSUME UNCHANGED <<peer, socket, closeFrames>> PROVE LostSocketsFromCloseFrames'
  BY <1>c DEF LostSocketsFromCloseFrames, Live
<1>1. CASE UNCHANGED vars
  BY <1>1, <1>c DEF vars
<1>2. CASE Start
  BY <1>2, <1>c DEF Start
<1>3. CASE Stop
  BY <1>3, <1>b DEF Stop
<1>4. CASE ForceReconnect
  BY <1>4, <1>b DEF ForceReconnect
<1>5. CASE LoginGranted
  BY <1>5, <1>c DEF LoginGranted
<1>6. CASE SessionGranted
  BY <1>6, <1>c DEF SessionGranted
<1>7. CASE AttemptFails
  BY <1>7, <1>c DEF AttemptFails
<1>8. ASSUME NEW s \in SocketId, Upgraded(s) PROVE LostSocketsFromCloseFrames'
  <2>1. socket = NoSocket
    BY <1>8 DEF Upgraded, Consistent, Idle
  <2>2. Live' = Live \cup {s} /\ socket' = s
    BY <1>8 DEF Upgraded, Live, TypeOK
  <2>3. Live' \ {socket'} \subseteq lost
    BY <2>1, <2>2, <1>a
  <2> QED BY <1>8, <2>3, LostSame DEF Upgraded
<1>9. ASSUME NEW s \in SocketId, StartFrame(s) PROVE LostSocketsFromCloseFrames'
  <2>1. Live' = Live /\ socket' = socket /\ closeFrames' = closeFrames
    BY <1>9 DEF StartFrame, Live, TypeOK
  <2> QED BY <2>1, LostSame
<1>10. ASSUME NEW s \in SocketId, CloseFrame(s) PROVE LostSocketsFromCloseFrames'
  <2>1. Live' = Live /\ socket' = NoSocket /\ closeFrames' = closeFrames + 1
    BY <1>10 DEF CloseFrame, Live, TypeOK
  <2>2. Live' \ {socket'} \subseteq lost \cup {socket}
    BY <2>1
  <2>3. /\ IsFiniteSet(lost \cup {socket})
        /\ Cardinality(lost \cup {socket}) = Cardinality(lost) + 1
    BY LiveIsFinite, FS_AddElement
  <2>4. Cardinality(Live' \ {socket'}) <= Cardinality(lost) + 1
    BY <2>2, <2>3, FS_Subset
  <2>5. Cardinality(lost) \in Nat /\ Cardinality(Live' \ {socket'}) \in Nat
        /\ closeFrames \in Nat
    BY <2>2, <2>3, LiveIsFinite, FS_Subset, FS_CardinalityType DEF TypeOK
  <2> QED BY <2>1, <2>4, <2>5 DEF LostSocketsFromCloseFrames
<1>11. ASSUME NEW s \in SocketId, NEW d \in {RetryDelay, ErrorDelay}, SocketClosed(s, d)
       PROVE  LostSocketsFromCloseFrames'
  <2>1. Live' = Live \ {s} /\ socket' = NoSocket /\ closeFrames' = closeFrames /\ s \in Live
    BY <1>11 DEF SocketClosed, Live, TypeOK
  <2>2. CASE s = socket
    <3>1. Live' \ {socket'} \subseteq lost
      BY <2>1, <2>2
    <3> QED BY <2>1, <3>1, LostSame
  <2>3. CASE s # socket
    <3>1. Live' \ {socket'} \subseteq (lost \ {s}) \cup {socket}
      BY <2>1
    <3>2. /\ IsFiniteSet(lost \ {s})
          /\ Cardinality(lost \ {s}) = Cardinality(lost) - 1
      BY <2>1, <2>3, LiveIsFinite, FS_RemoveElement
    <3>3. /\ IsFiniteSet((lost \ {s}) \cup {socket})
          /\ Cardinality((lost \ {s}) \cup {socket}) = Cardinality(lost \ {s}) + 1
      BY <3>2, FS_AddElement
    <3>4. Cardinality(Live' \ {socket'}) <= Cardinality((lost \ {s}) \cup {socket})
      BY <3>1, <3>3, FS_Subset
    <3>5. Cardinality(lost) \in Nat
      BY LiveIsFinite, FS_CardinalityType
    <3>6. Cardinality(Live' \ {socket'}) <= Cardinality(lost)
      BY <3>2, <3>3, <3>4, <3>5
    <3>7. Cardinality(Live' \ {socket'}) \in Nat /\ closeFrames \in Nat
      BY <3>1, <3>3, FS_Subset, FS_CardinalityType DEF TypeOK
    <3> QED BY <2>1, <3>5, <3>6, <3>7 DEF LostSocketsFromCloseFrames
  <2> QED BY <2>2, <2>3
<1>12. CASE QueuesInfo
  BY <1>12, <1>c DEF QueuesInfo
<1>13. CASE ReconnectFires
  BY <1>13, <1>b DEF ReconnectFires
<1>14. CASE PendingConnectFires
  BY <1>14, <1>c DEF PendingConnectFires
<1>15. CASE NoDataCheckFires
  BY <1>15, <1>c DEF NoDataCheckFires
<1>16. CASE StaleFires
  BY <1>16, <1>b, <1>c DEF StaleFires
<1>17. CASE Tick
  BY <1>17, <1>c DEF Tick
<1> QED BY Steps, <1>1, <1>2, <1>3, <1>4, <1>5, <1>6, <1>7, <1>8, <1>9, <1>10, <1>11,
           <1>12, <1>13, <1>14, <1>15, <1>16, <1>17

(* Each socket the monitor has lost hold of stands for a close frame: no     *)
(* other order of events makes it lose one.                                  *)
THEOREM LostSocketsAreCounted == Spec => []LostSocketsFromCloseFrames
<1>1. Init => LostSocketsFromCloseFrames
  <2> SUFFICES ASSUME Init PROVE LostSocketsFromCloseFrames
    OBVIOUS
  <2>1. Live \ {socket} = {}
    BY DEF Init, Live
  <2> QED BY <2>1, FS_EmptySet DEF Init, LostSocketsFromCloseFrames
<1> QED BY <1>1, LostStep, TypeCorrect, IsConsistent, PTL DEF Spec

=============================================================================
