----------------------- MODULE WallboardFiguresProofs -----------------------
(***************************************************************************)
(* Theorems about where the wallboard's figures come from: the relay's own *)
(* monitor, the longest wait of the day and of the last hour, the messages of *)
(* the wallboard's monitor and the active calls; for any calls, agents, queues *)
(* and lengths of the day.                                                 *)
(***************************************************************************)
EXTENDS RelayMonitor, WaitFigures, WaitWindow, MonitorData, CallView,
        WellFoundedInduction, TLAPS

-----------------------------------------------------------------------------
(***************************************************************************)
(* RelayMonitor: whatever timers are still running, the monitor comes back. *)
(***************************************************************************)

(* What RelayMonitorComesBack lacks to be inductive: timers of 3 s that find a *)
(* connection go out without a trace, so a connection may not rely on one.   *)
WatchedOrBack ==
    /\ isConnected => staleTimer \/ reconnectTimer
    /\ ~isConnected => attempt # "idle" \/ attempts > 0 \/ reconnectTimer

RelayMonitorIInv == RelayMonitorTypeOK /\ WatchedOrBack /\ RelayMonitorComesBack

-----------------------------------------------------------------------------

LEMMA RelayMonitorInitIInv == RelayMonitorInit => RelayMonitorIInv
<1> SUFFICES ASSUME RelayMonitorInit PROVE RelayMonitorIInv
  OBVIOUS
<1>1. attempts \in 0..MaxWaiting /\ dataChecks \in 0..MaxWaiting
  BY RelayMonitorAssumption DEF RelayMonitorInit
<1>2. RelayMonitorTypeOK
  BY <1>1, Zenon DEF RelayMonitorInit, RelayMonitorTypeOK
<1>3. WatchedOrBack /\ RelayMonitorComesBack
  BY DEF RelayMonitorInit, WatchedOrBack, RelayMonitorComesBack
<1> QED BY <1>2, <1>3 DEF RelayMonitorIInv


(* Every step keeps the types.                                               *)
LEMMA RelayMonitorStepType ==
    ASSUME RelayMonitorTypeOK, [RelayMonitorNext]_relayMonitorVars
    PROVE  RelayMonitorTypeOK'
<1> USE RelayMonitorAssumption DEF RelayMonitorTypeOK
<1>1. CASE LoggedIn \/ HasSession \/ AttemptFails \/ UpgradeAnswered
  BY <1>1 DEF LoggedIn, HasSession, AttemptFails, UpgradeAnswered, SchedulesReconnect
<1>2. CASE Upgraded
  <2>1. dataChecks + 1 \in 0..MaxWaiting
    BY <1>2 DEF Upgraded
  <2> QED BY <1>2, <2>1, Zenon DEF Upgraded
<1>3. CASE AgentsArrive \/ CommandsEnd \/ GoesSilent \/ CloseAnnounced \/ SocketCloses
  BY <1>3 DEF AgentsArrive, CommandsEnd, GoesSilent, CloseAnnounced, SocketCloses,
              SchedulesReconnect
<1>4. CASE ReconnectFires
  <2>1. attempts + 1 \in 0..MaxWaiting
    BY <1>4 DEF ReconnectFires
  <2> QED BY <1>4, <2>1, Zenon DEF ReconnectFires
<1>5. CASE AttemptDue
  BY <1>5 DEF AttemptDue, Begins
<1>6. CASE StaleFires
  BY <1>6 DEF StaleFires
<1>7. CASE DataCheckDue
  BY <1>7 DEF DataCheckDue
<1>8. CASE RefreshFires
  BY <1>8 DEF RefreshFires
<1>9. CASE UNCHANGED relayMonitorVars
  BY <1>9 DEF relayMonitorVars
<1> QED
  BY <1>1, <1>2, <1>3, <1>4, <1>5, <1>6, <1>7, <1>8, <1>9 DEF RelayMonitorNext

(* Every step keeps a connection watched, and a way back without one.        *)
LEMMA RelayMonitorStepWatched ==
    ASSUME RelayMonitorIInv, [RelayMonitorNext]_relayMonitorVars
    PROVE  WatchedOrBack' /\ (attempt # "idle" => ~isConnected)'
<1> USE RelayMonitorAssumption DEF RelayMonitorIInv, RelayMonitorTypeOK, WatchedOrBack, RelayMonitorComesBack
<1>1. CASE LoggedIn \/ HasSession \/ AttemptFails \/ UpgradeAnswered
  BY <1>1 DEF LoggedIn, HasSession, AttemptFails, UpgradeAnswered, SchedulesReconnect
<1>2. CASE Upgraded
  BY <1>2 DEF Upgraded
<1>3. CASE AgentsArrive \/ CommandsEnd \/ GoesSilent \/ CloseAnnounced \/ SocketCloses
  BY <1>3 DEF AgentsArrive, CommandsEnd, GoesSilent, CloseAnnounced, SocketCloses,
              SchedulesReconnect
<1>4. CASE ReconnectFires
  BY <1>4 DEF ReconnectFires
<1>5. CASE AttemptDue
  (* A timer that finds an attempt leaves it; one that finds a connection was
     not what the connection relied on. *)
  <2>1. CASE isConnected
    BY <1>5, <2>1 DEF AttemptDue, Begins
  <2>2. CASE ~isConnected
    BY <1>5, <2>2 DEF AttemptDue, Begins
  <2> QED BY <2>1, <2>2
<1>6. CASE StaleFires
  BY <1>6 DEF StaleFires
<1>7. CASE DataCheckDue
  BY <1>7 DEF DataCheckDue
<1>8. CASE RefreshFires
  BY <1>8 DEF RefreshFires
<1>9. CASE UNCHANGED relayMonitorVars
  BY <1>9 DEF relayMonitorVars
<1> QED
  BY <1>1, <1>2, <1>3, <1>4, <1>5, <1>6, <1>7, <1>8, <1>9 DEF RelayMonitorNext

LEMMA RelayMonitorStep ==
    ASSUME RelayMonitorIInv, [RelayMonitorNext]_relayMonitorVars
    PROVE  RelayMonitorIInv'
<1>1. RelayMonitorTypeOK'
  BY RelayMonitorStepType DEF RelayMonitorIInv
<1>2. WatchedOrBack' /\ (attempt # "idle" => ~isConnected)'
  BY RelayMonitorStepWatched
<1>3. RelayMonitorComesBack'
  BY <1>2 DEF WatchedOrBack, RelayMonitorComesBack
<1> QED BY <1>1, <1>2, <1>3 DEF RelayMonitorIInv

-----------------------------------------------------------------------------

(* The fields and the counts of timers keep their types, also while timers   *)
(* of earlier connections fire.                                              *)
THEOREM MonitorTypeCorrect == RelayMonitorSpec => []RelayMonitorTypeOK
<1>1. RelayMonitorInit => RelayMonitorIInv
  BY RelayMonitorInitIInv
<1>2. RelayMonitorIInv /\ [RelayMonitorNext]_relayMonitorVars => RelayMonitorIInv'
  BY RelayMonitorStep
<1>3. RelayMonitorIInv => RelayMonitorTypeOK
  BY DEF RelayMonitorIInv
<1> QED BY <1>1, <1>2, <1>3, PTL DEF RelayMonitorSpec

(* The relay's monitor always tries to connect, will try, or has a connection *)
(* whose silence it will notice, whatever order attempts, untracked timers   *)
(* and socket events come in.                                                *)
THEOREM MonitorComesBack == RelayMonitorSpec => []RelayMonitorComesBack
<1>1. RelayMonitorInit => RelayMonitorIInv
  BY RelayMonitorInitIInv
<1>2. RelayMonitorIInv /\ [RelayMonitorNext]_relayMonitorVars => RelayMonitorIInv'
  BY RelayMonitorStep
<1>3. RelayMonitorIInv => RelayMonitorComesBack
  BY DEF RelayMonitorIInv
<1> QED BY <1>1, <1>2, <1>3, PTL DEF RelayMonitorSpec

-----------------------------------------------------------------------------
(***************************************************************************)
(* WaitFigures: the longest wait of the day is neither lost nor made up.   *)
(***************************************************************************)

(* A set of naturals below a bound has a largest element.                    *)
LEMMA MaxOfBounded ==
    ASSUME NEW S \in SUBSET Nat, S # {}, NEW bound \in Nat, \A x \in S : x <= bound
    PROVE  Max(S) \in S /\ \A x \in S : x <= Max(S)
<1> DEFINE T == {bound - x : x \in S}
<1>1. T \subseteq Nat /\ T # {}
  <2>1. \A x \in S : bound - x \in Nat
    OBVIOUS
  <2> QED BY <2>1
<1>2. PICK m \in T : \A y \in T : ~ (<<y, m>> \in OpToRel(<, Nat))
  BY <1>1, NatLessThanWellFounded, WFMin
<1>3. \A y \in T : m <= y
  <2> SUFFICES ASSUME NEW y \in T PROVE m <= y
    OBVIOUS
  <2>1. m \in Nat /\ y \in Nat
    BY <1>1
  <2>2. <<y, m>> \notin {ss \in Nat \X Nat : ss[1] < ss[2]}
    BY <1>2 DEF OpToRel
  <2>3. ~ (y < m)
    BY <2>1, <2>2
  <2> QED BY <2>1, <2>3
<1>4. PICK x \in S : m = bound - x
  OBVIOUS
<1>5. \A y \in S : x >= y
  BY <1>3, <1>4
<1>6. Max(S) \in S /\ \A y \in S : Max(S) >= y
  BY <1>5 DEF Max
<1> QED BY <1>6

LEMMA MaxOfTwo ==
    ASSUME NEW a \in Int, NEW b \in Int
    PROVE  Max({a, b}) \in {a, b} /\ Max({a, b}) >= a /\ Max({a, b}) >= b
<1>1. \E x \in {a, b} : \A y \in {a, b} : x >= y
  OBVIOUS
<1> QED BY <1>1 DEF Max

LEMMA MinOfTwo ==
    ASSUME NEW a \in Int, NEW b \in Int
    PROVE  Min({a, b}) \in {a, b} /\ Min({a, b}) <= a /\ Min({a, b}) <= b
<1>1. \E x \in {a, b} : \A y \in {a, b} : x <= y
  OBVIOUS
<1> QED BY <1>1 DEF Min

(* The greatest of some waits, of which negative ones count as none.         *)
LEMMA GreatestOfBounded ==
    ASSUME NEW waits \in SUBSET Int, NEW bound \in Nat, \A x \in waits : x <= bound
    PROVE  /\ Greatest(waits) \in Nat /\ Greatest(waits) \in waits \cup {0}
           /\ \A x \in waits : x <= Greatest(waits)
<1> DEFINE some == (waits \cap Nat) \cup {0}
<1>1. some \in SUBSET Nat /\ some # {} /\ \A x \in some : x <= bound
  OBVIOUS
<1>2. Max(some) \in some /\ \A x \in some : x <= Max(some)
  BY <1>1, MaxOfBounded
<1>3. \E x \in waits \cup {0} : \A y \in waits \cup {0} : x >= y
  <2>1. \A x \in waits : x \in some \/ x < 0
    OBVIOUS
  <2>2. Max(some) \in Nat /\ 0 <= Max(some)
    BY <1>1, <1>2
  <2>3. \A y \in waits \cup {0} : Max(some) >= y
    BY <1>2, <2>1, <2>2
  <2> QED BY <1>2, <2>3
<1>4. PICK most : most = Max(waits \cup {0})
  OBVIOUS
<1>5. most \in waits \cup {0} /\ \A y \in waits \cup {0} : most >= y
  BY <1>3, <1>4 DEF Max
<1>6. most \in Nat
  BY <1>5
<1> QED BY <1>4, <1>5, <1>6 DEF Greatest

LEMMA DaysPass ==
    ASSUME NEW s \in Nat, NEW t \in Nat, s <= t
    PROVE  /\ Day(s) \in Nat /\ Day(s) <= Day(t)
           /\ Day(s) * DayLength <= s
  BY WaitFiguresAssumption DEF Day

-----------------------------------------------------------------------------
(* A call comes before it leaves, and was last found while it waited or at   *)
(* most Lag later.                                                           *)
CallsAreInOrder ==
    \A c \in QueuedCall :
        /\ start[c] <= now /\ end[c] <= now /\ lastSeen[c] <= now
        /\ end[c] # Never => start[c] # Never /\ start[c] <= end[c]
        /\ lastSeen[c] # Never => /\ start[c] # Never /\ start[c] <= lastSeen[c]
                                  /\ end[c] = Never \/ end[c] >= lastSeen[c] - Lag

(* The dates do not run ahead, and no day has a summary before it comes.     *)
DatesAreInOrder ==
    /\ synced <= todayDate /\ todayDate <= Day(now)
    /\ \A d \in Days : d > Day(now) => summary[d] = 0

WaitIInv == WaitTypeOK /\ CallsAreInOrder /\ DatesAreInOrder /\ ShownAtLeastSeen /\ ShownNotMuchMore

(* What MaxIsActual says: some call of the day waited about as long.         *)
Explains(c, d, figure) ==
    c \in CallsOfDay(d) /\ figure <= RealWait(c) + (Gap + 1) \div 2 + Lag

LEMMA Numbers ==
    WaitTypeOK => /\ now \in Nat /\ now <= MaxTime /\ MaxTime \in Nat /\ Gap \in Nat /\ Lag \in Nat
                  /\ DayLength \in Nat \ {0} /\ Day(now) \in Days /\ Days \subseteq Nat
                  /\ \A c \in QueuedCall : /\ start[c] \in -1..MaxTime /\ end[c] \in -1..MaxTime
                                           /\ lastSeen[c] \in -1..MaxTime
                  /\ todayDate \in Days \cup {-1} /\ synced \in Days \cup {-1}
                  /\ todayMax \in Nat /\ shownMax \in Nat
                  /\ \A d \in Days : summary[d] \in Nat /\ stored[d] \in Nat
<1> SUFFICES ASSUME WaitTypeOK
             PROVE  /\ now \in Nat /\ now <= MaxTime /\ MaxTime \in Nat /\ Gap \in Nat /\ Lag \in Nat
                    /\ DayLength \in Nat \ {0} /\ Day(now) \in Days /\ Days \subseteq Nat
                    /\ \A c \in QueuedCall : /\ start[c] \in -1..MaxTime /\ end[c] \in -1..MaxTime
                                             /\ lastSeen[c] \in -1..MaxTime
                    /\ todayDate \in Days \cup {-1} /\ synced \in Days \cup {-1}
                    /\ todayMax \in Nat /\ shownMax \in Nat
                    /\ \A d \in Days : summary[d] \in Nat /\ stored[d] \in Nat
  OBVIOUS
<1>1. now \in Nat /\ now <= MaxTime /\ MaxTime \in Nat /\ Gap \in Nat /\ Lag \in Nat /\ DayLength \in Nat \ {0}
  BY WaitFiguresAssumption DEF WaitTypeOK, Time
<1>2. Day(now) \in Days
  BY DEF WaitTypeOK, Days
<1>3. Days \subseteq Nat
  BY <1>1, DaysPass DEF Days, Time
<1>4. \A c \in QueuedCall : /\ start[c] \in -1..MaxTime /\ end[c] \in -1..MaxTime
                            /\ lastSeen[c] \in -1..MaxTime
  BY <1>1 DEF WaitTypeOK, Time, Never
<1> QED BY <1>1, <1>2, <1>3, <1>4 DEF WaitTypeOK, Never

LEMMA ActualByExplanation ==
    ASSUME WaitTypeOK, NEW d \in Nat, NEW figure \in Nat
    PROVE  MaxIsActual(d, figure) <=> figure = 0 \/ \E c \in QueuedCall : Explains(c, d, figure)
<1> DEFINE Limit(c) == RealWait(c) + (Gap + 1) \div 2 + Lag
           limits   == {Limit(c) : c \in CallsOfDay(d)}
<1>1. \A c \in QueuedCall : RealWait(c) \in Int /\ RealWait(c) <= MaxTime + 1
  BY Numbers DEF RealWait, Never
<1>2. PICK half \in Nat : half = (Gap + 1) \div 2
  BY Numbers
<1>3. \A c \in QueuedCall : Limit(c) \in Int /\ Limit(c) <= MaxTime + 1 + half + Lag
  BY <1>1, <1>2, Numbers
<1>4. MaxTime + 1 + half + Lag \in Nat
  BY <1>2, Numbers
<1> HIDE DEF Limit
<1>5. limits \in SUBSET Int /\ \A x \in limits : x <= MaxTime + 1 + half + Lag
  BY <1>3 DEF CallsOfDay
<1>6. /\ Greatest(limits) \in Nat /\ Greatest(limits) \in limits \cup {0}
      /\ \A x \in limits : x <= Greatest(limits)
  BY <1>4, <1>5, GreatestOfBounded
<1>7. MaxIsActual(d, figure) <=> figure = 0 \/ figure <= Greatest(limits)
  BY DEF MaxIsActual, Limit
<1>8. \A c \in QueuedCall : Explains(c, d, figure) <=> c \in CallsOfDay(d) /\ figure <= Limit(c)
  BY DEF Explains, Limit
<1>9. ASSUME figure # 0, figure <= Greatest(limits) PROVE \E c \in QueuedCall : Explains(c, d, figure)
  <2>1. Greatest(limits) \in limits
    <3>1. PICK most \in Nat : most = Greatest(limits)
      BY <1>6
    <3>2. most # 0
      BY <1>9, <3>1
    <3> QED BY <1>6, <3>1, <3>2
  <2>2. PICK c \in CallsOfDay(d) : Greatest(limits) = Limit(c)
    BY <2>1
  <2> QED BY <1>8, <1>9, <2>2 DEF CallsOfDay
<1>10. ASSUME NEW c \in QueuedCall, Explains(c, d, figure) PROVE figure <= Greatest(limits)
  <2>1. Limit(c) \in limits /\ figure <= Limit(c)
    BY <1>8, <1>10
  <2> QED BY <1>3, <1>6, <2>1
<1> QED BY <1>7, <1>9, <1>10

-----------------------------------------------------------------------------
(* A poll: what it measures is about as long as a call of the day waited.    *)

LEMMA DayBegins ==
    ASSUME WaitTypeOK, NEW t \in Nat, t <= now
    PROVE  Day(t) \in Nat /\ Day(t) <= Day(now) /\ Day(now) * DayLength \in Nat /\ Day(now) * DayLength <= now
<1>1. now \in Nat
  BY Numbers
<1>2. Day(t) \in Nat /\ Day(t) <= Day(now) /\ Day(now) \in Nat /\ Day(now) * DayLength <= now
  BY <1>1, DaysPass
<1> QED BY <1>2, Numbers

LEMMA WaitingIsExplained ==
    ASSUME WaitTypeOK, CallsAreInOrder, NEW asOf \in Time, asOf \in now - Lag..now, NEW c \in QueuedCalls(asOf)
    PROVE  asOf - start[c] \in Nat /\ asOf - start[c] <= MaxTime /\ Explains(c, Day(now), asOf - start[c])
<1>1. /\ c \in QueuedCall /\ start[c] # -1 /\ start[c] <= asOf /\ (end[c] = -1 \/ asOf < end[c])
      /\ asOf \in Nat /\ asOf <= now /\ now - Lag <= asOf
  BY Numbers DEF QueuedCalls, Never, Time
<1>2. /\ start[c] \in Nat /\ start[c] <= now /\ end[c] \in -1..MaxTime /\ now \in Nat /\ now <= MaxTime
      /\ MaxTime \in Nat /\ Gap \in Nat /\ Lag \in Nat
  BY <1>1, Numbers DEF CallsAreInOrder
<1>3. /\ Day(start[c]) <= Day(now) /\ Day(now) * DayLength \in Nat /\ Day(now) * DayLength <= now
  BY <1>2, DayBegins
<1>4. c \in CallsOfDay(Day(now))
  <2>1. PICK midnight \in Nat : midnight = Day(now) * DayLength /\ midnight <= now
    BY <1>3
  <2>2. end[c] = -1 \/ end[c] >= midnight - Gap - Lag
    BY <1>1, <1>2, <2>1
  <2> QED BY <1>1, <1>3, <2>1, <2>2 DEF CallsOfDay, Never
<1>5. asOf - start[c] <= RealWait(c) /\ RealWait(c) \in Int
  BY <1>1, <1>2 DEF RealWait, Never
<1>6. (Gap + 1) \div 2 \in Nat
  BY <1>2
<1> QED BY <1>1, <1>2, <1>4, <1>5, <1>6 DEF Explains

LEMMA EstimateIsExplained ==
    ASSUME WaitTypeOK, CallsAreInOrder, NEW asOf \in Time, asOf \in now - Lag..now, NEW c \in Gone(asOf)
    PROVE  /\ EstimatedWait(c) \in Int /\ EstimatedWait(c) <= MaxTime + 1
           /\ now - lastSeen[c] <= Gap => Explains(c, Day(now), EstimatedWait(c))
<1>1. c \in QueuedCall /\ lastSeen[c] # -1
  BY DEF Gone, Never
<1>2. /\ start[c] \in Nat /\ start[c] <= lastSeen[c] /\ lastSeen[c] \in Nat /\ lastSeen[c] <= now
      /\ end[c] \in -1..MaxTime /\ now \in Nat /\ now <= MaxTime
      /\ end[c] = -1 \/ end[c] >= lastSeen[c] - Lag
      /\ MaxTime \in Nat /\ Gap \in Nat /\ Lag \in Nat
  BY <1>1, Numbers DEF CallsAreInOrder, Never
<1>3. EstimatedWait(c) \in Int /\ EstimatedWait(c) <= MaxTime + 1
  BY <1>2 DEF EstimatedWait
<1>4. ASSUME now - lastSeen[c] <= Gap PROVE Explains(c, Day(now), EstimatedWait(c))
  <2>1. /\ Day(start[c]) <= Day(now) /\ Day(now) * DayLength \in Nat /\ Day(now) * DayLength <= now
    BY <1>2, DayBegins
  <2>2. PICK midnight \in Nat : midnight = Day(now) * DayLength /\ midnight <= now
    BY <2>1
  <2>3. end[c] = -1 \/ end[c] >= midnight - Gap - Lag
    BY <1>2, <1>4, <2>2
  <2>4. c \in CallsOfDay(Day(now))
    BY <1>1, <1>2, <2>1, <2>2, <2>3 DEF CallsOfDay, Never
  <2>5. EstimatedWait(c) <= (lastSeen[c] - start[c]) + (Gap + 1) \div 2
    BY <1>2, <1>4 DEF EstimatedWait
  <2>6. RealWait(c) \in Int /\ lastSeen[c] - start[c] <= RealWait(c) + Lag
    BY <1>2 DEF RealWait, Never
  <2>7. (Gap + 1) \div 2 \in Nat
    BY <1>2
  <2>8. EstimatedWait(c) <= RealWait(c) + (Gap + 1) \div 2 + Lag
    BY <1>2, <1>3, <2>5, <2>6, <2>7
  <2> QED BY <2>4, <2>8 DEF Explains
<1> QED BY <1>3, <1>4

LEMMA MeasuredIsExplained ==
    ASSUME WaitTypeOK, CallsAreInOrder, NEW asOf \in Time, asOf \in now - Lag..now
    PROVE  /\ Measured(asOf) \in SUBSET Int /\ \A x \in Measured(asOf) : x <= MaxTime + 1
           /\ (\A c \in Gone(asOf) : now - lastSeen[c] <= Gap)
                 => \A x \in Measured(asOf) : x = 0 \/ \E c \in QueuedCall : Explains(c, Day(now), x)
<1> DEFINE waits == {asOf - start[c] : c \in QueuedCalls(asOf)}
<1>1. waits \in SUBSET Int /\ \A x \in waits : x <= MaxTime
  BY WaitingIsExplained
<1>2. /\ Greatest(waits) \in Nat /\ Greatest(waits) \in waits \cup {0}
  BY <1>1, GreatestOfBounded, Numbers
<1>3. LongestWait(asOf) = Greatest(waits)
  BY DEF LongestWait
<1>4. LongestWait(asOf) \in Nat
  BY <1>2, <1>3
<1>5. LongestWait(asOf) = 0 \/ \E c \in QueuedCalls(asOf) : LongestWait(asOf) = asOf - start[c]
  BY <1>2, <1>3
<1>6. LongestWait(asOf) <= MaxTime + 1
  BY <1>4, <1>5, WaitingIsExplained, Numbers
<1>7. LongestWait(asOf) = 0 \/ \E c \in QueuedCall : Explains(c, Day(now), LongestWait(asOf))
  BY <1>5, WaitingIsExplained DEF QueuedCalls
<1> HIDE DEF waits
<1>8. \A x \in Measured(asOf) : x = LongestWait(asOf) \/ \E c \in Gone(asOf) : x = EstimatedWait(c)
  BY DEF Measured
<1>9. Measured(asOf) \in SUBSET Int /\ \A x \in Measured(asOf) : x <= MaxTime + 1
  BY <1>4, <1>6, <1>8, EstimateIsExplained
<1>10. ASSUME \A c \in Gone(asOf) : now - lastSeen[c] <= Gap, NEW x \in Measured(asOf)
       PROVE  x = 0 \/ \E c \in QueuedCall : Explains(c, Day(now), x)
  <2>1. CASE x = LongestWait(asOf)
    BY <1>7, <2>1
  <2>2. ASSUME NEW c \in Gone(asOf), x = EstimatedWait(c) PROVE \E d \in QueuedCall : Explains(d, Day(now), x)
    <3>1. Explains(c, Day(now), EstimatedWait(c))
      BY <1>10, EstimateIsExplained
    <3> QED BY <2>2, <3>1 DEF Gone
  <2> QED BY <1>8, <2>1, <2>2
<1> QED BY <1>9, <1>10

-----------------------------------------------------------------------------
(* What explains a figure goes on to: a call that is there waits longer.     *)

LEMMA ActualAfterStep ==
    (WaitTypeOK => \A d \in Nat, figure \in Nat :
        MaxIsActual(d, figure) <=> figure = 0 \/ \E c \in QueuedCall : Explains(c, d, figure))'
<1>1. WaitTypeOK => \A d \in Nat, figure \in Nat :
        MaxIsActual(d, figure) <=> figure = 0 \/ \E c \in QueuedCall : Explains(c, d, figure)
  BY ActualByExplanation
<1> QED BY <1>1, PTL

CallsGoOn ==
    /\ now <= now'
    /\ \A c \in QueuedCall : start[c] # Never =>
          /\ start'[c] = start[c]
          /\ end'[c] = end[c] \/ (end[c] = Never /\ end'[c] = now)

LEMMA ExplanationsLast ==
    ASSUME WaitTypeOK, WaitTypeOK', CallsGoOn, NEW c \in QueuedCall,
           NEW d \in Nat, d <= Day(now), NEW figure \in Nat, Explains(c, d, figure)
    PROVE  Explains(c, d, figure)'
<1>1. /\ start[c] # -1 /\ Day(start[c]) <= d
      /\ end[c] = -1 \/ end[c] >= d * DayLength - Gap - Lag
      /\ figure <= RealWait(c) + (Gap + 1) \div 2 + Lag
  BY DEF Explains, CallsOfDay, Never
<1>2. /\ start[c] \in Nat /\ end[c] \in -1..MaxTime /\ now \in Nat /\ now' \in Nat /\ now <= now'
      /\ start'[c] = start[c]
      /\ end'[c] = end[c] \/ (end[c] = -1 /\ end'[c] = now)
      /\ Gap \in Nat /\ Lag \in Nat /\ DayLength \in Nat
  BY <1>1, Numbers DEF CallsGoOn, Never, WaitTypeOK, Time
<1>3. PICK midnight \in Nat : midnight = d * DayLength /\ midnight <= now
  <2>1. Day(now) * DayLength <= now /\ Day(now) \in Nat
    BY <1>2, DaysPass
  <2>2. d * DayLength \in Nat /\ d * DayLength <= Day(now) * DayLength
    BY <1>2, <2>1
  <2>3. Day(now) * DayLength \in Nat
    BY <1>2, <2>1
  <2> QED BY <1>2, <2>1, <2>2, <2>3
<1>4. end'[c] = -1 \/ end'[c] >= midnight - Gap - Lag
  BY <1>1, <1>2, <1>3
<1>5. RealWait(c) \in Int /\ RealWait(c)' \in Int /\ RealWait(c) <= RealWait(c)'
  BY <1>2 DEF RealWait, Never
<1>6. (Gap + 1) \div 2 \in Nat
  BY <1>2
<1>7. figure <= RealWait(c)' + (Gap + 1) \div 2 + Lag
  BY <1>1, <1>2, <1>5, <1>6
<1>8. (c \in CallsOfDay(d))'
  BY <1>1, <1>2, <1>3, <1>4 DEF CallsOfDay, Never, Day
<1> QED BY <1>7, <1>8 DEF Explains

LEMMA ActualLasts ==
    ASSUME WaitTypeOK, WaitTypeOK', CallsGoOn, NEW d \in Nat, NEW figure \in Nat,
           figure # 0 => d <= Day(now), MaxIsActual(d, figure)
    PROVE  MaxIsActual(d, figure)'
<1>1. figure = 0 \/ \E c \in QueuedCall : Explains(c, d, figure)
  BY ActualByExplanation
<1>2. figure = 0 \/ \E c \in QueuedCall : Explains(c, d, figure)'
  BY <1>1, ExplanationsLast
<1> QED BY <1>2, ActualAfterStep

-----------------------------------------------------------------------------
LEMMA WaitInitIInv == WaitInit => WaitIInv
<1> SUFFICES ASSUME WaitInit PROVE WaitIInv
  OBVIOUS
<1>1. MaxTime \in Nat /\ now = 0 /\ todayMax = 0 /\ shownMax = 0 /\ todayDate = -1 /\ synced = -1
  BY WaitFiguresAssumption DEF WaitInit, Never
<1>2. start \in [QueuedCall -> Time \cup {Never}] /\ end = start /\ lastSeen = start
      /\ \A c \in QueuedCall : start[c] = -1
  BY DEF WaitInit, Never
<1>3. summary \in [Days -> Nat] /\ stored = summary /\ \A d \in Days : summary[d] = 0
  BY DEF WaitInit
<1>4. WaitTypeOK
  <2>1. now \in Time /\ {start, end, lastSeen} \subseteq [QueuedCall -> Time \cup {Never}]
    BY <1>1, <1>2 DEF Time
  <2>2. todayMax \in Nat /\ shownMax \in Nat /\ {todayDate, synced} \subseteq Days \cup {Never}
        /\ {summary, stored} \subseteq [Days -> Nat]
    BY <1>1, <1>3 DEF Never
  <2>3. paused \in BOOLEAN
    BY DEF WaitInit
  <2> QED BY <2>1, <2>2, <2>3 DEF WaitTypeOK
<1>5. Day(now) \in Nat
  BY <1>1, DaysPass
<1>6. CallsAreInOrder /\ DatesAreInOrder
  BY <1>1, <1>2, <1>3, <1>5 DEF CallsAreInOrder, DatesAreInOrder, Never
<1>7. ShownAtLeastSeen /\ ShownNotMuchMore
  BY <1>1, <1>3 DEF ShownAtLeastSeen, ShownNotMuchMore, MaxIsActual, Never
<1> QED BY <1>4, <1>6, <1>7 DEF WaitIInv

(* The calls and the clock go on, and the poller's figures stay.             *)
LEMMA SurroundingsKeep ==
    ASSUME WaitIInv, WaitTypeOK', CallsAreInOrder', CallsGoOn,
           UNCHANGED <<todayMax, todayDate, summary, synced, shownMax, stored, paused>>
    PROVE  WaitIInv'
<1>1. WaitTypeOK
  BY DEF WaitIInv
<1>2. Day(now) \in Nat /\ Day(now') \in Nat /\ Day(now) <= Day(now')
  BY <1>1, DaysPass, Numbers DEF CallsGoOn, WaitTypeOK, Time
<1>3. DatesAreInOrder'
  BY <1>1, <1>2, Numbers DEF WaitIInv, DatesAreInOrder, Day
<1>4. ShownAtLeastSeen'
  BY DEF WaitIInv, ShownAtLeastSeen
<1>5. ASSUME ~paused PROVE /\ todayDate # Never => MaxIsActual(todayDate, todayMax)'
                           /\ \A d \in Days : MaxIsActual(d, summary[d])'
  <2>1. ASSUME todayDate # Never PROVE MaxIsActual(todayDate, todayMax)'
    <3>1. PICK d \in Nat, figure \in Nat : d = todayDate /\ figure = todayMax /\ d <= Day(now)
      BY <1>1, <2>1, Numbers DEF WaitIInv, DatesAreInOrder, Never
    <3>2. MaxIsActual(d, figure)
      BY <1>5, <2>1, <3>1 DEF WaitIInv, ShownNotMuchMore
    <3>3. MaxIsActual(d, figure)'
      BY <1>1, <3>1, <3>2, ActualLasts
    <3>4. d = todayDate' /\ figure = todayMax'
      BY <3>1
    <3> QED BY <3>1, <3>3, <3>4 DEF MaxIsActual
  <2>2. ASSUME NEW d \in Days PROVE MaxIsActual(d, summary[d])'
    <3>1. PICK figure \in Nat : figure = summary[d] /\ d \in Nat
      BY <1>1, Numbers
    <3>2. figure # 0 => d <= Day(now)
      BY <1>2, <3>1 DEF WaitIInv, DatesAreInOrder
    <3>3. MaxIsActual(d, figure)
      BY <1>5, <3>1 DEF WaitIInv, ShownNotMuchMore
    <3>4. MaxIsActual(d, figure)'
      BY <1>1, <3>1, <3>2, <3>3, ActualLasts
    <3>5. figure = summary'[d]
      BY <3>1
    <3> QED BY <3>4, <3>5 DEF MaxIsActual
  <2> QED BY <2>1, <2>2
<1>6. ShownNotMuchMore'
  BY <1>5 DEF ShownNotMuchMore
<1> QED BY <1>3, <1>4, <1>6 DEF WaitIInv

LEMMA CallsComeAndGo ==
    ASSUME WaitIInv, NEW c \in QueuedCall, CallArrives(c) \/ CallLeaves(c)
    PROVE  WaitIInv'
<1>1. /\ WaitTypeOK /\ CallsAreInOrder /\ now' = now /\ lastSeen' = lastSeen
      /\ UNCHANGED <<todayMax, todayDate, summary, synced, shownMax, stored, paused>>
  BY DEF WaitIInv, CallArrives, CallLeaves
<1>2. now \in Nat /\ now \in Time
  BY <1>1, Numbers DEF WaitTypeOK
<1>3. CASE CallArrives(c)
  <2>1. /\ start[c] = -1 /\ start' = [start EXCEPT ![c] = now] /\ end' = end
    BY <1>3 DEF CallArrives, Never
  <2>2. start' \in [QueuedCall -> Time \cup {Never}] /\ start'[c] = now /\ \A d \in QueuedCall \ {c} : start'[d] = start[d]
    BY <1>1, <1>2, <2>1 DEF WaitTypeOK
  <2>3. WaitTypeOK'
    BY <1>1, <2>1, <2>2 DEF WaitTypeOK
  <2>4. CallsAreInOrder'
    BY <1>1, <1>2, <2>1, <2>2, Numbers DEF CallsAreInOrder, Never
  <2>5. CallsGoOn
    BY <1>1, <1>2, <2>1, <2>2 DEF CallsGoOn, Never
  <2> QED BY <1>1, <2>3, <2>4, <2>5, SurroundingsKeep
<1>4. CASE CallLeaves(c)
  <2>1. /\ start[c] # -1 /\ end[c] = -1 /\ end' = [end EXCEPT ![c] = now] /\ start' = start
    BY <1>4 DEF CallLeaves, Never
  <2>2. end' \in [QueuedCall -> Time \cup {Never}] /\ end'[c] = now /\ \A d \in QueuedCall \ {c} : end'[d] = end[d]
    BY <1>1, <1>2, <2>1 DEF WaitTypeOK
  <2>3. WaitTypeOK'
    BY <1>1, <2>1, <2>2 DEF WaitTypeOK
  <2>4. CallsAreInOrder'
    BY <1>1, <1>2, <2>1, <2>2, Numbers DEF CallsAreInOrder, Never
  <2>5. CallsGoOn
    BY <1>1, <1>2, <2>1, <2>2 DEF CallsGoOn, Never
  <2> QED BY <1>1, <2>3, <2>4, <2>5, SurroundingsKeep
<1> QED BY <1>3, <1>4

LEMMA TimePasses == WaitIInv /\ Passes => WaitIInv'
<1> SUFFICES ASSUME WaitIInv, Passes PROVE WaitIInv'
  OBVIOUS
<1>1. /\ WaitTypeOK /\ CallsAreInOrder /\ now < MaxTime /\ now' = now + 1
      /\ UNCHANGED <<start, end, lastSeen, todayMax, todayDate, summary, synced, shownMax, stored, paused>>
  BY DEF WaitIInv, Passes
<1>2. now \in Nat /\ MaxTime \in Nat
  BY <1>1, Numbers
<1>3. WaitTypeOK'
  BY <1>1, <1>2 DEF WaitTypeOK, Time
<1>4. CallsAreInOrder'
  BY <1>1, <1>2, Numbers DEF CallsAreInOrder, Never
<1>5. CallsGoOn
  BY <1>1, <1>2 DEF CallsGoOn
<1> QED BY <1>1, <1>3, <1>4, <1>5, SurroundingsKeep

LEMMA RestartKeeps == WaitIInv /\ Restart => WaitIInv'
<1> SUFFICES ASSUME WaitIInv, Restart PROVE WaitIInv'
  OBVIOUS
<1>1. /\ WaitTypeOK /\ CallsAreInOrder /\ DatesAreInOrder
      /\ lastSeen' = [c \in QueuedCall |-> Never] /\ todayMax' = 0 /\ todayDate' = -1 /\ synced' = -1 /\ shownMax' = 0
      /\ UNCHANGED <<now, start, end, summary, stored, paused>>
  BY DEF WaitIInv, Restart, Never
<1>2. now \in Nat /\ Day(now) \in Nat
  BY <1>1, Numbers
<1>3. lastSeen' \in [QueuedCall -> Time \cup {Never}] /\ \A c \in QueuedCall : lastSeen'[c] = -1
  BY <1>1 DEF Never
<1>4. WaitTypeOK'
  BY <1>1, <1>3 DEF WaitTypeOK, Never
<1>5. CallsAreInOrder'
  BY <1>1, <1>2, <1>3 DEF CallsAreInOrder, Never
<1>6. DatesAreInOrder'
  BY <1>1, <1>2 DEF DatesAreInOrder, Day
<1>7. ShownAtLeastSeen'
  BY <1>1 DEF WaitIInv, ShownAtLeastSeen, Never
<1>8. ASSUME ~paused, NEW d \in Days PROVE MaxIsActual(d, summary[d])'
  <2>1. MaxIsActual(d, summary[d])
    BY <1>8 DEF WaitIInv, ShownNotMuchMore
  <2> QED BY <1>1, <2>1 DEF MaxIsActual, RealWait, CallsOfDay
<1>9. ShownNotMuchMore'
  BY <1>1, <1>8 DEF ShownNotMuchMore, Never
<1> QED BY <1>4, <1>5, <1>6, <1>7, <1>9 DEF WaitIInv

-----------------------------------------------------------------------------
LEMMA PollKeeps ==
    ASSUME WaitIInv, NEW asOf \in Time, NEW report \in {"notDue", "failed", "readOnly", "stored"}, Poll(asOf, report)
    PROVE  WaitIInv'
<1> DEFINE reads == report \in {"stored", "readOnly"}
<1>1. PICK day : day = Day(now)
  OBVIOUS
<1>2. /\ WaitTypeOK /\ CallsAreInOrder /\ DatesAreInOrder /\ ShownAtLeastSeen /\ asOf \in now - Lag..now
      /\ todayDate' = day /\ UNCHANGED <<now, start, end>>
      /\ todayMax' = Greatest({IF reads THEN BestMax ELSE Carried} \cup Measured(asOf))
      /\ summary' = IF report = "stored" THEN [summary EXCEPT ![day] = BestMax] ELSE summary
      /\ lastSeen' = [c \in QueuedCall |-> IF c \in QueuedCalls(asOf) THEN now ELSE Never]
      /\ synced' = IF reads THEN day ELSE synced
      /\ shownMax' = Greatest(Measured(asOf) \cup IF todayDate = day THEN {shownMax} ELSE {})
      /\ stored' = [stored EXCEPT ![day] = Max({@, summary'[day]})]
      /\ paused' = (paused \/ \E c \in Gone(asOf) : now - lastSeen[c] > Gap)
  BY <1>1 DEF WaitIInv, Poll
<1>3. /\ now \in Nat /\ day \in Nat /\ day \in Days /\ todayMax \in Nat /\ shownMax \in Nat /\ summary[day] \in Nat
      /\ MaxTime \in Nat /\ Lag \in Nat /\ Gap \in Nat /\ now \in Time /\ asOf \in Nat
      /\ asOf <= now /\ now - Lag <= asOf /\ stored = summary
      /\ summary \in [Days -> Nat]
  BY <1>1, <1>2, Numbers DEF WaitTypeOK, Time, ShownAtLeastSeen
<1>4. PICK carried \in Nat, best \in Nat, measured \in SUBSET Int :
        /\ carried = Carried /\ best = BestMax /\ measured = Measured(asOf)
        /\ best \in {carried, summary[day]} /\ best >= carried /\ best >= summary[day]
        /\ carried = IF todayDate = day THEN todayMax ELSE 0
        /\ \A x \in measured : x <= MaxTime + 1
  <2>1. Carried \in Nat /\ Carried = IF todayDate = day THEN todayMax ELSE 0
    BY <1>1, <1>3 DEF Carried
  <2>2. BestMax \in {Carried, summary[day]} /\ BestMax >= Carried /\ BestMax >= summary[day]
    <3>1. /\ Carried \in Int /\ summary[day] \in Int
          /\ BestMax = Max({Carried, summary[day]})
      BY <1>1, <1>3, <2>1 DEF BestMax
    <3> QED BY <3>1, MaxOfTwo
  <2>3. BestMax \in Nat
    BY <1>3, <2>1, <2>2
  <2> QED BY <1>2, <2>1, <2>2, <2>3, MeasuredIsExplained
<1>5. PICK from \in Nat : from = (IF reads THEN best ELSE carried) /\ from >= carried
  BY <1>4
<1>6. /\ todayMax' \in Nat /\ todayMax' \in {from, 0} \cup measured /\ todayMax' >= from
      /\ \A x \in measured : x <= todayMax'
  <2> DEFINE waits == {from} \cup measured
  <2>1. waits \in SUBSET Int /\ \A x \in waits : x <= MaxTime + 1 + from
    BY <1>3, <1>4
  <2>2. MaxTime + 1 + from \in Nat
    BY <1>3
  <2>3. todayMax' = Greatest(waits)
    BY <1>2, <1>4, <1>5
  <2>4. /\ Greatest(waits) \in Nat /\ Greatest(waits) \in waits \cup {0}
        /\ \A x \in waits : x <= Greatest(waits)
    BY <2>1, <2>2, GreatestOfBounded
  <2> QED BY <2>3, <2>4
<1>7. /\ shownMax' \in Nat
      /\ shownMax' = 0 \/ shownMax' \in measured \/ (todayDate = day /\ shownMax' = shownMax)
  <2> DEFINE waits == measured \cup IF todayDate = day THEN {shownMax} ELSE {}
  <2>1. waits \in SUBSET Int /\ \A x \in waits : x <= MaxTime + 1 + shownMax
    BY <1>3, <1>4
  <2>2. MaxTime + 1 + shownMax \in Nat
    BY <1>3
  <2>3. shownMax' = Greatest(waits)
    BY <1>2, <1>4
  <2>4. Greatest(waits) \in Nat /\ Greatest(waits) \in waits \cup {0}
    BY <2>1, <2>2, GreatestOfBounded
  <2> QED BY <2>3, <2>4
<1>8. /\ summary' \in [Days -> Nat] /\ \A d \in Days \ {day} : summary'[d] = summary[d]
      /\ summary'[day] = IF report = "stored" THEN best ELSE summary[day]
  BY <1>2, <1>3, <1>4
<1>9. stored' = summary'
  <2>1. PICK before \in Nat, after \in Nat : before = summary[day] /\ after = summary'[day] /\ before <= after
    BY <1>3, <1>4, <1>8
  <2>2. Max({before, after}) = after
    BY <2>1, MaxOfTwo
  <2>3. stored' = [summary EXCEPT ![day] = after]
    BY <1>2, <1>3, <2>1, <2>2
  <2> QED BY <1>3, <1>8, <2>1, <2>3
<1>10. /\ lastSeen' \in [QueuedCall -> Time \cup {Never}]
       /\ \A c \in QueuedCall : lastSeen'[c] = -1 \/ (lastSeen'[c] = now /\ c \in QueuedCalls(asOf))
  BY <1>2, <1>3 DEF Never
<1>11. WaitTypeOK'
  <2>1. now' \in Time /\ {start', end', lastSeen'} \subseteq [QueuedCall -> Time \cup {Never}]
    BY <1>2, <1>3, <1>10 DEF WaitTypeOK
  <2>2. {todayDate', synced'} \subseteq Days \cup {Never}
    BY <1>2, <1>3 DEF WaitTypeOK
  <2>3. paused' \in BOOLEAN
    BY <1>2 DEF WaitTypeOK
  <2> QED BY <1>6, <1>7, <1>8, <1>9, <2>1, <2>2, <2>3 DEF WaitTypeOK
<1>12. CallsAreInOrder'
  <2> SUFFICES ASSUME NEW c \in QueuedCall
               PROVE  /\ start[c] <= now /\ end[c] <= now /\ lastSeen'[c] <= now
                      /\ end[c] # -1 => start[c] # -1 /\ start[c] <= end[c]
                      /\ lastSeen'[c] # -1 => /\ start[c] # -1 /\ start[c] <= lastSeen'[c]
                                              /\ end[c] = -1 \/ end[c] >= lastSeen'[c] - Lag
    BY <1>2 DEF CallsAreInOrder, Never
  <2>1. CASE lastSeen'[c] = -1
    BY <1>2, <1>3, <2>1 DEF CallsAreInOrder, Never
  <2>2. CASE lastSeen'[c] = now /\ c \in QueuedCalls(asOf)
    <3>1. start[c] # -1 /\ start[c] <= asOf /\ (end[c] = -1 \/ asOf < end[c])
      BY <2>2 DEF QueuedCalls, Never
    <3>2. start[c] \in -1..MaxTime /\ end[c] \in -1..MaxTime
      BY <1>2, Numbers
    <3> QED BY <1>2, <1>3, <2>2, <3>1, <3>2 DEF CallsAreInOrder, Never
  <2> QED BY <1>10, <2>1, <2>2
<1>13. todayDate \in Days \cup {-1} /\ synced \in Days \cup {-1} /\ todayDate <= day /\ synced <= todayDate /\ Days \subseteq Nat
  BY <1>1, <1>2, Numbers DEF DatesAreInOrder
<1>14. DatesAreInOrder'
  <2>1. synced' <= todayDate' /\ todayDate' <= day
    BY <1>2, <1>3, <1>13
  <2>2. \A d \in Days : d > day => summary'[d] = 0
    BY <1>1, <1>2, <1>3, <1>8, <1>13 DEF DatesAreInOrder
  <2> QED BY <1>1, <1>2, <2>1, <2>2 DEF DatesAreInOrder, Day
<1>15. ShownAtLeastSeen'
  <2>1. todayMax' >= shownMax'
    <3>1. todayDate = day => todayMax' >= shownMax
      BY <1>2, <1>3, <1>4, <1>5, <1>6 DEF ShownAtLeastSeen
    <3> QED BY <1>6, <1>7, <3>1
  <2>2. ASSUME synced' = day PROVE todayMax' >= summary'[day]
    <3>1. CASE reads
      BY <1>3, <1>4, <1>5, <1>6, <1>8, <3>1
    <3>2. CASE ~reads
      <4>1. synced = day /\ todayDate = day /\ summary'[day] = summary[day]
        BY <1>2, <1>3, <1>8, <1>13, <2>2, <3>2
      <4>2. todayMax >= summary[day] /\ from >= todayMax
        BY <1>2, <1>3, <1>4, <1>5, <4>1 DEF ShownAtLeastSeen, Never
      <4> QED BY <1>3, <1>6, <4>1, <4>2
    <3> QED BY <3>1, <3>2
  <2> QED BY <1>2, <1>9, <2>1, <2>2 DEF ShownAtLeastSeen
<1>16. ASSUME ~paused' PROVE MaxIsActual(day, todayMax') /\ \A d \in Days : MaxIsActual(d, summary'[d])
  <2>1. ~paused /\ \A c \in Gone(asOf) : ~(now - lastSeen[c] > Gap)
    BY <1>2, <1>16
  <2>2. \A c \in Gone(asOf) : now - lastSeen[c] <= Gap
    <3>1. \A c \in Gone(asOf) : lastSeen[c] \in -1..MaxTime
      BY <1>2, Numbers DEF Gone
    <3> QED BY <1>3, <2>1, <3>1
  <2>3. \A x \in measured : x = 0 \/ \E c \in QueuedCall : Explains(c, day, x)
    BY <1>1, <1>2, <1>4, <2>2, MeasuredIsExplained
  <2>4. /\ todayDate = day => MaxIsActual(day, todayMax)
        /\ \A d \in Days : MaxIsActual(d, summary[d])
    BY <1>3, <2>1 DEF WaitIInv, ShownNotMuchMore, Never
  <2>5. MaxIsActual(day, carried) /\ MaxIsActual(day, best)
    <3>1. MaxIsActual(day, 0)
      BY DEF MaxIsActual
    <3>2. MaxIsActual(day, carried)
      BY <1>4, <2>4, <3>1
    <3> QED BY <1>3, <1>4, <2>4, <3>2
  <2>6. MaxIsActual(day, todayMax')
    <3>1. PICK figure \in Nat : figure = todayMax'
      BY <1>6
    <3>2. CASE figure \in {from, 0}
      BY <1>5, <2>5, <3>1, <3>2 DEF MaxIsActual
    <3>3. CASE figure \in measured
      BY <1>2, <1>3, <2>3, <3>1, <3>3, ActualByExplanation
    <3> QED BY <1>6, <3>1, <3>2, <3>3
  <2>7. \A d \in Days : MaxIsActual(d, summary'[d])
    BY <1>8, <2>4, <2>5
  <2> QED BY <2>6, <2>7
<1>17. ShownNotMuchMore'
  <2>1. ASSUME ~paused' PROVE MaxIsActual(day, todayMax)' /\ \A d \in Days : MaxIsActual(d, summary[d])'
    <3>1. MaxIsActual(day, todayMax') /\ \A d \in Days : MaxIsActual(d, summary'[d])
      BY <1>16, <2>1
    <3> QED BY <1>2, <3>1 DEF MaxIsActual, RealWait, CallsOfDay
  <2>2. todayDate' = day
    BY <1>2
  <2> QED BY <2>1, <2>2 DEF ShownNotMuchMore, MaxIsActual
<1> QED BY <1>11, <1>12, <1>14, <1>15, <1>17 DEF WaitIInv

LEMMA WaitStep == WaitIInv /\ [WaitNext]_waitVars => WaitIInv'
<1> SUFFICES ASSUME WaitIInv, [WaitNext]_waitVars PROVE WaitIInv'
  OBVIOUS
<1>1. CASE UNCHANGED waitVars
  <2>1. UNCHANGED <<now, start, end, lastSeen, todayMax, todayDate, summary, synced, shownMax, stored, paused>>
    BY <1>1 DEF waitVars
  <2>2. WaitTypeOK' /\ CallsAreInOrder' /\ CallsGoOn
    BY <2>1, Numbers DEF WaitIInv, WaitTypeOK, CallsAreInOrder, CallsGoOn
  <2> QED BY <2>1, <2>2, SurroundingsKeep
<1> QED BY <1>1, PollKeeps, CallsComeAndGo, TimePasses, RestartKeeps DEF WaitNext

(* The types of WaitFigures: its times, dates and maxima.                     *)
THEOREM WaitTypeCorrect == WaitSpec => []WaitTypeOK
<1>1. WaitIInv => WaitTypeOK
  BY DEF WaitIInv
<1> QED BY WaitInitIInv, WaitStep, <1>1, PTL DEF WaitSpec

(* ShownAtLeastSeen of WaitFigures, for any calls, length of the day and     *)
(* delays: the maximum that is shown is no less than any wait it was shown   *)
(* for today, nor than what was ever stored for today once it has synced.    *)
THEOREM MaxIsNoLess == WaitSpec => []ShownAtLeastSeen
<1>1. WaitIInv => ShownAtLeastSeen
  BY DEF WaitIInv
<1> QED BY WaitInitIInv, WaitStep, <1>1, PTL DEF WaitSpec

(* ShownNotMuchMore of WaitFigures, likewise: it, and what is stored, exceeds *)
(* a wait of the day by no more than half a gap between polls and the lag.   *)
THEOREM MaxIsNotMuchMore == WaitSpec => []ShownNotMuchMore
<1>1. WaitIInv => ShownNotMuchMore
  BY DEF WaitIInv
<1> QED BY WaitInitIInv, WaitStep, <1>1, PTL DEF WaitSpec

-----------------------------------------------------------------------------
(***************************************************************************)
(* WaitWindow: the same of the longest wait of the last hour.              *)
(***************************************************************************)

Observation == [ts : Nat, wait : Nat]

WindowTypes ==
    /\ clock \in Nat
    /\ everFound \subseteq Observation
    /\ \E bound \in Nat : \A o \in everFound : o.wait <= bound
    /\ pruned \in Nat /\ pruned <= clock
    /\ snapshots \subseteq everFound /\ observations \subseteq InWindow(everFound, pruned)

(* Once the snapshots have been read, those of the window are observations.  *)
SnapshotsAreObserved ==
    seeded /\ ~seedFailed => InWindow(snapshots, clock) \subseteq observations

WindowIInv == WindowTypes /\ SnapshotsAreObserved /\ WindowPeakKept

LEMMA PeakOfSet ==
    ASSUME NEW S \in SUBSET Observation, NEW bound \in Nat, \A o \in S : o.wait <= bound
    PROVE  /\ Peak(S) \in {0} \cup {o.wait : o \in S}
           /\ Peak(S) \in Nat /\ \A o \in S : o.wait <= Peak(S)
<1> DEFINE waits == {o.wait : o \in S} \cup {0}
<1>1. waits \in SUBSET Nat /\ waits # {} /\ \A w \in waits : w <= bound
  BY DEF Observation
<1>2. \A o \in S : o.wait \in waits
  OBVIOUS
<1>3. Max(waits) \in waits /\ \A w \in waits : w <= Max(waits)
  BY <1>1, MaxOfBounded
<1> QED BY <1>1, <1>2, <1>3 DEF Peak

LEMMA PeakGrows ==
    ASSUME NEW S \in SUBSET Observation, NEW T \in SUBSET S, NEW bound \in Nat, \A o \in S : o.wait <= bound
    PROVE  Peak(S) >= Peak(T)
<1>1. Peak(S) \in Nat /\ \A o \in S : o.wait <= Peak(S)
  BY PeakOfSet
<1>2. Peak(T) \in {0} \cup {o.wait : o \in T} /\ Peak(T) \in Nat
  BY PeakOfSet
<1> QED BY <1>1, <1>2

LEMMA WindowInitIInv == WindowInit => WindowIInv
<1> SUFFICES ASSUME WindowInit PROVE WindowIInv
  OBVIOUS
<1>1. WindowTypes
  BY DEF WindowInit, WindowTypes
<1>2. SnapshotsAreObserved
  BY DEF WindowInit, SnapshotsAreObserved
<1>3. ~windowPeak.whole /\ windowPeak.peak = 0
  BY DEF WindowInit, NotShown
<1>4. WindowPeakKept
  BY <1>3 DEF WindowPeakKept
<1> QED BY <1>1, <1>2, <1>4 DEF WindowIInv

(* What both kinds of poll establish: with the observations, the history and *)
(* the snapshots as they leave them, the invariant holds again.              *)
LEMMA BeginningKeeps ==
    ASSUME WindowIInv, NEW reads \in BOOLEAN, PollBegins(reads), pruned' \in Nat, pruned' <= clock,
           everFound \subseteq everFound', everFound' \subseteq Observation,
           NEW bound \in Nat, \A o \in everFound' : o.wait <= bound,
           snapshots' \subseteq everFound',
           observations' \subseteq InWindow(everFound', pruned'),
           InWindow(snapshots', clock) \subseteq observations' \cup InWindow(snapshots, clock),
           InWindow(Kept(reads), clock) \subseteq observations',
           windowPeak' = Shown \/ UNCHANGED <<snapshots, windowPeak>>
    PROVE  WindowIInv'
<1>1. clock' = clock /\ clock \in Nat /\ seeded' /\ seedFailed' = IF SeedDue THEN ~reads ELSE seedFailed
  BY DEF PollBegins, WindowIInv, WindowTypes
<1>2. WindowTypes'
  BY <1>1 DEF WindowTypes, InWindow
<1>3. ASSUME ~seedFailed' PROVE InWindow(snapshots', clock) \subseteq observations'
  <2>1. InWindow(snapshots, clock) \subseteq InWindow(Kept(reads), clock)
    <3>1. CASE SeedDue
      BY <1>1, <1>3, <3>1 DEF Kept, InWindow
    <3>2. CASE ~SeedDue
      BY <1>1, <1>3, <3>2 DEF Kept, SeedDue, WindowIInv, SnapshotsAreObserved, InWindow
    <3> QED BY <3>1, <3>2
  <2> QED BY <2>1
<1>4. SnapshotsAreObserved'
  BY <1>1, <1>3 DEF SnapshotsAreObserved
<1>5. WindowPeakKept'
  <2>1. CASE UNCHANGED <<snapshots, windowPeak>>
    BY <2>1 DEF WindowIInv, WindowPeakKept, InWindow
  <2>2. CASE windowPeak' = Shown
    <3>1. /\ windowPeak'.peak = Peak(observations') /\ windowPeak'.at = clock /\ windowPeak'.from = pruned'
          /\ windowPeak'.whole => ~seedFailed'
      BY <2>2 DEF Shown
    <3>2. observations' \subseteq Observation /\ \A o \in observations' : o.wait <= bound
      BY DEF InWindow
    <3>3. Peak(observations') \in {0} \cup {o.wait : o \in InWindow(everFound', pruned')}
      BY <3>2, PeakOfSet
    <3>4. ASSUME ~seedFailed' PROVE Peak(observations') >= Peak(InWindow(snapshots', clock))
      BY <1>3, <3>2, <3>4, PeakGrows
    <3> QED BY <3>1, <3>3, <3>4 DEF WindowPeakKept
  <2> QED BY <2>1, <2>2
<1> QED BY <1>2, <1>4, <1>5 DEF WindowIInv

LEMMA PollKeepsWindow ==
    ASSUME WindowIInv, NEW longest \in Wait, NEW left \in Wait, NEW reads \in BOOLEAN, NEW stores \in BOOLEAN,
           WindowPoll(longest, left, reads, stores)
    PROVE  WindowIInv'
<1> DEFINE found == Observed({longest, left})
<1>1. /\ clock \in Nat /\ Window \in Nat /\ longest \in Nat /\ left \in Nat /\ everFound \subseteq Observation
      /\ snapshots \subseteq everFound
  BY WaitWindowAssumption DEF WindowIInv, WindowTypes
<1>2. /\ found \subseteq Observation /\ (\A o \in found : o.ts = clock /\ o.wait \in {longest, left})
      /\ Observed({longest}) \subseteq found
  BY <1>1 DEF Observed, Observation
<1> HIDE DEF found
<1>3. /\ PollBegins(reads) /\ observations' = InWindow(Kept(reads) \cup found, clock)
      /\ everFound' = everFound \cup found /\ pruned' = clock
      /\ \/ snapshots' = snapshots \cup Observed({longest}) /\ windowPeak' = Shown
         \/ UNCHANGED <<snapshots, windowPeak>>
  BY DEF WindowPoll, found, Snapshot
<1>4. /\ snapshots' \subseteq snapshots \cup found /\ snapshots' \subseteq everFound'
      /\ everFound \subseteq everFound' /\ everFound' \subseteq Observation
  BY <1>1, <1>2, <1>3
<1>5. observations' \subseteq InWindow(everFound', pruned')
  BY <1>1, <1>3 DEF WindowIInv, WindowTypes, Kept, InWindow
<1>6. /\ InWindow(snapshots', clock) \subseteq observations' \cup InWindow(snapshots, clock)
      /\ InWindow(Kept(reads), clock) \subseteq observations'
  BY <1>3, <1>4 DEF InWindow
<1>7. PICK bound \in Nat : \A o \in everFound' : o.wait <= bound
  <2>1. PICK before \in Nat : \A o \in everFound : o.wait <= before
    BY DEF WindowIInv, WindowTypes
  <2>2. \A o \in everFound' : o.wait <= before + longest + left
    <3> SUFFICES ASSUME NEW o \in everFound' PROVE o.wait <= before + longest + left
      OBVIOUS
    <3>1. CASE o \in everFound
      BY <1>1, <2>1, <3>1 DEF Observation
    <3>2. CASE o \in found
      BY <1>1, <1>2, <3>2
    <3> QED BY <1>3, <3>1, <3>2
  <2>3. before + longest + left \in Nat
    BY <1>1
  <2> QED BY <2>2, <2>3
<1>8. /\ PollBegins(reads) /\ pruned' \in Nat /\ pruned' <= clock /\ everFound' \subseteq Observation
      /\ windowPeak' = Shown \/ UNCHANGED <<snapshots, windowPeak>>
  BY <1>1, <1>3, <1>4
<1> QED BY <1>4, <1>5, <1>6, <1>7, <1>8, BeginningKeeps

LEMMA PollWithoutQueueKeeps ==
    ASSUME WindowIInv, NEW reads \in BOOLEAN, NEW stores \in BOOLEAN, PollWithoutQueue(reads, stores)
    PROVE  WindowIInv'
<1>1. /\ PollBegins(reads) /\ observations' = Kept(reads) /\ everFound' = everFound /\ snapshots' = snapshots
      /\ pruned' = IF NewDay THEN clock ELSE pruned
      /\ windowPeak' = Shown \/ UNCHANGED <<snapshots, windowPeak>>
  BY DEF PollWithoutQueue
<1>2. /\ clock \in Nat /\ pruned \in Nat /\ pruned <= clock /\ Window \in Nat
      /\ everFound \subseteq Observation /\ snapshots \subseteq everFound
      /\ observations \subseteq InWindow(everFound, pruned)
  BY WaitWindowAssumption DEF WindowIInv, WindowTypes
<1>3. PICK bound \in Nat : \A o \in everFound' : o.wait <= bound
  BY <1>1 DEF WindowIInv, WindowTypes
<1>4. /\ InWindow(snapshots', clock) \subseteq observations' \cup InWindow(snapshots, clock)
      /\ InWindow(Kept(reads), clock) \subseteq observations'
  BY <1>1 DEF InWindow
<1>5. observations' \subseteq InWindow(everFound', pruned')
  <2>1. CASE NewDay
    BY <1>1, <1>2, <2>1 DEF Kept, InWindow
  <2>2. CASE ~NewDay
    <3>1. pruned' = pruned /\ observations' \subseteq observations \cup InWindow(snapshots, clock)
      BY <1>1, <2>2 DEF Kept
    <3>2. InWindow(snapshots, clock) \subseteq InWindow(everFound, pruned)
      BY <1>2 DEF InWindow, Observation
    <3> QED BY <1>1, <1>2, <3>1, <3>2
  <2> QED BY <2>1, <2>2
<1> QED BY <1>1, <1>2, <1>3, <1>4, <1>5, BeginningKeeps

LEMMA WindowStep == WindowIInv /\ [WindowNext]_windowVars => WindowIInv'
<1> SUFFICES ASSUME WindowIInv, [WindowNext]_windowVars PROVE WindowIInv'
  OBVIOUS
<1>1. CASE UNCHANGED windowVars
  BY <1>1 DEF windowVars, WindowIInv, WindowTypes, SnapshotsAreObserved, WindowPeakKept, InWindow
<1>2. CASE ClockTicks
  <2>1. clock' = clock + 1 /\ UNCHANGED <<observations, seeded, snapshots, windowPeak, pruned, everFound, seedFailed>>
    BY <1>2 DEF ClockTicks
  <2>2. WindowTypes'
    BY <2>1 DEF WindowIInv, WindowTypes, InWindow
  <2>3. InWindow(snapshots, clock') \subseteq InWindow(snapshots, clock)
    BY <2>1, WaitWindowAssumption DEF WindowIInv, WindowTypes, InWindow, Observation
  <2>4. SnapshotsAreObserved'
    BY <2>1, <2>3 DEF WindowIInv, SnapshotsAreObserved
  <2>5. WindowPeakKept'
    BY <2>1 DEF WindowIInv, WindowPeakKept, InWindow
  <2> QED BY <2>2, <2>4, <2>5 DEF WindowIInv
<1>3. CASE ProcessRestarts
  <2>1. /\ observations' = {} /\ ~seeded' /\ windowPeak' = NotShown
        /\ UNCHANGED <<clock, snapshots, pruned, everFound, seedFailed>>
        /\ ~NotShown.whole /\ NotShown.peak = 0
    BY <1>3 DEF ProcessRestarts, NotShown
  <2>2. WindowTypes'
    BY <2>1 DEF WindowIInv, WindowTypes, InWindow
  <2>3. SnapshotsAreObserved' /\ WindowPeakKept'
    BY <2>1 DEF SnapshotsAreObserved, WindowPeakKept
  <2> QED BY <2>2, <2>3 DEF WindowIInv
<1> QED BY <1>1, <1>2, <1>3, PollKeepsWindow, PollWithoutQueueKeeps DEF WindowNext

(* WindowPeakKept of WaitWindow, for any waits, window and length of the day *)
(* and however often the process restarts: the peak that is shown is no less *)
(* than any longest wait stored in the window, and is a wait found in it, or *)
(* in that of the last poll that found the queue, when the relay lacks it.   *)
THEOREM WindowShowsPeak == WindowSpec => []WindowPeakKept
<1>1. WindowIInv => WindowPeakKept
  BY DEF WindowIInv
<1> QED BY WindowInitIInv, WindowStep, <1>1, PTL DEF WindowSpec

-----------------------------------------------------------------------------
(***************************************************************************)
(* MonitorData: when all is quiet the wallboard shows what the phone system *)
(* has.  What is on its way is true, and so is what has arrived, up to that. *)
(***************************************************************************)

HasList(message) == message.agents # NoList

(* None of the messages on their way, from the k-th on, has a list, or has   *)
(* the queue at all.                                                         *)
NoListFrom(k)  == \A i \in k..Len(pushed) : ~HasList(pushed[i])
NothingFrom(k) == \A i \in k..Len(pushed) : LeftOut(pushed[i])

TrueAgents(agents) == agents = atPbx \/ (agents = NoList /\ atPbx = Empty)

DataTypes ==
    /\ atPbx \in Lists /\ answeredAtPbx \in 0..MaxAnswered /\ era \in 0..MaxEra
    /\ pushed \in Seq(Message) /\ Len(pushed) <= MaxPushed
    /\ response \in Message \cup {NoList} /\ since \in Nat
    /\ response # NoList => response.full
    /\ list \in Lists \cup {NoList}
    /\ answered \in Int /\ answered >= -1 /\ prevAnswered \in Int /\ prevAnswered >= -1
    /\ counted \in Nat /\ statsEra \in Nat /\ countedEra \in Nat

(* A count is not ahead of the phone system's, or of that of a later message. *)
Follows(e, count)  == e <= era /\ (e = era => count <= answeredAtPbx)
InOrder(m, n)      == m.era <= n.era /\ (m.era = n.era => m.answered <= n.answered)
PreviousUpTo(m)    == prevAnswered # -1 => countedEra <= m.era /\ (countedEra = m.era => prevAnswered <= m.answered)

CountsFollow ==
    /\ Follows(statsEra, answered)
    /\ answered # -1 => prevAnswered <= answered
    /\ response # NoList => Follows(response.era, response.answered)
    /\ \A i \in 1..Len(pushed) : Follows(pushed[i].era, pushed[i].answered)

(* The messages on their way come in order, and the last of them is true.    *)
PushedAreTrue ==
    /\ ~linked => pushed = <<>> /\ told = "no"
    /\ \A i \in 1..Len(pushed), j \in 1..Len(pushed) : i <= j => InOrder(pushed[i], pushed[j])
    /\ \A i \in 1..Len(pushed) :
          /\ NoListFrom(i + 1) => /\ HasList(pushed[i]) => pushed[i].agents = atPbx
                                  /\ LeftOut(pushed[i]) => atPbx = Empty
          /\ NothingFrom(i + 1) /\ ~LeftOut(pushed[i]) /\ pushed[i].era = era => pushed[i].answered = answeredAtPbx

(* So is the response, unless it comes out of order, before the pushes since. *)
ResponseIsTrue ==
    linked /\ ~late /\ response # NoList =>
        \A k \in 1..Len(pushed) + 1 : k + since = Len(pushed) + 1 =>
            /\ NoListFrom(k) => TrueAgents(response.agents)
            /\ NothingFrom(k) /\ response.era = era => response.answered = answeredAtPbx
            /\ \A i \in 1..Len(pushed) : IF i < k THEN InOrder(pushed[i], response)
                                                  ELSE InOrder(response, pushed[i])
            /\ ~freshConnection => PreviousUpTo(response)

(* The monitor is right about everything that is not on its way: the agents, *)
(* what it has been told, the sum of the events and the count it shows.      *)
ListIsRight == ~freshConnection /\ ~emptied /\ NoListFrom(1) => list \in {atPbx, NoList}

LoginIsHandled ==
    told \in {"pushed", "response"} /\ ~(told = "response" /\ response # NoList)
        /\ (\A i \in 1..Len(pushed) : ~pushed[i].full) =>
            /\ ~freshConnection
            /\ ~emptied /\ NoListFrom(1) => TrueAgents(list)

CountIsRight ==
    ~freshConnection /\ prevAnswered # -1 =>
        /\ Follows(countedEra, prevAnswered)
        /\ countedEra = era => counted = prevAnswered
        /\ \A i \in 1..Len(pushed) : PreviousUpTo(pushed[i])
        /\ NothingFrom(1) /\ (countedEra = era \/ (answered # -1 /\ statsEra = era)) => prevAnswered = answeredAtPbx

MonitorIsRight == linked /\ ~late => ListIsRight /\ LoginIsHandled /\ CountIsRight

DataIInv == DataTypes /\ CountsFollow /\ PushedAreTrue /\ ResponseIsTrue /\ MonitorIsRight

-----------------------------------------------------------------------------
LEMMA Appended ==
    ASSUME NEW S, NEW s \in Seq(S), NEW m \in S
    PROVE  /\ Append(s, m) \in Seq(S) /\ Len(Append(s, m)) = Len(s) + 1
           /\ \A i \in 1..Len(s) : Append(s, m)[i] = s[i]
           /\ Append(s, m)[Len(s) + 1] = m
  OBVIOUS

LEMMA Shortened ==
    ASSUME NEW S, NEW s \in Seq(S), s # <<>>
    PROVE  /\ Tail(s) \in Seq(S) /\ Len(s) \in Nat \ {0} /\ Len(Tail(s)) = Len(s) - 1
           /\ Head(s) = s[1] /\ s[1] \in S
           /\ \A i \in 1..Len(s) - 1 : Tail(s)[i] = s[i + 1]
  OBVIOUS

LEMMA Lengths ==
    DataIInv => /\ Len(pushed) \in Nat /\ MaxPushed \in Nat /\ MaxAnswered \in Nat /\ MaxEra \in Nat
                /\ era \in Nat /\ answeredAtPbx \in Nat
                /\ \A i \in 1..Len(pushed) : pushed[i] \in Message /\ pushed[i].answered \in Nat /\ pushed[i].era \in Nat
                /\ response # NoList => response \in Message /\ response.answered \in Nat /\ response.era \in Nat
<1> SUFFICES ASSUME DataIInv
             PROVE  /\ Len(pushed) \in Nat /\ MaxPushed \in Nat /\ MaxAnswered \in Nat /\ MaxEra \in Nat
                    /\ era \in Nat /\ answeredAtPbx \in Nat
                    /\ \A i \in 1..Len(pushed) : pushed[i] \in Message /\ pushed[i].answered \in Nat /\ pushed[i].era \in Nat
                    /\ response # NoList => response \in Message /\ response.answered \in Nat /\ response.era \in Nat
  OBVIOUS
<1>1. /\ pushed \in Seq(Message) /\ response \in Message \cup {NoList}
      /\ MaxAnswered \in Nat /\ MaxPushed \in Nat /\ MaxEra \in Nat
      /\ era \in 0..MaxEra /\ answeredAtPbx \in 0..MaxAnswered
  BY MonitorDataAssumption DEF DataIInv, DataTypes
<1>2. \A message \in Message : message.answered \in Nat /\ message.era \in Nat
  BY <1>1 DEF Message
<1>3. Len(pushed) \in Nat /\ \A i \in 1..Len(pushed) : pushed[i] \in Message
  BY <1>1
<1> QED BY <1>1, <1>2, <1>3

(* The count of the phone system goes up, or starts again.                   *)
LEMMA FollowsOn ==
    ASSUME DataIInv, era' \in Nat, answeredAtPbx' \in Nat, era <= era', era' = era => answeredAtPbx <= answeredAtPbx',
           NEW e \in Nat, NEW count \in Int, Follows(e, count)
    PROVE  e <= era' /\ (e = era' => count <= answeredAtPbx')
<1>1. era \in Nat /\ answeredAtPbx \in Nat
  BY Lengths
<1> QED BY <1>1 DEF Follows

LEMMA PlaceOf ==
    ASSUME NEW n \in Nat, NEW max \in Nat, n + 1 <= max, NEW k \in 1..n + 2, NEW before \in Nat, NEW after \in Nat,
           k + after = n + 2, after = before + 1 \/ (after = before /\ before > max)
    PROVE  after = before + 1 /\ k + before = n + 1 /\ k \in 1..n + 1
  OBVIOUS

(* A message is pushed that tells the truth; it may answer the login, and    *)
(* then so may a response.                                                   *)
LEMMA PushKeeps ==
    ASSUME DataIInv, linked, linked', NEW message \in Message, Len(pushed) < MaxPushed,
           pushed' = Append(pushed, message), UNCHANGED monitorVars,
           \/ response' = response /\ since' = IF response # NoList /\ since <= MaxPushed THEN since + 1 ELSE since
           \/ response' = message /\ since' = 0 /\ message.full,
           atPbx' \in Lists, answeredAtPbx' \in 0..MaxAnswered, era' \in 0..MaxEra,
           era <= era', era' = era => answeredAtPbx <= answeredAtPbx',
           message.answered = answeredAtPbx', message.era = era',
           HasList(message) => message.agents = atPbx',
           ~HasList(message) => atPbx' = atPbx,
           LeftOut(message) => atPbx' = Empty /\ answeredAtPbx' = answeredAtPbx /\ era' = era,
           told' = told \/ (told' = "pushed" /\ message.full)
    PROVE  DataIInv'
<1>1. PICK n \in Nat : n = Len(pushed)
  BY Lengths
<1>0. \A i \in 1..n + 1 : i \in 1..n \/ i = n + 1
  OBVIOUS
<1>2. /\ pushed' \in Seq(Message) /\ Len(pushed') = n + 1
      /\ (\A i \in 1..n : pushed'[i] = pushed[i]) /\ pushed'[n + 1] = message
  BY <1>1, Appended DEF DataIInv, DataTypes
<1>3. /\ MaxPushed \in Nat /\ n + 1 <= MaxPushed /\ since \in Nat /\ since' \in Nat
      /\ message.answered \in Nat /\ message.era \in Nat
      /\ answeredAtPbx \in Nat /\ answeredAtPbx' \in Nat /\ era \in Nat /\ era' \in Nat
      /\ \A i \in 1..n : pushed[i].answered \in Nat /\ pushed[i].era \in Nat
      /\ response # NoList => response \in Message /\ response.answered \in Nat /\ response.era \in Nat
  BY <1>1, Lengths DEF DataIInv, DataTypes, Message
<1>4. /\ list' = list /\ answered' = answered /\ prevAnswered' = prevAnswered /\ counted' = counted
      /\ statsEra' = statsEra /\ countedEra' = countedEra
      /\ freshConnection' = freshConnection /\ late' = late /\ emptied' = emptied
      /\ answered \in Int /\ prevAnswered \in Int /\ statsEra \in Nat /\ countedEra \in Nat
  BY DEF monitorVars, statsVars, eventVars, DataIInv, DataTypes
<1>5. \A k \in 1..n + 1 : /\ NoListFrom(k)' => NoListFrom(k) /\ ~HasList(message)
                          /\ NothingFrom(k)' => NothingFrom(k) /\ LeftOut(message)
  <2> SUFFICES ASSUME NEW k \in 1..n + 1
               PROVE  /\ NoListFrom(k)' => NoListFrom(k) /\ ~HasList(message)
                      /\ NothingFrom(k)' => NothingFrom(k) /\ LeftOut(message)
    OBVIOUS
  <2>1. n + 1 \in k..n + 1 /\ \A i \in k..n : i \in k..n + 1 /\ i \in 1..n
    OBVIOUS
  <2> QED BY <1>1, <1>2, <2>1 DEF NoListFrom, NothingFrom, HasList, LeftOut
<1>6. DataTypes'
  BY <1>2, <1>3, <1>4 DEF DataIInv, DataTypes, monitorVars, statsVars, eventVars
<1>a. \A i \in 1..n : pushed[i].era <= era' /\ (pushed[i].era = era' => pushed[i].answered <= answeredAtPbx')
  BY <1>1, <1>3, FollowsOn DEF DataIInv, CountsFollow
<1>b. response # NoList => response.era <= era' /\ (response.era = era' => response.answered <= answeredAtPbx')
  BY <1>3, FollowsOn DEF DataIInv, CountsFollow
<1>7. CountsFollow'
  <2>1. \A i \in 1..n + 1 : Follows(pushed[i].era, pushed[i].answered)'
    <3> SUFFICES ASSUME NEW i \in 1..n + 1
                 PROVE  pushed'[i].era <= era' /\ (pushed'[i].era = era' => pushed'[i].answered <= answeredAtPbx')
      BY DEF Follows
    <3>1. CASE i \in 1..n
      BY <1>2, <1>a, <3>1
    <3>2. CASE i = n + 1
      BY <1>2, <1>3, <3>2
    <3> QED BY <1>0, <3>1, <3>2
  <2>2. response' # NoList => Follows(response.era, response.answered)'
    BY <1>3, <1>b DEF Follows
  <2>3. Follows(statsEra, answered)'
    <3>1. statsEra <= era' /\ (statsEra = era' => answered <= answeredAtPbx')
      BY <1>3, <1>4, FollowsOn DEF DataIInv, CountsFollow
    <3> QED BY <1>4, <3>1 DEF Follows
  <2>4. answered' # -1 => prevAnswered' <= answered'
    BY <1>4 DEF DataIInv, CountsFollow
  <2> QED BY <1>2, <2>1, <2>2, <2>3, <2>4 DEF CountsFollow
<1>8. PushedAreTrue'
  <2>1. ASSUME NEW i \in 1..n + 1, NEW j \in 1..n + 1, i <= j PROVE InOrder(pushed[i], pushed[j])'
    <3>1. CASE j \in 1..n
      <4>1. i \in 1..n /\ InOrder(pushed[i], pushed[j])
        BY <1>1, <2>1, <3>1 DEF DataIInv, PushedAreTrue
      <4> QED BY <1>2, <3>1, <4>1 DEF InOrder
    <3>2. CASE i \in 1..n /\ j = n + 1
      BY <1>2, <1>3, <1>a, <3>2 DEF InOrder
    <3>3. CASE i = n + 1 /\ j = n + 1
      BY <1>2, <1>3, <3>3 DEF InOrder
    <3> QED BY <1>0, <2>1, <3>1, <3>2, <3>3
  <2>2. ASSUME NEW i \in 1..n
        PROVE  /\ NoListFrom(i + 1)' => /\ HasList(pushed[i]) => pushed[i].agents = atPbx'
                                        /\ LeftOut(pushed[i]) => atPbx' = Empty
               /\ NothingFrom(i + 1)' /\ ~LeftOut(pushed[i]) /\ pushed[i].era = era' => pushed[i].answered = answeredAtPbx'
    <3>1. i + 1 \in 1..n + 1
      OBVIOUS
    <3> QED BY <1>1, <1>5, <3>1 DEF DataIInv, PushedAreTrue
  <2>3. /\ HasList(message) => message.agents = atPbx'
        /\ LeftOut(message) => atPbx' = Empty
        /\ message.answered = answeredAtPbx'
    OBVIOUS
  <2>4. ASSUME NEW i \in 1..n + 1
        PROVE  /\ NoListFrom(i + 1)' => /\ HasList(pushed'[i]) => pushed'[i].agents = atPbx'
                                        /\ LeftOut(pushed'[i]) => atPbx' = Empty
               /\ NothingFrom(i + 1)' /\ ~LeftOut(pushed'[i]) /\ pushed'[i].era = era' => pushed'[i].answered = answeredAtPbx'
    <3>1. CASE i \in 1..n
      BY <1>2, <2>2, <3>1
    <3>2. CASE i = n + 1
      BY <1>2, <2>3, <3>2
    <3> QED BY <1>0, <3>1, <3>2
  <2> QED BY <1>2, <2>1, <2>4 DEF PushedAreTrue, HasList, LeftOut
<1>c. ~late /\ ~freshConnection => PreviousUpTo(message)
  <2> SUFFICES ASSUME ~late, ~freshConnection, prevAnswered # -1 PROVE PreviousUpTo(message)
    BY DEF PreviousUpTo
  <2>1. Follows(countedEra, prevAnswered)
    BY DEF DataIInv, MonitorIsRight, CountIsRight
  <2>2. countedEra <= era' /\ (countedEra = era' => prevAnswered <= answeredAtPbx')
    BY <1>3, <1>4, <2>1, FollowsOn
  <2> QED BY <2>2 DEF PreviousUpTo
<1>9. ResponseIsTrue'
  <2> SUFFICES ASSUME ~late, response' # NoList, NEW k \in 1..n + 2, k + since' = n + 2
               PROVE  /\ NoListFrom(k)' => TrueAgents(response.agents)'
                      /\ NothingFrom(k)' /\ response'.era = era' => response'.answered = answeredAtPbx'
                      /\ \A i \in 1..n + 1 : IF i < k THEN InOrder(pushed'[i], response')
                                                      ELSE InOrder(response', pushed'[i])
                      /\ ~freshConnection => PreviousUpTo(response')
    <3>1. Len(pushed') + 1 = n + 2
      BY <1>2
    <3> QED BY <1>2, <1>4, <3>1 DEF ResponseIsTrue, InOrder, PreviousUpTo
  <2>1. CASE response' = message /\ since' = 0 /\ message.full
    <3>1. TrueAgents(response.agents)'
      BY <2>1 DEF TrueAgents, HasList, LeftOut
    <3>2. \A i \in 1..n + 1 : i < k /\ InOrder(pushed'[i], message)
      <4>1. \A i \in 1..n + 1 : i < k /\ Follows(pushed[i].era, pushed[i].answered)'
        BY <1>2, <1>7, <2>1 DEF CountsFollow
      <4> QED BY <4>1 DEF Follows, InOrder
    <3> QED BY <1>c, <2>1, <3>1, <3>2
  <2>2. CASE response' = response /\ since' = IF response # NoList /\ since <= MaxPushed THEN since + 1 ELSE since
    <3>1. since' = since + 1 /\ k + since = n + 1 /\ k \in 1..n + 1
      <4>1. since' = since + 1 \/ (since' = since /\ since > MaxPushed)
        BY <1>3, <2>2
      <4>2. n \in Nat /\ MaxPushed \in Nat /\ since \in Nat /\ since' \in Nat /\ n + 1 <= MaxPushed
        BY <1>3
      <4>3. k \in 1..n + 2 /\ k + since' = n + 2
        OBVIOUS
      <4> QED BY <4>1, <4>2, <4>3, PlaceOf
    <3>2. /\ NoListFrom(k) => TrueAgents(response.agents)
          /\ NothingFrom(k) /\ response.era = era => response.answered = answeredAtPbx
          /\ \A i \in 1..n : IF i < k THEN InOrder(pushed[i], response)
                                      ELSE InOrder(response, pushed[i])
          /\ ~freshConnection => PreviousUpTo(response)
      BY <1>1, <2>2, <3>1 DEF DataIInv, ResponseIsTrue
    <3>3. NoListFrom(k)' => TrueAgents(response.agents)'
      BY <1>5, <2>2, <3>1, <3>2 DEF TrueAgents
    <3>4. NothingFrom(k)' /\ response'.era = era' => response'.answered = answeredAtPbx'
      BY <1>5, <2>2, <3>1, <3>2
    <3>5. InOrder(response, message)
      BY <1>b, <2>2 DEF InOrder
    <3>6. ASSUME NEW i \in 1..n + 1
          PROVE  IF i < k THEN InOrder(pushed'[i], response')
                          ELSE InOrder(response', pushed'[i])
      <4>1. CASE i \in 1..n
        BY <1>2, <2>2, <3>2, <4>1
      <4>2. CASE i = n + 1
        <5>1. ~(i < k)
          BY <3>1, <4>2
        <5> QED BY <1>2, <2>2, <3>5, <4>2, <5>1
      <4> QED BY <1>0, <4>1, <4>2
    <3> QED BY <2>2, <3>2, <3>3, <3>4, <3>6
  <2> QED BY <2>1, <2>2
<1>10. MonitorIsRight'
  <2> SUFFICES ASSUME ~late PROVE ListIsRight' /\ LoginIsHandled' /\ CountIsRight'
    BY <1>4 DEF MonitorIsRight
  <2>0. ListIsRight /\ LoginIsHandled /\ CountIsRight
    BY DEF DataIInv, MonitorIsRight
  <2>1. /\ NoListFrom(1)' => NoListFrom(1) /\ atPbx' = atPbx
        /\ NothingFrom(1)' => NothingFrom(1) /\ answeredAtPbx' = answeredAtPbx /\ era' = era
    BY <1>5
  <2>2. ListIsRight'
    BY <1>4, <2>0, <2>1 DEF ListIsRight
  <2>3. LoginIsHandled'
    <3> SUFFICES ASSUME told' \in {"pushed", "response"}, ~(told' = "response" /\ response' # NoList),
                        \A i \in 1..n + 1 : ~pushed'[i].full
                 PROVE  /\ ~freshConnection
                        /\ ~emptied /\ NoListFrom(1)' => TrueAgents(list)'
      BY <1>2, <1>4 DEF LoginIsHandled
    <3>1. ~message.full /\ \A i \in 1..n : ~pushed[i].full
      BY <1>2
    <3>2. told' = told /\ response' = response
      BY <3>1
    <3>3. ~freshConnection /\ (~emptied /\ NoListFrom(1) => TrueAgents(list))
      BY <1>1, <2>0, <3>1, <3>2 DEF LoginIsHandled
    <3> QED BY <1>4, <2>1, <3>3 DEF TrueAgents
  <2>4. CountIsRight'
    <3> SUFFICES ASSUME ~freshConnection, prevAnswered # -1
                 PROVE  /\ Follows(countedEra, prevAnswered)'
                        /\ countedEra = era' => counted = prevAnswered
                        /\ \A i \in 1..n + 1 : PreviousUpTo(pushed'[i])
                        /\ NothingFrom(1)' /\ (countedEra = era' \/ (answered # -1 /\ statsEra = era')) => prevAnswered = answeredAtPbx'
      BY <1>2, <1>4 DEF CountIsRight, PreviousUpTo
    <3>1. /\ Follows(countedEra, prevAnswered)
          /\ countedEra = era => counted = prevAnswered
          /\ \A i \in 1..n : PreviousUpTo(pushed[i])
          /\ NothingFrom(1) /\ (countedEra = era \/ (answered # -1 /\ statsEra = era)) => prevAnswered = answeredAtPbx
      BY <1>1, <2>0 DEF CountIsRight
    <3>2. countedEra <= era' /\ (countedEra = era' => prevAnswered <= answeredAtPbx' /\ countedEra = era)
      <4>1. countedEra <= era
        BY <3>1 DEF Follows
      <4> QED BY <1>3, <1>4, <3>1, <4>1, FollowsOn
    <3>3. \A i \in 1..n + 1 : PreviousUpTo(pushed'[i])
      <4> SUFFICES ASSUME NEW i \in 1..n + 1 PROVE PreviousUpTo(pushed'[i])
        OBVIOUS
      <4>1. CASE i \in 1..n
        BY <1>2, <3>1, <4>1
      <4>2. CASE i = n + 1
        BY <1>2, <1>c, <4>2
      <4> QED BY <1>0, <4>1, <4>2
    <3>4. Follows(countedEra, prevAnswered)'
      BY <1>4, <3>2 DEF Follows
    <3> QED BY <2>1, <3>1, <3>2, <3>3, <3>4
  <2> QED BY <2>2, <2>3, <2>4
<1> QED BY <1>6, <1>7, <1>8, <1>9, <1>10 DEF DataIInv

-----------------------------------------------------------------------------
(* What handling a message does, to the counts ...                           *)
LEMMA StatsMerged ==
    ASSUME DataIInv, NEW message \in Message, MergeStats(message)
    PROVE  /\ answered' \in Int /\ answered' >= message.answered /\ answered' \in {answered, message.answered}
           /\ statsEra' \in Nat /\ statsEra' <= message.era
           /\ Follows(message.era, message.answered) => Follows(statsEra', answered')
<1>1. PICK count \in Nat, its \in Nat : count = message.answered /\ its = message.era
  BY MonitorDataAssumption DEF Message
<1>2. PICK rest \in Int : rest = Surviving /\ rest >= -1 /\ rest \in {-1, answered}
  BY DEF Surviving, DataIInv, DataTypes
<1>3. statsEra \in Nat /\ answered \in Int /\ answered >= -1 /\ era \in Nat /\ answeredAtPbx \in Nat
  BY Lengths DEF DataIInv, DataTypes
<1>4. /\ answered' = Max({rest, count})
      /\ statsEra' = IF rest = -1 THEN its ELSE Min({statsEra, its})
  BY <1>1, <1>2 DEF MergeStats
<1>5. Max({rest, count}) \in {rest, count} /\ Max({rest, count}) >= rest /\ Max({rest, count}) >= count
  BY MaxOfTwo
<1>6. Min({statsEra, its}) \in {statsEra, its} /\ Min({statsEra, its}) <= statsEra /\ Min({statsEra, its}) <= its
  BY <1>3, MinOfTwo
<1>7. /\ answered' \in Int /\ answered' >= count /\ answered' \in {answered, count}
      /\ statsEra' \in Nat /\ statsEra' <= its
  BY <1>1, <1>2, <1>3, <1>4, <1>5, <1>6
<1>8. ASSUME its <= era, its = era => count <= answeredAtPbx
      PROVE  statsEra' <= era /\ (statsEra' = era => answered' <= answeredAtPbx)
  <2>1. CASE rest = -1
    BY <1>1, <1>4, <1>5, <1>8, <2>1
  <2>2. CASE rest # -1
    <3>1. statsEra' <= statsEra /\ statsEra' <= its /\ answered' \in {answered, count}
      BY <1>4, <1>6, <1>7, <2>2
    <3>2. statsEra <= era /\ (statsEra = era => answered <= answeredAtPbx)
      BY DEF DataIInv, CountsFollow, Follows
    <3> QED BY <1>3, <1>7, <1>8, <3>1, <3>2
  <2> QED BY <2>1, <2>2
<1> QED BY <1>1, <1>7, <1>8 DEF Follows

(* ... to the events ...                                                     *)
LEMMA EventsDetected ==
    ASSUME DataIInv, NEW message \in Message, DetectEvents(message)
    PROVE  /\ prevAnswered' = message.answered
           /\ IF freshConnection \/ prevAnswered = -1
              THEN counted' = message.answered /\ countedEra' = message.era
              ELSE /\ countedEra' = countedEra /\ counted' \in Nat
                   /\ message.era = countedEra /\ prevAnswered <= message.answered
                        => counted' = counted + (message.answered - prevAnswered)
<1>1. prevAnswered \in Int /\ prevAnswered >= -1 /\ counted \in Nat /\ message.answered \in Nat
  BY MonitorDataAssumption DEF DataIInv, DataTypes, Message
<1>2. PICK previous \in Int : previous = (IF freshConnection THEN -1 ELSE prevAnswered)
  BY <1>1
<1>3. /\ prevAnswered' = message.answered
      /\ IF previous = -1
         THEN counted' = message.answered /\ countedEra' = message.era
         ELSE /\ counted' = IF message.era = countedEra THEN counted + Max({0, message.answered - previous}) ELSE counted
              /\ countedEra' = countedEra
  BY <1>2 DEF DetectEvents
<1>4. PICK gain \in Int : gain = message.answered - previous
  BY <1>1, <1>2
<1>5. Max({0, gain}) \in {0, gain} /\ Max({0, gain}) >= 0 /\ Max({0, gain}) >= gain
  BY MaxOfTwo
<1>6. PICK more \in Nat : more = Max({0, gain}) /\ (gain >= 0 => more = gain)
  BY <1>5
<1>7. ASSUME ~freshConnection, prevAnswered # -1
      PROVE  /\ countedEra' = countedEra /\ counted' \in Nat
             /\ message.era = countedEra /\ prevAnswered <= message.answered
                  => counted' = counted + (message.answered - prevAnswered)
  <2>1. /\ previous = prevAnswered /\ countedEra' = countedEra
        /\ counted' = IF message.era = countedEra THEN counted + more ELSE counted
    BY <1>2, <1>3, <1>4, <1>6, <1>7
  <2> QED BY <1>1, <1>4, <1>6, <2>1
<1>8. freshConnection \/ prevAnswered = -1 => counted' = message.answered /\ countedEra' = message.era
  BY <1>2, <1>3
<1> QED BY <1>3, <1>7, <1>8

(* ... and to everything.                                                    *)
LEMMA HandledWithout ==
    ASSUME DataIInv, NEW outdated, HandleWithoutQueue(outdated)
    PROVE  /\ ~freshConnection' /\ late' = outdated /\ list' \in Lists \cup {NoList}
           /\ emptied' = emptied /\ list' = IF freshConnection THEN NoList ELSE list
           /\ answered' \in {-1, answered}
           /\ prevAnswered' = IF freshConnection THEN -1 ELSE prevAnswered
           /\ statsEra' \in {0, statsEra} /\ (answered' # -1 => answered' = answered /\ statsEra' = statsEra)
           /\ counted' = counted /\ countedEra' = countedEra
<1> QED BY DEF HandleWithoutQueue, Surviving, DataIInv, DataTypes

LEMMA Handled ==
    ASSUME DataIInv, NEW message \in Message, NEW outdated, Handle(message, outdated)
    PROVE  /\ ~freshConnection' /\ late' = outdated /\ list' \in Lists \cup {NoList}
           /\ HasList(message) => emptied' \/ list' = message.agents
           /\ ~HasList(message) => emptied' = emptied /\ list' = IF freshConnection THEN NoList ELSE list
           /\ LeftOut(message) => HandleWithoutQueue(outdated)
           /\ ~LeftOut(message) => MergeStats(message) /\ DetectEvents(message)
<1>1. CASE LeftOut(message)
  <2>1. HandleWithoutQueue(outdated) /\ ~HasList(message)
    BY <1>1 DEF Handle, LeftOut, HasList
  <2> QED BY <1>1, <2>1, HandledWithout
<1>2. CASE ~LeftOut(message)
  <2>1. /\ list' = ListAfter(message) /\ freshConnection' = FALSE /\ late' = outdated
        /\ emptied' = (IF message.agents = NoList THEN emptied ELSE ~message.full /\ DOMAIN message.agents = {})
        /\ MergeStats(message) /\ DetectEvents(message)
    BY <1>2 DEF Handle, HandleWithQueue
  <2>2. message.full \in BOOLEAN /\ message.agents \in Lists \cup {NoList} /\ list \in Lists \cup {NoList}
    BY DEF DataIInv, DataTypes, Message
  <2>3. /\ list' \in Lists \cup {NoList}
        /\ HasList(message) => emptied' \/ list' = message.agents
        /\ ~HasList(message) => emptied' = emptied /\ list' = IF freshConnection THEN NoList ELSE list
    BY <2>1, <2>2 DEF ListAfter, HasList
  <2> QED BY <1>2, <2>1, <2>3
<1> QED BY <1>1, <1>2

(* What stays true of the monitor alone, in whatever order messages come.    *)
LEMMA HandledTypes ==
    ASSUME DataIInv, NEW message \in Message, NEW outdated, Handle(message, outdated),
           Follows(message.era, message.answered), UNCHANGED pbxVars
    PROVE  /\ answered' \in Int /\ answered' >= -1 /\ prevAnswered' \in Int /\ prevAnswered' >= -1
           /\ counted' \in Nat /\ statsEra' \in Nat /\ countedEra' \in Nat
           /\ Follows(statsEra, answered)'
           /\ answered' # -1 => prevAnswered' <= answered'
<1>1. /\ answered \in Int /\ answered >= -1 /\ prevAnswered \in Int /\ prevAnswered >= -1
      /\ counted \in Nat /\ statsEra \in Nat /\ countedEra \in Nat /\ answeredAtPbx \in Nat /\ era \in Nat
      /\ Follows(statsEra, answered) /\ (answered # -1 => prevAnswered <= answered)
      /\ answeredAtPbx' = answeredAtPbx /\ era' = era
  BY Lengths DEF DataIInv, DataTypes, CountsFollow, pbxVars
<1>2. message.answered \in Nat /\ message.era \in Nat
  BY MonitorDataAssumption DEF Message
<1>3. CASE LeftOut(message)
  <2>1. /\ answered' \in {-1, answered} /\ prevAnswered' = (IF freshConnection THEN -1 ELSE prevAnswered)
        /\ statsEra' \in {0, statsEra} /\ (answered' # -1 => answered' = answered /\ statsEra' = statsEra)
        /\ counted' = counted /\ countedEra' = countedEra
    BY <1>3, Handled, HandledWithout
  <2> QED BY <1>1, <2>1 DEF Follows
<1>4. CASE ~LeftOut(message)
  <2>1. MergeStats(message) /\ DetectEvents(message)
    BY <1>4, Handled
  <2>2. /\ answered' \in Int /\ answered' >= message.answered /\ statsEra' \in Nat
        /\ Follows(statsEra', answered')
    BY <2>1, StatsMerged
  <2>3. prevAnswered' = message.answered /\ counted' \in Nat /\ countedEra' \in Nat
    BY <1>1, <1>2, <2>1, EventsDetected
  <2> QED BY <1>1, <1>2, <2>2, <2>3 DEF Follows
<1> QED BY <1>3, <1>4

(* A message that is handled in order, before what is still on its way, and  *)
(* is as true as that.                                                       *)
LEMMA HandledInOrder ==
    ASSUME DataIInv, NEW message \in Message, NEW outdated, Handle(message, outdated),
           linked, linked', ~late, UNCHANGED pbxVars, UNCHANGED told,
           Follows(message.era, message.answered),
           NoListFrom(1)' => /\ HasList(message) => message.agents = atPbx
                             /\ LeftOut(message) => atPbx = Empty
                             /\ ~HasList(message) => NoListFrom(1),
           NothingFrom(1)' => IF LeftOut(message) THEN NothingFrom(1)
                              ELSE message.era = era => message.answered = answeredAtPbx,
           Len(pushed') \in Nat,
           \A i \in 1..Len(pushed') : /\ InOrder(message, pushed'[i]) /\ \E j \in 1..Len(pushed) : pushed'[i] = pushed[j]
                                      /\ pushed'[i].era \in Nat /\ pushed'[i].answered \in Nat,
           ~freshConnection => PreviousUpTo(message),
           ~(told = "response" /\ response' # NoList) /\ (\A i \in 1..Len(pushed') : ~pushed'[i].full) /\ ~message.full
              => ~(told = "response" /\ response # NoList) /\ \A i \in 1..Len(pushed) : ~pushed[i].full
    PROVE  MonitorIsRight'
<1>1. /\ ListIsRight /\ LoginIsHandled /\ CountIsRight
      /\ message.answered \in Nat /\ message.era \in Nat /\ answered \in Int /\ prevAnswered \in Int
      /\ countedEra \in Nat /\ statsEra \in Nat /\ era \in Nat /\ answeredAtPbx \in Nat
      /\ atPbx' = atPbx /\ answeredAtPbx' = answeredAtPbx /\ era' = era /\ told' = told
  BY Lengths, MonitorDataAssumption DEF DataIInv, DataTypes, Message, MonitorIsRight, pbxVars
<1>2. ~emptied' /\ NoListFrom(1)' => list' \in {atPbx, NoList}
  BY <1>1, Handled DEF ListIsRight
<1>3. ASSUME told \in {"pushed", "response"}, ~(told = "response" /\ response' # NoList),
             \A i \in 1..Len(pushed') : ~pushed'[i].full, ~emptied', NoListFrom(1)'
      PROVE  list' = atPbx \/ (list' = NoList /\ atPbx = Empty)
  <2>1. CASE HasList(message)
    BY <1>3, <2>1, Handled
  <2>2. CASE LeftOut(message)
    BY <1>1, <1>2, <1>3, <2>2, Handled DEF LeftOut, HasList
  <2>3. CASE ~HasList(message) /\ ~message.full
    <3>1. ~freshConnection /\ (~emptied /\ NoListFrom(1) => TrueAgents(list))
      BY <1>1, <1>3, <2>3 DEF LoginIsHandled
    <3> QED BY <1>3, <2>3, <3>1, Handled DEF TrueAgents
  <2> QED BY <2>1, <2>2, <2>3 DEF LeftOut, HasList
<1>4. ASSUME prevAnswered' # -1
      PROVE  /\ countedEra' <= era /\ (countedEra' = era => prevAnswered' <= answeredAtPbx /\ counted' = prevAnswered')
             /\ \A i \in 1..Len(pushed') : countedEra' <= pushed'[i].era
                                           /\ (countedEra' = pushed'[i].era => prevAnswered' <= pushed'[i].answered)
             /\ NothingFrom(1)' /\ (countedEra' = era \/ (answered' # -1 /\ statsEra' = era)) => prevAnswered' = answeredAtPbx
  <2>1. CASE LeftOut(message)
    <3>1. /\ ~freshConnection /\ prevAnswered' = prevAnswered
          /\ answered' # -1 => answered' = answered /\ statsEra' = statsEra
          /\ counted' = counted /\ countedEra' = countedEra
      BY <1>4, <2>1, Handled, HandledWithout
    <3>2. /\ Follows(countedEra, prevAnswered)
          /\ countedEra = era => counted = prevAnswered
          /\ \A i \in 1..Len(pushed) : PreviousUpTo(pushed[i])
          /\ NothingFrom(1) /\ (countedEra = era \/ (answered # -1 /\ statsEra = era)) => prevAnswered = answeredAtPbx
      BY <1>1, <1>4, <3>1 DEF CountIsRight
    <3>3. \A i \in 1..Len(pushed') : PreviousUpTo(pushed'[i])
      BY <3>2
    <3>4. NothingFrom(1)' => NothingFrom(1)
      BY <2>1
    <3> QED BY <1>4, <3>1, <3>2, <3>3, <3>4 DEF Follows, PreviousUpTo
  <2>2. CASE ~LeftOut(message)
    <3>1. prevAnswered' = message.answered /\ statsEra' <= message.era /\ statsEra' \in Nat
      BY <2>2, Handled, StatsMerged, EventsDetected
    <3>2. /\ countedEra' \in Nat /\ countedEra' <= message.era
          /\ countedEra' = era => counted' = message.answered
      <4>1. CASE freshConnection \/ prevAnswered = -1
        BY <1>1, <2>2, <4>1, Handled, EventsDetected
      <4>2. CASE ~freshConnection /\ prevAnswered # -1
        <5>1. /\ countedEra' = countedEra
              /\ message.era = countedEra /\ prevAnswered <= message.answered
                   => counted' = counted + (message.answered - prevAnswered)
          BY <2>2, <4>2, Handled, EventsDetected
        <5>2. countedEra <= message.era /\ (countedEra = message.era => prevAnswered <= message.answered)
          BY <4>2 DEF PreviousUpTo
        <5>3. ASSUME countedEra = era PROVE counted' = message.answered
          <6>1. counted = prevAnswered
            BY <1>1, <4>2, <5>3 DEF CountIsRight
          <6>2. message.era = era
            BY <1>1, <5>2, <5>3 DEF Follows
          <6> QED BY <1>1, <5>1, <5>2, <5>3, <6>1, <6>2
        <5> QED BY <1>1, <5>1, <5>2, <5>3
      <4> QED BY <4>1, <4>2
    <3>3. message.era <= era /\ (message.era = era => message.answered <= answeredAtPbx)
      BY DEF Follows
    <3>4. countedEra' <= era /\ (countedEra' = era => prevAnswered' <= answeredAtPbx /\ counted' = prevAnswered')
      BY <1>1, <3>1, <3>2, <3>3
    <3>5. \A i \in 1..Len(pushed') : countedEra' <= pushed'[i].era
                                     /\ (countedEra' = pushed'[i].era => prevAnswered' <= pushed'[i].answered)
      <4> SUFFICES ASSUME NEW i \in 1..Len(pushed')
                   PROVE  countedEra' <= pushed'[i].era
                          /\ (countedEra' = pushed'[i].era => prevAnswered' <= pushed'[i].answered)
        OBVIOUS
      <4>1. InOrder(message, pushed'[i]) /\ pushed'[i].era \in Nat
        OBVIOUS
      <4> QED BY <1>1, <3>1, <3>2, <4>1 DEF InOrder
    <3>6. NothingFrom(1)' /\ message.era = era => message.answered = answeredAtPbx
      BY <2>2
    <3>7. countedEra' = era \/ statsEra' = era => message.era = era
      BY <1>1, <3>1, <3>2, <3>3
    <3> QED BY <3>1, <3>4, <3>5, <3>6, <3>7
  <2> QED BY <2>1, <2>2
<1>5. ~freshConnection'
  BY Handled
<1>6. ListIsRight'
  BY <1>1, <1>2 DEF ListIsRight
<1>7. LoginIsHandled'
  BY <1>1, <1>3, <1>5 DEF LoginIsHandled, TrueAgents
<1>8. CountIsRight'
  BY <1>1, <1>4 DEF CountIsRight, Follows, PreviousUpTo
<1> QED BY <1>6, <1>7, <1>8 DEF MonitorIsRight

-----------------------------------------------------------------------------
LEMMA PushHandled == DataIInv /\ HandlePush => DataIInv'
<1> SUFFICES ASSUME DataIInv, HandlePush PROVE DataIInv'
  OBVIOUS
<1>1. /\ pushed # <<>> /\ Handle(Head(pushed), late) /\ pushed' = Tail(pushed)
      /\ UNCHANGED pbxVars /\ UNCHANGED <<atPbx, answeredAtPbx, era, linked, told, response, since>> /\ linked
  BY DEF HandlePush, pbxVars, DataIInv, PushedAreTrue
<1>2. PICK n \in Nat : n + 1 = Len(pushed)
  BY <1>1, Shortened DEF DataIInv, DataTypes
<1>3. PICK message \in Message : message = Head(pushed) /\ message = pushed[1]
  BY <1>1, Shortened DEF DataIInv, DataTypes
<1>4. pushed' \in Seq(Message) /\ Len(pushed') = n /\ \A i \in 1..n : pushed'[i] = pushed[i + 1]
  BY <1>1, <1>2, Shortened DEF DataIInv, DataTypes
<1>5. /\ Handle(message, late) /\ ~freshConnection' /\ late' = late /\ list' \in Lists \cup {NoList}
      /\ LeftOut(message) => prevAnswered' = (IF freshConnection THEN -1 ELSE prevAnswered)
                             /\ countedEra' = countedEra
      /\ ~LeftOut(message) => /\ prevAnswered' = message.answered
                              /\ countedEra' = IF freshConnection \/ prevAnswered = -1 THEN message.era ELSE countedEra
  BY <1>1, <1>3, Handled, HandledWithout, EventsDetected
<1>6. /\ message.answered \in Nat /\ message.era \in Nat /\ Follows(message.era, message.answered)
      /\ answeredAtPbx \in Nat /\ era \in Nat /\ MaxPushed \in Nat /\ n + 1 <= MaxPushed
      /\ \A i \in 1..n + 1 : Follows(pushed[i].era, pushed[i].answered) /\ pushed[i].era \in Nat /\ pushed[i].answered \in Nat
  BY <1>2, <1>3, Lengths DEF DataIInv, DataTypes, CountsFollow
<1>7. \A i \in 1..n : i + 1 \in 1..n + 1
  OBVIOUS
<1>8. \A k \in 1..n + 1 : /\ NoListFrom(k)' => NoListFrom(k + 1)
                          /\ NothingFrom(k)' => NothingFrom(k + 1)
  <2> SUFFICES ASSUME NEW k \in 1..n + 1
               PROVE  /\ NoListFrom(k)' => NoListFrom(k + 1)
                      /\ NothingFrom(k)' => NothingFrom(k + 1)
    OBVIOUS
  <2>1. ASSUME NEW i \in k + 1..n + 1 PROVE i - 1 \in k..n /\ pushed'[i - 1] = pushed[i]
    <3>1. i - 1 \in k..n /\ i - 1 \in 1..n /\ (i - 1) + 1 = i
      OBVIOUS
    <3> QED BY <1>4, <3>1
  <2>2. ASSUME NoListFrom(k)', NEW i \in k + 1..n + 1 PROVE ~HasList(pushed[i])
    BY <1>4, <2>1, <2>2 DEF NoListFrom, HasList
  <2>3. ASSUME NothingFrom(k)', NEW i \in k + 1..n + 1 PROVE LeftOut(pushed[i])
    BY <1>4, <2>1, <2>3 DEF NothingFrom, LeftOut
  <2> QED BY <1>2, <2>2, <2>3 DEF NoListFrom, NothingFrom
<1>t. /\ answered' \in Int /\ answered' >= -1 /\ prevAnswered' \in Int /\ prevAnswered' >= -1
      /\ counted' \in Nat /\ statsEra' \in Nat /\ countedEra' \in Nat
      /\ Follows(statsEra, answered)' /\ (answered' # -1 => prevAnswered' <= answered')
  BY <1>1, <1>5, <1>6, HandledTypes
<1>9. DataTypes'
  BY <1>1, <1>4, <1>5, <1>6, <1>t DEF DataIInv, DataTypes
<1>10. CountsFollow'
  <2>1. \A i \in 1..n : Follows(pushed'[i].era, pushed'[i].answered)
    BY <1>4, <1>6, <1>7
  <2> QED BY <1>1, <1>4, <1>t, <2>1 DEF DataIInv, CountsFollow, Follows
<1>11. PushedAreTrue'
  <2>1. ASSUME NEW i \in 1..n, NEW j \in 1..n, i <= j PROVE InOrder(pushed'[i], pushed'[j])
    <3>1. i + 1 \in 1..n + 1 /\ j + 1 \in 1..n + 1 /\ i + 1 <= j + 1
      BY <2>1
    <3>2. InOrder(pushed[i + 1], pushed[j + 1])
      BY <1>2, <3>1 DEF DataIInv, PushedAreTrue
    <3> QED BY <1>4, <3>2
  <2>2. ASSUME NEW i \in 1..n
        PROVE  /\ NoListFrom(i + 1)' => /\ HasList(pushed'[i]) => pushed'[i].agents = atPbx
                                        /\ LeftOut(pushed'[i]) => atPbx = Empty
               /\ NothingFrom(i + 1)' /\ ~LeftOut(pushed'[i]) /\ pushed'[i].era = era => pushed'[i].answered = answeredAtPbx
    <3>1. PICK j \in 1..n + 1 : j = i + 1
      BY <1>7
    <3>2. pushed'[i] = pushed[j]
      BY <1>4, <3>1
    <3>3. /\ NoListFrom(j + 1) => /\ HasList(pushed[j]) => pushed[j].agents = atPbx
                                  /\ LeftOut(pushed[j]) => atPbx = Empty
          /\ NothingFrom(j + 1) /\ ~LeftOut(pushed[j]) /\ pushed[j].era = era => pushed[j].answered = answeredAtPbx
      BY <1>2 DEF DataIInv, PushedAreTrue
    <3>4. (NoListFrom(j)' => NoListFrom(j + 1)) /\ (NothingFrom(j)' => NothingFrom(j + 1))
      BY <1>8
    <3> QED BY <3>1, <3>2, <3>3, <3>4
  <2> QED BY <1>1, <1>4, <2>1, <2>2 DEF PushedAreTrue, HasList, LeftOut, InOrder
<1>12. ResponseIsTrue'
  <2> SUFFICES ASSUME ~late, response # NoList, NEW k \in 1..n + 1, k + since = n + 1
               PROVE  /\ NoListFrom(k)' => TrueAgents(response.agents)
                      /\ NothingFrom(k)' /\ response.era = era => response.answered = answeredAtPbx
                      /\ \A i \in 1..n : IF i < k THEN InOrder(pushed'[i], response)
                                                  ELSE InOrder(response, pushed'[i])
                      /\ prevAnswered' # -1 => countedEra' <= response.era
                                               /\ (countedEra' = response.era => prevAnswered' <= response.answered)
    BY <1>1, <1>4, <1>5 DEF ResponseIsTrue, TrueAgents, InOrder, PreviousUpTo
  <2>0. response.answered \in Nat /\ response.era \in Nat
    BY Lengths
  <2>1. k + 1 \in 1..Len(pushed) + 1 /\ (k + 1) + since = Len(pushed) + 1
    BY <1>2 DEF DataIInv, DataTypes
  <2>2. /\ NoListFrom(k + 1) => TrueAgents(response.agents)
        /\ NothingFrom(k + 1) /\ response.era = era => response.answered = answeredAtPbx
        /\ \A i \in 1..n + 1 : IF i < k + 1 THEN InOrder(pushed[i], response)
                                            ELSE InOrder(response, pushed[i])
        /\ ~freshConnection => PreviousUpTo(response)
    BY <1>1, <1>2, <2>1 DEF DataIInv, ResponseIsTrue
  <2>3. ASSUME NEW i \in 1..n
        PROVE  IF i < k THEN InOrder(pushed'[i], response)
                        ELSE InOrder(response, pushed'[i])
    <3>1. i + 1 < k + 1 <=> i < k
      OBVIOUS
    <3> QED BY <1>4, <1>7, <2>2, <3>1
  <2>4. ASSUME prevAnswered' # -1
        PROVE  countedEra' <= response.era /\ (countedEra' = response.era => prevAnswered' <= response.answered)
    <3>1. 1 \in 1..n + 1 /\ 1 < k + 1
      OBVIOUS
    <3>2. InOrder(message, response)
      BY <1>3, <2>2, <3>1
    <3>3. CASE LeftOut(message)
      <4>1. ~freshConnection /\ prevAnswered' = prevAnswered /\ countedEra' = countedEra
        BY <1>5, <2>4, <3>3
      <4> QED BY <2>2, <2>4, <4>1 DEF PreviousUpTo
    <3>4. CASE ~LeftOut(message) /\ (freshConnection \/ prevAnswered = -1)
      BY <1>5, <3>2, <3>4 DEF InOrder
    <3>5. CASE ~LeftOut(message) /\ ~freshConnection /\ prevAnswered # -1
      <4>1. prevAnswered' = message.answered /\ countedEra' = countedEra
        BY <1>5, <3>5
      <4>2. 1 \in 1..Len(pushed) /\ PreviousUpTo(pushed[1])
        BY <1>1, <1>2, <3>5 DEF DataIInv, MonitorIsRight, CountIsRight
      <4>3. countedEra <= message.era /\ message.era <= response.era
            /\ (message.era = response.era => message.answered <= response.answered)
        BY <1>3, <3>2, <3>5, <4>2 DEF PreviousUpTo, InOrder
      <4>4. countedEra \in Nat
        BY DEF DataIInv, DataTypes
      <4> QED BY <1>6, <2>0, <4>1, <4>3, <4>4
    <3> QED BY <3>3, <3>4, <3>5
  <2> QED BY <1>8, <2>2, <2>3, <2>4
<1>13. MonitorIsRight'
  <2> SUFFICES ASSUME ~late PROVE MonitorIsRight'
    BY <1>5 DEF MonitorIsRight
  <2>1. 1 \in 1..Len(pushed) /\ 1 \in 1..n + 1
    BY <1>2
  <2>2. (NoListFrom(1)' => NoListFrom(2)) /\ (NothingFrom(1)' => NothingFrom(2))
    BY <1>8
  <2>3. \A i \in 1..n + 1 : i = 1 \/ i \in 2..n + 1
    OBVIOUS
  <2>4. /\ NoListFrom(2) /\ ~HasList(message) => NoListFrom(1)
        /\ NothingFrom(2) /\ LeftOut(message) => NothingFrom(1)
    BY <1>2, <1>3, <2>3 DEF NoListFrom, NothingFrom
  <2>5. /\ NoListFrom(2) => /\ HasList(message) => message.agents = atPbx
                            /\ LeftOut(message) => atPbx = Empty
        /\ NothingFrom(2) /\ ~LeftOut(message) /\ message.era = era => message.answered = answeredAtPbx
    BY <1>3, <2>1 DEF DataIInv, PushedAreTrue
  <2>6. \A i \in 1..n : /\ InOrder(message, pushed'[i]) /\ \E j \in 1..Len(pushed) : pushed'[i] = pushed[j]
                        /\ pushed'[i].era \in Nat /\ pushed'[i].answered \in Nat
    <3> SUFFICES ASSUME NEW i \in 1..n
                 PROVE  /\ InOrder(message, pushed'[i]) /\ \E j \in 1..Len(pushed) : pushed'[i] = pushed[j]
                        /\ pushed'[i].era \in Nat /\ pushed'[i].answered \in Nat
      OBVIOUS
    <3>1. i + 1 \in 1..Len(pushed) /\ 1 <= i + 1 /\ pushed'[i] = pushed[i + 1]
      BY <1>2, <1>4
    <3>2. InOrder(pushed[1], pushed[i + 1])
      BY <2>1, <3>1 DEF DataIInv, PushedAreTrue
    <3> QED BY <1>2, <1>3, <1>6, <3>1, <3>2
  <2>7. ~freshConnection => PreviousUpTo(message)
    BY <1>1, <1>3, <2>1 DEF DataIInv, MonitorIsRight, CountIsRight, PreviousUpTo
  <2>8. (\A i \in 1..n : ~pushed'[i].full) /\ ~message.full => \A i \in 1..n + 1 : ~pushed[i].full
    <3> SUFFICES ASSUME \A i \in 1..n : ~pushed'[i].full, ~message.full, NEW i \in 2..n + 1 PROVE ~pushed[i].full
      BY <1>3, <2>3
    <3>1. i - 1 \in 1..n /\ (i - 1) + 1 = i
      OBVIOUS
    <3> QED BY <1>4, <3>1
  <2>9. /\ Handle(message, late) /\ linked /\ linked' /\ UNCHANGED told /\ UNCHANGED pbxVars
        /\ response' = response /\ Len(pushed') \in Nat
    BY <1>1, <1>3, <1>4
  <2>10. NoListFrom(1)' => /\ HasList(message) => message.agents = atPbx
                           /\ LeftOut(message) => atPbx = Empty
                           /\ ~HasList(message) => NoListFrom(1)
    BY <2>2, <2>4, <2>5
  <2>11. NothingFrom(1)' => IF LeftOut(message) THEN NothingFrom(1)
                            ELSE message.era = era => message.answered = answeredAtPbx
    BY <2>2, <2>4, <2>5
  <2>12. \A i \in 1..Len(pushed') : /\ InOrder(message, pushed'[i]) /\ \E j \in 1..Len(pushed) : pushed'[i] = pushed[j]
                                    /\ pushed'[i].era \in Nat /\ pushed'[i].answered \in Nat
    BY <1>4, <2>6
  <2>13. ~(told = "response" /\ response' # NoList) /\ (\A i \in 1..Len(pushed') : ~pushed'[i].full) /\ ~message.full
            => ~(told = "response" /\ response # NoList) /\ \A i \in 1..Len(pushed) : ~pushed[i].full
    <3>1. Len(pushed') = n /\ Len(pushed) = n + 1
      BY <1>2, <1>4
    <3>2. ASSUME ~(told = "response" /\ response' # NoList), \A i \in 1..Len(pushed') : ~pushed'[i].full, ~message.full
          PROVE  ~(told = "response" /\ response # NoList) /\ \A i \in 1..Len(pushed) : ~pushed[i].full
      <4>1. \A i \in 1..n : ~pushed'[i].full
        BY <3>1, <3>2
      <4>2. \A i \in 1..n + 1 : ~pushed[i].full
        BY <2>8, <3>2, <4>1
      <4> QED BY <2>9, <3>1, <3>2, <4>2
    <3> QED BY <3>2
  <2> QED BY <1>6, <2>7, <2>9, <2>10, <2>11, <2>12, <2>13, HandledInOrder
<1> QED BY <1>9, <1>10, <1>11, <1>12, <1>13 DEF DataIInv

LEMMA ResponseHandled == DataIInv /\ HandleResponse => DataIInv'
<1> SUFFICES ASSUME DataIInv, HandleResponse PROVE DataIInv'
  OBVIOUS
<1>1. PICK outdated : outdated = (late \/ since # Len(pushed))
  OBVIOUS
<1>2. PICK message \in Message : message = response /\ message.full /\ response # NoList
  BY DEF HandleResponse, DataIInv, DataTypes
<1>3. /\ Handle(message, outdated) /\ response' = NoList /\ since' = 0 /\ UNCHANGED pbxVars
      /\ UNCHANGED <<atPbx, answeredAtPbx, era, linked, told, pushed>>
  BY <1>1, <1>2 DEF HandleResponse, pbxVars
<1>4. ~freshConnection' /\ late' = outdated /\ list' \in Lists \cup {NoList}
  BY <1>3, Handled
<1>5. /\ Follows(message.era, message.answered) /\ Len(pushed) \in Nat
      /\ \A i \in 1..Len(pushed) : pushed[i].era \in Nat /\ pushed[i].answered \in Nat
  BY <1>2, Lengths DEF DataIInv, CountsFollow
<1>t. /\ answered' \in Int /\ answered' >= -1 /\ prevAnswered' \in Int /\ prevAnswered' >= -1
      /\ counted' \in Nat /\ statsEra' \in Nat /\ countedEra' \in Nat
      /\ Follows(statsEra, answered)' /\ (answered' # -1 => prevAnswered' <= answered')
  BY <1>3, <1>5, HandledTypes
<1>6. DataTypes'
  BY <1>3, <1>4, <1>t DEF DataIInv, DataTypes
<1>7. CountsFollow'
  BY <1>3, <1>t DEF DataIInv, CountsFollow, Follows
<1>8. PushedAreTrue' /\ ResponseIsTrue'
  BY <1>3 DEF DataIInv, PushedAreTrue, ResponseIsTrue, NoListFrom, NothingFrom, InOrder
<1>9. MonitorIsRight'
  <2> SUFFICES ASSUME ~outdated, linked PROVE MonitorIsRight'
    BY <1>3, <1>4 DEF MonitorIsRight
  <2>1. ~late /\ 1 \in 1..Len(pushed) + 1 /\ 1 + since = Len(pushed) + 1
    <3>1. ~(late \/ since # Len(pushed))
      BY <1>1, Zenon
    <3> QED BY <1>5, <3>1
  <2>2. /\ NoListFrom(1) => TrueAgents(message.agents)
        /\ NothingFrom(1) /\ message.era = era => message.answered = answeredAtPbx
        /\ \A i \in 1..Len(pushed) : IF i < 1 THEN InOrder(pushed[i], message)
                                              ELSE InOrder(message, pushed[i])
        /\ ~freshConnection => PreviousUpTo(message)
    BY <1>2, <2>1 DEF DataIInv, ResponseIsTrue
  <2>3. \A i \in 1..Len(pushed) : InOrder(message, pushed[i])
    <3>1. \A i \in 1..Len(pushed) : ~(i < 1)
      BY <1>5
    <3> QED BY <2>2, <3>1
  <2>4. (NoListFrom(1)' => NoListFrom(1)) /\ (NothingFrom(1)' => NothingFrom(1))
    BY <1>3 DEF NoListFrom, NothingFrom
  <2>5. NoListFrom(1)' => /\ HasList(message) => message.agents = atPbx
                          /\ LeftOut(message) => atPbx = Empty
                          /\ ~HasList(message) => NoListFrom(1)
    <3>1. atPbx # NoList
      BY MonitorDataAssumption DEF DataIInv, DataTypes
    <3> QED BY <2>2, <2>4, <3>1 DEF TrueAgents, HasList, LeftOut
  <2>6. NothingFrom(1)' => IF LeftOut(message) THEN NothingFrom(1)
                           ELSE message.era = era => message.answered = answeredAtPbx
    BY <2>2, <2>4
  <2>7. /\ Len(pushed') \in Nat
        /\ \A i \in 1..Len(pushed') : /\ InOrder(message, pushed'[i]) /\ \E j \in 1..Len(pushed) : pushed'[i] = pushed[j]
                                      /\ pushed'[i].era \in Nat /\ pushed'[i].answered \in Nat
    BY <1>3, <1>5, <2>3
  <2>8. linked /\ linked' /\ UNCHANGED told
    BY <1>3
  <2>9. ~(told = "response" /\ response' # NoList) /\ (\A i \in 1..Len(pushed') : ~pushed'[i].full) /\ ~message.full
           => ~(told = "response" /\ response # NoList) /\ \A i \in 1..Len(pushed) : ~pushed[i].full
    BY <1>2
  <2>10. ~freshConnection => PreviousUpTo(message)
    BY <2>2
  <2> QED BY <1>3, <1>5, <2>1, <2>5, <2>6, <2>7, <2>8, <2>9, <2>10, HandledInOrder
<1> QED BY <1>6, <1>7, <1>8, <1>9 DEF DataIInv

(* A message about other queues may only make the monitor forget.            *)
LEMMA OthersHandled == DataIInv /\ HandleOthers => DataIInv'
<1> SUFFICES ASSUME DataIInv, HandleOthers PROVE DataIInv'
  OBVIOUS
<1>1. /\ HandleWithoutQueue(late) /\ linked
      /\ UNCHANGED <<atPbx, answeredAtPbx, era, linked, told, pushed, response, since>>
  BY DEF HandleOthers, pbxVars
<1>2. /\ ~freshConnection' /\ late' = late /\ list' \in Lists \cup {NoList}
      /\ emptied' = emptied /\ list' = (IF freshConnection THEN NoList ELSE list)
      /\ answered' \in {-1, answered}
      /\ prevAnswered' = (IF freshConnection THEN -1 ELSE prevAnswered)
      /\ statsEra' \in {0, statsEra} /\ (answered' # -1 => answered' = answered /\ statsEra' = statsEra)
      /\ counted' = counted /\ countedEra' = countedEra
  BY <1>1, HandledWithout
<1>3. DataTypes'
  BY <1>1, <1>2 DEF DataIInv, DataTypes
<1>4. CountsFollow'
  <2>1. /\ answered \in Int /\ answered >= -1 /\ prevAnswered \in Int /\ era \in Nat /\ answeredAtPbx \in Nat
        /\ Follows(statsEra, answered) /\ (answered # -1 => prevAnswered <= answered)
    BY Lengths DEF DataIInv, DataTypes, CountsFollow
  <2>2. Follows(statsEra, answered)' /\ (answered' # -1 => prevAnswered' <= answered')
    BY <1>1, <1>2, <2>1 DEF Follows
  <2> QED BY <1>1, <2>2 DEF DataIInv, CountsFollow, Follows
<1>5. PushedAreTrue'
  BY <1>1 DEF DataIInv, PushedAreTrue, NoListFrom, NothingFrom, InOrder
<1>6. ResponseIsTrue'
  BY <1>1, <1>2 DEF DataIInv, ResponseIsTrue, NoListFrom, NothingFrom, InOrder, PreviousUpTo, TrueAgents
<1>7. MonitorIsRight'
  <2> SUFFICES ASSUME ~late PROVE ListIsRight' /\ LoginIsHandled' /\ CountIsRight'
    BY <1>2 DEF MonitorIsRight
  <2>1. ListIsRight /\ LoginIsHandled /\ CountIsRight
    BY <1>1 DEF DataIInv, MonitorIsRight
  <2>2. ListIsRight'
    BY <1>1, <1>2, <2>1 DEF ListIsRight, NoListFrom
  <2>3. LoginIsHandled'
    BY <1>1, <1>2, <2>1 DEF LoginIsHandled, NoListFrom, TrueAgents
  <2>4. CountIsRight'
    BY <1>1, <1>2, <2>1 DEF CountIsRight, NothingFrom, Follows, PreviousUpTo
  <2> QED BY <2>2, <2>3, <2>4
<1> QED BY <1>3, <1>4, <1>5, <1>6, <1>7 DEF DataIInv

-----------------------------------------------------------------------------
LEMMA DataInitIInv == DataInit => DataIInv
<1> SUFFICES ASSUME DataInit PROVE DataIInv
  OBVIOUS
<1>1. DataTypes
  BY MonitorDataAssumption DEF DataInit, DataTypes
<1>2. CountsFollow /\ PushedAreTrue /\ ResponseIsTrue /\ MonitorIsRight
  BY DEF DataInit, CountsFollow, Follows, PushedAreTrue, ResponseIsTrue, MonitorIsRight
<1> QED BY <1>1, <1>2 DEF DataIInv

(* The phone system changes and nobody is told, as there is no connection.   *)
LEMMA UnseenChange ==
    ASSUME DataIInv, ~linked, ~linked', UNCHANGED <<pushed, since, told, response, monitorVars>>,
           atPbx' \in Lists, answeredAtPbx' \in 0..MaxAnswered, era' \in 0..MaxEra,
           era <= era', era' = era => answeredAtPbx <= answeredAtPbx'
    PROVE  DataIInv'
<1>1. /\ list' = list /\ answered' = answered /\ prevAnswered' = prevAnswered /\ counted' = counted
      /\ statsEra' = statsEra /\ countedEra' = countedEra
      /\ pushed' = pushed /\ since' = since /\ response' = response
      /\ pushed = <<>> /\ Len(pushed) = 0 /\ told' = "no"
  BY DEF monitorVars, statsVars, eventVars, DataIInv, PushedAreTrue
<1>2. DataTypes'
  BY <1>1 DEF DataIInv, DataTypes
<1>3. CountsFollow'
  <2>1. /\ era' \in Nat /\ answeredAtPbx' \in Nat /\ answered \in Int /\ statsEra \in Nat
        /\ response # NoList => response.answered \in Nat /\ response.era \in Nat
    BY Lengths DEF DataIInv, DataTypes
  <2>2. statsEra <= era' /\ (statsEra = era' => answered <= answeredAtPbx')
    BY <2>1, FollowsOn DEF DataIInv, CountsFollow
  <2>3. response # NoList => response.era <= era' /\ (response.era = era' => response.answered <= answeredAtPbx')
    BY <2>1, FollowsOn DEF DataIInv, CountsFollow
  <2> QED BY <1>1, <2>2, <2>3 DEF DataIInv, CountsFollow, Follows
<1>4. PushedAreTrue' /\ ResponseIsTrue' /\ MonitorIsRight'
  BY <1>1 DEF PushedAreTrue, ResponseIsTrue, MonitorIsRight
<1> QED BY <1>2, <1>3, <1>4 DEF DataIInv

(* The count starts again, and the monitor is not told: what it has and what *)
(* is on its way is of an era before.                                        *)
LEMMA UntoldReset ==
    ASSUME DataIInv, UNCHANGED <<atPbx, linked, pushed, since, told, response, monitorVars>>,
           answeredAtPbx' \in 0..MaxAnswered, era' \in 0..MaxEra, era' = era + 1
    PROVE  DataIInv'
<1>1. /\ list' = list /\ answered' = answered /\ prevAnswered' = prevAnswered /\ counted' = counted
      /\ statsEra' = statsEra /\ countedEra' = countedEra
      /\ freshConnection' = freshConnection /\ late' = late /\ emptied' = emptied
      /\ atPbx' = atPbx /\ linked' = linked /\ told' = told
      /\ pushed' = pushed /\ since' = since /\ response' = response /\ era' = era + 1
  BY DEF monitorVars, statsVars, eventVars
<1>2. DataTypes'
  BY <1>1 DEF DataIInv, DataTypes
<1>3. /\ era \in Nat /\ statsEra \in Nat /\ countedEra \in Nat
      /\ response # NoList => response.era \in Nat
      /\ \A i \in 1..Len(pushed) : pushed[i].era \in Nat
  BY Lengths DEF DataIInv, DataTypes
<1>4. /\ statsEra <= era /\ (answered # -1 => prevAnswered <= answered)
      /\ response # NoList => response.era <= era
      /\ \A i \in 1..Len(pushed) : pushed[i].era <= era
  BY DEF DataIInv, CountsFollow, Follows
<1>5. /\ statsEra < era'
      /\ response # NoList => response.era < era'
      /\ \A i \in 1..Len(pushed) : pushed[i].era < era'
  BY <1>1, <1>3, <1>4
<1>6. CountsFollow'
  BY <1>1, <1>3, <1>4, <1>5 DEF CountsFollow, Follows
<1>7. PushedAreTrue'
  BY <1>1, <1>3, <1>5 DEF DataIInv, PushedAreTrue, NoListFrom, NothingFrom, InOrder
<1>8. ResponseIsTrue'
  BY <1>1, <1>3, <1>5 DEF DataIInv, ResponseIsTrue, NoListFrom, NothingFrom, InOrder, PreviousUpTo, TrueAgents
<1>9. MonitorIsRight'
  <2> SUFFICES ASSUME linked, ~late PROVE ListIsRight' /\ LoginIsHandled' /\ CountIsRight'
    BY <1>1 DEF MonitorIsRight
  <2>1. ListIsRight /\ LoginIsHandled /\ CountIsRight
    BY DEF DataIInv, MonitorIsRight
  <2>2. ListIsRight'
    BY <1>1, <2>1 DEF ListIsRight, NoListFrom
  <2>3. LoginIsHandled'
    BY <1>1, <2>1 DEF LoginIsHandled, NoListFrom, TrueAgents
  <2>4. ~freshConnection /\ prevAnswered # -1 => countedEra < era' /\ \A i \in 1..Len(pushed) : PreviousUpTo(pushed[i])
    BY <1>1, <1>3, <2>1 DEF CountIsRight, Follows
  <2>5. CountIsRight'
    BY <1>1, <1>3, <1>5, <2>4 DEF CountIsRight, Follows, PreviousUpTo
  <2> QED BY <2>2, <2>3, <2>5
<1> QED BY <1>2, <1>6, <1>7, <1>8, <1>9 DEF DataIInv

LEMMA PbxKeeps ==
    ASSUME DataIInv,
           \/ CallAnswered \/ (\E agents \in Lists : AgentsChange(agents))
           \/ \E tells \in BOOLEAN : CountStartsAgain(tells)
    PROVE  DataIInv'
<1> DEFINE Told(message) ==
        /\ Push(message) /\ UNCHANGED <<linked, told, response, monitorVars>>
        /\ atPbx' \in Lists /\ answeredAtPbx' \in 0..MaxAnswered /\ era' \in 0..MaxEra
        /\ era <= era' /\ (era' = era => answeredAtPbx <= answeredAtPbx')
        /\ message.answered = answeredAtPbx' /\ message.era = era' /\ ~message.full
        /\ HasList(message) => message.agents = atPbx'
        /\ ~HasList(message) => atPbx' = atPbx
<1>1. ASSUME NEW message \in Message, Told(message) PROVE DataIInv'
  <2>1. CASE linked
    <3>1. /\ Len(pushed) < MaxPushed /\ pushed' = Append(pushed, message)
          /\ since' = IF response # NoList /\ since <= MaxPushed THEN since + 1 ELSE since
          /\ linked' /\ UNCHANGED monitorVars /\ response' = response /\ told' = told /\ ~LeftOut(message)
      BY <1>1, <2>1 DEF Push, LeftOut
    <3> QED BY <1>1, <2>1, <3>1, PushKeeps
  <2>2. CASE ~linked
    <3>1. UNCHANGED <<pushed, since, told, response, monitorVars>> /\ ~linked'
      BY <1>1, <2>2 DEF Push
    <3> QED BY <1>1, <2>2, <3>1, UnseenChange
  <2> QED BY <2>1, <2>2
<1>2. answeredAtPbx \in 0..MaxAnswered /\ MaxAnswered \in Nat /\ atPbx \in Lists /\ era \in 0..MaxEra /\ MaxEra \in Nat
  BY Lengths DEF DataIInv, DataTypes
<1>3. CASE CallAnswered
  <2> DEFINE message == [Update(NoList) EXCEPT !.answered = answeredAtPbx + 1]
  <2>1. answeredAtPbx + 1 \in 0..MaxAnswered /\ answeredAtPbx <= answeredAtPbx + 1
    BY <1>2, <1>3 DEF CallAnswered
  <2>2. message \in Message /\ message.answered = answeredAtPbx + 1 /\ message.era = era /\ ~message.full /\ ~HasList(message)
    BY <1>2, <2>1 DEF Message, HasList, Update
  <2>3. Push(message) /\ answeredAtPbx' = answeredAtPbx + 1 /\ UNCHANGED <<atPbx, era, linked, told, response, monitorVars>>
    BY <1>3 DEF CallAnswered
  <2> HIDE DEF message
  <2>4. Told(message)
    BY <1>2, <2>1, <2>2, <2>3
  <2> QED BY <1>1, <2>2, <2>4
<1>4. ASSUME NEW agents \in Lists, AgentsChange(agents) PROVE DataIInv'
  <2> DEFINE message == Update(agents)
  <2>1. agents # NoList
    BY MonitorDataAssumption
  <2>2. /\ message \in Message /\ message.answered = answeredAtPbx /\ message.era = era /\ ~message.full
        /\ message.agents = agents /\ HasList(message)
    BY <1>2, <2>1 DEF Message, HasList, Update
  <2>3. Push(message) /\ atPbx' = agents /\ UNCHANGED <<answeredAtPbx, era, linked, told, response, monitorVars>>
    BY <1>4 DEF AgentsChange
  <2> HIDE DEF message
  <2>4. Told(message)
    BY <1>2, <2>2, <2>3
  <2> QED BY <1>1, <2>2, <2>4
<1>5. ASSUME NEW tells \in BOOLEAN, CountStartsAgain(tells) PROVE DataIInv'
  <2>1. /\ era' = era + 1 /\ era' \in 0..MaxEra /\ answeredAtPbx' = 0 /\ 0 \in 0..MaxAnswered /\ era <= era' /\ era' # era
        /\ UNCHANGED <<atPbx, linked, told, response, monitorVars>>
    BY <1>2, <1>5 DEF CountStartsAgain
  <2>2. CASE tells
    <3> DEFINE message == [Update(NoList) EXCEPT !.answered = 0, !.era = era + 1]
    <3>1. message \in Message /\ message.answered = 0 /\ message.era = era + 1 /\ ~message.full /\ ~HasList(message)
      BY <1>2, <2>1 DEF Message, HasList, Update
    <3>2. Push(message)
      BY <1>5, <2>2 DEF CountStartsAgain
    <3> HIDE DEF message
    <3>3. Told(message)
      BY <1>2, <2>1, <3>1, <3>2
    <3> QED BY <1>1, <3>1, <3>3
  <2>3. CASE ~tells
    <3>1. UNCHANGED <<pushed, since>>
      BY <1>5, <2>3 DEF CountStartsAgain
    <3>2. answeredAtPbx' \in 0..MaxAnswered /\ UNCHANGED <<atPbx, linked, pushed, since, told, response, monitorVars>>
      BY <2>1, <3>1
    <3> QED BY <2>1, <3>2, UntoldReset
  <2> QED BY <2>2, <2>3
<1> QED BY <1>3, <1>4, <1>5

LEMMA LoginKeeps ==
    ASSUME DataIInv, NEW agents \in Lists \cup {NoList}, NEW viaPush \in BOOLEAN, NEW viaResponse \in BOOLEAN,
           LoginAnswered(agents, viaPush, viaResponse)
    PROVE  DataIInv'
<1>1. PICK message \in Message : /\ message = Full(agents) /\ message.full /\ message.agents = agents
                                 /\ message.answered = answeredAtPbx /\ message.answered \in Nat
                                 /\ message.era = era /\ message.era \in Nat
  <2>1. answeredAtPbx \in 0..MaxAnswered /\ answeredAtPbx \in Nat /\ era \in 0..MaxEra /\ era \in Nat
    BY Lengths DEF DataIInv, DataTypes
  <2>2. /\ Full(agents) \in Message /\ Full(agents).full /\ Full(agents).agents = agents
        /\ Full(agents).answered = answeredAtPbx /\ Full(agents).era = era
    BY <2>1 DEF Message, Full
  <2> QED BY <2>1, <2>2
<1>2. /\ linked /\ linked' /\ atPbx' = atPbx /\ answeredAtPbx' = answeredAtPbx /\ era' = era /\ UNCHANGED monitorVars
      /\ TrueAgents(agents)
      /\ atPbx \in Lists /\ answeredAtPbx \in 0..MaxAnswered /\ answeredAtPbx <= answeredAtPbx
      /\ era \in 0..MaxEra /\ era <= era
  BY Lengths DEF LoginAnswered, pbxVars, TrueAgents, DataIInv, DataTypes
<1>3. /\ HasList(message) => message.agents = atPbx
      /\ LeftOut(message) => atPbx = Empty
      /\ ~HasList(message) => atPbx' = atPbx
  <2>1. atPbx # NoList
    BY <1>2, MonitorDataAssumption
  <2> QED BY <1>1, <1>2, <2>1 DEF TrueAgents, HasList, LeftOut
<1>4. CASE viaPush
  <2>1. /\ told' = "pushed" /\ Len(pushed) < MaxPushed /\ pushed' = Append(pushed, message)
        /\ \/ response' = response /\ since' = IF response # NoList /\ since <= MaxPushed THEN since + 1 ELSE since
           \/ response' = message /\ since' = 0 /\ message.full
    BY <1>1, <1>4 DEF LoginAnswered
  <2> QED BY <1>1, <1>2, <1>3, <1>4, <2>1, PushKeeps
<1>5. CASE ~viaPush
  <2>1. /\ told' = "response" /\ pushed' = pushed /\ response = NoList /\ response' = message /\ since' = 0 /\ told = "no"
    BY <1>1, <1>5 DEF LoginAnswered
  <2>2. /\ list' = list /\ answered' = answered /\ prevAnswered' = prevAnswered /\ counted' = counted
        /\ statsEra' = statsEra /\ countedEra' = countedEra
        /\ freshConnection' = freshConnection /\ late' = late /\ emptied' = emptied
    BY <1>2 DEF monitorVars, statsVars, eventVars
  <2>3. DataTypes'
    BY <1>1, <1>2, <2>1, <2>2 DEF DataIInv, DataTypes
  <2>4. CountsFollow'
    <3>1. Follows(message.era, message.answered)
      BY <1>1 DEF Follows
    <3> QED BY <1>2, <2>1, <2>2, <3>1 DEF DataIInv, CountsFollow, Follows
  <2>5. PushedAreTrue'
    BY <1>2, <2>1 DEF DataIInv, PushedAreTrue, NoListFrom, NothingFrom, InOrder
  <2>6. ResponseIsTrue'
    <3> SUFFICES ASSUME ~late, NEW k \in 1..Len(pushed) + 1, k = Len(pushed) + 1
                 PROVE  /\ TrueAgents(message.agents)
                        /\ message.answered = answeredAtPbx
                        /\ \A i \in 1..Len(pushed) : i < k /\ InOrder(pushed[i], message)
                        /\ ~freshConnection => PreviousUpTo(message)
      <4>1. \A k \in 1..Len(pushed) + 1 : k + 0 = Len(pushed) + 1 => k = Len(pushed) + 1
        BY Lengths
      <4> QED BY <1>2, <2>1, <2>2, <4>1 DEF ResponseIsTrue, TrueAgents, InOrder, PreviousUpTo
    <3>1. \A i \in 1..Len(pushed) : i < k
      BY Lengths
    <3>2. \A i \in 1..Len(pushed) : InOrder(pushed[i], message)
      BY <1>1 DEF DataIInv, CountsFollow, Follows, InOrder
    <3>3. ~freshConnection => PreviousUpTo(message)
      BY <1>1, <1>2 DEF DataIInv, MonitorIsRight, CountIsRight, Follows, PreviousUpTo
    <3> QED BY <1>1, <1>2, <3>1, <3>2, <3>3
  <2>7. MonitorIsRight'
    <3>1. message # NoList
      BY MonitorDataAssumption
    <3>2. NoListFrom(1)' => NoListFrom(1)
      BY <2>1 DEF NoListFrom
    <3>3. NothingFrom(1)' => NothingFrom(1)
      BY <2>1 DEF NothingFrom
    <3> SUFFICES ASSUME ~late PROVE ListIsRight' /\ LoginIsHandled' /\ CountIsRight'
      BY <2>2 DEF MonitorIsRight
    <3>4. ListIsRight /\ CountIsRight
      BY <1>2 DEF DataIInv, MonitorIsRight
    <3>5. ListIsRight'
      BY <1>2, <2>2, <3>2, <3>4 DEF ListIsRight
    <3>6. LoginIsHandled'
      BY <2>1, <3>1 DEF LoginIsHandled
    <3>7. CountIsRight'
      BY <1>2, <2>1, <2>2, <3>3, <3>4 DEF CountIsRight, Follows, PreviousUpTo
    <3> QED BY <3>5, <3>6, <3>7
  <2> QED BY <2>3, <2>4, <2>5, <2>6, <2>7 DEF DataIInv
<1> QED BY <1>4, <1>5

(* What happens that the proof does not look at.                             *)
LEMMA NothingSeen ==
    ASSUME DataIInv,
           UNCHANGED <<atPbx, answeredAtPbx, era, linked, told, pushed, response, list, answered, statsEra,
                       prevAnswered, counted, countedEra, freshConnection, since, late, emptied>>
    PROVE  DataIInv'
<1>1. DataTypes' /\ CountsFollow'
  BY DEF DataIInv, DataTypes, CountsFollow, Follows
<1>2. PushedAreTrue'
  BY DEF DataIInv, PushedAreTrue, NoListFrom, NothingFrom, InOrder
<1>3. ResponseIsTrue'
  BY DEF DataIInv, ResponseIsTrue, NoListFrom, NothingFrom, TrueAgents, InOrder, PreviousUpTo
<1>4. (ListIsRight => ListIsRight') /\ (LoginIsHandled => LoginIsHandled') /\ (CountIsRight => CountIsRight')
  BY DEF ListIsRight, LoginIsHandled, CountIsRight, NoListFrom, NothingFrom, TrueAgents, Follows, PreviousUpTo
<1>5. MonitorIsRight'
  BY <1>4 DEF DataIInv, MonitorIsRight
<1> QED BY <1>1, <1>2, <1>3, <1>5 DEF DataIInv

LEMMA ConnectionKeeps ==
    ASSUME DataIInv, ResponseLost \/ Disconnected \/ Connected \/ DayEnds
    PROVE  DataIInv'
<1>1. CASE ResponseLost
  <2>1. /\ response' = NoList /\ since' = 0 /\ told' = (IF told = "response" THEN "lost" ELSE told)
        /\ UNCHANGED <<atPbx, answeredAtPbx, era, linked, pushed, list, answered, statsEra, prevAnswered,
                       counted, countedEra, freshConnection, late, emptied>>
    BY <1>1 DEF ResponseLost, pbxVars, monitorVars, statsVars, eventVars
  <2>2. DataTypes' /\ CountsFollow'
    BY <2>1 DEF DataIInv, DataTypes, CountsFollow, Follows
  <2>3. PushedAreTrue' /\ ResponseIsTrue'
    BY <2>1 DEF DataIInv, PushedAreTrue, ResponseIsTrue, NoListFrom, NothingFrom, InOrder
  <2>4. MonitorIsRight'
    <3> SUFFICES ASSUME linked, ~late PROVE ListIsRight' /\ LoginIsHandled' /\ CountIsRight'
      BY <2>1 DEF MonitorIsRight
    <3>1. told' \in {"pushed", "response"} => told = told' /\ told = "pushed"
      BY <2>1
    <3>2. ListIsRight /\ LoginIsHandled /\ CountIsRight
      BY DEF DataIInv, MonitorIsRight
    <3>3. ListIsRight'
      BY <2>1, <3>2 DEF ListIsRight, NoListFrom
    <3>4. LoginIsHandled'
      BY <2>1, <3>1, <3>2 DEF LoginIsHandled, NoListFrom, TrueAgents
    <3>5. CountIsRight'
      BY <2>1, <3>2 DEF CountIsRight, NothingFrom, Follows, PreviousUpTo
    <3> QED BY <3>3, <3>4, <3>5
  <2> QED BY <2>2, <2>3, <2>4 DEF DataIInv
<1>2. CASE Disconnected
  <2>1. /\ ~linked' /\ told' = "no" /\ pushed' = <<>> /\ Len(pushed') = 0
        /\ UNCHANGED <<atPbx, answeredAtPbx, era, response, since, list, answered, statsEra, prevAnswered,
                       counted, countedEra>>
    BY <1>2 DEF Disconnected, pbxVars, monitorVars, statsVars, eventVars
  <2>2. DataTypes'
    BY <2>1, Lengths DEF DataIInv, DataTypes
  <2>3. CountsFollow'
    BY <2>1 DEF DataIInv, CountsFollow, Follows
  <2>4. PushedAreTrue' /\ ResponseIsTrue' /\ MonitorIsRight'
    BY <2>1 DEF PushedAreTrue, ResponseIsTrue, MonitorIsRight
  <2> QED BY <2>2, <2>3, <2>4 DEF DataIInv
<1>3. CASE Connected
  <2>1. /\ pushed' = <<>> /\ Len(pushed') = 0 /\ freshConnection' /\ (response # NoList => late') /\ told = "no"
        /\ since' = 0
        /\ UNCHANGED <<atPbx, answeredAtPbx, era, told, response, list, answered, statsEra, prevAnswered,
                       counted, countedEra>>
    BY <1>3 DEF Connected, pbxVars, statsVars, eventVars, DataIInv, PushedAreTrue
  <2>2. DataTypes'
    BY <2>1, Lengths DEF DataIInv, DataTypes
  <2>3. CountsFollow'
    BY <2>1 DEF DataIInv, CountsFollow, Follows
  <2>4. PushedAreTrue' /\ ResponseIsTrue'
    BY <2>1 DEF PushedAreTrue, ResponseIsTrue
  <2>5. MonitorIsRight'
    BY <2>1 DEF MonitorIsRight, ListIsRight, LoginIsHandled, CountIsRight
  <2> QED BY <2>2, <2>3, <2>4, <2>5 DEF DataIInv
<1>4. CASE DayEnds
  <2>1. UNCHANGED <<atPbx, answeredAtPbx, era, linked, told, pushed, response, list, answered, statsEra,
                    prevAnswered, counted, countedEra, freshConnection, since, late, emptied>>
    BY <1>4 DEF DayEnds, pbxVars, eventVars
  <2> QED BY <2>1, NothingSeen
<1> QED BY <1>1, <1>2, <1>3, <1>4

LEMMA DataStep == DataIInv /\ [DataNext]_dataVars => DataIInv'
<1> SUFFICES ASSUME DataIInv, [DataNext]_dataVars PROVE DataIInv'
  OBVIOUS
<1>1. CASE UNCHANGED dataVars
  <2>1. UNCHANGED <<atPbx, answeredAtPbx, era, linked, told, pushed, response, list, answered, statsEra,
                    prevAnswered, counted, countedEra, freshConnection, since, late, emptied>>
    BY <1>1 DEF dataVars
  <2> QED BY <2>1, NothingSeen
<1>2. CASE \/ CallAnswered \/ (\E agents \in Lists : AgentsChange(agents))
           \/ \E tells \in BOOLEAN : CountStartsAgain(tells)
  BY <1>2, PbxKeeps
<1>3. CASE \E agents \in Lists \cup {NoList}, viaPush, viaResponse \in BOOLEAN :
              LoginAnswered(agents, viaPush, viaResponse)
  BY <1>3, LoginKeeps
<1>4. CASE HandlePush \/ HandleOthers \/ HandleResponse
  BY <1>4, PushHandled, OthersHandled, ResponseHandled
<1>5. CASE ResponseLost \/ Disconnected \/ Connected \/ DayEnds
  BY <1>5, ConnectionKeeps
<1> QED BY <1>1, <1>2, <1>3, <1>4, <1>5 DEF DataNext

LEMMA QuietIsTrue == DataIInv => QuietMonitorIsTrue
<1> SUFFICES ASSUME DataIInv, Quiet, ~late
             PROVE  /\ ~emptied /\ atPbx # Empty =>
                          \A rest, anywhere \in SUBSET Member :
                             /\ ShownAgents(rest) = DOMAIN atPbx
                             /\ ShownSignedIn(rest, anywhere) = {m \in DOMAIN atPbx : atPbx[m]}
                    /\ ~emptied /\ atPbx = Empty => list \in {NoList, Empty}
                    /\ prevAnswered # -1 =>
                          /\ answered # -1 /\ statsEra = era => answered = answeredAtPbx
                          /\ countedEra = era => counted = answeredAtPbx
  BY DEF QuietMonitorIsTrue
<1>1. /\ linked /\ told \in {"pushed", "response"} /\ ~freshConnection /\ Len(pushed) = 0 /\ response = NoList
  BY DEF Quiet
<1>2. NoListFrom(1) /\ NothingFrom(1) /\ \A i \in 1..Len(pushed) : ~pushed[i].full
  BY <1>1 DEF NoListFrom, NothingFrom
<1>3. ~emptied => TrueAgents(list)
  BY <1>1, <1>2 DEF DataIInv, MonitorIsRight, LoginIsHandled
<1>4. ASSUME prevAnswered # -1
      PROVE  /\ answered # -1 /\ statsEra = era => answered = answeredAtPbx
             /\ countedEra = era => counted = answeredAtPbx
  <2>1. /\ countedEra = era => counted = prevAnswered
        /\ countedEra = era \/ (answered # -1 /\ statsEra = era) => prevAnswered = answeredAtPbx
    BY <1>1, <1>2, <1>4 DEF DataIInv, MonitorIsRight, CountIsRight
  <2>2. /\ answered # -1 => prevAnswered <= answered
        /\ statsEra = era => answered <= answeredAtPbx
    BY DEF DataIInv, CountsFollow, Follows
  <2>3. answered \in Int /\ answeredAtPbx \in Nat
    BY Lengths DEF DataIInv, DataTypes
  <2> QED BY <2>1, <2>2, <2>3
<1>6. ASSUME ~emptied, atPbx # Empty, NEW rest \in SUBSET Member, NEW anywhere \in SUBSET Member
      PROVE  /\ ShownAgents(rest) = DOMAIN atPbx
             /\ ShownSignedIn(rest, anywhere) = {m \in DOMAIN atPbx : atPbx[m]}
  <2>1. list = atPbx /\ list # NoList
    BY <1>3, <1>6, MonitorDataAssumption DEF TrueAgents, DataIInv, DataTypes
  <2>2. ShownAgents(rest) = DOMAIN atPbx
    BY <1>6, <2>1 DEF ShownAgents
  <2> QED BY <2>1, <2>2 DEF ShownSignedIn
<1> QED BY <1>3, <1>4, <1>6 DEF TrueAgents

LEMMA DataTypeStep == DataIInv /\ DataTypeOK /\ [DataNext]_dataVars => DataTypeOK'
<1> SUFFICES ASSUME DataIInv, DataTypeOK, [DataNext]_dataVars PROVE DataTypeOK'
  OBVIOUS
<1>1. DataTypes' /\ CountsFollow'
  BY DataStep DEF DataIInv
<1>2. MaxAnswered \in Nat /\ MaxPushed \in Nat /\ MaxEra \in Nat
  BY MonitorDataAssumption
<1> DEFINE Bounds ==
      /\ answered' \in -1..MaxAnswered /\ prevAnswered' \in -1..MaxAnswered
      /\ statsEra' \in 0..MaxEra /\ countedEra' \in 0..MaxEra
      /\ callStatsDate' \in {NoDate, "today", "before"}
<1>3. ASSUME NEW message \in Message, NEW outdated \in BOOLEAN, Handle(message, outdated) PROVE Bounds
  <2>1. /\ answered \in -1..MaxAnswered /\ prevAnswered \in -1..MaxAnswered /\ -1 \in -1..MaxAnswered
        /\ statsEra \in 0..MaxEra /\ countedEra \in 0..MaxEra
        /\ message.answered \in 0..MaxAnswered /\ message.era \in 0..MaxEra
    BY <1>2 DEF DataTypeOK, Message
  <2>2. callStatsDate' = "today"
    BY <1>3 DEF Handle, HandleWithoutQueue, HandleWithQueue
  <2>3. CASE LeftOut(message)
    BY <1>2, <1>3, <2>1, <2>2, <2>3, Handled, HandledWithout
  <2>4. CASE ~LeftOut(message)
    <3>1. /\ answered' \in {answered, message.answered} /\ statsEra' \in Nat /\ statsEra' <= message.era
          /\ prevAnswered' = message.answered /\ countedEra' \in {countedEra, message.era}
      BY <1>3, <2>4, Handled, StatsMerged, EventsDetected
    <3> QED BY <1>2, <2>1, <2>2, <3>1
  <2> QED BY <2>3, <2>4
<1>4. Bounds
  <2>1. CASE HandlePush
    <3>1. Head(pushed) \in Message /\ late \in BOOLEAN
      BY <2>1 DEF DataTypeOK, HandlePush
    <3> QED BY <1>3, <2>1, <3>1 DEF HandlePush
  <2>2. CASE HandleResponse
    <3>1. response \in Message /\ (late \/ since # Len(pushed)) \in BOOLEAN
      BY <2>2 DEF DataTypeOK, HandleResponse
    <3> QED BY <1>3, <2>2, <3>1 DEF HandleResponse
  <2>3. CASE HandleOthers
    <3>1. HandleWithoutQueue(late) /\ callStatsDate' = "today"
      BY <2>3 DEF HandleOthers, HandleWithoutQueue
    <3>2. /\ answered \in -1..MaxAnswered /\ prevAnswered \in -1..MaxAnswered /\ -1 \in -1..MaxAnswered
          /\ statsEra \in 0..MaxEra /\ countedEra \in 0..MaxEra
      BY <1>2 DEF DataTypeOK
    <3>3. /\ answered' \in {-1, answered} /\ prevAnswered' \in {-1, prevAnswered}
          /\ statsEra' \in {0, statsEra} /\ countedEra' = countedEra
      BY <3>1, HandledWithout
    <3>4. 0 \in 0..MaxEra
      BY MonitorDataAssumption
    <3> QED BY <3>1, <3>2, <3>3, <3>4
  <2>4. CASE UNCHANGED <<answered, prevAnswered, statsEra, countedEra>> /\ callStatsDate' \in {callStatsDate, "before"}
    BY <2>4 DEF DataTypeOK
  <2>5. \/ HandlePush \/ HandleResponse \/ HandleOthers
        \/ UNCHANGED <<answered, prevAnswered, statsEra, countedEra>> /\ callStatsDate' \in {callStatsDate, "before"}
    BY DEF DataNext, dataVars, monitorVars, statsVars, eventVars, AgentsChange, LoginAnswered, CallAnswered,
           CountStartsAgain, ResponseLost, Disconnected, Connected, DayEnds
  <2> QED BY <2>1, <2>2, <2>3, <2>4, <2>5
<1>5. since' \in 0..MaxPushed + 1
  <2>1. since \in 0..MaxPushed + 1
    BY DEF DataTypeOK
  <2>2. since' \in {since, 0} \/ (since <= MaxPushed /\ since' = since + 1)
    BY <2>1 DEF DataNext, dataVars, monitorVars, AgentsChange, LoginAnswered, CallAnswered, CountStartsAgain, Push,
                HandlePush, HandleOthers, HandleResponse, ResponseLost, Disconnected, Connected, DayEnds
  <2> QED BY <1>2, <2>1, <2>2
<1>6. /\ {linked', freshConnection', late', emptied'} \subseteq BOOLEAN
      /\ told' \in {"no", "pushed", "response", "lost"}
  BY DEF DataTypeOK, DataNext, dataVars, monitorVars, AgentsChange, LoginAnswered, CallAnswered, CountStartsAgain,
         Handle, HandleWithoutQueue, HandleWithQueue, HandlePush, HandleOthers, HandleResponse, ResponseLost,
         Disconnected, Connected, DayEnds
<1>7. counted' \in Nat /\ era' \in 0..MaxEra
  BY <1>1 DEF DataTypes
<1> QED BY <1>1, <1>4, <1>5, <1>6, <1>7 DEF DataTypes, DataTypeOK

(* The types of MonitorData: no count and no queue passes its bound.          *)
THEOREM DataTypeCorrect == DataSpec => []DataTypeOK
<1>1. DataInit => DataTypeOK
  <2> SUFFICES ASSUME DataInit PROVE DataTypeOK
    OBVIOUS
  <2>1. DataTypes
    BY DataInitIInv DEF DataIInv
  <2>2. 0 \in 0..MaxAnswered /\ -1 \in -1..MaxAnswered /\ 0 \in 0..MaxPushed + 1 /\ 0 \in 0..MaxEra
    BY MonitorDataAssumption
  <2>3. {answered, prevAnswered} \subseteq -1..MaxAnswered /\ {era, statsEra, countedEra} \subseteq 0..MaxEra
        /\ since \in 0..MaxPushed + 1 /\ {linked, freshConnection, late, emptied} \subseteq BOOLEAN
        /\ told \in {"no", "pushed", "response", "lost"} /\ callStatsDate \in {NoDate, "today", "before"}
    BY <2>2 DEF DataInit
  <2> QED BY <2>1, <2>3 DEF DataTypes, DataTypeOK
<1> QED BY <1>1, DataInitIInv, DataStep, DataTypeStep, PTL DEF DataSpec

(* QuietMonitorIsTrue of MonitorData, for any agents and any number of       *)
(* messages on their way: once nothing is, and nothing came out of order,    *)
(* the wallboard shows the agents of the phone system and their state, and   *)
(* its count of answered calls and its events of them are the phone system's *)
(* unless that has started counting again since they began.                  *)
THEOREM MonitorShowsTruth == DataSpec => []QuietMonitorIsTrue
  BY DataInitIInv, DataStep, QuietIsTrue, PTL DEF DataSpec

-----------------------------------------------------------------------------
(***************************************************************************)
(* CallView: every call is one of three kinds, and each is told apart.     *)
(***************************************************************************)

(* What a call of the phone system can look like: it is of the agent it is   *)
(* offered to, of its queue, or direct; its segments name no other party,    *)
(* but for agents who ring while the call is in line.                        *)
DirectLeg(call, s) == s.caller = call.caller /\ s.callee = call.callee /\ s.dialed = call.callee

Direct(call) ==
    /\ call.queue = NoQueue /\ call.callee \in AgentExt /\ call.status # "routing"
    /\ \A s \in call.segments : DirectLeg(call, s)

LineLeg(call, s) ==
    /\ s.caller = call.caller /\ s.dialed = call.queue
    /\ s.callee = call.queue \/ s.callee \in AgentExt

InLine(call) ==
    /\ call.queue \in QueueNumber /\ call.callee = call.queue
    /\ \A s \in call.segments : LineLeg(call, s)

OfferLeg(call, s) ==
    \/ s.caller = call.caller /\ s.dialed = call.queue /\ s.callee \in {call.callee, call.queue}
    \/ s.caller = call.queue /\ s.dialed = call.callee /\ s.callee = call.callee

WithAgent(call) ==
    /\ call.queue \in QueueNumber /\ call.callee \in signedInTo[call.queue]
    /\ \A s \in call.segments : OfferLeg(call, s)
    /\ call.segments = {} => call.status = "routing"

(* Who talks: in a call that was answered the agent, else at most the queue. *)
WhoTalks(call) ==
    /\ call.answered => call.callee \in AgentExt /\ \E s \in call.segments : s.callee = call.callee /\ s.talking
    /\ ~call.answered => \A s \in call.segments : s.talking => s = ToQueue(call.caller, call.queue, TRUE)
    /\ call.status = "talking" /\ call.callee \in AgentExt => call.answered

Sane(call) ==
    /\ call \in ActiveCalls
    /\ Direct(call) \/ InLine(call) \/ WithAgent(call)
    /\ WhoTalks(call)

CallsIInv ==
    /\ CallsTypeOK
    /\ \A q \in QueueNumber : signedInTo[q] \subseteq agentsOf[q]
    /\ \A c \in Active : Sane(calls[c])

LEMMA NumbersDiffer ==
    /\ AgentExt \cap QueueNumber = {} /\ Outside \cap QueueNumber = {}
    /\ \A q \in QueueNumber, p \in QueueNumber : q \in Resembles[p] => p = q
  BY CallViewAssumption DEF Number

LEMMA CallsInitIInv == CallsInit => CallsIInv
  BY DEF CallsInit, CallsIInv, CallsTypeOK, Active

LEMMA CallChanged ==
    ASSUME CallsIInv, NEW c \in ActiveCall, NEW call, call = NoCall \/ Sane(call), Changes(c, call)
    PROVE  CallsIInv'
<1>1. calls' = [calls EXCEPT ![c] = call] /\ UNCHANGED <<agentsOf, signedInTo>>
  BY DEF Changes
<1>2. calls' \in [ActiveCall -> ActiveCalls \cup {NoCall}] /\ calls'[c] = call
      /\ \A d \in ActiveCall \ {c} : calls'[d] = calls[d]
  BY <1>1 DEF CallsIInv, CallsTypeOK, Sane
<1>3. CallsTypeOK'
  BY <1>1, <1>2 DEF CallsIInv, CallsTypeOK
<1>4. ASSUME NEW d \in Active' PROVE Sane(calls[d])'
  <2>1. PICK new : new = calls'[d]
    OBVIOUS
  <2>2. Sane(new)
    BY <1>2, <2>1 DEF Active, CallsIInv
  <2>3. Sane(calls'[d])
    BY <2>1, <2>2
  <2> QED BY <1>1, <2>3 DEF Sane, WithAgent, Direct, InLine, WhoTalks, DirectLeg, LineLeg, OfferLeg
<1> QED BY <1>1, <1>3, <1>4 DEF CallsIInv

-----------------------------------------------------------------------------

LEMMA CallBegins ==
    ASSUME CallsIInv, NEW c \in ActiveCall, NEW caller \in AgentExt \cup Outside,
           \/ \E q \in QueueNumber : CallsQueue(c, caller, q)
           \/ \E a \in AgentExt : CallsAgent(c, caller, a)
    PROVE  CallsIInv'
<1>1. ASSUME NEW q \in QueueNumber, NEW taken \in BOOLEAN, ~taken,
             NEW segments \in {{}, {ToQueue(caller, q, FALSE)}}
      PROVE  Sane([caller |-> caller, callee |-> q, status |-> "routing", segments |-> segments,
                   queue |-> q, answered |-> taken])
  <2> DEFINE call == [caller |-> caller, callee |-> q, status |-> "routing", segments |-> segments,
                      queue |-> q, answered |-> taken]
  <2>1. caller \in Number /\ q \in Number
    BY DEF Number
  <2>2. /\ segments \in SUBSET Segments
        /\ \A s \in segments : s.caller = caller /\ s.callee = q /\ s.dialed = q /\ ~s.talking
    <3>1. ASSUME NEW s, s = Leg(caller, q, q, FALSE)
          PROVE  s \in Segments /\ s.caller = caller /\ s.callee = q /\ s.dialed = q /\ ~s.talking
      BY <2>1, <3>1 DEF Leg, Segments
    <3> QED BY <3>1 DEF ToQueue
  <2>3. /\ call \in ActiveCalls /\ call.caller = caller /\ call.callee = q /\ call.status = "routing"
        /\ call.segments = segments /\ call.queue = q /\ ~call.answered
    BY <1>1, <2>1, <2>2 DEF ActiveCalls
  <2> HIDE DEF call
  <2>4. InLine(call)
    BY <2>2, <2>3 DEF InLine, LineLeg
  <2>5. WhoTalks(call)
    BY <2>2, <2>3 DEF WhoTalks
  <2> QED BY <2>3, <2>4, <2>5 DEF Sane, call
<1>2. ASSUME NEW a \in AgentExt, NEW taken \in BOOLEAN, ~taken,
             NEW segments \in {{}, {Leg(caller, a, a, FALSE)}}
      PROVE  Sane([caller |-> caller, callee |-> a, status |-> "ringing", segments |-> segments,
                   queue |-> NoQueue, answered |-> taken])
  <2> DEFINE call == [caller |-> caller, callee |-> a, status |-> "ringing", segments |-> segments,
                      queue |-> NoQueue, answered |-> taken]
  <2>1. caller \in Number /\ a \in Number
    BY DEF Number
  <2>2. /\ segments \in SUBSET Segments
        /\ \A s \in segments : s.caller = caller /\ s.callee = a /\ s.dialed = a /\ ~s.talking
    <3>1. ASSUME NEW s, s = Leg(caller, a, a, FALSE)
          PROVE  s \in Segments /\ s.caller = caller /\ s.callee = a /\ s.dialed = a /\ ~s.talking
      BY <2>1, <3>1 DEF Leg, Segments
    <3> QED BY <3>1
  <2>3. /\ call \in ActiveCalls /\ call.caller = caller /\ call.callee = a /\ call.status = "ringing"
        /\ call.segments = segments /\ call.queue = NoQueue /\ ~call.answered
    BY <1>2, <2>1, <2>2 DEF ActiveCalls
  <2> HIDE DEF call
  <2>4. Direct(call)
    BY <2>2, <2>3 DEF Direct, DirectLeg
  <2>5. WhoTalks(call)
    BY <2>2, <2>3 DEF WhoTalks
  <2> QED BY <2>3, <2>4, <2>5 DEF Sane, call
<1>3. ASSUME NEW q \in QueueNumber, CallsQueue(c, caller, q) PROVE CallsIInv'
  <2>1. PICK call : Sane(call) /\ Changes(c, call)
    BY <1>1, <1>3 DEF CallsQueue
  <2> QED BY <2>1, CallChanged
<1>4. ASSUME NEW a \in AgentExt, CallsAgent(c, caller, a) PROVE CallsIInv'
  <2>1. PICK call : Sane(call) /\ Changes(c, call)
    BY <1>2, <1>4 DEF CallsAgent
  <2> QED BY <2>1, CallChanged
<1> QED BY <1>3, <1>4

(* What an action assumes of the call it changes.                             *)
LEMMA CallIs ==
    ASSUME CallsIInv, NEW c \in Active, NEW call, call = calls[c]
    PROVE  /\ Sane(call) /\ call \in ActiveCalls
           /\ call.caller \in AgentExt \cup Outside /\ call.caller \in Number /\ call.callee \in Number
           /\ call.status \in {"routing", "ringing", "talking"} /\ call.segments \in SUBSET Segments
           /\ call.queue \in QueueNumber \cup {NoQueue} /\ call.answered \in BOOLEAN
           /\ AtQueue(call) => /\ call.queue \in QueueNumber /\ call.queue \in Number /\ ~call.answered
                               /\ InLine(call)
           /\ Offered(call) => /\ call.queue \in QueueNumber /\ call.queue \in Number /\ ~call.answered
                               /\ call.callee \in AgentExt /\ WithAgent(call)
           /\ ~AtQueue(call) => /\ call.callee \in AgentExt
                                /\ \/ call.queue = NoQueue /\ Direct(call)
                                   \/ call.queue \in QueueNumber /\ call.queue \in Number /\ WithAgent(call)
           /\ \A q \in QueueNumber : signedInTo[q] \subseteq AgentExt
<1>1. Sane(call) /\ \A q \in QueueNumber : signedInTo[q] \subseteq AgentExt
  BY DEF CallsIInv, CallsTypeOK
<1>2. /\ call \in ActiveCalls
      /\ call.caller \in AgentExt \cup Outside /\ call.caller \in Number /\ call.callee \in Number
      /\ call.status \in {"routing", "ringing", "talking"} /\ call.segments \in SUBSET Segments
      /\ call.queue \in QueueNumber \cup {NoQueue} /\ call.answered \in BOOLEAN
      /\ call.queue \in QueueNumber => call.queue \in Number
  BY <1>1 DEF Sane, ActiveCalls, Number
<1>3. AtQueue(call) => call.queue \in QueueNumber /\ ~call.answered /\ InLine(call)
  BY <1>1, <1>2, NumbersDiffer, CallViewAssumption DEF Sane, AtQueue, Direct, InLine, WithAgent, WhoTalks
<1>4. Offered(call) => call.queue \in QueueNumber /\ ~call.answered /\ call.callee \in AgentExt /\ WithAgent(call)
  BY <1>1, <1>2, NumbersDiffer, CallViewAssumption DEF Sane, Offered, Direct, InLine, WithAgent
<1>5. ~AtQueue(call) => /\ call.callee \in AgentExt
                        /\ \/ call.queue = NoQueue /\ Direct(call)
                           \/ call.queue \in QueueNumber /\ WithAgent(call)
  BY <1>1, <1>2, NumbersDiffer, CallViewAssumption DEF Sane, AtQueue, Direct, InLine, WithAgent
<1> QED BY <1>1, <1>2, <1>3, <1>4, <1>5

LEMMA CallInLine ==
    ASSUME CallsIInv, NEW c \in ActiveCall,
           \/ \E status \in {"routing", "talking"} : MusicOnHold(c, status)
           \/ RingsAll(c) \/ Returns(c)
    PROVE  CallsIInv'
<1>1. PICK call : call = calls[c]
  OBVIOUS
<1>2. c \in Active
  BY DEF MusicOnHold, RingsAll, Returns
<1>3. ASSUME AtQueue(call) \/ Offered(call), NEW segments \in SUBSET Segments, NEW status \in {"routing", "ringing", "talking"},
             \A s \in segments : LineLeg(call, s) /\ (s.talking => s = ToQueue(call.caller, call.queue, TRUE))
      PROVE  Sane([call EXCEPT !.callee = call.queue, !.status = status, !.segments = segments])
  <2> DEFINE new == [call EXCEPT !.callee = call.queue, !.status = status, !.segments = segments]
  <2>1. call \in ActiveCalls /\ call.queue \in QueueNumber /\ call.queue \in Number /\ ~call.answered
    BY <1>1, <1>2, <1>3, CallIs
  <2>2. /\ new \in ActiveCalls /\ new.caller = call.caller /\ new.queue = call.queue /\ new.callee = call.queue
        /\ new.status = status /\ new.segments = segments /\ new.answered = call.answered
    BY <2>1 DEF ActiveCalls
  <2> HIDE DEF new
  <2>3. InLine(new)
    BY <1>3, <2>1, <2>2 DEF InLine, LineLeg
  <2>4. WhoTalks(new)
    BY <1>3, <2>1, <2>2, NumbersDiffer DEF WhoTalks
  <2> QED BY <2>2, <2>3, <2>4 DEF Sane, new
<1>4. CASE \E status \in {"routing", "talking"} : MusicOnHold(c, status)
  <2>1. PICK status \in {"routing", "talking"} : MusicOnHold(c, status)
    BY <1>4
  <2> DEFINE segments == {ToQueue(call.caller, call.queue, TRUE)}
             new == [call EXCEPT !.status = status, !.segments = segments]
             same == [call EXCEPT !.callee = call.queue, !.status = status, !.segments = segments]
  <2>2. AtQueue(call) /\ Changes(c, new)
    BY <1>1, <2>1 DEF MusicOnHold
  <2>3. segments \in SUBSET Segments
        /\ \A s \in segments : LineLeg(call, s) /\ (s.talking => s = ToQueue(call.caller, call.queue, TRUE))
    BY <1>1, <1>2, <2>2, CallIs DEF Leg, Segments, ToQueue, LineLeg
  <2> HIDE DEF segments
  <2>4. new = same
    BY <1>1, <1>2, <2>2, CallIs DEF AtQueue, ActiveCalls
  <2>5. Sane(same)
    BY <1>3, <2>2, <2>3
  <2> HIDE DEF new, same
  <2> QED BY <2>2, <2>4, <2>5, CallChanged
<1>5. CASE RingsAll(c)
  <2> DEFINE rung == {Leg(call.caller, a, call.queue, FALSE) : a \in signedInTo[call.queue] \ {call.caller}}
             segments == call.segments \cup rung
             new == [call EXCEPT !.segments = segments]
             same == [call EXCEPT !.callee = call.queue, !.status = call.status, !.segments = segments]
  <2>1. AtQueue(call) /\ Changes(c, new)
    BY <1>1, <1>5 DEF RingsAll
  <2>2. ASSUME NEW s \in rung PROVE s \in Segments /\ LineLeg(call, s) /\ ~s.talking
    <3>1. PICK a \in signedInTo[call.queue] : s = Leg(call.caller, a, call.queue, FALSE)
      OBVIOUS
    <3>2. a \in AgentExt /\ a \in Number /\ call.caller \in Number /\ call.queue \in Number
      BY <1>1, <1>2, <2>1, CallIs DEF Number
    <3> QED BY <3>1, <3>2 DEF Leg, Segments, LineLeg
  <2>3. ASSUME NEW s \in call.segments
        PROVE  s \in Segments /\ LineLeg(call, s) /\ (s.talking => s = ToQueue(call.caller, call.queue, TRUE))
    <3>1. Sane(call) /\ call.segments \in SUBSET Segments /\ InLine(call) /\ ~call.answered
      BY <1>1, <1>2, <2>1, CallIs
    <3> QED BY <3>1 DEF Sane, InLine, WhoTalks
  <2>4. segments \in SUBSET Segments
        /\ \A s \in segments : LineLeg(call, s) /\ (s.talking => s = ToQueue(call.caller, call.queue, TRUE))
    BY <2>2, <2>3
  <2> HIDE DEF segments
  <2>5. new = same
    BY <1>1, <1>2, <2>1, CallIs DEF AtQueue, ActiveCalls
  <2>6. call.status \in {"routing", "ringing", "talking"}
    BY <1>1, <1>2, CallIs
  <2>7. Sane(same)
    BY <1>3, <2>1, <2>4, <2>6
  <2> HIDE DEF new, same
  <2> QED BY <2>1, <2>5, <2>7, CallChanged
<1>6. CASE Returns(c)
  <2> DEFINE segments == {ToQueue(call.caller, call.queue, FALSE)}
             new == [call EXCEPT !.callee = call.queue, !.status = "routing", !.segments = segments]
  <2>1. Offered(call) /\ Changes(c, new)
    BY <1>1, <1>6 DEF Returns
  <2>2. segments \in SUBSET Segments
        /\ \A s \in segments : LineLeg(call, s) /\ (s.talking => s = ToQueue(call.caller, call.queue, TRUE))
    BY <1>1, <1>2, <2>1, CallIs DEF Leg, Segments, ToQueue, LineLeg
  <2> HIDE DEF segments
  <2>3. Sane(new)
    BY <1>3, <2>1, <2>2
  <2> HIDE DEF new
  <2> QED BY <2>1, <2>3, CallChanged
<1> QED BY <1>4, <1>5, <1>6

LEMMA CallOffered ==
    ASSUME CallsIInv, NEW c \in ActiveCall,
           \/ \E a \in AgentExt : Routes(c, a)
           \/ \E status \in {"routing", "ringing"} : Rings(c, status)
    PROVE  CallsIInv'
<1>1. PICK call : call = calls[c]
  OBVIOUS
<1>2. c \in Active
  BY DEF Routes, Rings
<1>3. CASE \E a \in AgentExt : Routes(c, a)
  <2>1. PICK a \in AgentExt : Routes(c, a)
    BY <1>3
  <2> DEFINE new == [call EXCEPT !.callee = a, !.status = "routing", !.segments = {}]
  <2>2. AtQueue(call) /\ a \in signedInTo[call.queue] /\ Changes(c, new)
    BY <1>1, <2>1 DEF Routes
  <2>3. /\ call \in ActiveCalls /\ call.queue \in QueueNumber /\ ~call.answered
        /\ a \in Number /\ {} \in SUBSET Segments
    BY <1>1, <1>2, <2>2, CallIs DEF Number
  <2>4. /\ new \in ActiveCalls /\ new.caller = call.caller /\ new.queue = call.queue /\ new.callee = a
        /\ new.status = "routing" /\ new.segments = {} /\ new.answered = call.answered
    BY <2>3 DEF ActiveCalls
  <2> HIDE DEF new
  <2>5. WithAgent(new) /\ WhoTalks(new)
    BY <2>2, <2>3, <2>4 DEF WithAgent, WhoTalks
  <2>6. Sane(new)
    BY <2>4, <2>5 DEF Sane
  <2> QED BY <2>2, <2>6, CallChanged
<1>4. CASE \E status \in {"routing", "ringing"} : Rings(c, status)
  <2>1. PICK status \in {"routing", "ringing"} : Rings(c, status)
    BY <1>4
  <2> DEFINE music == ToQueue(call.caller, call.queue, TRUE)
             new(segments) == [call EXCEPT !.status = status, !.segments = segments]
  <2>2. PICK leg \in AgentLegs(call, FALSE) \cup {music} : \E set \in {{leg}, {leg, music}} : Changes(c, new(set))
    BY <1>1, <2>1 DEF Rings
  <2>3. Offered(call)
    BY <1>1, <2>1 DEF Rings
  <2>4. PICK segments \in {{leg}, {leg, music}} : Changes(c, new(segments))
    BY <2>2
  <2>5. /\ call \in ActiveCalls /\ call.queue \in QueueNumber /\ ~call.answered /\ call.queue \in Number
        /\ call.caller \in Number /\ call.callee \in Number /\ call.callee \in AgentExt /\ WithAgent(call)
        /\ call.queue # NoQueue
    BY <1>1, <1>2, <2>3, CallIs, CallViewAssumption
  <2>6. music \in Segments /\ OfferLeg(call, music)
    BY <2>5 DEF Leg, Segments, ToQueue, OfferLeg
  <2>7. ASSUME NEW s \in AgentLegs(call, FALSE) PROVE s \in Segments /\ OfferLeg(call, s) /\ ~s.talking
    <3>1. CASE s = Leg(call.caller, call.callee, call.queue, FALSE)
      BY <2>5, <3>1 DEF Leg, Segments, OfferLeg
    <3>2. CASE s = Leg(call.queue, call.callee, call.callee, FALSE)
      BY <2>5, <3>2 DEF Leg, Segments, OfferLeg
    <3> QED BY <2>5, <3>1, <3>2 DEF AgentLegs
  <2>8. /\ segments \in SUBSET Segments /\ segments # {}
        /\ \A s \in segments : OfferLeg(call, s) /\ (s.talking => s = music)
    BY <2>2, <2>4, <2>6, <2>7
  <2>9. /\ new(segments) \in ActiveCalls /\ new(segments).caller = call.caller /\ new(segments).queue = call.queue
        /\ new(segments).callee = call.callee /\ new(segments).status = status
        /\ new(segments).segments = segments /\ new(segments).answered = call.answered
    BY <2>5, <2>8 DEF ActiveCalls
  <2> HIDE DEF new
  <2>10. WithAgent(new(segments))
    BY <2>5, <2>8, <2>9 DEF WithAgent, OfferLeg
  <2>11. WhoTalks(new(segments))
    BY <2>5, <2>8, <2>9 DEF WhoTalks
  <2>12. Sane(new(segments))
    BY <2>9, <2>10, <2>11 DEF Sane
  <2> QED BY <2>4, <2>12, CallChanged
<1> QED BY <1>3, <1>4

LEMMA CallTakenUp ==
    ASSUME CallsIInv, NEW c \in ActiveCall, SegmentAnswered(c) \/ Answered(c)
    PROVE  CallsIInv'
<1>1. PICK call : call = calls[c]
  OBVIOUS
<1>2. c \in Active /\ ~AtQueue(call)
  BY <1>1 DEF SegmentAnswered, Answered
<1>3. /\ Sane(call) /\ call \in ActiveCalls /\ call.caller \in Number /\ call.callee \in Number
      /\ call.status \in {"routing", "ringing", "talking"} /\ call.segments \in SUBSET Segments
      /\ call.callee \in AgentExt
      /\ \/ call.queue = NoQueue /\ Direct(call)
         \/ call.queue \in QueueNumber /\ call.queue \in Number /\ call.queue # NoQueue /\ WithAgent(call)
  BY <1>1, <1>2, CallIs, CallViewAssumption
<1> DEFINE Fits(s) == IF call.queue = NoQueue THEN DirectLeg(call, s) ELSE OfferLeg(call, s)
           new(status, segments, b) == [call EXCEPT !.status = status, !.answered = b, !.segments = segments]
<1>4. ASSUME NEW talking \in BOOLEAN, NEW s \in AgentLegs(call, talking)
      PROVE  s \in Segments /\ Fits(s) /\ s.callee = call.callee /\ s.talking = talking
  <2>1. CASE call.queue = NoQueue
    BY <1>3, <2>1 DEF Leg, Segments, AgentLegs, DirectLeg
  <2>2. CASE call.queue # NoQueue /\ s = Leg(call.caller, call.callee, call.queue, talking)
    BY <1>3, <2>2 DEF Leg, Segments, OfferLeg
  <2>3. CASE call.queue # NoQueue /\ s = Leg(call.queue, call.callee, call.callee, talking)
    BY <1>3, <2>3 DEF Leg, Segments, OfferLeg
  <2> QED BY <2>1, <2>2, <2>3 DEF AgentLegs
<1>5. ASSUME NEW status \in {"routing", "ringing", "talking"}, NEW segments \in SUBSET Segments,
             status = "routing" => call.status = "routing",
             \A s \in segments : Fits(s), \E s \in segments : s.callee = call.callee /\ s.talking
      PROVE  Sane(new(status, segments, TRUE))
  <2>1. ASSUME NEW b \in BOOLEAN
        PROVE  /\ new(status, segments, b) \in ActiveCalls /\ new(status, segments, b).caller = call.caller
               /\ new(status, segments, b).queue = call.queue /\ new(status, segments, b).callee = call.callee
               /\ new(status, segments, b).status = status /\ new(status, segments, b).segments = segments
               /\ new(status, segments, b).answered = b
    BY <1>3 DEF ActiveCalls
  <2> HIDE DEF new
  <2>2. PICK one : one = new(status, segments, TRUE)
    OBVIOUS
  <2>3. /\ one \in ActiveCalls /\ one.caller = call.caller /\ one.queue = call.queue
        /\ one.callee = call.callee /\ one.status = status /\ one.segments = segments /\ one.answered
    BY <2>1, <2>2
  <2>4. CASE call.queue = NoQueue
    <3>1. Direct(call)
      BY <1>3, <2>4, CallViewAssumption
    <3>2. Direct(one)
      BY <1>5, <2>3, <2>4, <3>1 DEF Direct, DirectLeg
    <3>3. WhoTalks(one)
      BY <1>3, <1>5, <2>3 DEF WhoTalks
    <3> QED BY <2>2, <2>3, <3>2, <3>3 DEF Sane
  <2>5. CASE call.queue # NoQueue
    <3>1. WithAgent(call)
      BY <1>3, <2>5
    <3>2. WithAgent(one)
      BY <1>5, <2>3, <2>5, <3>1 DEF WithAgent, OfferLeg
    <3>3. WhoTalks(one)
      BY <1>3, <1>5, <2>3 DEF WhoTalks
    <3> QED BY <2>2, <2>3, <3>2, <3>3 DEF Sane
  <2> QED BY <2>4, <2>5
<1>6. CASE SegmentAnswered(c)
  <2>1. PICK leg \in AgentLegs(call, FALSE) :
              /\ leg \in call.segments
              /\ Changes(c, [call EXCEPT !.answered = TRUE,
                               !.segments = (call.segments \ {leg}) \cup {[leg EXCEPT !.talking = TRUE]}])
    BY <1>1, <1>6 DEF SegmentAnswered
  <2>2. ASSUME NEW b \in BOOLEAN
        PROVE  LET s == [leg EXCEPT !.talking = b]
               IN  /\ s \in Segments /\ s.caller = leg.caller /\ s.callee = leg.callee
                   /\ s.dialed = leg.dialed /\ s.talking = b
    BY <1>3, <2>1 DEF Segments
  <2>3. PICK answer : answer = [leg EXCEPT !.talking = TRUE]
    OBVIOUS
  <2>4. /\ answer \in Segments /\ answer.caller = leg.caller /\ answer.callee = leg.callee
        /\ answer.dialed = leg.dialed /\ answer.talking
    BY <2>2, <2>3
  <2>5. Fits(leg) /\ leg.callee = call.callee
    BY <1>4, <2>1
  <2>6. \A s \in call.segments : Fits(s)
    BY <1>3, CallViewAssumption DEF Direct, WithAgent
  <2>7. PICK segments : segments = (call.segments \ {leg}) \cup {answer}
    OBVIOUS
  <2>8. /\ segments \in SUBSET Segments /\ \A s \in segments : Fits(s)
        /\ \E s \in segments : s.callee = call.callee /\ s.talking
    BY <1>3, <2>4, <2>5, <2>6, <2>7 DEF DirectLeg, OfferLeg
  <2>9. Sane(new(call.status, segments, TRUE))
    BY <1>3, <1>5, <2>8
  <2>10. [call EXCEPT !.answered = TRUE, !.segments = segments] = new(call.status, segments, TRUE)
    BY <1>3 DEF ActiveCalls
  <2>11. Changes(c, new(call.status, segments, TRUE))
    BY <2>1, <2>3, <2>7, <2>10
  <2> HIDE DEF new
  <2> QED BY <2>9, <2>11, CallChanged
<1>7. CASE Answered(c)
  <2>1. PICK leg \in AgentLegs(call, TRUE) : Changes(c, new("talking", {leg}, TRUE))
    BY <1>1, <1>7 DEF Answered
  <2>2. leg \in Segments /\ Fits(leg) /\ leg.callee = call.callee /\ leg.talking
    BY <1>4, <2>1
  <2>3. PICK segments : segments = {leg}
    OBVIOUS
  <2>4. /\ segments \in SUBSET Segments /\ \A s \in segments : Fits(s)
        /\ \E s \in segments : s.callee = call.callee /\ s.talking
    BY <2>2, <2>3
  <2>5. Sane(new("talking", segments, TRUE)) /\ Changes(c, new("talking", segments, TRUE))
    BY <1>5, <2>1, <2>3, <2>4
  <2> HIDE DEF new
  <2> QED BY <2>5, CallChanged
<1> QED BY <1>6, <1>7

LEMMA CallsStep == CallsIInv /\ [CallsNext]_callVars => CallsIInv'
<1> SUFFICES ASSUME CallsIInv, [CallsNext]_callVars PROVE CallsIInv'
  OBVIOUS
<1>1. ASSUME UNCHANGED callVars PROVE CallsIInv'
  <2>1. ASSUME NEW c \in Active' PROVE Sane(calls[c])'
    <3>1. PICK call : call = calls'[c]
      OBVIOUS
    <3>2. Sane(call) /\ calls'[c] = call
      BY <1>1, <2>1, <3>1 DEF callVars, CallsIInv, Active
    <3>3. signedInTo' = signedInTo
      BY <1>1 DEF callVars
    <3> QED BY <3>2, <3>3 DEF Sane, Direct, InLine, WithAgent, WhoTalks, DirectLeg, LineLeg, OfferLeg
  <2> QED BY <1>1, <2>1 DEF callVars, CallsIInv, CallsTypeOK
<1>2. ASSUME NEW c \in ActiveCall, HangsUp(c) PROVE CallsIInv'
  BY <1>2, CallChanged DEF HangsUp
<1> QED BY <1>1, <1>2, CallBegins, CallInLine, CallOffered, CallTakenUp DEF CallsNext

-----------------------------------------------------------------------------

LEMMA WaitingSeen == CallsIInv => WaitingCallsAreSeen
<1> SUFFICES ASSUME CallsIInv, NEW q \in QueueNumber, NEW c \in Active
             PROVE  /\ Waits(c, q) => /\ c \in PollingQueued(q) \cap RelayQueued(q)
                                      /\ OnlyAsCaller(c, q) \/ HearsMusic(c, q) \/ c \in PagerQueued(q)
                    /\ c \in PagerQueued(q) => Waits(c, q)
                    /\ c \in PollingQueued(q) \cup RelayQueued(q) /\ ~Lookalike(c) =>
                          \/ Waits(c, q)
                          \/ calls[c].queue = q /\ calls[c].status # "talking"
                          \/ /\ Early(c, q)
                             /\ c \in PollingQueued(q) => calls[c].callee \in agentsOf[q] \cap agentsOf[calls[c].queue]
  BY DEF WaitingCallsAreSeen
<1>1. PICK call : call = calls[c]
  OBVIOUS
<1>2. Sane(call)
  BY <1>1 DEF CallsIInv
<1> DEFINE union == UNION {agentsOf[p] : p \in QueueNumber}
<1>3. /\ c \in PollingQueued(q) <=> DetectsQueued(q, call, agentsOf[q])
      /\ c \in RelayQueued(q) <=> DetectsQueued(q, call, union)
      /\ c \in PagerQueued(q) <=> q \in QueuesForCall(call) /\ ~IsCallConnected(call)
  BY <1>1 DEF PollingQueued, RelayQueued, PagerQueued
<1>4. /\ Waits(c, q) <=> call.queue = q /\ ~call.answered
      /\ Early(c, q) <=> call.segments = {} /\ call.status = "routing" /\ call.callee # q
      /\ Lookalike(c) <=> Resembles[call.caller] # {}
      /\ OnlyAsCaller(c, q) <=> call.callee # q /\ \A s \in call.segments : q \notin {s.callee, s.dialed}
      /\ HearsMusic(c, q) <=> call.status # "talking" /\ ToQueue(call.caller, q, TRUE) \in call.segments
  BY <1>1 DEF Waits, Early, Lookalike, OnlyAsCaller, HearsMusic
<1>5. /\ \A p \in QueueNumber : signedInTo[p] \subseteq agentsOf[p] /\ signedInTo[p] \subseteq AgentExt
      /\ \A p \in QueueNumber : agentsOf[p] \subseteq union /\ agentsOf[p] \subseteq AgentExt
      /\ union \subseteq AgentExt
  BY DEF CallsIInv, CallsTypeOK
<1> HIDE DEF union
<1>6. /\ call.caller \in AgentExt \cup Outside /\ call.caller \notin QueueNumber /\ q \in Resembles[q]
      /\ \A p \in QueueNumber : Resembles[p] = {p}
      /\ \A a \in AgentExt : Resembles[a] = {} /\ a \notin QueueNumber
  BY <1>2, NumbersDiffer, CallViewAssumption DEF Sane, ActiveCalls
<1>7. ASSUME call.queue = q, ~call.answered
      PROVE  /\ DetectsQueued(q, call, agentsOf[q]) /\ DetectsQueued(q, call, union)
             /\ \/ call.callee # q /\ \A s \in call.segments : q \notin {s.callee, s.dialed}
                \/ call.status # "talking" /\ ToQueue(call.caller, q, TRUE) \in call.segments
                \/ q \in QueuesForCall(call) /\ ~IsCallConnected(call)
  <2>1. \A s \in call.segments : s.talking => s = ToQueue(call.caller, q, TRUE)
    BY <1>2, <1>7 DEF Sane, WhoTalks
  <2>2. CASE InLine(call)
    <3>1. q \in QueuesForCall(call)
      BY <1>7, <2>2 DEF InLine, QueuesForCall
    <3>2. IsCallConnected(call) => call.status # "talking" /\ ToQueue(call.caller, q, TRUE) \in call.segments
      BY <1>7, <2>1, <2>2 DEF InLine, IsCallConnected
    <3>3. DetectsQueued(q, call, agentsOf[q]) /\ DetectsQueued(q, call, union)
      BY <1>6, <1>7, <2>2 DEF InLine, DetectsQueued, References
    <3> QED BY <3>1, <3>2, <3>3
  <2>3. CASE WithAgent(call)
    <3>1. call.callee \in agentsOf[q] /\ call.callee \in union /\ call.callee \in AgentExt /\ call.callee \notin QueueNumber
      BY <1>5, <1>6, <1>7, <2>3 DEF WithAgent
    <3>2. call.status # "talking"
      BY <1>2, <1>7, <3>1 DEF Sane, WhoTalks
    <3>3. CASE call.segments = {}
      BY <1>7, <2>3, <3>1, <3>2, <3>3 DEF WithAgent, DetectsQueued, EarlyRing
    <3>4. CASE call.segments # {}
      <4>1. PICK s \in call.segments : OfferLeg(call, s)
        BY <2>3, <3>4 DEF WithAgent
      <4>2. q \in {s.caller, s.callee, s.dialed}
        BY <1>7, <4>1 DEF OfferLeg
      <4>3. DetectsQueued(q, call, agentsOf[q]) /\ DetectsQueued(q, call, union)
        BY <1>6, <3>2, <4>2 DEF DetectsQueued, References
      <4>4. IsCallConnected(call) => ToQueue(call.caller, q, TRUE) \in call.segments
        BY <2>1, <3>2 DEF IsCallConnected
      <4>5. ASSUME NEW t \in call.segments, q \in {t.callee, t.dialed} PROVE q \in QueuesForCall(call)
        <5>1. q \in UNION {{u.dialed, u.callee} : u \in call.segments}
          BY <4>5, Zenon
        <5> QED BY <3>1, <5>1 DEF QueuesForCall
      <4> QED BY <3>1, <3>2, <4>3, <4>4, <4>5
    <3> QED BY <3>3, <3>4
  <2> QED BY <1>2, <1>7, <2>2, <2>3, CallViewAssumption DEF Sane, Direct
<1>8. ASSUME q \in QueuesForCall(call), ~IsCallConnected(call)
      PROVE  call.queue = q /\ ~call.answered
  <2>1. ~Direct(call)
    BY <1>6, <1>8 DEF Direct, DirectLeg, QueuesForCall
  <2>2. CASE InLine(call)
    BY <1>2, <1>6, <1>8, <2>2 DEF InLine, Sane, WhoTalks, QueuesForCall
  <2>3. CASE WithAgent(call)
    <3>1. call.callee \in AgentExt /\ call.callee \notin QueueNumber
      BY <1>5, <1>6, <2>3 DEF WithAgent
    <3>2. PICK s \in call.segments : q \in {s.dialed, s.callee}
      BY <1>8, <3>1 DEF QueuesForCall
    <3>3. q = call.queue
      BY <2>3, <3>1, <3>2 DEF WithAgent, OfferLeg
    <3> QED BY <1>2, <1>8, <3>1, <3>3 DEF Sane, WhoTalks, IsCallConnected
  <2> QED BY <1>2, <2>1, <2>2, <2>3 DEF Sane
<1>9. ASSUME NEW agents \in SUBSET AgentExt, DetectsQueued(q, call, agents), Resembles[call.caller] = {}
      PROVE  \/ call.queue = q /\ ~call.answered
             \/ call.queue = q /\ call.status # "talking"
             \/ /\ call.segments = {} /\ call.status = "routing" /\ call.callee # q
                /\ call.callee \in agents \cap agentsOf[call.queue]
  <2>1. CASE InLine(call)
    <3>1. ~call.answered /\ call.callee \notin AgentExt /\ Resembles[call.queue] = {call.queue}
      BY <1>2, <1>6, <2>1 DEF InLine, Sane, WhoTalks
    <3>2. ~References(call.callee, q) => call.queue # q
      BY <1>6, <2>1 DEF InLine, References
    <3>3. ASSUME NEW s \in call.segments, \E n \in {s.caller, s.callee, s.dialed} : References(n, q)
          PROVE  call.queue = q
      BY <1>6, <1>9, <2>1, <3>1, <3>3 DEF InLine, LineLeg, References
    <3>4. References(call.callee, q) => call.queue = q
      BY <2>1, <3>1 DEF InLine, References
    <3> QED BY <1>9, <3>1, <3>3, <3>4 DEF DetectsQueued, EarlyRing
  <2>2. CASE Direct(call)
    BY <1>6, <1>9, <2>2 DEF Direct, DirectLeg, DetectsQueued, References, EarlyRing
  <2>3. CASE WithAgent(call)
    <3>1. call.callee \in agentsOf[call.queue] /\ Resembles[call.callee] = {} /\ call.callee # q
          /\ Resembles[call.queue] = {call.queue}
      BY <1>5, <1>6, <2>3 DEF WithAgent
    <3>2. ASSUME NEW s \in call.segments, \E n \in {s.caller, s.callee, s.dialed} : References(n, q)
          PROVE  call.queue = q
      BY <1>9, <2>3, <3>1, <3>2 DEF WithAgent, OfferLeg, References
    <3> QED BY <1>9, <3>1, <3>2 DEF DetectsQueued, References, EarlyRing
  <2> QED BY <1>2, <2>1, <2>2, <2>3 DEF Sane
<1>10. ASSUME c \in PollingQueued(q) \cup RelayQueued(q), ~Lookalike(c), ~Waits(c, q),
              ~ (call.queue = q /\ call.status # "talking")
       PROVE  Early(c, q) /\ (c \in PollingQueued(q) => call.callee \in agentsOf[q] \cap agentsOf[call.queue])
  BY <1>3, <1>4, <1>5, <1>9, <1>10
<1> QED BY <1>1, <1>3, <1>4, <1>7, <1>8, <1>10

LEMMA BusyShown == CallsIInv => BusyAgentsAreShown
<1> SUFFICES ASSUME CallsIInv, NEW q \in QueueNumber, NEW a \in signedInTo[q]
             PROVE  LET mine    == {c \in Active : a \in Involved(calls[c])}
                        talking == {c \in Active : a \in Parties(calls[c]) /\ calls[c].answered}
                        plain   == {c \in talking : /\ calls[c].caller \notin signedInTo[q] \ {a}
                                                    /\ calls[c].status = "talking" \/ calls[c].callee = a}
                    IN  /\ talking # {} => "available" \notin RelayStates(a)
                        /\ plain # {} => PollingState(q, a) = "talking"
                        /\ mine = {} => RelayStates(a) = {"available"} /\ PollingState(q, a) = "available"
  BY DEF BusyAgentsAreShown
<1> DEFINE mine    == {c \in Active : a \in Involved(calls[c])}
           talking == {c \in Active : a \in Parties(calls[c]) /\ calls[c].answered}
           plain   == {c \in talking : /\ calls[c].caller \notin signedInTo[q] \ {a}
                                       /\ calls[c].status = "talking" \/ calls[c].callee = a}
           said == UNION {StatesOfCall(calls[c], a) : c \in Active}
           takenBy(status) == {c \in Active :
              \/ a \in BusyParty(calls[c], signedInTo[q]) /\ calls[c].status = status
              \/ \E s \in calls[c].segments : a \in BusyParty(s, signedInTo[q]) /\ SegmentState(s) = status}
<1>1. a \in AgentExt /\ a \notin QueueNumber /\ \A p \in QueueNumber : p \notin signedInTo[q]
  BY NumbersDiffer DEF CallsIInv, CallsTypeOK
<1>2. ASSUME NEW c \in talking PROVE StatesOfCall(calls[c], a) # {}
  <2>1. Sane(calls[c]) /\ a \in Parties(calls[c]) /\ calls[c].answered
    BY DEF CallsIInv
  <2>2. Parties(calls[c]) \cap QueueNumber = {}
    BY <2>1, NumbersDiffer DEF Sane, WhoTalks, ActiveCalls, Parties
  <2> QED BY <2>1, <2>2 DEF StatesOfCall
<1>3. ASSUME NEW c \in plain PROVE c \in takenBy("talking")
  <2>1. PICK call : call = calls[c]
    OBVIOUS
  <2>2. /\ Sane(call) /\ a \in {call.caller, call.callee} /\ c \in Active /\ call.answered
        /\ call.caller \notin signedInTo[q] \ {a}
        /\ call.status = "talking" \/ call.callee = a
    BY <2>1 DEF CallsIInv, Parties
  <2>3. CASE call.status = "talking"
    BY <2>1, <2>2, <2>3 DEF BusyParty
  <2>4. CASE call.callee = a
    <3>1. PICK s \in call.segments : s.callee = a /\ s.talking
      BY <2>2, <2>4 DEF Sane, WhoTalks
    <3>2. s.caller \notin signedInTo[q] \ {a}
      <4>1. CASE Direct(call)
        <5>1. s.caller = call.caller
          BY <4>1 DEF Direct, DirectLeg
        <5> QED BY <2>2, <5>1
      <4>2. CASE WithAgent(call)
        <5>1. s.caller = call.caller \/ (s.caller = call.queue /\ call.queue \in QueueNumber)
          BY <4>2 DEF WithAgent, OfferLeg
        <5> QED BY <1>1, <2>2, <5>1
      <4> QED BY <1>1, <2>2, <2>4, <4>1, <4>2 DEF Sane, InLine
    <3>3. a \in BusyParty(s, signedInTo[q]) /\ SegmentState(s) = "talking"
      BY <3>1, <3>2 DEF BusyParty, SegmentState
    <3> QED BY <2>1, <3>3
  <2> QED BY <2>2, <2>3, <2>4
<1>4. ASSUME mine = {}, NEW c \in Active
      PROVE  /\ StatesOfCall(calls[c], a) = {} /\ a \notin BusyParty(calls[c], signedInTo[q])
             /\ \A s \in calls[c].segments : a \notin BusyParty(s, signedInTo[q])
  <2>1. PICK call : call = calls[c]
    OBVIOUS
  <2>2. Sane(call) /\ a # call.caller /\ a # call.callee /\ \A s \in call.segments : a # s.callee
    BY <1>4, <2>1 DEF CallsIInv, Involved, Parties
  <2>3. ASSUME NEW s \in call.segments PROVE a \notin {s.caller, s.callee, s.dialed}
    BY <1>1, <2>2 DEF Sane, Direct, DirectLeg, InLine, LineLeg, WithAgent, OfferLeg
  <2>4. StatesOfCall(call, a) = {} /\ a \notin BusyParty(call, signedInTo[q])
    BY <2>2, <2>3 DEF StatesOfCall, Parties, BusyParty
  <2>5. \A s \in call.segments : a \notin BusyParty(s, signedInTo[q])
    BY <2>3 DEF BusyParty
  <2> QED BY <2>1, <2>4, <2>5
<1>5. RelayStates(a) = IF said = {} THEN {"available"} ELSE said
  BY DEF RelayStates
<1>6. /\ takenBy("talking") # {} => PollingState(q, a) = "talking"
      /\ takenBy("talking") = {} /\ takenBy("ringing") = {} => PollingState(q, a) = "available"
  BY DEF PollingState
<1>7. mine = {} => said = {} /\ takenBy("talking") = {} /\ takenBy("ringing") = {}
  BY <1>4
<1>8. talking # {} => said # {}
  BY <1>2
<1>9. "available" \notin said
  BY DEF StatesOfCall, SegmentState
<1> QED BY <1>3, <1>5, <1>6, <1>7, <1>8, <1>9

(* The types of CallView: every call is one the phone system can show.        *)
THEOREM CallsTypeCorrect == CallsSpec => []CallsTypeOK
<1>1. CallsIInv => CallsTypeOK
  BY DEF CallsIInv
<1> QED BY CallsInitIInv, CallsStep, <1>1, PTL DEF CallsSpec

(* WaitingCallsAreSeen of CallView, for any calls, queues, agents and        *)
(* numbers: every call that waits in a queue is counted there by the         *)
(* wallboard and by the relay, and by the auto-pager but for two forms of    *)
(* it; what is counted waits, but for the exceptions named.                  *)
THEOREM WaitingCallsCounted == CallsSpec => []WaitingCallsAreSeen
  BY CallsInitIInv, CallsStep, WaitingSeen, PTL DEF CallsSpec

(* BusyAgentsAreShown of CallView, likewise: an agent in a conversation is   *)
(* not shown as available, and one without a call or a ring always is.       *)
THEOREM AgentsShownBusy == CallsSpec => []BusyAgentsAreShown
  BY CallsInitIInv, CallsStep, BusyShown, PTL DEF CallsSpec
=============================================================================
