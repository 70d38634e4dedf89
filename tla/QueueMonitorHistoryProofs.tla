--------------------- MODULE QueueMonitorHistoryProofs ---------------------
(***************************************************************************)
(* What holds of the queue monitor over time, for every set of queues,     *)
(* every threshold and interval, and every bound: a page means that the    *)
(* queue was waiting, a stopped monitor falls silent, and a queue that     *)
(* keeps waiting is paged.  The steps of both specifications are steps of  *)
(* QueueMonitor, so its invariant holds in them.                           *)
(***************************************************************************)
EXTENDS QueueMonitorHistory, WaitingQueue, QueueMonitorProofs, FiniteSetTheorems

(* An evaluation that goes on: a poll's answer or a relay's payload that was *)
(* true at seenAt.                                                           *)
Judged(at, queues, counts, seenAt) ==
    /\ at \in 1..now /\ queues \in SUBSET Queue /\ counts \in [Queue -> Nat]
    /\ seenAt \in 0..now
    /\ Evaluate(at, queues, counts) /\ Applied(at, queues, counts, seenAt)

(* Answers and evaluations lie in the past, and an empty queue was seen      *)
(* before the last evaluation.                                               *)
HistoryTypeOK ==
    /\ answeredAt \in [Time -> Nat] /\ seenEmptyAt \in [Queue -> Nat]
    /\ lastApplied \in Nat /\ stoppedWith \in Nat

SeenInPast ==
    /\ \A t \in Time : answeredAt[t] <= now
    /\ lastApplied <= now
    /\ \A q \in Queue : seenEmptyAt[q] <= lastApplied

(* A clean timer started after the last answer that showed the queue empty.  *)
CleanTimer ==
    \A q \in Queue : clean[q] /\ Tracked(q) => seenEmptyAt[q] <= queueState[q].since


(* The nine kinds of step, told by what they do to the history.              *)
LEMMA HistorySteps ==
    ASSUME IInv, HistoryTypeOK, SeenInPast, HistoryNext
    PROVE  /\ Next
           /\ \/ /\ now' = now /\ UNCHANGED answeredAt
                 /\ \E at, seenAt \in Nat : \E queues \in SUBSET Queue, counts \in [Queue -> Nat] :
                       Judged(at, queues, counts, seenAt)
              \/ \E p \in polls :
                    /\ answeredAt' = [answeredAt EXCEPT ![p.at] = 0] /\ now' = now
                    /\ Judged(p.at, p.queues, p.counts, answeredAt[p.at])
              \/ \E p \in polls :
                    /\ answeredAt' = [answeredAt EXCEPT ![p.at] = 0]
                    /\ FailPoll(p) /\ UNCHANGED <<pollHistory, stoppedWith>>
              \/ \E p \in polls, c \in Counts :
                    /\ answeredAt' = [answeredAt EXCEPT ![p.at] = now]
                    /\ AnswerPoll(p, c) /\ UNCHANGED <<pollHistory, stoppedWith>>
              \/ Stop /\ stoppedWith' = Cardinality(polls) /\ UNCHANGED <<answeredAt, pollHistory>>
              \/ now' \in {now, now + 1} /\ UNCHANGED <<queueState, history>>
<1>1. /\ now \in Nat /\ now \in 1..now /\ monitored \in SUBSET Queue /\ relayAt \in 0..now
      /\ relayData \in [Queue -> Nat] /\ Counts \subseteq [Queue -> Nat]
      /\ \A p \in polls : /\ p.at \in 1..now /\ p.at \in Time /\ p.queues \in SUBSET Queue
                          /\ p.counts \in [Queue -> Nat]
  BY QueueMonitorAssumption DEF IInv, TypeOK, StampsInPast, Time, Poll
<1>2. CASE (Start \/ IntervalPoll) /\ BeginObserved
  <2>1. now' = now /\ BeginPoll /\ Next
    BY <1>2 DEF Start, IntervalPoll, Next
  <2>2. CASE monitored # {} /\ RelayMode
    <3>1. Judged(now, monitored, relayData, relayAt) /\ UNCHANGED answeredAt
      BY <1>1, <1>2, <2>1, <2>2 DEF BeginObserved, BeginPoll, Judged
    <3> QED BY <1>1, <2>1, <3>1
  <2>3. CASE ~(monitored # {} /\ RelayMode)
    <3>1. UNCHANGED <<queueState, history>>
      BY <1>2, <2>1, <2>3 DEF BeginObserved, BeginPoll
    <3> QED BY <2>1, <3>1
  <2> QED BY <2>2, <2>3
<1>3. ASSUME NEW p \in polls, FinishPoll(p),
             Applied(p.at, p.queues, p.counts, answeredAt[p.at])
      PROVE  now' = now /\ Next /\ Judged(p.at, p.queues, p.counts, answeredAt[p.at])
  <2>1. answeredAt[p.at] \in 0..now
    BY <1>1 DEF HistoryTypeOK, SeenInPast
  <2> QED BY <1>1, <1>3, <2>1 DEF FinishPoll, Judged, Next
<1>4. ASSUME NEW c \in Counts, RelayPush(c),
             IF phase = "running" /\ relayEnabled /\ monitored # {}
             THEN Applied(now, monitored, c, now) /\ UNCHANGED answeredAt
             ELSE UNCHANGED history
      PROVE  /\ now' = now /\ Next
             /\ \/ Judged(now, monitored, c, now) /\ UNCHANGED answeredAt
                \/ UNCHANGED <<queueState, history>>
  <2>1. now' = now /\ Next
    BY <1>4 DEF RelayPush, Next
  <2>2. CASE phase = "running" /\ relayEnabled /\ monitored # {}
    BY <1>1, <1>4, <2>1, <2>2 DEF RelayPush, Judged
  <2>3. CASE ~(phase = "running" /\ relayEnabled /\ monitored # {})
    BY <1>4, <2>1, <2>3 DEF RelayPush
  <2> QED BY <2>2, <2>3
<1>5. CASE /\ (\E q \in Queue : SetMonitored(q)) \/ PutRelayConfig \/ Tick
           /\ UNCHANGED history
  <2>1. Next
    BY <1>5 DEF Next
  <2>2. now' \in {now, now + 1} /\ queueState' = queueState
    BY <1>5 DEF SetMonitored, PutRelayConfig, Tick, monitorVars
  <2> QED BY <1>5, <2>1, <2>2
<1> QED BY <1>1, <1>2, <1>3, <1>4, <1>5 DEF HistoryNext, Next

-----------------------------------------------------------------------------
(* The polls in flight.                                                      *)

(* They are finitely many, and only a running monitor has a timer to begin   *)
(* another.                                                                  *)
OnlyRunningPolls == IsFiniteSet(polls) /\ (phase # "running" => nextPollAt = 0)

(* A step begins a poll, ends one, answers one, or leaves them alone.        *)
LEMMA PollsStep ==
    ASSUME OnlyRunningPolls, [Next]_vars
    PROVE  \/ polls' = polls
           \/ phase' = "running" /\ \E new : polls' = polls \cup {new}
           \/ \E p \in polls : polls' = polls \ {p}
           \/ \E p \in polls : \E new : polls' = (polls \ {p}) \cup {new}
<1>1. CASE Start
  BY <1>1 DEF Start, BeginPoll
<1>2. CASE IntervalPoll
  <2>1. phase' = "running"
    BY <1>2 DEF IntervalPoll, OnlyRunningPolls
  <2> QED BY <1>2, <2>1 DEF IntervalPoll, BeginPoll
<1>3. CASE \E p \in polls : FinishPoll(p) \/ FailPoll(p)
  BY <1>3 DEF FinishPoll, FailPoll
<1>4. ASSUME NEW c \in Counts, NEW p \in polls, AnswerPoll(p, c)
      PROVE  \E new : polls' = (polls \ {p}) \cup {new}
  BY <1>4 DEF AnswerPoll
<1>5. CASE \/ Stop \/ Tick \/ PutRelayConfig \/ UNCHANGED vars
           \/ \E c \in Counts : RelayPush(c)
           \/ \E q \in Queue : SetMonitored(q)
  BY <1>5 DEF Stop, Tick, PutRelayConfig, RelayPush, SetMonitored, vars, monitorVars
<1> QED BY <1>1, <1>2, <1>3, <1>4, <1>5 DEF Next

(* Their number.                                                             *)
LEMMA PollsCount ==
    ASSUME OnlyRunningPolls, [Next]_vars
    PROVE  /\ IsFiniteSet(polls') /\ Cardinality(polls) \in Nat /\ Cardinality(polls') \in Nat
           /\ phase' # "running" => Cardinality(polls') <= Cardinality(polls)
           /\ \A p \in polls : polls' = polls \ {p} => Cardinality(polls') = Cardinality(polls) - 1
<1>1. IsFiniteSet(polls) /\ Cardinality(polls) \in Nat
  BY FS_CardinalityType DEF OnlyRunningPolls
<1>2. \A p \in polls : /\ IsFiniteSet(polls \ {p})
                       /\ Cardinality(polls \ {p}) = Cardinality(polls) - 1
  BY <1>1, FS_RemoveElement
<1>3. ASSUME NEW new PROVE IsFiniteSet(polls \cup {new})
  BY <1>1, FS_AddElement
<1>4. ASSUME NEW p \in polls, NEW new
      PROVE  /\ IsFiniteSet((polls \ {p}) \cup {new})
             /\ Cardinality((polls \ {p}) \cup {new}) <= Cardinality(polls)
  <2> DEFINE rest == polls \ {p}
  <2>1. IsFiniteSet(rest) /\ Cardinality(rest) = Cardinality(polls) - 1
    BY <1>2
  <2> HIDE DEF rest
  <2>2. /\ IsFiniteSet(rest \cup {new})
        /\ Cardinality(rest \cup {new}) \in {Cardinality(rest), Cardinality(rest) + 1}
    BY <2>1, FS_AddElement
  <2>3. Cardinality(rest \cup {new}) <= Cardinality(polls)
    BY <1>1, <2>1, <2>2
  <2> QED BY <2>2, <2>3 DEF rest
<1>5. IsFiniteSet(polls')
  BY <1>1, <1>2, <1>3, <1>4, PollsStep
<1>6. Cardinality(polls') \in Nat
  BY <1>5, FS_CardinalityType
<1>7. phase' # "running" => Cardinality(polls') <= Cardinality(polls)
  <2>1. CASE polls' = polls
    BY <1>1, <2>1
  <2>2. ASSUME NEW p \in polls, polls' = polls \ {p}
        PROVE  Cardinality(polls') <= Cardinality(polls)
    BY <1>1, <1>2, <2>2
  <2>3. ASSUME NEW p \in polls, NEW new, polls' = (polls \ {p}) \cup {new}
        PROVE  Cardinality(polls') <= Cardinality(polls)
    BY <1>4, <2>3
  <2> QED BY <2>1, <2>2, <2>3, PollsStep
<1> QED BY <1>1, <1>2, <1>5, <1>6, <1>7

LEMMA OnlyRunningPollsStep ==
    ASSUME OnlyRunningPolls, [Next]_vars
    PROVE  OnlyRunningPolls'
<1>1. phase' # "running" => nextPollAt' = 0
  <2>1. CASE Start \/ IntervalPoll \/ Stop
    BY <2>1 DEF Start, IntervalPoll, Stop, OnlyRunningPolls
  <2>2. CASE \/ \E p \in polls : FinishPoll(p) \/ FailPoll(p)
             \/ \E c \in Counts : RelayPush(c) \/ \E p \in polls : AnswerPoll(p, c)
             \/ PutRelayConfig
             \/ \E q \in Queue : SetMonitored(q)
             \/ Tick \/ UNCHANGED vars
    BY <2>2 DEF FinishPoll, FailPoll, RelayPush, AnswerPoll, PutRelayConfig, SetMonitored, Tick,
                vars, monitorVars, OnlyRunningPolls
  <2> QED BY <2>1, <2>2 DEF Next
<1> QED BY <1>1, PollsCount DEF OnlyRunningPolls

-----------------------------------------------------------------------------
(* A page means that the queue was waiting.                                  *)

HistoryInv == IInv /\ OnlyRunningPolls /\ HistoryTypeOK /\ SeenInPast /\ CleanTimer

(* What an evaluation does to the timer of one queue, and to what is known   *)
(* of it: a clean timer either starts, after everything applied before, or   *)
(* goes on, counted again; it pages no earlier than Threshold after that.    *)
LEMMA JudgedQueue ==
    ASSUME HistoryInv, now' = now, NEW at \in Nat, NEW seenAt \in Nat,
           NEW queues \in SUBSET Queue, NEW counts \in [Queue -> Nat],
           Judged(at, queues, counts, seenAt), NEW q \in Queue
    PROVE  /\ clean'[q] /\ Tracked(q)' => seenEmptyAt'[q] <= queueState'[q].since
           /\ PagesNow(q) /\ clean[q] => now - seenEmptyAt[q] >= Threshold[q]
           /\ seenEmptyAt'[q] \in Nat /\ seenEmptyAt'[q] <= now
<1> DEFINE s == queueState[q]
           t == queueState'[q]
           n == counts[q]
<1>1. /\ s.since \in Nat /\ s.lastPagedAt \in Nat /\ s.pages \in Nat /\ n \in Nat
      /\ at \in 1..now /\ now \in Nat /\ Threshold[q] \in Nat
      /\ seenEmptyAt[q] \in Nat /\ lastApplied \in Nat /\ seenAt <= now
      /\ seenEmptyAt[q] <= lastApplied /\ lastApplied <= now
  BY QueueMonitorAssumption
     DEF HistoryInv, IInv, TypeOK, QueueState, Time, HistoryTypeOK, SeenInPast, Judged
<1>2. /\ t = IF q \in queues THEN StateAfter(q, at, n) ELSE s
      /\ seenEmptyAt'[q] = IF n = 0 /\ seenAt > seenEmptyAt[q] THEN seenAt ELSE seenEmptyAt[q]
      /\ clean'[q] <=> /\ Tracked(q)' /\ q \in queues
                       /\ IF Tracked(q) THEN clean[q] ELSE lastApplied <= at
  BY DEF Judged, Evaluate, Applied
<1>3. /\ Tracked(q) <=> s.since > 0
      /\ Tracked(q)' <=> t.since > 0
      /\ PagesNow(q) <=> t.pages > s.pages
  BY DEF Tracked, PagesNow
<1>4. clean[q] /\ Tracked(q) => seenEmptyAt[q] <= s.since
  BY DEF HistoryInv, CleanTimer
<1>5. seenEmptyAt'[q] \in Nat /\ seenEmptyAt'[q] <= now
  BY <1>1, <1>2
<1>6. CASE q \notin queues
  BY <1>1, <1>2, <1>3, <1>5, <1>6
<1>7. CASE q \in queues /\ n = 0
  <2>1. t.since = 0 /\ t.pages = 0
    BY <1>2, <1>7 DEF StateAfter, NoState
  <2> QED BY <1>1, <1>2, <1>3, <1>5, <2>1
<1>8. CASE q \in queues /\ n # 0 /\ ~Tracked(q)
  <2>1. t.since = at /\ t.pages = 0
    BY <1>2, <1>8 DEF StateAfter, NewTimer
  <2> QED BY <1>1, <1>2, <1>3, <1>5, <1>8, <2>1
<1>9. CASE q \in queues /\ n # 0 /\ Tracked(q) /\ ~Due(q, at)
  <2>1. t.since = s.since /\ t.pages = s.pages
    BY <1>2, <1>9 DEF StateAfter, HistoryInv, IInv, TypeOK, QueueState
  <2> QED BY <1>1, <1>2, <1>3, <1>4, <1>5, <1>9, <2>1
<1>10. CASE q \in queues /\ n # 0 /\ Tracked(q) /\ Due(q, at)
  <2>1. t.since = s.since
    BY <1>2, <1>10 DEF StateAfter, PagedState, HistoryInv, IInv, TypeOK, QueueState
  <2>2. at - s.since >= Threshold[q]
    BY <1>10 DEF Due, ThresholdMet
  <2> QED BY <1>1, <1>2, <1>3, <1>4, <1>5, <1>10, <2>1, <2>2
<1> QED BY <1>6, <1>7, <1>8, <1>9, <1>10

LEMMA JudgedStep ==
    ASSUME HistoryInv, now' = now, NEW at \in Nat, NEW seenAt \in Nat,
           NEW queues \in SUBSET Queue, NEW counts \in [Queue -> Nat],
           Judged(at, queues, counts, seenAt)
    PROVE  /\ CleanTimer'
           /\ \A q \in Queue : PagesNow(q) /\ clean[q] => now - seenEmptyAt[q] >= Threshold[q]
           /\ seenEmptyAt' \in [Queue -> Nat] /\ \A q \in Queue : seenEmptyAt'[q] <= lastApplied'
           /\ lastApplied' \in Nat /\ lastApplied' <= now' /\ stoppedWith' = stoppedWith
<1>1. now \in Nat /\ lastApplied' = now /\ stoppedWith' = stoppedWith
  BY DEF HistoryInv, IInv, TypeOK, Time, Judged, Applied
<1>2. \A q \in Queue : /\ clean'[q] /\ Tracked(q)' => seenEmptyAt'[q] <= queueState'[q].since
                       /\ PagesNow(q) /\ clean[q] => now - seenEmptyAt[q] >= Threshold[q]
                       /\ seenEmptyAt'[q] \in Nat /\ seenEmptyAt'[q] <= now
  BY JudgedQueue
<1>3. seenEmptyAt' = [q \in Queue |-> seenEmptyAt'[q]]
  BY DEF Judged, Applied
<1> QED BY <1>1, <1>2, <1>3 DEF CleanTimer

LEMMA HistoryInitInv == HistoryInit => HistoryInv
<1> SUFFICES ASSUME HistoryInit PROVE HistoryInv
  OBVIOUS
<1>1. IInv
  BY InitInv DEF HistoryInit
<1>2. now = 1 /\ queueState = [q \in Queue |-> NoState]
  BY DEF HistoryInit, Init
<1>3. OnlyRunningPolls
  BY FS_EmptySet DEF HistoryInit, Init, OnlyRunningPolls
<1> QED BY <1>1, <1>2, <1>3 DEF HistoryInit, HistoryInv, HistoryTypeOK, SeenInPast, CleanTimer

(* A page of a step, and what the step keeps.                                *)
PageMeansWaiting ==
    \A q \in Queue : PagesNow(q) /\ clean[q] => now - seenEmptyAt[q] >= Threshold[q]

LEMMA HistoryStep ==
    ASSUME HistoryInv, [HistoryNext]_allVars
    PROVE  HistoryInv' /\ PageMeansWaiting
<1>1. IInv /\ HistoryTypeOK /\ SeenInPast
  BY DEF HistoryInv
<1>2. [Next]_vars
  BY <1>1, HistorySteps DEF allVars
<1>3. IInv' /\ OnlyRunningPolls'
  BY <1>1, <1>2, NextInv, OnlyRunningPollsStep DEF HistoryInv
<1>4. /\ now \in Nat /\ now' \in Nat
      /\ \A q \in Queue : queueState[q].pages \in Nat
      /\ \A p \in polls : p.at \in Time
  BY <1>1, <1>3, QueueMonitorAssumption DEF IInv, TypeOK, Time, Poll, QueueState
<1>5. ASSUME NEW at \in Nat, NEW seenAt \in Nat, now' = now,
             NEW queues \in SUBSET Queue, NEW counts \in [Queue -> Nat],
             Judged(at, queues, counts, seenAt),
             answeredAt' \in [Time -> Nat], \A t \in Time : answeredAt'[t] <= now
      PROVE  HistoryInv' /\ PageMeansWaiting
  BY <1>1, <1>3, <1>5, JudgedStep DEF HistoryInv, HistoryTypeOK, SeenInPast, PageMeansWaiting
<1>6. ASSUME now' \in {now, now + 1}, answeredAt' \in [Time -> Nat],
             \A t \in Time : answeredAt'[t] <= now,
             UNCHANGED pollHistory, stoppedWith' \in Nat,
             \/ UNCHANGED queueState
             \/ \A q \in Queue : queueState'[q] = NoState
      PROVE  HistoryInv' /\ PageMeansWaiting
  <2>1. HistoryTypeOK' /\ SeenInPast'
    BY <1>1, <1>4, <1>6 DEF HistoryTypeOK, SeenInPast, pollHistory
  <2>2. CleanTimer'
    BY <1>6 DEF HistoryInv, CleanTimer, pollHistory, Tracked, NoState
  <2>3. PageMeansWaiting
    BY <1>4, <1>6 DEF PageMeansWaiting, PagesNow, NoState
  <2> QED BY <1>3, <2>1, <2>2, <2>3 DEF HistoryInv
<1>7. /\ answeredAt \in [Time -> Nat] /\ \A t \in Time : answeredAt[t] <= now
      /\ \A t \in Time, m \in {0, now} :
            /\ [answeredAt EXCEPT ![t] = m] \in [Time -> Nat]
            /\ \A u \in Time : [answeredAt EXCEPT ![t] = m][u] <= now
  BY <1>1, <1>4 DEF HistoryTypeOK, SeenInPast
<1>8. CASE UNCHANGED allVars
  BY <1>1, <1>4, <1>6, <1>7, <1>8 DEF allVars, vars, monitorVars, history, HistoryTypeOK
<1>9. CASE /\ now' = now /\ UNCHANGED answeredAt
           /\ \E at, seenAt \in Nat : \E queues \in SUBSET Queue, counts \in [Queue -> Nat] :
                 Judged(at, queues, counts, seenAt)
  BY <1>5, <1>7, <1>9
<1>10. ASSUME NEW p \in polls, answeredAt' = [answeredAt EXCEPT ![p.at] = 0], now' = now,
              Judged(p.at, p.queues, p.counts, answeredAt[p.at])
       PROVE  HistoryInv' /\ PageMeansWaiting
  <2>1. /\ p.at \in Nat /\ answeredAt[p.at] \in Nat
        /\ p.queues \in SUBSET Queue /\ p.counts \in [Queue -> Nat]
    BY <1>4, <1>7, <1>10 DEF Judged, Time
  <2> QED BY <1>4, <1>5, <1>7, <1>10, <2>1
<1>11. ASSUME NEW p \in polls, NEW m \in {0, now},
              answeredAt' = [answeredAt EXCEPT ![p.at] = m],
              FailPoll(p) \/ (\E c \in Counts : AnswerPoll(p, c)),
              UNCHANGED <<pollHistory, stoppedWith>>
       PROVE  HistoryInv' /\ PageMeansWaiting
  <2>1. now' = now /\ queueState' = queueState
    BY <1>11 DEF FailPoll, AnswerPoll
  <2> QED BY <1>1, <1>4, <1>6, <1>7, <1>11, <2>1 DEF HistoryTypeOK
<1>12. CASE Stop /\ stoppedWith' = Cardinality(polls) /\ UNCHANGED <<answeredAt, pollHistory>>
  <2>1. now' = now /\ \A q \in Queue : queueState'[q] = NoState
    BY <1>12 DEF Stop
  <2>2. stoppedWith' \in Nat
    BY <1>2, <1>12, PollsCount DEF HistoryInv
  <2> QED BY <1>6, <1>7, <1>12, <2>1, <2>2
<1>13. CASE now' \in {now, now + 1} /\ UNCHANGED <<queueState, history>>
  BY <1>1, <1>6, <1>7, <1>13 DEF history, HistoryTypeOK
<1> QED BY <1>1, <1>8, <1>9, <1>10, <1>11, <1>12, <1>13, HistorySteps

LEMMA HistoryInvariance == HistorySpec => []HistoryInv
<1> QED BY HistoryInitInv, HistoryStep, PTL DEF HistorySpec

(* No page goes out for a queue that an answer of the last Threshold seconds *)
(* showed empty, whatever the order in which overlapping polls end and       *)
(* relay payloads come between them, as long as the timer is clean.          *)
THEOREM PageShowsFullWait == HistorySpec => PageAfterFullWait
<1>1. HistoryInv /\ [HistoryNext]_allVars => [PageMeansWaiting]_allVars
  BY HistoryStep
<1>2. HistorySpec => [][PageMeansWaiting]_allVars
  BY <1>1, HistoryInvariance, PTL DEF HistorySpec
<1> QED BY <1>2 DEF PageAfterFullWait, PageMeansWaiting

-----------------------------------------------------------------------------
(* A monitor that is stopped falls silent.                                   *)

(* Each poll that ends uses up one of those in flight: the first can start a *)
(* timer, each further one can page once.                                    *)
LEMMA StoppedStep ==
    ASSUME HistoryInv, StoppedMonitorBound, [HistoryNext]_allVars
    PROVE  StoppedMonitorBound'
<1>0. IInv /\ OnlyRunningPolls /\ HistoryTypeOK /\ SeenInPast
  BY DEF HistoryInv
<1>1. [Next]_vars
  BY <1>0, HistorySteps DEF allVars
<1>2. /\ Cardinality(polls) \in Nat /\ Cardinality(polls') \in Nat /\ stoppedWith \in Nat
      /\ phase' # "running" => Cardinality(polls') <= Cardinality(polls)
      /\ \A p \in polls : polls' = polls \ {p} => Cardinality(polls') = Cardinality(polls) - 1
  BY <1>0, <1>1, PollsCount DEF HistoryTypeOK
<1>3. \A q \in Queue : queueState[q].since \in Nat /\ queueState[q].pages \in Nat
  BY <1>0 DEF IInv, TypeOK, QueueState, Time
<1>4. CASE (Start \/ IntervalPoll) /\ BeginObserved
  <2>1. phase' = "running"
    BY <1>0, <1>4 DEF Start, IntervalPoll, OnlyRunningPolls
  <2> QED BY <2>1 DEF StoppedMonitorBound
<1>5. ASSUME NEW p \in polls, FinishPoll(p),
             Applied(p.at, p.queues, p.counts, answeredAt[p.at])
      PROVE  StoppedMonitorBound'
  <2> SUFFICES ASSUME phase' = "stopped" PROVE StoppedMonitorBound'
    BY DEF StoppedMonitorBound
  <2>1. /\ phase = "stopped" /\ stoppedWith' = stoppedWith
        /\ Cardinality(polls') = Cardinality(polls) - 1
    BY <1>2, <1>5 DEF FinishPoll, Applied
  <2>2. \A q \in Queue : \/ queueState'[q] = queueState[q]
                         \/ EntryStep(q, p.at, queueState[q], queueState'[q])
    <3>1. p.at \in 1..now /\ p.queues \in SUBSET Queue /\ p.counts \in [Queue -> Nat]
      BY <1>0 DEF IInv, TypeOK, StampsInPast, Poll
    <3> QED BY <1>0, <1>5, <3>1, EvaluateStep DEF FinishPoll
  <2>3. /\ Cardinality(polls) <= stoppedWith
        /\ \A q \in Queue : queueState[q].since > 0 =>
               queueState[q].pages + Cardinality(polls) < stoppedWith
    BY <2>1 DEF StoppedMonitorBound, Tracked
  <2>4. ASSUME NEW q \in Queue, queueState'[q].since > 0
        PROVE  queueState'[q].pages + Cardinality(polls') < stoppedWith
    BY <1>2, <1>3, <2>1, <2>2, <2>3, <2>4 DEF EntryStep
  <2> QED BY <1>2, <2>1, <2>3, <2>4 DEF StoppedMonitorBound, Tracked
<1>6. CASE phase' = phase /\ queueState' = queueState /\ stoppedWith' = stoppedWith
  BY <1>2, <1>3, <1>6 DEF StoppedMonitorBound, Tracked
<1>7. ASSUME NEW p \in polls, FailPoll(p) \/ (\E c \in Counts : AnswerPoll(p, c)),
             stoppedWith' = stoppedWith
      PROVE  StoppedMonitorBound'
  BY <1>6, <1>7 DEF FailPoll, AnswerPoll
<1>8. ASSUME NEW c \in Counts, RelayPush(c),
             IF phase = "running" /\ relayEnabled /\ monitored # {}
             THEN Applied(now, monitored, c, now) /\ UNCHANGED answeredAt
             ELSE UNCHANGED history
      PROVE  StoppedMonitorBound'
  <2>1. CASE phase = "running"
    BY <1>8, <2>1 DEF RelayPush, StoppedMonitorBound
  <2>2. CASE phase # "running"
    BY <1>6, <1>8, <2>2 DEF RelayPush, history
  <2> QED BY <2>1, <2>2
<1>9. CASE Stop /\ stoppedWith' = Cardinality(polls)
  <2>1. polls' = polls /\ \A q \in Queue : ~Tracked(q)'
    BY <1>9 DEF Stop, Tracked, NoState
  <2> QED BY <1>2, <1>9, <2>1 DEF StoppedMonitorBound
<1>10. CASE /\ (\E q \in Queue : SetMonitored(q)) \/ PutRelayConfig \/ Tick \/ UNCHANGED vars
            /\ UNCHANGED history
  BY <1>6, <1>10 DEF SetMonitored, PutRelayConfig, Tick, vars, monitorVars, history
<1> QED BY <1>4, <1>5, <1>7, <1>8, <1>9, <1>10 DEF HistoryNext, allVars

(* A timer that a poll left in flight by stop() starts pages less often than *)
(* there were such polls, and none is begun (queue-monitor.ts, stop() and    *)
(* the loop of poll()).                                                      *)
THEOREM StoppedMonitorIsBounded == HistorySpec => []StoppedMonitorBound
<1>1. HistoryInit => StoppedMonitorBound
  BY DEF HistoryInit, Init, StoppedMonitorBound
<1> QED BY <1>1, StoppedStep, HistoryInvariance, PTL DEF HistorySpec

-----------------------------------------------------------------------------
(* A queue that keeps waiting is paged.                                      *)

(* The last instants at which: a poll that follows the answers older than    *)
(* the wait begins; a timer starts that stays; a poll begins that can no     *)
(* longer come before the timer's threshold.                                 *)
PollBy(w)         == w + Longest + PollInterval
TimerBy(w)        == PollBy(w) + MaxLatency
PastThreshold(w, q) == TimerBy(w) + Threshold[q] + 1
PageBy(w, q)      == PastThreshold(w, q) + PollInterval - 1

(* The interval timer fires on time and no request takes too long.           *)
TimersOnTime ==
    /\ phase = "running" => nextPollAt > 0 /\ now <= nextPollAt /\ nextPollAt <= now + PollInterval
    /\ \A p \in polls : now - p.at <= MaxLatency

(* Of a queue that waits since w: what shows it otherwise is older than w.   *)
OldEvidence(q, w) ==
    /\ \A p \in polls : p.at > w => q \in p.queues /\ (p.answered => p.counts[q] > 0)
    /\ relayAt > w => relayData[q] > 0

(* ... a timer that stays is there, or a poll that will start it is in       *)
(* flight, or will begin in time; and so for the page.                       *)
TimerComes(q, w) ==
    /\ \/ nextPollAt <= PollBy(w)
       \/ Tracked(q)
       \/ \E p \in polls : w + Longest < p.at /\ p.at <= PollBy(w)
    /\ Tracked(q) => queueState[q].since <= TimerBy(w)

PageComes(q, w) ==
    \/ nextPollAt <= PageBy(w, q)
    \/ Tracked(q) /\ queueState[q].lastPagedAt > 0
    \/ \E p \in polls : PastThreshold(w, q) <= p.at /\ p.at <= PageBy(w, q)

QueueWaits(q) ==
    /\ waitingFrom[q] \in Nat /\ waitingFrom[q] <= now
    /\ waitingFrom[q] > 0 <=> Waits(q)
    /\ waitingFrom[q] > 0 => /\ OldEvidence(q, waitingFrom[q])
                             /\ TimerComes(q, waitingFrom[q])
                             /\ PageComes(q, waitingFrom[q])

WaitingInv ==
    /\ IInv /\ TimersOnTime
    /\ calls \in Counts
    /\ \A q \in Queue : QueueWaits(q)

LEMMA WaitingBounds ==
    /\ Longest \in Nat /\ Longest >= MaxLatency /\ Longest >= StaleAfter
    /\ MaxLatency \in Nat /\ PollInterval \in Nat \ {0} /\ StaleAfter \in Nat
    /\ \A q \in Queue : Threshold[q] \in Nat
BY QueueMonitorAssumption DEF Longest

LEMMA TimersOnTimeStep ==
    ASSUME IInv, TimersOnTime, [Next]_vars
    PROVE  TimersOnTime'
<1>1. /\ now \in Nat /\ nextPollAt \in Nat /\ PollInterval \in Nat \ {0} /\ MaxLatency \in Nat
      /\ phase \in {"new", "running", "stopped"}
      /\ \A p \in polls : p.at \in Nat
  BY QueueMonitorAssumption DEF IInv, TypeOK, Time, Poll
<1>2. CASE Start \/ IntervalPoll
  <2>1. now' = now /\ nextPollAt' = now + PollInterval
    BY <1>2 DEF Start, IntervalPoll
  <2>2. \A p \in polls' : now' - p.at <= MaxLatency
    <3>1. \A p \in polls' : p \in polls \/ p.at = now
      BY <1>2 DEF Start, IntervalPoll, BeginPoll
    <3> QED BY <1>1, <2>1, <3>1 DEF TimersOnTime
  <2> QED BY <1>1, <2>1, <2>2 DEF TimersOnTime
<1>3. CASE Stop
  BY <1>3 DEF Stop, TimersOnTime
<1>4. CASE Tick
  BY <1>1, <1>4 DEF Tick, TimersOnTime, monitorVars
<1>5. ASSUME NEW c \in Counts, NEW p \in polls, AnswerPoll(p, c) PROVE TimersOnTime'
  <2>1. \A r \in polls' : r \in polls \/ r.at = p.at
    BY <1>5 DEF AnswerPoll, IInv, TypeOK, Poll
  <2> QED BY <1>1, <1>5, <2>1 DEF AnswerPoll, TimersOnTime
<1>6. CASE \/ \E p \in polls : FinishPoll(p) \/ FailPoll(p)
           \/ \E c \in Counts : RelayPush(c)
           \/ PutRelayConfig
           \/ \E q \in Queue : SetMonitored(q)
           \/ UNCHANGED vars
  BY <1>1, <1>6 DEF FinishPoll, FailPoll, RelayPush, PutRelayConfig, SetMonitored, vars,
                    monitorVars, TimersOnTime
<1> QED BY <1>2, <1>3, <1>4, <1>5, <1>6 DEF Next

LEMMA WaitingSteps ==
    ASSUME calls \in Counts, WaitingNext
    PROVE  [Next]_vars /\ calls' \in Counts
BY DEF WaitingNext, MonitorStep, ChangeCalls, Next

(* While the evidence may still be older than the wait, the interval timer   *)
(* is early enough for everything.                                           *)
LEMMA EarlyIsFine ==
    ASSUME IInv', TimersOnTime', phase' = "running", NEW q \in Queue, NEW w \in Nat,
           now' <= w + Longest
    PROVE  TimerComes(q, w)' /\ PageComes(q, w)'
<1>1. /\ now' \in Nat /\ nextPollAt' \in Nat /\ queueState'[q].since \in Nat
      /\ queueState'[q].since <= now' /\ nextPollAt' <= now' + PollInterval
  BY DEF IInv, TypeOK, Time, QueueState, PagesPaced, TimersOnTime
<1>2. /\ nextPollAt' <= PollBy(w) /\ nextPollAt' <= PageBy(w, q)
      /\ queueState'[q].since <= TimerBy(w)
  BY <1>1, WaitingBounds DEF PollBy, TimerBy, PastThreshold, PageBy
<1> QED BY <1>2 DEF TimerComes, PageComes, PollBy, TimerBy, PastThreshold, PageBy

(* A queue that begins to wait, as far as the monitor can know.              *)
LEMMA WaitBegins ==
    ASSUME IInv', TimersOnTime', NEW q \in Queue, Waits(q)', waitingFrom'[q] = now'
    PROVE  QueueWaits(q)'
<1>1. /\ now' \in Nat \ {0} /\ phase' = "running" /\ relayAt' \in Nat /\ relayAt' <= now'
      /\ \A p \in polls' : p.at \in Nat /\ p.at <= now'
  BY DEF IInv, TypeOK, Time, StampsInPast, Waits
<1>2. PICK w \in Nat : w = now'
  BY <1>1
<1>3. OldEvidence(q, w)'
  BY <1>1, <1>2 DEF OldEvidence
<1>4. TimerComes(q, w)' /\ PageComes(q, w)'
  BY <1>1, <1>2, EarlyIsFine, WaitingBounds
<1> QED BY <1>1, <1>2, <1>3, <1>4
        DEF QueueWaits, OldEvidence, TimerComes, PageComes, PollBy, TimerBy, PastThreshold, PageBy

(* An evaluation that counts a call in the queue.                            *)
CountsCall(q, at) ==
    LET s == queueState[q]
        t == queueState'[q]
    IN  /\ at \in 1..now
        /\ Tracked(q)  => /\ t.since = s.since
                          /\ s.lastPagedAt > 0 => t.lastPagedAt > 0
                          /\ at - s.since >= Threshold[q] => t.lastPagedAt > 0
        /\ ~Tracked(q) => t.since = at

LEMMA CountedCall ==
    ASSUME IInv, NEW q \in Queue, NEW at \in 1..now, NEW queues \in SUBSET Queue,
           NEW counts \in [Queue -> Nat], Evaluate(at, queues, counts),
           q \in queues, counts[q] > 0
    PROVE  CountsCall(q, at)
<1> DEFINE s == queueState[q]
           t == queueState'[q]
<1>1. /\ s \in QueueState /\ s.since \in Nat /\ s.lastPagedAt \in Nat /\ counts[q] \in Nat
      /\ at > 0 /\ at \in Nat /\ now \in Nat
  BY DEF IInv, TypeOK, QueueState, Time
<1>2. t = StateAfter(q, at, counts[q])
  BY DEF Evaluate
<1>3. CASE ~Tracked(q)
  BY <1>1, <1>2, <1>3 DEF StateAfter, NewTimer, CountsCall
<1>4. CASE Tracked(q) /\ Due(q, at)
  <2>1. t.since = s.since /\ t.lastPagedAt = at
    BY <1>1, <1>2, <1>4 DEF StateAfter, PagedState, QueueState
  <2> QED BY <1>1, <1>4, <2>1 DEF CountsCall
<1>5. CASE Tracked(q) /\ ~Due(q, at)
  <2>1. t.since = s.since /\ t.lastPagedAt = s.lastPagedAt
    BY <1>1, <1>2, <1>5 DEF StateAfter, QueueState
  <2>2. at - s.since >= Threshold[q] => s.lastPagedAt > 0
    BY <1>1, <1>5 DEF Due, ThresholdMet
  <2> QED BY <1>1, <1>5, <2>1, <2>2 DEF CountsCall
<1> QED BY <1>3, <1>4, <1>5

(* The old evidence is used up: every evaluation counts the queue.  A poll   *)
(* of the past is still in flight or has counted it, and the interval timer  *)
(* waits or has begun a poll or counted it at once.                          *)
LEMMA LateStep ==
    ASSUME WaitingInv, IInv', NEW q \in Queue, NEW w \in Nat, w = waitingFrom[q], w > 0,
           now' = now, now > w + Longest,
           queueState'[q] = queueState[q] \/ \E at \in Nat : CountsCall(q, at),
           \A p \in polls : (\E r \in polls' : r.at = p.at) \/ CountsCall(q, p.at),
           \/ nextPollAt' = nextPollAt
           \/ /\ nextPollAt <= now /\ nextPollAt' = now + PollInterval
              /\ (\E r \in polls' : r.at = now) \/ CountsCall(q, now)
    PROVE  TimerComes(q, w)' /\ PageComes(q, w)'
<1> DEFINE s == queueState[q]
           t == queueState'[q]
<1>1. /\ now \in Nat /\ nextPollAt \in Nat /\ nextPollAt' \in Nat
      /\ s.since \in Nat /\ s.lastPagedAt \in Nat /\ t.since \in Nat /\ t.lastPagedAt \in Nat
      /\ \A p \in polls : p.at \in Nat /\ now - p.at <= MaxLatency
      /\ now <= nextPollAt
  BY DEF WaitingInv, IInv, TypeOK, Time, QueueState, Poll, TimersOnTime, QueueWaits, Waits
<1>2. TimerComes(q, w) /\ PageComes(q, w)
  BY DEF WaitingInv, QueueWaits
<1>3. /\ PollBy(w) \in Nat /\ TimerBy(w) \in Nat /\ PastThreshold(w, q) \in Nat /\ PageBy(w, q) \in Nat
      /\ TimerBy(w) = PollBy(w) + MaxLatency
      /\ PastThreshold(w, q) = TimerBy(w) + Threshold[q] + 1
      /\ PageBy(w, q) = PastThreshold(w, q) + PollInterval - 1
  BY WaitingBounds DEF PollBy, TimerBy, PastThreshold, PageBy
<1> HIDE DEF PollBy, TimerBy, PastThreshold, PageBy
<1>4. ~Tracked(q) => now <= TimerBy(w)
  BY <1>1, <1>2, <1>3, WaitingBounds DEF TimerComes
<1>5. Tracked(q) => s.since <= TimerBy(w)
  BY <1>2 DEF TimerComes
<1>6. /\ Tracked(q) => t.since = s.since /\ (s.lastPagedAt > 0 => t.lastPagedAt > 0)
      /\ ~Tracked(q) => t.since = s.since \/ t.since <= now
  BY <1>1 DEF CountsCall
<1>7. t.since > 0 => t.since <= TimerBy(w)
  BY <1>1, <1>3, <1>4, <1>5, <1>6 DEF Tracked
<1>8. ASSUME NEW at \in Nat, CountsCall(q, at) PROVE t.since > 0
  BY <1>1, <1>8 DEF CountsCall, Tracked
<1>9. ASSUME NEW at \in Nat, CountsCall(q, at), at >= PastThreshold(w, q)
      PROVE  t.lastPagedAt > 0
  <2>1. Tracked(q)
    BY <1>1, <1>3, <1>4, <1>9, WaitingBounds DEF CountsCall
  <2> QED BY <1>1, <1>3, <1>5, <1>9, <2>1, WaitingBounds DEF CountsCall
<1>10. TimerComes(q, w)'
  <2>1. \/ nextPollAt' <= PollBy(w)
        \/ t.since > 0
        \/ \E p \in polls' : w + Longest < p.at /\ p.at <= PollBy(w)
    <3>1. CASE nextPollAt <= PollBy(w) /\ nextPollAt' = nextPollAt
      BY <3>1
    <3>2. CASE nextPollAt <= PollBy(w) /\ nextPollAt <= now /\ \E r \in polls' : r.at = now
      BY <1>1, <3>2
    <3>3. CASE CountsCall(q, now)
      BY <1>1, <1>8, <3>3
    <3>4. CASE Tracked(q)
      BY <1>6, <3>4 DEF Tracked
    <3>5. CASE \E p \in polls : w + Longest < p.at /\ p.at <= PollBy(w)
      BY <1>1, <1>8, <3>5
    <3> QED BY <1>2, <3>1, <3>2, <3>3, <3>4, <3>5 DEF TimerComes
  <2> QED BY <1>7, <2>1 DEF TimerComes, Tracked, PollBy, TimerBy
<1>11. PageComes(q, w)'
  <2>1. \/ nextPollAt' <= PageBy(w, q)
        \/ t.since > 0 /\ t.lastPagedAt > 0
        \/ \E p \in polls' : PastThreshold(w, q) <= p.at /\ p.at <= PageBy(w, q)
    <3>1. CASE nextPollAt <= PageBy(w, q) /\ nextPollAt' = nextPollAt
      BY <3>1
    <3>2. CASE nextPollAt' = now + PollInterval /\ now < PastThreshold(w, q)
      BY <1>1, <1>3, <3>2, WaitingBounds
    <3>3. CASE /\ nextPollAt <= PageBy(w, q) /\ nextPollAt <= now /\ now >= PastThreshold(w, q)
               /\ \E r \in polls' : r.at = now
      BY <1>1, <3>3
    <3>4. CASE CountsCall(q, now) /\ now >= PastThreshold(w, q)
      BY <1>1, <1>8, <1>9, <3>4
    <3>5. CASE Tracked(q) /\ s.lastPagedAt > 0
      BY <1>6, <3>5 DEF Tracked
    <3>6. CASE \E p \in polls : PastThreshold(w, q) <= p.at /\ p.at <= PageBy(w, q)
      BY <1>1, <1>8, <1>9, <3>6
    <3> QED BY <1>1, <1>2, <1>3, <3>1, <3>2, <3>3, <3>4, <3>5, <3>6 DEF PageComes
  <2> QED BY <2>1 DEF PageComes, Tracked, PastThreshold, PageBy, TimerBy, PollBy
<1> QED BY <1>10, <1>11

(* A step while the queue waits on.                                          *)
LEMMA WaitGoesOn ==
    ASSUME WaitingInv, IInv', TimersOnTime', MonitorStep \/ UNCHANGED vars,
           NEW q \in Queue, NEW w \in Nat, w = waitingFrom[q], w > 0, phase' = "running"
    PROVE  OldEvidence(q, w)' /\ TimerComes(q, w)' /\ PageComes(q, w)'
<1>1. /\ now \in Nat /\ now \in 1..now /\ now' \in Nat /\ relayAt \in Nat
      /\ phase = "running" /\ q \in monitored /\ calls[q] > 0 /\ calls \in [Queue -> Nat]
      /\ monitored \in SUBSET Queue /\ relayData \in [Queue -> Nat]
      /\ \A p \in polls : /\ p \in Poll /\ p.at \in 1..now /\ now - p.at <= MaxLatency
                          /\ p.queues \in SUBSET Queue /\ p.counts \in [Queue -> Nat]
  BY QueueMonitorAssumption
     DEF WaitingInv, IInv, TypeOK, Time, StampsInPast, Poll, TimersOnTime, QueueWaits, Waits
<1>2. OldEvidence(q, w) /\ TimerComes(q, w) /\ PageComes(q, w)
  BY DEF WaitingInv, QueueWaits
<1>3. now' <= w + Longest => TimerComes(q, w)' /\ PageComes(q, w)'
  BY EarlyIsFine
<1>4. CASE UNCHANGED <<polls, relayAt, relayData, nextPollAt, queueState>>
  BY <1>2, <1>4 DEF OldEvidence, TimerComes, PageComes, Tracked, PollBy, TimerBy, PastThreshold, PageBy
<1>5. ASSUME NEW p \in polls, AnswerPoll(p, calls)
      PROVE  OldEvidence(q, w)' /\ TimerComes(q, w)' /\ PageComes(q, w)'
  <2> DEFINE r == [p EXCEPT !.answered = TRUE, !.counts = calls]
  <2>1. r.at = p.at /\ r.queues = p.queues /\ r.counts = calls
    BY <1>1 DEF Poll
  <2>2. OldEvidence(q, w)'
    BY <1>1, <1>2, <1>5, <2>1 DEF AnswerPoll, OldEvidence, relayVars
  <2>3. \A o \in polls : \E o2 \in polls' : o2.at = o.at
    BY <1>5, <2>1 DEF AnswerPoll
  <2>4. nextPollAt' = nextPollAt /\ queueState' = queueState
    BY <1>5 DEF AnswerPoll
  <2>5. TimerComes(q, w)'
    BY <1>2, <2>3, <2>4 DEF TimerComes, Tracked, PollBy, TimerBy
  <2>6. PageComes(q, w)'
    BY <1>2, <2>3, <2>4 DEF PageComes, Tracked, PollBy, TimerBy, PastThreshold, PageBy
  <2> QED BY <2>2, <2>5, <2>6
<1>6. ASSUME NEW p \in polls, FinishPoll(p)
      PROVE  OldEvidence(q, w)' /\ TimerComes(q, w)' /\ PageComes(q, w)'
  <2>1. /\ now' = now /\ nextPollAt' = nextPollAt /\ polls' = polls \ {p}
        /\ relayAt' = relayAt /\ relayData' = relayData
    BY <1>6 DEF FinishPoll, relayVars
  <2>2. OldEvidence(q, w)'
    BY <1>2, <2>1 DEF OldEvidence
  <2>3. CASE now > w + Longest
    <3>1. p.at > w
      BY <1>1, <2>3, WaitingBounds
    <3>2. q \in p.queues /\ p.counts[q] > 0
      BY <1>2, <1>6, <3>1 DEF OldEvidence, FinishPoll
    <3>3. CountsCall(q, p.at)
      BY <1>1, <1>6, <3>2, CountedCall DEF FinishPoll, WaitingInv
    <3>4. p.at \in Nat
      BY <1>1
    <3> QED BY <2>1, <2>2, <2>3, <3>3, <3>4, LateStep
  <2> QED BY <1>1, <1>3, <2>1, <2>2, <2>3, WaitingBounds
<1>7. CASE RelayPush(calls)
  <2>1. /\ now' = now /\ nextPollAt' = nextPollAt /\ polls' = polls /\ relayData' = calls
    BY <1>7 DEF RelayPush
  <2>2. OldEvidence(q, w)'
    BY <1>1, <1>2, <2>1 DEF OldEvidence
  <2>3. queueState' = queueState \/ CountsCall(q, now)
    BY <1>1, <1>7, CountedCall DEF RelayPush, WaitingInv
  <2>4. CASE now > w + Longest
    BY <1>1, <2>1, <2>2, <2>3, <2>4, LateStep
  <2> QED BY <1>1, <1>3, <2>1, <2>2, <2>4, WaitingBounds
<1>8. CASE IntervalPoll
  <2>1. /\ now' = now /\ nextPollAt <= now /\ nextPollAt' = now + PollInterval /\ BeginPoll
        /\ relayAt' = relayAt /\ relayData' = relayData
    BY <1>1, <1>8 DEF IntervalPoll, relayVars, WaitingInv, IInv, TypeOK
  <2>2. /\ \A p \in polls' : p \in polls \/ (q \in p.queues /\ ~p.answered)
        /\ \A p \in polls : p \in polls'
    BY <1>1, <2>1 DEF BeginPoll
  <2>3. OldEvidence(q, w)'
    BY <1>2, <2>1, <2>2 DEF OldEvidence
  <2>4. CASE now > w + Longest
    <3>1. CASE RelayMode
      <4>1. Evaluate(now, monitored, relayData)
        BY <1>1, <2>1, <3>1 DEF BeginPoll
      <4>2. relayAt > w
        BY <1>1, <2>4, <3>1, WaitingBounds DEF RelayMode, RelayFresh
      <4>3. CountsCall(q, now)
        BY <1>1, <1>2, <4>1, <4>2, CountedCall DEF OldEvidence, WaitingInv
      <4> QED BY <1>1, <2>1, <2>2, <2>3, <2>4, <4>3, LateStep
    <3>2. CASE ~RelayMode
      <4> DEFINE new == [at |-> now, queues |-> monitored, answered |-> FALSE,
                         counts |-> [o \in Queue |-> 0]]
      <4>1. queueState' = queueState /\ polls' = polls \cup {new}
        BY <1>1, <2>1, <3>2 DEF BeginPoll
      <4>2. \E r \in polls' : r.at = now
        <5>1. new \in polls' /\ new.at = now
          BY <4>1
        <5> QED BY <5>1
      <4>3. queueState'[q] = queueState[q]
        BY <4>1
      <4> HIDE DEF new
      <4> QED BY <1>1, <2>1, <2>2, <2>3, <2>4, <4>2, <4>3, LateStep
    <3> QED BY <3>1, <3>2
  <2> QED BY <1>1, <1>3, <2>1, <2>3, <2>4, WaitingBounds
<1>9. CASE \/ PutRelayConfig \/ Tick \/ UNCHANGED vars
           \/ \E o \in Queue : SetMonitored(o)
  BY <1>4, <1>9 DEF PutRelayConfig, Tick, SetMonitored, vars, monitorVars, relayVars
<1>10. ~Start /\ ~Stop
  BY <1>1 DEF Start, Stop
<1> QED BY <1>5, <1>6, <1>7, <1>8, <1>9, <1>10 DEF MonitorStep

LEMMA WaitingInitInv == WaitingInit => WaitingInv
<1> SUFFICES ASSUME WaitingInit PROVE WaitingInv
  OBVIOUS
<1>1. IInv
  BY InitInv DEF WaitingInit
<1>2. TimersOnTime /\ now = 1
  BY DEF WaitingInit, Init, TimersOnTime
<1>3. \A q \in Queue : QueueWaits(q)
  BY <1>2 DEF WaitingInit, Init, QueueWaits, Waits
<1> QED BY <1>1, <1>2, <1>3 DEF WaitingInv, WaitingInit

LEMMA WaitingStep == WaitingInv /\ [WaitingNext]_waitingVars => WaitingInv'
<1> SUFFICES ASSUME WaitingInv, [WaitingNext]_waitingVars PROVE WaitingInv'
  OBVIOUS
<1>1. [Next]_vars /\ calls' \in Counts
  BY WaitingSteps DEF WaitingInv, waitingVars
<1>2. IInv' /\ TimersOnTime'
  BY <1>1, NextInv, TimersOnTimeStep DEF WaitingInv
<1>3. now \in Nat /\ now' \in Nat /\ now <= now'
  <2>1. now' \in {now, now + 1}
    BY <1>1 DEF Next, Start, IntervalPoll, Stop, FinishPoll, FailPoll, RelayPush, AnswerPoll,
                PutRelayConfig, SetMonitored, Tick, vars
  <2> QED BY <1>2, <2>1 DEF WaitingInv, IInv, TypeOK, Time
<1>4. ASSUME NEW q \in Queue PROVE QueueWaits(q)'
  <2> DEFINE w == waitingFrom[q]
  <2>1. w \in Nat /\ w <= now /\ (w > 0 <=> Waits(q))
    BY DEF WaitingInv, QueueWaits
  <2>2. CASE waitingFrom'[q] = 0 /\ ~Waits(q)'
    BY <1>3, <2>2 DEF QueueWaits
  <2>3. CASE waitingFrom'[q] = now' /\ Waits(q)'
    BY <1>2, <2>3, WaitBegins
  <2>4. CASE /\ waitingFrom'[q] = w /\ w > 0 /\ Waits(q)'
             /\ MonitorStep \/ UNCHANGED vars
    <3>1. OldEvidence(q, w)' /\ TimerComes(q, w)' /\ PageComes(q, w)'
      BY <1>2, <2>1, <2>4, WaitGoesOn DEF Waits
    <3> QED BY <1>3, <2>1, <2>4, <3>1 DEF QueueWaits
  <2>5. CASE KeepWaiting /\ (MonitorStep \/ UNCHANGED vars)
    <3>1. waitingFrom'[q] = IF ~Waits(q)' THEN 0 ELSE IF w = 0 THEN now' ELSE w
      BY <2>5 DEF KeepWaiting
    <3> QED BY <2>1, <2>2, <2>3, <2>4, <2>5, <3>1
  <2>6. CASE RestartWaiting /\ \E p \in polls : FailPoll(p)
    <3>1. waitingFrom'[q] = IF Waits(q)' THEN now ELSE 0
      BY <2>6 DEF RestartWaiting
    <3>2. now' = now
      BY <2>6 DEF FailPoll
    <3> QED BY <2>2, <2>3, <3>1, <3>2
  <2>7. CASE UNCHANGED waitingVars
    <3>1. Waits(q)' <=> Waits(q)
      BY <2>7 DEF waitingVars, vars, monitorVars, Waits
    <3> QED BY <2>1, <2>2, <2>4, <2>7, <3>1 DEF waitingVars
  <2> QED BY <2>5, <2>6, <2>7 DEF WaitingNext, ChangeCalls
<1> QED BY <1>1, <1>2, <1>4 DEF WaitingInv

(* A queue with waiting calls that stays monitored is paged within a bound   *)
(* made of the settings, whatever overlapping requests and a relay that      *)
(* comes and goes showed before (queue-monitor.ts, poll()).                  *)
THEOREM WaitingIsPaged == WaitingSpec => []WaitingQueueIsPaged
<1>1. ASSUME WaitingInv, NEW q \in Queue, waitingFrom[q] > 0,
             now - waitingFrom[q] > Longest + 2 * MaxLatency + 2 * PollInterval + Threshold[q]
      PROVE  queueState[q].lastPagedAt > 0
  <2>1. /\ waitingFrom[q] \in Nat /\ PageComes(q, waitingFrom[q]) /\ phase = "running"
        /\ now \in Nat /\ nextPollAt \in Nat /\ now <= nextPollAt
        /\ \A p \in polls : p.at \in Nat /\ now - p.at <= MaxLatency
    BY <1>1 DEF WaitingInv, QueueWaits, Waits, IInv, TypeOK, Time, Poll, TimersOnTime
  <2>2. /\ now > PageBy(waitingFrom[q], q) + MaxLatency /\ PageBy(waitingFrom[q], q) \in Nat
    BY <1>1, <2>1, WaitingBounds DEF PageBy, PastThreshold, TimerBy, PollBy
  <2> QED BY <2>1, <2>2, WaitingBounds DEF PageComes
<1>2. WaitingInv => WaitingQueueIsPaged
  BY <1>1 DEF WaitingQueueIsPaged
<1> QED BY <1>2, WaitingInitInv, WaitingStep, PTL DEF WaitingSpec
=============================================================================
