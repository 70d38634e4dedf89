------------------------- MODULE QueueMonitorProofs -------------------------
(***************************************************************************)
(* What holds of the queue monitor for every set of queues, every          *)
(* threshold and interval, and every bound.                                *)
(*                                                                         *)
(* An evaluation, be it of the relay's payload or of a request that was in *)
(* flight, is judged at an instant between 1 and now.  That, and the       *)
(* bookkeeping of the pages of one timer, is all the proofs need of the    *)
(* order in which overlapping polls end.                                   *)
(***************************************************************************)
EXTENDS QueueMonitor, TLAPS

\* Polls in flight and payloads are stamped with instants of the past.
StampsInPast ==
    /\ \A p \in polls : p.at \in 1..now
    /\ relayAt <= now

\* The invariant the proofs carry from state to state.
IInv == TypeOK /\ StampsInPast /\ PagesPaced /\ OnePageWithoutRepeat

-----------------------------------------------------------------------------
(* One evaluation of one queue.                                            *)

LEMMA StateAfterType ==
    ASSUME TypeOK, NEW q \in Queue, NEW at \in 1..now, NEW n \in Nat
    PROVE  StateAfter(q, at, n) \in QueueState
<1>1. queueState[q] \in QueueState /\ at \in Time
  BY QueueMonitorAssumption DEF TypeOK, Time
<1>2. NoState \in QueueState /\ NewTimer(at, n) \in QueueState
  BY <1>1, QueueMonitorAssumption DEF NoState, NewTimer, QueueState, Time
<1>3. PagedState(q, at, n) \in QueueState
  <2>1. queueState[q].pages + 1 \in Nat
    BY <1>1 DEF QueueState
  <2> QED BY <1>1, <2>1 DEF PagedState, QueueState
<1>4. [queueState[q] EXCEPT !.callsWaiting = n] \in QueueState
  BY <1>1 DEF QueueState
<1> QED BY <1>2, <1>3, <1>4 DEF StateAfter

\* What an evaluation may do to the entry of a queue, in terms of the fields
\* the properties speak of.
EntryStep(q, at, s, t) ==
    \/ t.since = 0 /\ t.lastPagedAt = 0 /\ t.pages = 0
    \/ s.since = 0 /\ t.since = at /\ t.lastPagedAt = 0 /\ t.pages = 0
    \/ t.since = s.since /\ t.lastPagedAt = s.lastPagedAt /\ t.pages = s.pages
    \/ /\ s.since > 0 /\ at - s.since >= Threshold[q]
       /\ s.lastPagedAt = 0 \/ (Repeat[q] > 0 /\ at - s.lastPagedAt >= Repeat[q])
       /\ t.since = s.since /\ t.lastPagedAt = at /\ t.pages = s.pages + 1

LEMMA StateAfterStep ==
    ASSUME TypeOK, NEW q \in Queue, NEW at \in 1..now, NEW n \in Nat
    PROVE  EntryStep(q, at, queueState[q], StateAfter(q, at, n))
<1>1. queueState[q] \in QueueState
  BY DEF TypeOK
<1>2. CASE n = 0
  BY <1>2 DEF StateAfter, NoState, EntryStep
<1>3. CASE n # 0 /\ ~Tracked(q)
  BY <1>1, <1>3 DEF StateAfter, NewTimer, EntryStep, Tracked, QueueState, Time
<1>4. CASE n # 0 /\ Tracked(q) /\ Due(q, at)
  BY <1>1, <1>4 DEF StateAfter, PagedState, EntryStep, Tracked, Due, ThresholdMet,
                    RepeatDue, QueueState, Time
<1>5. CASE n # 0 /\ Tracked(q) /\ ~Due(q, at)
  BY <1>1, <1>5 DEF StateAfter, EntryStep, QueueState, Time
<1> QED BY <1>2, <1>3, <1>4, <1>5

\* The conjunct of PagesPaced and OnePageWithoutRepeat for one entry.
EntryPaced(q, s, time) ==
    /\ s.since <= time /\ s.lastPagedAt <= time
    /\ s.pages = 0 <=> s.lastPagedAt = 0
    /\ s.pages > 0 => s.lastPagedAt >= s.since + Threshold[q] + (s.pages - 1) * Repeat[q]
    /\ Repeat[q] = 0 => s.pages <= 1

LEMMA OneMore ==
    ASSUME NEW n \in Nat, NEW r \in Nat
    PROVE  n * r = (n - 1) * r + r
OBVIOUS

LEMMA EntryStepPaced ==
    ASSUME NEW time \in Nat, NEW q \in Queue, NEW at \in 1..time,
           NEW s \in QueueState, NEW t \in QueueState,
           EntryPaced(q, s, time), EntryStep(q, at, s, t)
    PROVE  EntryPaced(q, t, time)
<1> DEFINE T == Threshold[q]
           R == Repeat[q]
<1>1. T \in Nat /\ R \in Nat
  BY QueueMonitorAssumption
<1>2. /\ s.since \in Nat /\ s.lastPagedAt \in Nat /\ s.pages \in Nat
      /\ t.since \in Nat /\ t.lastPagedAt \in Nat /\ t.pages \in Nat
  BY QueueMonitorAssumption DEF QueueState, Time
<1>3. CASE t.since = 0 /\ t.lastPagedAt = 0 /\ t.pages = 0
  BY <1>3 DEF EntryPaced
<1>4. CASE s.since = 0 /\ t.since = at /\ t.lastPagedAt = 0 /\ t.pages = 0
  BY <1>4 DEF EntryPaced
<1>5. CASE t.since = s.since /\ t.lastPagedAt = s.lastPagedAt /\ t.pages = s.pages
  BY <1>5 DEF EntryPaced
<1>6. CASE /\ s.since > 0 /\ at - s.since >= T
           /\ s.lastPagedAt = 0 \/ (R > 0 /\ at - s.lastPagedAt >= R)
           /\ t.since = s.since /\ t.lastPagedAt = at /\ t.pages = s.pages + 1
  <2>1. t.since <= time /\ t.lastPagedAt <= time /\ t.lastPagedAt # 0 /\ t.pages # 0
    BY <1>2, <1>6 DEF EntryPaced
  <2>2. CASE s.lastPagedAt = 0
    <3>1. s.pages = 0 /\ t.pages = 1
      BY <1>6, <2>2 DEF EntryPaced
    <3>2. (t.pages - 1) * R = 0
      BY <1>1, <3>1
    <3>3. t.lastPagedAt >= t.since + T + (t.pages - 1) * R
      BY <1>1, <1>2, <1>6, <3>2
    <3> QED BY <2>1, <3>1, <3>3 DEF EntryPaced
  <2>3. CASE s.lastPagedAt # 0 /\ R > 0 /\ at - s.lastPagedAt >= R
    <3>1. s.pages > 0 /\ s.lastPagedAt >= s.since + T + (s.pages - 1) * R
      BY <1>2, <2>3 DEF EntryPaced
    <3>2. (t.pages - 1) * R = (s.pages - 1) * R + R /\ (s.pages - 1) * R \in Int
      BY <1>1, <1>2, <1>6, OneMore
    <3>3. t.lastPagedAt >= t.since + T + (t.pages - 1) * R
      BY <1>1, <1>2, <1>6, <2>3, <3>1, <3>2
    <3> QED BY <1>1, <2>1, <2>3, <3>3 DEF EntryPaced
  <2> QED BY <1>6, <2>2, <2>3
<1> QED BY <1>3, <1>4, <1>5, <1>6 DEF EntryStep
-----------------------------------------------------------------------------
(* One evaluation of all queues.                                           *)

LEMMA EvaluateStep ==
    ASSUME IInv, NEW at \in 1..now, NEW queues \in SUBSET Queue,
           NEW counts \in [Queue -> Nat], Evaluate(at, queues, counts)
    PROVE  /\ queueState' \in [Queue -> QueueState]
           /\ \A q \in Queue : \/ queueState'[q] = queueState[q]
                               \/ EntryStep(q, at, queueState[q], queueState'[q])
<1>1. \A q \in Queue : queueState'[q] = IF q \in queues THEN StateAfter(q, at, counts[q])
                                                        ELSE queueState[q]
  BY DEF Evaluate
<1>2. \A q \in Queue : StateAfter(q, at, counts[q]) \in QueueState
  BY StateAfterType DEF IInv
<1>3. \A q \in Queue : EntryStep(q, at, queueState[q], StateAfter(q, at, counts[q]))
  BY StateAfterStep DEF IInv
<1>4. queueState' \in [Queue -> QueueState]
  BY <1>2 DEF Evaluate, IInv, TypeOK
<1> QED BY <1>1, <1>3, <1>4

\* The entries stay paced when each is left alone or makes one step.
LEMMA PacedStep ==
    ASSUME IInv, NEW at \in 1..now, now' = now,
           queueState' \in [Queue -> QueueState],
           \A q \in Queue : \/ queueState'[q] = queueState[q]
                            \/ EntryStep(q, at, queueState[q], queueState'[q])
    PROVE  PagesPaced' /\ OnePageWithoutRepeat'
<1>1. now \in Nat
  BY QueueMonitorAssumption DEF IInv, TypeOK, Time
<1>2. \A q \in Queue : EntryPaced(q, queueState[q], now)
  BY DEF IInv, PagesPaced, OnePageWithoutRepeat, EntryPaced
<1>3. ASSUME NEW q \in Queue
      PROVE  EntryPaced(q, queueState'[q], now)
  <2>1. queueState[q] \in QueueState /\ queueState'[q] \in QueueState
    BY DEF IInv, TypeOK
  <2> QED BY <1>1, <1>2, <2>1, EntryStepPaced
<1> QED BY <1>3 DEF PagesPaced, OnePageWithoutRepeat, EntryPaced

\* The four ways a step treats the entries: an evaluation, stop(), or not at all.
LEMMA EntriesUnchanged ==
    ASSUME IInv, now' \in Nat, now <= now', queueState' = queueState
    PROVE  /\ queueState' \in [Queue -> QueueState]
           /\ PagesPaced' /\ OnePageWithoutRepeat'
<1>1. now \in Nat /\ \A q \in Queue : queueState[q].since \in Nat /\ queueState[q].lastPagedAt \in Nat
  BY QueueMonitorAssumption DEF IInv, TypeOK, QueueState, Time
<1> QED BY <1>1 DEF IInv, TypeOK, PagesPaced, OnePageWithoutRepeat

LEMMA EntriesEvaluated ==
    ASSUME IInv, NEW at \in 1..now, NEW queues \in SUBSET Queue, now' = now,
           NEW counts \in [Queue -> Nat], Evaluate(at, queues, counts)
    PROVE  /\ queueState' \in [Queue -> QueueState]
           /\ PagesPaced' /\ OnePageWithoutRepeat'
BY EvaluateStep, PacedStep

\* A poll that begins leaves the entries alone or evaluates them at once.
LEMMA BeginPollStep ==
    ASSUME IInv, BeginPoll, now' = now
    PROVE  /\ queueState' \in [Queue -> QueueState]
           /\ PagesPaced' /\ OnePageWithoutRepeat'
           /\ polls' \in SUBSET Poll
           /\ \A p \in polls' : p.at \in 1..now
<1>1. now \in 1..now /\ now \in Time /\ now \in Nat
  BY QueueMonitorAssumption DEF IInv, TypeOK, Time
<1>2. polls \in SUBSET Poll /\ \A p \in polls : p.at \in 1..now
  BY DEF IInv, TypeOK, StampsInPast
<1>3. CASE UNCHANGED <<polls, queueState>>
  BY <1>1, <1>2, <1>3, EntriesUnchanged
<1>4. CASE Evaluate(now, monitored, relayData) /\ UNCHANGED polls
  BY <1>1, <1>2, <1>4, EntriesEvaluated DEF IInv, TypeOK
<1>5. CASE /\ polls' = polls \cup {[at |-> now, queues |-> monitored, answered |-> FALSE,
                                    counts |-> [q \in Queue |-> 0]]}
           /\ UNCHANGED queueState
  <2> DEFINE new == [at |-> now, queues |-> monitored, answered |-> FALSE,
                     counts |-> [q \in Queue |-> 0]]
  <2>1. new \in Poll /\ new.at \in 1..now
    BY <1>1 DEF Poll, IInv, TypeOK
  <2>2. /\ queueState' \in [Queue -> QueueState]
        /\ PagesPaced' /\ OnePageWithoutRepeat'
    BY <1>1, <1>5, EntriesUnchanged
  <2>3. polls' \in SUBSET Poll /\ \A p \in polls' : p.at \in 1..now
    BY <1>2, <1>5, <2>1
  <2> QED BY <2>2, <2>3
<1> QED BY <1>3, <1>4, <1>5 DEF BeginPoll

-----------------------------------------------------------------------------
(* The invariant.                                                          *)

LEMMA InitInv == Init => IInv
<1> SUFFICES ASSUME Init PROVE IInv
  OBVIOUS
<1>1. NoState \in QueueState
  BY QueueMonitorAssumption DEF NoState, QueueState, Time
<1>2. TypeOK
  BY <1>1, QueueMonitorAssumption DEF Init, TypeOK, Time
<1>3. StampsInPast
  BY DEF Init, StampsInPast
<1>4. PagesPaced /\ OnePageWithoutRepeat
  BY DEF Init, PagesPaced, OnePageWithoutRepeat, NoState
<1> QED BY <1>2, <1>3, <1>4 DEF IInv

LEMMA NextInv == IInv /\ [Next]_vars => IInv'
<1> SUFFICES ASSUME IInv, [Next]_vars PROVE IInv'
  OBVIOUS
<1> USE QueueMonitorAssumption
<1>1. /\ now \in Time \ {0} /\ now \in Nat /\ now \in 1..now /\ nextPollAt \in Nat
      /\ monitored \in SUBSET Queue /\ phase \in {"new", "running", "stopped"}
      /\ relayEnabled \in BOOLEAN /\ relayData \in [Queue -> Nat] /\ relayAt \in Time
      /\ polls \in SUBSET Poll /\ \A p \in polls : p.at \in 1..now
      /\ relayAt <= now
  BY DEF IInv, TypeOK, StampsInPast, Time
<1>2. CASE Start
  <2>1. now' = now /\ BeginPoll
    BY <1>2 DEF Start
  <2> QED BY <1>1, <1>2, <2>1, BeginPollStep DEF Start, IInv, TypeOK, StampsInPast, relayVars
<1>3. CASE IntervalPoll
  <2>1. now' = now /\ BeginPoll
    BY <1>3 DEF IntervalPoll
  <2> QED BY <1>1, <1>3, <2>1, BeginPollStep
          DEF IntervalPoll, IInv, TypeOK, StampsInPast, relayVars
<1>4. CASE Stop
  <2>1. NoState \in QueueState
    BY DEF NoState, QueueState, Time
  <2>2. PagesPaced' /\ OnePageWithoutRepeat'
    BY <1>1, <1>4 DEF Stop, PagesPaced, OnePageWithoutRepeat, NoState
  <2> QED BY <1>1, <1>4, <2>1, <2>2 DEF Stop, IInv, TypeOK, StampsInPast, relayVars
<1>5. ASSUME NEW p \in polls, FinishPoll(p) PROVE IInv'
  <2>1. /\ p.at \in 1..now /\ p.queues \in SUBSET Queue /\ p.counts \in [Queue -> Nat]
        /\ now' = now
    BY <1>1, <1>5 DEF FinishPoll, Poll
  <2>2. Evaluate(p.at, p.queues, p.counts)
    BY <1>5 DEF FinishPoll
  <2>3. /\ queueState' \in [Queue -> QueueState]
        /\ PagesPaced' /\ OnePageWithoutRepeat'
    BY <2>1, <2>2, EntriesEvaluated
  <2> QED BY <1>1, <1>5, <2>3 DEF FinishPoll, IInv, TypeOK, StampsInPast, relayVars
<1>6. ASSUME NEW p \in polls, FailPoll(p) PROVE IInv'
  <2>1. now' = now /\ queueState' = queueState
    BY <1>6 DEF FailPoll
  <2> QED BY <1>1, <1>6, <2>1, EntriesUnchanged DEF FailPoll, IInv, TypeOK, StampsInPast, relayVars
<1>7. ASSUME NEW c \in Counts, RelayPush(c) PROVE IInv'
  <2>1. now' = now /\ c \in [Queue -> Nat]
    BY <1>7 DEF RelayPush
  <2>2. Evaluate(now, monitored, c) \/ UNCHANGED queueState
    BY <1>7 DEF RelayPush
  <2>3. /\ queueState' \in [Queue -> QueueState]
        /\ PagesPaced' /\ OnePageWithoutRepeat'
    BY <1>1, <2>1, <2>2, EntriesEvaluated, EntriesUnchanged
  <2> QED BY <1>1, <1>7, <2>1, <2>3 DEF RelayPush, IInv, TypeOK, StampsInPast
<1>8. ASSUME NEW c \in Counts, NEW p \in polls, AnswerPoll(p, c) PROVE IInv'
  <2>1. now' = now /\ queueState' = queueState
    BY <1>8 DEF AnswerPoll
  <2>2. [p EXCEPT !.answered = TRUE, !.counts = c] \in Poll
    BY <1>1 DEF Poll
  <2>3. polls' \in SUBSET Poll /\ \A r \in polls' : r.at \in 1..now
    BY <1>1, <1>8, <2>2 DEF AnswerPoll, Poll
  <2> QED BY <1>1, <1>8, <2>1, <2>3, EntriesUnchanged
          DEF AnswerPoll, IInv, TypeOK, StampsInPast, relayVars
<1>9. CASE PutRelayConfig
  <2>1. now' = now /\ queueState' = queueState
    BY <1>9 DEF PutRelayConfig, monitorVars
  <2> QED BY <1>1, <1>9, <2>1, EntriesUnchanged
          DEF PutRelayConfig, IInv, TypeOK, StampsInPast, monitorVars
<1>10. ASSUME NEW q \in Queue, SetMonitored(q) PROVE IInv'
  <2>1. now' = now /\ queueState' = queueState
    BY <1>10 DEF SetMonitored, monitorVars
  <2>2. monitored' \in SUBSET Queue
    BY <1>1, <1>10 DEF SetMonitored
  <2> QED BY <1>1, <1>10, <2>1, <2>2, EntriesUnchanged
          DEF SetMonitored, IInv, TypeOK, StampsInPast, monitorVars, relayVars
<1>11. CASE Tick
  <2>1. now' = now + 1 /\ now' \in Time \ {0} /\ queueState' = queueState
    BY <1>1, <1>11 DEF Tick, monitorVars, Time
  <2>2. \A p \in polls : p.at \in 1..now'
    BY <1>1, <2>1
  <2>3. relayAt <= now' /\ now <= now' /\ now' \in Nat
    BY <1>1, <2>1 DEF Time
  <2> QED BY <1>1, <1>11, <2>1, <2>2, <2>3, EntriesUnchanged
          DEF Tick, IInv, TypeOK, StampsInPast, monitorVars, relayVars
<1>12. CASE UNCHANGED vars
  <2>1. now' = now /\ queueState' = queueState
    BY <1>12 DEF vars, monitorVars
  <2> QED BY <1>1, <1>12, <2>1, EntriesUnchanged
          DEF vars, IInv, TypeOK, StampsInPast, monitorVars, relayVars
<1> QED BY <1>2, <1>3, <1>4, <1>5, <1>6, <1>7, <1>8, <1>9, <1>10, <1>11, <1>12 DEF Next

\* The variables of the monitor and of the relay receiver keep their types.
THEOREM TypeCorrect == Spec => []TypeOK
<1>1. IInv => TypeOK
  BY DEF IInv
<1> QED BY <1>1, InitInv, NextInv, PTL DEF Spec

\* No timer pages before its threshold or twice within its repeat interval,
\* whatever the order in which polls end (queue-monitor.ts, the loop of poll()).
THEOREM PagesArePaced == Spec => []PagesPaced
<1>1. IInv => PagesPaced
  BY DEF IInv
<1> QED BY <1>1, InitInv, NextInv, PTL DEF Spec

\* A repeat interval of 0 means one page per timer.
THEOREM OnePage == Spec => []OnePageWithoutRepeat
<1>1. IInv => OnePageWithoutRepeat
  BY DEF IInv
<1> QED BY <1>1, InitInv, NextInv, PTL DEF Spec

-----------------------------------------------------------------------------
(* The promise of the header comment.                                      *)

\* The timer of the abstract specification.
TimerOf(s) == [since |-> s.since, lastPagedAt |-> s.lastPagedAt, pages |-> s.pages]
Timers     == [q \in Queue |-> TimerOf(queueState[q])]

LEMMA InitPromise == Init => Promise!Init
BY DEF Init, Promise!Init, Promise!Idle, NoState

\* A step that leaves the entries alone or changes each as EntryStep allows is,
\* seen from the timers, a stutter or an evaluation.
LEMMA EntryStepsKeepPromise ==
    ASSUME IInv, IInv', now' = now, NEW at \in 1..now,
           \A q \in Queue : \/ queueState'[q] = queueState[q]
                            \/ EntryStep(q, at, queueState[q], queueState'[q])
    PROVE  Promise!Next
<1>1. now \in Nat
  BY QueueMonitorAssumption DEF IInv, TypeOK, Time
<1>2. \A q \in Queue : queueState[q] \in QueueState /\ queueState'[q] \in QueueState
  BY DEF IInv, TypeOK
<1>3. ASSUME NEW q \in Queue PROVE Promise!QueueStep(q)
  <2> DEFINE s == queueState[q]
             t == queueState'[q]
  <2>1. /\ Timers[q] = TimerOf(s) /\ Timers'[q] = TimerOf(t)
        /\ s.since \in Nat /\ s.lastPagedAt \in Nat /\ s.pages \in Nat
        /\ Threshold[q] \in Nat /\ Repeat[q] \in Nat
    BY <1>2, QueueMonitorAssumption DEF Timers, QueueState, Time
  <2>2. s.pages = 0 <=> s.lastPagedAt = 0
    BY DEF IInv, PagesPaced
  <2>3. CASE t = s
    BY <2>1, <2>3 DEF Promise!QueueStep, Timers, TimerOf
  <2>4. CASE t.since = 0 /\ t.lastPagedAt = 0 /\ t.pages = 0
    BY <2>1, <2>4 DEF Promise!QueueStep, Promise!Reset, Promise!Idle, Timers, TimerOf
  <2>5. CASE s.since = 0 /\ t.since = at /\ t.lastPagedAt = 0 /\ t.pages = 0
    BY <2>1, <2>5 DEF Promise!QueueStep, Promise!StartTimer, Timers, TimerOf
  <2>6. CASE t.since = s.since /\ t.lastPagedAt = s.lastPagedAt /\ t.pages = s.pages
    BY <2>1, <2>6 DEF Promise!QueueStep, Timers, TimerOf
  <2>7. CASE /\ s.since > 0 /\ at - s.since >= Threshold[q]
             /\ s.lastPagedAt = 0 \/ (Repeat[q] > 0 /\ at - s.lastPagedAt >= Repeat[q])
             /\ t.since = s.since /\ t.lastPagedAt = at /\ t.pages = s.pages + 1
    <3>1. at >= s.since + Threshold[q]
      BY <2>1, <2>7
    <3>2. CASE s.lastPagedAt = 0
      <4>1. s.pages = 0 /\ t.pages = 1
        BY <2>1, <2>2, <2>7, <3>2
      <4>2. Promise!FirstPage(q, at)
        BY <2>1, <2>7, <3>1, <4>1 DEF Promise!FirstPage, Promise!Page, Timers, TimerOf
      <4> QED BY <4>2 DEF Promise!QueueStep
    <3>3. CASE s.lastPagedAt # 0 /\ Repeat[q] > 0 /\ at - s.lastPagedAt >= Repeat[q]
      <4>1. s.pages > 0 /\ at >= s.lastPagedAt + Repeat[q]
        BY <2>1, <2>2, <3>3
      <4>2. Promise!RepeatPage(q, at)
        BY <2>1, <2>7, <3>3, <4>1 DEF Promise!RepeatPage, Promise!Page, Timers, TimerOf
      <4> QED BY <4>2 DEF Promise!QueueStep
    <3> QED BY <2>7, <3>2, <3>3
  <2> QED BY <2>3, <2>4, <2>5, <2>6, <2>7 DEF EntryStep
<1>4. Timers' \in [Queue -> [since : 0..now, lastPagedAt : 0..now, pages : Nat]]
  <2>1. \A q \in Queue : /\ queueState'[q].since \in 0..now
                         /\ queueState'[q].lastPagedAt \in 0..now
                         /\ queueState'[q].pages \in Nat
    BY <1>1, <1>2, QueueMonitorAssumption DEF IInv, PagesPaced, QueueState, Time
  <2> QED BY <2>1 DEF Timers, TimerOf
<1> QED BY <1>3, <1>4 DEF Promise!Next, Promise!Evaluate, Timers, TimerOf

LEMMA NextPromise == IInv /\ IInv' /\ [Next]_vars => [Promise!Next]_(Promise!vars)
<1> SUFFICES ASSUME IInv, IInv', [Next]_vars
             PROVE  Promise!Next \/ UNCHANGED Promise!vars
  OBVIOUS
<1>1. /\ now \in 1..now /\ monitored \in SUBSET Queue /\ relayData \in [Queue -> Nat]
      /\ \A p \in polls : /\ p.at \in 1..now /\ p.queues \in SUBSET Queue
                          /\ p.counts \in [Queue -> Nat]
  BY QueueMonitorAssumption DEF IInv, TypeOK, StampsInPast, Time, Poll
<1>2. ASSUME now' = now, NEW at \in 1..now, NEW queues \in SUBSET Queue,
             NEW counts \in [Queue -> Nat], Evaluate(at, queues, counts)
      PROVE  Promise!Next
  BY <1>2, EvaluateStep, EntryStepsKeepPromise
<1>3. ASSUME now' = now, queueState' = queueState PROVE UNCHANGED Promise!vars
  BY <1>3 DEF Promise!vars
<1>4. CASE Start \/ IntervalPoll
  <2>1. now' = now /\ BeginPoll
    BY <1>4 DEF Start, IntervalPoll
  <2>2. Evaluate(now, monitored, relayData) \/ UNCHANGED queueState
    BY <2>1 DEF BeginPoll
  <2> QED BY <1>1, <1>2, <1>3, <2>1, <2>2
<1>5. CASE Stop
  <2>1. now' = now /\ queueState' = [q \in Queue |-> NoState]
    BY <1>5 DEF Stop
  <2>2. \A q \in Queue : EntryStep(q, now, queueState[q], queueState'[q])
    BY <2>1 DEF EntryStep, NoState
  <2> QED BY <1>1, <2>1, <2>2, EntryStepsKeepPromise
<1>6. ASSUME NEW p \in polls, FinishPoll(p) PROVE Promise!Next
  BY <1>1, <1>2, <1>6 DEF FinishPoll
<1>7. ASSUME NEW c \in Counts, RelayPush(c) PROVE Promise!Next \/ UNCHANGED Promise!vars
  <2>1. now' = now /\ c \in [Queue -> Nat]
    BY <1>7, QueueMonitorAssumption DEF RelayPush
  <2>2. Evaluate(now, monitored, c) \/ UNCHANGED queueState
    BY <1>7 DEF RelayPush
  <2> QED BY <1>1, <1>2, <1>3, <2>1, <2>2
<1>8. CASE Tick
  BY <1>8 DEF Tick, monitorVars, Promise!Next, Promise!Advance
<1>9. CASE \/ \E p \in polls : FailPoll(p)
           \/ \E c \in Counts, p \in polls : AnswerPoll(p, c)
           \/ \E q \in Queue : SetMonitored(q)
           \/ PutRelayConfig
           \/ UNCHANGED vars
  BY <1>3, <1>9 DEF FailPoll, AnswerPoll, SetMonitored, PutRelayConfig, vars, monitorVars
<1> QED BY <1>4, <1>5, <1>6, <1>7, <1>8, <1>9 DEF Next

\* The monitor implements PagingTimer, the reading of its header comment: a
\* timer starts when a queue is seen to fill, pages at the threshold and at the
\* repeat interval, and is reset when the queue is seen empty.
THEOREM KeepsPromise == Spec => PagingPromise
<1>1. Init /\ [][Next]_vars => []IInv
  BY InitInv, NextInv, PTL
<1> QED BY <1>1, InitPromise, NextPromise, PTL DEF Spec, PagingPromise, Promise!Spec

=============================================================================
