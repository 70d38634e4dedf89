---------------------------- MODULE QueueMonitor ----------------------------
(***************************************************************************)
(* The queue monitor of the auto-pager (auto-pager/src/queue-monitor.ts)   *)
(* with the relay receiver that feeds it (relay-receiver.ts): when do      *)
(* calls that wait in a queue lead to a page over the loudspeakers?        *)
(*                                                                         *)
(* One action is one macrotask of Node's event loop: the code runs without *)
(* interruption up to an await.  poll() has one await, of getActiveCalls;  *)
(* what it read before (the clock, the queue configuration) it still uses  *)
(* when the answer comes, so a poll in flight carries it in a record of    *)
(* "polls".  Nothing stops the interval timer or a relay push from running *)
(* another poll meanwhile.                                                 *)
(*                                                                         *)
(* Time is a counter in the unit of the thresholds.  An entry of the map   *)
(* queueState whose "since" is 0 stands for a queue that has no entry      *)
(* (Date.now() is never 0; the clock starts at 1).                         *)
(***************************************************************************)
EXTENDS Integers, FiniteSets

CONSTANTS
    Queue,         \* the queues of the phone system
    Threshold,     \* [Queue -> Nat], threshold_seconds
    Repeat,        \* [Queue -> Nat], repeat_interval_seconds, 0: no repeat
    PollInterval,  \* poll_interval_ms
    StaleAfter,    \* DEFAULT_STALE_MS of the relay receiver
    MaxLatency,    \* a request to the phone system ends within this time
    Counts,        \* the numbers of waiting calls considered, each [Queue -> Nat]
    MaxTime        \* bound on the clock

ASSUME QueueMonitorAssumption ==
    /\ IsFiniteSet(Queue)
    /\ Threshold \in [Queue -> Nat]
    /\ Repeat \in [Queue -> Nat]
    /\ PollInterval \in Nat \ {0}
    /\ StaleAfter \in Nat \ {0}
    /\ MaxLatency \in Nat
    /\ Counts \subseteq [Queue -> Nat]
    /\ MaxTime \in Nat \ {0}

VARIABLES
    now,           \* Date.now()
    monitored,     \* queues that are enabled and have a paging extension
    phase,         \* "new", "running" or "stopped"
    nextPollAt,    \* when the interval timer fires next, 0: no timer
    polls,         \* the requests for active calls in flight
    queueState,    \* the map queueState of the monitor
    relayEnabled,  \* the setting relay_enabled
    relayData,     \* the last payload the relay pushed (_data)
    relayAt        \* when it was received (_receivedAt), 0: never

monitorVars == <<phase, nextPollAt, polls, queueState>>
relayVars   == <<relayEnabled, relayData, relayAt>>
vars == <<now, monitored, monitorVars, relayVars>>

Time   == 0..MaxTime

QueueState == [since : Time, lastPagedAt : Time, callsWaiting : Nat,
               pages : Nat]   \* pages: how often this timer has paged (history)
NoState    == [since |-> 0, lastPagedAt |-> 0, callsWaiting |-> 0, pages |-> 0]

\* A poll that awaits getActiveCalls: the clock and the queues it read, and,
\* once the phone system has answered, the calls that wait.
Poll == [at : Time, queues : SUBSET Queue, answered : BOOLEAN, counts : [Queue -> Nat]]

TypeOK ==
    /\ now \in Time \ {0}
    /\ monitored \in SUBSET Queue
    /\ phase \in {"new", "running", "stopped"}
    /\ nextPollAt \in Nat
    /\ polls \in SUBSET Poll
    /\ queueState \in [Queue -> QueueState]
    /\ relayEnabled \in BOOLEAN
    /\ relayData \in [Queue -> Nat]
    /\ relayAt \in Time

-----------------------------------------------------------------------------
(* What poll() decides.                                                    *)

Tracked(q) == queueState[q].since > 0

RelayEverHeard == relayAt > 0   \* fault: the payload never goes stale

\* isRelayFresh()
RelayFresh == relayAt > 0 /\ now - relayAt < StaleAfter

\* The page conditions for a queue with a timer, judged by a poll begun at "at".
ThresholdMetRounded(q, at) ==   \* fault: the wait rounded up
    at - queueState[q].since + 1 >= Threshold[q]

ThresholdMet(q, at) == at - queueState[q].since >= Threshold[q]

RepeatDueAlways(q, at) == Repeat[q] > 0   \* fault: no spacing

RepeatDue(q, at) ==
    /\ Repeat[q] > 0
    /\ at - queueState[q].lastPagedAt >= Repeat[q]

Due(q, at) ==
    /\ Tracked(q)
    /\ ThresholdMet(q, at)
    /\ queueState[q].lastPagedAt = 0 \/ RepeatDue(q, at)

NewTimer(at, n) == [since |-> at, lastPagedAt |-> 0, callsWaiting |-> n, pages |-> 0]

\* triggerPage(): the page event goes out and the page is stamped with "at".
PagedState(q, at, n) ==
    [queueState[q] EXCEPT !.callsWaiting = n, !.lastPagedAt = at, !.pages = @ + 1]

StateAfterKeepsEntry(q, at, n) ==   \* fault: an empty queue keeps its timer
    IF ~Tracked(q)                 THEN IF n = 0 THEN NoState ELSE NewTimer(at, n)
    ELSE IF n > 0 /\ Due(q, at)    THEN PagedState(q, at, n)
    ELSE [queueState[q] EXCEPT !.callsWaiting = n]

StateAfter(q, at, n) ==
    IF n = 0           THEN NoState
    ELSE IF ~Tracked(q) THEN NewTimer(at, n)
    ELSE IF Due(q, at)  THEN PagedState(q, at, n)
    ELSE [queueState[q] EXCEPT !.callsWaiting = n]

\* The evaluation loop of a poll begun at "at" for "queues".  It does not look at
\* "phase": the poll may outlive stop().
Evaluate(at, queues, counts) ==
    queueState' = [q \in Queue |-> IF q \in queues THEN StateAfter(q, at, counts[q])
                                                   ELSE queueState[q]]

\* poll() has monitored queues and uses the relay's payload.
RelayMode == relayEnabled /\ RelayFresh

\* poll(): returns at once when no queue is monitored, evaluates the relay's
\* payload without an await, or asks the phone system.
BeginPoll ==
    \/ /\ monitored = {}
       /\ UNCHANGED <<polls, queueState>>
    \/ /\ monitored # {} /\ RelayMode
       /\ Evaluate(now, monitored, relayData)
       /\ UNCHANGED polls
    \/ /\ monitored # {} /\ ~RelayMode
       /\ polls' = polls \cup {[at |-> now, queues |-> monitored, answered |-> FALSE,
                                counts |-> [q \in Queue |-> 0]]}
       /\ UNCHANGED queueState

-----------------------------------------------------------------------------
(* The monitor.                                                            *)

\* start(): an immediate poll, then the interval timer.
Start ==
    /\ phase = "new"
    /\ phase' = "running"
    /\ nextPollAt' = now + PollInterval
    /\ BeginPoll
    /\ UNCHANGED <<now, monitored, relayVars>>

\* The interval timer fires.  It does not wait for the previous poll.
IntervalPoll ==
    /\ nextPollAt > 0 /\ now >= nextPollAt
    /\ nextPollAt' = now + PollInterval
    /\ BeginPoll
    /\ UNCHANGED <<now, monitored, phase, relayVars>>

\* getActiveCalls() resolves: the rest of poll().
FinishPoll(p) ==
    /\ p \in polls /\ p.answered
    /\ polls' = polls \ {p}
    /\ Evaluate(p.at, p.queues, p.counts)
    /\ UNCHANGED <<now, monitored, phase, nextPollAt, relayVars>>

\* getActiveCalls() rejects: poll() logs and returns.
FailPoll(p) ==
    /\ p \in polls
    /\ polls' = polls \ {p}
    /\ UNCHANGED <<now, monitored, phase, nextPollAt, queueState, relayVars>>

StopKeepsEntries ==   \* fault: queueState is not cleared
    /\ phase = "running"
    /\ phase' = "stopped"
    /\ nextPollAt' = 0
    /\ UNCHANGED <<now, monitored, polls, queueState, relayVars>>

\* stop(): no timer, no relay handler, no entries; requests in flight go on.
Stop ==
    /\ phase = "running"
    /\ phase' = "stopped"
    /\ nextPollAt' = 0
    /\ queueState' = [q \in Queue |-> NoState]
    /\ UNCHANGED <<now, monitored, polls, relayVars>>

-----------------------------------------------------------------------------
(* Its surroundings.                                                       *)

\* A push of the relay: setRelayData() stores the payload and calls the handler
\* that start() registered, which polls if the relay is enabled (the payload is
\* fresh: it has just come).  The flag that keeps a second push from polling is
\* cleared before the event loop can take one up, for this poll has no await.
RelayPush(c) ==
    /\ relayData' = c
    /\ relayAt' = now
    /\ IF phase = "running" /\ relayEnabled /\ monitored # {}
       THEN Evaluate(now, monitored, c)
       ELSE UNCHANGED queueState
    /\ UNCHANGED <<now, monitored, phase, nextPollAt, polls, relayEnabled>>

\* PUT /relay/config
PutRelayConfig ==
    /\ relayEnabled' = ~relayEnabled
    /\ UNCHANGED <<now, monitored, monitorVars, relayData, relayAt>>

\* An administrator adds, edits or removes a monitored queue.  The entry the
\* monitor holds for the queue stays.
SetMonitored(q) ==
    /\ monitored' = IF q \in monitored THEN monitored \ {q} ELSE monitored \cup {q}
    /\ UNCHANGED <<now, monitorVars, relayVars>>

\* The phone system answers a request: "c" calls wait in the queues.
AnswerPoll(p, c) ==
    /\ p \in polls /\ ~p.answered
    /\ polls' = (polls \ {p}) \cup {[p EXCEPT !.answered = TRUE, !.counts = c]}
    /\ UNCHANGED <<now, monitored, phase, nextPollAt, queueState, relayVars>>

\* Time passes.  The interval timer fires on time and a request ends in time.
Tick ==
    /\ now < MaxTime
    /\ nextPollAt > 0 => now < nextPollAt
    /\ \A p \in polls : now - p.at < MaxLatency
    /\ now' = now + 1
    /\ UNCHANGED <<monitored, monitorVars, relayVars>>

-----------------------------------------------------------------------------

Init ==
    /\ now = 1
    /\ monitored \in SUBSET Queue
    /\ phase = "new"
    /\ nextPollAt = 0
    /\ polls = {}
    /\ queueState = [q \in Queue |-> NoState]
    /\ relayEnabled \in BOOLEAN
    /\ relayData = [q \in Queue |-> 0]
    /\ relayAt = 0

Next ==
    \/ Start \/ IntervalPoll \/ Stop
    \/ \E p \in polls : FinishPoll(p) \/ FailPoll(p)
    \/ \E c \in Counts : RelayPush(c) \/ \E p \in polls : AnswerPoll(p, c)
    \/ PutRelayConfig
    \/ \E q \in Queue : SetMonitored(q)
    \/ Tick

Spec == Init /\ [][Next]_vars

-----------------------------------------------------------------------------
(* What should hold.                                                       *)

\* A timer pages no earlier than its threshold, and its pages are at least the
\* repeat interval apart: the n-th page is stamped Threshold + (n - 1) * Repeat
\* after the timer's start or later, and nothing is stamped in the future,
\* whatever the order in which overlapping polls end.
PagesPaced ==
    \A q \in Queue : LET s == queueState[q] IN
        /\ s.since <= now /\ s.lastPagedAt <= now
        /\ s.pages = 0 <=> s.lastPagedAt = 0
        /\ s.pages > 0 => s.lastPagedAt >= s.since + Threshold[q] + (s.pages - 1) * Repeat[q]

\* A queue without a repeat interval is paged once per timer.
OnePageWithoutRepeat ==
    \A q \in Queue : Repeat[q] = 0 => queueState[q].pages <= 1

\* The monitor keeps the promise of its header comment.
Promise == INSTANCE PagingTimer WITH
    timer <- [q \in Queue |-> [since       |-> queueState[q].since,
                               lastPagedAt |-> queueState[q].lastPagedAt,
                               pages       |-> queueState[q].pages]]

PagingPromise == Promise!Spec

=============================================================================
