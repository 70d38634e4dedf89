---------------------------- MODULE WaitingQueue ----------------------------
(***************************************************************************)
(* The queue monitor beside the phone system it observes: requests and     *)
(* relay payloads show the calls that really wait, and history records     *)
(* since when a queue gives the monitor nothing but reasons to page.       *)
(***************************************************************************)
EXTENDS QueueMonitor

VARIABLES
    calls,        \* the phone system: how many calls wait in each queue
    waitingFrom   \* since when the queue waits, monitored by a running
                  \* monitor none of whose requests failed; 0: it does not

waitingVars == <<vars, calls, waitingFrom>>

\* Calls come and go.
ChangeCalls ==
    /\ calls' \in Counts
    /\ UNCHANGED vars

Waits(q) == calls[q] > 0 /\ q \in monitored /\ phase = "running"

KeepWaiting ==
    waitingFrom' = [q \in Queue |-> IF ~Waits(q)'              THEN 0
                                    ELSE IF waitingFrom[q] = 0 THEN now'
                                    ELSE waitingFrom[q]]

RestartWaiting ==
    waitingFrom' = [q \in Queue |-> IF Waits(q)' THEN now ELSE 0]

MonitorStep ==
    \/ Start \/ IntervalPoll \/ Stop
    \/ \E p \in polls : AnswerPoll(p, calls) \/ FinishPoll(p)
    \/ RelayPush(calls) \/ PutRelayConfig
    \/ \E q \in Queue : SetMonitored(q)
    \/ Tick

WaitingInit ==
    /\ Init
    /\ calls \in Counts
    /\ waitingFrom = [q \in Queue |-> 0]

WaitingNext ==
    \/ MonitorStep /\ UNCHANGED calls /\ KeepWaiting
    \/ ChangeCalls /\ KeepWaiting
    \/ (\E p \in polls : FailPoll(p)) /\ UNCHANGED calls /\ RestartWaiting

WaitingSpec == WaitingInit /\ [][WaitingNext]_waitingVars

-----------------------------------------------------------------------------

Longest == IF StaleAfter > MaxLatency THEN StaleAfter ELSE MaxLatency

\* A queue that keeps waiting is paged in bounded time although polls overlap and
\* the monitor switches between the relay and the phone system: the last answer
\* or payload that is older than the wait is used up after Longest, the next poll
\* starts a timer when its answer is there, unless one that began up to then has
\* started a later one, and the first poll begun after the threshold pages.
WaitingQueueIsPaged ==
    \A q \in Queue :
        waitingFrom[q] > 0 /\ now - waitingFrom[q] >
            Longest + 2 * MaxLatency + 2 * PollInterval + Threshold[q]
        => queueState[q].lastPagedAt > 0
=============================================================================
