------------------------ MODULE QueueMonitorHistory -------------------------
(***************************************************************************)
(* The queue monitor with a record of what the answers it received showed: *)
(* does a page mean that the queue was waiting all the time?               *)
(***************************************************************************)
EXTENDS QueueMonitor

VARIABLES
    answeredAt,   \* when the request of the poll begun at a time was answered, 0: it
                  \* was not, or the poll has ended
    seenEmptyAt,  \* when the newest answer that showed the queue empty was taken
    clean,        \* no poll overtook the one that started the queue's timer, and
                  \* every poll since then counted the queue
    lastApplied,  \* when a poll last finished
    stoppedWith   \* how many polls were in flight when the monitor stopped

pollHistory == <<seenEmptyAt, clean, lastApplied>>
history     == <<answeredAt, pollHistory, stoppedWith>>
allVars     == <<vars, history>>

\* A poll begun at "at" for "queues" ends with counts that were true at "seenAt".
Applied(at, queues, counts, seenAt) ==
    /\ seenEmptyAt' = [q \in Queue |-> IF counts[q] = 0 /\ seenAt > seenEmptyAt[q]
                                       THEN seenAt ELSE seenEmptyAt[q]]
    /\ clean' = [q \in Queue |-> /\ Tracked(q)' /\ q \in queues
                                 /\ IF Tracked(q) THEN clean[q] ELSE lastApplied <= at]
    /\ lastApplied' = now
    /\ UNCHANGED stoppedWith

BeginObserved ==
    IF monitored # {} /\ RelayMode
    THEN Applied(now, monitored, relayData, relayAt) /\ UNCHANGED answeredAt
    ELSE UNCHANGED history

HistoryInit ==
    /\ Init
    /\ answeredAt = [t \in Time |-> 0]
    /\ seenEmptyAt = [q \in Queue |-> 0]
    /\ clean = [q \in Queue |-> FALSE]
    /\ lastApplied = 0
    /\ stoppedWith = 0

HistoryNext ==
    \/ (Start \/ IntervalPoll) /\ BeginObserved
    \/ \E p \in polls :
         /\ answeredAt' = [answeredAt EXCEPT ![p.at] = 0]
         /\ \/ FinishPoll(p) /\ Applied(p.at, p.queues, p.counts, answeredAt[p.at])
            \/ FailPoll(p) /\ UNCHANGED <<pollHistory, stoppedWith>>
    \/ \E c \in Counts :
         \/ /\ RelayPush(c)
            /\ IF phase = "running" /\ relayEnabled /\ monitored # {}
               THEN Applied(now, monitored, c, now) /\ UNCHANGED answeredAt
               ELSE UNCHANGED history
         \/ \E p \in polls : /\ AnswerPoll(p, c)
                             /\ answeredAt' = [answeredAt EXCEPT ![p.at] = now]
                             /\ UNCHANGED <<pollHistory, stoppedWith>>
    \/ /\ Stop
       /\ stoppedWith' = Cardinality(polls)
       /\ UNCHANGED <<answeredAt, pollHistory>>
    \/ /\ \/ \E q \in Queue : SetMonitored(q)
          \/ PutRelayConfig \/ Tick
       /\ UNCHANGED history

HistorySpec == HistoryInit /\ [][HistoryNext]_allVars

-----------------------------------------------------------------------------

PagesNow(q) == queueState'[q].pages > queueState[q].pages

\* A page goes out only when no answer of the last Threshold seconds showed the
\* queue empty, provided no poll overtook the one that started the timer and the
\* queue was monitored at every poll since.
PageAfterFullWait ==
    [][\A q \in Queue : PagesNow(q) /\ clean[q] => now - seenEmptyAt[q] >= Threshold[q]]_allVars

\* The polls a stopped monitor left in flight bring entries back, but the first
\* of them can only start a timer: it pages at most one time less than there were.
StoppedMonitorBound ==
    phase = "stopped" =>
        /\ Cardinality(polls) <= stoppedWith
        /\ \A q \in Queue : Tracked(q) =>
               queueState[q].pages + Cardinality(polls) < stoppedWith

=============================================================================
