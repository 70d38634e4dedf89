---------------------------- MODULE WaitFigures ----------------------------
(***************************************************************************)
(* "Longest wait today" of a queue, as the wallboard's poller works it out *)
(* (wallboard/src/lib/threecx-poller.ts): from the calls that wait, from   *)
(* those that have left since the poll before, and from the maximum it has *)
(* stored in the daily summary.  Polling and relay mode have each their    *)
(* own copy of this code; they differ in how old the calls are.            *)
(*                                                                         *)
(* A poll is one step: what it awaits in between does not change its       *)
(* clock.  Polls may be far apart: the engine stops when nobody watches,   *)
(* and a poll may fail.                                                    *)
(***************************************************************************)
EXTENDS Integers, FiniteSets, FiniteSetsExt

CONSTANTS
    QueuedCall,   \* calls of the queue
    DayLength,
    Gap,          \* the longest time between polls that is not a pause
    Lag,          \* how old the calls of the relay may be
    MaxTime       \* bound on the clock

ASSUME WaitFiguresAssumption ==
    /\ IsFiniteSet(QueuedCall)
    /\ DayLength \in Nat \ {0}
    /\ Gap \in Nat /\ Lag \in Nat /\ MaxTime \in Nat

VARIABLES
    now,
    start, end,     \* when each call came to the queue and left it, Never for not yet
    lastSeen,       \* _previousQueuedCalls: when a poll last found each call there
    todayMax,       \* _todayMaxWait
    todayDate,      \* _todayMaxWaitDate, Never after a restart
    summary,        \* maxWaitSec of every day's summary, in the database
    synced,         \* the day this process last synced with its summary (history)
    shownMax,       \* the greatest wait this process showed for a call today (history)
    stored,         \* the greatest maximum ever stored for each day (history)
    paused          \* a call left during a pause between polls (history)

waitVars == <<now, start, end, lastSeen, todayMax, todayDate, summary, synced, shownMax, stored, paused>>

Never == -1
Time  == 0..MaxTime
Day(t) == t \div DayLength
Days   == {Day(t) : t \in Time}

WaitTypeOK ==
    /\ now \in Time
    /\ {start, end, lastSeen} \subseteq [QueuedCall -> Time \cup {Never}]
    /\ todayMax \in Nat /\ shownMax \in Nat
    /\ {todayDate, synced} \subseteq Days \cup {Never}
    /\ {summary, stored} \subseteq [Days -> Nat]
    /\ paused \in BOOLEAN

Greatest(waits) == Max(waits \cup {0})

-----------------------------------------------------------------------------
(* One poll.                                                               *)

\* The calls that waited at a time.
QueuedCalls(t) ==
    {c \in QueuedCall : start[c] # Never /\ start[c] <= t /\ (end[c] = Never \/ t < end[c])}

\* longestWaitSec, of the calls as of a time.
LongestWait(t) == Greatest({t - start[c] : c \in QueuedCalls(t)})

EstimatedWithoutMidpoint(c) == now - start[c]   \* fault: it is taken to have left just now

\* A call that has left is taken to have left midway between two polls.
EstimatedWait(c) == (lastSeen[c] + now + 1) \div 2 - start[c]

\* The calls that have left since they were last found.
Gone(asOf) == {c \in QueuedCall : lastSeen[c] # Never} \ QueuedCalls(asOf)

\* What a poll measures: the calls that have left and those that are there.
Measured(asOf) == {EstimatedWait(c) : c \in Gone(asOf)} \cup {LongestWait(asOf)}

\* The midnight reset.
Carried == IF todayDate = Day(now) THEN todayMax ELSE 0

BestMaxUnread == Carried   \* fault: the stored maximum is not read first

\* The sync with today's summary takes the greater of the two.
BestMax == Max({Carried, summary[Day(now)]})

\* The reset, the sync, the calls that have left and those that are there, in this
\* order.  "report" says what becomes of the sync: it may not be due, fail, or fail
\* when the stored maximum has been read.
Poll(asOf, report) ==
    LET day   == Day(now)
        reads == report \in {"stored", "readOnly"}
    IN  /\ asOf \in now - Lag..now
        /\ todayDate' = day
        /\ todayMax' = Greatest({IF reads THEN BestMax ELSE Carried} \cup Measured(asOf))
        /\ summary' = IF report = "stored" THEN [summary EXCEPT ![day] = BestMax] ELSE summary
        /\ lastSeen' = [c \in QueuedCall |-> IF c \in QueuedCalls(asOf) THEN now ELSE Never]
        /\ synced' = IF reads THEN day ELSE synced
        /\ shownMax' = Greatest(Measured(asOf) \cup IF todayDate = day THEN {shownMax} ELSE {})
        /\ stored' = [stored EXCEPT ![day] = Max({@, summary'[day]})]
        /\ paused' = (paused \/ \E c \in Gone(asOf) : now - lastSeen[c] > Gap)
        /\ UNCHANGED <<now, start, end>>

-----------------------------------------------------------------------------
(* The surroundings.                                                       *)

\* A call comes; or leaves, answered or given up.
CallArrives(c) ==
    /\ start[c] = Never
    /\ start' = [start EXCEPT ![c] = now]
    /\ UNCHANGED <<now, end, lastSeen, todayMax, todayDate, summary, synced, shownMax, stored, paused>>

CallLeaves(c) ==
    /\ start[c] # Never /\ end[c] = Never
    /\ end' = [end EXCEPT ![c] = now]
    /\ UNCHANGED <<now, start, lastSeen, todayMax, todayDate, summary, synced, shownMax, stored, paused>>

Passes ==
    /\ now < MaxTime
    /\ now' = now + 1
    /\ UNCHANGED <<start, end, lastSeen, todayMax, todayDate, summary, synced, shownMax, stored, paused>>

\* The process ends and starts again: only the database remembers.
Restart ==
    /\ todayDate # Never
    /\ lastSeen' = [c \in QueuedCall |-> Never]
    /\ todayMax' = 0 /\ todayDate' = Never
    /\ synced' = Never /\ shownMax' = 0
    /\ UNCHANGED <<now, start, end, summary, stored, paused>>

WaitInit ==
    /\ now = 0
    /\ start = [c \in QueuedCall |-> Never] /\ end = start /\ lastSeen = start
    /\ todayMax = 0 /\ todayDate = Never
    /\ summary = [d \in Days |-> 0] /\ stored = summary
    /\ synced = Never /\ shownMax = 0 /\ paused = FALSE

WaitNext ==
    \/ \E asOf \in Time, report \in {"notDue", "failed", "readOnly", "stored"} : Poll(asOf, report)
    \/ \E c \in QueuedCall : CallArrives(c) \/ CallLeaves(c)
    \/ Passes \/ Restart

WaitSpec == WaitInit /\ [][WaitNext]_waitVars

-----------------------------------------------------------------------------
(* What should hold.                                                       *)

\* The maximum that is shown is no less than any wait this process showed for a call
\* today, nor, once it has synced with today's summary, than what was ever stored
\* there, by it or before a restart; and what is stored for a day never becomes less.
ShownAtLeastSeen ==
    /\ todayMax >= shownMax
    /\ synced # Never /\ synced = todayDate => todayMax >= stored[todayDate]
    /\ summary = stored

\* How much longer than any call that waited that day the maximum is.
CallsOfDay(d) ==
    {c \in QueuedCall : /\ start[c] # Never /\ Day(start[c]) <= d
                        /\ end[c] = Never \/ end[c] >= d * DayLength - Gap - Lag}

RealWait(c) == (IF end[c] = Never THEN now ELSE end[c]) - start[c]

MaxIsActual(d, figure) ==
    figure = 0 \/ figure <= Greatest({RealWait(c) + (Gap + 1) \div 2 + Lag : c \in CallsOfDay(d)})

\* As long as no call leaves during a pause between polls, the maximum that is shown,
\* and the one that is stored, is not much more than a call has waited that day: by no
\* more than half the time between two polls and the age of the relay's calls.
ShownNotMuchMore ==
    ~paused => /\ todayDate # Never => MaxIsActual(todayDate, todayMax)
               /\ \A d \in Days : MaxIsActual(d, summary[d])

=============================================================================
