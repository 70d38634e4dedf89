----------------------------- MODULE WaitWindow -----------------------------
(***************************************************************************)
(* "Longest wait" of a queue over the last hour or so: the observations    *)
(* the wallboard's poller keeps (_waitObservations in wallboard/src/lib/   *)
(* threecx-poller.ts), and the snapshots in the database from which it     *)
(* fills them after a restart and after midnight.                          *)
(*                                                                         *)
(* Where the waits come from is WaitFigures' business: here a poll finds   *)
(* any longest wait, and any wait of a call that has left.                 *)
(***************************************************************************)
EXTENDS Integers, FiniteSets, FiniteSetsExt

CONSTANTS
    Wait,          \* the waits there may be, 0 for none
    Window,        \* avgWaitWindowMinutes
    DaySpan,
    MaxClock       \* bound on the clock

ASSUME WaitWindowAssumption ==
    /\ Wait \subseteq Nat /\ 0 \in Wait
    /\ Window \in Nat /\ MaxClock \in Nat
    /\ DaySpan \in Nat \ {0}

VARIABLES
    clock,
    observations,   \* _waitObservations
    seeded,         \* _waitObservationsSeeded
    obsDate,        \* _todayMaxWaitDate, NotYet before the first poll
    snapshots,      \* the rows of QueueSnapshot
    windowPeak,     \* longestWaitWindow as it was shown last: when, how old the last pruning
                    \* was, and if the snapshots had been read (history); NotShown if it never was
    pruned,         \* when what is too old was last dropped (history)
    everFound,      \* all waits that were ever found (history)
    seedFailed      \* the last attempt to read the snapshots failed (history)

windowVars == <<clock, observations, seeded, obsDate, snapshots, windowPeak, pruned, everFound, seedFailed>>

NotYet == -1
NotShown == [peak |-> 0, at |-> 0, from |-> 0, whole |-> FALSE]
Observed(waits) == {[ts |-> clock, wait |-> w] : w \in waits \ {0}}

\* Those of a set that are no older than the window.
InWindow(set, at) == {o \in set : o.ts >= at - Window}

Peak(set) == Max({o.wait : o \in set} \cup {0})

-----------------------------------------------------------------------------
NewDay == obsDate # clock \div DaySpan

SeedAtStart == ~seeded   \* fault: midnight clears the observations alone

\* Midnight clears the observations, and they are read again.
SeedDue == ~seeded \/ NewDay

\* What a poll starts from; an attempt to read the snapshots is not repeated.
Kept(reads) ==
    (IF NewDay THEN {} ELSE observations)
        \cup (IF SeedDue /\ reads THEN InWindow(snapshots, clock) ELSE {})

\* The row a poll stores; those without a wait are not read.
Snapshot(longest) == Observed({longest})

\* What every poll does, at midnight and at the first attempt to read the snapshots.
PollBegins(reads) ==
    /\ SeedDue \/ reads
    /\ seeded' = TRUE
    /\ obsDate' = clock \div DaySpan
    /\ seedFailed' = IF SeedDue THEN ~reads ELSE seedFailed
    /\ UNCHANGED clock

Shown == [peak |-> Peak(observations'), at |-> clock, from |-> pruned', whole |-> ~seedFailed']

\* A poll that finds these waits: what has left and what is there is observed, what is
\* too old is dropped, then the snapshot is stored and the figure shown, unless the
\* database fails.
WindowPoll(longest, left, reads, stores) ==
    LET found == Observed({longest, left})
    IN  /\ PollBegins(reads)
        /\ observations' = InWindow(Kept(reads) \cup found, clock)
        /\ pruned' = clock
        /\ everFound' = everFound \cup found
        /\ IF stores THEN snapshots' = snapshots \cup Snapshot(longest) /\ windowPeak' = Shown
                     ELSE UNCHANGED <<snapshots, windowPeak>>

\* A poll in relay mode that does not find the queue in the relay's data: nothing is
\* observed and nothing dropped, a snapshot without a wait is stored, and the figure is
\* shown from what there was.
PollWithoutQueue(reads, stores) ==
    /\ PollBegins(reads)
    /\ observations' = Kept(reads)
    /\ pruned' = IF NewDay THEN clock ELSE pruned
    /\ windowPeak' = IF stores THEN Shown ELSE windowPeak
    /\ UNCHANGED <<snapshots, everFound>>

ClockTicks ==
    /\ clock < MaxClock
    /\ clock' = clock + 1
    /\ UNCHANGED <<observations, seeded, obsDate, snapshots, windowPeak, pruned, everFound, seedFailed>>

\* The process ends and starts again.
ProcessRestarts ==
    /\ seeded
    /\ observations' = {} /\ seeded' = FALSE /\ obsDate' = NotYet
    /\ windowPeak' = NotShown
    /\ UNCHANGED <<clock, snapshots, pruned, everFound, seedFailed>>

WindowInit ==
    /\ clock = 0
    /\ observations = {} /\ seeded = FALSE /\ obsDate = NotYet
    /\ snapshots = {}
    /\ windowPeak = NotShown /\ pruned = 0 /\ everFound = {} /\ seedFailed = FALSE

WindowNext ==
    \/ \E longest, left \in Wait, reads, stores \in BOOLEAN : WindowPoll(longest, left, reads, stores)
    \/ \E reads, stores \in BOOLEAN : PollWithoutQueue(reads, stores)
    \/ ClockTicks \/ ProcessRestarts

WindowSpec == WindowInit /\ [][WindowNext]_windowVars

-----------------------------------------------------------------------------
(* What should hold.                                                       *)

\* The peak that is shown is no less than any longest wait shown for the queue within
\* the window before, by this process or an earlier one, today or before midnight,
\* unless reading the snapshots failed; and it is of a wait found within the window,
\* which while the queue is missing from the relay's data stays where the last poll put
\* it that found the queue, or that began the day.
WindowPeakKept ==
    /\ windowPeak.whole => windowPeak.peak >= Peak(InWindow(snapshots, windowPeak.at))
    /\ windowPeak.peak \in {0} \cup {o.wait : o \in InWindow(everFound, windowPeak.from)}

=============================================================================
