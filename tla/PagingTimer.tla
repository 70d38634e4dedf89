----------------------------- MODULE PagingTimer -----------------------------
(***************************************************************************)
(* What the auto-pager promises of a queue, as the comment that heads      *)
(* auto-pager/src/queue-monitor.ts words it:                               *)
(*     Queue goes 0 -> 1+ calls:  start timer                              *)
(*     Timer hits threshold:      page (first)                             *)
(*     Repeat interval:           page again (while calls > 0)             *)
(*     Queue goes back to 0:      stop timer, reset                        *)
(* The polls are abstracted away: a timer starts or pages at an instant    *)
(* "at" that is not in the future, and any set of queues may do so at once.*)
(***************************************************************************)
EXTENDS Integers

CONSTANTS Queue, Threshold, Repeat

VARIABLES
    now,
    timer   \* [Queue -> [since, lastPagedAt, pages]], since = 0: no timer

vars == <<now, timer>>

Idle == [since |-> 0, lastPagedAt |-> 0, pages |-> 0]

StartTimer(q, at) ==
    /\ timer[q].since = 0
    /\ timer'[q] = [since |-> at, lastPagedAt |-> 0, pages |-> 0]

Page(q, at) ==
    timer'[q] = [since |-> timer[q].since, lastPagedAt |-> at, pages |-> timer[q].pages + 1]

\* The n-th page of a timer comes Threshold + (n - 1) * Repeat after its start
\* or later; without a repeat interval there is one page.
FirstPage(q, at) ==
    /\ timer[q].since > 0 /\ timer[q].pages = 0
    /\ at >= timer[q].since + Threshold[q]
    /\ Page(q, at)

RepeatPage(q, at) ==
    /\ timer[q].pages > 0 /\ Repeat[q] > 0
    /\ at >= timer[q].lastPagedAt + Repeat[q]
    /\ Page(q, at)

Reset(q) == timer'[q] = Idle

QueueStep(q) ==
    \/ timer'[q] = timer[q]
    \/ Reset(q)
    \/ \E at \in 1..now : StartTimer(q, at) \/ FirstPage(q, at) \/ RepeatPage(q, at)

Init == now = 1 /\ timer = [q \in Queue |-> Idle]

Advance == now' = now + 1 /\ UNCHANGED timer

Evaluate ==
    /\ timer' \in [Queue -> [since : 0..now, lastPagedAt : 0..now, pages : Nat]]
    /\ \A q \in Queue : QueueStep(q)
    /\ UNCHANGED now

Next == Advance \/ Evaluate

Spec == Init /\ [][Next]_vars

=============================================================================
