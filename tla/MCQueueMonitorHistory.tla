--------------------------- MODULE MCQueueMonitorHistory ---------------------------
(* The queue monitor with a busy queue and one that is always empty: a poll  *)
(* still runs for the empty queue while the busy one is not monitored.       *)
EXTENDS QueueMonitorHistory

CONSTANTS busy, idle

MCThreshold == [q \in Queue |-> 1]
MCRepeat    == [q \in Queue |-> IF q = busy THEN 1 ELSE 0]
MCCounts    == {c \in [Queue -> 0..1] : c[idle] = 0}
=============================================================================
