--------------------------- MODULE MCQueueMonitor ---------------------------
(* The queue monitor with a queue that repeats its pages and one that does   *)
(* not.                                                                      *)
EXTENDS QueueMonitor

CONSTANTS q1, q2

MCThreshold == [q \in Queue |-> 1]
MCRepeat    == [q \in Queue |-> IF q = q1 THEN 1 ELSE 0]
MCCounts    == [Queue -> 0..1]
=============================================================================
