--------------------------- MODULE MCWaitingQueue ---------------------------
(* One queue without a repeat interval, polls slower than the interval.      *)
EXTENDS WaitingQueue

CONSTANT q1

MCThreshold == [q \in Queue |-> 1]
MCRepeat    == [q \in Queue |-> 0]
MCCounts    == [Queue -> 0..1]
=============================================================================
