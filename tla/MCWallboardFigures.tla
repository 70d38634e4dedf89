------------------------- MODULE MCWallboardFigures -------------------------
(* Where the wallboard's figures come from: the longest wait, with two calls *)
(* over a midnight, and that of the last hour, over two days; the messages   *)
(* of the monitor, with one agent; the relay's own monitor; and the active   *)
(* calls, two of them, with two queues, two agents and an outside number     *)
(* that ends like a queue's.  The five share no variable: a behaviour is one *)
(* of the "part" it is of, the others at rest.                               *)
EXTENDS WaitFigures, WaitWindow, MonitorData, RelayMonitor, CallView, TLC

CONSTANTS k1, k2, m1, c1, c2, n1, n2, x1, x2, o1, o2

VARIABLE part

allVars == <<part, waitVars, windowVars, dataVars, relayMonitorVars, callVars>>

ResemblesOne == [n \in Number |-> IF n = o2 THEN {n1} ELSE {n} \cap QueueNumber]

FiguresInit ==
    /\ part \in {"waits", "window", "data", "relay", "calls"}
    /\ WaitInit /\ WindowInit /\ DataInit /\ RelayMonitorInit /\ CallsInit
    /\ part # "data" => atPbx = Empty
    /\ part # "calls" => \A q \in QueueNumber : agentsOf[q] = {}

FiguresNext ==
    \/ part = "waits" /\ WaitNext
       /\ UNCHANGED <<part, windowVars, dataVars, relayMonitorVars, callVars>>
    \/ part = "window" /\ WindowNext
       /\ UNCHANGED <<part, waitVars, dataVars, relayMonitorVars, callVars>>
    \/ part = "data" /\ DataNext
       /\ UNCHANGED <<part, waitVars, windowVars, relayMonitorVars, callVars>>
    \/ part = "relay" /\ RelayMonitorNext
       /\ UNCHANGED <<part, waitVars, windowVars, dataVars, callVars>>
    \/ part = "calls" /\ CallsNext
       /\ UNCHANGED <<part, waitVars, windowVars, dataVars, relayMonitorVars>>

FiguresSpec == FiguresInit /\ [][FiguresNext]_allVars

FiguresSymmetry == Permutations(ActiveCall) \cup Permutations(AgentExt)
=============================================================================
