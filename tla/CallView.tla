------------------------------ MODULE CallView ------------------------------
(***************************************************************************)
(* What is made of the active calls of the phone system: which of them     *)
(* wait in a queue and which agents are busy.  The same rules are written  *)
(* three times: in the wallboard's poller (wallboard/src/lib/              *)
(* threecx-poller.ts), in the relay agent (3cxtools-relay/src/index.ts),   *)
(* whose counts the wallboard and the auto-pager use in relay mode, and in *)
(* the auto-pager (auto-pager/src/queue-monitor.ts).                       *)
(*                                                                         *)
(* A call is the fields the three read, which are not the same for all,    *)
(* and, for the properties, what it really does.  How the phone system     *)
(* describes a call is known from the comments of the three alone.         *)
(***************************************************************************)
EXTENDS FiniteSets

CONSTANTS
    ActiveCall,
    QueueNumber,     \* all of them visible, monitored by the auto-pager and by the relay
    AgentExt,
    Outside,         \* numbers that are neither
    Resembles,       \* the queues whose number a number contains or ends with
    NoCall, NoQueue

Number == QueueNumber \cup AgentExt \cup Outside

ASSUME CallViewAssumption ==
    /\ Resembles \in [Number -> SUBSET QueueNumber]
    /\ \A q \in QueueNumber : Resembles[q] = {q}
    /\ \A a \in AgentExt : Resembles[a] = {}
    /\ Outside \cap (QueueNumber \cup AgentExt) = {}
    /\ NoQueue \notin QueueNumber

VARIABLES
    calls,        \* the active calls
    agentsOf,     \* the agents of every queue
    signedInTo    \* those that are signed in

callVars == <<calls, agentsOf, signedInTo>>

\* CallerNumber, CalleeNumber, DialedDn and Dn (the same number), and Status.
Segments == [caller : Number, callee : Number, dialed : Number, talking : BOOLEAN]

ActiveCalls == [caller : AgentExt \cup Outside, callee : Number,
                status : {"routing", "ringing", "talking"}, segments : SUBSET Segments,
                queue : QueueNumber \cup {NoQueue}, answered : BOOLEAN]

CallsTypeOK ==
    /\ calls \in [ActiveCall -> ActiveCalls \cup {NoCall}]
    /\ {agentsOf, signedInTo} \subseteq [QueueNumber -> SUBSET AgentExt]

Active == {c \in ActiveCall : calls[c] # NoCall}

-----------------------------------------------------------------------------
(* Which calls wait.                                                       *)

References(n, q) == q \in Resembles[n]

\* An agent with a call that is being routed there, before it has segments.
EarlyRing(call, agents) ==
    call.status = "routing" /\ call.segments = {} /\ call.callee \in agents

DetectsWithoutSegments(q, call, agents) ==   \* fault: the call on its way to an agent is forgotten
    References(call.callee, q) \/ (call.status # "talking" /\ EarlyRing(call, agents))

\* The three methods of the wallboard: a conversation with the queue is music on hold.
DetectsQueued(q, call, agents) ==
    \/ References(call.callee, q)
    \/ /\ call.status # "talking"
       /\ \/ \E s \in call.segments : \E n \in {s.caller, s.callee, s.dialed} : References(n, q)
          \/ EarlyRing(call, agents)

PollingQueued(q) == {c \in Active : DetectsQueued(q, calls[c], agentsOf[q])}

\* computeQueuedCalls(): the agents are those of all queues.
RelayQueued(q) == {c \in Active : DetectsQueued(q, calls[c], UNION {agentsOf[p] : p \in QueueNumber})}

\* isCallConnected(): any segment that talks will do.
IsCallConnected(call) ==
    IF call.status = "talking" THEN call.callee \notin QueueNumber
                               ELSE \E s \in call.segments : s.talking

\* findQueueForCall(): the callee, or else the queues a segment is for; a segment's
\* caller is not looked at.
QueuesForCall(call) ==
    IF call.callee \in QueueNumber THEN {call.callee}
    ELSE (UNION {{s.dialed, s.callee} : s \in call.segments}) \cap QueueNumber

PagerQueued(q) == {c \in Active : q \in QueuesForCall(calls[c]) /\ ~IsCallConnected(calls[c])}

-----------------------------------------------------------------------------
(* Which agents are busy.                                                  *)

Parties(call) == {call.caller, call.callee}

TakesCallee(call, agents) ==   \* fault: the callee alone is looked at
    {call.callee} \cap agents

\* Of a call, and of every segment, the poller takes one agent, the caller if it is one.
BusyParty(call, agents) ==
    IF call.caller \in agents THEN {call.caller} ELSE {call.callee} \cap agents

SegmentState(s) == IF s.talking THEN "talking" ELSE "ringing"

PollingState(q, a) ==
    LET takenBy(status) == {c \in Active :
            \/ a \in BusyParty(calls[c], signedInTo[q]) /\ calls[c].status = status
            \/ \E s \in calls[c].segments : a \in BusyParty(s, signedInTo[q]) /\ SegmentState(s) = status}
    IN  IF a \notin signedInTo[q] THEN "offline"
        ELSE IF takenBy("talking") # {} THEN "talking"
        ELSE IF takenBy("ringing") # {} THEN "ringing"
        ELSE "available"

\* What deriveCallState() finds in one call: a call between the agent and a queue is
\* passed over with all its segments.
StatesOfCall(call, a) ==
    IF a \in Parties(call)
    THEN IF Parties(call) \cap QueueNumber # {} THEN {}
         ELSE IF call.status = "talking" THEN {"talking"} ELSE {"ringing"}
    ELSE {SegmentState(s) : s \in {t \in call.segments : a \in {t.caller, t.callee, t.dialed}}}

\* The first call, and segment, that says something decides, in whichever order they come.
RelayStates(a) ==
    LET said == UNION {StatesOfCall(calls[c], a) : c \in Active}
    IN  IF said = {} THEN {"available"} ELSE said

-----------------------------------------------------------------------------
(* The phone system.                                                       *)

Changes(c, call) == calls' = [calls EXCEPT ![c] = call] /\ UNCHANGED <<agentsOf, signedInTo>>

Leg(from, to, dialed, talking) == [caller |-> from, callee |-> to, dialed |-> dialed, talking |-> talking]
ToQueue(caller, q, talking) == Leg(caller, q, q, talking)

\* How a segment may name the agent a call is offered to: as called by the caller, who
\* dialed the queue, or as called by the queue.
AgentLegs(call, talking) ==
    IF call.queue = NoQueue THEN {Leg(call.caller, call.callee, call.callee, talking)}
    ELSE {Leg(call.caller, call.callee, call.queue, talking), Leg(call.queue, call.callee, call.callee, talking)}

\* Somebody calls a queue; the segments may come later.
CallsQueue(c, caller, q) ==
    /\ calls[c] = NoCall
    /\ \E segments \in {{}, {ToQueue(caller, q, FALSE)}} :
          Changes(c, [caller |-> caller, callee |-> q, status |-> "routing", segments |-> segments,
                      queue |-> q, answered |-> FALSE])

\* Somebody calls an agent.
CallsAgent(c, caller, a) ==
    /\ calls[c] = NoCall /\ caller # a
    /\ \E segments \in {{}, {Leg(caller, a, a, FALSE)}} :
          Changes(c, [caller |-> caller, callee |-> a, status |-> "ringing", segments |-> segments,
                      queue |-> NoQueue, answered |-> FALSE])

AtQueue(call) == call.queue # NoQueue /\ call.callee = call.queue

\* The first in line hears music: "Talking", to the queue; a segment may say so first.
MusicOnHold(c, status) ==
    /\ c \in Active /\ AtQueue(calls[c])
    /\ status \in {calls[c].status, "talking"}
    /\ Changes(c, [calls[c] EXCEPT !.status = status,
                      !.segments = {ToQueue(calls[c].caller, calls[c].queue, TRUE)}])

\* All agents may ring while the call stays with the queue, ...
RingsAll(c) ==
    /\ c \in Active /\ AtQueue(calls[c])
    /\ LET call   == calls[c]
           agents == signedInTo[call.queue] \ {call.caller}
       IN  Changes(c, [call EXCEPT !.segments = @ \cup {Leg(call.caller, a, call.queue, FALSE) : a \in agents}])

\* ... or the queue routes the call to an agent, who rings ...
Routes(c, a) ==
    /\ c \in Active /\ AtQueue(calls[c])
    /\ a \in signedInTo[calls[c].queue] \ {calls[c].caller}
    /\ Changes(c, [calls[c] EXCEPT !.callee = a, !.status = "routing", !.segments = {}])

Offered(call) == call.queue # NoQueue /\ call.callee # call.queue /\ ~call.answered

Rings(c, status) ==
    /\ c \in Active /\ Offered(calls[c])
    /\ LET music == ToQueue(calls[c].caller, calls[c].queue, TRUE)
       IN  \E leg \in AgentLegs(calls[c], FALSE) \cup {music} : \E segments \in {{leg}, {leg, music}} :
              Changes(c, [calls[c] EXCEPT !.status = status, !.segments = segments])

\* ... and does not answer,
Returns(c) ==
    /\ c \in Active /\ Offered(calls[c])
    /\ Changes(c, [calls[c] EXCEPT !.callee = calls[c].queue, !.status = "routing",
                                   !.segments = {ToQueue(calls[c].caller, calls[c].queue, FALSE)}])

\* ... or does; a segment may say so first.
SegmentAnswered(c) ==
    /\ c \in Active /\ ~AtQueue(calls[c])
    /\ \E leg \in AgentLegs(calls[c], FALSE) :
          /\ leg \in calls[c].segments
          /\ Changes(c, [calls[c] EXCEPT !.answered = TRUE,
                            !.segments = (@ \ {leg}) \cup {[leg EXCEPT !.talking = TRUE]}])

Answered(c) ==
    /\ c \in Active /\ ~AtQueue(calls[c])
    /\ \E leg \in AgentLegs(calls[c], TRUE) :
          Changes(c, [calls[c] EXCEPT !.status = "talking", !.answered = TRUE, !.segments = {leg}])

HangsUp(c) == c \in Active /\ Changes(c, NoCall)

CallsInit ==
    /\ calls = [c \in ActiveCall |-> NoCall]
    /\ agentsOf \in [QueueNumber -> SUBSET AgentExt]
    /\ signedInTo \in {s \in [QueueNumber -> SUBSET AgentExt] : \A q \in QueueNumber : s[q] \subseteq agentsOf[q]}

CallsNext ==
    \E c \in ActiveCall :
        \/ \E caller \in AgentExt \cup Outside :
              \/ \E q \in QueueNumber : CallsQueue(c, caller, q)
              \/ \E a \in AgentExt : CallsAgent(c, caller, a)
        \/ \E status \in {"routing", "talking"} : MusicOnHold(c, status)
        \/ RingsAll(c) \/ Returns(c) \/ SegmentAnswered(c) \/ Answered(c) \/ HangsUp(c)
        \/ \E a \in AgentExt : Routes(c, a)
        \/ \E status \in {"routing", "ringing"} : Rings(c, status)

CallsSpec == CallsInit /\ [][CallsNext]_callVars

-----------------------------------------------------------------------------
(* What should hold.                                                       *)

Waits(c, q) == calls[c].queue = q /\ ~calls[c].answered

\* A call from a number that looks like that of a queue may be taken for one of its.
Lookalike(c) == Resembles[calls[c].caller] # {}

Early(c, q) == calls[c].segments = {} /\ calls[c].status = "routing" /\ calls[c].callee # q

\* The segments name the queue as the one who calls the agent, or not at all.
OnlyAsCaller(c, q) == calls[c].callee # q /\ \A s \in calls[c].segments : q \notin {s.callee, s.dialed}

\* A segment says that the caller talks to the queue, and the call does not.
HearsMusic(c, q) ==
    calls[c].status # "talking" /\ ToQueue(calls[c].caller, q, TRUE) \in calls[c].segments

\* A call that waits in a queue is counted there by the wallboard and by the relay in
\* every form the phone system gives it, and by the auto-pager except in two.  And a call
\* that is counted in a queue waits there, except one from a lookalike, one that an agent
\* has just answered, and one that is being routed to an agent: in polling mode an agent
\* of both queues, in relay mode any.
WaitingCallsAreSeen ==
    \A q \in QueueNumber, c \in Active :
        /\ Waits(c, q) => /\ c \in PollingQueued(q) \cap RelayQueued(q)
                          /\ OnlyAsCaller(c, q) \/ HearsMusic(c, q) \/ c \in PagerQueued(q)
        /\ c \in PagerQueued(q) => Waits(c, q)
        /\ c \in PollingQueued(q) \cup RelayQueued(q) /\ ~Lookalike(c) =>
              \/ Waits(c, q)
              \/ calls[c].queue = q /\ calls[c].status # "talking"
              \/ /\ Early(c, q)
                 /\ c \in PollingQueued(q) => calls[c].callee \in agentsOf[q] \cap agentsOf[calls[c].queue]

\* "Ported from wallboard's proven 3-method detection logic": the relay takes the same
\* calls for waiting.
RelayDetectsAsWallboard ==
    \A q \in QueueNumber : RelayQueued(q) = PollingQueued(q)

\* The agents a call is of, rung ones included.
Involved(call) == Parties(call) \cup {s.callee : s \in call.segments}

\* An agent who is signed in is not shown as available while in a conversation, nor as
\* busy without a call or a ring, whether the wallboard asks the relay or the phone
\* system.  The latter shows the callee of an agent of the same queue as available, and
\* an agent who calls as talking only when the call itself says so.
BusyAgentsAreShown ==
    \A q \in QueueNumber : \A a \in signedInTo[q] :
        LET mine    == {c \in Active : a \in Involved(calls[c])}
            talking == {c \in Active : a \in Parties(calls[c]) /\ calls[c].answered}
            plain   == {c \in talking : /\ calls[c].caller \notin signedInTo[q] \ {a}
                                        /\ calls[c].status = "talking" \/ calls[c].callee = a}
        IN  /\ talking # {} => "available" \notin RelayStates(a)
            /\ plain # {} => PollingState(q, a) = "talking"
            /\ mine = {} => RelayStates(a) = {"available"} /\ PollingState(q, a) = "available"

=============================================================================
