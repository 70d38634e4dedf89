---------------------------- MODULE MonitorData ----------------------------
(***************************************************************************)
(* What the wallboard's monitor makes of the messages it gets (wallboard/  *)
(* src/lib/threecx-queue-monitor.ts, handleProtobufMessage) and what the   *)
(* poller shows of it (threecx-poller.ts): the agents of a queue, who of   *)
(* them is signed in, and how many calls were answered.                    *)
(*                                                                         *)
(* There is one queue among others.  The phone system pushes changes over  *)
(* the WebSocket, in order; the state of all queues comes as the answer to *)
(* a login, over the WebSocket or in the response to the HTTP request that *)
(* made it, which may be late.  MonitorConnection models the connection.   *)
(***************************************************************************)
EXTENDS Integers, Sequences, FiniteSets, FiniteSetsExt

CONSTANTS
    Member,        \* extensions that may be agents of the queue
    NoList,        \* no list of agents
    MaxAnswered,   \* bound on the calls answered
    MaxEra,        \* bound on how often the phone system starts counting again
    MaxPushed      \* bound on the messages on their way

VARIABLES
    atPbx,          \* the agents at the phone system, and who is signed in
    answeredAtPbx,  \* its count of answered calls
    era,            \* how often it has started counting again (history)
    linked,         \* a WebSocket is there
    told,           \* how the login of this connection was answered: "no", "pushed",
                    \* by a "response" alone, or by one that was "lost"
    pushed,         \* messages on the WebSocket
    response,       \* an HTTP response on its way, NoList for none
    list,           \* byNumber: NoList, or the agents
    callStatsDate,  \* of which UTC day callStats is: NoDate, "today" or "before"
    answered,       \* callStats.callsAnswered, -1 for no entry
    statsEra,       \* the earliest of the eras whose counts went into it (history)
    prevAnswered,   \* prevCallStats.callsAnswered, -1 for none
    counted,        \* what the events add up to since the last baseline, in its era (history)
    countedEra,     \* the era of that baseline (history)
    freshConnection,
    since,          \* messages pushed since the response on its way was made, or since
                    \* the connection was (history)
    late,           \* a response was applied out of order with the pushes (history)
    emptied         \* the queue lost its last agent and the monitor was told (history)

dataVars == <<atPbx, answeredAtPbx, era, linked, told, pushed, response, list, callStatsDate, answered,
              statsEra, prevAnswered, counted, countedEra, freshConnection, since, late, emptied>>
pbxVars     == <<atPbx, answeredAtPbx, era>>
eventVars   == <<prevAnswered, counted, countedEra>>
statsVars   == <<callStatsDate, answered, statsEra>>
monitorVars == <<list, statsVars, eventVars, freshConnection, late, emptied>>

NoDate == "none"

\* A list of agents is who is signed in among those who are in it.
Lists == UNION {[members -> BOOLEAN] : members \in SUBSET Member}
Empty == [m \in {} |-> TRUE]

\* "full" is the answer to a login.  An update says what has changed: with no list
\* it is about the calls.  A full one may leave out a queue without agents.  The era is
\* for the properties: the monitor does not get to know it.
Message == [full : BOOLEAN, agents : Lists \cup {NoList}, answered : 0..MaxAnswered, era : 0..MaxEra]

ASSUME MonitorDataAssumption ==
    /\ MaxAnswered \in Nat /\ MaxEra \in Nat /\ MaxPushed \in Nat \ {0}
    /\ NoList \notin Lists \cup Message

Full(agents)   == [full |-> TRUE, agents |-> agents, answered |-> answeredAtPbx, era |-> era]
Update(agents) == [full |-> FALSE, agents |-> agents, answered |-> answeredAtPbx, era |-> era]

DataTypeOK ==
    /\ atPbx \in Lists
    /\ answeredAtPbx \in 0..MaxAnswered
    /\ {era, statsEra, countedEra} \subseteq 0..MaxEra
    /\ pushed \in Seq(Message) /\ Len(pushed) <= MaxPushed
    /\ response \in Message \cup {NoList}
    /\ list \in Lists \cup {NoList}
    /\ counted \in Nat
    /\ {answered, prevAnswered} \subseteq -1..MaxAnswered
    /\ callStatsDate \in {NoDate, "today", "before"}
    /\ {linked, freshConnection, late, emptied} \subseteq BOOLEAN
    /\ since \in 0..MaxPushed + 1
    /\ told \in {"no", "pushed", "response", "lost"}

-----------------------------------------------------------------------------
(* The phone system.                                                       *)

Push(message) ==
    IF linked
    THEN /\ Len(pushed) < MaxPushed
         /\ pushed' = Append(pushed, message)
         /\ since' = IF response # NoList /\ since <= MaxPushed THEN since + 1 ELSE since
    ELSE UNCHANGED <<pushed, since>>

\* An agent is added, removed, or signs in or out: the update has the whole list, and
\* looks like one about the calls when the list is empty.
AgentsChange(agents) ==
    /\ agents # atPbx
    /\ atPbx' = agents
    /\ Push(Update(agents))
    /\ UNCHANGED <<answeredAtPbx, era, linked, told, response, monitorVars>>

CallAnswered ==
    /\ answeredAtPbx < MaxAnswered
    /\ answeredAtPbx' = answeredAtPbx + 1
    /\ Push([Update(NoList) EXCEPT !.answered = answeredAtPbx + 1])
    /\ UNCHANGED <<atPbx, era, linked, told, response, monitorVars>>

\* The phone system starts counting again, as it does every day at its own hour, and
\* tells at once or with the next change.
CountStartsAgain(tells) ==
    /\ answeredAtPbx > 0 /\ era < MaxEra
    /\ answeredAtPbx' = 0 /\ era' = era + 1
    /\ IF tells THEN Push([Update(NoList) EXCEPT !.answered = 0, !.era = era + 1])
                ELSE UNCHANGED <<pushed, since>>
    /\ UNCHANGED <<atPbx, linked, told, response, monitorVars>>

\* The login of this connection is answered, over the WebSocket, in the response, or
\* both.
LoginAnswered(agents, viaPush, viaResponse) ==
    /\ linked /\ told = "no"
    /\ viaPush \/ viaResponse
    /\ agents = atPbx \/ (atPbx = Empty /\ agents = NoList)
    /\ told' = IF viaPush THEN "pushed" ELSE "response"
    /\ IF viaPush THEN Len(pushed) < MaxPushed /\ pushed' = Append(pushed, Full(agents))
                  ELSE UNCHANGED pushed
    /\ IF viaResponse
       THEN /\ response = NoList
            /\ response' = Full(agents) /\ since' = 0
       ELSE /\ UNCHANGED response
            /\ since' = IF viaPush /\ response # NoList /\ since <= MaxPushed
                         THEN since + 1 ELSE since
    /\ UNCHANGED <<pbxVars, linked, monitorVars>>

-----------------------------------------------------------------------------
(* handleProtobufMessage()                                                 *)

FreshKeepsList(message) ==   \* fault: a new connection keeps the list of the one before
    IF message.agents # NoList /\ (message.full \/ DOMAIN message.agents # {}) THEN message.agents
    ELSE list

\* The list after a message: a fresh connection forgets what it had, and then only a
\* full message may empty a list.
ListAfter(message) ==
    IF message.agents # NoList /\ (message.full \/ DOMAIN message.agents # {}) THEN message.agents
    ELSE IF freshConnection THEN NoList ELSE list

\* What is left of the counts: the first message of a UTC day clears them.
Surviving == IF callStatsDate = "before" THEN -1 ELSE answered

\* The counts go up alone: the greater of what there is and what the message says.
MergeStats(message) ==
    /\ answered' = Max({Surviving, message.answered})
    /\ statsEra' = IF Surviving = -1 THEN message.era ELSE Min({statsEra, message.era})

\* Events: the first count of a connection is a baseline, and then each call that the
\* count goes up by is a resolved one.
DetectEvents(message) ==
    LET previous == IF freshConnection THEN -1 ELSE prevAnswered
    IN  /\ prevAnswered' = message.answered
        /\ IF previous = -1
           THEN counted' = message.answered /\ countedEra' = message.era
           ELSE /\ counted' = IF message.era = countedEra THEN counted + Max({0, message.answered - previous})
                                                          ELSE counted
                /\ UNCHANGED countedEra

\* A message without the queue: a fresh connection's forgetting and the clearing of a
\* new day apply to it all the same.
HandleWithoutQueue(outdated) ==
    /\ list' = (IF freshConnection THEN NoList ELSE list)
    /\ freshConnection' = FALSE /\ callStatsDate' = "today"
    /\ answered' = Surviving
    /\ prevAnswered' = (IF freshConnection THEN -1 ELSE prevAnswered)
    /\ late' = outdated
    /\ statsEra' = (IF Surviving = -1 THEN 0 ELSE statsEra)
    /\ UNCHANGED <<emptied, counted, countedEra>>

HandleWithQueue(message, outdated) ==
    /\ list' = ListAfter(message)
    /\ freshConnection' = FALSE /\ callStatsDate' = "today"
    /\ MergeStats(message) /\ DetectEvents(message)
    /\ late' = outdated
    /\ emptied' = IF message.agents = NoList THEN emptied
                  ELSE ~message.full /\ DOMAIN message.agents = {}

LeftOut(message) == message.full /\ message.agents = NoList

Handle(message, outdated) ==
    IF LeftOut(message) THEN HandleWithoutQueue(outdated) ELSE HandleWithQueue(message, outdated)

\* A message over the WebSocket ...
HandlePush ==
    /\ pushed # <<>>
    /\ Handle(Head(pushed), late)
    /\ pushed' = Tail(pushed)
    /\ UNCHANGED <<pbxVars, linked, told, response, since>>

\* ... one about other queues, which may come at any time ...
HandleOthers ==
    /\ linked
    /\ HandleWithoutQueue(late)
    /\ UNCHANGED <<pbxVars, linked, told, pushed, response, since>>

\* ... and the response to the login, whichever connection there is by now.
HandleResponse ==
    /\ response # NoList
    /\ Handle(response, late \/ since # Len(pushed))
    /\ response' = NoList /\ since' = 0
    /\ UNCHANGED <<pbxVars, linked, told, pushed>>

ResponseLost ==
    /\ response # NoList
    /\ response' = NoList /\ since' = 0
    /\ told' = IF told = "response" THEN "lost" ELSE told
    /\ UNCHANGED <<pbxVars, linked, pushed, monitorVars>>

-----------------------------------------------------------------------------
(* The connection.                                                         *)

Disconnected ==
    /\ linked
    /\ linked' = FALSE /\ told' = "no" /\ pushed' = <<>>
    /\ UNCHANGED <<pbxVars, response, since, monitorVars>>

Connected ==
    /\ ~linked
    /\ linked' = TRUE /\ freshConnection' = TRUE
    /\ late' = (response # NoList) /\ since' = 0
    /\ UNCHANGED <<pbxVars, told, pushed, response, list, statsVars, eventVars, emptied>>

\* A UTC day ends.
DayEnds ==
    /\ callStatsDate = "today"
    /\ callStatsDate' = "before"
    /\ UNCHANGED <<pbxVars, linked, told, pushed, response, since, list, answered, statsEra, eventVars,
                   freshConnection, late, emptied>>

-----------------------------------------------------------------------------
(* What the poller shows.                                                  *)

\* The agents: the monitor's if it has any, else those of the REST API, which may
\* have been cached for minutes.
ShownAgents(rest) == IF list # NoList /\ list # Empty THEN DOMAIN list ELSE rest

\* Who is signed in: as the monitor says of those it knows, else as the phone system
\* says of the user in whichever queue.
ShownSignedIn(rest, signedInAnywhere) ==
    {m \in ShownAgents(rest) : IF list # NoList /\ m \in DOMAIN list THEN list[m] ELSE m \in signedInAnywhere}

DataInit ==
    /\ atPbx \in Lists /\ answeredAtPbx = 0 /\ era = 0
    /\ linked = FALSE /\ told = "no" /\ pushed = <<>> /\ response = NoList
    /\ list = NoList /\ callStatsDate = NoDate /\ answered = -1 /\ statsEra = 0
    /\ prevAnswered = -1 /\ counted = 0 /\ countedEra = 0
    /\ freshConnection = FALSE /\ since = 0 /\ late = FALSE /\ emptied = FALSE

DataNext ==
    \/ \E agents \in Lists : AgentsChange(agents)
    \/ \E agents \in Lists \cup {NoList}, viaPush, viaResponse \in BOOLEAN :
          LoginAnswered(agents, viaPush, viaResponse)
    \/ \E tells \in BOOLEAN : CountStartsAgain(tells)
    \/ CallAnswered \/ HandlePush \/ HandleOthers \/ HandleResponse \/ ResponseLost
    \/ Disconnected \/ Connected \/ DayEnds

DataSpec == DataInit /\ [][DataNext]_dataVars

-----------------------------------------------------------------------------
(* What should hold.                                                       *)

Quiet == linked /\ told \in {"pushed", "response"} /\ ~freshConnection /\ pushed = <<>> /\ response = NoList

\* When the login has been answered and nothing is on its way: the wallboard shows the
\* agents of the phone system, signed in as they are there, whatever the REST API has
\* cached and whatever was lost with earlier connections, and the answered calls it
\* shows are the phone system's and its events of them add up; unless the response of a
\* login and a push overtook each other, or the queue lost its last agent in an update
\* (which the monitor cannot tell from one without a list: it goes on showing that
\* agent), or, for the counts, the phone system has started counting again since the
\* monitor's began: then it shows the greater count until the UTC day ends.
QuietMonitorIsTrue ==
    Quiet /\ ~late =>
        /\ ~emptied /\ atPbx # Empty =>
              \A rest, anywhere \in SUBSET Member :
                 /\ ShownAgents(rest) = DOMAIN atPbx
                 /\ ShownSignedIn(rest, anywhere) = {m \in DOMAIN atPbx : atPbx[m]}
        /\ ~emptied /\ atPbx = Empty => list \in {NoList, Empty}
        /\ prevAnswered # -1 =>
              /\ answered # -1 /\ statsEra = era => answered = answeredAtPbx
              /\ countedEra = era => counted = answeredAtPbx

=============================================================================
