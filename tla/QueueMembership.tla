--------------------------- MODULE QueueMembership ---------------------------
(***************************************************************************)
(* The queue actions of the wallboard (server/routers/queue-actions.ts)    *)
(* and what they do through the phone system client: they sign agents in   *)
(* and out of a queue, and add them to it and remove them, for which the   *)
(* whole list of its agents is read and written back.  Each action uses a  *)
(* client of its own, and nothing makes one action wait for another.       *)
(*                                                                         *)
(* There is one queue.  RelayPipeline models the override an action sets   *)
(* when it is done, and PhoneClient what becomes of one request.           *)
(***************************************************************************)
EXTENDS FiniteSets

CONSTANTS
    Agent,       \* extensions
    Action       \* queue actions, each used once

Membership == {"addAgentToQueue", "removeAgentFromQueue"}
Status     == {"queueAgentLogin", "queueAgentLogout"}

VARIABLES
    members,     \* the agents of the queue, in the phone system
    signedIn,    \* those of them that are signed in
    managers,    \* the managers of the queue
    admins,      \* users with the role ADMIN
    actions,     \* every action: what it is and how far it has come
    expected,    \* members, had each change been made to the list as it was (history)
    raced   \* the list changed while an action was about to write it (history)

membershipVars == <<members, signedIn, managers, admins, actions, expected, raced>>
phoneSystem    == <<members, signedIn, managers>>

NewAction == [stage |-> "new", does |-> "none", agent |-> "none", list |-> {}]

Stage == {"new", "checking", "reading", "writing", "done", "failed"}

MembershipTypeOK ==
    /\ members \subseteq Agent /\ signedIn \subseteq members
    /\ managers \subseteq Agent /\ admins \subseteq Agent /\ expected \subseteq Agent
    /\ actions \in [Action -> [stage : Stage, does : Membership \cup Status \cup {"none"},
                               agent : Agent \cup {"none"}, list : SUBSET Agent]]
    /\ \A a \in Action : actions[a].stage # "new" => actions[a].agent \in Agent
    /\ raced \in BOOLEAN

AboutToWrite == {a \in Action : actions[a].stage = "writing" /\ actions[a].does \in Membership}

Proceeds(a, stage) == actions' = [actions EXCEPT ![a].stage = stage]

-----------------------------------------------------------------------------
(* The procedures.                                                         *)

Begins(a, does, agent, stage) ==
    /\ actions[a].stage = "new"
    /\ actions' = [actions EXCEPT ![a] = [stage |-> stage, does |-> does, agent |-> agent, list |-> {}]]
    /\ UNCHANGED <<phoneSystem, admins, expected, raced>>

\* signIn, signOut: the user.
SignSelf(a, does, user) == does \in Status /\ Begins(a, does, user, "reading")

\* signInAgent, signOutAgent: somebody else; the managers are asked for first.
SignAgent(a, does, agent) == does \in Status /\ Begins(a, does, agent, "checking")

\* addSelfToQueue, removeSelfFromQueue
MoveSelf(a, does, user) == does \in Membership /\ Begins(a, does, user, "reading")

\* addAgentToQueue, removeAgentFromQueue: for an admin.
MoveAgent(a, does, user, agent) ==
    does \in Membership /\ user \in admins /\ Begins(a, does, agent, "reading")

\* getQueueManagers(): FORBIDDEN if the user is not one of them.
ManagerChecked(a, user) ==
    /\ actions[a].stage = "checking"
    /\ Proceeds(a, IF user \in managers THEN "reading" ELSE "failed")
    /\ UNCHANGED <<phoneSystem, admins, expected, raced>>

\* A request fails, without or (a lost answer) with effect; see WriteAgents.
ActionFails(a) ==
    /\ actions[a].stage \in {"checking", "reading", "writing"}
    /\ Proceeds(a, "failed")
    /\ UNCHANGED <<phoneSystem, admins, expected, raced>>

-----------------------------------------------------------------------------
(* addAgentToQueue(), removeAgentFromQueue()                               *)

ListOfOne(does, agent, list) ==   \* fault: the agent alone is written
    IF does = "addAgentToQueue" THEN {agent} ELSE {}

\* The list that is written for the one that was read.
UpdatedAgents(does, agent, list) ==
    IF does = "addAgentToQueue" THEN list \cup {agent} ELSE list \ {agent}

\* getQueueAgents(): an agent who is in the queue is not added again, and one who is
\* not is not removed.
ReadAgents(a) ==
    LET does == actions[a].does  agent == actions[a].agent IN
    /\ actions[a].stage = "reading" /\ does \in Membership
    /\ IF (agent \in members) = (does = "addAgentToQueue")
       THEN Proceeds(a, "done") /\ UNCHANGED raced
       ELSE /\ actions' = [actions EXCEPT ![a].stage = "writing",
                                          ![a].list = UpdatedAgents(does, agent, members)]
            /\ raced' = (raced \/ AboutToWrite # {})
    /\ UNCHANGED <<phoneSystem, admins, expected>>

\* The PATCH: the phone system takes the list as it is, whatever it has now.
WriteAgents(a, answered) ==
    /\ a \in AboutToWrite
    /\ members' = actions[a].list
    /\ signedIn' = signedIn \cap members'
    /\ expected' = IF actions[a].does = "addAgentToQueue" THEN expected \cup {actions[a].agent}
                                                          ELSE expected \ {actions[a].agent}
    /\ Proceeds(a, IF answered THEN "done" ELSE "failed")
    /\ UNCHANGED <<managers, admins, raced>>

-----------------------------------------------------------------------------
(* queueAgentLogin(), queueAgentLogout()                                   *)

\* resolveUserId(): an extension the phone system does not have is an error.
UserResolved(a, known) ==
    /\ actions[a].stage = "reading" /\ actions[a].does \in Status
    /\ Proceeds(a, IF known THEN "writing" ELSE "failed")
    /\ UNCHANGED <<phoneSystem, admins, expected, raced>>

\* SetQueueStatus
StatusSet(a, answered) ==
    /\ actions[a].stage = "writing" /\ actions[a].does \in Status
    /\ signedIn' = IF actions[a].does = "queueAgentLogin" THEN signedIn \cup ({actions[a].agent} \cap members)
                                                          ELSE signedIn \ {actions[a].agent}
    /\ Proceeds(a, IF answered THEN "done" ELSE "failed")
    /\ UNCHANGED <<members, managers, admins, expected, raced>>

-----------------------------------------------------------------------------
\* Somebody changes the list at the phone system itself.
ChangedElsewhere(agents) ==
    /\ agents # members
    /\ members' = agents /\ expected' = agents
    /\ signedIn' = signedIn \cap agents
    /\ raced' = (raced \/ AboutToWrite # {})
    /\ UNCHANGED <<managers, admins, actions>>

MembershipInit ==
    /\ members \in SUBSET Agent /\ signedIn = {} /\ managers \in SUBSET Agent
    /\ admins \in SUBSET Agent
    /\ actions = [a \in Action |-> NewAction]
    /\ expected = members /\ raced = FALSE

MembershipNext ==
    \/ \E a \in Action :
         \/ \E does \in Membership \cup Status, user \in Agent :
               \/ SignSelf(a, does, user) \/ SignAgent(a, does, user) \/ MoveSelf(a, does, user)
               \/ \E agent \in Agent : MoveAgent(a, does, user, agent)
         \/ \E user \in Agent : ManagerChecked(a, user)
         \/ ReadAgents(a) \/ ActionFails(a)
         \/ \E yes \in BOOLEAN : WriteAgents(a, yes) \/ UserResolved(a, yes) \/ StatusSet(a, yes)
    \/ \E agents \in SUBSET Agent : ChangedElsewhere(agents)

MembershipSpec == MembershipInit /\ [][MembershipNext]_membershipVars

-----------------------------------------------------------------------------
(* What should hold.                                                       *)

\* As long as no two changes of the list overlap, none is lost: the queue has the
\* agents that the changes, each made to the list as it was, leave it with, those
\* whose answer was lost included; an action that is done has had its effect.  (Two
\* that overlap: the second to write undoes the first.)
MembershipKept ==
    ~raced => members = expected

=============================================================================
