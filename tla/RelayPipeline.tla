--------------------------- MODULE RelayPipeline ---------------------------
(***************************************************************************)
(* From the phone system to the wallboard through the relay agent:         *)
(* 3cxtools-relay/src (index.ts, state-manager.ts, pusher.ts) watches the  *)
(* phone system and pushes payloads, each in a request of its own that     *)
(* nothing waits for; the wallboard (app/api/relay/push/route.ts,          *)
(* lib/relay-store.ts) stores whatever arrives last and covers the delay   *)
(* after a queue action of its own (server/routers/queue-actions.ts) with  *)
(* an optimistic override.                                                 *)
(*                                                                         *)
(* A fact is what an override can be about: whether an agent is signed in  *)
(* to a queue, or is a member of it.  Its version counts its changes       *)
(* (history).  Times are ages in one unit; the constants name the delays.  *)
(***************************************************************************)
EXTENDS Integers, FiniteSets

CONSTANTS
    Fact,
    Key,            \* API keys
    None,           \* null
    PollGap,        \* the longest time between two successful polls of a relay that runs
    SyncInterval,   \* FULL_SYNC_INTERVAL_MS
    StaleAfter,     \* STALE_MS
    OverrideLife,   \* 20 s
    MaxDelay,       \* a push is stored within this time of being sent, or never
    SightDelay,     \* the relay's monitor and caches follow the phone system within this time
    ActionDelay,    \* from a change by a queue action to its override
    MaxChanges,     \* bound on the changes of a fact
    MaxActions,     \* bound on the queue actions under way
    MaxRestarts     \* bound on the restarts of the relay

ASSUME RelayPipelineAssumption ==
    /\ {PollGap, SyncInterval, StaleAfter, MaxDelay} \subseteq Nat \ {0}
    /\ {OverrideLife, SightDelay, ActionDelay, MaxChanges, MaxActions, MaxRestarts} \subseteq Nat
    /\ None \notin Key

VARIABLES
    pbx,            \* the facts in the phone system
    view,           \* the facts in the relay's monitor and caches
    unseenFor,      \* how long the relay's view of a fact has been out of date
    up,             \* the relay's process runs and has loaded its first data
    generation,     \* which process of the relay it is
    relayKey,       \* the API key of each of these processes
    authFailed,     \* of the running process's pusher
    lastFingerprint, syncAge,   \* StateManager; syncAge: time since lastFullSyncTime
    pollAge,        \* time since the last successful poll, or since the start
    pushes,         \* requests under way
    storedKey,      \* relayApiKeyHash
    store,          \* _data: the facts of the payload and their age (history)
    receivedAge,    \* time since _receivedAt
    actions,        \* queue actions done in the phone system, their override not yet set
    overrides,      \* _agentOverrides and _membershipOverrides
    calm            \* time since the last change, loss, restart or new key (history)

relayVars == <<view, unseenFor, up, generation, relayKey, authFailed, lastFingerprint, syncAge, pollAge>>
wallboardVars == <<store, receivedAge, actions, overrides>>
vars == <<pbx, relayVars, pushes, storedKey, wallboardVars, calm>>

\* Two full syncs are at most this far apart: the first poll once one is due.
SyncSpacing == SyncInterval + PollGap - 1

\* How long what the wallboard stores can be wrong: until the relay sees the change,
\* the payloads it built before are gone, and the next full sync has come.
DataSettles == SightDelay + MaxDelay + SyncSpacing + MaxDelay

\* How long an override can be wrong.
OverrideSettles == ActionDelay + OverrideLife

Calm == IF DataSettles > OverrideSettles THEN DataSettles ELSE OverrideSettles

State  == [value : BOOLEAN, version : 0..MaxChanges]
Facts  == [Fact -> State]
Stored == [facts : Facts, age : 0..(StaleAfter + MaxDelay)]
Push   == [facts : Facts, age : 0..MaxDelay, event : {"change", "sync"}, from : 0..MaxRestarts]
Action == [fact : Fact, state : State, age : 0..ActionDelay]

\* No payload yet is not a payload.
ASSUME NoneAssumption == None \notin Stored

Values(facts) == [f \in Fact |-> facts[f].value]
Guess(values) == [f \in Fact |-> [value |-> values[f], version |-> 0]]

TypeOK ==
    /\ pbx \in Facts /\ view \in Facts
    /\ unseenFor \in [Fact -> 0..SightDelay]
    /\ up \in BOOLEAN /\ authFailed \in BOOLEAN
    /\ generation \in 0..MaxRestarts
    /\ relayKey \in [0..MaxRestarts -> Key] /\ storedKey \in Key
    /\ lastFingerprint \in [Fact -> BOOLEAN] \cup {None}
    /\ syncAge \in 0..SyncInterval
    /\ pollAge \in 0..PollGap
    /\ pushes \subseteq Push
    /\ store \in Stored \cup {None}
    /\ receivedAge \in 0..StaleAfter
    /\ actions \subseteq Action
    /\ overrides \in [Fact -> [state : State, left : 0..OverrideLife] \cup {None}]
    /\ calm \in 0..(Calm + 1)

-----------------------------------------------------------------------------
(* The phone system.                                                       *)

Change(f, value) ==
    /\ pbx[f].value # value /\ pbx[f].version < MaxChanges
    /\ pbx' = [pbx EXCEPT ![f] = [value |-> value, version |-> pbx[f].version + 1]]
    /\ unseenFor' = [unseenFor EXCEPT ![f] = 0]
    /\ calm' = 0

\* Somebody signs in or out at a phone, or in another client.
ChangeElsewhere(f, value) ==
    /\ Change(f, value)
    /\ UNCHANGED <<view, up, generation, relayKey, authFailed, lastFingerprint, syncAge, pollAge,
                   pushes, storedKey, wallboardVars>>

-----------------------------------------------------------------------------
(* The relay.                                                              *)

\* The monitor is told of a change, or a cache is refreshed.
View(f) ==
    /\ up /\ view[f] # pbx[f]
    /\ view' = [view EXCEPT ![f] = pbx[f]]
    /\ unseenFor' = [unseenFor EXCEPT ![f] = 0]
    /\ UNCHANGED <<pbx, up, generation, relayKey, authFailed, lastFingerprint, syncAge, pollAge,
                   pushes, storedKey, wallboardVars, calm>>

SyncDueOnChange == FALSE   \* fault: no reconciliation of an unchanged state

SyncDue == syncAge >= SyncInterval

\* The handlers of 'change' and 'sync': a request for each, unless a key was rejected.
Pushes(events) ==
    IF authFailed THEN pushes
    ELSE pushes \cup {[facts |-> view, age |-> 0, event |-> e, from |-> generation] : e \in events}

\* The part of fastPoll() after its awaits, and StateManager.update(): "other" says
\* whether something else than the facts has changed (calls, their waits).
FastPoll(other) ==
    /\ up /\ pollAge > 0
    /\ LET changed == other \/ lastFingerprint # Values(view)
           events  == (IF changed THEN {"change"} ELSE {}) \cup (IF SyncDue THEN {"sync"} ELSE {})
       IN  /\ pushes' = Pushes(events)
           /\ lastFingerprint' = Values(view)
           /\ syncAge' = IF SyncDue THEN 0 ELSE syncAge
    /\ pollAge' = 0
    /\ UNCHANGED <<pbx, view, unseenFor, up, generation, relayKey, authFailed, storedKey,
                   wallboardVars, calm>>

\* The process ends and forgets everything; its requests may still be served.
Exit ==
    /\ up
    /\ up' = FALSE
    /\ authFailed' = FALSE
    /\ lastFingerprint' = None /\ syncAge' = SyncInterval /\ pollAge' = 0
    /\ view' = Guess([f \in Fact |-> FALSE]) /\ unseenFor' = [f \in Fact |-> 0]
    /\ calm' = 0
    /\ UNCHANGED <<pbx, generation, relayKey, pushes, storedKey, wallboardVars>>

\* A new process has loaded its first data, with the same key or the one in force.
\* What it takes for the facts until its monitor has data (the global QueueStatus)
\* may be wrong.
Restart(key, values) ==
    /\ ~up /\ generation < MaxRestarts
    /\ key \in {relayKey[generation], storedKey}
    /\ up' = TRUE
    /\ generation' = generation + 1
    /\ relayKey' = [relayKey EXCEPT ![generation + 1] = key]
    /\ view' = Guess(values)
    /\ calm' = 0
    /\ UNCHANGED <<pbx, unseenFor, authFailed, lastFingerprint, syncAge, pollAge, pushes, storedKey,
                   wallboardVars>>

-----------------------------------------------------------------------------
(* The wallboard.                                                          *)

\* An override stays until the payload says the same or it expires.
Pruned(facts) ==
    [f \in Fact |-> IF overrides[f] # None /\ overrides[f].state.value = facts[f].value
                    THEN None ELSE overrides[f]]

\* POST /api/relay/push and setRelayData(): pushes are taken in any order.
Deliver(p) ==
    /\ p \in pushes
    /\ relayKey[p.from] = storedKey
    /\ pushes' = pushes \ {p}
    /\ store' = [facts |-> p.facts, age |-> p.age]
    /\ receivedAge' = 0
    /\ overrides' = Pruned(p.facts)
    /\ UNCHANGED <<pbx, relayVars, storedKey, actions, calm>>

\* 401: the pusher that sent it gives up for good.
Reject(p) ==
    /\ p \in pushes
    /\ relayKey[p.from] # storedKey
    /\ pushes' = pushes \ {p}
    /\ authFailed' = (authFailed \/ (up /\ p.from = generation))
    /\ UNCHANGED <<pbx, view, unseenFor, up, generation, relayKey, lastFingerprint, syncAge, pollAge,
                   storedKey, wallboardVars, calm>>

\* A timeout, a network error, an error of the server: nothing sends it again.
Lose(p) ==
    /\ p \in pushes
    /\ pushes' = pushes \ {p}
    /\ calm' = 0
    /\ UNCHANGED <<pbx, relayVars, storedKey, wallboardVars>>

\* An administrator generates another key.
RotateKey(key) ==
    /\ key # storedKey
    /\ storedKey' = key
    /\ calm' = 0
    /\ UNCHANGED <<pbx, relayVars, pushes, wallboardVars>>

\* A queue action succeeds in the phone system, where it may find nothing to change;
\* several may be under way.
QueueAction(f, value) ==
    /\ Cardinality(actions) < MaxActions
    /\ \/ Change(f, value)
       \/ pbx[f].value = value /\ UNCHANGED <<pbx, unseenFor, calm>>
    /\ actions' = actions \cup {[fact |-> f, state |-> pbx'[f], age |-> 0]}
    /\ UNCHANGED <<view, up, generation, relayKey, authFailed, lastFingerprint, syncAge, pollAge,
                   pushes, storedKey, store, receivedAge, overrides>>

\* setAgentOverride() or setMembershipOverride(), after the queue has been looked up.
SetOverride(a) ==
    /\ a \in actions
    /\ actions' = actions \ {a}
    /\ overrides' = [overrides EXCEPT ![a.fact] = [state |-> a.state, left |-> OverrideLife]]
    /\ UNCHANGED <<pbx, relayVars, pushes, storedKey, store, receivedAge, calm>>

-----------------------------------------------------------------------------
(* Time.                                                                   *)

KeepForever(override) == override   \* fault: overrides do not expire

AgedPastZero(override) ==   \* fault: an expired override is not removed
    IF override = None THEN None ELSE [override EXCEPT !.left = @ - 1]

\* An override ends when its time is over.
Aged(override) ==
    IF override = None \/ override.left = 0 THEN None
    ELSE [override EXCEPT !.left = @ - 1]

NeverOverdue(p) == FALSE   \* fault: requests have no timeout

\* A push that has not arrived by now never will.
Overdue(p) == p.age >= MaxDelay

\* isRelayFresh()
Fresh == store # None /\ receivedAge < StaleAfter

Tick ==
    /\ \A p \in pushes : ~Overdue(p)
    /\ up => pollAge < PollGap
    /\ \A f \in Fact : up /\ view[f] # pbx[f] => unseenFor[f] < SightDelay
    /\ \A a \in actions : a.age < ActionDelay
    /\ pushes' = {[p EXCEPT !.age = @ + 1] : p \in pushes}
    /\ actions' = {[a EXCEPT !.age = @ + 1] : a \in actions}
    /\ unseenFor' = [f \in Fact |-> IF up /\ view[f] # pbx[f] THEN unseenFor[f] + 1 ELSE 0]
    /\ syncAge' = IF up /\ syncAge < SyncInterval THEN syncAge + 1 ELSE syncAge
    /\ pollAge' = IF up THEN pollAge + 1 ELSE 0
    /\ overrides' = [f \in Fact |-> Aged(overrides[f])]
    /\ IF Fresh THEN store' = [store EXCEPT !.age = @ + 1] /\ receivedAge' = receivedAge + 1
                ELSE UNCHANGED <<store, receivedAge>>
    /\ calm' = IF calm <= Calm THEN calm + 1 ELSE calm
    /\ UNCHANGED <<pbx, view, up, generation, relayKey, authFailed, lastFingerprint, storedKey>>

Init ==
    /\ \E values \in [Fact -> BOOLEAN] : pbx = Guess(values)
    /\ view = pbx
    /\ unseenFor = [f \in Fact |-> 0]
    /\ up = TRUE /\ generation = 0 /\ authFailed = FALSE
    /\ storedKey \in Key /\ relayKey = [g \in 0..MaxRestarts |-> storedKey]
    /\ lastFingerprint = None /\ syncAge = SyncInterval /\ pollAge = 0
    /\ pushes = {}
    /\ store = None /\ receivedAge = 0
    /\ actions = {} /\ overrides = [f \in Fact |-> None]
    /\ calm = 0

Next ==
    \/ \E f \in Fact, value \in BOOLEAN : ChangeElsewhere(f, value) \/ QueueAction(f, value)
    \/ \E f \in Fact : View(f)
    \/ \E other \in BOOLEAN : FastPoll(other)
    \/ \E p \in pushes : Deliver(p) \/ Reject(p) \/ Lose(p)
    \/ \E a \in actions : SetOverride(a)
    \/ Exit
    \/ \E key \in Key, values \in [Fact -> BOOLEAN] : Restart(key, values)
    \/ \E key \in Key : RotateKey(key)
    \/ Tick

Spec == Init /\ [][Next]_vars

-----------------------------------------------------------------------------
(* What should hold.                                                       *)

\* What the wallboard shows in relay mode.
Shown(f) == IF overrides[f] # None THEN overrides[f].state.value ELSE store.facts[f].value

\* The relay runs and its key is the one in force.
Connected == up /\ ~authFailed /\ relayKey[generation] = storedKey

\* Freshness is measured from the receipt, not from the time stamp of the payload:
\* data the wallboard trusts may be older than STALE_MS, but only by the time a
\* push takes, whatever order the pushes come in.
TrustedDataIsRecent ==
    Fresh => store.age < StaleAfter + MaxDelay

\* A relay that runs undisturbed is heard of once per full sync, give or take the
\* time of a push: an unchanged state does not make it look offline.
LiveRelayIsHeard ==
    LET longest == SyncSpacing + MaxDelay IN
    Connected /\ calm > longest => store # None /\ receivedAge <= longest

\* Pushes that overtake each other, overrides pruned by an old payload, overrides of
\* two actions set in the wrong order: some time after the last change the
\* wallboard shows what is so in the phone system.
CalmShowsTruth ==
    Connected /\ calm > Calm => store # None /\ \A f \in Fact : Shown(f) = pbx[f].value

=============================================================================
