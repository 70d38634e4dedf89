------------------------ MODULE RelayPipelineProofs ------------------------
(* Theorems about RelayPipeline for any facts, keys and delays.              *)
EXTENDS RelayPipeline, TLAPS

LEMMA Constants ==
    /\ PollGap \in Nat \ {0} /\ SyncInterval \in Nat \ {0}
    /\ StaleAfter \in Nat \ {0} /\ MaxDelay \in Nat \ {0}
    /\ OverrideLife \in Nat /\ SightDelay \in Nat /\ ActionDelay \in Nat
    /\ MaxChanges \in Nat /\ MaxActions \in Nat /\ MaxRestarts \in Nat
    /\ Calm \in Nat
BY RelayPipelineAssumption DEF Calm, DataSettles, OverrideSettles, SyncSpacing

LEMMA Steps ==
    ASSUME Next
    PROVE  \/ \E f \in Fact, value \in BOOLEAN : ChangeElsewhere(f, value)
           \/ \E f \in Fact, value \in BOOLEAN : QueueAction(f, value)
           \/ \E f \in Fact : View(f)
           \/ \E other \in BOOLEAN : FastPoll(other)
           \/ \E p \in pushes : Deliver(p)
           \/ \E p \in pushes : Reject(p)
           \/ \E p \in pushes : Lose(p)
           \/ \E a \in actions : SetOverride(a)
           \/ Exit
           \/ \E key \in Key, values \in [Fact -> BOOLEAN] : Restart(key, values)
           \/ \E key \in Key : RotateKey(key)
           \/ Tick
BY DEF Next

(* The state in three parts.                                                 *)
RelayTypeOK ==
    /\ pbx \in Facts /\ view \in Facts
    /\ unseenFor \in [Fact -> 0..SightDelay]
    /\ up \in BOOLEAN /\ authFailed \in BOOLEAN
    /\ generation \in 0..MaxRestarts
    /\ relayKey \in [0..MaxRestarts -> Key] /\ storedKey \in Key
    /\ lastFingerprint \in [Fact -> BOOLEAN] \cup {None}
    /\ syncAge \in 0..SyncInterval
    /\ pollAge \in 0..PollGap
    /\ calm \in 0..(Calm + 1)

(* The payload that is stored is older than its receipt by the time the push *)
(* took; freshness stops the clock of both.                                  *)
AgeOfStore == store # None => store.age <= receivedAge + MaxDelay

PushTypeOK ==
    /\ pushes \subseteq Push
    /\ store \in Stored \cup {None}
    /\ receivedAge \in 0..StaleAfter
OverrideTypeOK ==
    /\ actions \subseteq Action
    /\ overrides \in [Fact -> [state : State, left : 0..OverrideLife] \cup {None}]

IInv == TypeOK /\ AgeOfStore

LEMMA TypeParts == TypeOK <=> RelayTypeOK /\ PushTypeOK /\ OverrideTypeOK
BY DEF TypeOK, RelayTypeOK, PushTypeOK, OverrideTypeOK

(* What the relay compares, and what a new process starts from.              *)
LEMMA ValuesType == ASSUME NEW facts \in Facts PROVE Values(facts) \in [Fact -> BOOLEAN]
BY DEF Facts, State, Values

LEMMA GuessType == ASSUME NEW values \in [Fact -> BOOLEAN] PROVE Guess(values) \in Facts
BY Constants DEF Facts, State, Guess

LEMMA ChangeType ==
    ASSUME RelayTypeOK, NEW f \in Fact, NEW value \in BOOLEAN, Change(f, value)
    PROVE  pbx' \in Facts /\ unseenFor' \in [Fact -> 0..SightDelay] /\ calm' \in 0..(Calm + 1)
<1>1. [value |-> value, version |-> pbx[f].version + 1] \in State
  BY Constants DEF RelayTypeOK, Change, Facts, State
<1> QED BY <1>1, Constants DEF RelayTypeOK, Change, Facts

(* A step that ages a push keeps it a push, unless it is overdue.            *)
LEMMA AgedPush ==
    ASSUME NEW p \in Push, ~Overdue(p)
    PROVE  [p EXCEPT !.age = @ + 1] \in Push
BY Constants DEF Push, Overdue

LEMMA AgedAction ==
    ASSUME NEW a \in Action, a.age < ActionDelay
    PROVE  [a EXCEPT !.age = @ + 1] \in Action
BY Constants DEF Action

LEMMA AgedOverride ==
    ASSUME NEW o \in [state : State, left : 0..OverrideLife] \cup {None}
    PROVE  Aged(o) \in [state : State, left : 0..OverrideLife] \cup {None}
<1>1. CASE o = None \/ o.left = 0
  BY <1>1 DEF Aged
<1>2. CASE ~(o = None \/ o.left = 0)
  <2>1. o \in [state : State, left : 0..OverrideLife] /\ o.left \in 1..OverrideLife
    BY <1>2, Constants
  <2>2. [o EXCEPT !.left = @ - 1] \in [state : State, left : 0..OverrideLife]
    BY <2>1, Constants
  <2> QED BY <1>2, <2>2 DEF Aged
<1> QED BY <1>1, <1>2

LEMMA TickPushes ==
    ASSUME PushTypeOK, Tick
    PROVE  pushes' \subseteq Push
<1> SUFFICES ASSUME NEW p \in pushes PROVE [p EXCEPT !.age = @ + 1] \in Push
  BY DEF Tick
<1> QED BY AgedPush DEF PushTypeOK, Tick

LEMMA TickActions ==
    ASSUME OverrideTypeOK, Tick
    PROVE  actions' \subseteq Action
<1> SUFFICES ASSUME NEW a \in actions PROVE [a EXCEPT !.age = @ + 1] \in Action
  BY DEF Tick
<1> QED BY AgedAction DEF OverrideTypeOK, Tick

LEMMA TickStore ==
    ASSUME PushTypeOK, AgeOfStore, Tick
    PROVE  store' \in Stored \cup {None} /\ receivedAge' \in 0..StaleAfter /\ AgeOfStore'
<1>1. CASE Fresh
  <2>1. store \in Stored /\ receivedAge + 1 \in 0..StaleAfter
    BY <1>1, Constants DEF PushTypeOK, Fresh
  <2>2. store.age + 1 \in 0..(StaleAfter + MaxDelay) /\ store.age + 1 <= receivedAge + 1 + MaxDelay
    BY <1>1, <2>1, Constants DEF Stored, AgeOfStore, Fresh, PushTypeOK
  <2>3. store' = [store EXCEPT !.age = @ + 1] /\ receivedAge' = receivedAge + 1
    BY <1>1 DEF Tick
  <2>4. store' \in Stored /\ store'.age = store.age + 1
    BY <2>1, <2>2, <2>3 DEF Stored
  <2> QED BY <2>1, <2>2, <2>3, <2>4 DEF AgeOfStore
<1>2. CASE ~Fresh
  BY <1>2 DEF Tick, PushTypeOK, AgeOfStore
<1> QED BY <1>1, <1>2

LEMMA TickRelay ==
    ASSUME RelayTypeOK, Tick
    PROVE  RelayTypeOK'
<1>1. unseenFor' \in [Fact -> 0..SightDelay]
  <2> SUFFICES ASSUME NEW f \in Fact
               PROVE (IF up /\ view[f] # pbx[f] THEN unseenFor[f] + 1 ELSE 0) \in 0..SightDelay
    BY DEF Tick
  <2> QED BY Constants DEF Tick, RelayTypeOK
<1>2. syncAge' \in 0..SyncInterval
  BY Constants DEF Tick, RelayTypeOK
<1>3. pollAge' \in 0..PollGap
  BY Constants DEF Tick, RelayTypeOK
<1>4. calm' \in 0..(Calm + 1)
  BY Constants DEF Tick, RelayTypeOK
<1> QED BY <1>1, <1>2, <1>3, <1>4 DEF Tick, RelayTypeOK

-----------------------------------------------------------------------------

LEMMA InitInv == Init => IInv
<1> SUFFICES ASSUME Init PROVE IInv
  OBVIOUS
<1>1. pbx \in Facts
  BY GuessType DEF Init
<1>2. RelayTypeOK
  <2>1. unseenFor \in [Fact -> 0..SightDelay] /\ relayKey \in [0..MaxRestarts -> Key]
    BY Constants DEF Init
  <2>2. generation \in 0..MaxRestarts /\ syncAge \in 0..SyncInterval /\ pollAge \in 0..PollGap
        /\ calm \in 0..(Calm + 1)
    BY Constants DEF Init
  <2> QED BY <1>1, <2>1, <2>2 DEF Init, RelayTypeOK
<1>3. PushTypeOK /\ OverrideTypeOK
  BY Constants DEF Init, PushTypeOK, OverrideTypeOK
<1> QED BY <1>2, <1>3, TypeParts DEF IInv, AgeOfStore, Init

LEMMA RelayStep == RelayTypeOK /\ PushTypeOK /\ [Next]_vars => RelayTypeOK'
<1> SUFFICES ASSUME RelayTypeOK, PushTypeOK, [Next]_vars PROVE RelayTypeOK'
  OBVIOUS
<1> USE DEF RelayTypeOK, relayVars, wallboardVars
<1>1. CASE UNCHANGED vars
  BY <1>1 DEF vars
<1>2. ASSUME NEW f \in Fact, NEW value \in BOOLEAN, ChangeElsewhere(f, value) PROVE RelayTypeOK'
  <2>1. pbx' \in Facts /\ unseenFor' \in [Fact -> 0..SightDelay] /\ calm' \in 0..(Calm + 1)
    BY <1>2, ChangeType DEF ChangeElsewhere
  <2> QED BY <1>2, <2>1 DEF ChangeElsewhere
<1>3. ASSUME NEW f \in Fact, NEW value \in BOOLEAN, QueueAction(f, value) PROVE RelayTypeOK'
  <2>1. pbx' \in Facts /\ unseenFor' \in [Fact -> 0..SightDelay] /\ calm' \in 0..(Calm + 1)
    BY <1>3, ChangeType DEF QueueAction
  <2> QED BY <1>3, <2>1 DEF QueueAction
<1>4. ASSUME NEW f \in Fact, View(f) PROVE RelayTypeOK'
  BY <1>4, Constants DEF View, Facts
<1>5. ASSUME NEW other \in BOOLEAN, FastPoll(other) PROVE RelayTypeOK'
  <2>1. Values(view) \in [Fact -> BOOLEAN]
    BY ValuesType
  <2>2. lastFingerprint' \in [Fact -> BOOLEAN] \cup {None} /\ syncAge' \in 0..SyncInterval
        /\ pollAge' \in 0..PollGap
    BY <1>5, <2>1, Constants DEF FastPoll
  <2> QED BY <1>5, <2>2 DEF FastPoll
<1>6. ASSUME NEW p \in pushes, Deliver(p) PROVE RelayTypeOK'
  BY <1>6 DEF Deliver
<1>7. ASSUME NEW p \in pushes, Reject(p) PROVE RelayTypeOK'
  BY <1>7 DEF Reject
<1>8. ASSUME NEW p \in pushes, Lose(p) PROVE RelayTypeOK'
  BY <1>8, Constants DEF Lose
<1>9. ASSUME NEW a \in actions, SetOverride(a) PROVE RelayTypeOK'
  BY <1>9 DEF SetOverride
<1>10. CASE Exit
  <2>1. view' \in Facts
    <3>1. [f \in Fact |-> FALSE] \in [Fact -> BOOLEAN]
      OBVIOUS
    <3> QED BY <1>10, <3>1, GuessType DEF Exit
  <2>2. unseenFor' \in [Fact -> 0..SightDelay] /\ calm' \in 0..(Calm + 1)
    BY <1>10, Constants DEF Exit
  <2>3. syncAge' \in 0..SyncInterval /\ pollAge' \in 0..PollGap
    BY <1>10, Constants DEF Exit
  <2> QED BY <1>10, <2>1, <2>2, <2>3 DEF Exit
<1>11. ASSUME NEW key \in Key, NEW values \in [Fact -> BOOLEAN], Restart(key, values)
       PROVE  RelayTypeOK'
  <2>1. view' \in Facts
    BY <1>11, GuessType DEF Restart
  <2>2. generation' \in 0..MaxRestarts /\ calm' \in 0..(Calm + 1)
    BY <1>11, Constants DEF Restart
  <2> QED BY <1>11, <2>1, <2>2 DEF Restart
<1>12. ASSUME NEW key \in Key, RotateKey(key) PROVE RelayTypeOK'
  BY <1>12, Constants DEF RotateKey
<1>13. CASE Tick
  BY <1>13, TickRelay
<1> QED BY Steps, <1>1, <1>2, <1>3, <1>4, <1>5, <1>6, <1>7, <1>8, <1>9, <1>10, <1>11, <1>12, <1>13

LEMMA PushStep ==
    RelayTypeOK /\ PushTypeOK /\ AgeOfStore /\ [Next]_vars => PushTypeOK' /\ AgeOfStore'
<1> SUFFICES ASSUME RelayTypeOK, PushTypeOK, AgeOfStore, [Next]_vars
             PROVE  PushTypeOK' /\ AgeOfStore'
  OBVIOUS
<1>1. ASSUME pushes' \subseteq pushes, UNCHANGED <<store, receivedAge>> PROVE PushTypeOK' /\ AgeOfStore'
  BY <1>1 DEF PushTypeOK, AgeOfStore
<1>2. ASSUME NEW other \in BOOLEAN, FastPoll(other) PROVE PushTypeOK' /\ AgeOfStore'
  <2>1. PICK events \in SUBSET {"change", "sync"} : pushes' = Pushes(events)
    <3> DEFINE events == (IF other \/ lastFingerprint # Values(view) THEN {"change"} ELSE {})
                         \cup (IF SyncDue THEN {"sync"} ELSE {})
    <3>1. pushes' = Pushes(events)
      BY <1>2 DEF FastPoll
    <3>2. events \in SUBSET {"change", "sync"}
      OBVIOUS
    <3> QED BY <3>1, <3>2
  <2>2. \A e \in events : [facts |-> view, age |-> 0, event |-> e, from |-> generation] \in Push
    BY Constants DEF Push, RelayTypeOK
  <2>3. pushes' \subseteq Push
    BY <2>1, <2>2 DEF Pushes, PushTypeOK
  <2> QED BY <1>2, <2>3 DEF FastPoll, wallboardVars, PushTypeOK, AgeOfStore
<1>3. ASSUME NEW p \in pushes, Deliver(p) PROVE PushTypeOK' /\ AgeOfStore'
  <2>1. p.facts \in Facts /\ p.age \in 0..MaxDelay
    BY DEF PushTypeOK, Push
  <2>2. store' = [facts |-> p.facts, age |-> p.age] /\ receivedAge' = 0 /\ pushes' \subseteq pushes
    BY <1>3 DEF Deliver
  <2>3. store' \in Stored /\ store'.age <= MaxDelay
    BY <2>1, <2>2, Constants DEF Stored
  <2> QED BY <2>2, <2>3, Constants DEF PushTypeOK, AgeOfStore
<1>4. CASE Tick
  BY <1>4, TickPushes, TickStore DEF PushTypeOK
<1>5. CASE UNCHANGED vars
  BY <1>1, <1>5 DEF vars, wallboardVars
<1>6. ASSUME NEW f \in Fact, NEW value \in BOOLEAN, ChangeElsewhere(f, value)
      PROVE  PushTypeOK' /\ AgeOfStore'
  BY <1>1, <1>6 DEF ChangeElsewhere, wallboardVars
<1>7. ASSUME NEW f \in Fact, NEW value \in BOOLEAN, QueueAction(f, value)
      PROVE  PushTypeOK' /\ AgeOfStore'
  BY <1>1, <1>7 DEF QueueAction
<1>8. ASSUME NEW f \in Fact, View(f) PROVE PushTypeOK' /\ AgeOfStore'
  BY <1>1, <1>8 DEF View, wallboardVars
<1>9. ASSUME NEW p \in pushes, Reject(p) PROVE PushTypeOK' /\ AgeOfStore'
  BY <1>1, <1>9 DEF Reject, wallboardVars
<1>10. ASSUME NEW p \in pushes, Lose(p) PROVE PushTypeOK' /\ AgeOfStore'
  BY <1>1, <1>10 DEF Lose, wallboardVars
<1>11. ASSUME NEW a \in actions, SetOverride(a) PROVE PushTypeOK' /\ AgeOfStore'
  BY <1>1, <1>11 DEF SetOverride
<1>12. CASE Exit
  BY <1>1, <1>12 DEF Exit, wallboardVars
<1>13. ASSUME NEW key \in Key, NEW values \in [Fact -> BOOLEAN], Restart(key, values)
       PROVE  PushTypeOK' /\ AgeOfStore'
  BY <1>1, <1>13 DEF Restart, wallboardVars
<1>14. ASSUME NEW key \in Key, RotateKey(key) PROVE PushTypeOK' /\ AgeOfStore'
  BY <1>1, <1>14 DEF RotateKey, wallboardVars
<1> QED BY Steps, <1>2, <1>3, <1>4, <1>5, <1>6, <1>7, <1>8, <1>9, <1>10, <1>11, <1>12, <1>13, <1>14

LEMMA OverrideStep == RelayTypeOK /\ OverrideTypeOK /\ [Next]_vars => OverrideTypeOK'
<1> SUFFICES ASSUME RelayTypeOK, OverrideTypeOK, [Next]_vars PROVE OverrideTypeOK'
  OBVIOUS
<1> USE DEF OverrideTypeOK, wallboardVars
<1>1. CASE UNCHANGED <<actions, overrides>>
  BY <1>1
<1>2. ASSUME NEW f \in Fact, NEW value \in BOOLEAN, QueueAction(f, value) PROVE OverrideTypeOK'
  <2>1. pbx' \in Facts
    BY <1>2, ChangeType DEF QueueAction, RelayTypeOK
  <2>2. [fact |-> f, state |-> pbx'[f], age |-> 0] \in Action
    BY <2>1, Constants DEF Action, Facts
  <2> QED BY <1>2, <2>2 DEF QueueAction
<1>3. ASSUME NEW p \in pushes, Deliver(p) PROVE OverrideTypeOK'
  BY <1>3 DEF Deliver, Pruned
<1>4. ASSUME NEW a \in actions, SetOverride(a) PROVE OverrideTypeOK'
  <2>1. a.fact \in Fact /\ a.state \in State
    BY DEF Action
  <2>2. [state |-> a.state, left |-> OverrideLife] \in [state : State, left : 0..OverrideLife]
    BY <2>1, Constants
  <2> QED BY <1>4, <2>1, <2>2 DEF SetOverride
<1>5. CASE Tick
  <2>1. overrides' \in [Fact -> [state : State, left : 0..OverrideLife] \cup {None}]
    BY <1>5, AgedOverride DEF Tick
  <2> QED BY <1>5, <2>1, TickActions
<1>6. ASSUME NEW f \in Fact, NEW value \in BOOLEAN, ChangeElsewhere(f, value) PROVE OverrideTypeOK'
  BY <1>1, <1>6 DEF ChangeElsewhere
<1>7. ASSUME NEW f \in Fact, View(f) PROVE OverrideTypeOK'
  BY <1>1, <1>7 DEF View
<1>8. ASSUME NEW other \in BOOLEAN, FastPoll(other) PROVE OverrideTypeOK'
  BY <1>1, <1>8 DEF FastPoll
<1>9. ASSUME NEW p \in pushes, Reject(p) PROVE OverrideTypeOK'
  BY <1>1, <1>9 DEF Reject
<1>10. ASSUME NEW p \in pushes, Lose(p) PROVE OverrideTypeOK'
  BY <1>1, <1>10 DEF Lose
<1>11. CASE Exit
  BY <1>1, <1>11 DEF Exit
<1>12. ASSUME NEW key \in Key, NEW values \in [Fact -> BOOLEAN], Restart(key, values)
       PROVE  OverrideTypeOK'
  BY <1>1, <1>12 DEF Restart
<1>13. ASSUME NEW key \in Key, RotateKey(key) PROVE OverrideTypeOK'
  BY <1>1, <1>13 DEF RotateKey
<1>14. CASE UNCHANGED vars
  BY <1>1, <1>14 DEF vars
<1> QED BY Steps, <1>2, <1>3, <1>4, <1>5, <1>6, <1>7, <1>8, <1>9, <1>10, <1>11, <1>12, <1>13, <1>14

LEMMA Invariance == Spec => []IInv
<1>1. IInv /\ [Next]_vars => IInv'
  BY TypeParts, RelayStep, PushStep, OverrideStep DEF IInv, TypeOK, RelayTypeOK, PushTypeOK,
     OverrideTypeOK
<1> QED BY InitInv, <1>1, PTL DEF Spec

(* Every variable keeps its type: ages stop at their deadlines because time  *)
(* waits for what is due.                                                    *)
THEOREM TypeCorrect == Spec => []TypeOK
<1>1. IInv => TypeOK
  BY DEF IInv
<1> QED BY <1>1, Invariance, PTL

(* Whatever the order in which pushes arrive, are lost or are rejected, and  *)
(* whichever process of the relay sent them, data that look fresh are older  *)
(* than STALE_MS by less than the time a push takes.                         *)
THEOREM TrustedIsRecent == Spec => []TrustedDataIsRecent
<1>1. IInv => TrustedDataIsRecent
  <2> SUFFICES ASSUME IInv, Fresh PROVE store.age < StaleAfter + MaxDelay
    BY DEF TrustedDataIsRecent
  <2>1. store \in Stored /\ receivedAge \in 0..StaleAfter /\ receivedAge < StaleAfter
        /\ store.age <= receivedAge + MaxDelay
    BY TypeParts DEF IInv, AgeOfStore, Fresh, PushTypeOK
  <2> QED BY <2>1, Constants DEF Stored
<1> QED BY <1>1, Invariance, PTL

-----------------------------------------------------------------------------
(* A relay that runs undisturbed is heard of, and the wallboard comes to     *)
(* show what is so.  Everything is told as a deadline: how calm it can have  *)
(* been at most, for something still to be wrong.                            *)

(* The time to the next full sync, at most.                                  *)
NextSync == IF syncAge < SyncInterval THEN SyncInterval - syncAge + PollGap - 1
                                      ELSE PollGap - pollAge

(* By "deadline" the full sync arrives that is next, or that is under way,   *)
(* counted from something that is "age" old.                                 *)
SyncArrivesBy(age, deadline) ==
    \/ age + NextSync + MaxDelay <= deadline
    \/ \E p \in pushes : /\ p.event = "sync" /\ p.from = generation
                         /\ age + MaxDelay - p.age <= deadline

Heard ==
    Connected => \/ SyncArrivesBy(calm, SyncSpacing + MaxDelay)
                 \/ store # None /\ SyncArrivesBy(receivedAge, SyncSpacing + MaxDelay)

(* What the relay sees, what it has sent, and what the wallboard has stored. *)
SaysTruth(facts) == \A f \in Fact : facts[f].value = pbx[f].value

ViewTrue    == \A f \in Fact : up /\ view[f] # pbx[f] => calm <= unseenFor[f]
PushesTrue  == \A p \in pushes : SaysTruth(p.facts) \/ calm <= SightDelay + p.age
StoreTrue   == Connected => \/ store # None /\ SaysTruth(store.facts)
                            \/ SyncArrivesBy(calm, DataSettles)

(* What a queue action did, and what its override says.                      *)
ActionsTrue == \A a \in actions : a.state.value = pbx[a.fact].value \/ calm <= a.age
OverridesTrue ==
    \A f \in Fact : overrides[f] # None =>
        overrides[f].state.value = pbx[f].value \/ calm <= OverrideSettles - overrides[f].left

Settling == Heard /\ ViewTrue /\ PushesTrue /\ StoreTrue /\ ActionsTrue /\ OverridesTrue

LEMMA NextSyncRange == ASSUME RelayTypeOK PROVE NextSync \in 0..SyncSpacing
BY Constants DEF RelayTypeOK, NextSync, SyncSpacing

LEMMA PushParts ==
    ASSUME PushTypeOK, NEW p \in pushes
    PROVE  p.facts \in Facts /\ p.age \in 0..MaxDelay /\ p.from \in 0..MaxRestarts
BY DEF PushTypeOK, Push

(* Every formula of Settling holds right after a disturbance.                *)
LEMMA Disturbed == IInv /\ calm = 0 => Settling
<1> SUFFICES ASSUME IInv, calm = 0 PROVE Settling
  OBVIOUS
<1> USE TypeParts DEF IInv
<1>1. NextSync \in 0..SyncSpacing
  BY NextSyncRange
<1>2. SyncArrivesBy(calm, SyncSpacing + MaxDelay) /\ SyncArrivesBy(calm, DataSettles)
  <2>1. 0 + NextSync + MaxDelay <= SyncSpacing + MaxDelay
    BY <1>1, Constants DEF SyncSpacing
  <2>2. 0 + NextSync + MaxDelay <= DataSettles
    BY <1>1, Constants DEF SyncSpacing, DataSettles
  <2> QED BY <2>1, <2>2 DEF SyncArrivesBy
<1>3. ViewTrue
  BY Constants DEF ViewTrue, RelayTypeOK
<1>4. PushesTrue
  BY PushParts, Constants DEF PushesTrue
<1>5. ActionsTrue
  BY Constants DEF ActionsTrue, OverrideTypeOK, Action
<1>6. OverridesTrue
  <2> SUFFICES ASSUME NEW f \in Fact, overrides[f] # None
               PROVE  0 <= OverrideSettles - overrides[f].left
    BY DEF OverridesTrue
  <2>1. overrides[f].left \in 0..OverrideLife
    BY DEF OverrideTypeOK
  <2> QED BY <2>1, Constants DEF OverrideSettles
<1> QED BY <1>2, <1>3, <1>4, <1>5, <1>6 DEF Settling, Heard, StoreTrue

LEMMA DisturbedNext == (IInv /\ calm = 0 => Settling)'
BY Disturbed, PTL

(* A step that leaves the clocks of the relay and its syncs alone.           *)
LEMMA SyncKept ==
    ASSUME UNCHANGED <<syncAge, pollAge, generation>>,
           \A p \in pushes : p.event = "sync" /\ p.from = generation => p \in pushes',
           NEW age, NEW deadline, SyncArrivesBy(age, deadline)
    PROVE  SyncArrivesBy(age, deadline)'
BY DEF SyncArrivesBy, NextSync

(* A poll sends the sync that is due, unless the key was rejected.           *)
LEMMA SyncPolled ==
    ASSUME RelayTypeOK, NEW other \in BOOLEAN, FastPoll(other), ~authFailed,
           NEW age \in Int, NEW deadline \in Int, SyncArrivesBy(age, deadline)
    PROVE  SyncArrivesBy(age, deadline)'
<1>1. pushes \subseteq pushes' /\ generation' = generation
  BY DEF FastPoll, Pushes
<1>2. CASE SyncDue
  <2> DEFINE sync == [facts |-> view, age |-> 0, event |-> "sync", from |-> generation]
  <2>1. sync \in pushes'
    BY <1>2 DEF FastPoll, Pushes
  <2>2. CASE age + NextSync + MaxDelay <= deadline
    <3>1. age + MaxDelay - 0 <= deadline
      BY <2>2, NextSyncRange, Constants DEF SyncSpacing
    <3>2. sync.event = "sync" /\ sync.from = generation' /\ sync.age = 0
      BY <1>1
    <3> HIDE DEF sync
    <3> QED BY <2>1, <3>1, <3>2 DEF SyncArrivesBy
  <2> QED BY <1>1, <2>2 DEF SyncArrivesBy
<1>3. CASE ~SyncDue
  <2>1. syncAge' = syncAge /\ syncAge < SyncInterval
    BY <1>3, Constants DEF FastPoll, SyncDue, RelayTypeOK
  <2>2. NextSync' = NextSync
    BY <2>1 DEF NextSync
  <2> QED BY <1>1, <2>2 DEF SyncArrivesBy
<1> QED BY <1>2, <1>3

LEMMA OneLater ==
    ASSUME NEW age \in Int, NEW later \in Int, NEW n \in Int, NEW m \in Int, NEW rest \in Int,
           NEW deadline \in Int,
           later <= age + 1, m + 1 <= n, age + n + rest <= deadline
    PROVE  later + m + rest <= deadline
OBVIOUS

(* Time brings the sync nearer.                                              *)
LEMMA SyncTicks ==
    ASSUME RelayTypeOK, PushTypeOK, Tick, up,
           NEW age \in Int, NEW later \in Int, later <= age + 1,
           NEW deadline \in Int, SyncArrivesBy(age, deadline)
    PROVE  SyncArrivesBy(later, deadline)'
<1>1. NextSync \in Int /\ NextSync' \in Int /\ NextSync' + 1 <= NextSync
  <2>1. syncAge \in 0..SyncInterval /\ pollAge \in 0..PollGap /\ pollAge < PollGap
    BY DEF Tick, RelayTypeOK
  <2>2. pollAge' = pollAge + 1
        /\ syncAge' = IF syncAge < SyncInterval THEN syncAge + 1 ELSE syncAge
    BY DEF Tick
  <2> QED BY <2>1, <2>2, Constants DEF NextSync
<1>2. CASE age + NextSync + MaxDelay <= deadline
  <2>1. PICK n \in Int, m \in Int : n = NextSync /\ m = NextSync' /\ m + 1 <= n
    BY <1>1
  <2>2. MaxDelay \in Int /\ age + n + MaxDelay <= deadline
    BY <1>2, <2>1, Constants
  <2>3. later + m + MaxDelay <= deadline
    BY <2>1, <2>2, OneLater
  <2> QED BY <2>1, <2>3 DEF SyncArrivesBy
<1>3. ASSUME NEW p \in pushes, p.event = "sync", p.from = generation,
             age + MaxDelay - p.age <= deadline
      PROVE  SyncArrivesBy(later, deadline)'
  <2> DEFINE q == [p EXCEPT !.age = @ + 1]
  <2>1. q \in pushes' /\ generation' = generation
    BY DEF Tick
  <2>2. q.event = "sync" /\ q.from = generation /\ q.age = p.age + 1 /\ p.age \in Int
    BY <1>3, PushParts DEF PushTypeOK, Push
  <2> HIDE DEF q
  <2>3. later + MaxDelay - q.age <= deadline
    BY <1>3, <2>2, Constants
  <2> QED BY <2>1, <2>2, <2>3 DEF SyncArrivesBy
<1> QED BY <1>2, <1>3 DEF SyncArrivesBy

-----------------------------------------------------------------------------
(* The steps that do not disturb anything.                                   *)
LEMMA ViewSettles ==
    ASSUME IInv, IInv', Settling, NEW f \in Fact, View(f)
    PROVE  Settling'
<1> USE DEF View, wallboardVars
<1>1. \A a, d : SyncArrivesBy(a, d) => SyncArrivesBy(a, d)'
  BY SyncKept
<1>2. Heard' /\ StoreTrue'
  BY <1>1 DEF Settling, Heard, StoreTrue, Connected, SaysTruth
<1>3. ViewTrue'
  BY TypeParts DEF Settling, ViewTrue, IInv, RelayTypeOK, Facts
<1>4. PushesTrue' /\ ActionsTrue' /\ OverridesTrue'
  BY DEF Settling, PushesTrue, ActionsTrue, OverridesTrue, SaysTruth
<1> QED BY <1>2, <1>3, <1>4 DEF Settling

LEMMA PollSettles ==
    ASSUME IInv, IInv', Settling, NEW other \in BOOLEAN, FastPoll(other)
    PROVE  Settling'
<1> USE TypeParts DEF IInv, wallboardVars
<1>1. \A a, d \in Int : SyncArrivesBy(a, d) /\ ~authFailed => SyncArrivesBy(a, d)'
  BY SyncPolled
<1>2. calm \in Int /\ receivedAge \in Int /\ SyncSpacing + MaxDelay \in Int /\ DataSettles \in Int
  BY Constants DEF RelayTypeOK, PushTypeOK, SyncSpacing, DataSettles
<1>3. UNCHANGED <<pbx, view, unseenFor, up, generation, relayKey, authFailed, storedKey, store,
                  receivedAge, actions, overrides, calm>>
  BY DEF FastPoll
<1>4. Heard' /\ StoreTrue'
  BY <1>1, <1>2, <1>3 DEF Settling, Heard, StoreTrue, Connected, SaysTruth
<1>5. PushesTrue'
  <2> SUFFICES ASSUME NEW p \in pushes' PROVE (SaysTruth(p.facts) \/ calm <= SightDelay + p.age)
    BY <1>3 DEF PushesTrue, SaysTruth
  <2>1. CASE p \in pushes
    BY <2>1 DEF Settling, PushesTrue
  <2>2. CASE p \notin pushes
    <3>1. p.facts = view /\ p.age = 0
      BY <2>2 DEF FastPoll, Pushes
    <3>2. ASSUME NEW f \in Fact, view[f].value # pbx[f].value PROVE calm <= SightDelay + 0
      <4>1. up /\ calm <= unseenFor[f] /\ unseenFor[f] \in 0..SightDelay
        BY <3>2 DEF Settling, ViewTrue, FastPoll, RelayTypeOK
      <4> QED BY <4>1, <1>2, Constants
    <3> QED BY <3>1, <3>2 DEF SaysTruth
  <2> QED BY <2>1, <2>2
<1>6. ViewTrue' /\ ActionsTrue' /\ OverridesTrue'
  BY <1>3 DEF Settling, ViewTrue, ActionsTrue, OverridesTrue
<1> QED BY <1>4, <1>5, <1>6 DEF Settling

(* A push arrives: the relay has been heard of, and what is stored is true,  *)
(* unless the change is so recent that the next full sync mends it in time.  *)
LEMMA DeliverSettles ==
    ASSUME IInv, IInv', Settling, NEW p \in pushes, Deliver(p)
    PROVE  Settling'
<1> USE TypeParts DEF IInv, relayVars
<1>1. UNCHANGED <<pbx, view, unseenFor, up, generation, relayKey, authFailed, syncAge, pollAge, storedKey,
                  actions, calm>>
  BY DEF Deliver
<1>2. store' # None /\ store'.facts = p.facts /\ receivedAge' = 0
  <2>1. store' = [facts |-> p.facts, age |-> p.age] /\ p.age \in 0..(StaleAfter + MaxDelay)
    BY PushParts, Constants DEF Deliver
  <2>2. store' \in Stored
    BY <2>1, PushParts DEF Stored
  <2> QED BY <2>1, <2>2, NoneAssumption DEF Deliver
<1>3. NextSync' = NextSync /\ NextSync \in 0..SyncSpacing
  BY <1>1, NextSyncRange DEF NextSync
<1>4. Heard'
  <2>1. 0 + NextSync + MaxDelay <= SyncSpacing + MaxDelay
    BY <1>3, Constants DEF SyncSpacing
  <2> QED BY <1>2, <1>3, <2>1 DEF Heard, SyncArrivesBy
<1>5. StoreTrue'
  <2>1. CASE SaysTruth(p.facts)
    BY <1>1, <1>2, <2>1 DEF StoreTrue, SaysTruth
  <2>2. CASE ~SaysTruth(p.facts)
    <3>1. calm <= SightDelay + p.age /\ p.age \in 0..MaxDelay
      BY <2>2, PushParts DEF Settling, PushesTrue
    <3>2. calm + NextSync + MaxDelay <= DataSettles
      BY <1>3, <3>1, Constants DEF DataSettles, RelayTypeOK, SyncSpacing
    <3> QED BY <1>1, <1>3, <3>2 DEF StoreTrue, SyncArrivesBy
  <2> QED BY <2>1, <2>2
<1>6. PushesTrue'
  BY <1>1 DEF Settling, PushesTrue, SaysTruth, Deliver
<1>7. OverridesTrue'
  BY <1>1 DEF Settling, OverridesTrue, Deliver, Pruned
<1>8. ViewTrue' /\ ActionsTrue'
  BY <1>1 DEF Settling, ViewTrue, ActionsTrue
<1> QED BY <1>4, <1>5, <1>6, <1>7, <1>8 DEF Settling

(* Only a push of an older process is rejected while the relay is connected. *)
LEMMA RejectSettles ==
    ASSUME IInv, IInv', Settling, NEW p \in pushes, Reject(p)
    PROVE  Settling'
<1> USE DEF wallboardVars
<1>1. UNCHANGED <<pbx, view, unseenFor, up, generation, relayKey, syncAge, pollAge, storedKey, store,
                  receivedAge, actions, overrides, calm>> /\ pushes' = pushes \ {p}
  BY DEF Reject
<1>2. Connected' => Connected /\ p.from # generation
  BY TypeParts DEF Reject, Connected, IInv, RelayTypeOK
<1>3. ASSUME Connected' PROVE \A a, d : SyncArrivesBy(a, d) => SyncArrivesBy(a, d)'
  BY <1>1, <1>2, <1>3, SyncKept
<1>4. Heard' /\ StoreTrue'
  BY <1>1, <1>2, <1>3 DEF Settling, Heard, StoreTrue, SaysTruth
<1>5. PushesTrue' /\ ViewTrue' /\ ActionsTrue' /\ OverridesTrue'
  BY <1>1 DEF Settling, PushesTrue, ViewTrue, ActionsTrue, OverridesTrue, SaysTruth
<1> QED BY <1>4, <1>5 DEF Settling

(* A queue action that finds nothing to change, and the override of one.     *)
LEMMA ActionSettles ==
    ASSUME IInv, IInv', Settling,
           UNCHANGED <<pbx, relayVars, pushes, storedKey, store, receivedAge, calm>>,
           \/ overrides' = overrides
              /\ \A a \in actions' : a \in actions \/ a.state.value = pbx[a.fact].value
           \/ \E a \in actions : SetOverride(a)
    PROVE  Settling'
<1> USE DEF relayVars
<1>1. \A a, d : SyncArrivesBy(a, d) => SyncArrivesBy(a, d)'
  BY SyncKept
<1>2. Heard' /\ StoreTrue' /\ PushesTrue' /\ ViewTrue'
  BY <1>1 DEF Settling, Heard, StoreTrue, Connected, PushesTrue, ViewTrue, SaysTruth
<1>3. CASE /\ overrides' = overrides
           /\ \A a \in actions' : a \in actions \/ a.state.value = pbx[a.fact].value
  BY <1>2, <1>3 DEF Settling, ActionsTrue, OverridesTrue
<1>4. ASSUME NEW a \in actions, SetOverride(a) PROVE Settling'
  <2>1. ActionsTrue'
    BY <1>4 DEF SetOverride, Settling, ActionsTrue
  <2>2. a.age \in 0..ActionDelay /\ a.fact \in Fact
    BY TypeParts DEF IInv, OverrideTypeOK, Action
  <2>3. a.state.value = pbx[a.fact].value \/ calm <= OverrideSettles - OverrideLife
    BY <2>2, TypeParts, Constants
       DEF Settling, ActionsTrue, OverrideSettles, IInv, RelayTypeOK
  <2>4. OverridesTrue'
    BY <1>4, <2>2, <2>3, TypeParts DEF SetOverride, Settling, OverridesTrue, IInv, OverrideTypeOK
  <2> QED BY <1>2, <2>1, <2>4 DEF Settling
<1> QED BY <1>3, <1>4

(* A tick of the clock makes everything at most one unit calmer, and brings  *)
(* every deadline one unit nearer.                                           *)
LEMMA TickSettles ==
    ASSUME IInv, IInv', Settling, Tick
    PROVE  Settling'
<1> USE TypeParts DEF IInv
<1>1. UNCHANGED <<pbx, view, up, generation, relayKey, authFailed, storedKey>>
  BY DEF Tick
<1>2. PICK later \in Int : later = calm' /\ later <= calm + 1
  BY Constants DEF Tick, RelayTypeOK
<1>3. PICK received \in Int : received = receivedAge' /\ received <= receivedAge + 1
  BY DEF Tick, PushTypeOK
<1>4. calm \in Int /\ receivedAge \in Int /\ SyncSpacing + MaxDelay \in Int /\ DataSettles \in Int
  BY Constants DEF RelayTypeOK, PushTypeOK, SyncSpacing, DataSettles
<1>5. (store # None => store' # None /\ store'.facts = store.facts)
  <2>1. CASE Fresh
    <3>1. store \in Stored /\ store' = [store EXCEPT !.age = @ + 1]
      BY <2>1 DEF Fresh, Tick, PushTypeOK
    <3>2. store'.facts = store.facts /\ store' \in Stored
      <4>1. AgeOfStore /\ store' \in Stored \cup {None}
        BY TickStore
      <4>2. store' = [facts |-> store.facts, age |-> store.age + 1] /\ store.facts \in Facts
            /\ store.age + 1 \in 0..(StaleAfter + MaxDelay)
        <5>1. store.age \in 0..(StaleAfter + MaxDelay) /\ receivedAge < StaleAfter
              /\ store.age <= receivedAge + MaxDelay /\ receivedAge \in Int
          BY <2>1, <3>1, NoneAssumption, <4>1 DEF Stored, Fresh, AgeOfStore, PushTypeOK
        <5> QED BY <3>1, <5>1, Constants DEF Stored
      <4> QED BY <4>2 DEF Stored
    <3> QED BY <3>2, NoneAssumption
  <2>2. CASE ~Fresh
    BY <2>2 DEF Tick
  <2> QED BY <2>1, <2>2
<1>6. Heard'
  <2> SUFFICES ASSUME Connected'
               PROVE  \/ SyncArrivesBy(calm, SyncSpacing + MaxDelay)'
                      \/ store' # None /\ SyncArrivesBy(receivedAge, SyncSpacing + MaxDelay)'
    BY DEF Heard
  <2>1. Connected /\ up
    BY <1>1 DEF Connected
  <2>2. CASE SyncArrivesBy(calm, SyncSpacing + MaxDelay)
    <3>1. SyncArrivesBy(later, SyncSpacing + MaxDelay)'
      BY <1>2, <1>4, <2>1, <2>2, SyncTicks
    <3> QED BY <1>2, <3>1 DEF SyncArrivesBy
  <2>3. CASE store # None /\ SyncArrivesBy(receivedAge, SyncSpacing + MaxDelay)
    <3>1. SyncArrivesBy(received, SyncSpacing + MaxDelay)'
      BY <1>3, <1>4, <2>1, <2>3, SyncTicks
    <3> QED BY <1>3, <1>5, <2>3, <3>1 DEF SyncArrivesBy
  <2> QED BY <2>1, <2>2, <2>3 DEF Settling, Heard
<1>7. StoreTrue'
  <2> SUFFICES ASSUME Connected'
               PROVE  \/ store' # None /\ SaysTruth(store.facts)'
                      \/ SyncArrivesBy(calm, DataSettles)'
    BY DEF StoreTrue
  <2>1. Connected /\ up
    BY <1>1 DEF Connected
  <2>2. CASE SyncArrivesBy(calm, DataSettles)
    <3>1. SyncArrivesBy(later, DataSettles)'
      BY <1>2, <1>4, <2>1, <2>2, SyncTicks
    <3> QED BY <1>2, <3>1 DEF SyncArrivesBy
  <2>3. CASE store # None /\ SaysTruth(store.facts)
    BY <1>1, <1>5, <2>3 DEF SaysTruth
  <2> QED BY <2>1, <2>2, <2>3 DEF Settling, StoreTrue
<1>8. ViewTrue'
  <2> SUFFICES ASSUME NEW f \in Fact, up, view[f] # pbx[f] PROVE later <= unseenFor'[f]
    BY <1>1, <1>2 DEF ViewTrue
  <2>1. unseenFor'[f] = unseenFor[f] + 1 /\ calm <= unseenFor[f] /\ unseenFor[f] \in Int
    BY DEF Tick, Settling, ViewTrue, RelayTypeOK
  <2> QED BY <1>2, <1>4, <2>1
<1>9. PushesTrue'
  <2> SUFFICES ASSUME NEW p \in pushes
               PROVE  LET q == [p EXCEPT !.age = @ + 1]
                      IN  SaysTruth(q.facts) \/ later <= SightDelay + q.age
    BY <1>1, <1>2 DEF PushesTrue, Tick, SaysTruth
  <2> DEFINE q == [p EXCEPT !.age = @ + 1]
  <2>1. q.facts = p.facts /\ q.age = p.age + 1 /\ p.age \in Int
    BY DEF PushTypeOK, Push
  <2>2. SaysTruth(p.facts) \/ calm <= SightDelay + p.age
    BY DEF Settling, PushesTrue
  <2> HIDE DEF q
  <2>3. calm <= SightDelay + p.age => later <= SightDelay + q.age
    BY <1>2, <1>4, <2>1, Constants
  <2>4. SaysTruth(q.facts) \/ later <= SightDelay + q.age
    BY <2>1, <2>2, <2>3
  <2> QED BY <2>4 DEF q
<1>10. ActionsTrue'
  <2> SUFFICES ASSUME NEW a \in actions
               PROVE  LET b == [a EXCEPT !.age = @ + 1]
                      IN  b.state.value = pbx[b.fact].value \/ later <= b.age
    BY <1>1, <1>2 DEF ActionsTrue, Tick
  <2> DEFINE b == [a EXCEPT !.age = @ + 1]
  <2>1. b.state = a.state /\ b.fact = a.fact /\ b.age = a.age + 1 /\ a.age \in Int
    BY DEF OverrideTypeOK, Action
  <2>2. a.state.value = pbx[a.fact].value \/ calm <= a.age
    BY DEF Settling, ActionsTrue
  <2> HIDE DEF b
  <2>3. b.state.value = pbx[b.fact].value \/ later <= b.age
    BY <1>2, <1>4, <2>1, <2>2
  <2> QED BY <2>3 DEF b
<1>11. OverridesTrue'
  <2> SUFFICES ASSUME NEW f \in Fact, overrides'[f] # None
               PROVE  \/ overrides'[f].state.value = pbx[f].value
                      \/ later <= OverrideSettles - overrides'[f].left
    BY <1>1, <1>2 DEF OverridesTrue
  <2>1. overrides'[f] = [overrides[f] EXCEPT !.left = @ - 1] /\ overrides[f] # None
    BY DEF Tick, Aged
  <2>2. overrides[f] \in [state : State, left : 0..OverrideLife]
    BY <2>1 DEF OverrideTypeOK
  <2>3. overrides'[f].state = overrides[f].state /\ overrides'[f].left = overrides[f].left - 1
        /\ overrides[f].left \in Int
    BY <2>1, <2>2
  <2>4. overrides[f].state.value = pbx[f].value \/ calm <= OverrideSettles - overrides[f].left
    BY <2>1 DEF Settling, OverridesTrue
  <2>5. OverrideSettles \in Int
    BY Constants DEF OverrideSettles
  <2> QED BY <1>2, <1>4, <2>3, <2>4, <2>5
<1> QED BY <1>6, <1>7, <1>8, <1>9, <1>10, <1>11 DEF Settling

LEMMA SettlingStep == IInv /\ IInv' /\ Settling /\ [Next]_vars => Settling'
<1> SUFFICES ASSUME IInv, IInv', Settling, [Next]_vars PROVE Settling'
  OBVIOUS
<1>1. ASSUME calm' = 0 PROVE Settling'
  BY <1>1, DisturbedNext
<1>2. CASE UNCHANGED vars
  BY <1>2 DEF vars, relayVars, wallboardVars, Settling, Heard, ViewTrue, PushesTrue, StoreTrue,
         ActionsTrue, OverridesTrue, SaysTruth, SyncArrivesBy, NextSync, Connected
<1>3. ASSUME NEW f \in Fact, NEW value \in BOOLEAN, ChangeElsewhere(f, value) PROVE Settling'
  BY <1>1, <1>3 DEF ChangeElsewhere, Change
<1>4. ASSUME NEW f \in Fact, NEW value \in BOOLEAN, QueueAction(f, value) PROVE Settling'
  <2>1. CASE Change(f, value)
    BY <1>1, <2>1 DEF Change
  <2>2. CASE UNCHANGED <<pbx, unseenFor, calm>>
    <3>1. \A a \in actions' : a \in actions \/ a.state.value = pbx[a.fact].value
      BY <1>4, <2>2 DEF QueueAction
    <3> QED BY <1>4, <2>2, <3>1, ActionSettles DEF QueueAction, relayVars
  <2> QED BY <1>4, <2>1, <2>2 DEF QueueAction
<1>5. ASSUME NEW f \in Fact, View(f) PROVE Settling'
  BY <1>5, ViewSettles
<1>6. ASSUME NEW other \in BOOLEAN, FastPoll(other) PROVE Settling'
  BY <1>6, PollSettles
<1>7. ASSUME NEW p \in pushes, Deliver(p) PROVE Settling'
  BY <1>7, DeliverSettles
<1>8. ASSUME NEW p \in pushes, Reject(p) PROVE Settling'
  BY <1>8, RejectSettles
<1>9. ASSUME NEW p \in pushes, Lose(p) PROVE Settling'
  BY <1>1, <1>9 DEF Lose
<1>10. ASSUME NEW a \in actions, SetOverride(a) PROVE Settling'
  BY <1>10, ActionSettles DEF SetOverride
<1>11. CASE Exit
  BY <1>1, <1>11 DEF Exit
<1>12. ASSUME NEW key \in Key, NEW values \in [Fact -> BOOLEAN], Restart(key, values)
       PROVE  Settling'
  BY <1>1, <1>12 DEF Restart
<1>13. ASSUME NEW key \in Key, RotateKey(key) PROVE Settling'
  BY <1>1, <1>13 DEF RotateKey
<1>14. CASE Tick
  BY <1>14, TickSettles
<1> QED BY Steps, <1>2, <1>3, <1>4, <1>5, <1>6, <1>7, <1>8, <1>9, <1>10, <1>11, <1>12, <1>13, <1>14

LEMMA Settles == Spec => []Settling
<1>1. Init => Settling
  BY InitInv, Disturbed DEF Init
<1>2. IInv /\ IInv' /\ Settling /\ [Next]_vars => Settling'
  BY SettlingStep
<1> QED BY <1>1, <1>2, Invariance, PTL DEF Spec

(* Pushes are sent with nothing waiting for them, and an unchanged state     *)
(* sends none but the full syncs: still, a relay that runs with the right    *)
(* key has been heard of within a full sync and the time of a push.          *)
THEOREM RelayIsHeard == Spec => []LiveRelayIsHeard
<1>1. IInv /\ Settling => LiveRelayIsHeard
  <2> SUFFICES ASSUME IInv, Settling, Connected, calm > SyncSpacing + MaxDelay
               PROVE  store # None /\ receivedAge <= SyncSpacing + MaxDelay
    BY DEF LiveRelayIsHeard
  <2> DEFINE longest == SyncSpacing + MaxDelay
  <2>1. ASSUME NEW age \in Int, SyncArrivesBy(age, longest) PROVE age <= longest
    <3>1. longest \in Int /\ NextSync \in Nat
      BY NextSyncRange, TypeParts, Constants DEF IInv, SyncSpacing
    <3>2. \A p \in pushes : MaxDelay - p.age \in Nat
      BY PushParts, TypeParts, Constants DEF IInv
    <3> QED BY <2>1, <3>1, <3>2, Constants DEF SyncArrivesBy
  <2>2. calm \in Int /\ receivedAge \in Int /\ longest \in Int
    BY TypeParts, Constants DEF IInv, RelayTypeOK, PushTypeOK, SyncSpacing
  <2> QED BY <2>1, <2>2 DEF Settling, Heard
<1> QED BY <1>1, Invariance, Settles, PTL

(* Payloads that overtake each other, optimistic overrides set late, pruned  *)
(* by an old payload or set in the wrong order, restarts and lost pushes:    *)
(* once nothing has changed for Calm, the wallboard shows what is so.        *)
THEOREM CalmIsTrue == Spec => []CalmShowsTruth
<1>1. IInv /\ Settling => CalmShowsTruth
  <2> SUFFICES ASSUME IInv, Settling, Connected, calm > Calm
               PROVE  store # None /\ \A f \in Fact : Shown(f) = pbx[f].value
    BY DEF CalmShowsTruth
  <2>1. calm \in Int /\ DataSettles \in Int /\ OverrideSettles \in Int
        /\ calm > DataSettles /\ calm > OverrideSettles
    BY TypeParts, Constants DEF IInv, RelayTypeOK, Calm, DataSettles, OverrideSettles, SyncSpacing
  <2>2. ~SyncArrivesBy(calm, DataSettles)
    <3>1. NextSync \in Nat
      BY NextSyncRange, TypeParts, Constants DEF IInv, SyncSpacing
    <3>2. \A p \in pushes : MaxDelay - p.age \in Nat
      BY PushParts, TypeParts, Constants DEF IInv
    <3> QED BY <2>1, <3>1, <3>2, Constants DEF SyncArrivesBy
  <2>3. store # None /\ SaysTruth(store.facts)
    BY <2>2 DEF Settling, StoreTrue
  <2>4. ASSUME NEW f \in Fact, overrides[f] # None PROVE overrides[f].state.value = pbx[f].value
    <3>1. overrides[f].left \in Nat
      BY <2>4, TypeParts DEF IInv, OverrideTypeOK
    <3> QED BY <2>1, <2>4, <3>1 DEF Settling, OverridesTrue
  <2> QED BY <2>3, <2>4 DEF Shown, SaysTruth
<1> QED BY <1>1, Invariance, Settles, PTL

=============================================================================
