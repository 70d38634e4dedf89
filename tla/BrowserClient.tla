--------------------------- MODULE BrowserClient ---------------------------
(***************************************************************************)
(* A page of the wallboard in a browser: the hook that keeps its event     *)
(* stream (wallboard/src/hooks/use-wallboard-sse.ts), the one that rates   *)
(* the figures (use-threshold-color.ts) and the one that sounds an alert   *)
(* when a figure turns red (use-sound-alert.ts).                           *)
(*                                                                         *)
(* The figures are those of one metric.  Its thresholds are the global     *)
(* ones: those of a queue are kept under the id of its row and looked up   *)
(* under its number at the phone system, and never found.                  *)
(***************************************************************************)
EXTENDS Integers

CONSTANTS
    ShownQueue,    \* the queues of the metric
    Debounce,      \* DEBOUNCE_MS, in ticks
    MaxBackoff,    \* MAX_BACKOFF_MS, as a power of BACKOFF_MULTIPLIER
    MaxAge         \* bound on the ticks counted since a figure turned red

ASSUME BrowserClientAssumption ==
    /\ Debounce \in Nat \ {0}
    /\ MaxBackoff \in Nat /\ MaxAge \in Nat

VARIABLES
    mounted,
    source,        \* eventSourceRef: "none", "connecting" or "open"
    retry,         \* reconnectTimerRef is set
    backoff,
    figures,       \* what the page was last sent, {} before that
    red,           \* the threshold: the least figure that is red
    alertsOn,      \* the queues whose alerts are switched on
    prevLevels,    \* the level the alerts last saw of each queue
    sinceAlert,    \* ticks since the last alert of the metric
    redAge         \* ticks since a queue was shown turning red with its alerts on,
                   \* -1 for others (history)

streamVars  == <<mounted, source, retry, backoff>>
alertVars   == <<figures, red, alertsOn, prevLevels, sinceAlert, redAge>>
browserVars == <<streamVars, alertVars>>

Figure == 0..2
Quiet  == Debounce + MaxAge   \* as good as for ever

BrowserTypeOK ==
    /\ mounted \in BOOLEAN /\ retry \in BOOLEAN
    /\ source \in {"none", "connecting", "open"}
    /\ backoff \in 0..MaxBackoff
    /\ figures \in [ShownQueue -> Figure] \cup {<<>>}
    /\ red \in Figure \ {0} /\ alertsOn \subseteq ShownQueue
    /\ prevLevels \in [ShownQueue -> {"unknown", "calm", "red"}]
    /\ sinceAlert \in 0..Quiet /\ redAge \in [ShownQueue -> -1..MaxAge]

-----------------------------------------------------------------------------
(* useWallboardSSE()                                                       *)

\* connect(): a new event source, unless one is open.
Connect == source' = IF source = "open" THEN source ELSE "connecting"

Mount ==
    /\ ~mounted
    /\ mounted' = TRUE /\ backoff' = 0
    /\ Connect
    /\ UNCHANGED <<retry, alertVars>>

\* The clean-up of the effect; what the hooks remember goes with the page.
Unmount ==
    /\ mounted
    /\ mounted' = FALSE /\ source' = "none" /\ retry' = FALSE
    /\ figures' = <<>>
    /\ prevLevels' = [q \in ShownQueue |-> "unknown"]
    /\ redAge' = [q \in ShownQueue |-> -1]
    /\ sinceAlert' = Quiet
    /\ UNCHANGED <<backoff, red, alertsOn>>

\* onopen
Opens ==
    /\ source = "connecting"
    /\ source' = "open" /\ backoff' = 0
    /\ UNCHANGED <<mounted, retry, alertVars>>

\* onerror with readyState CONNECTING: the browser tries again by itself.
Interrupted ==
    /\ source # "none"
    /\ source' = "connecting"
    /\ UNCHANGED <<mounted, retry, backoff, alertVars>>

ClosedWhileWaiting ==   \* fault: one reconnection is scheduled in the life of the page
    /\ source # "none"
    /\ source' = "none"
    /\ retry' = (backoff = 0)
    /\ backoff' = IF backoff < MaxBackoff THEN backoff + 1 ELSE backoff
    /\ UNCHANGED <<mounted, alertVars>>

\* onerror with readyState CLOSED (the answer was not a stream: the session is over,
\* the server is not itself): scheduleReconnect().
Closed ==
    /\ source # "none"
    /\ source' = "none"
    /\ retry' = TRUE
    /\ backoff' = IF backoff < MaxBackoff THEN backoff + 1 ELSE backoff
    /\ UNCHANGED <<mounted, alertVars>>

RetryElapses ==
    /\ retry
    /\ retry' = FALSE
    /\ Connect
    /\ UNCHANGED <<mounted, backoff, alertVars>>

-----------------------------------------------------------------------------
(* getThresholdLevel() and useSoundAlert()                                 *)

Level(fs, r, q) == IF fs[q] >= r THEN "red" ELSE "calm"

\* The effect, on new figures, thresholds or alert settings: the first queue that
\* turned red alerts, unless the metric did less than DEBOUNCE_MS ago.
Evaluate ==
    IF figures' = <<>> THEN UNCHANGED <<prevLevels, sinceAlert>>
    ELSE LET now(q) == Level(figures', red', q)
             turned == {q \in alertsOn' : now(q) = "red" /\ prevLevels[q] = "calm"}
         IN  /\ prevLevels' = [q \in ShownQueue |-> IF q \in alertsOn' THEN now(q) ELSE prevLevels[q]]
             /\ sinceAlert' = IF turned # {} /\ sinceAlert >= Debounce THEN 0 ELSE sinceAlert

\* The history of what the user was shown, with the alerts on.
Shown ==
    redAge' = [q \in ShownQueue |->
        IF figures' = <<>> \/ q \notin alertsOn \cap alertsOn' \/ Level(figures', red', q) # "red" THEN -1
        ELSE IF figures # <<>> /\ Level(figures, red, q) # "red" THEN 0
        ELSE redAge[q]]

\* onmessage, with the state of the wallboard.
StateReceived(fs) ==
    /\ source = "open"
    /\ figures' = fs
    /\ UNCHANGED <<red, alertsOn>>
    /\ Evaluate /\ Shown
    /\ UNCHANGED streamVars

\* The query of the thresholds has a new answer.
ThresholdsRead(r) ==
    /\ mounted
    /\ red' = r
    /\ UNCHANGED <<figures, alertsOn>>
    /\ Evaluate /\ Shown
    /\ UNCHANGED streamVars

SwitchUnseen(on) ==   \* fault: the effect does not depend on the settings
    /\ mounted
    /\ alertsOn' = on
    /\ UNCHANGED <<figures, red, prevLevels, sinceAlert>>
    /\ Shown
    /\ UNCHANGED streamVars

\* The user's alert settings.
AlertsSwitched(on) ==
    /\ mounted
    /\ alertsOn' = on
    /\ UNCHANGED <<figures, red>>
    /\ Evaluate /\ Shown
    /\ UNCHANGED streamVars

Tick ==
    /\ sinceAlert' = IF sinceAlert < Quiet THEN sinceAlert + 1 ELSE Quiet
    /\ \A q \in ShownQueue : redAge[q] < MaxAge
    /\ redAge' = [q \in ShownQueue |-> IF redAge[q] >= 0 THEN redAge[q] + 1 ELSE -1]
    /\ UNCHANGED <<streamVars, figures, red, alertsOn, prevLevels>>

BrowserInit ==
    /\ mounted = FALSE /\ source = "none" /\ retry = FALSE /\ backoff = 0
    /\ figures = <<>> /\ red = 2 /\ alertsOn \in SUBSET ShownQueue
    /\ prevLevels = [q \in ShownQueue |-> "unknown"]
    /\ sinceAlert = Quiet
    /\ redAge = [q \in ShownQueue |-> -1]

BrowserNext ==
    \/ Mount \/ Unmount \/ Opens \/ Interrupted \/ Closed \/ RetryElapses \/ Tick
    \/ \E fs \in [ShownQueue -> Figure] : StateReceived(fs)
    \/ \E r \in Figure \ {0} : ThresholdsRead(r)
    \/ \E on \in SUBSET ShownQueue : AlertsSwitched(on)

BrowserSpec == BrowserInit /\ [][BrowserNext]_browserVars

-----------------------------------------------------------------------------
(* What should hold.                                                       *)

\* A page that is shown has a stream, is getting one, or is about to; one that is not
\* shown leaves none behind, and no timer that would open one.
StreamIsRetried ==
    IF mounted THEN source # "none" \/ retry ELSE source = "none" /\ ~retry

\* A queue that was shown turning red with its alerts on has been alerted to: an alert
\* of the metric sounded since, or less than DEBOUNCE_MS before; whatever was switched
\* on and off, interrupted or changed in the thresholds meanwhile.
RedIsAlerted ==
    \A q \in ShownQueue : redAge[q] >= 0 => sinceAlert < redAge[q] + Debounce

=============================================================================
