--------------------------- MODULE ThresholdsPage ---------------------------
(***************************************************************************)
(* Where an administrator sets thresholds (the tab "Thresholds" of         *)
(* wallboard/src/app/(dashboard)/admin/queues/page.tsx) with the           *)
(* procedures that keep them (server/routers/admin.ts): the global one of  *)
(* a metric and those that override it for a queue.                        *)
(*                                                                         *)
(* An edit starts from the values that are shown, is dropped when it is    *)
(* sent, and is not shown again until the thresholds have been fetched.    *)
(* There is one metric and one administrator; for two see WallboardServer. *)
(***************************************************************************)
EXTENDS Naturals

CONSTANTS
    Scope, Global,   \* the queues and "__global__"
    Limit,           \* values of a threshold
    Blank,           \* an empty field
    NoValues,
    MaxSteps         \* bound on what the administrator does

ASSUME ThresholdsPageAssumption ==
    /\ Global \in Scope
    /\ Blank \notin Limit
    /\ NoValues \notin [yellow : Limit \cup {Blank}, red : Limit \cup {Blank}]
    /\ MaxSteps \in Nat

VARIABLES
    rows,         \* the table: the values of every scope; ids tell the rows of one apart
    lastId,
    shownRows,    \* data of the query, <<>> before it has come
    pending,      \* edits that were not sent
    upsert,       \* the mutation of "Save", one at most
    reset,        \* the one of "Reset", one at most
    reading,      \* getThresholds: "none", "asked" or "answered", and its answer
    steps,
    meant,        \* the values as they were last typed or reset (history)
    early,        \* scopes changed before an earlier change was back (history)
    lost          \* a request failed for good (history)

atPage        == <<shownRows, pending, upsert, reset, reading, steps>>
thresholdVars == <<rows, lastId, atPage, meant, early, lost>>

NoRow   == [values |-> NoValues, id |-> 0]
Blanks  == [yellow |-> Blank, red |-> Blank]
NothingUnderWay == [stage |-> "none", scope |-> Global, values |-> NoValues, id |-> 0]
Reading(stage)  == [stage |-> stage, data |-> <<>>]

Idle(mutation) == mutation.stage = "none"

ThresholdsTypeOK ==
    /\ \A s \in Scope : rows[s].values = NoValues <=> rows[s].id = 0
    /\ lastId \in Nat
    /\ {upsert.stage, reset.stage} \subseteq {"none", "sent", "found", "written"}
    /\ reading.stage \in {"none", "asked", "answered"}
    /\ early \subseteq Scope /\ lost \in BOOLEAN

\* getValues(): the edit, or the override, or the global threshold.
ValuesShown(s) ==
    IF pending[s] # NoValues THEN pending[s]
    ELSE IF shownRows[s] # NoRow THEN shownRows[s].values
    ELSE IF shownRows[Global] # NoRow THEN shownRows[Global].values ELSE Blanks

Step == shownRows # <<>> /\ steps < MaxSteps /\ steps' = steps + 1

\* What is shown of a scope may not be what it was last set to.
MayBeBehind(s) == reading.stage # "none" \/ \E m \in {upsert, reset} : ~Idle(m) /\ m.scope = s

Touches(s) == early' = IF MayBeBehind(s) THEN early \cup {s} ELSE early

-----------------------------------------------------------------------------
(* The page.                                                               *)

\* handleEdit(): the other value is kept as it is shown.
EditLimit(s, field, value) ==
    /\ Step /\ Touches(s)
    /\ pending' = [pending EXCEPT ![s] = [ValuesShown(s) EXCEPT ![field] = value]]
    /\ LET before == IF meant[s] = NoValues THEN ValuesShown(s) ELSE meant[s] IN
       meant' = [meant EXCEPT ![s] = [before EXCEPT ![field] = value]]
    /\ UNCHANGED <<rows, lastId, shownRows, upsert, reset, reading, lost>>

\* handleSave(): the edit is sent, unless a value is missing, and dropped.
SaveEdit(s) ==
    /\ pending[s] # NoValues /\ Idle(upsert)
    /\ {pending[s].yellow, pending[s].red} \subseteq Limit
    /\ upsert' = [stage |-> "sent", scope |-> s, values |-> pending[s], id |-> 0]
    /\ pending' = [pending EXCEPT ![s] = NoValues]
    /\ UNCHANGED <<rows, lastId, shownRows, reset, reading, steps, meant, early, lost>>

\* handleResetToGlobal() deletes the override that is shown.
ResetToGlobal(s) ==
    /\ s # Global /\ Step /\ Touches(s)
    /\ shownRows[s] # NoRow /\ Idle(reset)
    /\ reset' = [stage |-> "sent", scope |-> s, values |-> NoValues, id |-> shownRows[s].id]
    /\ pending' = [pending EXCEPT ![s] = NoValues]
    /\ meant' = [meant EXCEPT ![s] = NoValues]
    /\ UNCHANGED <<rows, lastId, shownRows, upsert, reading, lost>>

-----------------------------------------------------------------------------
(* The server.                                                             *)

\* upsertThreshold looks for the row of the scope.
UpsertFinds ==
    /\ upsert.stage = "sent"
    /\ upsert' = [upsert EXCEPT !.stage = "found", !.id = rows[upsert.scope].id]
    /\ UNCHANGED <<rows, lastId, shownRows, pending, reset, reading, steps, meant, early, lost>>

\* It creates the row, or updates the one it found, if that is still there.
UpsertWrites ==
    /\ upsert.stage = "found"
    /\ upsert.id \in {0, rows[upsert.scope].id}
    /\ lastId' = IF upsert.id = 0 THEN lastId + 1 ELSE lastId
    /\ rows' = [rows EXCEPT ![upsert.scope] =
                   [values |-> upsert.values, id |-> IF upsert.id = 0 THEN lastId' ELSE upsert.id]]
    /\ upsert' = [upsert EXCEPT !.stage = "written"]
    /\ UNCHANGED <<shownRows, pending, reset, reading, steps, meant, early, lost>>

\* deleteThreshold looks for the row with the id, which may be gone.
ResetFinds ==
    /\ reset.stage = "sent"
    /\ rows[reset.scope].id = reset.id
    /\ reset' = [reset EXCEPT !.stage = "found"]
    /\ UNCHANGED <<rows, lastId, shownRows, pending, upsert, reading, steps, meant, early, lost>>

ResetWrites ==
    /\ reset.stage = "found"
    /\ rows' = [rows EXCEPT ![reset.scope] = NoRow]
    /\ reset' = [reset EXCEPT !.stage = "written"]
    /\ UNCHANGED <<lastId, shownRows, pending, upsert, reading, steps, meant, early, lost>>

RunningReadKept == IF reading.stage = "none" THEN Reading("asked") ELSE reading   \* fault: not cancelled

\* invalidate(): a running fetch is cancelled, and the thresholds are fetched again.
ReadAgain == Reading("asked")

\* onSuccess of the mutations.
UpsertSucceeds ==
    /\ upsert.stage = "written"
    /\ upsert' = NothingUnderWay
    /\ reading' = ReadAgain
    /\ UNCHANGED <<rows, lastId, shownRows, pending, reset, steps, meant, early, lost>>

ResetSucceeds ==
    /\ reset.stage = "written"
    /\ reset' = NothingUnderWay
    /\ reading' = ReadAgain
    /\ UNCHANGED <<rows, lastId, shownRows, pending, upsert, steps, meant, early, lost>>

\* A request fails, or finds its row gone: nothing tells the administrator.
MutationFails ==
    /\ \/ ~Idle(upsert) /\ upsert' = NothingUnderWay /\ UNCHANGED reset
       \/ ~Idle(reset)  /\ reset' = NothingUnderWay  /\ UNCHANGED upsert
    /\ lost' = TRUE
    /\ UNCHANGED <<rows, lastId, shownRows, pending, reading, steps, meant, early>>

\* getThresholds
ReadingAnswered ==
    /\ reading.stage = "asked"
    /\ reading' = [stage |-> "answered", data |-> rows]
    /\ UNCHANGED <<rows, lastId, shownRows, pending, upsert, reset, steps, meant, early, lost>>

ReadingArrives ==
    /\ reading.stage = "answered"
    /\ shownRows' = reading.data
    /\ reading' = Reading("none")
    /\ UNCHANGED <<rows, lastId, pending, upsert, reset, steps, meant, early, lost>>

ReadingFails ==
    /\ reading.stage # "none"
    /\ reading' = Reading("none")
    /\ lost' = TRUE
    /\ UNCHANGED <<rows, lastId, shownRows, pending, upsert, reset, steps, meant, early>>

\* The network is back.
ReadOnReconnect ==
    /\ reading.stage = "none"
    /\ reading' = Reading("asked")
    /\ UNCHANGED <<rows, lastId, shownRows, pending, upsert, reset, steps, meant, early, lost>>

ThresholdsInit ==
    /\ \E some \in SUBSET Scope, l \in Limit :
          rows = [s \in Scope |-> IF s \in some THEN [values |-> [yellow |-> l, red |-> l], id |-> 1] ELSE NoRow]
    /\ lastId = 1 /\ shownRows = <<>>
    /\ pending = [s \in Scope |-> NoValues]
    /\ upsert = NothingUnderWay /\ reset = NothingUnderWay /\ reading = Reading("asked")
    /\ steps = 0 /\ meant = [s \in Scope |-> rows[s].values]
    /\ early = {} /\ lost = FALSE

ThresholdsNext ==
    \/ \E s \in Scope :
          \/ \E field \in {"yellow", "red"}, value \in Limit \cup {Blank} : EditLimit(s, field, value)
          \/ SaveEdit(s) \/ ResetToGlobal(s)
    \/ UpsertFinds \/ UpsertWrites \/ UpsertSucceeds
    \/ ResetFinds \/ ResetWrites \/ ResetSucceeds \/ MutationFails
    \/ ReadingAnswered \/ ReadingArrives \/ ReadingFails \/ ReadOnReconnect

ThresholdsSpec == ThresholdsInit /\ [][ThresholdsNext]_thresholdVars

-----------------------------------------------------------------------------
(* What should hold.                                                       *)

\* When the page is at rest and no request has failed, it shows the thresholds there
\* are, and those without an edit to be saved are as they were last typed, or reset,
\* however saves and resets overlapped; except in a scope that was changed before an
\* earlier change was back: the edit then starts from the values before that change,
\* and undoes it.
ThresholdsAreSaved ==
    Idle(upsert) /\ Idle(reset) /\ reading.stage = "none" /\ ~lost =>
        /\ shownRows = rows
        /\ \A s \in Scope \ early : pending[s] = NoValues => rows[s].values = meant[s]

=============================================================================
