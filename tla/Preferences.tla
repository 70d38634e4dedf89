---------------------------- MODULE Preferences ----------------------------
(***************************************************************************)
(* A user's preferences: the row in the database (server/routers/          *)
(* wallboard.ts), the copy the browser's query cache holds, and the        *)
(* handlers that work on that copy (components/wallboard/settings-         *)
(* popover.tsx, app/(dashboard)/layout.tsx and wallboard/page.tsx, all     *)
(* under wallboard/src).                                                   *)
(*                                                                         *)
(* A change is sent at once, computed from the cached copy, and the copy   *)
(* is fetched again when the change has been answered; only the theme is   *)
(* shown at once, and is not fetched again.  Requests under way overtake   *)
(* each other, and every one may fail.                                     *)
(***************************************************************************)
EXTENDS Naturals

CONSTANTS
    Column, Metric,
    FixedColumn,   \* columns that cannot be switched off: the queue's name
    NewColumn,     \* columns the defaults of the database do not list
    MaxChanges,    \* bound on the changes a user makes
    NotLoaded, NoFetch, Asked

VARIABLES
    stored,        \* the row in the database
    cached,        \* data of the query, NotLoaded at first
    theme,         \* the theme of the page
    requests,      \* updatePreferences requests under way
    fetch,         \* the running getPreferences: not yet Asked of the server, or its answer
    changes,
    wanted,        \* what the user has set (history)
    crossed,       \* settings of which less is promised, see PreferencesKept (history)
    disturbed      \* a request failed for good, or a change preceded the load (history)

prefVars == <<stored, cached, theme, requests, fetch, changes, wanted, crossed, disturbed>>

Field  == {"columns", "order", "alerts", "descending", "density", "theme"}
Themes == {"dark", "light", "system"}

\* What the page shows of the fields before they are loaded.
Defaults == [columns |-> Column, order |-> Column, alerts |-> {}, descending |-> FALSE,
             density |-> "comfortable", theme |-> "dark"]

\* Of the two lists of columns only the members count: the sequence is layout.
Preference == [columns : SUBSET Column, order : SUBSET Column, alerts : SUBSET Metric, descending : BOOLEAN,
               density : {"compact", "comfortable"}, theme : Themes]

ASSUME PreferencesAssumption ==
    /\ NoFetch # Asked
    /\ {NotLoaded, NoFetch, Asked} \cap Preference = {}
    /\ FixedColumn \subseteq Column \ NewColumn

\* An empty list counts as none.
Listed(columns) == IF columns = {} THEN Column ELSE columns

Displayed ==
    IF cached = NotLoaded THEN Defaults
    ELSE [cached EXCEPT !.columns = Listed(cached.columns), !.order = Listed(cached.order)]

-----------------------------------------------------------------------------
(* The user.                                                               *)

Crosses(field) ==
    \/ \E r \in requests : r.field = field
    \/ field # "theme" /\ cached # NotLoaded /\ cached[field] # stored[field]
    \/ field = "theme" /\ fetch \notin {NoFetch, Asked}

\* updatePrefsMutation.mutate() of one field.
Change(field, value, wish) ==
    /\ changes < MaxChanges
    /\ changes' = changes + 1
    /\ requests' = requests \cup {[id |-> changes', field |-> field, value |-> value, served |-> FALSE]}
    /\ wanted' = [wanted EXCEPT ![field] = wish]
    /\ disturbed' = (disturbed \/ cached = NotLoaded)
    /\ UNCHANGED <<stored, cached, fetch>>

Sent(field) == crossed' = IF Crosses(field) THEN crossed \cup {field} ELSE crossed

\* handleColumnToggle() of a column that is shown: the last one stays.
ColumnSwitchedOff(c) ==
    /\ c \in Displayed.columns \ FixedColumn
    /\ Displayed.columns # {c}
    /\ Change("columns", Displayed.columns \ {c}, Listed(wanted.columns) \ {c})
    /\ Sent("columns")
    /\ UNCHANGED theme

\* ... and of one that is not: the columns of the order that are shown, and this one if
\* the order lists it.
ColumnSwitchedOn(c) ==
    /\ c \notin Displayed.columns \cup FixedColumn
    /\ Change("columns", {k \in Displayed.order : k = c \/ k \in Displayed.columns},
              Listed(wanted.columns) \cup {c})
    /\ IF Displayed.columns \cup {c} \subseteq Displayed.order THEN Sent("columns")
       ELSE crossed' = crossed \cup {"columns"}
    /\ UNCHANGED theme

\* handleResetColumnOrder()
OrderReset ==
    /\ Change("order", Column, Column) /\ Sent("order")
    /\ UNCHANGED theme

\* handleColumnDragEnd(): the columns of the order in another sequence.
ColumnDragged ==
    /\ Change("order", Displayed.order, Listed(wanted.order)) /\ Sent("order")
    /\ UNCHANGED theme

Toggled(set, seen, e) == IF e \in seen THEN set \ {e} ELSE set \cup {e}

\* updateAlert(): the settings of all metrics are sent.
AlertToggled(m) ==
    /\ Change("alerts", Toggled(Displayed.alerts, Displayed.alerts, m), Toggled(wanted.alerts, Displayed.alerts, m))
    /\ Sent("alerts")
    /\ UNCHANGED theme

\* handleDensityChange() and its like: one value.
SettingChosen(value) ==
    /\ Change("density", value, value) /\ Sent("density")
    /\ UNCHANGED theme

\* handleSortChange() on the column that is sorted by, and handleToggleAnalytics().
DirectionSwitched ==
    /\ Change("descending", ~Displayed.descending, ~wanted.descending) /\ Sent("descending")
    /\ UNCHANGED theme

NextTheme == [dark |-> "light", light |-> "system", system |-> "dark"]

\* cycleTheme(): shown at once.
ThemeCycled ==
    /\ theme' = NextTheme[theme]
    /\ Change("theme", theme', theme') /\ Sent("theme")

-----------------------------------------------------------------------------
(* The server, and what comes back.                                        *)

\* updatePreferences: the row is there, and no other field is written.
Served(r) ==
    /\ ~r.served
    /\ stored' = [stored EXCEPT ![r.field] = r.value]
    /\ requests' = (requests \ {r}) \cup {[r EXCEPT !.served = TRUE]}
    /\ UNCHANGED <<cached, theme, fetch, changes, wanted, crossed, disturbed>>

RunningFetchKept == IF fetch # NoFetch THEN fetch ELSE Asked   \* fault: a running fetch is not cancelled

\* invalidate() and refetch() cancel a running fetch, except the first one.
FetchedAgain == IF cached = NotLoaded /\ fetch # NoFetch THEN fetch ELSE Asked

\* onSuccess; that of the theme does nothing.
ChangeAnswered(r) ==
    /\ r.served
    /\ requests' = requests \ {r}
    /\ fetch' = IF r.field = "theme" THEN fetch ELSE FetchedAgain
    /\ UNCHANGED <<stored, cached, theme, changes, wanted, crossed, disturbed>>

\* Before the server has it or after.
ChangeFails(r) ==
    /\ requests' = requests \ {r}
    /\ disturbed' = TRUE
    /\ UNCHANGED <<stored, cached, theme, fetch, changes, wanted, crossed>>

\* getPreferences
Reads ==
    /\ fetch = Asked
    /\ fetch' = stored
    /\ crossed' = crossed \cup {"theme" : r \in {u \in requests : u.field = "theme" /\ ~u.served}}
    /\ UNCHANGED <<stored, cached, theme, requests, changes, wanted, disturbed>>

\* The effect on the theme runs when the cached theme has changed.
Arrives ==
    /\ fetch \notin {NoFetch, Asked}
    /\ cached' = fetch /\ fetch' = NoFetch
    /\ theme' = IF cached = NotLoaded THEN fetch.theme
                ELSE IF cached.theme # fetch.theme THEN fetch.theme ELSE theme
    /\ UNCHANGED <<stored, requests, changes, wanted, crossed, disturbed>>

\* A fetch is tried again, and given up in the end.
FetchFails ==
    /\ fetch # NoFetch
    /\ \/ fetch' = Asked /\ UNCHANGED disturbed
       \/ fetch' = NoFetch /\ disturbed' = TRUE
    /\ UNCHANGED <<stored, cached, theme, requests, changes, wanted, crossed>>

\* A component that uses the query is shown when the data is old, or never came.
Refetched ==
    /\ fetch = NoFetch
    /\ fetch' = Asked
    /\ UNCHANGED <<stored, cached, theme, requests, changes, wanted, crossed, disturbed>>

\* The layout is left and shown again: its effect runs with the theme of the copy, which
\* a change of the theme did not have fetched again.
Remounted ==
    /\ cached # NotLoaded /\ cached.theme # theme
    /\ theme' = cached.theme
    /\ crossed' = crossed \cup {"theme"}
    /\ UNCHANGED <<stored, cached, requests, fetch, changes, wanted, disturbed>>

\* A row with the defaults of the database, or with the order reset since.
PrefInit ==
    /\ \E o \in {Column \ NewColumn, Column}, cs \in (SUBSET Column) \ {{}}, t \in Themes :
          /\ FixedColumn \subseteq cs /\ cs \subseteq o
          /\ stored = [Defaults EXCEPT !.columns = cs, !.order = o, !.theme = t]
    /\ cached = NotLoaded /\ fetch = Asked
    /\ theme = Defaults.theme
    /\ requests = {} /\ changes = 0
    /\ wanted = stored /\ crossed = {} /\ disturbed = FALSE

PrefNext ==
    \/ \E c \in Column : ColumnSwitchedOff(c) \/ ColumnSwitchedOn(c)
    \/ OrderReset \/ ColumnDragged
    \/ \E m \in Metric : AlertToggled(m)
    \/ \E value \in {"compact", "comfortable"} : SettingChosen(value)
    \/ DirectionSwitched \/ ThemeCycled
    \/ \E r \in requests : Served(r) \/ ChangeAnswered(r) \/ ChangeFails(r)
    \/ Reads \/ Arrives \/ FetchFails \/ Refetched \/ Remounted

PrefSpec == PrefInit /\ [][PrefNext]_prefVars

-----------------------------------------------------------------------------
(* What should hold.                                                       *)

\* When every request is back, and none failed, the page shows what is stored, however
\* the requests overtook each other; and what is stored, and the theme on the page, is
\* what the user has set, except for the settings in "crossed":
\*   - one that was changed before an earlier change of the same was back;
\*   - the columns, once one was switched on that the stored order does not list, as
\*     the order a new row has does not list "Agents Logged In": the request leaves it out;
\*   - the theme, changed while a copy of the row without the change was on its way to
\*     the page, or followed by a page shown anew with such a copy.
PreferencesKept ==
    requests = {} /\ fetch = NoFetch /\ cached # NotLoaded /\ ~disturbed =>
        /\ \A f \in Field \ {"theme"} : cached[f] = stored[f]
        /\ \A f \in Field \ crossed : stored[f] = wanted[f]
        /\ "theme" \notin crossed => theme = stored.theme

=============================================================================
