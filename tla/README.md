# A verification development for the 3CX Tools Suite

TLA+ modules that model the concurrent core of the suite, TLC configurations
that check them on small instances, and TLAPS proofs that hold for every value
of the constants.  All paths are relative to the root of the repository
(`src/` in `PROJECT.json`).

## 1. The system

Four programs stand around a 3CX phone system ("the PBX").

| Program | Part | State it keeps | Operations |
|---|---|---|---|
| auto-pager (Node, Express, SQLite) | `queue-monitor.ts` | a timer per queue, an interval | start, stop, poll, relay push |
| | `relay-receiver.ts` | last payload, time of receipt | push, freshness |
| | `index.ts`, `api.ts`, `db.ts` | the running services; settings, queues, audio files | start, stop, restart; HTTP endpoints |
| | `pager.ts`, `asterisk-config.ts` | AMI connection, the file of the current page | connect, execute a page, write configuration |
| | `threecx-client.ts` | token cache | requests, retry after 401 |
| relay agent `3cxtools-relay` (Node, beside the PBX) | `index.ts` | cached users, queues, agents | fast poll, slow refresh, start, shutdown |
| | `state-manager.ts` | last fingerprint, last full sync | update |
| | `pusher.ts` | `authFailed`, error count | push |
| | `monitor.ts`, `collector.ts` | WebSocket, sign-in status; token cache | connect, messages; requests |
| wallboard (Next.js, Prisma) | `threecx-queue-monitor.ts` | WebSocket, timers, statistics of the day | start, stop, force a reconnect, messages |
| | `threecx-poller.ts`, SSE route | clients, interval, grace and debounce timers, the monitor, the last state | connect, disconnect, poll, force a poll |
| | `relay-store.ts`, push route | last payload, receipt, overrides | push, freshness, set, read and prune overrides |
| | `queue-actions.ts`, `threecx-client.ts` | token caches | sign in and out, add and remove agents |
| | `auth.ts`, `admin.ts`, `wallboard.ts` routers | users, sessions, settings, thresholds in the database | set-up, login, administration, statistics |
| | hooks and pages | the event stream, alert levels, the cached preferences | connect, alert, change a preference |
| rcc-agent (Node) | `index.ts`, `ssh-deployer.ts` | `busy` | poll for a task, run it, report |
| | `ssh-terminal.ts` | broker socket, SSH sessions | open, data, close |

How they interact:

* The relay agent watches the PBX and **pushes** payloads over HTTP to the
  wallboard and to the auto-pager; each push is a request nothing waits for.
* The wallboard's poller serves its clients from a fresh payload (relay mode)
  or from its own requests and its own WebSocket monitor (polling mode).  In
  relay mode it stops that monitor, because two sessions on one extension
  conflict.
* A queue action on the wallboard changes the PBX directly and covers the time
  until the relay has seen the change with an optimistic **override**.
* The auto-pager judges each monitored queue from the relay's payload when it
  is fresh and from its own requests otherwise, and emits page events that
  `pager.ts` turns into calls through Asterisk.

What is hard in this code is not computation but order: requests that overlap,
answers that come late or in another order, timers nobody cancels, `stop()`
between two awaits, a value read before an await and used after it, pushes lost
or reordered, a process that restarts, a switch of the data source.  The list
`hazards` in `PROJECT.json` names each place, and the properties that cover it.

What makes each component correct:

* queue monitor: a page means a queue waited long enough; pages are spaced; a
  queue that waits is paged; a stopped monitor falls silent.
* monitor connection: it always comes back, it notices silence, it does not
  multiply sockets.
* poller: who watches is served, who does not costs nothing; one monitor; in
  polling mode there is one.
* relay pipeline: what looks fresh is recent, a live relay looks alive, the
  wallboard settles on what is so.
* figures: a wait that was seen is shown until midnight and in its window, and
  no figure grows out of nothing; a monitor at rest shows the agents there are;
  waiting calls and busy agents are found by all three copies of the rules.
* relay's monitor: it always comes back.
* auto-pager services: restarts that do not overlap leave one monitor and one
  pager, and Asterisk has the newest configuration.
* page execution: a page that plays alone is heard whole, and is logged once.
* rcc-agent: it is busy while it works, it reports success only for what it
  has verified, no SSH connection is lost sight of.
* wallboard server: every queue keeps a place of its own and the thresholds are
  there once, unless procedures that exclude each other overlap; a command that
  is repeated after a refusal is executed once; membership changes are not lost
  unless two were made at once.
* browser: the stream is retried, a figure that turned red is sounded, and the
  preferences settle on what the user set.
* administration pages: what an administrator sets is what is stored when the
  page is at rest, and what is shown is what is stored.

## 2. Modules

| Module | Models | Kind |
|---|---|---|
| `PagingTimer` | what the auto-pager promises of a queue: a timer, pages, reset | abstract specification |
| `QueueMonitor` | `auto-pager/src/queue-monitor.ts` with `relay-receiver.ts` and the endpoints it depends on; refines `PagingTimer` | detailed |
| `QueueMonitorHistory` | `QueueMonitor` with a record of what its answers showed | history variables |
| `WaitingQueue` | `QueueMonitor` composed with the calls that really wait | composition |
| `MonitorConnection` | the life of the WebSocket in `threecx-queue-monitor.ts` | detailed |
| `WallboardPoller` | `threecx-poller.ts` as an engine, the SSE route, the monitor it owns | detailed |
| `RelayPipeline` | relay agent, requests under way, push route, store and overrides | composition |
| `RelayMonitor` | the relay's own `monitor.ts` | detailed |
| `WaitFigures` | the longest wait of a queue today: `threecx-poller.ts` with the report and the table it restores it from | detailed |
| `WaitWindow` | the longest wait of a recent window, and its snapshots | detailed |
| `MonitorData` | agents and counts: `handleProtobufMessage` and what the poller shows of them | detailed |
| `CallView` | the rules that find waiting calls and busy agents, in three programs | pure operators over a small life of calls |
| `PagerServices` | `auto-pager/src/index.ts` and the endpoints of `api.ts` that restart it | detailed |
| `PageExecution` | `pager.ts`, and the audio files of `api.ts` and `db.ts` | detailed |
| `TaskLoop` | `rcc-agent/src/index.ts`, `ssh-deployer.ts` | detailed |
| `Terminal` | `rcc-agent/src/ssh-terminal.ts` | detailed |
| `WallboardServer` | set-up, login, sessions, queues, thresholds, roles | detailed |
| `PhoneClient` | the two `threecx-client.ts`: token, session, one repetition | detailed |
| `QueueMembership` | queue actions and the change of a queue's agents | detailed |
| `BrowserClient` | the hooks: event stream, levels, alerts | detailed |
| `Preferences` | a user's preferences in table, cache and page | detailed |
| `SettingsPage` | the page of the settings, `updateSettings`, `generateRelayKey` | detailed |
| `ThresholdsPage` | the tab of the thresholds, `upsertThreshold`, `deleteThreshold` | detailed |
| `QueueMonitorProofs`, `MonitorConnectionProofs`, `WallboardPollerProofs`, `RelayPipelineProofs` | theorems about the module they are named after | TLAPS |
| `QueueMonitorHistoryProofs` | theorems about `QueueMonitorHistory` and `WaitingQueue` | TLAPS |
| `WallboardFiguresProofs` | theorems about `RelayMonitor`, `WaitFigures`, `WaitWindow`, `MonitorData`, `CallView` | TLAPS |
| `WallboardServerProofs` | theorems about `WallboardServer`, `QueueMembership`, `BrowserClient`, `PhoneClient`, `ThresholdsPage`, `Preferences`, `SettingsPage` | TLAPS |
| `FieldServicesProofs` | theorems about `PagerServices`, `PageExecution`, `TaskLoop`, `Terminal` | TLAPS |
| `MC*` | instances for TLC | model checking |

An operator marked `fault` is a plausible bug of the definition below it, used
to show that a property can fail; no specification uses it.

### QueueMonitor

`now` is the clock.  `polls` holds the requests for active calls that are in
flight: `BeginPoll` is `poll()` up to its await, `AnswerPoll` the PBX's answer,
`FinishPoll` the rest, with the clock and the queues read *before* the await, as
in the code.  The interval (`IntervalPoll`) does not wait for the previous poll.
`queueState[q]` is the entry of the map of that name; `since = 0` says there is
none, and `pages` counts the pages of this timer (history).  In relay mode a
poll has no await and is one step; so is `RelayPush`, which stores the payload
and calls the handler `start()` registered.  `_relayPollInProgress` cannot be
seen by anyone for that reason and is left out.  `Stop` clears the entries but
not the polls in flight.  `SetMonitored` stands for all changes of the table of
monitored queues.

Abstracted: thresholds and repeat intervals are constants of a queue; which
call waits in which queue (`findQueueForCall`, `isCallConnected`) is the count
of the answer; a restart of the services is a new object and thus a new
behaviour.

### MonitorConnection

`attempt` is the stage `connect()` awaits (login, session, upgrade) with the
time its request has left; `socket` is the field (`connected` is `socket` not
null), `peer` what became of each socket, because a socket the field no longer
names still has its handlers.  `reconnectTimer` and `staleTimer` are the fields,
`pendingConnects` the inner timeouts that call `connect()` (3 s after
`forceReconnect`, 3 s after `scheduleReconnect`), which no field keeps, and
`noDataChecks` the checks 8 s after an upgrade.  A timer fires when 0 is left
and time waits for it.

Abstracted: the content of messages and the statistics; each request ends
within `RequestTimeout`.

### WallboardPoller

`clients` is the hub; `running`, `interval`, `grace`, `debounce` and `poll` the
engine's; `poll` is the stage of the one poll that may run ("config": settings
awaited, "queues": visible queues awaited, "fetch": the rest).  `queueMonitor` is
the field, `credentials` the hash of its configuration, `monitors` those that
really run.  Only the grace period is timed; the other timers may fire at any
time, which covers every period.  `stoppedOnce` and `served` are history.

### RelayPipeline

A *fact* is what an override can be about: a sign-in status or a membership.
`pbx` is the truth with a version per fact, `view` what the relay's monitor and
caches show, `pushes` the requests under way, each with the facts and the age
of its payload, `store` what the wallboard has (freshness counts from
`receivedAge`, not from the payload), `actions` the queue actions that have
changed the PBX and not yet set their override.  `other` in `FastPoll` says
that something else has changed (call states, waits), which makes a push due.
There is one receiver; the auto-pager has the same contract without overrides.

Abstracted: facts have a Boolean value; the relay follows the PBX within
`SightDelay`; a running relay polls successfully at least every `PollGap`;
`MaxDelay` is the timeout of a push and the wait of the handler for the
database together.

### RelayMonitor

The fields of the class, the stage of `connect()` and counts of the two kinds of
timers that no field keeps.  Time is left out: a timer that is set may fire at
any time, which covers every order of their periods.

### WaitFigures and WaitWindow

`Poll` is what a poll does with the waits of one queue: it estimates the waits
of calls that have gone since the poll before, takes the longest, restores the
day's maximum from the table `summary` and writes it back.  The calls come
and go on their own; a restart empties the caches and keeps the table; the
report the phone system gives of the day may be missing.  `WaitWindow` has the
other figure, with the observations and the snapshots that fill them after a
restart and after midnight.  A poll in relay mode that does not find the queue
in the relay's data (`PollWithoutQueue`) returns before the observations are
pruned and still shows their peak, so that peak may be older than the window.  A wait has whole units, the midpoint is rounded as
the code rounds it.

### MonitorData

Messages of the WebSocket come in order, the answer to a login may come twice
and late (`response`).  `list` is what the monitor holds of the queue, `told`
whether this connection has been answered.  Shown figures are operators over
`list`, because the poller falls back on its own requests where the monitor has
nothing.  The phone system counts the calls of a day and starts again at its own
hour (`CountStartsAgain`, counted by `era`); the monitor keeps the highest count
it has been told (`MergeStats`) and forgets it with the first message after
midnight UTC (`callStatsDate`), whichever queue that message is about.  The two
do not meet: when the phone system starts again later than midnight UTC, the
highest count of the day before is told once more and shown until the next one.

### CallView

One operator per rule (`DetectsQueued`, `QueuesForCall`, `IsCallConnected`,
`BusyParty`, `PollingState`, `StatesOfCall`), evaluated over calls that come,
wait, hear music, ring all agents or one, return and are answered.  A call has a
set of segments, each with its caller, callee, dialed number and whether it
talks, and each rule reads of them what its program reads: the auto-pager does
not look at a segment's caller, and takes a call for connected when any segment
talks.  A number is a model value; `Resembles` says which queues' numbers it
contains, which is what the code's `includes` and `endsWith` tell.  The agents
are registered ones.  How the phone system describes a call (`ToQueue`,
`AgentLegs`) is known only from the comments of the three programs, so the model
lets it choose among all the forms they name.

### PagerServices, PageExecution

A job of `PagerServices` is one asynchronous run of the code: the first start or
a `PUT` of the settings.  What runs between two awaits is one action, and
the monitors and pagers a job makes carry its name.  `wanted` is the version of
the settings the last job that decided to write the configuration had read.  A
write or a reload of Asterisk that fails is logged and not repeated, so the file
or Asterisk stays behind until the next change (`unwritten`, `unloaded`).  In
`PageExecution` the
file of the current page is one variable, written and played by whatever page
gets there; sox writes a file that may be unlinked under it (`attached`).

### TaskLoop, Terminal

`runs` is the step every task has reached; a step may fail at any point.  The
command center hands out each task once (it is not in this repository).  In
`Terminal` an entry of the map names one connection of a session, and the events
of any connection of that session act on the entry, as in the code.

### WallboardServer, PhoneClient, QueueMembership

A procedure that awaits between its reads and its writes is the job of its
browser and is cut there; a crash ends all jobs and keeps the tables.
`PhoneClient` counts how often the phone system has given up the tokens and the
sessions it granted (eras), and a request is refused when its token is older.
Both clients take status 200 for success whatever the body says, except that a
login is required, so a command reported as done need not have been executed
(`CommandIgnored`).
`QueueMembership` reads and writes the whole list of a queue in two steps;
`expected` is the list had each change been made at once, and `raced` says that
a list changed under an action that was about to write it.

### BrowserClient, Preferences

The reconnection of the stream with its growing delay; the levels of one
metric and the alerts with their debounce, which is one for all queues of it.
`Preferences` follows a change from the page through its request to the row and
back through the query's cache; `crossed` and `disturbed` name the cases in
which the code does lose a change.  Two of them need one user and no failure.  A
column that is switched on is sent as the members of the stored order that are
shown, so one the order does not list ("Agents Logged In", with the defaults of
the database) is not stored until the order has been reset
(`ColumnSwitchedOn`).  And the layout's effect, run again when the layout is shown
anew (`Remounted`), takes the theme from the query's copy, which a change of the
theme does not have fetched again.

### SettingsPage, ThresholdsPage

The forms of two pages, each with the query that fills it, the mutations that
save it and the procedures these call.  The settings page refills the whole form
whenever the settings come (they hold dates, so they never count as unchanged)
and a save clears both dirty flags; a card sends the fields that differ from the
settings as they were fetched.  The thresholds page keeps an edit beside the
values it shows and drops it when it sends it; the procedures look for a row
before they write it, in two steps.  `wishes` and `meant` are what was last typed
or reset.  A password and a key are told apart, not spelled.

## 3. Runs

| Run | Shows |
|---|---|
| `paging` | spacing of pages, refinement of `PagingTimer` |
| `page_evidence` | a page means a full wait was seen, with the two provisos the code needs; a stopped monitor pages at most as often as it had polls in flight, less one |
| `waiting_queue` | a queue that keeps waiting is paged in bounded time |
| `monitor_connection` | the connection always comes back, silence is noticed, sockets do not multiply |
| `wallboard_poller` | watched engines serve, unwatched ones stop, one monitor |
| `monitor_after_grace` | *violated*: after a grace period polling mode runs without its monitor |
| `relay_pipeline` | fresh data are recent, a live relay is heard, the wallboard settles |
| `field_services` | restarts, pages, tasks and terminals: what runs is known, and what is reported was done |
| `installed_service_runs` | *violated*: the check for "active" accepts "inactive" |
| `wallboard_server` | tables, commands, membership, the stream, the alerts and the preferences of the wallboard's users, the settings and thresholds of its administrators |
| `wallboard_figures` | waits over polls, midnight and restarts; agents over reconnections; the relay's monitor; calls and agents under the three copies of the rules |
| `relay_detection` | *violated*: the relay counts a call on its way to an agent in every queue |

The violated runs are disagreements between the code and a comment in it; each
is a finding in `PROJECT.json` with both lines.

`MCFieldServices`, `MCWallboardServer` and `MCWallboardFigures` check several
modules in one run.  Their modules share no variable, and a behaviour belongs to
one of them (`part`), the others at rest: the run checks each by itself and
the sizes add up rather than multiply.

Provisos.  Some properties name a case in which the code does not keep them, and
hold outside it; each case is reachable in its model and is marked by a history
variable, which no guard reads.

| Property | Excepted |
|---|---|
| `PageAfterFullWait` | a queue that a poll missed, polls that overtook each other |
| `RestartsLeaveNothing` | restarts that overlap |
| `ConfIsNewest` | two jobs about to write the configuration; a write that failed, a reload that failed or was never asked for (`ConfIsWritten`, `ConfIsLoaded`) |
| `LonePageIsHeardWhole` | pages that share the file, a conversion cut off by an upload or a deletion, a crash |
| `BusyWhileProcessing`, `ReportedAsVerified` | tasks that overlapped, because two polls were answered with one each |
| `LiveConnectionsAreKnown` | a session opened again before an earlier connection of it was over |
| `TablesKeepOrder` | two set-ups or synchronisations at once, an order saved by a page that does not show every queue |
| `MembershipKept` | two changes of one queue's list at once |
| `CallsAreExecutedOnce` | a MyPhone command reported as done, which need not have been executed |
| `PreferencesKept` | two changes of one setting under way, changes before the preferences are loaded, requests that failed; a column switched on that the stored order does not list; a theme taken from a copy without the change |
| `SettingsAreSaved` | typing during a save or a fetch, or before the other card is saved; a field two administrators set at once |
| `ThresholdsAreSaved` | a threshold changed again before an earlier change was back; requests that failed |
| `QuietMonitorIsTrue` | a login's response and a push that overtook each other, a queue that lost its last agent; for the counts, a phone system that has started counting again since the monitor's began |
| `WindowPeakKept` | snapshots that could not be read; the window is that of the last poll that found the queue or began the day |
| `ShownNotMuchMore` | a call that left during a pause between polls |
| `WaitingCallsAreSeen` | for all three, none of the calls that wait but two for the auto-pager: segments that name the queue as their caller only or not at all, and a segment that talks to the queue before the call does; of the calls that do not wait: a caller whose number looks like a queue's, a call an agent has just answered, one being routed to an agent |
| `BusyAgentsAreShown` | in polling mode: the callee of an agent of the same queue; an agent who calls, until the call itself says that it talks |
| `RelayMonitorComesBack` | an upgrade answered by an ordinary response |

### Bounds, and why they are enough

* Time in `QueueMonitor` is bounded by `MaxTime`; 4 units with interval,
  threshold and repeat of 1 and answers up to 1 late give two overlapping
  polls, a first page, a repeat and a reset.  Because the model stops at
  `MaxTime`, deadlock is not checked in these runs.  `waiting_queue` uses the
  longer times (14) its bound needs.  With a threshold of 0 that bound is tight,
  one unit less is violated; a longer threshold is reached one unit earlier.  `MCQueueMonitorHistory` has one queue that never has calls, so
  that polls go on while the other is not monitored.
* `MonitorConnection` keeps the order of the code's delays
  (2 s, 3 s < 8 s < 15 s < 30 s < 120 s) with small numbers; two sockets and one
  close frame give one lost socket beside the current one.
* `WallboardPoller` needs two clients (one leaves as another stays), two
  credentials and intervals (a change), two monitors (a replacement).
* `RelayPipeline`: one fact, two changes, two actions at once, two keys (with
  symmetry: keys are only compared), one restart.  `StaleAfter` exceeds
  `SyncInterval + PollGap + MaxDelay`, as 15 s exceed 5 s and the rest.  The
  bounds in `LiveRelayIsHeard`, `TrustedDataIsRecent` and `CalmShowsTruth` are
  tight in this instance.
* `field_services`: three jobs (a restart overtaken by one that is overtaken),
  two versions of the settings beside the first; two pages and one audio file
  beside the beep (an upload, a deletion and a page of the same file); two tasks
  of any kinds with one file; two sessions and three SSH connections (a session
  opened again beside another).
* `wallboard_server`: two browsers with one extension, so that two procedures of
  one user overlap; three queues, so that an order can have a gap; one request
  and one command with two eras (refused, repeated, refused again); two agents
  and two actions; two queues of a metric, so that one alert hides another; two
  columns beside the queue's name, one of them missing from the order a new row has,
  one metric and two changes; two settings, one on each card, with two
  values and two edits (one saved as the other is typed); the global threshold
  and one queue's with two values and two steps (an edit and a reset, or two
  edits).  Deadlock is not checked: eras, changes
  and actions are used up.
* `wallboard_figures`: two calls, days of 4 units, polls at most 4 apart, data
  at most 1 late, a clock to 5 (past one midnight); for the window waits of 0 to
  2, a window and days of 2 and a clock to 3; one agent, one answered call, one
  new start of the count, two messages under way; two calls with two queues, two
  agents and two outside numbers, of which one resembles a queue's (calls and
  agents are symmetric).  A second agent of the queue adds nothing: the monitor
  takes and drops a list of agents as a whole.  Deadlock is not checked: the
  clocks stop.

### Fairness

Safety runs assume none.  `MonitorConnection!FairSpec` is weakly fair to what
ends a request of an attempt (each has a timeout in the code, or fails), to
timers and to time.  `WallboardPoller!FairSpec` is weakly fair to the grace
timer, the interval, time and the stages of a poll (what it awaits has a timeout
or throws); clients, pushes, forced polls and changes of the settings are free.
The event loop runs what is due, so these hold of the code.

## 4. Proofs

Every safety invariant and the safety action property the runs check are
theorems, for every value of the constants, and so are the refinement and the
type invariant of each module that states one.

| Theorem | Property, or what it states |
|---|---|
| `QueueMonitorProofs!PagesArePaced` | `PagesPaced` |
| `QueueMonitorProofs!KeepsPromise` | `PagingPromise`: every behaviour of `QueueMonitor` is one of `PagingTimer` |
| `QueueMonitorProofs!OnePage`, `TypeCorrect` | one page without repeats; the types |
| `QueueMonitorHistoryProofs!PageShowsFullWait` | `PageAfterFullWait` (an action property) |
| `QueueMonitorHistoryProofs!StoppedMonitorIsBounded` | `StoppedMonitorBound` |
| `QueueMonitorHistoryProofs!WaitingIsPaged` | `WaitingQueueIsPaged` |
| `MonitorConnectionProofs!NeverLeftAbandoned`, `SilenceIsNoticed`, `LostSocketsAreCounted` | `NeverAbandoned`, `SilenceNoticed`, `LostSocketsFromCloseFrames` |
| `MonitorConnectionProofs!TypeCorrect`, `IsConsistent` | the types; how the fields, sockets and phases agree |
| `WallboardPollerProofs!WatchedIsServed`, `StopIsQuiet`, `OnlyOneMonitor`, `FirstRunIsMonitored` | `ServedWhileWatched`, `StoppedIsQuiet`, `OneMonitor`, `FirstRunHasMonitor` |
| `WallboardPollerProofs!UnwatchedHasAnEnd`, `TypeCorrect` | an unwatched engine has a grace timer; the types |
| `RelayPipelineProofs!TrustedIsRecent`, `RelayIsHeard`, `CalmIsTrue` | `TrustedDataIsRecent`, `LiveRelayIsHeard`, `CalmShowsTruth` |
| `RelayPipelineProofs!TypeCorrect` | the types |
| `WallboardFiguresProofs!MonitorComesBack` | `RelayMonitorComesBack` |
| `WallboardFiguresProofs!MaxIsNoLess`, `MaxIsNotMuchMore` | `ShownAtLeastSeen`, `ShownNotMuchMore` |
| `WallboardFiguresProofs!WindowShowsPeak` | `WindowPeakKept` |
| `WallboardFiguresProofs!MonitorShowsTruth` | `QuietMonitorIsTrue` |
| `WallboardFiguresProofs!WaitingCallsCounted`, `AgentsShownBusy` | `WaitingCallsAreSeen`, `BusyAgentsAreShown` |
| `WallboardServerProofs!TablesAreInOrder` | `TablesKeepOrder` |
| `WallboardServerProofs!NoChangeIsLost` | `MembershipKept` |
| `WallboardServerProofs!StreamComesBack`, `RedIsHeard` | `StreamIsRetried`, `RedIsAlerted` |
| `WallboardServerProofs!ClientCallsOnce` | `CallsAreExecutedOnce` |
| `WallboardServerProofs!ThresholdsKept`, `PreferencesAreKept`, `SettingsAreKept` | `ThresholdsAreSaved`, `PreferencesKept`, `SettingsAreSaved` |
| `FieldServicesProofs!RestartLeavesNothing`, `AsteriskHasNewest` | `RestartsLeaveNothing`, `ConfIsNewest` |
| `FieldServicesProofs!PageHasOneEntry`, `LonePagePlaysItsSound` | `PageIsLoggedOnce`, `LonePageIsHeardWhole` |
| `FieldServicesProofs!BusyIsTrue`, `ReportsAreTrue` | `BusyWhileProcessing`, `ReportedAsVerified` |
| `FieldServicesProofs!TerminalKeepsItsConnections` | `LiveConnectionsAreKnown` |
| `WallboardFiguresProofs!MonitorTypeCorrect`, `WaitTypeCorrect`, `DataTypeCorrect`, `CallsTypeCorrect` | the types |
| `WallboardServerProofs!ServerTypeCorrect`, `MembershipTypeCorrect`, `BrowserTypeCorrect`, `ClientTypeCorrect`, `ThresholdsTypeCorrect`, `SettingsTypeCorrect` | the types |
| `FieldServicesProofs!ServicesTypeCorrect`, `PagesTypeCorrect`, `TaskTypeCorrect`, `TerminalTypeCorrect` | the types |

They hold for any sets of queues, sockets, clients, keys, facts, agents, calls,
numbers, jobs, pages, audio files, tasks, sessions, users, settings and columns,
and for any delays, as far as the one named assumption of each module says:
delays are natural numbers, or positive where the code's are; the sets a
cardinality is taken of are finite; null, "not loaded", "nothing sent" and the
like are not values of the data they stand in for (`NoneAssumption`,
`TerminalAssumption`, `ThresholdsPageAssumption`, `PreferencesAssumption`,
`SettingsPageAssumption`, `MonitorDataAssumption`); in `CallView` a number of
the outside world is neither a queue's nor an agent's, a queue's number contains
no other queue's and an agent's none; and in `Preferences` the column that cannot be
switched off is in the order a new row has.  `ServicesTypeCorrect`
alone takes a hypothesis of its own, that the jobs are finitely many: it bounds
the listeners of a monitor by the number of jobs that have ended.  TLC evaluates the
assumptions in the runs.

Each invariant is proved from an inductive one.  What that adds to the property
is the argument.

### The auto-pager

* **QueueMonitor.**  `IInv` is the type invariant, the spacing of pages, the
  single page, and `StampsInPast`: polls in flight and the relay's payload carry
  times between 1 and now.  The last is what the others lack: an evaluation
  stamps timers and pages with the time its poll *began*, and 0 must stay free
  to mean "none".  Nothing more is needed of the order in which overlapping
  polls end.  The refinement is proved per action: every evaluation maps to a
  step of `PagingTimer` in which each queue starts, pages, resets or stays; all
  else stutters or advances time.
* **QueueMonitorHistory.**  A clean timer started after the last answer that
  showed its queue empty (`CleanTimer`), and answers and evaluations lie in the
  past.  A stopped monitor begins no poll (`OnlyRunningPolls`), and each of those
  left can page once but the first, which can only start a timer.
* **WaitingQueue.**  `QueueWaits` turns the bound into deadlines: what shows the
  queue otherwise is older than the wait (`OldEvidence`), a timer that stays is
  there or a poll that will start it is in flight or will begin in time
  (`TimerComes`), and the same of the page (`PageComes`).  The proof found that
  the latency counts twice: a poll that began while another was under way can
  start the timer that counts, with its own later stamp.
* **PagerServices.**  `OneStart` says what a start that is not overlapped owns at
  each of its awaits, `OneWriter` that the one job about to write has the
  settings that are wanted.  With the first and `OneWriter` the two halves of
  `ConfIsNewest` are inductive.
* **PageExecution.**  A page that no other met is alone while it is under way
  (`LoneAlone`), so the file Asterisk plays from is its own (`LoneCurrent`) and a
  file that is not whole has a writer it waits for (`PartialHasWriter`).

### The wallboard

* **MonitorConnection.**  `Consistent` relates the field `socket` to the
  sockets alive, to attempts and to the phases; `SilenceInv` adds
  `StaleOutlastsUpgrade`: data of an older connection that come during the
  upgrade of the next set `gotInitialData`, which disarms the check of that
  attempt, but also a stale timer, and that one fires later than the upgrade
  can end.  Without it the new connection might open unwatched.
* **WallboardPoller.**  `IInv` is the type invariant, `RunningHasInterval` and
  the four promises together: each needs another (a grace timer that fires
  needs to know who watches, a stop must clear what the interval left).
  `FirstRunHasMonitor` adds what each stage of a poll knows of the monitor.
* **RelayPipeline.**  `AgeOfStore`: the stored payload is older than its
  receipt by at most `MaxDelay`, whichever push it came with.  `Settling` states
  everything else as a deadline, counted from the last disturbance: by when the
  next full sync arrives, the view, the pushes under way, the store, the actions
  and the overrides are true.  All hold trivially at a disturbance, and each is
  carried by the one before it.
* **RelayMonitor.**  `WatchedOrBack`: a connection has its stale timer or a
  reconnection set, and may not rely on an untracked timer, because one that
  finds a connection goes out without a trace; without a connection there is an
  attempt or a timer of either kind.
* **WaitFigures.**  `CallsAreInOrder` (a call was last found while it waited, or
  at most `Lag` later) and `DatesAreInOrder` (no summary of a day to come, the
  dates of the process not ahead of the clock).  A maximum is then one that a
  poll measured, within half the time between two polls, or one carried over.
* **WaitWindow.**  Once the snapshots have been read, those of the window are
  observations (`SnapshotsAreObserved`), and an observation is a wait found no
  longer before the last pruning than the window.
* **MonitorData.**  Truth in flight: no count is ahead of the phone system's
  (`CountsFollow`), the last message on its way is true (`PushedAreTrue`), so is
  a response that comes in order (`ResponseIsTrue`), and the monitor is right
  about all that no message on its way will change (`MonitorIsRight`).  Counts are
  compared within one era: messages on the WebSocket never go back to an earlier
  one, and a response that does is late.
* **CallView.**  Every call the phone system shows is direct, in line or offered
  to an agent, and its segments are of the kinds that belong to it (`Sane`:
  `DirectLeg`, `LineLeg`, `OfferLeg`); a segment that talks is the agent's who
  answered, or the queue's music (`WhoTalks`).  The rules of the three programs
  are then compared kind by kind.
* **WallboardServer.**  `ExcludedAreAlone`, and `JobKnows`: what each procedure
  has read before an await still holds after it.  The places have a bound, so
  the place after the last is free.
* **PhoneClient.**  `CallInOrder`: a call has not been executed before its last
  answer, and the token of a repeated request was granted after the first was
  dropped.  Of a command the first alone is left: it may be called done undone.
* **QueueMembership.**  `ListIsCurrent` and `OneWriter`: until changes overlap,
  one action at most is about to write, and its list was made from the list
  there is.
* **BrowserClient.**  `LevelsSeen`: the level the alerts remember of a queue is
  the one it is shown with, so no figure turns red unseen whatever changed last.
* **The pages.**  What was meant of a threshold or a preference is in the edit,
  in the one mutation under way or in the row (`ScopeIsMeant`, `FieldIsKept`), and
  what is shown is what is stored unless an answer is due that has it fetched
  again (`ScopeIsShown`, `FieldIsFresh`).  On the settings page a typed field that
  is not stored is kept by a dirty card, and no fetch is about to undo it
  (`FormIsFilled`, `FieldsAreKept`).

### The agent

* **TaskLoop.**  `Alone` (a task that is not marked as mixed is the only one),
  `FoundThenReported` (how far it has come against what it found) and
  `FilesFound` (the files it has looked for are as it wants them, which only
  another running task could change).
* **Terminal.**  The entry of a session is a connection of that session, and a
  session not opened again early has one connection that can still report
  (`OneAlive`).

### What the proofs found

Two bounds were wrong as they stood, and held only in the instances checked:
the time in which a waiting queue is paged (the latency counts twice), and the
strict bound of `ShownNotMuchMore` (with data that are never late the maximum can
be half the time between two polls too long).  Three definitions chose between
overlapping cases, which says less than the code's order of tests does; they are
now written in that order.

Only model-checked: the liveness properties (`KeepsTrying`, `ClientIsServed`,
`UnwatchedStops`), which are out of the prover's reach, and the three violations.
The type invariants are not among the properties of the runs: they are proved.

## 5. What is left

1. Composition: `MonitorConnection` as the monitor of `WallboardPoller`.  Both
   are checked by themselves, with the other's events free.
2. Abstract specifications of further components and their refinement, such as
   a table with one writer for the pages that save.

Not modelled, and why:

* averages, sums over queues and the analytics (`threecx-poller.ts`,
  `wallboard.ts`): arithmetic and queries over what one poll fetches;
* the decoding of protobuf messages, and which requests the phone system's API
  has: data, known only from how the code reads them;
* rendering (`app`, `components`), the television page; the tabs of the
  thresholds page (switching drops the edits of the tab that is left); the test of
  the connection and the instructions on the settings page;
* encryption, the cookie's signature and the text of Asterisk's configuration;
* generated code (`3cxtools-relay/dist`), the mock-up
  `msp-architecture-v4.jsx`, the database schema.
