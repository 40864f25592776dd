# Verification of NodePassDash

NodePassDash is a dashboard over any number of NodePass masters ("endpoints").
For each of them the Go server keeps a stream of server-sent events, mirrors the
master's instances in a database ("tunnels"), aggregates their monitoring data,
and pushes live data to browsers over WebSockets; a React program in the browser
shows all this and sends the user's actions. This directory holds TLA+ modules of
the concurrent core of the server and of the frontend, the TLC runs that check
them, and proofs for the TLA+ proof system.

## The system

| Component | Code | State | Operations | Properties that make it right |
|---|---|---|---|---|
| SSE connection manager | `internal/sse/manager.go`, `model.go` | map `connections` under `mu`; connection objects with flags of their own mutex; one context and two goroutines per stream; channel `jobs` | connect, disconnect, daemon's reconnection, listening, close | no two live streams of an endpoint; a broken stream is reconnected; a manual disconnect stays |
| Endpoint handlers | `internal/api/endpoint.go` | rows of `endpoints`; the client cache of `nodepass` | create, delete, patch (reconnect, disconnect, updateConfig), refresh | the row and the manager agree in the end |
| SSE event service | `internal/sse/service.go` | rows of `tunnels`, `services`, `tunnel_count` | initial, create, update, delete, log, shutdown event, run by 12 workers in any order | rows mirror the master; no lost or revived row |
| History worker | `internal/sse/history_worker.go` | map of objects with an array of points each; a channel; `closed`, `stopChan` | dispatch, aggregate, write, remove, idle cleanup, close | every point counted at most once, in batches of exact size, of one instance |
| WebSocket hub | `internal/websocket/hub.go` | two maps of clients; four channels; a queue per client | register, unregister, broadcast, both pumps | no send on a closed queue; no client forgotten; never stuck |
| Monitor workers | `internal/websocket/service.go` | map of cancel functions | start on demand, checker, stop | a worker exactly where there is a client |
| Tunnel service | `internal/tunnel/service.go` | rows of `tunnels`, log rows, counts | create, delete, control, rename, patch, each a remote call and a wait for the event | the wait, its timeout and the event agree on one row |
| Services | `internal/services`, `api/services_create.go` | rows of `services` | derive, create from two tunnels, dissolve | both tunnels or neither |
| Sessions | `internal/auth` | rows of sessions, caches, one current token id | login, logout, validation, reset | a destroyed session stays so |
| File logger | `internal/log/file_logger.go` | cache of open files | write, read, clear, daily cleanup, close | no write to a closed file |
| Dashboard scheduler | `internal/dashboard` | hourly summary rows | aggregation, cleanup | an hour is summed once |
| Not started by anything | `tunnelcache`, `endpointcache`, `servicecache`, `memory`, `traffic`, `scheduler`, `cleanup` | — | — | — |

The frontend (`web/src`):

| Component | Code | State | Operations | Properties that make it right |
|---|---|---|---|---|
| Sign-in | `components/auth`, `lib/fetch-interceptor.ts`, `pages/login`, `oauth-success`, `setup-guide`; on the server `auth/service.go`, `auth/jwt.go`, `api/auth.go` | token and user in localStorage, shared by tabs; user, loading and timers of a tab; the server's one current token | sign-in (three ways), sign-out, check at start, redirection, reload after a 401 | a replaced token is dead; a refused tab leaves; no lasting spinner; the page fits the user |
| Monitor charts | `lib/hooks/use-*-monitor-ws.ts`, `ui/*-stats-charts.tsx` | a socket, flags, samples | follow a target, connect, reconnect, draw | connected means open; one stream in a chart |
| Measurements | `lib/hooks/use-metrics-trend.ts` | data, abort controller, interval | fetch, poll, follow a tunnel | old answers lose; the charts come |
| Pages | `pages/*`, `ui/file-log-viewer.tsx`, `ui/network-debug-modal.tsx`, `tunnels/tcping-test-modal.tsx` | what is shown, which spinner and button is on, timers, event streams | requests, answers, filters, drags, tests, navigation | nothing waits for nothing; the newest wins where the code says so |
| Forms | `components/tunnels`, `components/services`, `components/endpoints`, `components/settings`, `pages/tunnels/create`, `pages/templates`, `pages/settings`, `pages/debug`, `pages/login`, `pages/setup-guide` | what is typed, chosen and shown, flags of buttons, requests under way | open, close, type, choose, submit, answers | sent once where a flag says so, complete, of the object the form is open for |
| Table of tunnels | `pages/tunnels` | selection, dialogs of a row, export | select, delete, act on what is selected | an action concerns rows that were chosen |
| Preferences | `providers/settings-provider.tsx`, `layout/settings-drawer.tsx`, `theme-switch`, `language-switch` | settings of each tab, the theme kept by two libraries, localStorage | choose, save, arrive from another tab | tabs end up with one theme |

How they interact: `main` calls `InitializeSystem` before the HTTP server starts,
then starts the daemon, the hub and the scheduler, and calls `InitializeSystem`
again. HTTP handlers start goroutines that call the manager. The stream of a
master puts its events into `Manager.jobs`; the workers hand them to the event
service, which writes rows, calls `HistoryWorker.Dispatch`, and tells the manager
of a master's shutdown. Tunnel operations call the master and wait for the row
that the event will write. On SIGTERM the scheduler, the hub, the manager and the
event service (with the history worker) are closed in this order; the workers of
`jobs` are never stopped.

In the browser one thread runs everything, and a handler runs to its end; but
requests are answered in any order and fail, timers and sockets fire late, each
closure keeps the values of the rendering that created it, and what a page has
begun goes on when the page is gone.

What is hard here: goroutines nobody orders (HTTP handlers, 12 event workers);
objects used after their map entry is gone; decisions on a copy taken under a lock
that has been released; contexts replaced while their goroutines still run; full
channels; timeouts that race the event they wait for; and the order of shutdown.
`PROJECT.json` lists these hazards by line.

## Modules

| Module | What it is |
|---|---|
| `SSEManager` | the manager, the handlers of `api/endpoint.go` that drive it, boot, shutdown |
| `MCSSEManager` | the same for TLC, with the symmetry of its two pools |
| `SSEManagerProofs` | theorems about `SSEManager` for every value of its constants |
| `HistoryWorker`, `MCHistoryWorker` | the history worker with its callers |
| `HistoryWorkerProofs` | theorems about `HistoryWorker` |
| `WebSocketHub`, `MCWebSocketHub` | hub, pumps, monitor workers and checker |
| `WebSocketHubProofs` | theorems about `WebSocketHub` |
| `TunnelEvents` | the rows of tunnels of an endpoint, the master's stream and the event workers |
| `TunnelLifecycle`, `MCTunnelLifecycle` | extends it with the HTTP operations on tunnels, refreshes and groups |
| `TunnelLifecycleProofs` | theorems about `TunnelLifecycle` |
| `BrowserAuth`, `MCBrowserAuth`, `BrowserAuthProofs` | signing in and out, tabs against the server |
| `MonitorFeed` | what a monitor panel promises: the abstract specification |
| `MonitorSocket`, `MCMonitorSocket` | the hooks and charts of live monitoring, which implement it |
| `MonitorSocketProofs` | theorems about `MonitorSocket`, the refinement among them |
| `MetricsTrend` | the hook `useMetricsTrend`, used by the next two; `TrendSpec` is what it promises a page |
| `TunnelDetails`, `ServiceDetails` | the page of a tunnel and that of a service |
| `TunnelsPage`, `ServicesPage`, `EndpointPages` | the lists; the page of an endpoint; the change of a key |
| `Dashboard`, `EventPages` | the dashboard; the debug page of an endpoint and the log page of a service |
| `NetworkTest`, `TcpingTest` | the two dialogs of diagnosis |
| `Forms` | what all forms and dialogs have in common |
| `TunnelForms`, `GroupForms` | creation of tunnels, one by one and in batches, their name and order; groups and tags |
| `ServiceForms` | services from a scenario or from tunnels, their alias, the page of templates |
| `EndpointForms` | adding, importing, naming, re-keying and deleting endpoints |
| `SettingsForms`, `ToolForms` | the tabs of the settings; the reachability test of a service, the page of tests |
| `TunnelTable` | selection, deletion and export in the list of tunnels |
| `AccountForms` | the forms of sign-in and of the first configuration |
| `Preferences` | theme and other preferences over two tabs |
| `Pages`, `MCPages` | composes pages and forms: navigation, what a page leaves behind, which form is followed |
| `FormsProofs` | what the forms keep: one invariant and one step lemma per module of forms |
| `PagesProofs` | theorems about `Pages`, its forms included, and the refinement of `MetricsTrend` |

Every module has a type invariant and its properties at its end, with a comment
that names the behaviour. Definitions whose comment begins with "Mutant" are
faulty variants of the definition that follows them; nothing uses them. They
document what each property is able to notice.

### SSEManager

`connections` is the map, `conn` the `EndpointConnection` objects, `listener` the
runs of `listenSSE`, each with its own program counter, that of its subscription
goroutine, and whether its context is live. The daemon keeps the copy it took
(`todo`) and the object in hand, because both are used after the lock is released;
its four reads of the object (manual, connected, time of the last attempt,
connection) are four steps. `calls` is the set of goroutines HTTP handlers
started, in no order. `row` is the endpoint's row (status and configuration),
`shutdown` an event of a master's shutdown on its way through `jobs`, `boot` the
two passes of `InitializeSystem`, `phase` the progress of `Close`.

Steps follow the locks: what the code does under `Manager.mu` is one action
(`ConnectEndpoint`, `DisconnectEndpoint`, `WorkerNotify`), and each access to an
object under the object's own mutex is one. `conn.Cancel` is read and written
without the object's lock; a cancel function is the listener it would stop.

Left out: log lines, counters, the health check, which only reads, and the error
paths of database writes. Time is two bits: whether the last attempt lies less than 30
seconds back (`recent`, which `AttemptAges` clears at any moment), and timers,
which may fire at any moment they are armed. The library (r3labs/sse) is taken to
return without error once connected or cancelled, and with an error only before
the first event, as the comment at `manager.go:352` and its use suggest.

### HistoryWorker

`status` maps an instance to a `ServiceCurrentStatus` object, `result` holds the
points of each object, so that the processor can hold an object whose entry was
removed between its lookup and its append. A point is an instance and a number
given once. `DispatchCheck` and `DispatchSend` are the two halves of `Dispatch`.
`Close` is `CloseStart`, the wait (`Joined`) and `CloseInput`; since `Close` keeps
`closeMu` to its end, no check of `Dispatch` succeeds after it has begun. A panic
ends the process (`crashed`).

### WebSocketHub

One topic per endpoint id or instance id; the two copies of each function in the
code are one action over `Kinds`. The hub's four channels are served in any order
(`select`). A broadcast is a loop of `HubSend` steps, because each may wait for
room in `unregister`. A client has a handler goroutine that becomes its read
pump, and a write pump. `monitors` are the topics with a worker, `queries` those
whose master is being asked; the checker acts in two steps, one under the hub's
lock and one under the service's.

### TunnelEvents and TunnelLifecycle

`master` is the state of each instance on the master, `jobs` the queue
`Manager.jobs`, `worker` the goroutines of `workerLoop` with the event each holds,
`tunnels` the rows, keyed by row id because a row may have no instance and because
calls remember ids. `marking` is the second statement of `markEndpointFail` or
`markEndpointDisconnect`, still to come. `call` holds the HTTP requests. Nothing
in this part of the code takes a lock: only the database orders anything, so a
statement is a step. `handleInitialEvent`, for instance, is `Lookup`, then `Write`
or `Insert`, and between them the row may come or go (`Conflict` is the unique
index refusing a second one). A poll that finds what it waits for is a step, one
that does not is none, and a deadline may pass at any moment.

`updateEndpointTunnelCount` exists three times in the code and is one statement,
but two steps here: its subquery reads a snapshot (`CountBegins`), and the write
may have to wait (`CountEnds`). `count` says for each goroutine whether a recount
is due or running; `overlapped` is a history variable, no variable of the code:
two recounts have run at the same time. The recount after an HTTP operation runs
in a goroutine of its own, 50 ms later; it belongs to the slot of its call.
`Recounting = FALSE` leaves recounts out where no property reads the count.

Each operation on a tunnel is a remote call (`CreateRemote`, `DeleteRemote`,
`ControlRemote`), a wait for the row the event will write, and a fallback.
`CreateRemote` has three kinds: "create" (`NewCreateTunnelAndWait`, whose fallback
inserts a row without instance id), "batch" (`CreateTunnelAndWait`) and "url"
(`QuickCreateTunnelDirectURL`, which has no fallback). `refreshTunnels` is two
steps, the list it asks the master for and the transaction that mirrors it.

Left out: everything of a row but instance, status and group; service rows; rename,
patch, reset, sorting, updates of a tunnel; the deletion of the endpoint itself;
failing statements other than by a constraint. Row ids are taken from a small set
and given again only when no row and no call holds them. Statements see each other
at once, so the transaction of a refresh is one step, and those of two do not interleave.

### The frontend

React renders between events: a handler changes state, React commits it and runs
the effects it triggers before the next event is handled. So one step is a handler
with the rendering and the effects that follow, applied in their order. A handler
that waits (`await`) ends there, and its continuation is the step of the answer; it
uses the values of the rendering that created it, which the models keep where they
may differ from the present ones (`post.of` in `TunnelsPage`, `run.of` in
`ServiceDetails`, `interval` in `MetricsTrend`). Answers come in any order, with
success or failure, unless something aborts the request. Timers fire in any order.

`BrowserAuth`: `tab` is one run of the program in a tab, `stored` the localStorage,
`jti` the server's `currentJTI`. A request that may change `jti` is a `handler` with
the steps the server takes: `Authorize` (middleware), `Generate` (`GenerateToken`),
`Install` (`setCurrentJTI`), `Clear`. `Becomes` is every new state of a tab: it starts the guard's
timer anew, as the effect of `RouteGuard` does.

`MonitorSocket`: the two hooks are the same code and one model. `Disconnect` closes
the socket, whose close event (`Closed`) comes later, at a handler that writes the
flags of whatever socket there is by then. A sample names its socket, so a rate or
a chart that mixes two streams can be seen.

`MetricsTrend`: `requests` are those not aborted; `overtaken` is history, it says that
a later request has been made. In the code at most the newest request survives.

The pages share the variables `route` and `page` (the state of the page that is
shown, a record that differs from page to page) and `late`, what was left behind and may
still navigate. `rekey` is the change of an endpoint's key, a chain of requests and
one timer, which goes on without its page. `test` and `ping` are the dialogs of diagnosis. In
`Pages`, `Go` follows a link; the page that is left loses its state, timers and
subscriptions, and its requests are answered to nobody.

`form` is the form that is followed. Most dialogs of this program are built alike: a
page renders them all the time and passes them a flag, so what was typed, the flag of the button and
the requests outlive the closing, and an answer finds the dialog as it is then. Some are rendered only
while they, or the dialog around them, are open: the one that edits a tunnel
(`pages/tunnels/index.tsx:2504`, `pages/tunnels/details/index.tsx:3420`), rename and sort nested
in it (`simple-create-tunnel-modal.tsx:1111`; "retitle" is the nested rename, "rename" the one both pages
render themselves), and the members of a group (`group-management-modal.tsx:463`). Closing unmounts them
(`EditCloses`, `HostCloses`, `DrawerCloses`): what is left is their submissions, whose answers meet
a new instance or none. A field is blank or holds a
value of its kind; `pick` holds the selectors, `rules` a list of rows, `asked` and `sent` the
requests for data and the submissions under way. The module of a form says which fields are
on the screen, which are required, which are sent and under which condition, and what an answer does. `Forms` defines `Without` itself:
`SequencesExt` has the same operator, but with it every proof about pages would carry that
module once for each of the ten modules of forms.

`Preferences` has two tabs, each with its settings and the theme its library shows; `saved` and `kept`
are what the settings and the library store; `news` is the tab a new theme is on its way to.

Left out: texts, formats, colours, and everything in a page that
neither waits nor is waited for.

## Runs

| Run | Bounds | States | Shows |
|---|---|---|---|
| `safety` | 1 endpoint, 2 objects, 2 listeners, 1 handler goroutine; reconnect, disconnect, create, delete, updateConfig, close; the boot is over | 827 thousand | `TypeOK`, `LiveIsCurrent`, `ConnectedHasListener`, `EntriesNotManual` |
| `liveness` | 1 object, 2 listeners, late shutdown events, one pass of the boot | 108 thousand | `Reconnects`, `OfflineIsResolved` |
| `resurrect` | 1 endpoint, disconnect | — | finding: the daemon undoes a disconnect |
| `batches` | 2 instances, 2 workers, 3 objects, batches of 2, 4 points | 0.3 million | `PointOnce`, `BatchesExact`, `ClosedIsQuiet`, `CloseTerminates` |
| `panic` | the same, 3 points | — | finding: send on the closed channel |
| `hub` | 2 clients, 1 topic, channels and queues of 1 | 0.9 million | `TypeOK`, `MembersOpen`, `NotForgotten`, `MonitorsFollow` |
| `tunnels` | 1 instance, 2 rows, 2 workers, 1 call, a queue of 1; all operations but start and restart | 1.3 million | `CountCovered` |
| `statuses` | 1 instance and row, 2 workers, 1 call, a queue of 1; restart, refresh, create by URL, delete; offline marks | 0.2 million | `StatusFollows`, `RefreshHeals` |
| `monitor` | 2 targets, 3 sockets, 2 instants, charts of 2 samples | 46 thousand | `ConnectedMeansOpen`, `ChartOfOneStream`, `KeepsFeed` (the refinement), `ConnectingEnds` |
| `signin` | 1 tab, 2 tokens, 1 form and 1 request under way, another browser | 37 thousand | `TypeOK`, `KickedStaysOut`, `RefusedTabLeaves`, `SpinnerEnds`, `PageFitsUser` |
| `guide` | the same | — | finding: the guide loses the session it was given |
| `pages` | all pages and forms; 2 ids, 2 requests of a kind, 2 drags, tests of 2; 1 field left blank, 2 rows, 2 requests for data and 2 submissions of a form | 1.15 million | `TypeOK`, `BusyMeansPending`, `LiveLinesGo`, `ChartsFollow`, `FilterIsNewestInput`, `LastDragStays`, `KeyResetReconnects`, `OneSubmission`, `RequestsComplete`, `SubmitsWhatIsShown`, `ThemesAgree` |

The runs of modules without `TypeOK` have it as a theorem only: `HistoryWorker`,
`TunnelLifecycle` and `MonitorSocket` are typed for every value of their constants.

Why the bounds are enough. Every action of the manager concerns one endpoint; two
of them share nothing but locks, so one endpoint shows all interactions, and two
objects and two listeners give each an old and a new one at the same time; the
theorems remove these bounds for the safety properties. What
`safety` and `liveness` do not combine (the boot beside handlers, several endpoints, more than one handler
goroutine) is covered by the theorems, which hold for all of these at once. In `safety` two states count
as one (`View`) when they differ only in what nothing reads any more: an object no map entry, goroutine or
listener refers to, of which only the flag `connected` is kept, because `ConnectedHasListener` speaks of it,
or the status of an existing row once the boot has made its last decision on it. No guard, no other variable and no
invariant of the run depends on either, so states that are taken for one have the same successors up to
the same difference. Four points and batches
of two give a full batch, a second one of the same instance, and an entry removed
and created again in between; two workers give a Dispatch caught on either side
of Close. Channels and queues of one are full after one message, which is
when the hub's code takes its other branch; larger ones only delay it. Events and
calls concern one instance, except that rows share the count and the offline marks;
two row ids let an instance have its row and an orphan beside it. Two workers give
every order of two events, with a third in the queue, and a queue of one loses
events early.
In `tunnels` streams end without marking the tunnels offline, which changes no
number of rows. `statuses` takes the operations whose events and fallbacks meet
the offline marks; start and stop differ from restart by a single event, and
`InstanceReports` with a new status from what `ControlRemote` does to the master.

In the browser two things of a kind show every order: two requests under way, an old
and a new one; three sockets, one closing, one lost and one opening; two tokens, the
one that was replaced and the one that replaced it. A second tab shares only the
token and the server with the first, and the other browser already replaces the
token at any moment; the theorems of `BrowserAuthProofs` hold for any number of tabs.
One page is shown at a time, so the pages add up and do not multiply; what one
leaves behind meets the other pages one thing at a time, and only the pages of
`Crossing`, since a page that is gone can change nothing but the route and the key's
chain. The dialogs of diagnosis open on a page at rest: they share no state with it. The same holds of
a form, which is followed from the page as it appears; the page rests meanwhile.

A user who may leave one field of those on the screen blank meets every check of a
single missing field, and every field a choice has just taken away or brought back, since what was typed
before is kept; two rows show the first and the last, two submissions an answer that comes
after the form has been opened again. Of the tags a server knows of a tunnel the bound is none, one or all.

Deadlock is checked in the runs of the manager that do not close it (`liveness`, `resurrect`) and in those of
the tunnels and of the frontend. The others may really stop: after `Close`, when all points are dispatched, when all clients
have left and the service has stopped, or when the hub waits for itself. In
`liveness` no stimulus but the shutdown events of the master is enabled.

### Fairness

`SSEManager!FairSpec`: each goroutine that can step eventually does (the Go
scheduler; no lock is held across a wait), armed timers fire, `select` does not
pass over a ready `ctx.Done()` for ever, and a cancelled subscription returns.
`MasterAnswers` is strong fairness of a first event on the endpoint's current
stream: without it no program could promise a connection. Nothing is assumed of
the stimuli, of streams that break, or of the master's shutdown.
`HistoryWorker!FairSpec`: the processor, the cleaner's stop and Close. Nothing is
assumed of which ready case a `select` takes: once Close has begun it holds
`closeMu`, no further point passes the check of `Dispatch`, and the processor can
receive only what is left.
`TunnelLifecycle!FairSpec`: workers, recounts and calls run, deadlines pass, the
second statement of a status change is executed, and a new stream sends its initial
events. `Report` has strong fairness: a master reports its instances periodically,
and not every one of these reports may find the queue full. That a stream comes up,
or that anybody refreshes, is not assumed but part of what the properties suppose.
`WebSocketHub!FairSpec` assumes nothing of the hub, only that
handlers, pumps, the checker and the monitor workers run.

`MonitorSocket!FairSpec`: a browser resolves every connection it was asked for, it
opens or fails. `BrowserAuth!FairSpec`: timers fire, and the request to sign out and refused
requests are answered or fail; of sign-ins nothing is assumed.
`Pages` has no fair specification: what its pages wait for is stated as a safety property, that a spinner or a
dead button goes with a request under way (`BusyMeansPending`), and nothing more is promised by a program that
sets no time limit on its requests.

## What the findings say

* `resurrect` — `checkAndReconnect` looks at the manual flag of an object it
  copied earlier and reconnects later. A disconnect in between is lost.
* `panic` — between the test of `closed` and the send the channel may be closed.
* `guide` — the setup guide calls a function its provider does not have, after the server has
  replaced the token and before the page has stored the new one.

Disagreements that were met and have no run. On the server:

* `ConnectEndpoint` uses the URL and key it is given only for an endpoint that has no
  entry, while `api/endpoint.go:363` says that the stream takes the new configuration by
  itself. (`SSEManager`: `conn.config`.)
* `Hub.Run` sends to `unregister`, which only `Hub.Run` reads (`hub.go:136`). With the capacity
  in the code, 256, one broadcast must meet more full clients than the channel has
  room for. (`WebSocketHub`: `HubSend`; the run `hub` allows the hub to stop.)
* `DeleteTunnelIdAndWait` clears the groups of a tunnel with a placeholder PostgreSQL
  does not know (`service.go:930`); the statement fails, the failure is logged, and the
  association keeps the row from being deleted. (`TunnelLifecycle`: `ClearGroups`.)
* `aggregateAndWrite` is started outside the wait group (`history_worker.go:448`), so `Close` may
  return while a batch is being written. (`HistoryWorker`: `writing`.)

In the frontend, where signing in and pages meet:

* The interceptor removes the token when a request is refused that was sent with an
  earlier one (`fetch-interceptor.ts:71`): a new sign-in may be undone. (`BrowserAuth`: `CallRefused`.)
* The list of endpoints clears its timers when it is left, that of the reconnection
  after a change of a key among them (`pages/endpoints/index.tsx:1113`): the endpoint stays
  disconnected. On the page of an endpoint the timer lives on. (`EndpointPages`: `RekeyLeft`;
  `KeyResetReconnects` speaks of that page only.)
* A theme that arrives from another tab makes a tab save all of its settings
  (`settings-provider.tsx`), so a preference changed in the first tab meanwhile is undone,
  although the drawer says settings are saved automatically (`locales/en-US/settings.json:50`).
  (`Preferences`: `Followed`.)

In the forms (the modules have them as they are; `SubmitsWhatIsShown`, `OneSubmission` and
`RequestsComplete` name the forms they do not hold for, or the values they do not speak of;
`OneSubmission` speaks of forms that have a flag and keep it, so neither of those that are unmounted nor
of those without one):

* The dialog that edits a tunnel, closed during a submission and opened again, can be submitted a second time, and
  the success of the first closes it; so can the nested rename and sort and the members of a group. Nothing disables
  the actions of the table of tunnels while one is under way. The button of the simple form is below its
  spinner: the form that creates can be sent while endpoints are fetched and its fields are not on the screen.

* Tunnels: the simple form sends `min`, `sni`, `max` and the password of a type or mode that
  was chosen before; a late success closes a dialog that was opened again; `tunnels/create`
  sends `proxy_protocol` and "inherit" where the other form leaves them out; a batch takes ports
  that are no numbers and sends null. Rename, opened from the dialog of editing, sends the instance's id
  (`simple-create-tunnel-modal.tsx:1115`) where the server reads a row's id (`api/tunnel.go:451`).
  Tag edits in `tunnels/details` (3443) and the typed alias in `services/details` (1824) are lost when
  the page renders, because it passes a new object each time. The editor of tags returns early on a blank
  bandwidth or traffic (`instance-tag-modal`, 225 and 238), so a removed tag comes back.
* The table of tunnels: "all" means whatever is listed when the deletion is confirmed
  (`pages/tunnels/index.tsx:444`), possibly nothing; a selection outlives its filter and its page; the rows of
  the spinner can be selected; the export counts the selection and takes the listed rows only.
* Groups: a late answer for one group replaces the selection while another is shown
  (`group-instances-modal`, 96-103); the drawer's buttons share one flag.
* Services: "balanced" may be sent without a second target; when the list of tunnels cannot be
  fetched again the dialog of assembly is empty but keeps its selections; a template with an intranet target does
  not check the user's port; the pages of creation and of templates can be submitted again during the
  1.5 seconds before they go.
* Endpoints: the dialog of the list adds what was tested, or something typed since; its "Add", like the
  dialogs by URL, of deletion, of the key and of the configuration, has no flag, and Enter submits
  name and key again; an answer that comes late closes another object's dialog
  (`pages/endpoints/index.tsx:459`); a configuration in which only the IP changed counts as unchanged (718-724).
* Settings: a cleared number is sent as "" (`log-cleanup-settings`, 517-521) and a saved 0 is shown as
  10000 (102-105); an answer with the provider's configuration overwrites what was typed meanwhile, and the configuration is sent unchecked.
* Tools: addresses of types 2, 4 and 7 are tested from the client's instance (`services/tcping-modal`, 137-235);
  the stream test of the page of tests can be started twice; the traffic chart of a
  service in full screen is empty.

## Proofs

`SSEManagerProofs` proves, for any finite or infinite sets of endpoints,
configurations, objects and listeners (named assumptions in `SSEManager`: the nil
values are not members, `Stimuli` names stimuli, there is an endpoint and a
configuration):

* `TypeCorrect`: `Spec => []TypeOK`
* `LiveIsCurrentAlways`, `ConnectedHasListenerAlways`, `EntriesNotManualAlways`:
  the three safety invariants of the runs.

None of the three is inductive alone. The inductive invariant is
`Inv == TypeOK /\ DaemonHolds /\ Memory`. `Memory` holds the three invariants and
`SlotsUsed`, which says what an idle slot and an exited run look like, so that a
slot or object that is taken again carries nothing over. `DaemonHolds` says that
the daemon holds an object exactly at the program points that use it; without it
`DaemonConnect` would apply `conn` outside its domain. `InitInv` and `StepInv` are the two
halves of the induction, the latter with one lemma per action that changes more
than one variable of the manager; the theorems follow by PTL.

`HistoryWorkerProofs` proves `TypeCorrect`, `BatchesExactAlways` and
`ClosedIsQuietAlways` for any instances, workers, objects, batch size, capacity and
number of points. What makes `BatchesExact` inductive is `Hands`: the processor
looks an object up under one lock and appends to it under another, so one must know
at each of its program points whose points the object it holds contains. `Apart`
says that no object is the entry of two instances. `Forgotten` says that an object
nobody can reach holds no points: taken again, it stands for a new Go object.
`Quiet` ties the end of both goroutines to the end of `Close`.
`PointOnceAlways` compares the points in the channel, in the hands of goroutines, in arrays and in
batches. Its inductive form `Placed` says that a point is at one of these kinds of places only (`OneKind`),
and at one place of its kind, at one position there (`OnceOfAKind`); each step moves the points of one place to one other.

`WebSocketHubProofs` proves `TypeCorrect` (no channel and no client's queue
exceeds its capacity), `MembersOpenAlways` and `NotForgottenAlways` for any
topics, clients and capacities of at least 1. The hub may drop a client before it has
registered it, or several times; that it never sends on a closed queue rests on
`Fresh` and `Waiting`: a client enters `register` once, from its handler, and until it
has been taken out nobody closes its `Send`, because only members are closed.
`Filed` says that a member is found under its own topic, so dropping it there drops
it everywhere.

`TunnelLifecycleProofs` proves `TypeCorrect` for any instances, row ids (finitely
many), workers, calls and queue size, and `CountIsCovered`, from the assumption that
recounts are not left out (`Recounting = TRUE`). `CountCovered` alone is not
inductive: it says that some recount is pending, not that it will see the rows as
they are. `Settled` adds that: as long as no two have overlapped, at most one runs, and
either another is due, or the running one has seen the present number of rows, or
none is pending and the stored count is right. The steps fall into three kinds, one
lemma each: those that keep the rows, those that change them and make a recount due
(`Kept`, shown for every handler and call), and the recount's own two.

`MonitorSocketProofs` proves, for any targets, sockets, times and length of the
history, `TypeCorrect`, `ConnectedMeansOpenAlways`, `ChartOfOneStreamAlways`, and `KeepsItsFeed`: every
step of `MonitorSocket` is a step of `MonitorFeed` or a stutter. The handlers never ask whose socket they
serve. They are right because of `Owned`: the hook has tried exactly when it is given a
target, and no socket but the one it holds is open or opening. `OpenChart` strengthens
`ChartOfOneStream`: what is drawn under an open socket is that socket's.

`PagesProofs` proves, for any tunnels, services, texts, views and bounds
(`PagesAssumption`: a service names tunnels; `BoundsAssumption`: there are two objects, and
one request of each kind fits; `IdsAssumption`: no object is called like an operation of the
table, or is the row of its spinner):

* `TrendTypeCorrect`, `ChartsFollowAlways` of the hook alone, in a page that gives it any tunnels in any order: at
  most one request is not aborted, and none is overtaken, because each `Send` replaces the newest.
* `PagesUseHook`: `Spec => TrendSpec`. Whatever the pages do, the hook sees the life `MetricsTrend`
  describes, so what is proved of it there holds here (`PagesChartsFollow`).
* `LiveLinesGoAlways`, `FilterFollowsInput`, `LastDragStaysAlways`,
  `KeyResetReconnectsAlways`: four properties of the run, for all of its constants.
* `TypesAlways` and `SpinnersEnd`: `TypeOK` and `BusyMeansPending` of all pages, dialogs and forms.
* `OneSubmissionAlways`, `RequestsCompleteAlways`, `SubmitsWhatIsShownAlways`, `ThemesAgreeAlways`:
  the four properties of the forms, for any number of objects, rows and requests under way. `OneSubmission`
  excepts the forms that are unmounted (`Remounted`), and those without one flag for all they send; what
  `SubmitsWhatIsShown` says holds for them, too.

The inductive invariant `PagesInv` has one conjunct per page, which says something only
while that page is shown, besides those of the hook, of the two dialogs and of the requests left behind. What
the properties do not say and the induction needs is: the timers of a search hold nothing but the text in its field; as long as cards
cannot be dragged the newest order is being saved, and the server has none that is newer; the tests still due
fit into the sequences that run; live lines come only while their switch is on; an event source that failed is not
shown as connected; and a change of a key that refreshes its page belongs to that page and has a request under way there.

`FormsProofs` has what the theorems about forms rest on (the table, the sign-in and the preferences are in
`PagesProofs` itself). None of these properties is inductive. `Fit` adds to the types
that a flag or a spinner stands for something under way, that all that was sent is complete, and how the
form sees to it that it is sent once: by its flag, which then is up whenever something is under way, or by looking
at what is. A form that may be unmounted does neither, and anything may be under way of its earlier instances. To it each module adds what its selectors and fields owe each other, because a request is made of
what was typed long before: extended targets are filled in only while their field is shown; a password belongs to the endpoint
that was chosen; the dialog of one value holds that of the tunnel it was opened for; the JSON of the tags is that of their fields
while these are shown; the third step of the guide is not reached without the fields of the second; each test of the page of tests is
flagged exactly while it is under way. For the theme it says which tab lags, and
in what, while news is on its way: the tab shows what its settings name, and may have saved it once more.
`FormStepKeeps` in `PagesProofs` goes through the modules of forms: `FormInv` is kept, and a step
that sends something sends what is shown.

`BrowserAuthProofs` proves `TypeCorrect` and `KickedStaysOutAlways` for any tabs, tokens and numbers of
requests. A token is made in one step and becomes current in a later one, with
other sign-ins, sign-outs and expiry in between. `Pledged` carries the induction: a token still
to be installed belongs to one request, was never current, and is no other request's.

Only model-checked: liveness (the prover has no fairness) and the three findings. Every
invariant and every action property that a passing run checks is a theorem.

## Plan

1. `SSEManager` with proofs: done.
2. `HistoryWorker` with proofs: done.
3. `WebSocketHub` with proofs: done.
4. `TunnelEvents`: done, the history entries excepted (they are `HistoryWorker`'s).
5. `TunnelLifecycle` with proofs: done for create, delete, control, refresh and groups;
   rename, patch and update remain, with an abstract specification of an operation
   (asked, done remotely, visible) that each of them implements.
6. `BrowserAuth` and `MonitorSocket` with proofs: done, with the server's side of the one token.
7. The pages and their composition, with proofs: done.
   The forms, with proofs: done, one invariant per module of forms.
8. `Services`: rows derived from pairs of tunnels, creation with roll-back.
9. `FileLogger`: handles against clearing and Close.
10. `TrafficSummary`: hourly aggregation and the retention of its rows; then the
    schedulers and caches nothing starts, and the URL parser as operators against a
    reference definition.

Theorems worth proving there: type correctness everywhere; that a row of a deleted
instance stays away under ordered delivery; that the change of a key reconnects; that a
summary row is the sum of its hour.

## Not modelled

On the server: routes, download and update of the program, Docker, statistics and
log reading, flags, migrations and the wire formats of SSE and WebSocket; services, the file
logger, the hourly summaries; OAuth states, passwords, and the session table, which no
request reaches any more. The dead packages come last.

In the frontend: charts and the clipboard; demonstrations with fixed data; and what
nothing imports: older copies of pages (`index-bak.tsx`, `index copy.tsx`, `index-original.tsx`,
`index-new.tsx` and others), the menu and the settings that were replaced (`navbar-user`, `notification-settings`,
`system-settings`, `profile-settings`), older dialogs (`components/tunnels/scenario-create-modal`, those of
tags other than `instance-tag-modal`) and parts of an older dashboard (`today-traffic-chart`, `enhanced-metrics-chart`, `quick-entry-card`). Most of what remains of
the modelled files is markup: which element shows which value. It holds no state
and orders nothing, and a model of it would repeat it. `PROJECT.json` gives the
reason for each component.
