# IBKR RMS dashboard: specifications

TLA+ models of `src/ibkr-platform`: the worker and its path through Redis to
MongoDB (Python, asyncio) and the dashboard in the browser (TypeScript, React)
with the part of the API its panels talk to. TLC checks them on small instances,
and TLAPS proves the safety properties of the runs that hold for every value of the
constants. `PROJECT.json` maps every definition to the lines it models. In this
text `worker.py`, `state.py`, ... are files of `src/ibkr-platform/backend/app/`,
`live.ts`, `payoff.ts`, ... of `src/ibkr-platform/frontend/lib/`, and
`connections.tsx`, ... of `src/ibkr-platform/frontend/components/`.

## 1. The system

| Component | State it keeps | Operations | Correct when |
|---|---|---|---|
| Durable history: `worker.durable_consumer`, `db.persist` | the tenant's Redis stream and consumer group; MongoDB `orders`, `order_events`, `executions`, `alerts`, `last_state` | XADD, XREADGROUP, the MongoDB calls of one event, XACK, the error branch | what is acknowledged is durable; replays take nothing back; one document per order; every event is acknowledged |
| Session lease: `worker.Session` | one Redis key per connection with token and time to live | acquire, renew, release, the goodbye | one session at a broker; the holder is not displaced; the connection is served again; a loss concerns nobody else |
| Gateway session: `worker.GatewaySession` | bounded queue, `order_versions`, `execution_versions`, `positions`, fault, reconnect | broker callbacks, `live`, `sync`, `poll_orders`, `process` | Redis shows the broker's open orders and positions; every fill reaches the stream; the stream keeps the order of an order's versions |
| Supervisor: `worker.Supervisor` | `sessions`, `consumers`, `dispatchers`, `restart_after` | `reconcile` every 10 s, `commands` | sessions are those of the registry, one per connection; a served tenant has a consumer |
| Live state: `state.StateRepository` | Redis account, position, order and gateway keys | `publish` (one transaction with the stream append), `gateway` | keys follow the events in order; an account survives while one connection lists it |
| Alert dispatcher: `worker.AlertDispatcher`, `alerts.py` | own consumer group, reported class per gateway, pending, since, anchors, bands, risk | `handle`, `gateway_changed`, `sweep_pending`, `settle_risk` | one message per outage and per recovery; nothing announced twice after a restart |
| SnapTrade polling: `worker.SnapTradeSession` | the connection's rows in Redis | `refresh`, `poll` | what the provider no longer lists disappears |
| Login watcher: `main.watch_gateway_logins`, `gateway_login.py` | poll lock, login snapshot with time to live | poll, `clear_login`, the restart guard | a phase change is streamed; a gateway with an open two-factor request is not restarted |
| Market data archive: `massive.py` | sample lists in Redis, one CSV per day | `record_sample`, `archive_due_samples` | no sample is lost, whatever crashes |
| Live socket and cached rows: `main.live`, `live.ts`, `dashboard.tsx` | a stream cursor per socket, the query cache, the connectors, LIVE | subscribe, forward, `applyEvent`, refetch, stop, try again | the rows become what the API would answer; one socket; a row is there once |
| Pay-off and risk panel: `payoff-panel.tsx`, `strategy-payoff.tsx`, `lens-table.tsx`, `selection.tsx`, `payoff.ts`, `risk-lenses.ts`, `scenario-columns.ts` | filters, lens and focus, sliders, boxes, columns, overrides, the booked legs fetched | every control, a change of the rows, of the day and of the booked legs | lines add up to totals; extremes are extremes; no leg is hidden that is ticked |
| Tables and executions: `tables.tsx`, `table-pager.tsx`, `executions.ts` | picks, search, order, page; the memo of the fills | filter, search, sort, turn the page, show the expired | no row is out of reach; an execution counts once; a live contract is not hidden |
| Name of an account: `AccountNameCell` of `tables.tsx` | draft, saving, skipSave, savingRef | open, type, Enter, Escape, blur | what was given up is not sent; one save at a time |
| Gateway panel: `gateway-status.tsx`, `two-factor.ts`, `main.connection_process` | busy, the question on the screen, the copy of the gateway; the lock and the guard of the API | every command, the countdown, the pushes | a login that can be approved is not cancelled by one who was not asked |
| Connections panel: `connections.tsx`, `main.update_connection` | cards with forms and boxes; the list | create, credentials, link, enable, remove, refresh | the list becomes the registry; one command a card |
| Frame of the dashboard: `dashboard.tsx` | user, view, accounts, currency | views, currency, the live effect | a total is of the currency it is labelled with; one socket |
| Bell and alert settings: `alert-bell.tsx`, `alerts-panel.tsx`, `main` `/alerts`, `/me/alerts` | rows, seen, newest, primed; settings, link code, polls | open, sound, save, link, unlink, poll | the rows are the last alerts, nothing old rings; the choice shown is the one stored |
| Day's P&L: `day-pnl.tsx`, `history.ts`, `GatewaySession.snapshots`, `main.intraday`, `main.daily_pnl` | samples in MongoDB; the accounts, assets and period picked; the answer on the screen, the live figures | sample, fetch, hear an account, pick | headline, list and lines agree, whatever is missing or late |
| Market clock: `market.ts`, `dashboard.tsx` | the clock | a tick | the market opens or closes when the countdown ends |
| Registry, provisioning: `connections.py`, `provisioning.py`, `hostctl.py` | connection documents, files, service units | create, update, delete, allocate port | ports and client ids are distinct |
| Authentication, tenancy: `auth.py`, `tenancy.py`, `main.login` | sessions and throttle counters in Redis | login, logout, switch tenant | a throttle ends |
| Reports, Flex, calendar, Telegram, migration, other charts and administration pages, deployment | documents, files | reading and formatting; idempotent upserts | not stateful, or see section 5 |

How they interact. The supervisor starts one session per connection and, per
tenant, one consumer and one dispatcher. A session writes Redis keys and appends
to the tenant's stream in one transaction. Three readers follow the stream: the
durable consumer and the dispatcher through consumer groups, the live sockets by
cursor. The API writes the registry the supervisor reads, and sends commands over
pub/sub. Several workers share Redis and MongoDB and know of each other only
through the lease keys. The browser fetches snapshots (TanStack Query), opens one
socket for the accounts it may see, applies its events to the cached rows and
fetches again what an event or a new subscription makes stale; its panels send one
command each and show what the next answer or event says.

What is hard: an error or a crash between any two calls of `persist`; a replay of
what was already written; a consumer name all workers share; leases that expire
while a coroutine is late; a queue that is full or lags behind the broker's
snapshots; a fault set while `live` waits for something else; a registry that
changes while `reconcile` waits; tasks that end unnoticed. In the browser:
answers, events and commands that cross each other; a fetch that is overtaken; a
socket that is replaced while it opens; filters whose options depend on each other;
a form that is removed while its input has the focus; figures of one total computed
along different ways. `hazards` in
`PROJECT.json` lists each at its line with the properties aimed at it.

## 2. The modules

| Module | Models | Proofs | Instances |
|---|---|---|---|
| `OrderLedger` | what durable order history promises (abstract) | | |
| `DurableStream` | publication, consumer group, `persist`, XACK, errors, crashes, trimming | `DurableStreamProofs` | `MCDurableStream` |
| `SessionLease` | two or more workers and one lease key, with time | `SessionLeaseProofs` | `MCSessionLease` |
| `GatewayFeed` | one gateway session from broker callback to Redis | `GatewayFeedProofs` | `MCGatewayFeed` |
| `Supervisor` | one worker's `reconcile` and the tasks it holds | `SupervisorProofs` | `MCSupervisor` |
| `GatewayAlerts` | the dispatcher's loop and its gateway alerts | `GatewayAlertsProofs` | `MCGatewayAlerts` |
| `Payoff` | `payoff.ts`: legs, values at and before expiry, curves, extremes | | |
| `RiskLenses` | `risk-lenses.ts`, `scenario-columns.ts`: groups, booked legs, columns | | |
| `RiskPanel` | the panel over both: every control, every change of its rows | `FigureProofs` | `MCFigures` |
| `Executions`, `DataTable`, `ExecutionsTable` | fills out of executions, the table all lists are shown in, the two composed | `FigureProofs` | `MCFigures` |
| `DayPnl` | the samples of the sessions, the answers of the API, the panel | `FigureProofs` | `MCFigures` |
| `MarketHours` | the countdown to the next opening or close | `FigureProofs` | `MCFigures` |
| `AccountName` | renaming an account in its row | `RequestProofs` | `MCPanels` |
| `GatewayPanel` | the panel, the guard of the API, the login of the gateway | `RequestProofs` | `MCPanels` |
| `QueryCache` | one query of the browser's cache; used by the next four | | |
| `Connections` | the list of connections, its cards, the registry | `RequestProofs` | `MCPanels` |
| `Shell` | who sees what, the currency, the life of the socket | `PanelsProofs` | `MCPanels` |
| `LiveCache` | cached rows, the events applied to them, the socket | `PanelsProofs` | `MCPanels` |
| `AlertBell`, `AlertsPanel` | the feed of alerts; the alert settings | `PanelsProofs`; `RequestProofs` | `MCPanels` |

Definitions called *Mutant* in a comment are variants of the definition that
follows: mistakes the properties must detect. They belong to no specification.

### DurableStream

`log` is everything ever appended; an event is its index, which stands for its
content, time and `event_id`. `trimmed`, `delivered` and `pel` are Redis's. Per
worker, `pc` is the await the consumer is at, `batch` what is left of the reply,
`torn` the entries that came back without fields because they were trimmed,
`pending` the flag that selects `"0"` or `">"`, `previous` and `provisional` the
documents found. All workers share one `pel` because all read as `"primary"`.

One action is one call to Redis or MongoDB. `Fail` is an exception after any call
(so before or after it took effect) and enters `Recover`, the except branch;
`Crash` is a process that dies or a consumer that is cancelled. Order documents
have two keys, provisional and by `perm_id`; `FindOrder`, `FindProvisional`,
`ReplaceOrder`, `DeleteProvisional` and `JournalOrder` are the calls of that branch
of `persist`. `SetState` is the `$set` of a gateway's or account's last writer.
The broker gives an order its `perm_id` once and does not take it back
(`PermIsKept`). `Publish` trims as `state.publish` does, acknowledged or not
(`event_stream_maxlen`, a million entries by default), although the README of the
repository says that the stream is not trimmed; what survives a trim is what
`OrderNeverRegresses`, `OneDocumentPerOrder` and `AckedIsDurable` say.

### SessionLease

A unit of time is the renewal period (5 s), so a lease of 20 s is `TTL = 4`.
`Tick` lets a unit pass; a worker's due step may be `MaxLag` units late. A
renewal that is on its way counts as late until Redis has executed it. `provider`
selects the `finally` of `GatewaySession.run`, which reads the lease, or that of
`SnapTradeSession.run`, which does not. `shown` is the gateway key, with its
author.

### GatewayFeed

`live` is one coroutine on one event loop: between two awaits nothing else runs,
so a step of `Live` is the code between two awaits, and callbacks and `process`
run between such steps. `phase` is the await `live` is at. An order is the number
of its version (the last is terminal), a fill is 1 when executed and 2 with its
commission, a position is held or not. Abstracted: the heartbeat request, the
account values and the `accounts.reconciled` event that share the queue (the phase
`check` is the put of the latter), accounts other than one, market data. A put
that finds the queue full waits in the phase `put`. The version comparison that
skips an unchanged order is kept where it matters, in the polls; a callback
always brings a new version.

External, taken from how the code uses it: while connected, the broker library's
cache holds the broker's positions and every change arrives as a callback;
`reqAllOpenOrders` lists the orders that are not terminal; `reqExecutions` lists
the day's fills.

### Supervisor

`registry` is what `registry.supervised` would answer, a document reduced to its
fingerprint. `Read` takes `wanted`; `Keep`, `End`, `Ended` go through the sessions,
`End` waiting for the session's task; `StartSessions` and `StartHelpers` are atomic
because the code between their awaits is. `running` counts the tasks that really
run, including one the dict has forgotten. `hold` is `restart_after` in rounds.
Not modelled: a document for which `build_session` returns nothing (an
unconfigured SnapTrade) or raises.

### GatewayAlerts

`status` is what the session of a gateway published last; `Follows` is what `live`
publishes after what. `stream`, `batch` are the entries the dispatcher's group has
not read, and has read. `memory`, `pending` are the fields of `AlertState`, `store`
the `alerted:gateway:` keys. One turn of `run` is `Read`, a `Sweep` for each pending
gateway, `Swept`, one of `Up`, `Same`, `Urgent`, `Debounce` for each entry, `Handled`.
`say` is the message `deliver` works on; `Abort` is the exception that ends a turn.
A login prompt is an entry with `prompt` (the phases of `LOGIN_ATTENTION`); CONNECTING
counts as RECONNECTING, which has the same class. `spell` and `upAge` are history.

What the model does not promise, because the code does not: a message whose delivery
raises is not sent again; a pending entry is reported as it began, even if the
gateway has gone from degraded to disconnected meanwhile. `Converges` says that
what is remembered follows in the end.

### Payoff, RiskLenses, RiskPanel

Money and prices are integers chosen so that the divisions of the code are exact; a
number that may be missing is a set of at most one. Black-Scholes and the normal
distribution are reduced to what the panel relies on: intrinsic value and a time
value that shrinks with the days and grows with the volatility. `modelGap`, the
anchor at the broker's mark, the extremes and the slopes are as in the code.
A price curve has the 240 samples of the code. Prices and money on it are counted in hundredths of
a sample, so that every sample is whole; the prices "just beside" a strike, a millionth of it away in
the code, are one such hundredth away. Break-evens, net credit and chance of profit, which are read off
the same curve, are left out. A beta the user types is 2 (none: 1); the page takes -5 to 5, and for one that is
not positive `buildPriceCurve` divides by 1 instead, so that the curve is not that of the price.
`RiskPanel` keeps in `book` what the last render computed from the rows, the clock
and the filters, so that an action reads what the user saw. The two `useEffect`s that
put a focus back are part of every action that renders (`Effects`). `held` changes
a position at a time; the booked legs arrive later than the selection that asks for
them (`Settling`). A booked leg counts when its account and expiry are ticked, whether or not its
underlying has an open leg: the filter by underlying has no control and is always all. `Table` and its figures are the functions of the rendered rows
that `lens-table.tsx` prints. The graphs and the ruler of strikes are drawing.

### Executions, DataTable, ExecutionsTable

A row of a table is what its filters, its order and its groups look at. `RowsChange` is a render
with other rows; the effect that drops a choice no row answers and the page that is
cut to the last one belong to it. `fills` is the memo of `ExecutionsTable`: it is
computed when the executions or the box change, not when time passes.

### DayPnl

`told` is what the worker's session last heard of each account, `samples` the documents of
`account_snapshots`, `live` the cached row the socket merges `account.updated` into, `answer`
what the cache has under the key of the present `Question`. `AnswerTo` computes the answer of a
moment from the samples of before, with `Daily` or `Intraday`. `SessionSamples` is one round of `snapshots`:
every account of the session, each write of which may fail, under one stamp. `Fetch` answers or
fails; another choice (`UsePanel`, `AssetsArrive`) is another query key, whose answer is missing, has failed
or is of any earlier moment. A failed fetch hides the chart, also when there was an answer. `listed` says whether the list of the assets in view is here:
until then a choice of assets counts as all, as `useSelection` has it. What the legs of an
asset earn does not change with time, so that failed writes of accounts and of assets are one
choice; all accounts are of one currency. `Value`, `Headline`, `CombinedLine`, `PointsFor` and
`CumulativeAt` are what the page prints and draws.

### MarketHours

`minute` is the browser's clock; `MarketState` is a function of it, with the minutes and days of
New York and the offset there. Days are numbered from a Monday; the tables of holidays and half
days are constants. One change of the clocks is modelled, to summer time.

### AccountName

`leaving` is a form removed while its input has the focus; browsers differ in
whether a blur is reported (`NoBlur`). `skipSave` and `savingRef` are the refs.

### GatewayPanel

The panel has a copy (`doc`) of the gateway, published by the live socket; a command
carries what its sender was asked. The API serves a command in the three steps between which it
waits: `PassGuard` reads the log and refuses (`Blocked`) when a two-factor request is open with more than the
grace time left and the command has no force; `TakeLock` is the lock of one command of a kind within
five seconds; `Execute` is the call of the host after the audit, or its failure. The gateway moves
between any two of them. `saw` is the last request there was at the guard. `State` is `evaluate` of
`gateway_login.py`, which reads the log, and `NextLogins` the order in which its phases follow on each other;
the gateway itself is external.

### Connections

A card is its busy flag, its form, its confirm box and its link. A command is
carried out by the API, answered, and followed by the list fetched anew; a failure
of the list shows an error in place of the cards, which unmounts them. Commands of
other administrators, lost answers and failed fetches are troubles, two at most.

### Shell and LiveCache

A connector is one call of `connectLive`; the effect that depends on the accounts
stops the old one and starts another. `LiveCache` follows one kind of rows: events
are replaced, merged or removed as `applyEvent` does, counted rows refetch the
accounts, and a subscription invalidates everything. The API's cursor starts
behind what is already in the stream when the socket subscribes. `OrdersReconciled` is the snapshot of
`poll_orders`; an order that has moved without an event before it counts as a fault.

### AlertBell and AlertsPanel

Alerts are numbered; the answer of `/alerts` is what the durable consumer has put
into MongoDB, the socket has the stream. `overtaken` and `strayed` name the orders
in which the bell cannot know better. In `AlertsPanel` saves, an unlinking, link codes and
polls are calls that overlap; `crossed` and `astray` record what the panel cannot
make good, and the properties are about behaviours without it. What happens there
is listed in section 3.

## 3. Runs

| Run | Question | Result |
|---|---|---|
| `DurableStream` | safety of one worker's durable path, every kind of event, with trimming | holds |
| `DurableLedger` | refinement of `OrderLedger` with its liveness, and every event acknowledged | holds |
| `LeaseInTime` | exclusion, no displacement, service resumes | holds |
| `LeaseLate` | a loss concerns no other session, gateway provider, any lag | holds |
| `FeedOrders` | order stream, faults and open orders, in Redis and in the stream, with a full queue | holds |
| `FeedPrompt` | fills and positions with a queue that drains | holds |
| `Supervisor` | sessions and helpers follow the registry | holds |
| `SupervisorConsumer` | every served tenant is consumed | **violated** |
| `GatewayAlerts` | once per outage, no blips, what lasts is told | holds |
| `Figures` | the parts that compute: totals, extremes, filters, pages, lines, countdowns | holds (138,409 states, 2 min) |
| `RowsAddUp` | the lines of the table add up in every column of every view | **violated** |
| `Panels` | the seven interactive parts, every order of clicks, answers and events | holds (2,429,997 states, 2 to 4 min) |

`Figures` (four parts) and `Panels` (seven) put parts side by side. A behaviour
follows one of them, chosen in `Init`, and leaves the others as they were opened, so
states add up instead of multiplying; of the states of `Panels` the gateway panel has
about 355,000, the connections 640,000, the frame 282,000, the cached rows 586,000,
the bell 402,000, the alert settings 173,000, the name of an account 2,700.
In the code the panels meet in two places. The message "subscribed" invalidates every query of the
browser, and the model of each panel that has one handles the message for its own. The query keys of
the alert settings and of the bell's feed both begin with `alerts`, so an unlinking refetches the feed
too; the model of the bell has refetches at other times, and this one is not among them.

What the violations show (quotes in `findings` of `PROJECT.json`):

- *Dead consumer.* A consumer that cannot create its group is never replaced.
- *Booked legs twice.* With no group focused, `payoff-panel.tsx:371` takes nothing
  off the scenario columns although the curve has been shifted by the booked legs:
  the line of the open legs has them, and so has their own line. `TableAddsUp` is
  what does hold: the MTM column of every view, and the scenario columns of a focused one.

Eight more configurations are kept beside the runs; each ends in a counterexample:

- `PushIsGuarded.cfg` (module `GatewayPanel`). The README of the repository (268-273) says that without
  force no command stops or restarts the gateway while a two-factor request has more than the grace time
  left. `connection_process` reads the log (`main.py:613`), then waits for Redis and MongoDB (621, 531-533)
  and only then calls the host (625): a request made in between is cancelled with all its time left.
  `NoSilentCancel` is what does hold: a request that was there when the guard looked is cancelled only by
  one who was asked.
- `SmallShort.cfg` (module `MCFigures`), `StatsAreExtremes`. "Lowest expiry P&L anywhere from a price of zero
  up past the highest strike" (`strategy-payoff.tsx:374`): one share short of a stock at 100 falls over the
  last sample by 0.79, less than the 1 that `strategyStats` allows for rounding (`payoff.ts:412`, `430`), so
  Max loss is the finite value at the end of the range. `StatsInReach` is what does hold: where the
  slope over a sample is more than the tolerance.
- `DurableTwoWorkers.cfg`, `OrderNeverRegresses`. The README of the repository calls
  two workers safe because of the lease. The lease covers sessions only; both consume
  each tenant's stream as the same consumer and `replace_one` is unconditional.
- `LeaseSnapTrade.cfg`, `LossStopsNoOther`. A SnapTrade session that lost its lease
  reports DISCONNECTED over the session that took it.
- `FeedFillLost.cfg`, `FillsReachStream`. `fill_value` records a version whose event
  the full queue refused, and no resynchronization forgets recorded fills.
- `OnlineIsStreaming.cfg` (module `MCPanels`). The button says that the gateway "is logged in and the
  worker is streaming" (`gateway-status.tsx:102`), but an open API port counts as
  online whatever the worker's link says (line 52), so that the branch which offers
  to reconnect the worker (132-138) is not reached while the port is open.
- `CombinedIsDrawn.cfg` (module `MCFigures`). "The combined line adds every account that reports a
  figure" (`day-pnl.tsx:613`): of accounts served by two sessions it draws nothing, for
  `intraday` keeps only stamps every account has and each session stamps with its own clock.
- `SignIsAlwaysKept.cfg` (module `MCFigures`). On the evening before a weekend or a holiday the sign
  reads "Global, closes in" until the next trading day's morning, and at midnight it
  reads "Closed". On a Sunday it counts down to 20:15,
  when nothing opens, because Sunday is no trading day.

What the models of the browser showed besides, and their properties leave out by
name (`overtaken`, `strayed`, `crossed`, `astray`, `gaveWay`, `upset`, `SameLegs`,
`Stale`), because the code does not provide for it:

- Max profit and max loss are read off 241 samples from 95 % below the spot to 95 % above. A strike
  outside is not seen, nor is the last slope one of a strike above the last sample but one
  (`StatsAreExtremes` is the unrestricted property; `StatsInReach`, which holds, names the reach,
  `InReach`: every strike from the lowest sample up to below the last but one, and a slope beyond them
  that over one sample exceeds the tolerance). The warning above the table is
  about all that is modelled of an underlying: a row in focus can be uncapped without being in
  it, when stock outside of the row covers it.
- A view by expiry focused on one underlying counts the booked legs of all of them.
- When all that is ticked in one filter is gone the filter counts as all, while the options
  of the others are still computed from what is ticked: nothing may be left to show.
- An answer read before an event and delivered after it takes the event back; nothing
  refetches by time, although `dashboard.tsx` and the repository's README speak of REST snapshots
  every 15 s. The first fetch of a query is not started again by a subscription.
- An alert streamed while the line was down but not yet in MongoDB is missing from the
  refetch. When more alerts come late than the feed keeps, newer rows are pushed out.
- `gateway.updated` of any connection is merged into the primary one's copy.
- The `onclose` of a replaced socket takes LIVE away after the new one has subscribed.
- Saves of alert settings that overlap lose one; an unlinking answered on another tab while a
  fetch is under way, and a link code on a tab that is left, are lost.
- After Escape in a browser that reports no blur `skipSave` stays set and swallows the next
  save. A form left untouched writes the old name back over another administrator's.
- A confirm box of the gateway panel stays after its request has ended and then cancels the next.
- A list of connections whose command got no answer, or whose first answer was under way
  when a connection was created, stays old; an error takes busy cards down and a second
  command can be sent for the same connection.
- Fills that expire while the table is open stay until the executions change.

### Bounds, and why they are enough

- `MaxEvents = 4`, `MaxFaults = 2`, `BatchSize = 2` (DurableStream): an order needs
  one event without `perm_id`, two with it and one event of something else between;
  a batch of two leaves a second entry to be interrupted; two faults let a replay be
  interrupted too. `MaxLen = 2` trims entries that are pending or unread; 9, in the other
  two runs, is no trimming.
- `TTL = 4`, `RenewEvery = 1` are the code's 20 s and 5 s. `MaxLag = 2` is the
  largest lag with `RenewEvery + MaxLag < TTL`, 5 lets a lease expire and be taken
  before the late worker runs. Three to five sessions a worker, up to three faults.
- `MaxQueue = 1` in `FeedOrders` makes every second event overflow and every
  snapshot wait; 7 in `FeedPrompt` holds all a heartbeat can queue with three
  changes at the broker. `Terminal = 3`: open, changed, done. `MaxChanges = 3`,
  one or two faults: a change before, during and after an outage.
- `GatewayAlerts`: one gateway, `Grace = 2`, two unread entries, three changes of class,
  two faults: trouble, another trouble and recovery, a batch that loses an entry, a
  restart after that. Gateways share only the batch; the proofs are for any number.
- `Figures`: four positions of two accounts in one currency, two expiries and three underlyings: a
  short call, a long put, a call without a price, a stock; two days; three booked legs, of open
  and closed contracts, one of an underlying that may have no open leg; one
  click of the user after each set of rows, two of the table's. A figure depends on one
  state, and rows in every order reach every state one click away. Pages of two fills.
- `Figures`, day's P&L: two accounts, one with two assets, two samples a day over two days, the
  panel's day one sample later than the API's (`ZoneLag`), `MaxNews = 2` reports of the broker or
  failed writes and `MaxPnlUses = 2` choices, two of both together (`MaxTogether`): a sample
  missing before, between and after others, a choice made stale by another. Market clock: 20
  days (`LastMinute`) in steps of five minutes with a holiday, a half day and a change of the clocks;
  every time of the tables is a multiple of five.
- `Panels`: two commands in flight or one after the other, two pushes and a timeout of two with a
  grace of one, three moments (`LastMoment = 2`), so that a first request expires and a second one is
  new when it does; a link that is down or attaching, for a button depends on more only while the port
  is open; three names; one registered gateway and one SnapTrade to create, two troubles;
  two accounts, two roles, two changes; two contracts, an order that gets its `perm_id`,
  three changes and a fault; three alerts over a feed of two; two channels, two saves, an
  unlinking, one change of tab. Each hazard needs two actors crossing once.
- Two connections of one tenant, two fingerprints, two changes, two faults,
  `Backoff = 2` rounds (6 in the code; what counts is that it is more than one).

Counters are bounded by the guards that name `MaxEvents`, `MaxChanges`,
`MaxSessions`, `MaxFaults`, `MaxClicks`, `MaxUses`, `MaxTurns`, `MaxCommands`, `MaxEdits`,
`MaxIssued`, `MaxTroubles`, `MaxRaised`, `MaxLineFaults`, `MaxPosts`, `MaxTabs`, `MaxRefused`,
`LastTick`, `LastMoment`, `MaxPushes`, `MaxNews`, `MaxPnlUses`, `MaxTogether`, `LastMinute`. `CHECK_DEADLOCK FALSE` where the bounds let a model
come to rest: a consumer with nothing to read, workers whose sessions are used up,
panels whose user has clicked all there is to click.

### Fairness, and why the code justifies it

- `DurableStream`: weak fairness of each consumer. It loops for ever, every error
  returns to the loop, and a worker that exits is started again by its service unit.
  Nothing makes sessions publish or things fail.
- `SessionLease`: time passes; the supervisor starts what is wanted in every round; a
  coroutine whose await is done is scheduled.
- `GatewayFeed`: `live` and `process` go on, because every broker request has a timeout
  and Redis answers or the session ends. The broker, faults and commands are free.
  `PromptSpec` adds an assumption about timing, named `Drained`: the queue is empty
  when `live` begins a heartbeat or a connection. Between the two lie seconds and
  milliseconds. Without it `NoGhost` does not hold: `sync` looks at rows that do not
  contain what is still queued, and a position closed during the outage is shown
  again.
- `Supervisor`: `supervise` loops for ever, a cancelled session runs its `finally`, a
  task that is created runs.
- `GatewayAlerts`: the loop survives every error, time passes, and a session publishes
  its status with every heartbeat and every attempt, for as long as it lives.
- The models of the browser state no fairness. That a list follows, that gaps are recovered
  and that settings settle is said of the states in which nothing is on its way any more
  (`ListFollows`, `GapsRecovered`, `BellSettles`, `SettingsSettle`): answers may never come,
  and then the code promises nothing.

## 4. Proofs

TLAPS (SMT, Zenon, PTL) checks every leaf. None assumes a bound on the number of
orders, events, workers, faults, clicks or rows.

- `DurableStreamProofs`. `TypeCorrect` for any workers. With one worker
  (`Workers = {w}`; the run `DurableTwoWorkers` shows that more is false):
  `HistoryMovesForward`, `FillsStand`, `NoGhostDocument`. The inductive invariant
  says that the entry at work is the oldest one not acknowledged, so every document
  shows an event no newer than that one, and that what `previous` and `provisional`
  hold is what the documents say: none of the three properties is inductive without it.
  `AcknowledgedIsWritten` proves `AckedIsDurable`: besides the above, for each call of
  `persist` what the calls before it have written is still there, so that an entry at its
  XACK is written, and later entries only replace it by newer ones.
  `HistoryImplementsLedger` proves the safety part of `ImplementsLedger` (`Ledger!Safety`), assuming
  `MaxEvents <= MaxLen`, that is no trimming: the entry at work is the oldest one not
  acknowledged and those before it are written, so replacing the document is the ledger's
  step to the next event of that order, a replay leaves it as it is, and deleting the provisional
  document hides nothing the perm document does not show.
  `PendingIsReadAgain` proves `NothingStranded` for any workers. It is inductive with one more
  fact (`HandsEmpty`): between two turns a worker holds nothing, so the flag alone decides what it reads.
- `SessionLeaseProofs`. `LeaseIsExclusive` and `HolderStays` assume
  `InTime == RenewEvery + MaxLag < TTL`. The invariant (`Countdown`) says that a
  session at work holds the key, and that the key's remaining time is at least
  the `TTL` minus the time since its renewal, which is bounded by the renewal
  period and the lag. `LossIsSilent` needs no timing: a gateway session that
  noticed its loss can never again find its token under the key. `OrphansRunOut`
  (`OrphanRunsOut`) needs none either: only a session at work passes the test of `RENEW`, and its
  own key is then no orphan; and nobody acquires, or comes to be at work, while there is a key.
- `GatewayFeedProofs`. `OrdersInOrder`: order events are queued at the version the
  broker is at, so versions in the queue are sorted (`Sorted`), between the published
  one and the broker's (`Bounded`). The lemma `LiveExtends` shows it of every step
  of `live`, including snapshots and dropped events. `FeedTypeCorrect` includes that
  the queue never exceeds its size. `NoGhosts` (`NoGhost`, under the timing assumption
  `Drained` of `PromptSpec`): the invariant `RowsInv` says, for each phase of `live` between
  faults, which contracts may still be shown once the queue is worked off (`WillShow`): those the
  broker holds, and until `sync` has checked its rows those it is about to take away.
  `OpenOrdersAreSent` (`OpenOrdersSent`) needs no such assumption. While a session is connected and
  without fault a version it has recorded is queued or published (`SeenIsInHand`); from its first poll
  on every open order is recorded (`OpenIsSeen`); and a session that connects anew has recorded
  nothing (`Fresh`), so what changed while it was away is news to the next poll.
- `SupervisorProofs`. `SessionsDoNotOverlap` rests on `Counted`, which ties the
  tasks that run to what the dict says of them; `ConsumerOutlivesSessions` on the
  served tenants being those of the reading that started the sessions. `RoundsServe`
  (`RoundServes`) follows one round: what it has looked at and kept is what it has read (`Round`), what
  it starts is missing, and a connection that waits has no task (`Counted`). It is the safety
  that `ServesRegistry` builds on.
- `GatewayAlertsProofs`. `OutageToldOnce` and `BlipsAreSilent`, for any number of gateways.
  The invariant (`Remembered`, `IsNews`) says that what was told in a spell is what
  Redis holds, so a restart recalls it; that a gateway with something pending has
  been told nothing since its last change; and that a pending entry is no older than
  the time since the gateway was up. Neither property is inductive without them.
- `RequestProofs`, the panels that send requests.
  - Name of an account: `GivenUpIsNotSent`, `RenamesFollowEachOther`. At most one rename is
    under way and `saving` tells so; a form being left after Escape has `skipSave` set or has
    nothing that would be sent.
  - Gateway panel: `CommandsFollowEachOther`: a command under way is a busy panel.
    `NoLoginIsCancelledUnasked` (`NoSilentCancel`): a request with more than the grace time left is
    cancelled by a command whose sender was asked about one, or by one that had passed the guard before
    that request was made. That a command without force which did see it at the guard still cancels it is
    impossible because time only runs against the request: what the guard let through then
    has no more than the grace time left now.
    `GuardRefusesOnlyNews` (`RefusedIsNews`, not in a run): the API refuses only what the
    panel could not know yet.
  - Connections: `OneCommandEach`, `TheListFollows` (`ListFollows`). A command keeps its card busy
    for as long as the row is there, and a row once removed does not come back under its id; the
    last answer, or the one on its way, is the registry unless something has changed that the
    panel will still read, so that at rest only a change nobody told it of (`overtaken`,
    `strayed`) can be missing.
  - Alert settings: `TheSettingsSettle` (`SettingsSettle`). What a tab shows is what was stored
    when its query was answered, and whatever changes it afterwards has an answer on its way or
    is named by `crossed` or `astray`.
- `PanelsProofs`.
  - Frame: `OneSocketAtATime` rests on every connector but one being stopped and on
    LIVE being owed to a socket that has not closed; `TotalsAreOfOneCurrency` on the accounts
    being a grant, of finitely many currencies.
  - Bell: `TheBellSettles`: the rows are the alerts heard since the last answer on top of
    those of the answer, so they are the latest of the feed in its order, without a gap,
    unless one streamed before it was in MongoDB. `OldStaysQuiet`: what was looked at and what was
    there at the first answer lies behind `seen` and `newest` in that order, and stays there.
  - Live rows: `GapsAreRecovered`: the log of events from the cursor of a socket on, applied
    to the rows, gives the rows of the server, or a fetch that will give them is
    owed; the counts on the tabs likewise.
  - `EveryPanelBehaves`: a behaviour of `MCPanels` is one of each panel, so that the theorems
    above hold there, `NoSecondRequestIsSent` and the types of all seven (`PanelsTypeCorrect`) among them.
- `FigureProofs`, what the dashboard computes. `FiguresHold` says of `MCFigures` what the others say
  of each part.
  - Market sign: `SignHolds` (`SignIsKept`). The clocks change in the night to a Sunday, so they
    stand still over a trading day before another, and within it the sign is a table of five rows by
    the minute of the day.
  - Pay-off panel: `TickedHolds` (`TickedIsShown`). Whatever changes what the book is computed from
    renders it again (`BookIsFresh`), and what a render does with the ticks is a fact about one
    render. `EstimateHolds` (`EstimateMeetsMark`). Besides, the rows held are of the pool and what
    the user typed are numbers (`PanelInv`); every figure on the way to an estimate, the implied
    volatilities and their median included, is then a number, and the gap to the mark is whole at
    once and nothing at expiry. `LinesSumUp` (`TableAddsUp`). The invariant (`LensInv`) adds that the
    focus is on everything or on one group, and that the columns are made of finitely many percentages
    and prices. No two columns are then of one move (`NaturalAre`), so that the place the user gave and
    the size of the move order them totally, and each is listed once. The three lines are sums over the
    same booked legs: the adjustment is what they made plus the commission not shown apart
    (`ChangeIs`, `PartsAre`), and that of a row in focus is of the booked legs of its group
    (`RowOfGroup`). What is not in it is the other half of `RowsAddUp`: without a focus the
    scenario columns do count the booked legs twice.
    `StatsHold` (`StatsInReach`). What a leg settles at turns at its strike only, so what several do is
    straight between two strikes, and its extremes over all prices are at zero, at a strike, or
    above them all, where the slope decides. Within the reach (`InReach`) the strikes are among the prices
    drawn; below the lowest the first slope is that of the legs, whole, so that the value read off it at
    zero is exact; the last two prices are samples, one `Gap` apart, with every strike below both, so that their
    rise is the slope times the gap, and more than the tolerance unless it is zero.
    A slope that falls comes of stocks and calls, and the warning adds up no more than
    those of the same underlying.
  - Executions: `FillsHold` (`FillsPartition`). What was received is of what was sent, one execution
    of an id, with or without its commission (`ReceivedInv`). A fill is the class of its lead; the
    classes are disjoint, and the net premium is a sum over their parts. The library adds a set up in an
    order it chooses; that the order does not matter and that sums over disjoint parts
    add up (`TotalOfParts`) is proved first, each by taking a smallest set for which it fails.
  - Day's profit and loss: `PnlHolds` (`PnlAddsUp`). The samples are of one account and moment each and
    every figure heard has its moment (`WorkerFine`), and what the cache holds is an answer to the choice
    that is made (`PanelFine`): the rows of such an answer are of one account and moment, or of one account
    and day, and its combined points are sums over them (`AnswerFine`). Sums by account are then
    sums over disjoint parts, and a line lists its points by their place in time (`Places`, `LineIs`), so
    that its end is the latest figure, and the one the socket brought once it is added (`ExtendIs`).
  - Table: `TableHolds` (`TableShowsAll`). Every render that drops a choice leaves fewer, so after as
    many renders as there are facets what is left is answered by some row
    (`SettledIsAnswered`, and `Answered` is the invariant). Rows are ordered totally, by a number and
    then by their id, so their ranks are the places from 0 on, each place is on one page and each
    row in one run; under the first column a run is what has one label, because the label is the day
    of that column.

What the proofs assume of the constants is what TLC evaluates before each run. Most of it says
that something is finite or a number. The rest: an answer of the feed is no longer than what the bell
keeps (`BellAssumption`; 50 and 200 in the code); the sign is computed again within a quarter of an hour
(`HoursAssumption`; every second in the code); the clocks change on a Sunday; a page has a row or
more; an execution is known by its id, of which the order is only the beginning, and there is one row
of a combo in an order (`SentAssumption`: the numbering of the broker, which `groupFills` relies on);
a price that is typed as a column is positive, as `parsePriceLevels` and `canAddPrice` see to, and no less
than a hundredth of any price of the pool, for moves are whole percentages here and a smaller one
would be rounded to -100, at which no curve is drawn (`RiskAssumption`).

Proved and not in a run: the type invariants (`TypeOK`, and `PanelsTypeOK` of the panels together), and
the safety that three liveness properties of the runs build on, `NothingStranded` (`EveryEventAcked`),
`OrphanRunsOut` (`ServedAgain`) and `RoundServes` (`ServesRegistry`). They hold on the instances of
`DurableStream.cfg`, `LeaseLate.cfg`, `Supervisor.cfg` and `Panels.cfg` too, named there as invariants
(`OrphanRunsOut` as a property).

Only model-checked: every liveness property (`EveryEventAcked`, the liveness in `ImplementsLedger`,
`ServedAgain`, `FaultForcesResync`, `OpenOrdersShown`, `FillsReachStream`, `ServesRegistry`,
`Converges`). It needs fairness and ENABLED, outside this prover's reach. No invariant and no action
property of a run is left without a theorem; for the properties that need one worker, the gateway
provider, a renewal in time or a queue that drains the theorem says so among its assumptions, as above.

## 5. Not modelled

Left out, though stateful; none changes what the models of the other parts say:

1. The rest of the dispatcher: `once`, `underlying_moved` with its anchors and bands,
   `settle_risk`, `risk_changed`, `announce_events`; the arithmetic of `alerts.py`.
2. `accounts.reconciled` of several connections and the accounts they share; positions that
   open while `sync` waits.
3. `broker_error`, `farm_recovered`, `publish_gateway` and the status of a stale heartbeat.
4. The SnapTrade poll, the sample archive, the poll lock of the login watcher, the allocation
   of ports, the login throttle, the migration.
5. `GatewayFeed` composed with `DurableStream`: what an order that ends during an
   outage leaves in MongoDB.

Not modelled because there is no protocol in it: HTTP handlers that read and format,
parsers (Flex XML, FOMC HTML, IBC logs), files and `systemctl`, encryption, price
fetching, the pages that fetch once and draw (performance, skew, diagnostics), the forms with one request (members, tenants, sign-in), columns, widths and wording
of the tables, and graphs. A tab whose tenant was switched in another tab is outside: the
models have one tab of one tenant.
