# SteamBee in TLA+

SteamBee keeps Steam accounts logged on, reports games to Steam on a schedule,
farms trading cards and sells inventory items. It is one Node process with a
SQLite database. This directory holds the TLA+ modules of its server
(`src/apps/server/src`; all paths below are relative to it unless they start
with `src/`) and of three parts of its browser application, the TLC configurations that check
them on small instances, and the theorems that TLAPS proves about them for every
value of the constants.

Contents: [the system](#the-system), [the plan](#the-plan),
[SteamWorker](#steamworker), [CardFarming](#cardfarming),
[MarketSales](#marketsales), [ScheduleWindows](#schedulewindows),
[BoostSessions](#boostsessions), [Notifications](#notifications),
[DataGuard and DataDirectory](#dataguard-and-datadirectory), [SignIn](#signin),
[InventoryPrices and MarketMoney](#inventoryprices-and-marketmoney),
[BatchPage](#batchpage),
[what is proved](#what-is-proved),
[findings](#findings), [what is not modelled](#what-is-not-modelled).

To check a model: `tlc -config MCSteamWorker.cfg SteamWorker.tla` (the module of
each configuration is in the tables below); to check the proofs:
`tlapm SteamWorkerProofs.tla`, and so for the other `...Proofs` modules, each of
which takes between one and fifteen minutes. `PROJECT.json` lists the runs, a mutant of the
code for every property, the source lines behind every definition, the findings,
the hazards and the theorems.

## The system

### Components

| Component | State it keeps | Operations | What makes it correct |
|---|---|---|---|
| Steam worker (`steam/worker.ts`, one per account) | desired state, status, connection, retry timers, conflict counters, farming selection, reported games; row and health row in the database | start, stop, pause, resume, update, farming selection, safety disconnect, library import; events of the Steam client; two retry timers | a running account is always on its way to a session; a pause is final until someone asks; what is shown is what Steam shows |
| Account operations (`steam/manager.ts`, `account-operation-state.ts`) | a queue of operations per account, contexts, `pauseUntil` timers, draining | every command above, deletion, start of the process, shutdown | operations of one account never overlap; nothing starts after the drain |
| Card farming (`farming/`, `http/routes/farming.ts`) | session phase, generation, timer, active games, credited playtime; resume row | start, stop, scan, change of rules, ticks, resume at login | one invocation drives the session; what is stopped stays stopped; rules are followed |
| Market sales (`inventory/service.ts`, `batch.ts`) | lock per account, single-use previews, batches, remembered submissions, epochs | previews, confirmations, batches, cancellations, settings | one copy always stays; nothing is sold twice; a stop is heeded; rows tell the truth |
| Market prices (`inventory/money.ts`, `price-*.ts`) | caches | quotes, overviews | fees add up; no price outside the limits |
| Schedules (`steam/schedule*.ts`) | window markers in rows, active windows and back-offs in memory | one tick per minute, manual skip | a window is started once, is stopped, survives restarts; holds win |
| Safety (`steam/safety-coordinator.ts`, `operations-repository.ts`, `boost-session-tracker.ts`) | caps, holds with their owner, boost sessions | tick, pause-until, resume | a cap pauses and never starts; a hold is released only to its owner |
| Community sessions (`steam/community-session.ts`) | one cached web session, one pending request | get, accept, discard, invalidate | nobody waits for ever; a session never outlives its connection |
| Sign-in and tokens (`steam/login.ts`, `repository.ts`) | QR records with a phase; encrypted tokens | QR and credential login, expiry, token renewal | a login is persisted once; an old token never replaces a newer one |
| Notifications (`notifications/dispatcher.ts`) | outbox rows, rule revisions, failure counters | enqueue, reconcile, drain, deliver, fail | at least once, at most three attempts, never under another revision |
| Data guard (`instance-lease.ts`, `startup.ts`, `restore.ts`) | guard file with owner and restore fence; staged and rolled-back files | acquire, release, restore, install, roll back | one owner; never a mixture of two databases |
| Administrator (`auth/`) | administrator row, sessions, setup token | setup, login, logout | one administrator |
| Events, discovery, HTTP, database, utilities, web application | see `PROJECT.json` | presentation, parsing, storage | |

### How they interact

- Every operation on an account, every event of its Steam client and every timer
  that fires is an entry in the account's queue (`runAccountOperation`,
  `runSerial`); the schedule and safety ticks enter the same queue.
- A status that is neither online nor boosting halts farming by a callback at
  once, in the middle of the operation that set it (`handleWorkerStatus`).
- Farming and market work run outside the queue and enter it for the moments at
  which they touch the worker. They guard themselves by a generation
  (`FarmingController.isCurrent`) or an epoch (`captureGuard`), which the
  commands of the manager raise before they are queued.
- A status, a hold, a window marker or a token reaches the database by one
  statement or one transaction; the process may end between any two of them.

### What is hard

Node has one thread, so there are no data races, but every `await` is a place
where everything else may happen. The hard behaviours are: events and timers of
an intention that has been given up; two reports of one loss; a user's command
that overtakes queued work; answers that are lost after Steam acted; a crash or a
restart between two steps; retry timers that two handlers set and clear. The
`hazards` of `PROJECT.json` name each at its line, with the properties that
catch it.

## The plan

| Order | Module | Models | Abstract promise, theorems |
|---|---|---|---|
| 1 (done) | `SteamWorker` | one account's worker, queue, timers and Steam client | its six safety properties, proved |
| 2 (done) | `CardFarming` | the controller over the queue and the badge pages | types, `SteamFollowsSession`, `OneAdvance`, proved |
| 3 (done) | `MarketSales` | previews, confirmations and batches over Steam's market | types, `RowsAreTrue`, `OneCopyStays`, `SoldOnceAsReviewed`, proved while no restart forgets a sale |
| 4 (done) | `ScheduleWindows` | ticks, markers, skips, back-off, holds, timed pauses, the pause of a cap, restarts | types, `WindowsAgree`, `TicksRespectUsers`, `TimedPauseEnds`, proved |
| 5 (done) | `DataGuard`, `DataDirectory` | the lease, the fence, install and rollback; abstract: one owner, who finds one whole database | types, `PreviousIsKept` and the refinement of `DataDirectory`, proved |
| 6 (done) | `Notifications` | outbox, attempts, revisions, circuit breaker, crashes | types and `RecordsAreKept`, proved |
| 7 (done) | `SignIn` | the administrator, QR and password logins, the token's compare-and-swap, the dialog | types, `OneAdministrator`, `LoginsAreTrue`, proved |
| 8 (done) | `InventoryPrices`, `MarketMoney` | estimates and their contexts in server and browser; fees, bounds and rules against a definition by search | types, `OneBasis`, `OneRepair`; the exactness of the search and the limits, proved |
| 9 (done) | `BoostSessions` | what statuses open and close, stamps, crashes, the arithmetic of caps and their pause | types and `TimeIsCounted`, proved |
| 10 (done) | `BatchPage` | the page that follows a batch: requests, reads and polls that are lost, late or overtaken | types and `PageIsTrue`, proved |
| 11 (open) | `AccountSession` | an abstract account (wanted, on, quiet) that `SteamWorker` implements, and that `CardFarming`'s `account` and `worker` abstract | refinement by `INSTANCE ... WITH` |

`CardFarming`, `ScheduleWindows`, `BoostSessions` and `SignIn` each carry a small
abstraction of the worker that `SteamWorker` describes in full; item 11 is to make
that relation a checked one. The modules are written to be proved about:
constants with assumptions, helpers as functions of a record, one action per
operation, no recursive operator.

## SteamWorker

### State and actions

| Model | Code |
|---|---|
| `w` | the fields of `SteamWorker`, the account's row (`desired`, `status`), its health row, and the steam-user client (`client`, `playing`) |
| `queue`, `importing` | the account's queue; a library import is the one operation that waits for the network while it holds the queue |
| `phase` | the process: up, quiescing or down |
| `elsewhere` | another session of the user plays on the account |
| `lapses` | history: why an account may be without a way forward that this module promises otherwise |

Each `Run...` action is one queued operation, with all it calls; `Command` and
`ServiceRequest` queue one (an HTTP command halts farming first), the
`...TimerFires` actions queue a callback, and the actions of group `Steam` are
what the client does. An operation is one step because it awaits only the
synchronous database. Every entry carries the bit `live`: whether the intent
generation (or, for farming, the controller's) has stayed what it was.

Abstractions: delays and `reconnectAttempt` are dropped, a timer that is armed
may fire; the conflict counter saturates at 3, the cooldown's threshold; whether
the row has a token, a hold exists, farming will resume or any game is selected
is open at each use; a database write fails only where the code has a fallback
(the safety pause); the change of an account whose row disagrees with memory and
`enforceGameLimit`'s errors are left out. Of steam-user the module assumes what
the code and its patch assume: a second `logOn` is refused, `logOff` of a live
client is followed by `disconnected`, a loss is reported by `error`, by
`disconnected` or by both.

### Runs

| Run | Configuration | Bounds | Shows |
|---|---|---|---|
| `worker` | `MCSteamWorker.cfg` | two waiting entries, all requests; 788,763 states | the seven properties below |

Two waiting entries let a command overtake a timer or an event that waits behind
an import; three were checked once (14.6 million states) without a new
behaviour.

- `RecoveryArmed`: an idle account that should run has a session, a login under
  way or a timer. `lapses` names the exceptions: no token, a hold at the start, a
  safety pause that failed, and the first two of the [observations](#findings)
  below. Of those two the property says nothing: it holds of every other chain of
  losses, refusals and commands, and it does not catch what they describe.
- `OneRetryTimer`: back-off and conflict timer exclude each other.
- `PausedIsQuiet`: a paused or stopped account shows no games.
- `LateEventsAreHarmless`: no timer and no event takes an account out of a pause,
  and a handled conflict is not replaced by the second report of a loss.
- `GamesAreShown`: what is played is what the selection says, nothing is played
  over another session except by a retry that waits for its answer, and what the
  server shows is what is played.

`RecoversWhenSteamAccepts` assumes `Fairness`: the queue is served (Node's event
loop); of the timers that are due again and again some fires; and of the answers
that a client waits for (a login accepted, a logOn turned down, a goodbye ended) some
comes: Steam may fail logins for as long as it likes, but
not for ever. The last two need strong fairness because a conflict or a command
disables them in between.

## CardFarming

### State and actions

| Model | Code |
|---|---|
| `f` | the controller: `phase`, `timer`, `active` (`activeAppIds`), `seen` (the last scan), `warm` (two hours credited), `applied`, the resume row, the invocations that wait in the queue (`queue`) or for badge pages (`waiting`) |
| `config`, `left`, `polling` | saved rules; what still drops; a request that waits for the resumed account |
| `account`, `worker` | what the manager answers: connected, away or paused; the worker's selection and what Steam shows |
| `wanted`, `lag`, `slips` | history: nothing has ended the session for good; the rules changed during an apply; what was overtaken |

`start`, `advance` and `scan` are cut where they wait: `Started` queues `begin`,
`RunBegin` asks for badge pages, `ScanReturns` selects and queues `apply`,
`RunApply` sets the timer, `Tick` begins again. Each continuation asks for its
generation first, which is the bit `live`. `Halt`, `CleanUp`, `Fail` and
`Complete` are the controller's functions of these names or lines. A scan needs no
farming to be allowed: without a connection it waits, or refuses at once and leaves
the phase "error". A status that is not online halts a scan as well (`SessionLost`).

Abstractions: playtime is the bit "two hours", credited by ticks; the order among
equal games, card prices and the limit on page numbers are open; a hold appears
as a refused tick; events and logins are handled when the queue is empty.

### Runs

`farming` (`MCCardFarming`, 252,517 states): two games, one of them recent, rules
that exclude or pin one, two invocations or operations waiting at a time. Two
games are enough for a selection to change from one to another, and to run a
single one or both; two waiting calls let every call be overtaken.

- `OneAdvance`: one invocation, or the timer, drives the session, and no
  superseded one makes Steam play a game.
- `SteamFollowsSession`: between two ticks Steam shows what the session says, and
  no excluded or protected game (`lag` excepts rules that were changed while a
  selection was applied: the comment at `farming/controller.ts:188-189`, that an
  advance under way reads the new settings itself, does not hold at that moment;
  the next tick follows). What ended for good holds neither the account nor a
  resume row. `slips` names two exceptions: a scan that overtakes a stop (an
  observation below) or the clean-up of a failed session, and a start request that
  polls after `resumeForFarming` (`http/routes/farming.ts:88-96`)
  and takes its intention from after its wait, so that it overtakes a later stop.
- `FarmingEnds`: interrupted farming comes back with the next login, and farming
  ends; liveness under `Fairness`: the queue and badge requests end; ticks come,
  credit playtime and rescan; a game that is played drops its cards; the account
  can log on again. Strong fairness, because saving rules disables the tick for a
  moment; the code resumes farming only at a login, so the first part starts from
  "away", and a scan counts as active.

## MarketSales

### State and actions

| Model | Code |
|---|---|
| `steam` | Steam: copies owned, listed, still shown though listed, asked for and not decided, and cancellations not decided |
| `submitted` | `submitted`: what this process has sent, with the stack's size before |
| `intents`, `prepared` | single previews and the batch preview, each with the rules it was made under |
| `job` | the batch: rows, `active`, `stopRequested` |
| `tasks` | the account's lock: its holder (the head, with the step it has reached) and those who wait |
| `rules`, `quiet` | saved settings as a version; history: stopped and nothing previewed since |

A sale is five steps: `Review` (the token is used up, all is read again),
`Turn` (the account's queue; the submission is remembered), `Send` (the web
session has come), Steam's `DecideSale`, and `Accepted`, `Rejected` or
`AnswerLost`; a cancellation also looks again (`Verify`). `NextRow` and
`FinishBatch` are the loop of `batch.ts`. Between any two steps a user may stop
the batch or the account, save, preview, or confirm, and Steam may settle what
was sent earlier.

Abstractions: all assets hold copies of one item, since the rule "one copy stays"
is per item; quotes, wallets and page errors are a failure that may happen to
any review; preview and review read everything in one step; a batch that has
finished is not kept for display; a preview may expire at any time; the hour
after which a batch stops is a `StopBatch`; the inventory page loads and releases
in one step (`Refresh`): what it loaded may be older in the code, which matters
only if copies return to the same asset in between.

### Runs

| Run | Configuration | Bounds | Shows |
|---|---|---|---|
| `market` | `MCMarketSales.cfg` | a stack of two and a single copy, batches of one or two rows, two requests in the lock, rules saved once; 1,424,426 states | the properties below |
| `market_restart` | `MCMarketSalesRestart.cfg` | as above, a restart before Steam has settled | the finding |

Three copies in two assets are the least with which a part of a stack, a whole
asset and the copy to keep can all be sold. Deadlock is checked.

- `OneCopyStays`: copies not taken by a listing or by a request that Steam may
  still grant never fall below one, whatever answers are lost.
- `SoldOnceAsReviewed`: no asset is offered while an earlier offer may succeed
  (`NeverSoldTwice`); after a stop of the account nothing is sent until something is
  previewed anew; a sale is sent under the rules that were saved when it was
  reviewed and still are, and they do not change under a running batch
  (`SoldAsReviewed`).
- `RowsAreTrue`: a skipped row was never sent, a listed one was; after a row of
  unknown fate the batch sends nothing.

Only safety is claimed: a batch that waits for Steam ends by time-outs that the
module turns into `AnswerLost`.

## ScheduleWindows

### State and actions

| Model | Code |
|---|---|
| `now` | the minute; `Advance` is the clock |
| `db` | the account's rows: schedules with their markers (`started`, `stopped`), skipped windows, desired state, hold with its end and owner, `attention` (recovery needs the operator) |
| `mem` | what is lost with the process: `active` (`activeWindows`), `failed` (`failedTransitions`), the timer of a timed pause and its callback when it waits (`late`) |
| `ticks` | the minute of the tick in flight and of the one that follows it (`trailingTickAt`) |
| `run` | history: who made the account run, `covered` and `astray` (below) |

`RequestTick` is the interval, `RunTick` the transition of the account in one
tick, `Boot` the reconciliation in `init` and `Exit` a crash or a shutdown. A tick
has four possible deeds (`did`): it does nothing visible, starts, pauses, or is
broken off when the account runs and its window is not yet marked. Every entry of
the account's queue is one step, because all that touches the account or its
schedules, the routes included, runs in that queue. A tick keeps the minute of
its request: commands, other ticks and the end of a window may come before it.

Abstractions: one account, in UTC, with days of a few minutes; the caps' arithmetic
is an `EnforceCap` that may come whenever the account runs; the check for a hold after the preset
is left out, since none can appear within a queued operation, and so is the
comparison of `updated_at`, which queued edits cannot fail; a failed preset and a
failed start are one outcome; a crash between start and marker is the outcome
"broken" followed by `Exit`; owners of unknown kind (old rows) are left out; one
callback of a timed pause waits at a time. The count of failures saturates where
the delay reaches its limit, and the last minute stands for all later time.

### Runs

| Run | Configuration | Bounds | Shows |
|---|---|---|---|
| `schedules` | `MCScheduleWindows.cfg` | two schedules, five minutes across a midnight, one change of a schedule, pauses of two minutes; 1,799,111 states | the type invariant and three safety properties |
| `schedules_live` | `MCScheduleWindowsLive.cfg` | as above with one schedule; 226,947 states | `RunEnds` |

The plans are an overnight window and a window of one minute in its midst, on the
days of a week of two: they overlap, take over from each other, and time begins before both
and goes on after both. Two schedules are the least for a winner, and one change is
enough to edit, disable, delete or skip either of them at any moment.

- `WindowsAgree`: the windows marked open and the window in memory are one at
  most.
- `TicksRespectUsers`: a tick starts the account only for a window that is not
  open, so what a user stops stays off until another window begins; what a user
  starts while no window is open is not paused by a tick unless a window has been
  opened since (`covered` says that one was open or remembered; the code then
  pauses the user's run when it is over); and a skipped window, which the preview
  names, is never opened by the evaluation, which computes it otherwise. Days have
  equal lengths here: the changes of a time zone's clock are not modelled.
- `TimedPauseEnds`: a timed pause has its timer while the process runs, although
  many commands clear timers; and when it ends it does not bring back an account
  which a schedule made run, when no window is under way. `astray` excepts a start
  that was not marked (an observation below) and a schedule that was deleted, from
  `RunEnds` as well: neither property catches an account left running in this way.
- `RunEnds`: an account that a window made run is paused after it, through failed
  pauses, changes and restarts, unless a hold or a user comes first. It assumes
  `Fairness`: the clock, the interval and the queue go on, a process that ended is
  started again, and a pause that is retried for ever succeeds once. Strong
  fairness, because crashes interrupt ticks and the back-off disables the pause.

## BoostSessions

### State and actions

| Model | Code |
|---|---|
| `row`, `caps` | the account's status (boosting or not), desired state and hold; its caps |
| `plays`, `queue` | what the worker reported last; the account's queue: statuses, pauses, resumes and the pause of a cap |
| `rows`, `opening` | the table of boost sessions; a session that replaces one that is closed already, between the two writes |
| `phase`, `now` | the process; an instant |
| `since`, `stamp`, `known` | history: when the account began to play, when its session was last written, the instants in which it played and those that crashes lost |

`Report` is an event of the worker, `ProcessStatus` and `OpenSession` are
`trackBoostSession` in the account's queue, `Heartbeat` stamps open sessions,
`Tick` is the first half of `tickNow` and `RunOperation` the second, which
computes the cap again for the instant of the tick. `Crash` may fall between the
hold and the pause, and between the two writes of a replacement; `Boot` closes
what was left open. `Continuous`, `Overlap` and `Exceeded` are the arithmetic of
the caps.

Abstractions: one account; days of three instants and weeks of two days; the
games and the preset of a session are one value; no two statuses are processed in
one instant; a pause that fails is a matter of `SteamWorker`.

### Run

`boost` (`MCBoostSessions`): four instants across a midnight, two things
to play, two operations waiting, caps on sessions and weeks or on days, changed
at any time; 801,102 states. A session that is replaced once and a day that ends
within a session need four instants.

- `TimeIsCounted`: the rows hold exactly the instants in which the account
  played, none twice, but for what a crash lost after the last stamp; and what
  the cap of a session counts goes on through changes of games and begins anew
  after everything else.
- `CapsAreEnforced`: an account over its cap does not stay so, whatever waits in
  its queue. `Fairness`: the queue is worked off and the interval of the ticks
  goes on; strongly, because statuses and pauses disable the tick in between.
- `TypeOK` holds the invariant of the table: one session is open at most, none
  while one is replaced.

## Notifications

### State and actions

| Model | Code |
|---|---|
| `rule` | `notification_rule`: revision, whether it listens, the event it starts after, failures and suspension |
| `stored`, `last`, `matches` | `steam_event`: what has not expired, the newest, and which rules an event matches |
| `row` | `notification_delivery`, by rule and event |
| `timer`, `drain`, `wire` | `retryTimer`, `drainInFlight` with what it still has to deliver, and the webhook on the wire as it was read |
| `phase` | up, stopping, down |
| `answers`, `exits` | history: what was recorded of each row, how often the process ended |

`RecordEvent`, `CleanupRetainedEvents` and the routes change rows and rules at any
moment; `TimerFires`, `Deliver`, `EndDrain` and `DrainFails` are the drain; a
webhook is accepted, fails or is aborted, and a webhook that was accepted may still
be recorded as failed, when the write of its rule throws after that of its row; in
`AnswerFails` the writes of a failure throw too, which ends the drain; `Stop`, `Exit`
and `Boot` are the process, and the `...CutOff` actions are crashes between two
writes.

Abstractions: whether an event matches a rule is a set; a delay is a state from
which it becomes due; more than five failures change nothing; the addresses that
are refused, the target's decryption and the content of a webhook are failures;
browser rules are rules that do not listen.

### Run

`notifications` (`MCNotifications`): one rule saved up to twice, two events, three
attempts, a batch of one and two ends of the process; 113,854 states. Rules only meet in the
drain, which takes one row after the other; two events make one wait there.

- `RecordsAreKept`: no row outlives the revision it was made for, and an answer
  changes only what belongs to the revision it was sent under (`EditIsBoundary`);
  no webhook is sent after its delivery or its third failure was recorded
  (`TriesAreBounded`), unless a failure is recorded in the delivery's place (an
  observation below).
- `EventuallySettled`: a stored event that a rule listens to is delivered or given
  up. `Fairness`: timers fire, a request ends within eight seconds, waits end, a
  process that ended is started again, and the database fails neither every drain
  nor every record of an answer (strong fairness of `Deliver` and of the answers).

## DataGuard and DataDirectory

### State and actions

`DataDirectory` is the promise of `src/docs/OPERATIONS.md` for operators: one process
owns the data directory; who uses the database owns the directory and finds one
whole database, which stays what it is; a replacement that was begun is settled
before anyone owns the directory again. `DataGuard` is what the code does:

| Model | Code |
|---|---|
| `pc`, `open` | where servers (`index.ts`, `startup.ts`) and restores (`restore.ts`) are; which have the database open |
| `lock`, `fence` | the lock of the operating system on the guard, which ends with its process, and the fence in its row, which does not |
| `data`, `staging`, `rollback`, `dirs` | the files of the directory and of the two directories beside it, by the version of the database to which they belong |
| `unmerged`, `made` | commits that are in the write-ahead log; versions made so far |
| `safe` | `safeToClearFence` |
| `prior`, `last` | history: what the last restore found; what was last used or settled |

A restore stages, moves file after file aside (`MoveAside`), moves the staged ones
in (`Install`), verifies, and undoes all of it file after file when a step
fails. Every step may fail and every process may die between any two, the steps
of the undoing included. `Recover` is the operator who follows the documentation.

Abstractions: a database is its version; index and journal are one file with the
log; the backup's format, its password and its checks are failures of the staging.

### Run

`dataguard` (`MCDataGuard`): two servers, two restores, five versions.

- `DirectoryIsGuarded`: `DataGuard` implements `DataDirectory` under the mapping
  `owner <- lock`, `user` the server that is open, `content` the database if the
  files belong together and `Torn` if not, `before <- last`.
- `PreviousIsKept`: every file of the database that a restore found is in place
  or aside until an operator removes it.

Only safety: after a crash the fence stays until a person acts.

## SignIn

### State and actions

| Model | Code |
|---|---|
| `hashing`, `accepted`, `admin`, `activeToken` | setups under way, the administrator, the setup token (`auth/service.ts`, `setup-token.ts`) |
| `qr` | `qrLogins`: phase and state of each (`steam/login.ts`) |
| `cred` | logins by password, with the callers that wait to store the token (`persistPromise`) |
| `row`, `worker`, `newest`, `renewals` | the account with its token, the connection with the token it uses, Steam's view, and `credentialQueue` |
| `library`, `signed` | the automatic import and the last event of each login's account |
| `dialog`, `answers` | `useAddAccountFlow.ts`: the flow that is shown and the answers on their way |

Abstractions: tokens are numbered renewals of a login; one account; a failed
validation is a refusal; a start that finds the account gone fails; faults
(lost answers, disconnects, failed writes, crashes, deletions, a token file that
cannot be removed) share a bound.

### Run

`signin` (`MCSignIn`): two setups, one QR login and one login by password in either
order, one renewal, one fault. A second login is enough for a late renewal or a
late answer of the first.

- `OneAdministrator`: at most one setup is told that it was accepted, and with an
  administrator no setup token is left to use, also over restarts. None is told when
  the token's file cannot be removed: the administrator exists then nevertheless.
- `LoginsAreTrue`: the row holds the newest token of the login stored last
  (`TokenIsNewest`); a login that is reported as expired was not stored, one
  reported as signed in was, and the dialog ends with what happened to the login
  it shows (`SignInIsTold`).
- `LoginsEnd`: QR logins are forgotten, and a dialog that waits for an import
  ends. `Fairness`: the ten minutes and the clean-up pass, starts settle, logons
  and imports end, polls are sent and answered.

## InventoryPrices and MarketMoney

### State and actions

| Model | Code |
|---|---|
| `rules`, `wallet` | what is saved and what Steam has |
| `login`, `context`, `cache`, `flights` | the server: `epochs`, `contexts`, the wallets it remembers and those it reads (`price-overview.ts`, `price-reader.ts`) |
| `req` | the request that the browser waits for, at the server and on its way back |
| `panel`, `refresh`, `shown` | `InventoryPanel.tsx`: the rules it has, a refresh under way, the page |
| `records`, `hook` | `useInventoryPrices.ts`: what each card shows; its refs, cooldown and repair |

A request that the browser gave up goes on at the server, in its `flights`, and
its answer is ignored. `Pump` is the timer, `TakeAnswer` all that the hook does
with an answer: rows, other rules, another wallet, an expired context.

`MarketMoney` has the arithmetic of `money.ts` as operators: units, fees,
`QuoteFromBuyerCap` with its search by halves as a recursive function, and
`QuoteWithRules` with the limits and the adjustment.

Abstractions: a price is the pair of rules and wallet it was made for; whether a
card is priced or limited is open; the slots of the reader and its cache of
prices are left out, since an answer may come at any time; parsing is a failure.

### Run

`prices` (`MCInventoryPrices`): two cards, two reads of the wallet at a time and two
changes (of rules, wallet, login or context); and five wallets, three fees, 101
references and 48 sets of rules for the arithmetic. 406,374 states.

- `OneBasis`: all estimates on the page have one basis, the panel's rules and one
  wallet; the server neither remembers nor answers with the wallet of an earlier
  login.
- `PricesSettle`: an expired context is repaired once between two reads
  (`OneRepair`), and no visible card waits for ever. `Fairness`: requests end and are answered, the
  cooldown ends, the timer fires.
- `QuotesAreBest`: the search finds the highest share that fits (compared with a
  search of all), and what is offered keeps the user's limits.

## BatchPage

### State and actions

| Model | Code |
|---|---|
| `jobs`, `token` | the server's batches in the order of their confirmation, and whether it still takes the page's preview (`batch.ts`) |
| `page` | `preview`, `job` with `currentJob`, and `needsRecovery` of `useBatchMarket.ts` |
| `act` | the request that holds `lock`, at the server or on its way back |
| `reads`, `poll` | reads of the active batch and the poll under way, with their answers |
| `history` | whether the preview was sent, and became the batch that runs |

`Begin` is the head of `perform`: it starts a new epoch, after which earlier reads
and polls are not current, so they are dropped. `ServeAct`, `ServeRead` and
`ServePoll` are the routes; `TakeConfirmed`, `TakeStopped`, `TakeRead` and `TakePoll`
are `updateJob` with `mergeJob`; `Fails` is the catch of `perform`, after a refusal
or a lost answer. `StartedElsewhere` and `StoppedElsewhere` are other pages of the
user and the account's stop; `Restart` forgets all batches, as a login does that
gives the page another session; `Open` is another account or a reload.

Abstractions: a row is sent or skipped, and who is to blame for the end of a batch
is open (`MarketSales` has the rows); a preview may be asked for while one is shown,
which a refusal leaves as it is; a batch is the answer of its last change; a
clock that stands still is possible, so times may be equal; a read can be tried
again whenever none is under way; messages, counters and the focus of dialogs are
left out, and so is the refresh of the inventory when a batch is first shown as over.

### Run

`batchpage` (`MCBatchPage`): two batches, the first of two rows and with two times;
632,112 states. Two rows are the least with a pause between them, and two batches
the least for an earlier one to come back.

- `PageIsTrue`: what is shown of a batch has happened at the server, an end with
  no open rows included (`ShownHappened`); a batch that the page confirmed and that
  runs is shown, or the page waits for the answer or is locked until it has looked
  (`OwnIsFound`); nothing that was shown is taken back and no earlier batch returns
  (`NoStepBack`); no preview is sent twice (`SentOnce`). A confirmation that reaches
  the server only after the page has looked counts as a batch started elsewhere:
  the page shows it when it looks again.
- `ShownEnds`: no batch is shown as running for ever, over restarts too. `Fairness`:
  a batch goes on (its rows and pauses end), the interval polls, and of infinitely
  many polls some are answered (strong fairness of `ServePoll` and `TakePoll`, since
  clicks and losses disable single ones).

## What is proved

TLC checks each property on the instance of its run. The theorems below hold for
every value of the constants that the named assumptions allow. All rest on the
same argument: an invariant that is stronger than the property, because it also
says what is under way (queued operations, requests, answers, files half moved),
is shown to hold at first and to survive every action; the property follows
from it by `PTL`. Each proof module states its invariant as a conjunction of
named parts and has lemmas for the helpers, then for the operations, then one
step per action.

| Module | Theorems | About, and for which constants |
|---|---|---|
| `SteamWorkerProofs` | `TypeCorrect`, `OneRetryTimerHolds`, `PausedIsQuietHolds`, `LateEventsAreHarmlessHolds`, `RecoveryArmedHolds`, `GamesAreShownHolds` | `SteamWorker`; any queue bound, any requests (`MaxQueueAssumption`, `RequestsAssumption`) |
| `CardFarmingProofs` | `TypeCorrect`, `SteamFollowsSessionHolds`, `OneAdvanceHolds` | `CardFarming`; any finite set of games, any rules and limits (`ConstantsAssumption`) |
| `MarketSalesProofs` | `TypeCorrect`, `RowsAreTrueHolds`, `OneCopyStaysHolds`, `SoldOnceAsReviewedHolds` | `MarketSales`; any assets, copies and baskets (`ConstantsAssumption`); the last two with `~MayForget` |
| `SafetyProofs` | `TypeCorrect`, `WindowsAgreeHolds`, `TicksRespectUsersHolds`, `TimedPauseEndsHolds` | `ScheduleWindows`; any schedules, plans, days and weeks (`ConstantsAssumption`, `NoneAssumption`) |
| | `SessionsTypeCorrect`, `TimeIsCountedHolds` | `BoostSessions`; any games, caps and instants (`BoostAssumption`, `NoneAssumption`) |
| `NotificationsProofs` | `TypeCorrect`, `RecordsAreKeptHolds` | `Notifications`; any rules, events, revisions, attempts and exits (`BoundsAssumption`) |
| `DataGuardProofs` | `TypeCorrect`, `PreviousIsKeptHolds`, `DirectoryIsGuardedHolds` | `DataGuard`; any servers, restores and versions (`ProcessesAssumption`) |
| `SignInProofs` | `TypeCorrect`, `OneAdministratorHolds`, `LoginsAreTrueHolds` | `SignIn`; any setups, logins, renewals and faults (`BoundsAssumption`, `NoneAssumption`) |
| `InventoryPanelProofs` | `TypeCorrect`, `PageIsTrueHolds` | `BatchPage`; any batches, rows and times (`ConstantsAssumption`, `NoneAssumption`) |
| | `PricesTypeCorrect`, `OneBasisHolds`, `OneRepairHolds` | `InventoryPrices`; any cards, reads and changes (`BoundsAssumption`, `NoneAssumption`) |
| | `SearchIsExactHolds`, `LimitsAreKeptHolds` | `MarketMoney`; any wallets, fees, prices and rules (`MoneyAssumption`) |

The assumptions say what the code's types say: bounds are natural numbers, rules
have the fields of their schemas, restores and servers are different processes.
`NoneAssumption` says that `None`, the code's null, is none of the values it
stands apart from. `MoneyAssumption` is what `parseWallet`, `parseRate` and the
settings schema (`inventory/settings.ts:12-18`) let through. `SafetyProofs` and
`InventoryPanelProofs` take their second module by `INSTANCE`, so its assumptions
are hypotheses of the theorems; the runs evaluate them.

### The invariants and why they are needed

- **`SteamWorker`**: `PausedIsQuiet` and `RecoveryArmed` speak of an idle queue.
  While operations wait, the client may be on, a loss may be on its way, an
  import may be running. `IInv` says what the worker of an account that should
  not run can be like meanwhile. `RInv` says why there is a way forward: a
  session that is believed in exists or its loss is in the queue (`Reachable`,
  `LossIsLast`), a client that waits gets an answer that is heard (`Answered`,
  `LoginFirst`), a conflict is kept until its timer or its end is heard
  (`ConflictKept`, `FreeIsHeard`), and what waits still to run, not only what is,
  is a way forward (`Hope`). `GInv` does the same for the games: those that are
  shown and those that are played agree, or the operation or the answer that
  will settle it is under way. `LateEventsAreHarmless` needs no invariant beyond
  `IInv`: each stale entry is shown to leave the worker still.
- **`CardFarming`**: at most one invocation is current, in the queue or waiting for
  badge pages, and none while the timer runs (`OneDrives`); each kind of
  invocation finds the session and the worker as it left them (`QueueDrives`,
  `WaitingDrives`, `TimerDrives`); what is no longer wanted has its end in the
  queue. `OneAdvance` follows from the first part, `SteamFollowsSession` needs all.
- **`MarketSales`**: every row at work has its task, every task that has sent
  something is remembered in `submitted`, and what is remembered covers all that
  Steam may still take (`RowsAtWork`, `Remembered`). Copies are counted as pairs
  of an asset and a number, so the total follows from a subset and needs no
  induction over a sum. The part `Remembered` holds as long as no restart
  forgets an undecided sale; the run `market_restart` shows that without it the
  theorem is false.
- **`ScheduleWindows`**: the windows that the rows hold open and the one that the
  memory holds are the same one (`Alone`), and tie to it what made the account
  run (`Uncovered`, `Marked`, `Owned`). Every outcome of a tick, broken off ones
  included, is shown to be faithful to what the tick found
  (`TransitionIsFaithful`), and the action properties rest on that.
- **`BoostSessions`**: the rows are in order and do not overlap (`InOrder`), and
  hold the instants played up to the last stamp and no others (`Counts`).
  `Continuous` is a recursive function, which TLA+ defines by a `CHOOSE`: the
  proof gives the solution explicitly and shows that there is no other. That a
  cap's sum of overlaps is the number of instants played rests on a bijection.
- **`Notifications`**: a row is one of a stored event after the last save of its
  rule (`Bounded`), the attempts it shows are those that were recorded
  (`Counted`), and the webhook on the wire and the drain's list, which are older
  than the rows, are no further than they (`Listed`, `Sending`).
- **`DataGuard`**: each step of a restore determines which files are where
  (`Phases`, `Replacing`); the fence covers every state in which they may not
  belong together, also after a crash (`Fenced`, `Settled`). With it every step
  maps to a step of `DataDirectory` or to a stutter, so the refinement is proved
  and not only checked.
- **`SignIn`**: what a phase says of a login agrees with what was stored of it
  (`QrTrue`, `CredTrue`), and every answer on its way to the dialog was true when it
  was given and cannot be taken back (`AnswersTrue`, `Pending`). For
  `TokenIsNewest`, a renewal that waits carries a token of its connection, in
  order (`Renewed`).
- **`BatchPage`**: what every answer under way says of a batch was true of it
  once (`AnswersHappened`, `Polled`, `Requested`). That stays so whatever the
  server does (`Grows`), and merging two such pictures gives such a picture.
  `OwnIsFound` needs to know which reads are current while a confirmation is
  under way (none, `Confirming`) and after it.
- **`InventoryPrices`**: a request, and a read of the wallet it may have joined,
  carry only what is current (`WalletsAreCurrent`), and the cards shown as asked
  for are those of the request (`AskedFor`).
- **`MarketMoney`**: no behaviours, but arithmetic. Fees do not fall when the
  share grows, in spite of their minimum and of the rounding to the grid
  (`FeeGrows`); so one step of the search by halves keeps the highest share that
  fits (`HalfIs`), and the function it defines, whose only solution is found by
  a least counterexample on the size of the range (`SearchFinds`), returns it.

### What is only model-checked

The liveness properties, which need fairness and are out of the prover's reach:
`RecoversWhenSteamAccepts`, `FarmingEnds`, `RunEnds`, `EventuallySettled`,
`LoginsEnd`, `CapsAreEnforced`, `ShownEnds` and that no visible card waits for ever
(the second half of `PricesSettle`). All other properties of the runs are proved,
`QuotesAreBest` as the two theorems on `MarketMoney`. No theorem says that the
modules' bounds (of retries, changes and faults) are the code's: they are
parameters of the theorems.

## Findings

One has a run that is expected to find a violation; `PROJECT.json` quotes the
text it contradicts.

- `market_restart`: after a restart, copies that are leaving count as copies to
  keep (`inventory/service.ts:183`).

Observations that have no run of their own:

- A crash while the row says "connecting" leaves an account that no start logs
  on, since a start finds it connecting already (`steam/worker.ts:296`), although
  `src/docs/OPERATIONS.md:92` says that eligible accounts begin a fresh cycle
  immediately after a restart. The lapse `boot` excepts it from `RecoveryArmed`:
  without that exception TLC finds start, crash, boot and the ignored start.
- An event that was emitted before a command changed the intention is dropped,
  even when it was a real loss (`steam/worker.ts:756`): the worker then believes
  in a session that is gone until the next command. The lapse `ignored` excepts
  it from `RecoveryArmed`.
- A scan requested while the stop of a starting session waits brings the resume
  row of the stopped session back (`farming/controller.ts:174`), against
  `src/docs/STEAM-TOOLS.md:223-224`. `slips` excepts it from `SteamFollowsSession`.
- A request to start farming on a paused account resumes the account before it asks
  whether a scan is under way (`http/routes/farming.ts:79-98`): it is refused then,
  and the account stays resumed with an empty selection.
- A scan that is under way when the account logs on counts as active, so interrupted
  farming is not resumed by that login (`farming/service.ts:236-250`).
- When the write of a rule's health throws after a webhook was accepted, its row is
  written over as failed and the webhook is sent again
  (`notifications/dispatcher.ts:287-313`).
- The dialog that signs an account in again waits for an import that only an
  account without a library gets (`useAddAccountFlow.ts:342`,
  `auto-library-importer.ts:31-37`), so it shows "importing" for ever;
  `LoginsEnd` speaks of imports that are still to come.
- An account that a schedule started just before a crash is logged on after its
  window is over, since no row says so (`steam/schedule-coordinator.ts:329`): the
  bit `astray`.
- A conflict that is reported to a paused account arms a retry and publishes it
  (`registerSessionConflict` does not ask for the desired state), although
  `src/docs/OPERATIONS.md:90` says that such transitions clear the retry state;
  `LateEventsAreHarmless` shows that the retry starts nothing.
- A batch that ends before a lost confirmation is looked for is not found, since
  only active batches are read (`useBatchMarket.ts:124`): the panel is unlocked and
  shows neither the batch nor its outcome.
- A manual pause inside a window leaves the window marked open in its row, so a
  user who resumes the account hours later, outside all windows, finds it paused
  by the next tick (the bit `covered` of `ScheduleWindows`).

## What is not modelled

About half of the application's lines are the browser's: markup, eleven
languages, styling and formatting, and hooks that show what they load. They keep
no state that another component relies on, and their properties are about
wording and layout; the three hooks whose answers race are modelled (`SignIn`,
`InventoryPrices`, `BatchPage`).

On the server the parsing of Steam's pages (badges, card sets, order books, the
store), the encrypted backup format, cryptography, migrations, logging, redaction
and the presentation over HTTP are left out: they have no steps that interleave,
and what they return is open or a failure in the modules. So are Community web
sessions (a shared promise with a time-out; `MarketSales` waits for it in `Send`),
the de-duplication of status events, libraries and presets (one transaction
each) and the sessions of the administrator. `PROJECT.json` lists each component
with its reason.
