# TLA+ models of fpr-backend

fpr-backend is a Go service that publishes the value of one investment fund.
It scrapes the management company's page, polls two price providers, keeps
everything the public reads in RAM, writes it to PostgreSQL first, and pushes
an event to every connected viewer when something changed. This directory
holds TLA+ models of the parts where order, concurrency and failure decide
whether that works, the TLC runs that check them, and TLAPS proofs of what
matters most, for every size of the system.

Paths below are relative to `src/`; `fund/service.go` is short for
`src/internal/fund/service.go`.

## 1. Inventory

| Part | State it keeps | Operations | Works with |
|---|---|---|---|
| Application state (`appstate/state.go`) | an atomic pointer to an immutable State; a write mutex | Initialize, Load (lock free), Update (reads, transaction and publication under the mutex) | everybody |
| Prices and sources (`prices/`) | `instrument_price_sources`, `instrument_prices`, intraday points, daily series, historical prices; PriceState in RAM | price syncs (MOEX securities, MOEX fund unit, Yahoo), history sync, two source discoveries, SetPriceSource, Start | appstate, providers, jobs |
| Fund (`fund/`) | `fund_snapshots`, `fund_daily_values`, instruments and composition; FundState in RAM | EnsureInitialized, SyncManagementCompany; read-only views | appstate, managementcompany |
| FX (`fx/`) | USD/RUB rates; FXState in RAM | Start, SyncUSDRUB, HistoricalUSDRUB | appstate, moex |
| Live valuation (`valuation/`) | baselines per snapshot; ValuationState in RAM | Start, Refresh, Recalculate | appstate, prices, fx |
| Job manager (`scheduler/`) | the running flags in RAM, `scheduler_job_runs` | cron runs, RunNow, finish, recovery from panics | jobs, hub |
| Scheduled jobs (`schedulerjobs/`) | none | one function per job: sync, publish, recalculate, publish | all services, hub |
| Diagnostics (`diagnostics/`) | none | a report on runs, market data and state | reads only |
| Realtime hub (`realtime/hub.go`) | revision, clients, one bounded channel each | Publish, Close, the websocket handler | jobs, job manager, admin routes |
| Providers (`providers/moex`, `yahoo`, `managementcompany`) | MOEX board cache, Yahoo proxy list of one run | quotes, history, resolution of symbols, page parsing | called by the services |
| Authentication (`auth/`) | sessions in RAM | login, logout, check | routes |
| Lifecycle (`cmd/fpr/main.go`, `app/app.go`, `routes/run.go`, `deps/`, `migrate/`, `config/`) | connections, the HTTP server | start fund, prices, FX, valuation, scheduler in this order; stop scheduler, then hub | all |
| Value helpers (`decimal/`, `dateonly/`, `currency/`, `validationrules/`) | none | pure conversions | all |

How they interact. A job's goroutine calls one service. The service reads the
published State, talks to a provider with **no lock held** (seconds to
minutes), and then calls `appstate.Update`, which takes the write mutex, runs
a database transaction that re-reads part of what was read before, and
publishes the new State if the commit was acknowledged. The job then publishes
an event through the hub, asks the valuation to recalculate, and publishes
again. Source discoveries are the exception: their transaction runs outside
the mutex, because nothing in RAM depends on it directly.

What is hard here, and what makes each part correct:

- **Prices.** What a sync read is old when it is applied: the composition, the
  set of enabled sources, and their symbols may have changed. Answers arrive
  late and out of order. Two transactions may create sources for one
  instrument. Correct means: RAM has the durable price of every enabled source;
  prices never go back in time; only securities of the fund are priced; one
  source per instrument is enabled; a price is for the symbol of its source.
- **Fund.** The page may be corrected, may go back, may lag; versions of one
  date are all kept, and only a window of the history may be rewritten. Correct
  means: RAM is what a restart would load, snapshot and history agree, fixed
  history stays fixed.
- **Job manager.** Cron, administrators and failing statements race for a
  per-job flag, and the order of unlock, finish and event decides what viewers
  are left with. Correct means: one run per job, no job locked for good,
  viewers told when what they see is over.
- **Hub.** A slow viewer must be dropped whole: a gap in the middle is
  invisible to it. Correct means: no send on a closed channel, and every viewer
  gets a gap-free stream until its connection ends.
- **Valuation.** A baseline is asked of a provider with no lock held, and the
  snapshot, the source, its symbol and other callers' results move meanwhile.
  Correct means: a stored baseline is of the symbol its source has, RAM has what
  is stored, and the live value is the one of the current inputs once every
  recalculation that is due has succeeded.
- **Fund unit.** RAM and the table are cut to 48 hours at different moments, and
  the daily history is read page by page while the exchange changes it. Correct
  means: the chart and the history viewers get are what is stored, and the
  history has no hole.
- **Jobs together.** A job publishes after it has given the write lock back, so
  events may be published in another order than the changes were made. Correct
  means: viewers end with what RAM has, but for the races the properties name.
- **MOEX.** A security moves between boards, callers overwrite each other's
  cache entries, and a quote has a date or a time or neither. Correct means: a
  price is asked on a board of the day, a moved security is found, and its last
  trade is not taken for stale.
- **Yahoo.** Proxies stop in the middle of a run. Correct means: a request that
  failed is never taken for a symbol without a price, and a run gives up only
  when each of its proxies has failed.
- **FX.** The rate in RAM is the stored one and never goes back.
- **Lifecycle.** A signal comes at any time, while requests are read and runs
  create their rows. Correct means: scheduled runs end in their rows, but for
  those the database fails, and in viewers' sight, and the process ends.

`PROJECT.json` lists every component with what is and is not modelled of it
(`components`), and every hazard at its line with the properties that cover it
(`hazards`).

## 2. Modules

| Module | Models | Its MC module and configurations | Proofs |
|---|---|---|---|
| `PriceSources` | sources, current prices, their copy in RAM | `MCPriceSources`: `MCPriceSources.cfg`, `MCPriceCacheView.cfg`, `MCPriceTwoSources.cfg`; `MCProgress` | `PriceSourcesProofs` |
| `FundSync` | snapshots, daily history, their copy in RAM | `MCFundSync`: `MCFundSync.cfg`, `MCFundVersions.cfg` | `FundSyncProofs` |
| `Scheduler` | the job manager and what viewers were shown | `MCScheduler`: `MCScheduler.cfg`, `MCSchedulerPartial.cfg` | `SchedulerProofs` |
| `Hub` | the realtime hub and the websocket handlers | `MCHub`: `MCHub.cfg` | `HubProofs` |
| `Valuation` | baselines and the live value, over the inputs they depend on | `MCValuation`: `MCValuation.cfg`, `MCValuationRestart.cfg` | `ValuationProofs` |
| `EventFeed` | what the hub promises a connection; abstract | through `Hub` | `HubProofs` |
| `JobEvents` | what viewers see of all jobs and of the administrator together | `MCProgress` | `ProgressProofs` |
| `PricePoints` | the fund unit's quote and its intraday points | `MCMarket` | `MarketProofs` |
| `DailyHistory` | the fund unit's daily prices, read page by page | `MCMarket` | `DailyHistoryProofs` |
| `FXRates` | the USD/RUB rate | `MCMarket` | `MarketProofs` |
| `MoexBoards` | the board cache and the second attempt | `MCMarket`, `MCProgress` | `MarketProofs` |
| `MoexQuotes` | the time of a quote and what becomes of it | `MCMarket` | `MarketProofs` |
| `YahooRuns` | a run of the Yahoo provider and its proxies | `MCMarket`, `MCProgress` | `MarketProofs` |
| `Lifecycle` | start, signal and stop of the process, and the runs meanwhile | `MCProgress` | `ProgressProofs` |

`map` in `PROJECT.json` names, for every definition, the lines of Go it stands
for. An MC module only adds the symmetry set of its runs, if they have one;
`MCMarket` and `MCProgress` each instantiate several components. An operator marked
"Fault:" states how a plausible slip in the code would change the definition
that follows it; no specification uses it. Each checked property is violated
when such an operator takes the place of its definition (`mutants` in
`PROJECT.json`), which shows that the property depends on the code being right
there.

### PriceSources

`row` and `price` are the two tables, keyed by instrument and provider: a
source is never deleted and the pair is unique, so it stands for the id.
`composition` is the set of instruments of the published fund snapshot, `cache`
is `PriceState.Sources`. `sync[p]` and `discovery[p]` are the local variables
of the job in progress for a provider, at the points where the code gives up
control: before its query, before and after the provider's answer, and for a
discovery's transaction between its statements (it holds no lock of the
process). `admin` is the SetPriceSource call that holds the write mutex;
`WriteLockFree` guards every other Update.

| Code | Actions |
|---|---|
| `SyncMOEXSecurityPrices`, `SyncYahooPrices`, `ApplyQuotes` | `SyncLoad`, `SyncReadSources`, `SyncFetch`, `SyncApply`, `SyncApplyUnacked`, `SyncFail` |
| `DiscoverMOEXSources`, `DiscoverYahooSources`, `CreatePriceSources` | `DiscoverLoad`, `DiscoverCandidates`, `DiscoverResolve`, `DiscoverCheck`, `DiscoverInsert`, `DiscoverCommit`, `DiscoverFail` |
| `SetPriceSource` | `SetPriceSource` (lock and read), `AdminCommit`, `AdminCommitUnacked`, `AdminAbort` |
| fund sync, history sync, crash and start | `ChangeComposition`, `ReloadByHistorySync`, `Restart` |

PostgreSQL is modelled by what the code relies on: READ COMMITTED reads, the
unique key on (instrument, provider), and an insert that waits for another
transaction's insert of the same key (`AdminInsertWaits`). Every commit may
take effect without being acknowledged; `unacked` records that RAM may be
behind, until something reloads it. A quote remembers the symbol it was asked
for (`of`), which the program does not: that is how a property can talk about
it. `raced` and `overtaken` record that two source transactions overlapped, or
that a symbol changed under a running sync; the two properties that the code
keeps only otherwise name them.

Left out (and modelled in `PricePoints` and `DailyHistory`): intraday points,
daily series, the fund unit's own quote. Left out: historical prices, provider errors by source (an answer that does not name a source is
one), rounding, and audit text.

### FundSync

`snapshots` is `fund_snapshots` in the order of ids, a snapshot being its date,
its value and its tables (the pair date and source hash, since the hash covers
all of it); `daily` is `fund_daily_values`; `fund` is `State.Fund`; `page` is a
fetched page that was validated and not yet applied. `Store` is the whole
transaction of `ApplyManagementCompanySync` with `planDailyValueChanges`:
inserted and corrected values, and the snapshot that is kept unless it is
stored already. The latest snapshot is chosen as `loadLatestSnapshot` does, by
date and then by the time of observation, which the model takes to grow with
the id: the clock of the process is assumed not to go back across syncs.

### Scheduler

`running` are the flags under the manager's mutex; `runs` the rows of
`scheduler_job_runs`; `call[r]` the goroutine r in `Manager.run`, with what it
remembers. Its phases are those of the code: flag set, previous run read, row
created, job done, finish stored or failed, flag cleared, event published: in
this order of the deferred functions. A panic of the job is one way to end
`failed`. Cron's SkipIfStillRunning is `CronAllows`; it is around scheduled
runs only, which is why the flag matters. A request that finds the job running
changes nothing. `shown` is the last state of the jobs and of the diagnostics
that viewers loaded: an event makes them load again what its scopes name, and
opening a page is `ViewJobs` and `ViewDiagnostics`.

### Hub and EventFeed

One action per critical section of the hub's mutex (`Register`, `Publish`,
`Close`, `Unregister`) and per step of a handler between two of them
(`Receive`, `SeeClosed`, `Write`, `Disconnect`). `clients` is the map of the
hub, `open` the set of channels that are not closed, kept apart so that a
second close or a send after the close is visible as `panicked`. An event is
its revision. `EventFeed` is the promise: join at the current revision, be sent
that one and every later one in order, or be over. `Feed` in `Hub` is the
refinement mapping: `next` is the revision after the last one received, or the
head of what is owed.

### Valuation

`call[c]` is a goroutine that changed an input, or whose hour has come, and
recalculates: due (the input is changed and `Refresh` or `Recalculate` not
begun), loading (it has the published state and goes to the database), ready
(stored baselines and historical prices are there, and the application state's
lock is next). `stored` is `fund_snapshot_price_baselines` of the published
snapshot, `valuation` is `State.Valuation`. The inputs are small copies of what
`PriceSources` and `FundSync` model in detail: a price, a rate, a source or a
snapshot changes in one step, as `appstate.Update` publishes it.

| Code | Actions |
|---|---|
| price, rate and fund jobs, SetPriceSource with its Refresh | `PriceArrives`, `RateArrives`, `NewSnapshot`, `HourlyRefresh`, `SetSource`; without acknowledgement `PriceArrivesUnacked`, `SetSourceUnacked` |
| discovery, history sync | `Discover`, `ReloadByHistorySync` |
| `Start`, `Refresh`, `Recalculate`, `loadState`, `prepareBaselines` | `Load`, `ReadStored` |
| `apply` with `applicableBaselineChanges`, `calculateLiveValuation`, `ApplyRefresh` | `Apply`, `ApplyUnacked`, `Overtaken`, `Fail` |
| crash and start | `Restart` |

A number is what it was computed from: the live value is, per asset, its price,
rate and baseline, so that two values are equal when the code would compute the
same. A baseline's price is the symbol the provider was asked for (`of`), which
the program does not keep. `dropped` are the assets whose stored baseline a
symbol change deleted, `missed` says that a recalculation failed or was left
out since the last one that succeeded, `behind` that a baseline was stored while
RAM missed a change.

Left out: value points and their retention, changes of the fund unit's market
price (it is taken to have one, so that the rate is always part of the value),
assets without an instrument or a quantity, and rounding.

### JobEvents

`Data` is what jobs change (prices, the rate, the snapshot), each by a version
number; `Actors` are the jobs and the administrator's requests, each with the
datum it changes. `call[a]` is where an actor is between its update and its
last event. `live` is `ValuationState.Current` with its inputs and `ObservedAt`.
`shown` is what a viewer shows: the data, the last live valuation it was sent,
and the latest by `ObservedAt`. An event of a job carries its value; the event
of SetPriceSource names the instrument, and viewers ask for it (`Refetching`).

| Code | Actions |
|---|---|
| `Manager.Update` in a job or in SetPriceSource | `Update`, `UpdateUnacked` |
| the history job | `HistoryChanged`: RAM has all prices anew and only the history has an event |
| `Publish`, `refreshLiveValuation` | `Announce`, `Recalculate`, `RecalculateFails`, `AnnounceLive` |
| a viewer that connects; a crash and start | `ViewerLoads`, `Restart` |

`silent`, `overtaken` and `liveLate` record the three ways in which a viewer is
left behind until the next event: a change without an event, an older event
published last, an older valuation published last. Delivery is `Hub`'s; run
messages are `Scheduler`'s.

### PricePoints

`stored` is the price and the points in the tables, `ram` those of `PriceState`,
`sync` a quote that waits for the lock with the time it was fetched at.
`Apply`, `ApplyUnacked` and `FetchFails` are the ends of `SyncFundUnitMOEX`,
`HistoryChanged` and `SourceChanged` the other two updates that touch points,
`Restart` is `Start`. `UnitPrices` is `MarketHistory` with its binary search
over the points in the order they were appended in, which is the order of the
times they were observed at; the search is a function of the range that is left. Known limit, which no
comment or test speaks of: SetPriceSource loads every stored point, so that
points older than 48 hours come back into RAM until the next quote
(`prices/service.go:82` cuts, `loadPriceState` does not); `ChartServed` therefore
speaks of the last 48 hours only.

### DailyHistory

`candles` is the exchange, `stored` the table, `ram` the series in RAM, `sync`
the run with the rows read so far. `ReadPage` asks for the rows after the first
`start` of them, while `ExchangeChanges` adds candles, closes and corrections;
`SyncRefused` is a history longer than `maxHistoryPages` or a date with two
closes. `late` records closes that appeared below a later one or while a run
read. A run that finds nothing new does not repair RAM after a commit that was
not acknowledged (`unacked`), and a history longer than `maxHistoryPages` pages
is never stored: its run is refused whole.

### FXRates

`market`, `stored`, `ram` and the answer that waits for the lock. `Fetch`
returns the last rate or an older one, `Apply` is `SyncUSDRUB` with `ApplyRate`.

### MoexBoards and MoexQuotes

`MoexBoards` has one security: `listing` and `quoted` are the exchange, `cache`
is its entry in `Provider.boards`, `call[c]` is a caller between two of its
requests. `Begin` reads the cache, `FetchBoard`, `FetchBoardFails` and
`StoreBoard` are `fetchBoard` and the store under the mutex, `Ask` and
`AskFails` the quote or the daily price; a quote that fails resolves the board
again, once. `seen` and `steady` are history: the boards that could be resolved
on a day, and whether something failed or moved since a second attempt began.

`MoexQuotes` has the clock, the last trade of the session, the one before and
the stored price. A row has any subset of the date and time fields
(`currentQuoteTime`); without a trade it is the previous close at midnight of
its date. `UPDATETIME` is taken to be a time of the trade's day, not before the
trade. `misdated` records that an evening's trade was stored with the date of
the next day, which happens when `TRADEDATE` is missing after midnight
(`providers/moex/provider.go:745`): the trades of the new day are then stale
until that time of day.

### YahooRuns

One run at a time, since runs share nothing. `asked` are its symbols, `handled`
how many have had their request, `got` what there is for each. `index` is
`failoverHTTPClient.index`; clients stop and start working at any time
(`ClientChanges`). `Exhausted` is a request with every proxy behind it,
`BadAnswer` one that the proxy answered with something useless. Left out: which
close of a chart is chosen, and the arithmetic of decimals.

### Lifecycle

`main` is where `main` is; `cron`, `hub`, `pool`, `accepting` are the parts that
it starts and closes; `run[w]` a scheduled or manual run, `row[w]` its row.
`main` waits for scheduled runs and for connections in use. It does not wait
for `Shutdown` (`routes/run.go:53`), which a goroutine of its own calls:
ListenAndServe returns as soon as it is called. It also returns when the listener
fails, and then open connections go on sending requests.

A worker first is asked to run (`Begin`): its schedule is due, or a request is
taken. A request whose body is still being read (`routes/run.go:112`) comes to
`Manager.run` whenever it likes (`Enter`), after cron has stopped or the pool is
closed too. There the run gets its row (`Create`, `Created`), or `CreateRun`
fails (`CreateFails`). `CreateRun` has the context that the signal, or a client
that is gone, cancels (`manager.go:212`), so its insert may take effect while it
reports an error: `run` returns, and the row says "running" for good. `failed`
remembers these rows and those whose end the database did not store.
`LatestFinishedRun` is part of `Begin`'s phase, as it changes nothing.

A manual run may end with the process and leave its row "running" too. Nothing in
the code ends such a row later: `LatestFinishedRun` passes it over. `Kill` is an
end from outside.

## 3. Runs

| Run | Instance | Shows |
|---|---|---|
| `price_sources` | 1 instrument, 2 providers (one syncs, the other discovers), 2 symbols, 2 values, 2 times | all safety properties of the sources and prices |
| `fund` | 3 dates, window of 1, 2 values, 2 tables, 3 snapshots | RAM is durable, snapshot and history agree, fixed history stays |
| `hub` | 2 connections, channels of 2, 4 events, fair | no panic, no gap; the hub implements the feed; a loss ends the connection; an event is sent or the connection ends |
| `scheduler` | 1 job, 2 cron runners and 1 manual, 3 rows, fair | one run per job; viewers are told; no job stays locked |
| `valuation` | 1 instrument, 1 provider in RUB, 2 symbols, 1 price, 1 rate, 2 callers, 2 snapshots | stored baselines have the symbol of their source, RAM has them, the live value is current |
| `market` | one of six parts: 2 boards and 2 callers over 2 days; quotes over days of 2 moments; points over a clock of 6; a history of 3 dates in pages of 1; 2 values; 2 symbols and 2 proxies | what RAM serves is durable, no hole in the history, boards of the day, the last trade stored, no older price back, no failed request taken for a missing price |
| `progress` | one of five parts, fair: 3 actors on 2 data; 2 scheduled runs and 1 manual; 2 discoveries and SetPriceSource; calls of the exchange; runs of Yahoo | viewers end with what RAM has, a signal ends the process after its scheduled runs, whatever requests are on their way, calls and runs end, the write lock comes back |
| `price_cache_view`, `price_two_sources`, `fund_versions`, `scheduler_partial`, `valuation_restart` | small | the five findings of section 5 |

What the properties say is written above each of them in the modules. The ones
that carry most:

- `EnabledPricesCached`: for an enabled source RAM holds exactly what a restart
  would load, unless a commit was not acknowledged.
- `OneEnabledUnlessRaced`: two sources of an instrument are enabled together
  only after two transactions overlapped, and an undisturbed enable heals it.
- `PricesNeverRegress`, `OnlyMembersPriced`, `QuoteForSymbolUnlessOvertaken`:
  late answers do no harm, with the one exception the name says.
- `FundIsDurable`, `SnapshotAgreesUnlessReverted`, `FixedHistoryKept`.
- `OneRunPerJob`, `FailuresAnnounced`, `RunningShownUntilEvent`,
  `EveryRunEnds`.
- `StreamGapFree`, `NeverPanics`, `FeedSpec`.
- `StoredForSymbol`: no path stores a price of one symbol under another, unless
  RAM missed a change of the symbol.
- `BaselinesStoredUnlessDropped`: the baselines in RAM are what is stored,
  except where a symbol change deleted them (finding 5 is about those).
- `LiveCurrentUnlessOwed`: two callers that overlap never leave an old value
  behind.
- `DataShownUnlessOvertaken`, `LiveShown`, `ChangesReachViewers`: in whatever
  order the jobs publish, a viewer is behind only in the ways named above, and a
  viewer that compares `ObservedAt` never is for good.
- `ServedIsDurable`, `NoGapUnlessLate`, `NoPriceGoesBack`, `LastTradeStored`,
  `MovedBoardFound`, `AskedOnBoardOfTheDay`.
- `MissingOnlyIfAnswered`, `GivesUpOnlyWithoutProxy`.
- `ScheduledRunsEnd`, `WhatBeganEnds`.

`market` and `progress` check several components in one run. The components
share no state in these modules, so a behaviour is one of them, chosen at the
start by the variable `part`, and the others stay in an initial state;
interleaving them would only multiply the states. Each property is that of its
component, and holds trivially of the parts that stand still. The fairness of
`progress` is that of each component (section 4): a part that stands still is
never enabled in a fair step, so nothing is asked of it.

### Bounds, and why they are enough

- *One instrument* in `PriceSources`: the code treats instruments one by one
  and only the composition, a set, relates them; overlapping needs several
  transactions on the *same* one. Two symbols are enough for a change and its
  reversal, two times for older and newer, two values for a correction at the
  same time. The run has one discovery; two that
  overlap are in `progress` and in finding 2, and `OneEnabledUnlessRaced` is
  proved for any number of them.
- *Three dates and a window of one*: a fixed date, one inside the window and
  the latest; a page that is older than the stored one; two dates of one
  window. Three snapshots: A, B and a later date. Going from A to B and back
  needs two.
- *Channels of two* hold a greeting and one event, so that they fill, drain and
  fill again within four events; two connections differ in speed.
- *Two cron runners and one manual* for one job: two of a kind and one of the
  other. Three rows: a previous, a current and a next run.
- *One instrument and two callers* in `Valuation`: assets are treated one by
  one, and one caller may be overtaken by another at each of its steps. Two
  symbols are a change and its reversal, and each symbol has its own price; two
  snapshots are an old and a new one.
  Two providers, between which a baseline may move, are covered by the proofs.
- `JobEvents`: a job and the administrator on one datum, another job on a
  second one, two changes of each (`MaxVersion`): an older and a newer event,
  and a valuation of mixed inputs.
- `PricePoints`: a retention of 2 within a clock of 6 (`MaxClock`), so that points
  are cut at three different moments. `DailyHistory`: 3 dates (`LastDate`) in
  pages of one row, 3 pages (`MaxPages`), so that a row moves over the edge of a
  page and the pages run out. `MoexQuotes`: days of 2 moments, clock up to 7.
- `MoexBoards`: 2 boards, a caller for quotes and one for daily prices, 2 days
  (`LastDay`); `progress` has one caller and one day, since its liveness is of
  one call.
- `YahooRuns`: 2 symbols, up to 3 asked for, in batches of 2; 2 proxies, lists of
  up to 3 entries (`MaxAsked`, `MaxList`): a batch that is full and one that is
  not, a list that has an entry twice, one that is no URL or nothing else, and a
  second proxy to go on with. In `progress` one proxy is allowed (`MaxItems`), so
  that a list of 2 is too long, and answers have no quotes (`MaxAnswer`): how a
  run goes on does not depend on them. That a run passes each of more proxies
  once is `RunsAlwaysShorten` (section 6).
- `Lifecycle`: 2 scheduled runs and a manual one, all 3 parts to load.
- `MaxTime`, `MaxDate`, `MaxSnapshots`, `MaxRevision`, `MaxRuns` and `MaxSnapshot`
  bound the other modules. Each bound is a guard, or a set of inputs, named in
  its module.

Symmetry is used in safety runs only, over values, symbols, tables or callers
that no definition tells apart. Deadlock is checked in the price, fund and
valuation runs. The hub runs switch it off because a closed hub whose
connections are over, or one that published `MaxRevision` events, has nothing
left to do, the scheduler runs because of `MaxRuns`, and `market` and `progress`
because clocks and versions are bounded and a process that has exited stays so.

## 4. Fairness

- `PriceSources`: weak fairness of the steps of a discovery's transaction, and
  strong fairness of the end of a SetPriceSource call. The database driver ends
  every statement and a transaction's deferred rollback ends it; strong
  fairness because the call's insert may have to wait again and again for a
  discovery, each of which must first ask its provider. Nothing is assumed of
  providers, of the schedule or of administrators.
- `Hub`: weak fairness of each handler's steps. A write has a timeout of ten
  seconds, and Go's select takes a ready case at random, so a channel that stays
  ready is served. Nothing is assumed of publishers, peers and the shutdown.
- `Scheduler`: weak fairness of each runner's steps. The providers' HTTP
  clients have timeouts (15 or 30 seconds) and the loops over them are finite;
  a panic is caught. Nobody has to start a run.
- `JobEvents`: weak fairness of the steps of an actor that has updated RAM: what
  follows is one goroutine with statements that end.
- `Lifecycle`: weak fairness of `main`, of the goroutine that calls `Shutdown`, of
  a scheduled run's way to its row, and of each run's steps after that: requests
  to providers have timeouts and statements end. Nothing is assumed of a request
  that is still being read: the server has a timeout for headers only. Nobody
  has to signal.
- `MoexBoards` and `YahooRuns`: weak fairness of a call's or a run's steps, since
  every request has a timeout. Nothing is assumed of the exchange and the
  proxies, nor that a call is made.

## 5. Findings

The runs that end in a violation each show one place where the code does not do
what a comment of the schema or a test of the repository says; `PROJECT.json`
quotes both.

1. `price_cache_view`: a sync that read its sources before an administrator
   disabled one puts that source's price back into RAM
   (`prices/repository.go:1136-1178` does not ask whether the source is
   enabled, `loadCurrentPriceState` does). A restart would not load it.
2. `price_two_sources`: two discoveries that overlap, or one that overlaps
   SetPriceSource, map one instrument to two providers, both enabled
   (`prices/repository.go:399-422`).
3. `fund_versions`: when the page goes from version A to B and back to A for
   one date, B stays the latest snapshot (`fund/repository.go:451`), while the
   daily value returns to A.
4. `scheduler_partial`: a run that completes with failed sources after a clean
   one changes the diagnostics, and no event tells viewers of the diagnostics
   (`scheduler/manager.go:305-318`).
5. `valuation_restart`: a symbol that goes from A to B and back loses its stored
   baseline and keeps the one in RAM, which is for the current source again and
   so never stored (`valuation/service.go:208-213`, `prices/repository.go:343`).
   The live value counts the asset until a restart, after which the old quote
   has to be asked of the provider again.

## 6. Proofs

TLAPS proves the following for every value of the constants that satisfies the
assumptions named in the modules (`ProvidersAssumption`, `MaxTimeAssumption`,
`BoundsAssumption`, `BufferSizeAssumption`, `MaxRevisionAssumption`,
`CronAssumption`, `MaxRunsAssumption`, `MaxSnapshotAssumption`,
`DataAssumption`, `RefetchingAssumption`, `MaxVersionAssumption`,
`CallersAssumption`, `BoardsAssumption` (boards are finitely many),
`LastDayAssumption`, `WorkersAssumption`, `PartsAssumption`, and that `None` is none of the values it
stands beside).

Each proof module strengthens the checked invariants to an inductive `IInv`,
proves that the initial states satisfy it and that every action keeps it, one
lemma or step per action, and derives the theorems from it.

- **PriceSourcesProofs**: `TypeCorrect`, `EnabledPricesAlwaysCached`,
  `OnlyMembersArePriced`, `PricesOnlyAdvance`, `OneAlwaysEnabled`,
  `QuotesAreForTheirSymbols`. `EnabledPricesCached` is not
  inductive: an answer that is applied must be about a row that exists
  (`QuotedRowsExist`), SetPriceSource writes what it read earlier, so that must
  still hold (`AdminReadsKept`), a discovery's new row must not meet a price
  (`InsertedAreNew`, `PricedRowsExist`), and a source that is enabled again must
  find in RAM what is stored, so RAM may hold nothing else even for disabled
  ones (`CachedAreStored`). The last one is also what makes `PricesNeverRegress`
  follow: a reload cannot replace a price by an older one.
  `OneEnabledUnlessRaced` rests on two more: what a discovery found unmapped
  still is, and all that SetPriceSource read still holds, unless the instrument
  was raced (`CheckedAreUnmapped`, `AdminSeesAll`).
  `QuoteForSymbolUnlessOvertaken` needs that a sync asks each source of its own
  provider once and for the symbol it has unless it was overtaken (`ItemsFit`,
  `AnswersFit`), so that storing an answer ends what overtook it.
  `WaitsAlwaysShorten`: the transaction that SetPriceSource waits for, holding
  the write lock, has finitely many statements left and nobody gives it more. It
  assumes that `Instruments` is finite, as a fund is; a transaction that has
  begun only creates what was resolved before (`TransactionOpen`).
- **FundSyncProofs**: `TypeCorrect`, `FundAlwaysDurable`,
  `SnapshotAlwaysAgrees`, `FixedHistoryAlwaysKept`. The order of
  `loadLatestSnapshot` is total on what is stored (`HasLatest`, by adding one
  snapshot at a time), a pending page is valid, and a served process has a
  snapshot.
- **SchedulerProofs**: `TypeCorrect`, `OneRunAlways`, `FailuresAlwaysAnnounced`,
  `RunningAlwaysShownUntilEvent`. A run's row is its job's last one while it
  holds the job (`RowsTracked`), and what it read of the previous run is still
  what the diagnostics show until it stores its own (`PreviousCurrent`).
  `OutcomesAreFinal` follows from the first: a run that stores its end changes
  the row it created and no other. `RunsAlwaysShorten`: a run has six steps at
  most, whatever fails.
- **HubProofs**: `TypeCorrect`, `HubNeverPanics`, `StreamsAreGapFree`,
  `HubImplementsFeed`. The clients are exactly the open channels
  (`ClientsAreOpen`); received, being written and in the channel join up
  (`AllJoined`); nothing is owed that was not published (`OwedArePublished`).
  The refinement is proved step by step: each action is a step of the feed or
  leaves it alone. `LossAlwaysShortens`: a connection that was dropped has what
  its channel held left to send, gets no more and never joins again.
- **ValuationProofs**: `TypeCorrect`, `StoredAlwaysForSymbol`,
  `BaselinesAlwaysStored`, `LiveAlwaysCurrent`. A price in RAM has the symbol of
  its source unless a commit was not acknowledged (`PricesForSymbol`), which is
  what makes the second check of `apply` sufficient; what a caller read for the
  published snapshot stays what is stored until somebody publishes a valuation
  of it (`KnownIsStored`), because every path that stores a baseline publishes
  too; and no caller is of a snapshot to come (`NotAhead`), so that a new
  snapshot starts with nobody ready for it.

- **DailyHistoryProofs**: `TypeCorrect`, `NoGapEver`, `HistoryAlwaysDurable`. The
  rows of a page are found by their rank among the candles (`RankType`,
  `RankOrder`, `RankExists`). A run that goes on has every candle below the last
  one it read, unless that candle came late: that is what no later page can undo,
  since a row only moves towards pages that were read when another one appears
  before it.
- **MarketProofs** is about the specification of `market`, whole: its six parts,
  one section each, and their composition.
  - Boards: `TypeCorrect`, `AlwaysOnBoardOfTheDay`, `MovedBoardAlwaysFound`.
    Entries and calls have boards that could be resolved since their date
    (`CacheSeen`, `CallsSeen`), since the date is read before the exchange is
    asked; a second attempt has the only board that can be resolved as long as
    nothing moves or fails (`SteadyCurrent`, with `ChoiceIsOne`).
    `CallsAlwaysShorten`: a call has six steps at most, three for each attempt.
  - Quotes: `LastTradeAlwaysStored`. A stored price has no date of an earlier day
    than its session (`StoredPast`), and one that has the date of the day is
    either the last trade or before it (`PricedBefore`); both need the arithmetic
    of days and times of the day (`MomentParts`, `DayStarts`).
  - Points: the chart in `ServedAlwaysDurable`. RAM and the table hold the same
    points of the retention, whatever cut them last (`SamePoints`), and the order
    in which points were observed is an order of the times of their prices
    (`Ordered`): only then does a binary search by that time find them
    (`SearchFinds`).
  - Rates: the rate in `ServedAlwaysDurable`, and `NoPriceEverGoesBack`.
  - Runs of Yahoo: `MissingAlwaysAnswered`, `NeverGivesUpWithProxy`. Every symbol
    of a request that is over has an outcome, or an answer and waits for the end
    of the run (`SoFar`); a proxy that the run went past has failed since it began
    (`PassedFailed`, `ListIsFirst`). `CleanedProxies` says that what is left of a
    list are proxies. `RunsAlwaysShorten`: every step of a run ends a request or
    passes a proxy, and neither comes back.
  - Composition: a behaviour of the whole is one of each part, since a part that
    is not chosen stutters (`BoardsRun` to `RunsRun`). The daily history is an
    instance of the module that its own theorems are about; `SameHistory` shows
    that the two instances have the same steps and properties.
    `PartsTypeCorrect`, `ServedAlwaysDurable` and `NoGapEver` put the parts
    together.
- **ProgressProofs** is about the jobs and the process in `progress`.
  - `TypeCorrect`, `DataAlwaysShown`, `LiveAlwaysShown`, and `EventsAlwaysShown`
    for both in the composition. No call carries a valuation that is newer than
    the current one, and valuations of one `ObservedAt` are equal (`NotNewer`,
    `LiveOrdered`): that is what lets a viewer order them. `VersionsAlwaysGrow`
    says what the order is worth: a valuation that is later by `ObservedAt` is of
    no older datum (`VersionsOrdered`), so a viewer who keeps the latest one never
    goes back, however the jobs publish. `EventsAlwaysShorten`: after an update a
    job is three steps from its last event.
  - `LifeTypeCorrect`, `ScheduledRunsAlwaysEnd`. Nothing runs before the state is
    loaded (`Loading`), the hub and the pool are closed after the last scheduled
    run (`ClosedLast`), and a row says "running" only while its run goes on,
    unless the database refused its end or its creation was reported as failed
    (`RowsFollowRuns`). `LifeAlwaysShortens`: every step of main and of a run
    brings it nearer to its end; once cron is stopped no scheduled run begins
    (`WindingDown`); and a request that came before `Shutdown` may begin a run
    even then, but a closed pool gives it no connection, and whoever holds one
    gives it back with the next step (`Held`, from `ClosedAtEnd`).

Two places need an induction over data, which the library's theorems cannot give
here. Both are done with the least element of a set of natural numbers (`Least`,
from the well-foundedness of `<` on them): the binary search by the smallest range
on which it would be wrong, and the places of the elements of a finite set in the
order of a key (`Places`) by the smallest place that nothing would take.

The theorems of `MCMarket` and `MCProgress` assume what their modules assume of
the constants of their parts (`PartsAssumption`, `LifeAssumption`). Every
invariant and every action property that a passing run checks has a theorem.

Only model-checked: the liveness properties (`WriteLockReleased`,
`LossEndsConnection`, `SentOrEnded`, `EveryRunEnds`, `ChangesReachViewers`,
`WhatBeganEnds`), since liveness under fairness and ENABLED are out of the
prover's reach. The half of them that needs neither is proved: what is left to
do until the end is a natural number, each step of the actor that is fairly
scheduled makes it smaller, and no step of anybody else makes it larger
(`WaitsAlwaysShorten`, `LossAlwaysShortens`, both `RunsAlwaysShorten`,
`EventsAlwaysShorten`, `CallsAlwaysShorten`, `LifeAlwaysShortens`). That such a
step can be taken until the end is reached, and therefore is, is what TLC checks
under fairness. For `SentOrEnded` that half is `StreamsAreGapFree`: what a client
of the hub has not been sent is owed to it in order, with nothing skipped.

## 7. Plan

In order of importance; all but the last are done.

1. `PriceSources` and its proofs. *Done.*
2. `Hub` refining `EventFeed`, and its proofs. *Done.*
3. `Scheduler` and its proofs. *Done.*
4. `FundSync` and its proofs. *Done.*
5. `Valuation` and its proofs. *Done.*
6. `PricePoints` and `DailyHistory`: the fund unit. *Done.*
7. `FXRates`. *Done.*
8. `JobEvents` and its proofs: the jobs, the valuation and the hub together. *Done.*
9. `MoexBoards` with its proofs, `MoexQuotes`, `YahooRuns`. *Done.*
10. `Lifecycle` and its proofs. *Done.*
11. Abstract specifications: a durable price book that `PriceSources`
    implements when RAM is restricted to enabled sources, and a job runner with
    a mutex that `Scheduler` implements.

Not modelled of the parts above, and why: value points of the live valuation
and the summaries of runs (records that no step reads); HistoricalPricesAt's
matching of answers, the resolution of securities by MOEX and the closes of one
security (loops over requests that keep no state); sessions of `auth/` (a map
with an expiry behind one mutex, each operation one critical section that
nothing else depends on); the management company's page (parsing).

Not to be modelled: migrations, configuration, dependency wiring, HTTP routes
beyond the calls they make (pure plumbing); HTML parsing and JSON decoding
(data formats, to the services any valid result); fund views, decimal, date and
currency helpers (pure functions, compared here as tokens).
