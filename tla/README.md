# Hakato in TLA+

Hakato scans EVM chains, keeps statistics of the tokens its users hold, alerts
them, and runs a small trading agent whose funds are held by a contract. This
directory models the parts of it that several goroutines, several requests or
transactions, or a failing database can get wrong. TLC checks the models on small
instances; TLAPS proves the most important properties for every instance.
Paths below are relative to `src/`.

## The system

| Component | State | Operations | Hard behaviour |
|---|---|---|---|
| Wallet contract, `contracts/AgentWallet.sol` | keys, limits, spent today, last trade, trade log | swap, setAgent, setLimits, transferOwnership, deposits | lazy day rollover, limits changed between trades, overflow |
| Signal contracts, `contracts/SignalRegistry.sol`, `AnomalyLogger.sol` | append-only logs, writer key | record, change key | who may write |
| Block ingestion, `scanner/main.go` (`RunActiveAnalytics`, `pollLoop`, consumer) | `last`, failure counters, one channel per chain | poll, fetch, send, process | full channels, failing RPC, restart, one consumer for all chains |
| Transfer pipeline, `scanner/token_activity_full.go`, `token_events_persist.go`, `StartTokenEventWriter` | `tokenEventChan`, `pending`, `token_transfer_events`, `token_hourly_activity` | analyse, send, upsert, flush | lost replies, partial failure, back pressure, crash |
| Rollups, `scanner/token_analytics_workers.go` | `token_hourly_metrics`, `token_daily_metrics`, rules | hourly, daily and rule stages | stages interleave, passes fail, boundaries of hours and days |
| Portfolio alerts, `scanner/token_activity_full.go` | gate in memory, `portfolio_notifications` | evaluate, gate, notify, daily report | gate before insert, duplicate keys, early returns, restart |
| Optimizer, `scanner/strategy_optimizer.go` | `agent_strategies` | load, backtest, store | look-ahead, boundaries of the window, stale prices |
| Agent executor, `scanner/agent_executor.go` | `agent_signals`, chain, mempool | evaluate, persist, record, announce | three effects with no transaction around them, cooldown read by a query |
| Prices, `scanner/main.go`, `database.go` | `token_prices`, `tokens` | refresh, create a stub, roll a stub back | daemons share a work list, asynchronous rollback |
| Portfolio API, `scanner/handlersApi.go` | portfolios, tokens | add, realize, wait for a price | read-then-write, no transactions, goroutines that outlive the request |
| Tracking settings, `scanner/portfolio_asset_tracking.go` | settings of assets, of contracts, of the portfolio | upsert, write defaults, toggle | read-then-upsert, keys that change, rows that are missing |
| Alert rules of users, `scanner/rules_evaluator.go`, `tx_matcher.go`, `ws_alerts.go`, mini app | `alert_rules`, `alert_filters`, `alerts`, a stream's position | edit, match, broadcast, poll | filters that share keys, overlapping polls, failing calls |
| Anomaly runtime, Telegram bot, importers | none that lasts | | |

How they interact. Pollers send blocks over Go channels to one consumer, which
calls the analysis of each transaction directly; the analysis sends transfers
over `tokenEventChan` to the writer, upserts `token_hourly_activity` and then
evaluates the portfolio alerts; the user rules follow, once for each block. So a
writer that stands still holds up the consumer and, through it, every poller.
Rollups, optimizer, executor and price daemons meet the pipeline only in the
database. Alert loop and daily reports find their portfolios through the tracking
settings, whose keys depend on symbols that the price daemons write. The
executor records signals on chain; nothing in the Go code calls the wallet's `swap`.

What makes each part correct: blocks and transfers are neither lost nor
reordered inside the process, and duplicated only for reasons that can be named;
aggregates never run ahead of what they are made of and catch up with it; an
alert that is due is answered, once, and spaced; a report that is due is written; the
optimizer does not look ahead, and stores the winner it finds; a signal is spaced and has one record on chain; the
wallet keeps its limits; a user's choice holds; a rule's stream has no gap.

## Modules

`AgentWallet` models the wallet contract. A transaction is a step: it is applied as a
whole or reverts. `now` is `block.timestamp`, which several transactions may
share. `CheckLimits` has the contract's requires and the overflow checks of its
two additions. `trades` is the log, each trade with the limits it was made
under; `spentOn` and `capOn` are history of what the events of a day add up to
and of the limit in force at the day's latest trade. `SpendingLimiter` is the
abstract specification: a budget refilled at midnight by the clock. The
refinement maps the budget to `SpentAt(now)`. In the contract the calls of token and
router (`AgentWallet.sol:98-113`) come before the booking (115-132). `Swap` is one step for
both, which takes it that no swap is nested in those calls; `onlyAgent` allows one only to a
token or router that has the agent's or the owner's key.

`BlockIngest` models pollers, channels and consumer. Actions follow `pollLoop`: `PollHead`
(ticker and head; the first answer only sets `last`), `FetchOk`, `FetchFails`
(pass interrupted, or the block given up at the third failure), `Send` (waits for
the channel), then `Receive` and `Process` of the consumer. A gateway may answer
with a head up to `Lag` behind. `Restart` clears all but the chain.

`TransferWriter` models one transaction's transfers from the consumer to the two tables.
The consumer is `Analyze`, `SendEvents`, `UpsertOk` or `UpsertFails`; the writer is
`Receive`, `FlushTick`, `InsertOk` and `InsertFails`. A statement that reports an
error may have taken effect. An insert of several rows is atomic, as InnoDB
statements are. The code sets no limit to the writer's memory: past the threshold each slice
forces out one batch, and a transaction may have more tracked transfers than
a batch. `surplus` is history of what the slices received since `pending` was last short of
the threshold had beyond a batch each, and `PendingBounded` says that
`pending` passes the threshold by that much at the most: slices of up to a batch, however
many, never make it grow. `AtLeastOnceLog` is its abstract specification, for the readers of
`token_transfer_events`: a log written from the oldest waiting event on, a few at a
time; a write whose reply is lost is done again, the same events and before any
other; events are lost or repeated only with such a fault or a crash. Channel,
batches, ticker and forced flush are not in it. What waits there is what is in
`pending` and in the channel; `again`, the events to be repeated, is the batch under
way once it is in the table.

`HourlyRollup` models the hourly and the daily stage, each split in a read and a commit, and the
clock. The reads of one pass are one step, though the code queries hour by hour:
each hour's result depends only on that hour's rows, which only grow, so a later
read is the behaviour in which the row came earlier. Activity and stored events
of an hour are two counters that grow independently, which is what
`TransferWriter` shows of the two tables. An hour whose query fails is left out
of the commit (`failed`).

`PortfolioAlerts` models the loop over a transaction's transfers. A transfer carries the facts the rules
test: token, whether it touches an exchange, whether a price is known, amount,
the hour's average and total. `Pass`, `Alert` and `AlertFails` are the outcomes
for one subscription, `TooQuiet`, `Report`, `ReportRefused` and `ReportFails`
those of one report. The gate's maps and the table's keys are modelled as they
are. `StrictMode` is the server's `sql_mode`: with MySQL's default, the report's
INSERT is refused; without it, the missing columns get implicit defaults. A report
that fails, or meets the key of an earlier one, ends the analysis of the
transaction with it (`token_activity_full.go:507`), critical alerts of later
transfers included. Direction and raw-amount filters are never set by the handlers that fill
the settings and are left out. A profile whose thresholds are below the
defaults is raised to them, so that "aggressive" asks for as much as
"balanced" there (`token_activity_full.go:799`).

`PortfolioTokens` models the requests that change one portfolio, statement by
statement, and the goroutine of each new price stub. A request is a record with the
step it has reached and what it has read: `Ensure`, `InsertStub` are `EnsureTokenPrice`;
`FindToken`, `InsertToken`, `UpdateToken`, `ReadHoldings`, `WriteTotals` the rest of an addition;
`ReadSource`, `SpendSource`, `CreditTarget`, `FindPrice` the sales; `PollPrice` and `PollTimeout` the wait
of a new rule. `AnswerOk` and `AnswerError` end the request and, with it, its context.
The goroutine is `JobResolves`, `JobStores` or `JobFails`, `JobDropsHoldings`, `JobDropsStub`. The unique key
and the foreign key are modelled as the schema declares them. Prices are one dollar, so one quantity
stands for amount and investment; a partial sale reduces the amount only, as in the
code. `owed` is what the answered requests add up to; `excused` the contracts on which
two requests met, or a request met its rollback or failed halfway, where the code
promises nothing. Snapshots, symbols and profit are left out. A statement that
fails has no effect here.

`VwapOptimizer` models the optimizer of one token. `Window`, `Vwap`, `BacktestHour` and
`Backtest` are the algorithm, in exact arithmetic by cross-multiplication; the
code's floating point rounds. `LoadHourlyPoints` joins every hour with the one
price row, as the query does (`strategy_optimizer.go:136`); `hours` keeps, as
history, the price each hour had. `BacktestInv` and `AverageInv` are about series
with moving prices, which the algorithm is written for. The program loads no such series
today: `WinnerStored`, that a pass over hours with a winner leaves a strategy, is violated
(run `winner`), and `FlatSeriesIdle`, which is proved, says that no strategy is ever stored.

`AgentExecutor` models the pass of the executor over its tokens: `Quiet`, `Signal` or
`LoadFails` for each, then `Store`, `Record` and `Announce`, each with its failure. The
cooldown is a query over the stored signals, made some steps before the row is
inserted; when that query fails its error is dropped and the signal looks like the
first (`SignalBlind`). The chain is a mempool ordered by nonce and the registry, an
append-only log: `Mine`, `Drop`. A transaction that reports an error may have been
taken by the node. `on_chain_id` is set to the constant the code returns. The
optimizer may replace a strategy at any moment. With the series of today no price
ever deviates (see `VwapOptimizer`); `deviates` says when one would.

`AlertRules` models the life of users' rules. The handlers `CreateRule`, `CreateFilter`,
`UpdateFilter`, `DeleteFilter`, `DeleteRule` edit two tables; the consumer reads the filters
once for each block (`LoadFilters`), matches its transactions (`Matches`) and stores
the matches afterwards (`BroadcastAlert`). `AddFilter` is `matchTxAgainstRules` for one
filter with all of its conditions and jumps. The stream of the mini app polls the
table: `Poll` and `Answer`, where polls overlap. Some of what the code does is not what
one would expect, and is modelled as it is: a finance part that matches nothing
jumps past the swap part of the same filter; the gas price is handed over as a text of Ether
with six decimals (`WeiToEth`), which the matcher, expecting a number of Wei, cannot read
(`ParseInt`), so that no filter ever alerts on gas (run `gas_silent`); a token without a price, or
whose price cannot be asked for, puts off all swap moves of the transaction for good, while one
whose decimals are not to be had is only left out; swap matches set no key; polling does not
begin while the first page is empty; matches in memory are lost by a crash.

`PriceRefresh` models `token_prices` as a list in order of `updated_at`: `Tick` of a daemon takes
the oldest `Limit` rows and keeps those of its own chain, `Update`, `Touch`, `Skip`,
`LookupFails` handle one. A new stub comes in front, with the epoch for its time.
A lookup that fails counts as no liquidity for a DEX token, and as no answer for
an oracle. A daemon that read a row before the goroutine found its symbol writes
"UNKNOWN" back over it.

`AssetSettings` extends `PriceRefresh` with the tracking settings. An upsert is `BeginUpsert`, `Has`,
`ReadSettings`, `WriteSettings`, `EnsureSettings`, `EnsureNetworks`; `Toggle` and `SetNetwork` are the other
requests. The key of an asset is its symbol, so it changes when the symbol
arrives: the asset's settings stay behind under the old key, and all contracts
without a symbol share the key UNKNOWN. Readers are `Subscribed` and `DailyReport`
(alert loop) and `Shown` (the list of assets); a missing row means the default to
both. `chosen` is history of what requests have changed; `clean` the assets no two
requests have changed at a time: of two that overlap, one is undone.

`Lists` has one helper: `Keep`, what an SQL WHERE does with rows that have an order. The
proofs cannot use `SelectSeq`.

Two pairs of components are proved about in one module each, which extends both
(`AgentProofs`: the wallet and the executor; `AlertProofs`: the alerts to portfolios and the rules
of users), and so are rollups and optimizer (`AnalyticsProofs`). The second of each pair
therefore names its parts for itself: `ExecutorInit`, `ExecutorNext`, `ExecutorSpec`, `clock` in
`AgentExecutor`; `AlertsInit`, `AlertsNext`, `AlertsRestart`, `part` in `PortfolioAlerts`;
`OptimizerInit`, `OptimizerNext` in `VwapOptimizer`.

MC modules give the constants that a `.cfg` cannot express. `MCTrading` and `MCAnalytics`
check two components in one run: they have no state in common, so a behaviour is of one of the two,
and the other stands still. Definitions marked "wrong"
in a module are slips the code might contain (a dropped guard, a missing reset, a
swapped order); put in the place of the definition they precede, each makes one
of the properties fail, so no property holds for want of content. They are used
nowhere else.

## Runs

| Run | What it shows | Bounds |
|---|---|---|
| `trading` | wallet: daily cap, spacing, books, no lockout, refinement; executor: signals spaced, the chain's log and the table agree, a signal that is due comes | wallet: days of 3 ticks up to the third day, 3 trades, limits on both sides of what is spent, `MaxUint` 7 so that sums overflow; executor: 2 tokens, 3 ticks, cooldowns 1 and 2, 1 fault (query, insert, transaction, restart) |
| `ingest` | no loss or reordering, skips only after failures, bounded repeats, every block handled | 2 chains, channels of 1, 3 blocks, 2 failures, lag 1, 1 restart |
| `writer` | no loss, order, duplicates accounted for, activity agrees, memory that outgrows the forced flush only by what oversized slices bring, refinement of `AtLeastOnceLog`; everything sent is stored, the consumer gets on | batch 2, forced flush at 3, channel of 1, slices of up to 4, 6 transfers, 1 doubtful insert, 1 failing upsert, 1 restart; one hour, as rows of other hours are other rows |
| `analytics` | rollups: aggregates grounded, monotone, complete; optimizer: average within prices, causal backtest, separate trades, the executor's short series suffices | rollups: days of 2 hours, 3 hours, 2 transfers an hour, lag 1; optimizer: series of up to 5 hours, 3 prices, volumes 1 and 2, windows of 2 and 3 |
| `alerts` | one alert a transaction, spacing, no alert swallowed | 2 portfolios, one with reports, 2 tokens, 2 transactions of 2 transfers, days of 2 ticks, cooldown 2, 1 database failure, 1 restart, no strict mode |
| `tokens` | one price row a contract, no dangling holding, exact holdings and totals, every request answered | 2 concurrent requests of any kind, 2 holdings to begin with, 1 new token, 1 that has no price, 1 fault (statement, RPC call or restart) |
| `rules` | one finance alert for a rule, filters do not disturb each other, a stream without gaps to which every alert comes | 4 filters of 2 rules to begin with, two of them for the same alert, 1 block of up to 2 transactions, 4 tokens, 1 edit, pages of 2, 2 polls in flight, 1 fault |
| `assets` | choices hold, readers agree, defaults change nothing; every row's turn comes, a symbol stays | 3 rows, of two chains with a daemon and one without, 2 rows a pass, 1 stub, 2 requests, 1 fault |
| `report_due` | a disagreement: a due report is refused in strict mode | 1 portfolio, no database failure |
| `winner` | a disagreement: hours whose prices have a winner leave no strategy | the optimizer of `analytics` |
| `gas_silent` | a disagreement: a gas price above a filter's threshold yields no alert | as `rules`, without edits and faults |
| `stub_lost` | a disagreement: an answered addition of a good token is removed again | 1 request, 1 token, no fault |

Why the bounds are enough: every threshold of the code is passed on both
sides within them. Channels fill and drain, a forced flush leaves a rest, a block is
fetched, retried and given up, an hour closes and leaves the lag, days change
twice, the gate is met within and after the cooldown and forgets, a window is shorter
than, as long as and longer than the series; a sale takes more than, all of and a part of
what is held, and a stub is completed, rolled back, kept by its foreign key and
left without a goroutine. A signal meets a cooldown that runs, is over, and was
changed meanwhile, and its nonce is mined, dropped and used again. A page of the stream is
full, partly full and empty; two filters of a rule ask for the same alert. The work list of
the daemons is shorter and longer than a pass, with a row nobody can update in it.
Capacities and counters matter only in comparison with each other, and the ones here keep
the order of the code's. What is not covered: more than one restart or doubtful reply in a
behaviour, more than two pollers, three requests that meet on one token or asset, rules
over more than one block.

The four disagreements are recorded as findings in `PROJECT.json` with the text
each one contradicts.

## Fairness

Safety needs none. `BlockIngest`: tickers fire and an up-to-date head is seen
again and again; RPC calls return, and may fail every time; Go's `select` chooses
at random among ready cases, so a channel that is ready again and again is
received from (strong fairness of `Receive`); `ProcessBlockAnalytics` returns, which
`AnalysisResumes` of `TransferWriter` supports. `TransferWriter`: the same of the
writer's `select`, and a database that is retried for ever answers some day (strong
fairness of `InsertOk`); nothing is assumed of the upsert but that it returns.
`HourlyRollup`: the tickers fire and passes do not fail for ever. `PortfolioTokens`: a handler's
goroutine is scheduled and its statements return; nothing is assumed of the stub's
goroutine or of the price daemon. `AgentExecutor`: the executor's goroutine is scheduled, with any outcome
of its calls; the clock goes on; the chain mines what waits. `AlertRules`: the consumer works through its
matches, the page's timer fires and its requests are answered. `AssetSettings`: the daemons' tickers fire
and their calls return, in whatever way. In `trading` and
`analytics` the fairness is that of the executor and of the rollups, so liveness is about their behaviours; safety is checked in
all. No restart and no new block, transfer, transaction, request or price is ever assumed.

## Proofs

Eight modules hold proofs, each for all values of the constants that satisfy the
components' assumptions. The counterpart on a small instance is the run named with it.

| Module | Theorems | Run |
|---|---|---|
| `AgentProofs` | wallet: types, `DailyCap`, spacing, books, `NeverLockedOut`, refinement of `SpendingLimiter` | `trading` |
| | executor: `ExecutorInv`, `SignalsSpaced`, `AuditTrail` | `trading` |
| `BlockIngestProofs` | `IngestInv`, `SkippedOnlyAfterFailures` | `ingest` |
| `TransferWriterProofs` | `WriterInv`, `StoredAsSent`, `ActivityMatchesSent`, refinement of `AtLeastOnceLog` | `writer` |
| `AlertProofs` | rules: `StreamGapless`, `OneAlertPerRule`, `FiltersIndependent` | `rules` |
| | portfolios: `GateInv`, `QualifiedIsAnswered` | `alerts` |
| `PortfolioTokensProofs` | `KeysHold` (`OneRowPerContract`, `HoldingsHavePrice`), `HoldingsInv`, `TotalsFresh` | `tokens` |
| `AssetSettingsProofs` | `ChoiceHolds`, `DefaultsAreImplicit`, `ReadersAgree`, `SettledSymbolStays` | `assets` |
| `AnalyticsProofs` | rollups: `RollupInv`, `DailyNeverShrinks` | `analytics` |
| | optimizer: `BacktestInv`, `AverageInv`; `FlatSeriesIdle`, which no run checks: `winner` shows the same from the other side | `analytics` |
| `DataTheorems` | lemmas on sums, on recursion and on `Keep`, used by the last four | |

Wallet. `DailyCap` is about days, the contract remembers one: it is not
inductive. The inductive invariant `IInv` adds `BooksAgree`: the counter is what the
events of `lastTradeDay` add up to, later days have none, `lastTradeTs` is the time of
the log's last entry, and neither is ahead of the clock. Then a trade on the same
day starts from that day's sum and one on a later day from zero, which is `SpentAt`;
the require bounds the new sum. `TradesSpaced` follows from the cooldown check and
the log's last entry. `BookPreserves` carries this; every other action leaves the
booking alone. `NeverLockedOut` needs only that no later day has been booked, so
`SpentAt` is 0 there and the sums fit. For the refinement, `Advance` maps a passing
midnight to the lazily read 0.

Ingestion. That what has left a poller and what it gave up are just the blocks from
the adopted head to `last` says nothing of where the poller stands: `PollerOK` adds
that a pass lies beyond `last` and within the head. That a block given up has
failed often enough needs `FailuresHappened`: a counter is never above the failures
that happened, although interrupted passes leave counters behind. The bound on
repeats after a restart needs `EarlierBehind`: what was processed before lies at most
`Lag` beyond the head adopted since.

Writer. Order in the table is not inductive: it depends on what is still under
way. `TransitOrdered` orders table, `pending`, the slices of the channel and the
transfers in the consumer's hands one behind the other. `TableOlder` says that
the table lies before `pending`, except while a batch whose insert was doubtful is
inserted again (`Redone`): then the table ends where the batch ends, so the repeat
adds no row out of order and costs a batch at most, which is charged to the
doubtful insert. `PendingBounded` is inductive with `surplus` in it: while the threshold is passed, a forced
flush is under way before each further slice, and takes a batch. `NothingDropped` and `ActivityMatchesSent` follow from what each action moves.
The refinement needs in addition that what is sent is younger than all that was sent
before, what a crash took with it included (`SentOlder`). An insert is then a write of the
log (`InsertWrites`): its batch is the oldest of what waits, and while another is in doubt it
is that one. `Receive` and `FlushTick` cannot be seen in the log, because nothing younger than the
table is ever in doubt (`NothingRedoneNext`).

Alerts. `OneAlertPerTx` and `AlertsSpaced` speak of the table, the gate of two maps that forget:
`GateRemembers` says that the maps hold every alert they could still be asked about, the one for
the transaction under analysis and any younger than `KeepFor` of the present process;
`TxCurrent` that the transaction is the latest and has not been under analysis for longer than
`KeepFor`, which is the assumption the model's clock makes (`Tick`): an analysis of more than
`KeepFor` would let the gate forget its own transaction. That `KeepFor >= Cooldown` is an
assumption on the constants, which the code's satisfy. `QualifiedIsAnswered` needs the converse:
`GateEarned`, each entry of the maps is the trace of an alert that was let through, written or
refused, at the time it holds; and `LookedAnswered`, what the loop over the transfers has looked at is answered.

Data. Sums (`SumFunctionOnSet`), the backtest, `Keep` and the matching of one transaction against all filters
are recursive over data of any size, and the library's induction theorems, which take a
predicate for a parameter, cannot be instantiated here. `DataTheorems` puts induction first-order: a non-empty
set of numbers has a least one (`LeastNumber`), so a set of numbers with 0 and every successor
has them all (`NumbersOneByOne`); a non-empty family of subsets of a finite set has a
minimal one, so a family with the empty set and whatever follows from sets with one element less
has them all (`SubsetsOneByOne`). The predicate is the set of those that satisfy it. From this come
what a sum is and how it splits, scales, moves and grows (`SumWithout`, `SumScaled`, `SumMoved`, `SumMonotone`), that
what is computed step by step exists (`RecursionExists`), and what `Keep` leaves (`KeepPicks`).

Tokens. For the keys, the inductive invariant adds that rows keep their columns and that
a goroutine's stub exists (`JobsHaveRow`): without it the UPDATE of a goroutine might be of a row that is
not there. `PricesStep` and `TokensStep` say what a step may do to the two tables; `StepsSuffice` shows that this is enough, and each
action is shown to be such a step. The argument for holdings is in two places: an
insert checks the foreign key in the same statement, and the rollback's second
deletion is refused while a row refers to the stub.

For the books (`Books`), what is held of a contract is what is owed only while nobody works on it. `Fine` says
the rest: of a contract that is not excused, one request at most is at work, what is held is what
there should be at the statement that request has reached (`Expected`), and what the request has read of
the rows is still so (`Ready`). The totals need the same of the portfolio as a whole: while its total is not
known to be settled otherwise, the one request that trades is alone, and the sum it has read is the sum of
what is stored (`TotalsOK`). That rows are new when they are inserted (`Ids`), and that a request
only names rows it has found (`RequestsOK`), carries both through the deletions of the goroutines.

Executor. The cooldown is checked some steps before the row is there: `HandSpaced` says
that the signal in hand still keeps its distance when it is stored, because only
this goroutine stores signals. `AuditTrail` needs that a nonce is held by one
transaction and that what was recorded or dropped is never sent again (`Final`).

Rules. `StreamGapless` is not inductive with answers on their way: a late page could set
the position anywhere. `PagesClose` adds that a page on its way has no gap between
the position it was asked for and its own last row, and that the stream has shown all
before; the table only grows at its end.

That a rule has one finance alert of a transaction, and none on gas (`OneAlertPerRule`), rests on what
the matcher has in memory and what the table has being apart: `RulesInv` adds that every gas
price under way is a text with decimals, that every hash
of a block begins with the number of the block, that the table has nothing of a block before
all of it is matched, and that what is matched has no two alerts of the same rule, transaction and kind (`RowsInv`),
which the matcher's key gives. `AddFilterFacts` says what one filter adds: rows of
its own rule for this transaction, none twice, and all it asks for unless a call failed. The matching of
a transaction adds filter after filter, so both theorems follow by induction over the
filters; `FiltersIndependent` compares the rows of one filter among all others with those it gets alone.

Assets. `ChoiceHolds` needs that a clean asset has at most one upsert under way, and
that the row is as that upsert has read it when it is about to write (`Alone`). Then
completing the change by what was read is the same as putting it over the row,
`Over` being associative, and the defaults never touch a row that is there.
`ReadersAgree` holds in every state in which the tables are of their types: that the list takes an
asset's settings from its first row and the loop from each row comes to the same, as all rows of an
asset have the same key. The types are those of the price table too (`TableOK`,
`TodoOK`): no row twice, fresh rows behind all others, which `Update` and `Touch` keep by moving a row to
the end, and a new stub by its epoch in front; and of a work list only rows of the daemon's chain.
`SettledSymbolStays` then looks at who writes symbols: the goroutine, and a daemon, with what it has in hand.

Rollups. `RollupInv` is inductive once the drafts are part of it (`DraftsGrounded`): what a
stage has computed still holds when it commits, however long that takes, since transfers only add
and one goroutine writes each table. The sums need that hours without
activity, which the daily query leaves out, have no metrics, so that `DayTotal` is the sum of all hours of the
day (`DayTotalIs`). That no total shrinks is then the draft's own clause: it was not below
the stored total when it was read, and nobody has written since.

Optimizer. All but types and "no strategy" are facts about any series of points, of whatever
length. A run of the backtest is a function from the hours to states (`ByHour`). Two series of which one
begins with the other have the same windows, hence the same runs, up to the end of the shorter
(`SameRun`), so one more hour adds a trade at the most. `HourInv` adds to the spacing of trades
that the position held was entered a cooldown after the last exit. The average is bounded by
scaling: its window has a lowest price (`Extremes`), and as many times the volume is not more than the sum of price
times volume. The executor's short series is the long one moved, with the window inside (`ShiftedVwap`). With one
price the average is that price, so nothing dips below it by a threshold of at least a tenth of a percent:
no entry, no trade, and a combination without trades is not valid.

What is only model-checked: liveness, which is out of the prover's reach. Every safety and
action property of the passing runs is proved.

## Not modelled

- Rule generation, top-holder shares and quantiles of the rollups: arithmetic over the
  metrics, without state of their own.
- The anomaly runtime. It compares numbers and keeps no state. The metrics of the hour
  under way that it asks for are not there before the hour has closed
  (`token_activity_full.go:466`); the first transfer of an hour "dominates" it; the rows it
  inserts name columns `hour_ts`, `day_ts` and `amount_raw`, which `token_anomaly_events`
  (`mysql/init.sql:803-818`) does not have, and the error is dropped
  (`token_activity_full.go:470`). Its messages bypass the gate.
- The writer passes no token profiles, so `amount_usd` of every stored transfer is NULL:
  a value, not a behaviour.
- The Telegram bot: stateless commands, and an offset in memory, which a restart sets
  back, so that messages are answered again.
- The WebSocket hub: no route leads to `WsHandler`, so it has no clients.
- `RefreshTokenPricesFromDB` is never called; `AnomalyLogger.sol` is called by no Go code.
- The query of the mini app's rule cards names a column `a.is_read` that does not exist; like the
  other queries of the API it changes no state. Creating and deleting portfolios are single
  statements.
- Price arithmetic of DEX pools and oracles: external data to every module.
- Importers, label scrapers, metadata updater: they copy from web services into tables.
- The rest of the user interface, and the contents of messages.

## Where it could go on

1. A composition of `TransferWriter` and `HourlyRollup`: transfers stored after an hour's row is
   written are missing from its metrics for good, which `RollupInv` allows.
2. Rules over several blocks, and the stream of a rule that is deleted.
3. Deletion of portfolios with its cascades while requests are under way.
