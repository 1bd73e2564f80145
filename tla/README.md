# Quant trading system: specifications, model checks and proofs

This directory holds TLA+ models of the trading system in this repository, the
TLC configurations that check them, and theorems that TLAPS proves about them.
Every definition that models code is listed in `PROJECT.json` under `map`, with
the file and the lines it stands for.

## 1. The system

Services talk through Kafka topics; Redis holds what they share.

| Component | State it keeps | Operations | Talks to |
|---|---|---|---|
| Market data (`services/market-data`) | WebSocket connection and backoff, producer queue | connect, subscribe, consume, publish, reconnect, stop | exchange → `raw.trades`, `raw.depth` |
| Alpha engine (`services/alpha-engine`) | order book per symbol; window, counters and last side per strategy | apply a depth change, hand a trade to the strategies, emit signals | `raw.*` → `signals`; asks the breaker |
| Risk gateway (`services/risk-gateway`) | counters; circuit breaker API | read the portfolio, run the checks, approve or reject | `signals` → `orders`, `risk.events`, `audit.log`; Redis |
| Circuit breaker (`lib/quant_core/circuit_breaker.py`) | a key in Redis, a cached answer and its time per process | is_tripped, trip, reset | Redis; used by three services, several threads each |
| Execution (`services/execution`) | order tracker (memory and Redis), strategy modes, mid prices, traded volume | take an order, block, skip, place or simulate, report | `orders`, `raw.depth` → `order.status`, `fills`, `audit.log`; exchange |
| Exchange client (`coinbase_rest.py`, `rate_limiter.py`) | token bucket | acquire, send, retry | exchange |
| Post-trade (`services/post-trade`) | positions, costs, equity curve and peak, tracked signals, analysis jobs | apply a fill, a trade, a signal; publish the portfolio; answer the tabs and the export; run and poll jobs | `fills`, `signals`, `raw.trades` → Redis; dashboard |
| Storage (`services/storage`) | two buffers, snapshot counter | poll a batch, commit, flush | Kafka → TimescaleDB |
| Backtest (`services/backtest`) | the job under way | walk-forward, Monte Carlo, cost sweep, grade; evaluation of a list of fills | the database; called by the analysis jobs and the command line |
| C++ engine (`cpp/`), reconciliation, VaR | none shared | computations | — |

What is hard, and hard to test, about it:

* **Threads.** A breaker is shared by the consume thread, the heartbeat and the
  API workers of a service without a lock. Jobs of the dashboard change their
  entry under a lock that its readers do not take. An export takes the lock of
  the ledger six times, with fills in between. Calls of the exchange client share
  a token bucket and sleep outside its lock.
* **Delivery.** Consumers commit automatically, on a timer, what was handed out,
  handled or not; producers retry without idempotence and raise when their queue
  is full; a restart begins at the committed offset, or at the end.
* **Staleness.** The gateway decides from a portfolio that does not contain the
  orders under way, read key by key; a mode is read once per order; the breaker's
  answer is cached; a poll is answered when the tab follows another job.
* **Partial failure.** Redis goes down between two calls; one of two inserts
  fails; a thread ends by an exception while its process stays up.
* **Two computations of one thing.** Drawdown is computed in three places, alpha
  decay in two, the gain of a fill in three; the C++ engine is to replace the
  Python simulator. They agree under conditions that no test states.
* **Boundaries.** A fill that turns a position over; volumes at a threshold of the
  fees; windows of trades whose sizes are truncated one by one; ratios over a mean
  of zero.

`PROJECT.json` lists each hazard with its line and the properties that watch it.

## 2. Modules

| Module | Models | State and actions |
|---|---|---|
| `CircuitBreaker` | `circuit_breaker.py` | One action per statement of `is_tripped`, `trip`, `reset`; `key` is Redis, `cached` and `lastCheck` are the fields of each service's object, `now` its monotonic clock, and the ghosts record when the key was last one way or the other. |
| `CircuitBreakerLocal` | the same, in one process | adds a history variable for "what the last trip or reset here left". |
| `Execution` | `execution_svc/main.py`, `order_tracker.py`, `strategy_mode.py` | The consume loop as a program counter with one action per call that can fail or be interleaved; the tracker's dictionary and its copy in Redis, the mode overrides, the producer queue, offsets, the stop in its three steps, crash and restart. |
| `OrderStateMachine` | what the head of `order_tracker.py` promises | The abstract specification of one order's life. |
| `PortfolioStore`, `RiskGateway`, `PostTrade`, `TradingLoop` | Redis, the gateway's loop with its checks, post-trade's loop, and their composition with execution as the actor that fills or drops orders | `positions` is the hash in Redis, `snapshot`/`unread` the gateway's read under way, `book` post-trade's positions; the history `account` has the positions after each fill, and `actual` is the last of them. |
| `Storage` | `storage_svc` | `main()` as a program counter; the two buffers, what a flush has taken from them, the two tables, offsets. |
| `RateLimiter` | `rate_limiter.py`, the loop of `coinbase_rest.py` | Callers with `attempt`, `wake`, `deadline`; the bucket in 1/Period tokens, so that a unit of time adds one. |
| `OrderBook`, `MarketData`, `MarketFeed` | `order_book.py`; `market_data_svc`; both with the topic between them | `exchange` is the book at the exchange, `wire`, `queue`, `depthLog` the changes under way, `mirror` the alpha engine's book; `lost` collects the levels whose last change will not come. |
| `AlphaEngine` | `alpha_engine_svc/main.py`, `strategies/mean_reversion.py`, `strategies/momentum.py` | The consume loop for trades; the z-score of a trade is the zone it lies in. The producer delivers, or fails, repeats or overtakes; `sent` is what the topic adds up to. |
| `AnalysisJobs`, `AnalysisTab` | `analysis_jobs.py`, the endpoints of `dashboard.py`, `AnalysisTab.tsx` | Each `setattr` of an update is a step; requests of the tab pass through get, read and answer. `listed` are the jobs that its list shows as completed, rightly or no longer so. |
| `Account` | what a ledger promises | The abstract specification: a fill moves cash against inventory and pays its fee. |
| `PnL`, `AlphaDecay`, `Ledger` | `pnl.py`; `alpha_decay.py` and its offline twin; `state.py` with `tca.py`, the drawdown of `metrics.py`, the tabs and the export of `dashboard.py` | A method of the store holds its lock throughout and is one action; each tab that the export reads is one. `curve`, `peak`, `score`, `costs` are the fields of `PostTradeState`, `tracked` the tracker's deque. |
| `FillSimulator` | `fill_simulator.py`; price, fee and impact of `cpp/src/matching_engine.cpp` | Pure operators and `volume`, the volume that decides the fee tier. |
| `BacktestAnalysis` | `evaluator.py`, `_compute_symbol_metrics` and the best symbols of `backtest_analysis.py` | Pure: folds over a list of fills. |
| `Analytics` | simulator, ledger and analysis on one list of orders | `Execute` fills an order and enters the fill; trades, signals and readers interleave. |
| `WalkForward`, `Validation`, `Backtest` | `walk_forward.py`; `validation.py`, `monte_carlo.py`, `sensitivity_sweep.py`; the job that runs them (`analysis_jobs.py`, `cli_analysis.py`) | `trial` is the search in a training window, one action per parameter set and per test; `todo` the parts still to run; the figures and the grade are pure operators. |
| `DataTheorems`, `*Proofs` | theorems | see section 5 |
| `MC*` | instances for TLC | |

Operators marked "Mutant of" are not part of a specification. Each is a plausible
mistake in the definition that follows it; with it in that definition's place TLC
finds the property violated that `PROJECT.json` names beside it, which shows that
the property depends on the code.

Abstractions common to all modules: prices, sizes, messages and names are members
of small sets; log lines, metrics and formats are left out; a topic is one
partition, a sequence, from which one consumer group reads. Time is discrete where
it matters (`CircuitBreaker`, `RateLimiter`, the timestamps of `AlphaDecay`) and
absent elsewhere: a timer may fire whenever its step is enabled. Floating-point
amounts are integers in a unit that makes the quotients of an instance exact
(`PnL`, `FillSimulator`), quotients that are only compared are compared by
multiplying (`Validation`, drawdowns of `Ledger`), and `int(i * step)` of
`walk_forward.py` is the floor of the exact product.

## 3. Runs

| Run | States | What it shows |
|---|---|---|
| `circuit_breaker` | three threads of the gateway, one of them the API | However statements interleave, an answer rests on the key as it was no longer ago than the re-check interval and the length of three calls: a slow check that read it, a slow trip or reset between storing and stamping, and the slow call that answers. |
| `execution` | 634,748 | Two copies of one order. In one life an order is executed at most once; a fill tagged live was placed; after a strategy stops being live at most one order more is placed; a life loses at most the order it had in hand (`fate` records what became of each message); the tracker implements `OrderStateMachine`; every order published is handled to one of its ends, or lost to a commit ahead of it, or passed over by a restart without an offset, or left where a full queue ended the thread for good. |
| `trading_loop` | 183,734 | With one outage of Redis and queues that may be full at every `produce`: until the outage, bounds on how far the position can exceed its limit, on either side; Redis settles at the positions that the fills make, unless the last write to it failed; every signal is decided, but the one that the gateway has in hand when its thread ends. |
| `trading_loop_failures` | 471,544 | Two symbols, an outage and a restart. What Redis holds is a portfolio the account had, stale but never torn, as long as post-trade keeps its book; the book is a piece of the topic without a gap. |
| `trading_loop_sell` (violation) | one order at a time | Sells pass the position limit. |
| `storage` | 1,188,860 | Rows are repeated only by failed commits, ordered while commits succeed, lost only by crashes and failed inserts and then no more than a batch and a poll; everything else is stored in the end. |
| `rate_limiter` | two callers | No window of time holds more grants than burst and rate allow. |
| `market_feed` | 2,751,052 | The engine's book differs from the exchange's only in levels whose last change was lost; it is crossed only after a failure; the connection comes back, and the copy converges unless the engine's consume thread has ended for good. |
| `alpha_engine` | 1,862,534 | The two strategies of a symbol signal at the same trades and to opposite sides, so that what they ask for cancels; a life that ends in the middle, and a delivery that fails, is repeated or overtaken, leave at most one leg alone each. |
| `analysis_tab` | 450,068 | No entry is seen half written; whoever asks for what a list or a status showed as completed, however long ago, gets the result or, if a restart has lost the job, "Job not found", although fields are read without the lock; every job ends; the tab follows its job and gets free. |
| `post_trade_state` | 564,850 | Equity from realized and unrealized gains is cash plus inventory, also when a fill turns a position over, and the ledger implements `Account`; the three drawdowns agree while the chart shows the whole curve; the tabs of a workbook are in order; live and offline alpha decay take the same returns; the offline analyses realize what the ledger does until a position turns over, and choose the best symbol as the ledger would but for the rounding of returns; an order pays for the units it takes from the book, and its rate never rises. |
| `backtest` | 1,043,000 | No parameter set is tested on a trade that any training saw; no trade is tested twice; what a grade takes; the intervals of a distribution agree with its median and its share of positives. |

`TypeOK` of every module is an invariant of its instance; no run lists it where a
theorem or a deeper invariant rests on it.

### Bounds, and why they are enough

* `circuit_breaker`: `Interval` 2 and `MaxCall` 1 let a cached answer be fresh,
  expire during a call and outlive one. The clock does not grow: ages are capped
  where no action tells them apart. Three threads of one service: two share the
  cache in a race and a third trips. Services share only the key; the theorem
  covers any number.
* `execution`: two messages suffice for redelivery, an order after a redelivered
  one, and a restart between them; `QueueMax` 1 makes each `produce` fail in some behaviour,
  as the queue may still hold an event of the order before; `MaxRestarts` 2 lets a
  redelivered order be redelivered.
* `trading_loop`: `PositionLimit` 1 with orders up to 2 and `Window` 2 orders
  under way reaches both bounds; four signals reach them, settle and go on; one
  outage meets each step of a read and of a write.
  `Window` bounds what is between the approval and post-trade's write.
* `trading_loop_failures`: two symbols are what a torn read needs; one outage and
  one restart hit each step.
* `storage`: `BatchSize`, `PollMax` and `SnapshotInterval` 2 make a buffer fill
  within a poll, across polls and not at all; four messages of three kinds; one
  failure of each sort.
* `rate_limiter`: `Burst` 2 and `Period` 2: two grants at once, then waiting;
  `MaxTime` 4 holds a window that empties the bucket twice.
* `market_feed`: two prices and two sides are the fewest for a crossed book; three
  changes let a level be set, removed and set again; two failures compose.
* `alpha_engine`: `Warmup` and `Cooldown` 2, seven trades and two
  restarts: two signals of each strategy in a life, and a topic that grows over
  lives; `QueueMax` 2 is a queue that a trade fills; `MaxLosses` 1 is a delivery
  that fails, comes twice or comes late at any place of it.
* `analysis_tab`: one thread of the pool makes the second job wait; two requests
  overlap; the analysis type is the shortest, as the types differ only in how
  many updates they make.
* `post_trade_state`: four events open, add to, reduce and turn over a position;
  the orders have books that end before and after they are filled, and none; the
  thresholds of `Schedule` lie where two and three of them take the volume; four
  fills outrun a chart of `Window` 3 points; `ReturnStep` 8 is more than some fees
  and less than others, so that symbols tie by rounding alone; two horizons, trades on either side
  of each, and a signal at an empty book. The store is driven as its tests do
  (`TradesAreStamped`); section 4 says what the service does.
* `backtest`: numbers of trades that the splits divide and do not, windows smaller
  than the minimums, no trade at all; expanding and rolling; two parameter sets are
  a choice; `Sharpes` has a loss, nothing, and gains below and above what is
  asked; samples of twenty lie on both sides of each threshold.

`CHECK_DEADLOCK FALSE` is set where the bound on inputs lets the system come to
rest (nothing to trade, no job to submit, a job that is done).

### Fairness

* `Execution`: the consume loop's own steps (each call returns: the client bounds
  attempts and timeouts), strong fairness of `PollOrder` since poll serves depth
  and orders alike, the sender, the steps of a stop, and the restart by the
  container (`restart: unless-stopped`). None for signals, crashes, mode changes.
* `TradingLoop`: the loops run, the gateway's until its thread ends, and Redis
  comes back.
* `Storage`: the main loop; strong for `PollBatch`, which a poll that finds
  nothing may interrupt, and for `Flush`, which waits for the interval.
* `MarketFeed`: the connection loop, the producer, the consumer while its thread
  runs, the restart of market data, whose process ends. None for changes of the
  market, failures, or a restart of the alpha engine, whose process stays up.
* `AnalysisTab`: threads of the pool and of the server, the browser's timer
  (strong for `Poll`: all requests may be in use when it fires).

`Analytics` and `Backtest` promise nothing that must happen: the one serves what
comes, the other is a loop over finite lists.

## 4. Where code and text disagree

The run `trading_loop_sell` of `PROJECT.json` has a finding: `risk_checks.py:55`
adds an unsigned quantity to the position, whatever the side.

The rest, met while modelling, is stated as properties under "What the code does
not keep" in the modules, without a run of its own. TLC violates each under the
configuration given, with the property put in the place of those listed there and
the changes named:

| Property | Configuration | What the code does, what the text says |
|---|---|---|
| `CircuitBreakerLocal!TripIsVisibleLocally` | `MCCircuitBreakerLocal.cfg`, as it is | `circuit_breaker.py:59`: a check under way stores its FALSE over a trip; "trip() updates the local cache immediately". |
| `Execution!FilledIsFinal` | `MCExecution.cfg`, as a property | `order_tracker.py:58`: a redelivered order overwrites FILLED in Redis. |
| `Execution!NoOpenOrderAtRest` | `MCExecution.cfg`, as an invariant | `execution_svc/main.py:276`: the rejection comes after ACCEPTED, from which the table allows none, so that a refused order stays open; `order_tracker.py:9` "SUBMITTED → REJECTED". |
| `Execution!StopLosesNothing` | `MCExecution.cfg` with `GracefulSpec`, as a property | `main.py:385`: the flush does not wait for the consume thread; `README.md:130` "Every fill and blocked order logged". |
| `TradingLoop!PositionWithinLimit`, buys only | `MCTradingLoop.cfg` with `Sides <- BuyOnly`, as an invariant | `risk_gateway_svc/main.py:246` does not see orders under way; `README.md:97` "against actual positions, not stale defaults". |
| `TradingLoop!ExposureWithinLimit` | `MCTradingLoopFailures.cfg` with `ExposureLimit = 1`, as an invariant | `main.py:249` passes no prices, and positions weigh nothing; `risk_checks.py:123`. |
| `TradingLoop!EveryDecisionIsAudited` | `MCTradingLoopFailures.cfg`, as an invariant | `main.py:235`: a rejection by the breaker is not audited; `README.md:113` "Every approval and rejection". |
| `TradingLoop!RedisIsCurrentAtRest` | `MCTradingLoopFailures.cfg`, as an invariant | `post_trade_svc/main.py:179`: a failed write is not repeated; `README.md:133` "always has current data". |
| `TradingLoop!EveryTakenSignalIsDecided` | `MCTradingLoop.cfg`, as a property | `risk_gateway_svc/main.py:246`: an error of Redis ends the thread, and so does a full queue at each `produce` (lines 235, 252, 290, 295); `README.md:178` "fails safe". |
| `TradingLoop!RestartedBookIsReal` | `MCTradingLoopFailures.cfg`, as an invariant | `state.py:60`: a restarted book is empty and is written to Redis; `portfolio_state.py:3` "source of truth". |
| `Storage!EveryTradeIsStored` | `MCStorage.cfg`, as a property | `consumer.py:52` commits before the rows are written; `storage_svc/main.py:4` "persists them". |
| `MarketFeed!SilenceEndsTheConnection` | `MCMarketFeed.cfg`, as a property | `exchange_ws.py:31` `STALE_TIMEOUT_S` "force reconnect" is never used. |
| `MarketFeed!BookIsNeverCrossed` | `MCMarketFeed.cfg`, as an invariant | `publisher.py:4` "ensures per-symbol ordering": not with retries, nor across reconnects. |
| `AlphaEngine!ModelStateIsCurrent` | `MCAlphaEngine.cfg`, as an invariant | `alpha_engine_svc/main.py:169` skips the strategies while tripped; `README.md:178` "continues updating model state". |
| `AnalysisTab!ActiveJobIsPolledToItsEnd` | `MCAnalysisTab.cfg`, as a property | `AnalysisTab.tsx:528`: the answer for an older job ends the polling of the new one. After a restart of the service "Job not found" is asked for ever, with the buttons disabled. |
| `Ledger!PricesAreLatest` | `MCAnalytics.cfg` with `TradesAreStamped = FALSE`, as an invariant | `post_trade_svc/main.py:206` reads `trade.timestamp`, a field that `Trade` does not have; the exception is swallowed, so that prices and alpha decay are never updated; `state.py:73` "Latest prices per symbol (for unrealized PnL)". |
| `Ledger!FeesAreOfTheSymbol` | `MCAnalytics.cfg`, as an invariant | The fills tab counts the fees of all symbols, and the risk and drawdown endpoints take no symbol; `dashboard.py:6` "all endpoints accept an optional ?symbol=". |
| `Ledger!MaxDrawdownIsDeepest` | `MCAnalytics.cfg`, as an invariant | `metrics.py:66`: the peak starts at the first point of the curve, so that the loss of the first fill is no drawdown. |
| `Analytics!BacktestIsLive` | `MCAnalytics.cfg`, as an invariant | `evaluator.py:242` "Guarantees backtest and live can never diverge": after a fill that turns a position over they realize different gains. |
| `Backtest!TradeableProfits` | `MCBacktest.cfg`, as an invariant | `validation.py:33` "tradeable": a strategy that never profits at any cost, or never trades, can be MODERATE, since a breakeven of 0 raises no flag. |
| `WalkForward!MinimumsAreKept` | `MCBacktest.cfg`, as an invariant | `walk_forward.py:37` "minimum trades": with fewer windows the sizes are not compared again. |

Seen in the code, with nothing to check:

* Gateway and services: the VaR check never gets an estimate
  (`risk_gateway_svc/main.py:249`); `README.md:64` names storage as the consumer
  of `audit.log`, which reads only raw topics; Redis may evict the breaker's key
  (`docker-compose.yml:89`); mid prices come from the levels of a change, removed
  ones included (`momentum.py:157`); `README.md:94` says that pairs strategies are
  registered, which `alpha_engine_svc/main.py:96` has commented out; the progress
  of `run_all` falls where a part begins anew (`analysis_jobs.py:712`); the
  snapshot counter of storage is lost at a restart.
* Post-trade: a fill record never gets a decision price, so that the impact of the
  cost analysis is 0; its spread is the absolute value of its slippage; the volume
  behind a fee tier, called 30 days, never expires; the strategies stamp signals
  with the time they are made, not with that of the trade.
* Backtest: the evaluator's metrics do not look at the symbol of a fill and charge
  the slippage that the price contains already (`evaluator.py:128`); the Monte
  Carlo command resamples a straight line (`cli_analysis.py:393`); a test mean of
  exactly 0 is WEAK where one slightly above or below it is FAIL; the results
  store keeps no Sharpe ratio, so that a comparison by it ranks all alike.
* `paper_trading_validator.py`: its pass rate counts iterations, and within the
  last interval it iterates without a pause; of the checks in its head it does not
  make 1, 4, 6 and 7; it compares a drawdown in percent with a fraction, and asks
  for `win_rate` where the endpoint answers `win_rate_pct`.

## 5. Proofs

TLAPS checks every theorem for all values of the constants that satisfy the named
assumptions, which TLC evaluates on the instances:

* types of the constants, lengths and periods at least 1:
  `CircuitBreakerAssumption`, `ExecutionAssumption`, `RateLimiterAssumption`,
  `RiskGatewayAssumption`, `PostTradeAssumption`, `TradingLoopAssumption`,
  `AlphaEngineAssumption`, `StorageAssumption`, `OrderBookAssumption`,
  `MarketDataAssumption`, `MarketFeedAssumption`, `FillSimulatorAssumption`,
  `LedgerAssumption`, `AnalyticsAssumption`, `ValidationAssumption`,
  `BacktestAssumption`, `BacktestAnalysisAssumption`;
* `AnalysisJobsAssumption`: the types are those that the code knows, and no job is
  called "none";
* `WalkForwardAssumption`: the share that trains is between 1 and 99 percent,
  splits and minimums are at least 1.

The modules and the arguments:

* **`DataTheorems`** has what several proofs need of numbers and finite sets. A
  theorem about every predicate cannot be instantiated by the provers, so that
  induction is stated of a set that is closed: `Induct` for numbers, `InductOnSets`
  for finite sets. From them: finitely many numbers have a largest and a smallest,
  and the sums of the community modules are what a sum should be (`SumExists`,
  `SumWithout`, `SumChanged`, `SumOfSums`, `SumOfSome`).
* **`QuantCoreProofs`**, circuit breaker: `BreakerTypes`, `TripIsNotLost`,
  `ResetIsNotLost`. The answer's age alone is not inductive: it comes from the
  cache, whose age comes from a check that is between two statements. `IInv`
  therefore says of every place that holds an answer — the value a thread has read
  (`StoreInv`), the cache (`CacheInv`), the time a thread will stamp (`StampInv`),
  the answer (`AnswerInv`) — how long ago the key last was as it says.
  Rate limiter: `TypeCorrect`; `BucketKeepsToTheRate` by a potential: `Spent` ties
  the grants of each window to the tokens that were added in it;
  `LoneCallerKeepsToTheRate`: if `Timeout` is at least `Period`, a single caller's
  `acquire` is never answered False, so that requests keep to the rate
  (`Paired`: each request has its grant).
* **`ExecutionProofs`**: `TypeCorrect` with the offsets' order (`Shape`);
  `OneExecutionPerLife` and `LiveFillsArePlaced` from `Done`, which relates the
  counts of each message to where the loop is (`Executions`, `Fills`) and says
  that the loop places orders only in live mode (`PlacingIsLive`);
  `LatePlacementsAreBounded` from `Lateness`: the one late placement left is that
  of the order in hand, while its mode has been read and not yet used;
  `CommittedIsDone`; `LossesAreBounded` from `Fates`: of the
  messages handed out and not handled, only the one last handed out can be covered by a
  commit (`OneUncovered`), as the loop takes no other before its handler is done;
  and `TrackerImplementsStateMachine`, the refinement: initial
  states map to initial states and every step to a step of `OrderStateMachine` or a
  stutter, because every status but the first is set by `Transition`, which
  consults the table.
* **`TradingLoopProofs`**: `BookIsAPiece`, `RedisIsNeverTorn`, `OvershootBounded`.
  The history `account` carries the sums over the fills: `History` says that each
  of its entries follows from the one before by one fill. The book is then a
  difference of two entries, and what Redis holds one of
  them: `Complete` says that until a restart the book has all fills and that a
  symbol it does not know has none, so that a write is of the whole portfolio. For
  the overshoot, which is of behaviours up to the first outage or restart, `Synced` says
  which entry Redis holds, `Small` that entries lie apart by no more than the
  largest order per fill, and `Narrow` that the window bounds what is under way.
  `Reading` then bounds, for each symbol that has been read, the account together
  with the orders under way by the value read, while fills go on between the
  reads; and `Pending` bounds where each approved order can carry the account if
  all before it go the same way. Filling or dropping the first order takes one from
  the allowance of each that follows.
* **`MarketFeedProofs`**: `FeedTypes`, `CopyIsTheBook`, `FeedIsNotCrossed`. The book
  is only right once the changes under way have come. `Flow` is these, in order:
  the topic, the producer's queue, the wire. `Follows` says that, for every level not
  counted as lost, the last change in `Flow` beyond the engine's position, or the
  copy where there is none, is what the exchange has; a message that is lost
  or overtaken takes its levels out of this. After a restart the engine reads on at
  its offset, with an empty book; `Applies` says that the copy shows what this life
  has seen of a level. A caught-up copy has nothing before it. For
  `FeedIsNotCrossed`, `Calm` says that, as long as nothing failed, no prefix of
  `Flow` has two sides up that cross, as no past book of the exchange was crossed,
  and `Told` that what the copy has up, the prefix up to its position has.
* **`StorageProofs`**: `TypesHold`, `RowsAreWrittenOnce`, `RowsAreInOrder`,
  `LossStaysBounded`. `Kept` says what buffers and flush hold: rows
  below the position, in order, each in one of the two. Of a kind of rows the steps
  do only five things (`Moves`: nothing, poll, commit, fail to, write). `Once`
  bounds the copies of a row in a table by the commits that failed, and one more if
  the offset is past it; a row in hand has that one still to come. `Ahead` says
  that, while commits succeed, a table rises up to the committed offset and what
  is in hand comes after it. Trades that were handed out and are neither in the
  table nor in hand are `Gone`; a step adds to them only if it is a crash or a
  failed insert, and then what was in hand, which `Careful` keeps short of a batch
  and one poll.
* **`PostTradeProofs`**, analysis tab: `EntriesWhole` and `CompletedIsAnswered`.
  Neither is inductive: between two fields of one call of `_update` the entry is
  not whole. `Server` says what the entry of a job holds at each stage — queued
  (`Queued`), running with no call under way (`Runs`), in the hands of the holder
  of the lock with the fields it still has to set (`Writing`), over (`AtRest`) — and
  `Requests` what a request under way has seen, which stays true because
  `completed` and the result are never taken back (`Stable`) except by a restart.
  One that a restart took with it stays unknown to the server (`Lost`), which is why a
  stale list (`Listed`) or an answer on its way can only lead to "not found".
  `ActiveJobFollowed` is an action property: `Own` says
  which job each request of the tab is for.
  Ledger: `BooksAlwaysBalance` and `LedgerIsAnAccount`, the refinement of `Account`.
  `Balanced` says of every symbol that what its position is worth at cost, with
  gains and fees, is minus the cash of its fills, a sum over the list of fills;
  `CashMoves` that a fill keeps this, in the four cases of opening, adding,
  reducing and turning over. Prices are integers in the model, while the code
  divides to take an average. Both theorems are therefore of behaviours in
  which no order meets a position whose average would not be a whole number of
  units (`AveragesAreExact`); the unit being ours to choose, this loses no finite
  behaviour of the code but the rounding of its floats. The condition holds
  throughout `MCAnalytics`. `TabsAreInOrder` needs nothing of the kind.
  `DrawdownsDoAgree` assumes `Solvent`, that no point of the curve has fallen to
  zero: below it the ratios of the code change sign or are skipped. It rests on
  `PeakIsHighest` and on the deepest of finitely many ratios, compared across
  peaks by multiplying.
  `OrdersDoPayTheirPrice` is about the simulator. `WalkIsALoop` turns the library's
  fold over the levels into the loop of the code, `WalkPaysByTheUnit` is the
  invariant of that loop (what is left of the order, and what its units have cost so
  far, counted one by one), and `OrdersFilled` the invariant over time: what an
  order paid is no less than what the schedule asks now of its kind, since tiers only
  move on (`TiersFall`). (No caller passes a book to the simulator, so that today an
  order pays its limit or half the spread; the walk is what the simulator offers.) It
  assumes a schedule whose rates do not rise with the
  volume, as the one of the code, and fees that are exact in the unit of money.
  `AnalysisDoesMatchLedger` rests on `SymbolsAgree`: the run of the analysis over the
  fills of a symbol is at the position of the ledger, and as long as no fill took it
  to the other side (`Flips`) at its entry price and its net gain. What it names best are rounded
  returns: `RoundingKeepsOrder` says what their order tells of the gains. `BookedAlike`
  is the step; `OfSymbolGrows`, `SymbolMetricsGrow` and `FlipsGrow` say what one fill
  more makes of the three folds. No exact average is needed: both divide alike.
  `HorizonsDoMatch` says that two programs agree: one that looks at each trade as it
  comes, and one that sorts all trades and searches them. `SignalsAreRight` is the
  invariant: for a symbol whose trades came in order, the sorted trades are those of
  the symbol as they came (`Follows`, kept by `FollowsOneMore`: a trade that came
  later than all has its place at the end), and a horizon holds the first of these at
  or after it, or nothing (`Right`); one trade more then changes the answer of both
  alike (`SearchOneMore`, `EvaluatedIs`). That the search finds this first is
  `SearchFindsTheFirst`, by induction on the width of its window (`SearchExists`,
  `SearchFinds`, `HalfHasTheFirst`): where the times do not fall, the half that it
  goes on with has the same first. `AnalysisTakesTheNearest` says what the analysis
  answers when trades did not come in order: `PlacedBetween` is the insertion,
  `TimelineIsSorted` the sort (in order, all the trades of the symbol, no others),
  and of several trades at one time the one of the lowest price is taken, as the
  code sorts pairs. The sort is written as insertions in `AlphaDecay`, with the same
  result as Python's: the provers cannot expand `SortSeq`.
* **`StrategyProofs`**, strategies: `StrategiesAlwaysCancel` and `FewLegsAreAlone`.
  Between the two strategies' turns at a trade the counters differ, so that `Pairs`
  says of that moment (`MeanIsAhead`) that momentum is about to do what mean
  reversion has done, to the other side. `Legs` says of the queue that each signal
  in it starts from what the one before left open: the sums of the topic with the
  first signals of the queue (`LegsAre`) all lie within the bound, one for each life
  and each failed, repeated or late delivery. A signal that is taken out of the
  middle, sent again or dropped moves the sums after it by one, and counts one.
  Backtest: `NoLookAhead` and `FoldsApart`, for any number of trades,
  splits and minimums. The invariant `WindowsInv` says that the folds done are the
  windows of the setup in order. That these lie apart is arithmetic: `WidthFits`
  (the truncated sizes of a window fit the trades as often as there are windows)
  and `StartsApart` (two truncated starts are a window apart), from the two
  defining facts of division, `Division` and `DivisionAtLeast`.
  `GradesAreEarned` follows each flag from the sums over the folds into the count
  of criticals and warnings (`GradeIs`). `IntervalsDoAgree` is for samples of any
  size: every place of a sample has a value (`HasPlace`), the values rise
  (`SortedRises`, kept by `SimsInv`), the truncated place of a level lies in the
  sample and rises with the level (`Places`), and the positives are the last ones
  (`PositivesAreLast`).

Only model-checked:

* All liveness, and of what the passing runs check nothing else
  (`EveryOrderIsHandled`, `LoopSettles`, `EverySignalIsDecided`,
  `EveryTradeIsStoredOrLost`, `MirrorConverges`, `FeedComesBack`, `EveryJobEnds`,
  `TabGetsFree`): fairness and ENABLED are out of the prover's reach.
* What the code does not keep (section 4).

## 6. Not modelled

* Floating-point statistics without a protocol: the VaR model, Sharpe, Sortino and
  Calmar ratios, the correlation of alpha decay, how returns are resampled, what an
  evaluation of parameters answers. Where they feed a decision they are inputs.
* Straight-line code without shared state: replay, results store, comparison and
  parameter grids of the backtest, the reconciliation (which no service calls), the
  paper trading validator (section 4), configuration, logging, metrics and message
  classes.
* What is not reached: the regression and pairs strategies with the cross-asset
  tracker, the Brownian bridge of the simulator, order book and features of the C++
  engine.
* Repeated, late or failed deliveries of signals and orders between the services of the
  trading loop, and a restart of the gateway: `TradingLoop` is of topics that hold what
  was sent, in order. What failed deliveries make of the signals of the two strategies
  is in `AlphaEngine`, what they make of changes of a book in `MarketFeed`.
* The layout of the frontend; topic creation; the exchange's signing and parsing.
* Redis evicting a key (`docker-compose.yml:89`): that of the breaker's key
  would be a reset that nobody called.
* Requests of several callers whose `acquire` timed out (`coinbase_rest.py:111`): no
  bound holds; what a lone caller keeps is proved.
