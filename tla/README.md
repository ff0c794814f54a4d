# A TLA+ model of the trading bot

This directory specifies the bot under `src/` in TLA+, checks the
specifications on small instances with TLC and proves the theorems that matter
most with TLAPS.  Paths below are relative to `src/`.  `PROJECT.json` lists
every component, run, mutant, hazard, finding and theorem, and maps each
definition to the lines it models.

## 1. The system

| Component | State it keeps | Operations | What makes it correct |
|---|---|---|---|
| **On-chain write path**: `EthereumExecutor.execute_swap` and below (`executors/ethereum_executor.py`) | nonce lock, local nonce floor, hash last sent (per instance); kill switch; reference prices; allowances; the account on Base | swap, approve, sign, broadcast, re-sign, await a receipt, look a transaction up | one decision fills at most once; one transaction in flight; no nonce gap; the kill switch stops the wallet; no call hangs; what fills pays close to the price of the decision |
| **On-chain balance reads** (`get_balances`, `retry_rpc_call`, `_call_with_failover`) | the endpoint in use | read balances with retries and failover | no entry of a held token is cleared |
| **Trading cycle**: `run_executor_strategy` (`trading_bot.py` 372-762) | a snapshot of the state file, counters of the cycle | reconcile, check the breaker, reset, buy, manage holdings | what the bot knows it bought stays within the cap; no re-entry in a cooldown; a profit level fires once; no unfilled sale is booked |
| **Sizing** (`core/risk_manager.py` 137-201, 415-478) | none | sizes of the candidates of a cycle | budget and share of an asset are kept |
| **Coinbase orders** (`executors/coinbase_executor.py`, `coinbase_futures_executor.py`) | orders and holdings at the exchange | cancel, place, look a fill up, read balances | orders do not pile up; lots are managed; no lot is sold twice unless a sale rests or an answer is lost |
| **StateManager** (`core/state_manager.py`) | the JSON state file | load, save, and mutators that load, change and save | updates are kept; flags belong to an entry |
| **Regime** (`core/regime_detection.py`, `trading_bot.py` 312-342, 910-1004) | confirmed regime and streak, in the state file | read the regime, apply the hysteresis | noise does not flip the regime; a lasting signal does |
| **RiskManager, circuit breaker** (`core/risk_manager.py`) | peak (file), pause (memory) | check, reset the peak | a halt lasts for its cooldown and ends |
| **Strategies** (`strategies/`, `trading_bot.py` 77-94) | flags, high-water mark and clock of an entry (in the file) | entries, additions, exits, switch with the regime | stops never move down; profits are not given back; nothing is held for ever |
| **WebSocket mode and run lock** (`core/ws_client.py`, `trading_bot.py` 138-166, 833-845, 1048-1221) | caches of file and balances; subscriptions; a lock file | ticks, scans, reconnects, JWT refresh, periodic status, shutdown | one process trades, but for threads it gave up waiting for; nothing is lost; exits are checked on ticks; scans keep coming; a shutdown ends |
| **DerivativesDataProvider** (`core/derivatives_data.py`) | cache with times to live | three readings; modifier and veto | nothing older than its time to live and the scan decides |
| **ZeroExClient** (`executors/zerox_client.py`) | time of the last request, a lock | throttled, retried requests | rate limit and Retry-After are kept |
| **Regime messages** (`report_bot.py`, `notify_telegram.py`, `core/telegram.py`) | log, report, last status | report, notify | messages tell one story |
| **Backtesting engines** (`backtesting/`) | cash, positions, trades | candle loop, entries, exits | the books balance |
| Trade log, migration, dashboard, profit report, debug scripts | files of their own | | |

Interaction: a systemd timer runs `run_bot` every three minutes, a process per
cycle, or `--ws` runs one process in which a scan every two minutes runs
`_run_bot` in a worker thread while the event loop handles ticks.  `_run_bot`
builds its executors anew, reads the regime, and runs `run_executor_strategy`
for each of them.  All of them share the state file; every access takes the
file lock, but loading, deciding and saving is never one locked step.

What is hard: transactions that time out and land anyway; nonces read from a
node that lags; two scans that overlap after a reconnect (the task is cancelled,
its thread is not); snapshots of the state file saved over newer versions; purchases
that fill in part and are taken for none;
crashes between an order and its record; balance reads that fail half way;
orders and messages whose answer is lost; cancellations that fail; memory that the next process does
not have.

## 2. Modules

| Module | What it models | Role |
|---|---|---|
| `OnchainSwap` | the write path: callers (threads) on executor instances, against a node that mines, drops, lags, re-gossips and delays | detailed specification |
| `SwapPromise` | what the write path promises to the code that trades | abstract specification, implemented by `OnchainSwap` |
| `OnchainSwapProofs` | types, kill switch, finality, one swap at a time, no nonce gap | proofs |
| `OnchainSwapRefinement` | that `OnchainSwap` implements `SwapPromise` | proofs |
| `SwapGuards` | the prices of one caller's swaps: reference, quotes, allowances, floor, deadline, wait | proofs in `OrderProofs` |
| `BalanceReads` | balance reads over endpoints that fail, and the entries they clear | proofs in `ServiceProofs` |
| `TradeCycle`, `TradeCycleProofs` | one executor's cycle and the state file | with proofs |
| `BuySizing` | the sizes of one cycle's candidates | proofs in `DecisionProofs` |
| `CoinbaseOrders` | the orders of one product, spot or futures, when requests fail | proofs in `OrderProofs` |
| `RegimeHysteresis` | readings, hysteresis, overlapping scans and the copies of the file they save | proofs in `DecisionProofs` |
| `DrawdownBreaker` | the circuit breaker over cycles, time and restarts | proofs in `DecisionProofs` |
| `Positions` | the strategies over the life of a position | proofs in `DecisionProofs` |
| `DerivativesSignals` | cached readings and what a scan makes of them | proofs in `DecisionProofs` |
| `WsMode`, `WsModeProofs` | the long-lived process and its threads, the timer's process, and the lock between them | with proofs |
| `ZeroExClient` | throttle and retries | proofs in `ServiceProofs` |
| `RegimeAlerts` | a regime on its way from log to message | proofs in `ServiceProofs` |
| `Backtest` | the candle loop and books of three engines | proofs in `DecisionProofs` |
| `Sums`, `SumTheorems` | sums over finite sets: worths, what orders hold, books | with proofs |
| `Decisions` | `TradeCycle` beside the breaker, the regime, the strategies, the sizes, the signals and the backtests | sum, for every value of the constants |
| `Requests` | `OnchainSwap` beside prices, balance reads, Coinbase, 0x and messages | sum, for every value of the constants |
| `DecisionProofs`; `OrderProofs`, `ServiceProofs` | theorems about the parts of `Decisions`; of `Requests` | proofs |
| `MCOnchainSwap`, `MCTradeCycle`, `MCRegime`, `MCDecisions`, `MCRequests` | constants and symmetry for TLC | |

`Decisions` and `Requests` put modules side by side that share no state: each extends the
largest (`TradeCycle`, `OnchainSwap`) and instantiates the others (`K!`, `R!`, ...).
`part` says which of them is at work, the others stay as they began, and the fairness
a module states is conjoined for its own part only.  A behaviour of such a sum is a
behaviour of one module, so that an invariant holds of the sum exactly when it holds
of the instances; properties that would hold, or fail, by a part that is idle name it.
The theorems about a part say both: that its own specification has the property, and
that the sum TLC runs has it.  The second follows from the first argument, since every
part of a sum begins as it does by itself (`SumBegins`, `ServicesBegin`) and each step of the sum is a step
of the part or leaves it alone (`SumMoves...`).

### OnchainSwap

One action per step of the code: `ExecuteSwap` (the preflight), `AcquireNonceLock`,
`ReadPendingCount` and `InFlightCheck` (`_has_unconfirmed_tx` reads the two counts
one after the other), `Quote` (price checks and allowance; approvals are
transactions of their own), `BuildSwap`, `GetNonce`, `Sign` (with the kill
switch), `Broadcast`, `Reconcile` (`_is_tx_known`, then commit, or sign again up to
`MaxAttempts`), `AwaitReceipt`, `LookupStatus`, `ResyncNonce`, `VerifyFill`.
`StopLossFallback` is the second order `run_executor_strategy` places when the first
answer was a failure that is not pending.  The lock is released before waiting for
the receipt of a swap and held while an approval is awaited, as in the code.
Any read may raise (`Fail`).

The node is the environment: it mines the account's transactions in order of
nonce, successfully or not, and may drop pending ones.  `Faults` adds a pending view
that lags (`"lag"`), dropped transactions that come back (`"regossip"`) and
broadcasts that arrive after the call gave up (`"late"`).

### SwapGuards

`OnchainSwap` leaves prices out; `SwapGuards` is about nothing else, with one caller and
a broadcast that succeeds or raises.  An order (`place_limit_order`,
`place_market_order`, which falls back to the price remembered) enters a router
(`execute_swap`, `Enter`).  Aerodrome: `Quote` takes the best of the routes,
`_approve_token` and a second `Quote` when it sent a transaction, `CheckQuote`.  0x:
`AskPrice`, `_approve_token`, `AskQuote`; an answer that is not usable sends a sale to
Aerodrome (`Unusable`).  `Send` and `_await_swap` follow, while `Tick` lets time pass and
`Mine` fills the swap at whatever the market then offers, if the floor, the allowance and,
on Aerodrome, the deadline admit it.  A price is a rate in both directions, so that the
deviation of a buy and of a sale are the two formulas of `_adverse_price_deviation`.

### BalanceReads

A cycle builds an executor on the first endpoint (`NewExecutor`), looks for stranded
tokens with `_call_with_failover` (`CheckStranded`: an error rotates the endpoint), and
then asks for each token of `TokensToScan` with `retry_rpc_call` (`_check_balance`: a
limit or a timeout is retried, and a token that could not be read is left out).
`Reconcile` clears the entries of tokens that were asked for and not found.  Endpoints
change at any time (`Fluctuate`); `steady` is the history variable of those that did not
fail during a read.

### TradeCycle, BuySizing, CoinbaseOrders

`TradeCycle`: the state file is a record: entries, take-profit flags that are set, running
stop-out cooldowns, the number of booked trades, the peak.  Each mutator of
`StateManager` is an operator on it.  A cycle is a sequence of actions that ends in
one of the returns of `run_executor_strategy`; the order in which candidates and
holdings come is arbitrary, the decisions the prices lead to are nondeterministic,
and the process may die between any two actions.  `state` is the local variable of
that name: the snapshot saved by `NewHigh` and `ExitTriggers`.  `BuyUnconfirmed` is a buy
that `check_order_filled` does not report as FILLED: it is cancelled and passed over, and at
Coinbase it may have filled in part, or whole with its answers lost, so that the account holds
what no cycle has counted or recorded (`GetsUnseen`); with `"late"` it may also fill afterwards
(`LateFill`).  `ideal` is a history variable, the file as it would be if no update had been
lost; `fired` counts, per entry, how often each level was ordered; `missed` are the assets
that came unseen since a read last found the account within the cap.  On chain the balances looked up are those
of the tokens with an entry in the file and of `Scanned`; Coinbase lists all.

`BuySizing`: a cycle takes its candidates in any order (held ones first); `Evaluate` sizes one with
`calculate_position_with_existing`, the bear scale and the modifier, `Bought` takes it off
the cash, `NotBought` is every way the order does not go through.  Dollars are whole,
ratios are in thousandths.

`CoinbaseOrders`: a cycle begins with `get_balances`, which may get no answer, or too few of its
pages: then nothing is available and the entry is cleared, and a later cycle adopts the lots
again (`Adopted`).  On the spot market `Dust` lots are not among the balances, and an exit or
an adoption asks for `Least`, an order's minimum.  `ListOrders`, `Cancel` and `Post` are the three
requests of a placement, `check_order_filled` polls, `Answered`, `Refused` and `NoAnswer` are the
branches of `run_executor_strategy`.  Orders fill, in part or whole, between any two of
them, and every request may fail on its own, its effect done or not.  `doubled` (lots that may be
sold once more than they are there) and `answered` (this cycle's balances and price were read) are
history variables.  `Lossy` holds the contract counts for which
`int(n * size / size)` is `n - 1` in floating point.

### RegimeHysteresis

`resolve_regime` is an operator on the two signals.  A scan is `Detect` (compute the reading,
load the file), `apply_regime_hysteresis` (decide, save), and then, while it trades, any number of
`Load` and `SaveSnapshot` up to `Finish`: `run_executor_strategy` and the periodic status save
the whole file they loaded, regime and streak included (`trading_bot.py` 660, 674, 843).
Overlapping scans overwrite each other in both ways.  `recent` (the last readings acted on)
and `overlapped` are history variables.

### DrawdownBreaker

`check_circuit_breakers` with one action per branch, preceded by the guard of
`run_executor_strategy` that skips a cycle whose value is below a tenth of the peak.
Time passes in hours.  With `OneShot` the pause is forgotten at the end of every
cycle, as with the timer.  `down`, how long the halt has lasted, is a history variable.

### Positions, DerivativesSignals

`Positions`: a scan is `ReadRegime`, then `Buy`, `TopUp` or `BuyNothing` by `scan_entry`, then `Check` by
`check_exit` of the strategy in force.  Prices are whole units; RSI, momentum and ATR
are sampled on either side of each threshold.  Mean reversion counts the scans since
the entry (a scan is a candle).  `seen` and `last` are history variables.

`DerivativesSignals`: a scan wants three readings in order, each from the cache if `Fresh`, else from a request that
is answered or fails (`Ask`, `Answered`, `Failed`); with the three it trades, until `Decide` ends
it.  The world changes (`Move`) and time passes (`Tick`) between any two steps, up to `ScanTicks`
while a scan lasts, except that a request, which times out after ten seconds, outlasts one tick
at most.  History variables: `truth` is how long ago each reading was last right, `elapsed` how
long each scan has taken.

### WsMode

`StartWs`, `LeaveWs`, `KillWs` and `StartTimer`, `KillTimer` are the two processes and the
lock; `Connect`, `Disconnect`, `HearMessage`, `EndBackoff`, `EndRun`, `RefreshJwt` the
client; `StartScan` gives a scan a thread, and `Trade`, `LoadForStatus`, `SendStatus`,
`SaveStatus`, `LoadForRefresh`, `SwapSnapshots` are its steps: it loads the state file twice and
saves a copy of it once, and `Dropped`, what ends a connection, cancels the loop but not the
thread.  `LeaveWs` joins the threads as `asyncio.run` does, for 300 s: those still busy then
become `stray`, go on without the lock, and end by themselves or with `KillStray`.
`SendStatus` ends in one of three ways: the message arrived and the bot knows, it did not, or it
arrived and the answer did not, so that the next scan sends it again (`unheard` counts these).  The state file is reduced to the positions it knows and whether the
periodic status is due.  A tick changes nothing, because `on_tick` takes every position
for dust (`TickIsDust`, from the shape of `CoinbaseExecutor.get_balances`).

### ZeroExClient, RegimeAlerts, Backtest

`ZeroExClient`: a call enters the throttle, waits there under its lock until an
interval has passed, sends, and is answered, times out or is turned away.  Time passes
in ticks; `gap` and `due` are history variables.

`RegimeAlerts`: the bot logs the reading (`Banner`) and later a summary; `ReadLog`, `WriteReport`,
`SaveChange` and `Arrives` or `Lost` are the steps of the report service, which may stop
between any two of them.

`Backtest`: a candle is `NextCandle`, an `Exit` or `Keep` for each position, then entries
(`Enter`) for `BacktestEngine`, `DerivativesBacktestEngine` and `ExperimentEngine`.

## 3. Runs

Pass:

| Run | Instance | Checks |
|---|---|---|
| `onchain_swap` | 2 threads, 1 instance, 0x with fallback to Aerodrome, 2 transactions, 2 attempts | `TypeOK`, `NoStackedSwaps`, `NeverBehindAGap`, `AtMostOneAfterKill`, `FailureIsFinal` |
| `onchain_swap_faulty` | 2 threads, 1 instance, Aerodrome, 1 transaction, 2 attempts, every fault of the node | `EveryCallReturns` |
| `trade_cycle_chain` | on chain, 2 assets that are both scanned, both profit levels, failing balance reads, late fills | `TypeOK`, `TakesProfitOnce`, `BookedSalesFilled` |
| `ws_mode` | 2 products, 2 threads for scans and the timer's process, connections that fail or break at any time, threads that may outlast the 300 s, 1 kill, 1 status whose answer is lost | `TypeOK`, `OneProcess`, `NothingLost`, `StatusOnce`, `ShutdownEnds`, `ScansKeepComing`, `HeldIsSubscribed` |
| `decisions` | `MCDecisions`, of `Decisions` | below |
| `requests` | `MCRequests`, of `Requests` | below |

`decisions`:

| Part | Instance | Checks |
|---|---|---|
| breaker | one process with restarts, 4 hours of cooldown, five values | `PauseIsHonest`, `HaltLasts`, `HaltEnds` |
| regime | 2 scans that may overlap and save older copies of the file, 2 confirmations, four pairs of signals | `LeavesOnlyOnDissent`, `Settles` |
| positions | four strategies and `auto`, six prices | `HighCoversSeen`, `Breakeven`, `NoBagHold` |
| sizing | 3 candidates, room for 2, modifiers 0.375, 1 and 1.25 | `WithinLimits` |
| cycle | Coinbase, 3 assets, room for 2, complete balance reads, purchases that fill in part unseen | `CapButUnseen`, `NoReentry` |
| signals | one scan of up to 2 ticks, three readings, times to live of 2 and 1 | `NeverMisled` |
| backtest | 2 assets, 2 prices, 3 candles for `BacktestEngine`, 2 for the others | `BooksBalance` |

`requests`:

| Part | Instance | Checks |
|---|---|---|
| balances | 3 endpoints, 2 tokens of which one is always scanned, a legacy token, 4 changes | `HeldIsKept` |
| orders | spot with 0 or 4 lots, futures with 0 or 29 contracts, lost requests of every kind, reads included | `OrdersDoNotPileUp`, `ShortByDoubled`, `FreeLotsAreManaged` |
| swaps | 1 thread, 0x with fallback to Aerodrome, 3 transactions, 2 decisions | refinement `KeepsPromise` |
| guards | both routers, 2 routes, amounts 0 to 2, rates 0, 975 and 1000, a deadline of one tick and a wait of two | `FillsNearReference`, `TimeoutIsFinal` |
| gets | 2 callers, 3 attempts, Retry-After of 0, 1 and more than the maximum | `KeepsDistance` |
| alerts | 2 regimes, 2 confirmations | `ChangesConnect` |

Both also check `TypesOK`, the type invariant of the part at work.

What the less obvious ones say.  `NothingLost`: as long as no two scans ran at once,
the copy of the file the status saves lacks no position.  `StatusOnce`: the status is
delivered once an interval, once more for each process that was killed in between, and once more
for each answer that was lost.  `OneProcess`: the timer never trades beside the other process or
a thread of it, not even one whose connection is gone or whose process is shutting down, unless
that thread outlasted the 300 s `asyncio.run` waits for it.  `Settles`: signals that stay
put are traded on in the end, once scans do not overlap any more, whatever the overlapping
ones left in the file; while they overlap, an older copy may take the streak back for ever.
`CapButUnseen`: what the account holds beyond the cap came unseen, in part or late, since a
read last found it within; a read that finds it beyond lets no cycle add to it.  `NeverMisled`:
a decision uses no signal that was last right longer ago than its time to live and what the
scan has taken so far.  `Breakeven`: after the
first profit, a check below the entry sells everything (strategies with take-profits
that stay in force).  `WithinLimits`: a cycle spends no more than it began
with, and an asset gets no more than its share, but for the boost of the derivatives
modifier.  `FillsNearReference`: a swap that fills pays at least the floor of some quote
that would have been accepted for its order, although the quote was asked for before an
approval, after one, or by the other router, and the market moved since.
`TimeoutIsFinal`: an Aerodrome swap whose caller was told of the timeout does not fill
any more, because the wait outlasts a deadline that began before it.
`OrdersDoNotPileUp`: each order open besides the last stands for a
cancellation that failed.  `ShortByDoubled`: the futures account is short by no more than the
lots of a sale that was resting when the position was last read (it is reported whole),
and of a stop loss that was taken without an answer and ordered again at the market.
`FreeLotsAreManaged`: however a purchase went, and after reads that failed, free lots get an
entry, as long as now and then a cycle gets to read balances and price.  `KeepsDistance`: requests are an
interval apart and a caller never comes back before it was told to.

Violation: each of these states what a document, a comment or a docstring says,
and finds a behaviour of the code that contradicts it.

| Run | What it finds |
|---|---|
| `onchain_swap_two_exec` | two instances hold two locks: overlapping scans stack two swaps |
| `trade_cycle_entries` | the entry of a buy is overwritten by the snapshot of the same cycle |
| `drawdown_timer` | under the timer the cooldown never elapses: a halt may last for ever |
| `regime_repeats` | a regime is switched to without having been read 3 times in a row |
| `ws_tick` | no tick is ever checked for an exit: the balances are looked up under a key that is not there |
| `balances_outage` | the failover of `get_balances` never sees an error, and the entries of held tokens are cleared |

More divergences between code and documents show in these models without a run
of their own:

* `TimeoutIsFinal` is stated of Aerodrome only: the comment that a timeout is final
  (`executors/ethereum_executor.py` 149) does not hold of 0x, in whose calldata the code looks for no
  deadline (922-980).
* With `Faults = {"lag"}` a single caller violates `NoStackedSwaps` once its instance was
  rebuilt for the next cycle: `_last_sent_hash` is forgotten with it
  (`executors/ethereum_executor.py` 293, 406).
* The snapshot that overwrites an entry overwrites the peak just saved by
  `check_circuit_breakers` too (`trading_bot.py` 451, then 660 or 674).
* On chain a holding without an entry in the file is not looked up
  (`trading_bot.py` 378-391), so it is neither managed nor counted: `CapButUnseen` does not
  hold there after a crash between a buy and its record.
* The cap on positions ("Max 3 concurrent positions", `docs/strategy-guide.md`) is exceeded at Coinbase by a
  limit buy that fills in part while it is polled: `check_order_filled` knows only FILLED
  (`executors/coinbase_executor.py` 201-227), the order is cancelled and the holding passed over
  (`trading_bot.py` 594-606).
* A balance read that fails half way is taken for complete (`executors/coinbase_executor.py` 64-75):
  the entry of an asset it lacks is cleared (`trading_bot.py` 409-425) and later adopted at the
  price of the day.
* The lock that "prevents overlapping runs" is released 300 s after the client returned
  (`asyncio.run` warns and gives its threads up), though a scan may still be trading
  (`trading_bot.py` 1221-1223).
* The status of every four hours is repeated by the next scan when the message arrived but its
  answer did not (`core/telegram.py` 37-50).
* The guide's table gives STRONG_BEAR to ETH_LEADING (line 170), `resolve_regime` to
  BTC_LEADING.
* After the cooldown the peak is lowered and buying resumes without the recovery
  `docs/strategy-guide.md` 366 asks for.
* The reading is logged as the market regime before the hysteresis has confirmed it
  (`trading_bot.py` 967), so the message of a change may come before the change
  takes effect (`docs/strategy-guide.md` 174); `report_bot.py` 93 does not match the line
  of a single-asset bot, `Market Regime (BTC): BULL`, which its comment says it does.
* With `STRATEGY=auto` a position bought by trend following is handed to mean reversion,
  which has no floor at the entry (`docs/strategy-guide.md` 242).
* `should_skip_regime` returns "True to skip all new entries in this regime"
  (`core/strategy.py` 13), but `trading_bot.py` 470 only logs it and looks for entries all
  the same: `mtf_trend`, which does not look at the regime again, buys in NEUTRAL.
* The modifier is applied after the caps (`trading_bot.py` 550): a factor of 1.25 takes a
  purchase past the share of its asset.
* Spot lots that an open sell order holds are not available, and the position they
  belong to is not managed meanwhile; the futures account, whose balances are read "long-only for
  now" (`executors/coinbase_futures_executor.py` 108), turns short when a cycle sells what
  a resting order sells too.
* The engines that override `_check_entries` leave out the cooldown
  (`backtesting/backtest_derivatives.py` 209), and `trip_stats`
  (`backtesting/sweep_stops.py` 47) counts a sale to the last trip that began, of
  whichever asset.

Bounds.  `MaxTx`, `MaxSales`, `MaxFills`, `MaxCrashes`, `MaxUnheard`, `MaxChanges` and `ScanTicks` bound what could
go on for ever; they are conjuncts of the actions they bound.  Two transactions are
enough for one to be stacked on, or to be followed by, another; the swaps of `requests`
have a third for an approval or a retry.  Two callers suffice for every pair of steps to interleave;
two assets for one to be traded while the snapshot that is saved concerns the other, and
three to go past a cap of two.  Two confirmations are the least with a streak to lose,
and two scans suffice for each to overwrite the other's.  The drawdown's values include
one below a tenth of the largest and several on either side of the limit; hours are
counted up to one past the cooldown.  Three endpoints let the failover pass one by; four
changes take one down, another down, and trade a token.  Two orders are the least that
can pile up; 29 contracts are the least that lose one in conversion; 4 lots, dust of one and
orders of three at least leave holdings below each threshold.  In the cycle of `decisions` the peak is
always 0, since the breaker has a part of its own.  A scan of two ticks lets a signal outlive
each of the times to live.  Rates of
`SwapGuards` are no pool, one below the tolerance and the floor of the reference, and the
reference; a wait one tick longer than the deadline is the least that outlasts it.  Prices of
`Positions` lie on both sides of each stop and target of an entry at 100 and repeat from
other entries.

`CHECK_DEADLOCK` stays on: no model stops (a backtest that is done stays done).

Fairness.  `OnchainSwap`: weak fairness of the steps of a call that is under way,
since each read, wait and retry in the code has a timeout or a bound; nothing is
assumed of the node, and of the lock only that a waiter gets it when it stays free.
`CoinbaseOrders`: the cycles go on (requests have timeouts); nothing is assumed of the
exchange, and `FreeLotsAreManaged` is conditional on reads that succeed again and again.
`RegimeHysteresis`: scans keep coming (timer or scan loop) and each one decides, loads the file
to trade by and finishes; it is not assumed to save copies of it.  `DrawdownBreaker`: cycles keep coming and time passes; `HaltEnds` is
conditional on restarts that stop, because each one forgets the pause.  `Positions`:
scans keep coming, and `NoBagHold` is conditional on candles that can be fetched.
`WsMode`: messages keep coming (there is a heartbeat each second), every wait of the
client is bounded, and scans get to their end; connections may break for ever, which is
why `ScansKeepComing` and `HeldIsSubscribed` ask for one that lasts.

## 4. Theorems

All are proved for every value of the constants, from the named assumptions of the
modules.  A component whose constants are restricted says how in a predicate
(`BreakerConstants`, `HysteresisConstants`, `PositionsConstants`, ...), which is a hypothesis
of its theorems and an `ASSUME` of the module TLC runs.

An invariant that is not inductive is strengthened; what follows says with what, and why.

On-chain write path (`OnchainSwapProofs`):

* `TypeCorrect`, for all callers, instances, bounds and faults.
  The type invariant alone is not inductive: a caller that has signed points at a
  transaction (`CurIsTx`).
* `KillSwitchStops`: `[]AtMostOneAfterKill`, for any number of
  instances.  The invariant (`KillInv`) says that what an instance broadcast after the
  kill switch was signed before it, by the caller that still holds the lock; it rests
  on mutual exclusion (`LockInv`) and on who signed what (`CurInv`).
* `FailuresAreFinal`: `[]FailureIsFinal` with a node that neither
  re-gossips nor delivers late.  The invariant (`SignedInv` with `LiveIsAwaited`) says
  that any swap that may still fill is the one its caller is waiting for.
* `OneSwapAtATime` and `NothingBehindAGap`: `[]NoStackedSwaps` and `[]NeverBehindAGap`, with
  one instance and a node without faults (`OneFaithful`).  The invariant (`PoolInv`)
  relates the nonces of the mempool to what the holder of the lock has read and to the
  nonce floor.

The promise (`OnchainSwapRefinement`):

* `SwapsKeepThePromise`: `Spec => KeepsPromise`, the refinement of `SwapPromise`, with a node
  that neither re-gossips nor delivers late.  The mapping counts as filled the swaps that
  were mined successfully and takes a call's phase from its program counter.  `RefInv` adds to the invariant
  of `FailuresAreFinal` that what a caller is about to send was only signed
  (`SentOnce`), that a caller which knows of a fill points at a mined swap
  (`FilledIsMined`), and that a decision has at most one swap that may fill (`OneLive`).
  Then each kind of step maps to a step or a stutter: a call that reads or waits moves
  nothing (`QuietCall`), a new decision begins, an answer ends, and of the node's steps
  only the mining of a live swap counts.

Price guards (`OrderProofs`):

* `FillsStayNearReference` and `TimeoutsAreFinal`: `[]FillsNearReference`
  and `[]TimeoutIsFinal`.  The invariant says that a quote about to
  be checked is one for the order at hand and the floor of a swap comes from an acceptable
  quote (`ShapeInv`, `MinimumInv`), and that while a swap is live its deadline began no later
  than the wait (`ClockInv`).

Trading cycle (`TradeCycleProofs`), at either venue unless it says otherwise:

* `TypeCorrect`.  `TypeInv` adds the shape of a cycle: which local variables mean something in
  which phase, and that the trades of file and snapshot are bounded by those of
  `ideal` (`TradesCounted`).
* `ProfitTakenOnce`: `[]TakesProfitOnce`, with every fault and with crashes anywhere.  `FlagInv`: what fired is
  marked in the file and in any snapshot that may be saved over it, and a level about to
  be ordered is marked in both and has not fired.
* `SalesBookedWhenFilled`: `[]BookedSalesFilled`, on chain.  `BookInv`: there are
  no more booked trades than fills, and strictly fewer between a fill and its record.
* `StoppedOutStaysOut`: `NoReentry`, with every fault: all that still comes in during a cooldown is
  an order left open before.  `StopInv`: every
  stop-out is in the file, and in the snapshot unless the cycle is about to load it again.
* `CapKeptButUnseen`: `[]CapButUnseen`, at Coinbase with complete balance reads, also when buys
  fill in part unseen or late.  `CapInv`: while a cycle buys, the count it works with covers what the
  account holds and what was read, but for what came unseen; at other times all this is within the cap.

What a cycle decides by (`DecisionProofs`):

* `BreakerTypeCorrect`, `PausesAreHonest`, `HaltsLast`.  A pause is never longer
  than the halt (`PauseInv`, strengthened with: no pause without a peak), and so the
  cooldown the process measures is one that really passed.
* `RegimeTypeCorrect`, `RegimeIsLeftOnDissent`: `LeavesOnlyOnDissent`.  `DissentInv`, all of it
  as long as no two scans overlapped: the copy of the one scan under way says what the file says, so
  that saving it changes neither regime nor streak, and the streak counts readings that disagreed, the last ones.
* `HighMarkCoversSeen` and `ProfitsBreakEven`: `[]HighCoversSeen` (and the types) and `Breakeven`.  `PositionInv`
  adds that a strategy the regime does not choose stays in force.
* `SizesWithinLimits`: `[]WithinLimits` (and the types).  `SizingInv`: cash that is spent is gone, what was
  spent stays within the boosted budget, and the size about to be bought (`SizeFits`) within
  the boosted cash and the boosted room of the asset; `SlotsInv` counts the assets bought in the
  cycle.  Most of the proof is arithmetic of the rounding in `calculate_position_with_existing`; that
  one worth is part of the whole (`WorthAddsUp`) is a lemma about sums.
* `SignalsAreRecent`: `[]NeverMisled` (and the types, `ModifierBounds` among them).  `TruthInv`: a reading
  in the cache was right no longer ago than the entry's age and the tick its request may have
  outlasted, as long as it is fresh; an answer under way was right when it was given, at most that
  tick ago; and what a scan has got was right within its time to live and the ticks since it began.
* `BacktestsBalance`: `[]BooksBalance` (and the types), for any prices, fees, engine and length.  `BooksInv`
  adds that the keys of the positions are named once each, and that nothing is held of what is not
  among them.  `CloseKeepsBooks` and `EnterKeepsBooks` are the two trades: `TradeAdds` says what one
  more trade does to the sums over the trades, `CostMoves` what it does to the cost of the positions.
* `DecisionsTypeCorrect`: `[]TypesOK` of `Decisions`, from the types of its parts.

Sums (`SumTheorems`).  The library's sum is a recursive function over sets whose value is some
function that solves its equation.  What it computes is not had by induction here, but by the least
set that would violate it (`LeastSet`, from the well-founded order of strict subsets): solutions exist and agree,
and so a sum is what any one index adds and the sum over the others (`SumTakesAny`), is no less than
any of its terms (`SumOfAmounts`), and no more than a sum of larger ones (`SumOfLess`).

Orders at Coinbase (`OrderProofs`):

* `OrdersStayFew`: `[]OrdersDoNotPileUp`.  `PileInv`: a cycle posts only when what is still
  open survived a cancellation that failed, each of which was counted.
* `ShortOnlyByDoubled`: `[]ShortByDoubled`, for any orders, lossy counts and faults.  `LongInv`: the sales
  that are open and the one about to be posted exceed the contracts held by no more than `doubled`.
* `SalesAreCovered`: `[](TypeOK /\ Available >= 0)` on the spot market.  That what may be sold is an
  amount is no matter of types: `ExchangeInv` says that all open sales together hold no more
  than the account owns, through partial fills, cancellations that were lost and orders whose
  answer was; `HeldMoves` gives what one order changes in that sum.  `CycleInv` keeps the
  cycle's own variables, and that only sales are ever sent as market orders.

Services (`ServiceProofs`):

* `ReadsTypeCorrect`, `HealthyReadsKeepEntries`: `HeldIsKept`, for any endpoints, tokens
  and retries.  The invariant (`ReadInv`) says that every token with an entry is among
  those asked for, and that what a steady endpoint was asked for and is held was found.
* `RequestsKeepDistance`: `KeepsDistance`, for any number of callers.  `ThrottleInv`: who sleeps in
  the throttle holds its lock, alone, and what it slept and has to sleep make an interval.  `RetryInv`: a
  delay that was asked for is kept for one sleep, which is as long.
* `MessagesConnect`: `ChangesConnect` (and the types).  `AlertInv`: between announcements the saved regime
  is the one last heard, as long as no message was lost.
* `RequestsTypeCorrect`: `[]TypesOK` of `Requests`.  Beside the invariants above it takes
  `SleepInv` (a sleep is no longer than the longest delay, and a lock that is held is held by
  a sleeper), and `GuardTypes` (no allowance beyond some order, and a swap's clocks within the deadline and the wait).
* `RequestsKeepThePromise`: `SwapsKeepThePromise`, carried over to the sum.

Long-lived process (`WsModeProofs`):

* `TypeCorrect`, for any number of threads, products and kills.
* `OneProcessTrades`: `[]OneProcess`.  The invariant (`LockInv`) says that
  who holds the lock is who is there, and that without the long-lived process only stray threads
  are busy.
* `FileIsComplete` and `StatusGoesOutOnce`: `[]NothingLost` and
  `[]StatusOnce`.  The invariant (`FileInv`, all of it as long as no two scans
  overlapped) says that at most one thread is busy, which with `LockInv` makes a busy
  worker the only one; that the copy it is about to save knows the positions of the
  account; and that only a status about to be saved, a killed process, or an answer that was lost
  accounts for one more message.  A stray thread beside the timer's scan counts as an overlap.

Only model-checked:

* The liveness properties `EveryCallReturns`, `FreeLotsAreManaged`, `Settles`, `HaltEnds`,
  `NoBagHold`, `ShutdownEnds`, `ScansKeepComing` and `HeldIsSubscribed`: liveness under fairness is
  out of the prover's reach.

## 5. Assumptions

* Only the bot uses the wallet; at Coinbase only the bot places orders.
* `FailureIsFinal`, `KeepsPromise`: the node neither brings a dropped transaction back nor delivers a
  broadcast after the code gave it up.  `NoStackedSwaps`, `NeverBehindAGap`: one instance at a time (needed:
  run `onchain_swap_two_exec`) and a node that neither lags, re-gossips nor delivers late.
* `HeldIsKept`: the endpoint in use answers throughout the read (needed: run
  `balances_outage`).
* `CapButUnseen` (Coinbase): balance reads are complete.
* `NothingLost`, `StatusOnce`: no two scans overlapped, in one process or two.
* `NeverMisled`: a request outlasts one tick at most; a tick is no shorter than its timeout of ten seconds.
* `FreeLotsAreManaged`: again and again a cycle reads balances and price.  `Settles`: in the end no
  two scans are under way at once.
* `BookedSalesFilled`: on chain, where a fill is looked up before it is booked.
* Configuration is sane, as the predicates named `...Constants` say: limits, prices and times are positive, shares do not
  exceed the whole, and the wait for a receipt outlasts the deadline (`GuardConstants`).
* `TradeCycle` is live trading with one executor on its part of the state file; writes of
  that file succeed.

## 6. Not modelled, and the plan

Left out for good: floating-point indicators, message formats, logging, cryptography,
gas pricing, the trade log, the dashboard and the profit report, scripts that run once,
and the loading and statistics of the backtests.  `on_tick` past its test for dust is
not modelled because the code never gets there; nor are the functions of `RiskManager` the
program does not call.

Next, in this order:

1. A `StateManager` module with failing and unparsable files: what callers believe when a write
   failed (`core/state_manager.py` 74), and the copy `on_tick` would save (`trading_bot.py` 1126).
2. On chain, how far past the cap the holdings that the file does not know can take the account.
