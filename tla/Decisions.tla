------------------------------ MODULE Decisions ------------------------------
(***************************************************************************)
(* The rules a cycle decides by, each with the state it keeps to itself:    *)
(* the bookkeeping of a cycle (this module's own), the circuit breaker, the *)
(* regime, the exits, the sizes, the derivatives signals, and the backtest  *)
(* that judges them.  They meet in values the models take as inputs, so one *)
(* behaviour exercises one of them and the others stay as they began.       *)
(***************************************************************************)
EXTENDS TradeCycle, Integers

CONSTANTS
  Worth, MaxDrawdown, Cooldown, OneShot,                  \* DrawdownBreaker
  Scan, Market, ConfirmCount,                             \* RegimeHysteresis
  Config, Price, Atr, Rsi, Momentum, TimeExit,            \* Positions
  Cash, HoldingWorth, Risk, Modifier, MinOrder, TradeLimit, BearScale,  \* BuySizing
  SignalScan, Reading, Ttl, PriceChange, FundingHigh, OiFall, ScanTicks,  \* DerivativesSignals
  Engine, TestAsset, TestPrice, Capital, TestSlots, TestCooldown, FeeRate,
  TestModifier, Candles                                   \* Backtest

VARIABLES
  part,       \* the one that is at work
  \* DrawdownBreaker
  value, peak, paused, verdict, down,
  \* RegimeHysteresis
  market, confirmed, streak, scanPc, reading, loaded, traded, recent, overlapped,
  \* Positions
  config, strategy, regime, phase, data, holding, entry, hwm, flags, age, sighted,
  last,
  \* BuySizing
  sizePc, bear, modifier, cash, worth, exValue, taken, candidates, candidate,
  size, budget, spent, room,
  \* DerivativesSignals
  world, truth, cache, signalPc, wanted, answer, got, change, elapsed,
  \* Backtest
  engine, testPc, candle, prices, testBear, testHeld, exits, entries, testModifier,
  capital, testPositions, totalFees, trades, stoppedAt

breakerVars == <<value, peak, paused, verdict, down>>
regimeVars ==
  <<market, confirmed, streak, scanPc, reading, loaded, traded, recent, overlapped>>
positionVars ==
  <<config, strategy, regime, phase, data, holding, entry, hwm, flags, age, sighted,
    last>>
sizingVars ==
  <<sizePc, bear, modifier, cash, worth, exValue, taken, candidates, candidate,
    size, budget, spent, room>>
signalVars ==
  <<world, truth, cache, signalPc, wanted, answer, got, change, elapsed>>
testVars ==
  <<engine, testPc, candle, prices, testBear, testHeld, exits, entries, testModifier,
    capital, testPositions, totalFees, trades, stoppedAt>>
sumVars ==
  <<part, vars, breakerVars, regimeVars, positionVars, sizingVars, signalVars, testVars>>

Part == {"cycle", "breaker", "regime", "positions", "sizing", "signals", "backtest"}

K == INSTANCE DrawdownBreaker

R == INSTANCE RegimeHysteresis WITH pc <- scanPc, regime <- traded

P == INSTANCE Positions WITH held <- holding, seen <- sighted

B == INSTANCE BuySizing WITH
  Worth <- HoldingWorth, pc <- sizePc, value <- worth, positions <- taken,
  todo <- candidates, asset <- candidate

D == INSTANCE DerivativesSignals WITH
  Scan <- SignalScan, pc <- signalPc, todo <- wanted, price <- change

T == INSTANCE Backtest WITH
  Asset <- TestAsset, Price <- TestPrice, MaxPositions <- TestSlots,
  Cooldown <- TestCooldown, Modifier <- TestModifier,
  pc <- testPc, bear <- testBear, held <- testHeld, todo <- exits, open <- entries,
  modifier <- testModifier, positions <- testPositions

\* What is not at work begins in one state of its own.
SumInit ==
  /\ part \in Part
  /\ Init /\ K!Init /\ R!Init /\ P!Init /\ B!Init /\ D!Init /\ T!Init
  /\ part # "breaker" => value = CHOOSE w \in Worth : TRUE
  /\ part # "regime" => market = CHOOSE m \in Market : TRUE
  /\ part # "positions" => config = (CHOOSE c \in Config : TRUE) /\ regime = "NEUTRAL"
  /\ part # "signals" => world = [k \in D!Key |-> CHOOSE r \in Reading[k] : TRUE]
  /\ part # "backtest" => engine = CHOOSE e \in Engine : TRUE

Idle ==
  /\ UNCHANGED part
  /\ IF part = "cycle" THEN TRUE ELSE UNCHANGED vars
  /\ IF part = "breaker" THEN TRUE ELSE UNCHANGED breakerVars
  /\ IF part = "regime" THEN TRUE ELSE UNCHANGED regimeVars
  /\ IF part = "positions" THEN TRUE ELSE UNCHANGED positionVars
  /\ IF part = "sizing" THEN TRUE ELSE UNCHANGED sizingVars
  /\ IF part = "signals" THEN TRUE ELSE UNCHANGED signalVars
  /\ IF part = "backtest" THEN TRUE ELSE UNCHANGED testVars

\* A backtest that is done stays done.
TestIsDone == testPc = "done" /\ UNCHANGED testVars

SumNext ==
  \/ part = "cycle" /\ Next /\ Idle
  \/ part = "breaker" /\ K!Next /\ Idle
  \/ part = "regime" /\ R!Next /\ Idle
  \/ part = "positions" /\ P!Next /\ Idle
  \/ part = "sizing" /\ B!Next /\ Idle
  \/ part = "signals" /\ D!Next /\ Idle
  \/ part = "backtest" /\ (T!Next \/ TestIsDone) /\ Idle

\* The fairness of the modules that state one, for the one at work.
Fairness ==
  /\ WF_breakerVars(part = "breaker" /\ K!Cycle)
  /\ WF_breakerVars(part = "breaker" /\ K!Hour)
  /\ WF_regimeVars(part = "regime" /\ R!Begins)
  /\ \A s \in Scan :
       /\ WF_regimeVars(part = "regime" /\ R!apply_regime_hysteresis(s))
       /\ WF_regimeVars(part = "regime" /\ R!LoadsFirst(s))
       /\ WF_regimeVars(part = "regime" /\ R!Finish(s))
  /\ WF_positionVars(part = "positions" /\ P!Next)

SumSpec == SumInit /\ [][SumNext]_sumVars /\ Fairness

------------------------------------------------------------------------------
\* The values the variables of the part at work take.
TypesOK ==
  CASE part = "cycle" -> TypeOK
    [] part = "breaker" -> K!TypeOK
    [] part = "regime" -> R!TypeOK
    [] part = "positions" -> P!TypeOK
    [] part = "sizing" -> B!TypeOK
    [] part = "signals" -> D!TypeOK
    [] part = "backtest" -> T!TypeOK

\* DrawdownBreaker: the pause the process measures is no longer than the halt.
PauseIsHonest == K!PauseIsHonest

\* DrawdownBreaker: a halt lasts until the value recovers or the cooldown is over.
HaltLasts == K!HaltLasts

\* DrawdownBreaker: a process that is left running lets go in the end.
HaltEnds == part = "breaker" => K!HaltEnds

\* RegimeHysteresis: a regime is left only when each of the last readings disagreed.
LeavesOnlyOnDissent == R!LeavesOnlyOnDissent

\* RegimeHysteresis: signals that stay put are traded on in the end, once scans
\* do not overlap any more.
Settles == part = "regime" => R!Settles

\* Positions: the high-water mark covers every price a check has seen.
HighCoversSeen == P!HighCoversSeen

\* Positions: after the first profit nothing is held below the entry.
Breakeven == P!Breakeven

\* Positions: mean reversion holds nothing for ever.
NoBagHold == part = "positions" => P!NoBagHold

\* BuySizing: a cycle spends no more than it began with and a purchase fits into
\* the room of its asset, but for a boost.
WithinLimits == B!WithinLimits

\* DerivativesSignals: no decision on a signal older than its time to live and the
\* time the scan has taken.
NeverMisled == D!NeverMisled

\* Backtest: profits, fees, cash and positions tell the same story.
BooksBalance == T!BooksBalance
==============================================================================
