------------------------------ MODULE Positions ------------------------------
(***************************************************************************)
(* The strategies over the life of one position: scan_entry decides whether *)
(* it is bought or added to, check_exit how much of it is sold, and with    *)
(* STRATEGY=auto the regime decides whose rules apply.  A scan reads the    *)
(* regime, then looks for a buy, then checks the position.                  *)
(*                                                                          *)
(* Prices are whole units and rates percent; a candle is what the rules     *)
(* read from it.  Orders fill (TradeCycle has the ones that do not) and a   *)
(* position is either held or not: how much of it is left is no input of    *)
(* the exits.  The weight of an addition is left open, so the average entry *)
(* is any price between the old entry and the new price.                    *)
(***************************************************************************)
EXTENDS Integers, FiniteSets

CONSTANTS
  Config,       \* values of STRATEGY to look at
  Price,        \* prices seen
  Atr,          \* average true range, in percent of the price
  Rsi,
  Momentum,
  TimeExit      \* mr_time_exit_candles; a scan is one candle

PositionsConstants ==
  /\ Config \subseteq {"trend_following", "mean_reversion", "supertrend",
                       "mtf_trend", "auto"}
  /\ Price \subseteq Nat \ {0} /\ Atr \subseteq Nat
  /\ TimeExit \in Nat \ {0}

None == -1
Regime == {"STRONG_BULL", "BULL", "NEUTRAL", "BEAR", "STRONG_BEAR"}
Timeframe == {"1h", "15m"}

\* TradingConfig.from_env, in percent.
TakeProfit1 == 15
TakeProfit2 == 40
Ratio1 == 25
Ratio2 == 35
TrailingStop == 7
MrStop == 8
FeeFloor == 1     \* 1.5 round-trip fees, rounded up

VARIABLES
  config,    \* STRATEGY
  strategy,  \* the strategy in force
  regime,    \* confirmed regime
  phase,     \* step of the scan: "regime", "buy", "sell"
  data,      \* timeframes that could be fetched for the check
  held, entry, hwm, flags, age,   \* the position and its entry in the state file
  seen,      \* history: highest price a check has seen since the entry
  last       \* history: the last decision of check_exit

position == <<held, entry, hwm, flags, age, seen>>
vars == <<config, strategy, regime, phase, data, position, last>>

Undecided == [ratio |-> 0, price |-> 0, entry |-> 0]
NoFlags == [tp1 |-> FALSE, tp2 |-> FALSE, trend |-> FALSE]

Max2(x, y) == IF x >= y THEN x ELSE y
Clamp(lo, hi, x) == IF x < lo THEN lo ELSE IF x > hi THEN hi ELSE x

------------------------------------------------------------------------------
(* Regimes and strategies *)

select_strategy_for_regime(r) ==
  IF r = "NEUTRAL" THEN "mean_reversion" ELSE "trend_following"

regime_to_legacy(r) == IF r \in {"BEAR", "STRONG_BEAR"} THEN "BEAR" ELSE "BULL"

should_skip_regime(s, r) ==
  IF s \in {"trend_following", "mtf_trend"} THEN r = "NEUTRAL"
  ELSE r \in {"BEAR", "STRONG_BEAR"}

Timeframes(s) == IF s = "mtf_trend" THEN Timeframe ELSE {"1h"}

------------------------------------------------------------------------------
(* scan_entry, with BEAR_POSITION_SCALE at its default of a quarter *)

\* What the rules read: moving averages crossed upwards and confirmed (bullish
\* supertrends, bias), price below its lower band or above its average, volume.
Candle == [crossed : BOOLEAN, rsi : Rsi \cup {None}, spike : BOOLEAN,
           momentum : Momentum, low : BOOLEAN, liquid : BOOLEAN]

RsiLimit(r) ==
  CASE r = "STRONG_BULL" -> 88
    [] r = "BULL" -> 82
    [] r = "BEAR" -> 70
    [] OTHER -> 75

_standard_entry_checks(c, r) ==
  /\ c.liquid
  /\ \/ c.rsi = None
     \/ c.rsi <= RsiLimit(r)
     \/ c.spike /\ c.rsi <= RsiLimit(r) + 5

_bear_momentum_entry(c) ==
  /\ c.momentum >= 2
  /\ c.rsi # None /\ c.rsi <= RsiLimit("BEAR") /\ c.rsi >= 35
  /\ c.liquid

trend_following_entry(c, r) ==
  IF regime_to_legacy(r) = "BEAR" THEN _bear_momentum_entry(c)
  ELSE r # "NEUTRAL" /\ c.crossed /\ _standard_entry_checks(c, r)

mean_reversion_entry(c, r) ==
  /\ ~should_skip_regime("mean_reversion", r)
  /\ c.rsi # None /\ c.rsi < 30
  /\ c.low /\ c.liquid

supertrend_entry(c, r) ==
  /\ ~should_skip_regime("supertrend", r)
  /\ c.crossed /\ c.spike /\ c.liquid
  /\ c.rsi # None => c.rsi <= 75

mtf_trend_entry(c, r) ==
  /\ c.crossed
  /\ c.rsi # None /\ c.rsi \in 40 .. 70
  /\ ~c.low /\ c.liquid

scan_entry(s, c, r) ==
  CASE s = "trend_following" -> trend_following_entry(c, r)
    [] s = "mean_reversion" -> mean_reversion_entry(c, r)
    [] s = "supertrend" -> supertrend_entry(c, r)
    [] s = "mtf_trend" -> mtf_trend_entry(c, r)

\* One candle that gives a signal; run_executor_strategy only logs what
\* should_skip_regime says.
Signal(s, r) == \E c \in Candle : scan_entry(s, c, r)

------------------------------------------------------------------------------
(* check_exit: the share to sell, in percent, and the flags afterwards *)

Keep(f) == [ratio |-> 0, stop |-> FALSE, flags |-> f]
Sell(share, f) == [ratio |-> share, stop |-> FALSE, flags |-> f]
StopOut(f) == [ratio |-> 100, stop |-> TRUE, flags |-> f]

\* ATR stop of each strategy; the trailing stop where there is no ATR.
StopPct(s, atr) ==
  IF atr = None THEN TrailingStop
  ELSE CASE s = "trend_following" -> Clamp(6, 15, (5 * atr) \div 2)
         [] s = "supertrend" -> Clamp(3, 15, (5 * atr) \div 2)
         [] s = "mtf_trend" -> Clamp(2, 10, 2 * atr)

\* Mutant: the second profit leaves the first to be taken.
SecondHit(f) == [f EXCEPT !.tp2 = TRUE]

BothHit(f) == [f EXCEPT !.tp1 = TRUE, !.tp2 = TRUE]

\* Mutant: the stop never rises to the entry.
NoFloor(f, stop) == stop

\* In hundredths: after the first profit the stop is at the entry at least.
Floored(f, stop) == IF f.tp1 THEN Max2(stop, 100 * entry) ELSE stop

Stopped(s, atr, high, price) ==
  100 * price < Floored(flags, high * (100 - StopPct(s, atr)))

\* The trend exit: above the fees, except for supertrend.
TrendExit(s, down, price) ==
  /\ down
  /\ s # "supertrend" => 100 * (price - entry) > FeeFloor * entry

\* trend_following, supertrend and mtf_trend; the last one goes on without the
\* candles it misses.
TieredExit(s, atr, down, high, price) ==
  LET profit(pct) == 100 * price >= entry * (100 + pct) IN
  IF ~flags.tp2 /\ profit(TakeProfit2)
    THEN Sell(Ratio2, BothHit(flags))
  ELSE IF ~flags.tp1 /\ profit(TakeProfit1)
    THEN Sell(Ratio1, [flags EXCEPT !.tp1 = TRUE])
  ELSE IF (s = "mtf_trend" => "15m" \in data) /\ Stopped(s, atr, high, price)
    THEN StopOut(flags)
  ELSE IF ~flags.trend /\ "1h" \in data /\ TrendExit(s, down, price)
    THEN Sell(50, [flags EXCEPT !.trend = TRUE])
  ELSE Keep(flags)

Late == age >= TimeExit

mean_reversion_exit(reached, high, price) ==
  IF reached THEN Sell(100, flags)
  ELSE IF 100 * price < high * (100 - MrStop) THEN StopOut(flags)
  ELSE IF Late THEN Sell(100, flags)
  ELSE Keep(flags)

\* Without the hourly candles all but mtf_trend raise, and nothing is sold.
\* "turned" is a bearish trend, for mean_reversion the price at its average.
check_exit(s, atr, turned, high, price) ==
  IF s = "mean_reversion"
    THEN IF "1h" \in data THEN mean_reversion_exit(turned, high, price)
         ELSE Keep(flags)
  ELSE IF s # "mtf_trend" /\ "1h" \notin data THEN Keep(flags)
  ELSE TieredExit(s, atr, turned, high, price)

------------------------------------------------------------------------------
(* A scan *)

NoPosition ==
  /\ held' = FALSE /\ entry' = 0 /\ hwm' = 0
  /\ flags' = NoFlags /\ age' = 0 /\ seen' = 0

Init ==
  /\ config \in Config
  /\ strategy = IF config = "auto" THEN "trend_following" ELSE config
  /\ regime \in Regime
  /\ phase = "regime"
  /\ data = {}
  /\ held = FALSE /\ entry = 0 /\ hwm = 0
  /\ flags = NoFlags /\ age = 0 /\ seen = 0
  /\ last = Undecided

ReadRegime ==
  /\ phase = "regime"
  /\ regime' \in Regime
  /\ strategy' = IF config = "auto" THEN select_strategy_for_regime(regime')
                 ELSE config
  /\ phase' = "buy"
  /\ last' = Undecided
  /\ UNCHANGED <<config, data, position>>

EndBuys ==
  /\ phase' = "sell"
  /\ data' \in SUBSET Timeframes(strategy)
  /\ UNCHANGED <<config, strategy, regime, last>>

Buy ==
  /\ phase = "buy"
  /\ ~held
  /\ Signal(strategy, regime) = TRUE
  /\ \E price \in Price :
       /\ held' = TRUE /\ entry' = price /\ hwm' = price
       /\ flags' = NoFlags /\ age' = 0 /\ seen' = price
  /\ EndBuys

\* Mutants: an addition starts the high-water mark, or the clock, anew.
HighAnew(avg) == hwm' = avg /\ UNCHANGED age
ClockAnew(avg) == hwm' = Max2(hwm, avg) /\ age' = 0

KeepsHighAndClock(avg) == hwm' = Max2(hwm, avg) /\ UNCHANGED age

\* update_entry_price for an existing quantity.
TopUp ==
  /\ phase = "buy"
  /\ held
  /\ Signal(strategy, regime) = TRUE
  /\ \E price \in Price : \E avg \in Price :
       /\ avg \in entry .. price \cup price .. entry
       /\ entry' = avg
       /\ KeepsHighAndClock(avg)
  /\ UNCHANGED <<held, flags, seen>>
  /\ EndBuys

BuyNothing ==
  /\ phase = "buy"
  /\ UNCHANGED position
  /\ EndBuys

\* The high-water mark is raised before the exits are looked at.
Check ==
  /\ phase = "sell"
  /\ held
  /\ \E price \in Price, atr \in Atr \cup {None}, turned \in BOOLEAN :
       LET high == Max2(hwm, price)
           exit == check_exit(strategy, atr, turned, high, price) IN
       /\ last' = [ratio |-> exit.ratio, price |-> price, entry |-> entry]
       /\ IF exit.ratio = 100
            THEN NoPosition
            ELSE /\ hwm' = high
                 /\ flags' = exit.flags
                 /\ seen' = Max2(seen, price)
                 /\ age' = IF age < TimeExit THEN age + 1 ELSE age
                 /\ UNCHANGED <<held, entry>>
  /\ phase' = "regime"
  /\ UNCHANGED <<config, strategy, regime, data>>

NothingToCheck ==
  /\ phase = "sell"
  /\ ~held
  /\ phase' = "regime"
  /\ UNCHANGED <<config, strategy, regime, data, position, last>>

Next ==
  \/ ReadRegime \/ Buy \/ TopUp \/ BuyNothing \/ Check \/ NothingToCheck

\* Scans follow one another.
Fairness == WF_vars(Next)

Spec == Init /\ [][Next]_vars /\ Fairness

------------------------------------------------------------------------------
(* Properties *)

Flags == [tp1 : BOOLEAN, tp2 : BOOLEAN, trend : BOOLEAN]

\* The values each variable takes; the second profit implies the first, and
\* only what is held has an entry.
TypeOK ==
  /\ config \in Config
  /\ strategy \in Config \cup {"trend_following", "mean_reversion"}
  /\ regime \in Regime
  /\ phase \in {"regime", "buy", "sell"}
  /\ data \subseteq Timeframe
  /\ held \in BOOLEAN
  /\ {entry, hwm, seen} \subseteq Price \cup {0}
  /\ flags \in Flags /\ (flags.tp2 => flags.tp1)
  /\ age \in 0 .. TimeExit
  /\ held <=> entry # 0
  /\ hwm >= entry

\* strategy-guide.md, "never goes down": the high-water mark the stop hangs on
\* covers every price a check has seen since the entry, additions or not.
HighCoversSeen == held => hwm >= seen

\* The check has seen the candles its stop needs.
Sighted == Timeframes(strategy) \subseteq data

\* The same for a strategy with take-profits that stays in force.
Breakeven ==
  [][config \notin {"auto", "mean_reversion"}
     /\ phase = "sell" /\ held /\ flags.tp1 /\ Sighted
     /\ last'.price < last'.entry
     => last'.ratio = 100]_vars

\* strategy-guide.md, "Time exit": with mean_reversion no position is held for
\* ever, additions or not, if candles can be fetched again and again.
NoBagHold ==
  /\ config = "mean_reversion"
  /\ []<>(phase = "sell" /\ "1h" \in data)
  => []<>(~held)
==============================================================================
