------------------------------- MODULE Backtest -------------------------------
(***************************************************************************)
(* The backtesting engine: one candle after the other it closes positions,  *)
(* opens new ones with an equal share of the portfolio each, and keeps the  *)
(* cash, the fees and the list of trades the reports are computed from.      *)
(* BacktestEngine is "base"; DerivativesBacktestEngine and ExperimentEngine, *)
(* which override how positions are opened, are "derivatives" and "bear".   *)
(*                                                                          *)
(* Amounts are whole units rounded down and ratios in thousandths; the code *)
(* uses floating point.                                                     *)
(***************************************************************************)
EXTENDS Sums, Sequences, SequencesExt

CONSTANTS
  Engine,        \* the engines a run looks at
  Asset,
  Price,         \* what an asset may cost
  Capital,       \* initial_capital
  MaxPositions,  \* max_concurrent_positions
  Cooldown,      \* stopout_cooldown_hours, in candles
  FeeRate,       \* half of round_trip_fee_pct
  BearScale,     \* bear_position_scale
  Modifier,      \* modifiers of the derivatives signals
  Candles        \* bound, per engine: candles after the first ones

BacktestConstants ==
  /\ Engine \subseteq {"base", "derivatives", "bear"}
  /\ IsFiniteSet(Asset)
  /\ Price # {} /\ Price \subseteq Nat \ {0} /\ Capital \in Nat \ {0}
  /\ MaxPositions \in Nat \ {0} /\ Cooldown \in Nat /\ Candles \in [Engine -> Nat]
  /\ FeeRate \in 0 .. 1000 /\ BearScale \in 0 .. 1000
  /\ Modifier \subseteq 250 .. 1250

VARIABLES
  engine,
  pc,         \* "next", "exits", "entries", "done"
  candle,     \* index of the candle at hand
  prices,     \* current_prices
  bear,       \* market_regime is BEAR
  held,       \* the keys of positions, in the order they were bought
  todo,       \* positions not yet looked at, in that order
  open,       \* entries _check_entries may still make in this candle
  modifier,   \* of this candle
  capital,    \* cash
  positions,  \* [asset -> [size, entry]]; size 0: none
  totalFees,  \* total_fees
  trades,     \* the trades, oldest first
  stoppedAt   \* stopout_times: the candle, or -1

market == <<candle, prices, bear>>
books == <<capital, held, positions, totalFees, trades, stoppedAt>>
vars == <<engine, pc, market, todo, open, modifier, books>>

Flat == [size |-> 0, entry |-> 0]
Scaled(amount, thousandths) == (amount * thousandths) \div 1000

calculate_fees(amount) == Scaled(amount, FeeRate)

get_portfolio_value ==
  capital + SumOver([a \in Asset |-> positions[a].size * prices[a]], Asset)

Init ==
  /\ engine \in Engine
  /\ pc = "next"
  /\ candle = 0
  /\ prices = [a \in Asset |-> CHOOSE p \in Price : TRUE]
  /\ bear = FALSE
  /\ held = <<>>
  /\ todo = <<>>
  /\ open = 0
  /\ modifier = 1000
  /\ capital = Capital
  /\ positions = [a \in Asset |-> Flat]
  /\ totalFees = 0
  /\ trades = <<>>
  /\ stoppedAt = [a \in Asset |-> -1]

------------------------------------------------------------------------------
\* The next candle: prices move, the regime is detected, and every position is
\* looked at before anything is bought.
NextCandle ==
  /\ pc = "next"
  /\ candle < Candles[engine]
  /\ candle' = candle + 1
  /\ prices' \in [Asset -> Price]
  /\ bear' \in BOOLEAN
  /\ todo' = held
  /\ pc' = "exits"
  /\ UNCHANGED <<engine, open, modifier, books>>

\* Mutant: what was sold is kept on the books.
KeepSize(position, sold) == position

Reduced(position, sold) ==
  IF position.size = sold THEN Flat ELSE [position EXCEPT !.size = @ - sold]

PlaceOf(a) == CHOOSE i \in DOMAIN held : held[i] = a

\* A stop-loss is known by the word in its reason.
_close_position(a, sold, stop) ==
  LET proceeds == sold * prices[a]
      net == proceeds - calculate_fees(proceeds)
  IN  /\ capital' = capital + net
      /\ totalFees' = totalFees + calculate_fees(proceeds)
      /\ positions' = [positions EXCEPT ![a] = Reduced(@, sold)]
      /\ held' = IF positions'[a].size = 0 THEN RemoveAt(held, PlaceOf(a)) ELSE held
      /\ trades' = Append(trades, [type |-> "SELL", fee |-> calculate_fees(proceeds),
                                   pnl |-> net - positions[a].entry * sold])
      /\ stoppedAt' = IF stop THEN [stoppedAt EXCEPT ![a] = candle] ELSE stoppedAt

\* The strategy keeps the position.
Keep ==
  /\ pc = "exits"
  /\ todo # <<>>
  /\ todo' = Tail(todo)
  /\ UNCHANGED <<engine, pc, market, open, modifier, books>>

\* The strategy sells all of it, at a stop or not, or takes a part of the
\* profit.
Exit ==
  LET a == Head(todo) IN
  /\ pc = "exits"
  /\ todo # <<>>
  /\ todo' = Tail(todo)
  /\ \/ \E stop \in BOOLEAN : _close_position(a, positions[a].size, stop)
     \/ /\ positions[a].size > 1 /\ prices[a] > positions[a].entry
        /\ _close_position(a, positions[a].size \div 2, FALSE)
  /\ UNCHANGED <<engine, pc, market, open, modifier>>

\* Nothing is opened when all slots are taken, in a regime the strategy skips
\* (ExperimentEngine goes on in a bear market), or when the open interest of
\* the derivatives market falls while the price rises.
SkipEntries ==
  /\ pc = "exits" /\ todo = <<>>
  /\ Len(held) >= MaxPositions \/ engine # "bear" \/ ~bear
  /\ pc' = "next"
  /\ UNCHANGED <<engine, market, todo, open, modifier, books>>

StartEntries ==
  /\ pc = "exits" /\ todo = <<>>
  /\ Len(held) < MaxPositions
  /\ open' = MaxPositions - Len(held)
  /\ modifier' \in IF engine = "derivatives" THEN Modifier ELSE {1000}
  /\ pc' = "entries"
  /\ UNCHANGED <<engine, market, todo, books>>

_in_stopout_cooldown(a) == stoppedAt[a] >= 0 /\ candle - stoppedAt[a] < Cooldown

\* Only BacktestEngine knows the cooldown.
MayEnter(a) == engine = "base" => ~_in_stopout_cooldown(a)

\* An equal share of the portfolio, less in a bear market, times the modifier.
target_allocation ==
  LET share == get_portfolio_value \div MaxPositions
      scaled == IF bear THEN Scaled(share, BearScale) ELSE share
  IN  Scaled(scaled, modifier)

TooSmall ==
  /\ target_allocation < 10
  /\ engine # "base" \/ bear

\* Five percent of the cash is left.
Covers(cost, fee) == 100 * (cost + fee) <= 95 * capital

\* DerivativesBacktestEngine keeps no record of what it bought.
Bought(fee) ==
  IF engine = "derivatives" THEN trades
  ELSE Append(trades, [type |-> "BUY", fee |-> fee, pnl |-> 0])

Enter(a) ==
  LET size == target_allocation \div prices[a]
      cost == size * prices[a]
      fee == calculate_fees(cost)
  IN  /\ pc = "entries"
      /\ open > 0 /\ positions[a].size = 0 /\ MayEnter(a)
      /\ ~TooSmall /\ size > 0 /\ Covers(cost, fee)
      /\ capital' = capital - (cost + fee)
      /\ totalFees' = totalFees + fee
      /\ positions' = [positions EXCEPT ![a] = [size |-> size, entry |-> prices[a]]]
      /\ held' = Append(held, a)
      /\ trades' = Bought(fee)
      /\ open' = open - 1
      /\ UNCHANGED <<engine, pc, market, todo, modifier, stoppedAt>>

\* No candidate is left, or those that are left cost too much.
EndEntries ==
  /\ pc = "entries"
  /\ pc' = "next"
  /\ open' = 0
  /\ modifier' = 1000
  /\ UNCHANGED <<engine, market, todo, books>>

\* After the last candle what is left is sold.
CloseAtEnd ==
  /\ pc = "next" /\ candle = Candles[engine]
  /\ held # <<>>
  /\ _close_position(Head(held), positions[Head(held)].size, FALSE)
  /\ UNCHANGED <<engine, pc, market, todo, open, modifier>>

Finish ==
  /\ pc = "next" /\ candle = Candles[engine]
  /\ held = <<>>
  /\ pc' = "done"
  /\ UNCHANGED <<engine, market, todo, open, modifier, books>>

Next ==
  \/ NextCandle \/ Keep \/ Exit
  \/ SkipEntries \/ StartEntries \/ EndEntries
  \/ \E a \in Asset : Enter(a)
  \/ CloseAtEnd \/ Finish

Spec == Init /\ [][Next]_vars

------------------------------------------------------------------------------
\* The values each variable takes.
TypeOK ==
  /\ pc \in {"next", "exits", "entries", "done"}
  /\ candle \in 0 .. Candles[engine]
  /\ open \in 0 .. MaxPositions
  /\ \A a \in Asset : (a \in ToSet(held)) = (positions[a].size > 0)
  /\ totalFees >= 0
  /\ \A a \in Asset : positions[a].size >= 0 /\ stoppedAt[a] \in -1 .. candle

\* The reported profits and losses, the fees and the cash tell the same story:
\* what was there at first, plus what the sales are said to have made, minus
\* the fees of the purchases, is the cash and what the positions cost.
BooksBalance ==
  LET Sales == {i \in DOMAIN trades : trades[i].type = "SELL"}
      Made == SumOver([i \in DOMAIN trades |-> trades[i].pnl], Sales)
      SaleFees == SumOver([i \in DOMAIN trades |-> trades[i].fee], Sales)
      Cost == SumOver([a \in Asset |-> positions[a].size * positions[a].entry], Asset)
  IN  capital + Cost = Capital + Made - (totalFees - SaleFees)

==============================================================================
