------------------------------ MODULE BuySizing ------------------------------
(***************************************************************************)
(* How much run_executor_strategy buys: the sizes RiskManager gives the     *)
(* candidates of one cycle, the scale of a bear market, the modifier of the *)
(* derivatives signals, and the budget that is left for the next candidate. *)
(*                                                                          *)
(* Amounts are whole dollars and ratios are in thousandths, both rounded    *)
(* down; the code uses floating point.                                      *)
(***************************************************************************)
EXTENDS Sums

CONSTANTS
  Asset,         \* the candidates
  Cash,          \* USDC an account may have
  Worth,         \* what a holding may be worth
  Risk,          \* 2.5 * ATR / price in thousandths; 0: no ATR is known
  Modifier,      \* position_modifier of the derivatives signals
  MaxPositions,  \* max_concurrent_positions
  MinOrder,      \* min_order_usd
  TradeLimit,    \* portfolio_risk_pct * risk_per_trade_pct
  BearScale,     \* bear_position_scale
  NoAsset

SizingConstants ==
  /\ Cash \subseteq Nat /\ Worth \subseteq Nat /\ Risk \subseteq Nat
  /\ Modifier \subseteq 250 .. 1250
  /\ MaxPositions \in Nat \ {0} /\ MinOrder \in Nat \ {0}
  /\ TradeLimit \in 0 .. 1000 /\ BearScale \in 0 .. 1000
  /\ IsFiniteSet(Asset) /\ NoAsset \notin Asset

VARIABLES
  pc,         \* "idle", "buy" or "size"
  bear,       \* market_regime is BEAR
  modifier,   \* of this cycle
  cash,       \* available_usdc
  value,      \* worth of each holding when balances were read
  exValue,    \* ex_value, what the account was worth then
  positions,  \* current_positions
  todo,       \* candidates that are left
  asset,      \* the candidate at hand
  size,       \* what is bought for
  budget,     \* history: cash at the start of the cycle
  spent,      \* history: what the cycle has bought for
  room        \* history: what the limit per asset still left for it

account == <<bear, modifier, value, exValue, budget>>
vars == <<pc, account, cash, spent, positions, todo, asset, size, room>>

\* What holdings of these values are worth together.
Total(values) == SumOver(values, Asset)

Part(amount, thousandths) == (amount * thousandths) \div 1000

------------------------------------------------------------------------------
(* RiskManager *)

\* dynamic_max_position
MaxValue(reference) == reference \div MaxPositions

\* The stop distance should be 5% of a position: a wider one halves the size at
\* most, a narrower one adds a half at most.
VolMultiplier(risk) ==
  IF risk = 0 THEN 1000 ELSE Max({500, Min({1500, 50000 \div risk})})

\* Open slots share what is left; without one, a holding can be added to.
Slots(existing) == Max({1, MaxPositions - existing})

calculate_position_size(reference, existing, available, risk) ==
  Min({available \div Slots(existing),
       Part(Part(reference, TradeLimit) \div Slots(existing), VolMultiplier(risk)),
       MaxValue(reference)})

Room(reference, current) == Max({0, MaxValue(reference) - current})

\* Mutant: the limit per asset forgets what is held.
ForgetHolding(reference, current, base) == base

\* The limit per asset counts what is held; too little room is none.
Capped(reference, current, base) ==
  IF current + base <= MaxValue(reference) THEN base
  ELSE IF Room(reference, current) < MinOrder THEN 0
  ELSE Room(reference, current)

calculate_position_with_existing(reference, current, existing, available, risk) ==
  Capped(reference, current, calculate_position_size(reference, existing, available, risk))

------------------------------------------------------------------------------
(* The cycle *)

Init ==
  /\ pc = "idle"
  /\ bear = FALSE
  /\ modifier = 1000
  /\ cash = 0
  /\ value = [a \in Asset |-> 0]
  /\ exValue = 0
  /\ positions = 0
  /\ todo = {}
  /\ asset = NoAsset
  /\ size = 0
  /\ budget = 0
  /\ spent = 0
  /\ room = 0

\* Balances are read and candidates found; holdings come first, and a candidate
\* of one cycle is never tried twice.
StartCycle ==
  /\ pc = "idle"
  /\ bear' \in BOOLEAN
  /\ modifier' \in Modifier
  /\ cash' \in Cash
  /\ budget' = cash'
  /\ value' \in [Asset -> Worth]
  /\ exValue' = cash' + Total(value')
  /\ positions' = Cardinality({a \in Asset : value'[a] > 0})
  /\ todo' \in SUBSET Asset
  /\ pc' = "buy"
  /\ UNCHANGED <<spent, asset, size, room>>

EndCycle ==
  /\ pc = "buy"
  /\ todo = {}
  /\ pc' = "idle"
  /\ bear' = FALSE
  /\ modifier' = 1000
  /\ cash' = 0
  /\ value' = [a \in Asset |-> 0]
  /\ exValue' = 0
  /\ positions' = 0
  /\ budget' = 0
  /\ spent' = 0
  /\ UNCHANGED <<todo, asset, size, room>>

Scaled(base) ==
  LET scaled == IF bear THEN Part(base, BearScale) ELSE base IN
  Part(scaled, modifier)

HeldFirst(a) == value[a] > 0 \/ \A b \in todo : value[b] = 0

Full(a) == positions >= MaxPositions /\ value[a] = 0

\* The asset is in its cooldown, there is no slot for it, or it has no price.
PassOver(a) ==
  /\ pc = "buy"
  /\ a \in todo /\ HeldFirst(a)
  /\ todo' = todo \ {a}
  /\ UNCHANGED <<pc, account, cash, spent, positions, asset, size, room>>

\* The price is asked for again, so a holding may be worth something else.
Evaluate(a) ==
  /\ pc = "buy"
  /\ a \in todo /\ HeldFirst(a)
  /\ ~Full(a)
  /\ todo' = todo \ {a}
  /\ \E r \in Risk, w \in Worth :
       /\ (w = 0) = (value[a] = 0)
       /\ size' = Scaled(calculate_position_with_existing(exValue, w, positions, cash, r))
       /\ room' = Room(exValue, w)
  /\ asset' = a
  /\ pc' = "size"
  /\ UNCHANGED <<account, cash, spent, positions>>

Done ==
  /\ pc' = "buy"
  /\ asset' = NoAsset
  /\ size' = 0
  /\ room' = 0
  /\ UNCHANGED <<account, todo>>

\* Too small an order is not placed; trading is paused; the order failed or was
\* not confirmed, and what was left of it is cancelled.
NotBought ==
  /\ pc = "size"
  /\ Done
  /\ UNCHANGED <<cash, spent, positions>>

Spend == cash - size

Bought ==
  /\ pc = "size"
  /\ size >= MinOrder
  /\ cash' = Spend
  /\ spent' = spent + size
  /\ positions' = IF value[asset] > 0 THEN positions ELSE positions + 1
  /\ Done

Next ==
  \/ StartCycle \/ EndCycle
  \/ \E a \in Asset : PassOver(a) \/ Evaluate(a)
  \/ NotBought \/ Bought

Spec == Init /\ [][Next]_vars

------------------------------------------------------------------------------
\* The values each variable takes; the budget may be overdrawn, for a boost is
\* applied after the limits.
TypeOK ==
  /\ pc \in {"idle", "buy", "size"}
  /\ cash \in Int /\ size \in Int /\ room \in Nat
  /\ positions \in 0 .. Max({MaxPositions, Cardinality(Asset)})
  /\ todo \subseteq Asset
  /\ (pc = "size") = (asset # NoAsset)

\* What the derivatives signals may add to the limits.
Boost == Max({1000, modifier})

\* All that one cycle buys costs no more than the cash it began with, but for a
\* boost: each purchase is sized on what the ones before it left.  And a purchase
\* keeps the asset within its share of the account as long as nothing is boosted;
\* a bear market takes up a quarter of that room.
WithinLimits ==
  /\ 1000 * spent <= Boost * budget
  /\ size >= MinOrder =>
       1000 * size <= Boost * (IF bear THEN Part(room, BearScale) ELSE room)
==============================================================================
