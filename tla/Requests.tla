------------------------------- MODULE Requests -------------------------------
(***************************************************************************)
(* The bot's dealings with services that fail: its swaps (this module's     *)
(* own), the prices they are guarded by, the reads of balances over RPC     *)
(* endpoints, the orders at Coinbase, the 0x API, and the reports to        *)
(* Telegram.  They share no state, so one behaviour exercises one of them   *)
(* and the others stay as they began.                                       *)
(***************************************************************************)
EXTENDS OnchainSwap

CONSTANTS
  Endpoints, Token, Scanned, Legacy, MaxRetries, MaxChanges,           \* BalanceReads
  Markets, OrderFaults, Holdings, Cash, Dust, Least, Order, Polls, Lossy, NoOrder, \* CoinbaseOrders
  Client, GetAttempts, Interval, Backoff, MaxRetryAfter, RetryAfter,   \* ZeroExClient
  Regime, ConfirmCount,                                    \* RegimeAlerts
  Routers, Route, Amount, MaxSwap, Rate, Reference, NoPrice, SlippageBps,
  MaxDeviation, Deadline, Margin                           \* SwapGuards

VARIABLES
  part,       \* the one that is at work
  \* BalanceReads
  condition, changes, wallet, entries, readPc, index, tried, readAttempt, todo,
  asked, balances, steady, limited,
  \* CoinbaseOrders
  market, base, cash, orders, orderPc, avail, entry, order, listed, id, polls,
  failed, doubled, answered,
  \* SwapGuards
  router, remembered, guardPc, wanted, guardVenue, quote, allowance, swap, told,
  late, waited,
  \* ZeroExClient
  getPc, getAttempt, retryDelay, wait, locked, since, gap, due,
  \* RegimeAlerts
  bot, reading, confirmed, streak, line, reporter, status, report, saved, message,
  heard, missed

readVars ==
  <<condition, changes, wallet, entries, readPc, index, tried, readAttempt, todo,
    asked, balances, steady, limited>>
orderVars ==
  <<market, base, cash, orders, orderPc, avail, entry, order, listed, id, polls,
    failed, doubled, answered>>
guardVars ==
  <<router, remembered, guardPc, wanted, guardVenue, quote, allowance, swap, told,
    late, waited>>
getVars == <<getPc, getAttempt, retryDelay, wait, locked, since, gap, due>>
alertVars ==
  <<bot, reading, confirmed, streak, line, reporter, status, report, saved, message,
    heard, missed>>
sumVars == <<part, vars, readVars, orderVars, guardVars, getVars, alertVars>>

Part == {"swaps", "balances", "orders", "guards", "gets", "alerts"}

H == INSTANCE BalanceReads WITH pc <- readPc, attempt <- readAttempt

C == INSTANCE CoinbaseOrders WITH Faults <- OrderFaults, pc <- orderPc, job <- order

Z == INSTANCE ZeroExClient WITH
  Caller <- Client, MaxAttempts <- GetAttempts, pc <- getPc, attempt <- getAttempt

A == INSTANCE RegimeAlerts WITH job <- reporter, told <- heard

G == INSTANCE SwapGuards WITH pc <- guardPc, order <- wanted, venue <- guardVenue

\* What is not at work begins in one state of its own.
SumInit ==
  /\ part \in Part
  /\ Init /\ H!Init /\ C!Init /\ G!Init /\ Z!Init /\ A!Init
  /\ part # "balances" => condition = [e \in H!Endpoint |-> "up"]
  /\ part # "orders" => market = "spot" /\ base = 0
  /\ part # "guards" => router = CHOOSE r \in Routers : TRUE

Idle ==
  /\ UNCHANGED part
  /\ IF part = "swaps" THEN TRUE ELSE UNCHANGED vars
  /\ IF part = "balances" THEN TRUE ELSE UNCHANGED readVars
  /\ IF part = "orders" THEN TRUE ELSE UNCHANGED orderVars
  /\ IF part = "guards" THEN TRUE ELSE UNCHANGED guardVars
  /\ IF part = "gets" THEN TRUE ELSE UNCHANGED getVars
  /\ IF part = "alerts" THEN TRUE ELSE UNCHANGED alertVars

SumNext ==
  \/ part = "swaps" /\ Next /\ Idle
  \/ part = "balances" /\ H!Next /\ Idle
  \/ part = "orders" /\ C!Next /\ Idle
  \/ part = "guards" /\ G!Next /\ Idle
  \/ part = "gets" /\ Z!Next /\ Idle
  \/ part = "alerts" /\ A!Next /\ Idle

\* The cycles of CoinbaseOrders go on.
SumSpec == SumInit /\ [][SumNext]_sumVars /\ WF_orderVars(part = "orders" /\ C!Step)

------------------------------------------------------------------------------
\* The values the variables of the part at work take.
TypesOK ==
  CASE part = "swaps" -> TypeOK
    [] part = "balances" -> H!TypeOK
    [] part = "orders" -> C!TypeOK
    [] part = "guards" -> G!TypeOK
    [] part = "gets" -> Z!TypeOK
    [] part = "alerts" -> A!TypeOK

\* BalanceReads: a read over an endpoint that keeps answering clears no entry of
\* a token the account holds.
HeldIsKept == H!HeldIsKept

\* CoinbaseOrders: open orders pile up only by cancellations that failed.
OrdersDoNotPileUp == C!OrdersDoNotPileUp

\* CoinbaseOrders: the futures account is short only by what may be sold twice.
ShortByDoubled == C!ShortByDoubled

\* CoinbaseOrders: lots that are free to be sold come to be managed.
FreeLotsAreManaged == part = "orders" => C!FreeLotsAreManaged

\* SwapGuards: what fills pays what an acceptable quote allows.
FillsNearReference == G!FillsNearReference

\* SwapGuards: an Aerodrome swap that timed out does not fill any more.
TimeoutIsFinal == G!TimeoutIsFinal

\* ZeroExClient: requests keep their distance, and callers theirs.
KeepsDistance == Z!KeepsDistance

\* RegimeAlerts: each message begins where the one before it ended.
ChangesConnect == A!ChangesConnect
==============================================================================
