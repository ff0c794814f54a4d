--------------------------- MODULE CoinbaseOrders ---------------------------
(***************************************************************************)
(* How the orders of one product reach Coinbase, and what the account then  *)
(* holds: CoinbaseExecutor on the spot market, CoinbaseFuturesExecutor on   *)
(* the futures market, and the part of run_executor_strategy that handles   *)
(* their answers.  Every request may go wrong on its own, and orders fill   *)
(* at the exchange between any two requests.                                *)
(*                                                                          *)
(* Amounts count the smallest lot (base_increment, or one contract), and a  *)
(* lot costs one unit of cash: prices only decide which exit triggers and   *)
(* whether an order fills.                                                  *)
(***************************************************************************)
EXTENDS Sums

CONSTANTS
  Markets,    \* subset of {"spot", "futures"}
  Faults,     \* "get": a read gets no answer; "cancel": a cancellation is
              \* lost; "lost": an order is taken but the answer is lost
  Holdings,   \* lots held at the start, per market; the futures executor cannot buy, so
              \* its positions are opened by hand
  Cash,       \* cash at the start
  Dust,       \* spot: a holding of so many lots is worth less than DUST_THRESHOLD_USD
  Least,      \* spot: lots worth min_order_usd, the least that is ordered
  Order,      \* numbers for orders; closed ones are used again
  Polls,      \* max_attempts of check_order_filled
  Lossy,      \* contract counts n with int(n * contract_size / contract_size)
              \* = n - 1 in floating point (29 and 58 among them for BTC)
  NoOrder

OrdersConstants ==
  /\ Markets \subseteq {"spot", "futures"}
  /\ Faults \subseteq {"get", "cancel", "lost"}
  /\ Holdings \in [Markets -> SUBSET Nat] /\ Lossy \subseteq Nat
  /\ Cash \in Nat /\ Dust \in Nat /\ Least \in Nat \ {0} /\ Polls \in Nat \ {0}
  /\ IsFiniteSet(Order) /\ NoOrder \notin Order

VARIABLES
  market,   \* which executor this is
  base,     \* lots the account owns; negative is a short position
  cash,     \* cash it owns
  orders,   \* the exchange's orders
  pc,       \* where the cycle is
  avail,    \* lots it may sell, as read at the start of the cycle
  entry,    \* the state file has an entry for the product
  job,      \* the order being placed
  listed,   \* open orders that are about to be cancelled
  id,       \* the order whose fill is awaited
  polls,    \* how often it was looked up
  failed,   \* history: cancellations that failed since no order was open
  doubled,  \* history, futures: lots that may be sold once more than they are there
  answered  \* history: the balances of this cycle, and the price, were read

exchange == <<base, cash, orders>>
history == <<failed, doubled, answered>>
vars == <<market, exchange, pc, avail, entry, job, listed, id, polls, history>>

Blank == [side |-> "BUY", left |-> 0, status |-> "CLOSED"]
NoJob == [side |-> "SELL", size |-> 0, kind |-> "limit", full |-> FALSE]

Open == {o \in Order : orders[o].status = "OPEN"}

Held(side) ==
  SumOver([o \in Order |-> IF o \in Open /\ orders[o].side = side
                          THEN orders[o].left ELSE 0], Order)

(* What get_balances reports.  On the spot market lots that an open sell     *)
(* order holds are not available; a futures position is reported whole, and  *)
(* a short one not at all.  The margin of a futures account is reported in   *)
(* USD, and a cycle spends USDC only.                                        *)
Available ==
  IF market = "spot" THEN base - Held("SELL") ELSE IF base > 0 THEN base ELSE 0

CashAvailable == IF market = "spot" THEN cash - Held("BUY") ELSE 0

Init ==
  /\ market \in Markets
  /\ base \in Holdings[market]
  /\ cash = Cash
  /\ orders = [o \in Order |-> Blank]
  /\ pc = "idle"
  /\ avail = 0
  /\ entry = FALSE
  /\ job = NoJob
  /\ listed = {}
  /\ id = NoOrder
  /\ polls = 0
  /\ failed = 0
  /\ doubled = 0
  /\ answered = FALSE

------------------------------------------------------------------------------
(* The exchange *)

\* Closed orders that nobody looks up any more are forgotten.
Forget(f, awaited) ==
  [o \in Order |-> IF f[o].status # "OPEN" /\ o # awaited THEN Blank ELSE f[o]]

Filled(o, n) ==
  LET left == orders[o].left - n IN
  Forget([orders EXCEPT ![o].left = left,
                        ![o].status = IF left = 0 THEN "FILLED" ELSE "OPEN"], id)

\* An open order fills, whole or but for one lot.
Fill(o) ==
  /\ o \in Open
  /\ \E n \in {orders[o].left, orders[o].left - 1} \ {0} :
       /\ orders' = Filled(o, n)
       /\ base' = IF orders[o].side = "BUY" THEN base + n ELSE base - n
       /\ cash' = IF orders[o].side = "BUY" THEN cash - n ELSE cash + n
  /\ UNCHANGED <<market, pc, avail, entry, job, listed, id, polls, history>>

------------------------------------------------------------------------------
(* The cycle *)

\* Mutant: a holding the state file does not know is left alone.
NeverAdopted == FALSE

\* A holding without an entry gets one, and no exit is looked for this time.
Adopted == ~entry

\* On the spot market an asset that is worth too little is not in the balances.
Listed == IF market = "spot" THEN base > Dust ELSE base > 0

\* Balances are read, and the entry of an asset that is not among them is
\* cleared; held lots count for that, whether or not they are available.  A read
\* that gets no answer, or one for the first accounts only, leaves it out too.
get_balances ==
  /\ pc = "idle"
  /\ \/ /\ avail' = IF Listed THEN Available ELSE 0
        /\ entry' = (entry /\ Listed)
        /\ doubled' = IF market = "futures" /\ Listed THEN Held("SELL") ELSE doubled
        /\ answered' = TRUE
     \/ /\ "get" \in Faults
        /\ avail' = 0
        /\ entry' = FALSE
        /\ answered' = FALSE
        /\ UNCHANGED doubled
  /\ pc' = "buy"
  /\ UNCHANGED <<market, exchange, job, listed, id, polls, failed>>

Place(j, next) ==
  /\ job' = j
  /\ pc' = next
  /\ UNCHANGED <<market, exchange, avail, listed, id, polls, failed, doubled>>

\* A purchase of some lots, or none, for the cash that is free.
Buy ==
  /\ pc = "buy"
  /\ \/ Place(NoJob, "sell")
     \/ \E n \in Least .. Least + 1 :
          /\ n <= CashAvailable
          /\ Place([side |-> "BUY", size |-> n, kind |-> "limit", full |-> FALSE], "list")
  /\ UNCHANGED <<entry, answered>>

\* A part is a quarter of the holding (TAKE_PROFIT_1_SELL_RATIO), in whole lots.
Part(n) == n \div 4

StopLoss(n) == [side |-> "SELL", size |-> n, kind |-> "aggressive", full |-> TRUE]

Target(n) == [side |-> "SELL", size |-> n, kind |-> "limit", full |-> TRUE]

TakeProfit(n) == [side |-> "SELL", size |-> Part(n), kind |-> "limit", full |-> FALSE]

\* What strategy.check_exit can ask for: a stop loss sells all, aggressively; a
\* target sells all and a take-profit level a part, both with a post-only limit.
\* Bound: a level is only reached by a holding that is still whole.
Exits ==
  {StopLoss(avail), Target(avail)} \cup {TakeProfit(n) : n \in {avail} \cap Holdings[market]}

\* Too little for an order.
PassedOver == avail = 0 \/ (market = "spot" /\ avail < Least)

Sell ==
  /\ pc = "sell"
  /\ \/ /\ "get" \in Faults       \* no price
        /\ Place(NoJob, "idle")
        /\ answered' = FALSE
        /\ UNCHANGED entry
     \/ /\ PassedOver \/ entry    \* nothing to sell, or no exit triggers
        /\ Place(NoJob, "idle")
        /\ UNCHANGED <<entry, answered>>
     \/ /\ ~PassedOver /\ ~entry
        /\ Place(NoJob, "idle")
        /\ entry' = Adopted
        /\ UNCHANGED answered
     \/ /\ ~PassedOver /\ entry
        /\ \E j \in Exits : Place(j, "list")
        /\ UNCHANGED <<entry, answered>>

(* place_limit_order, place_aggressive_limit_order and place_market_order    *)
(* begin with cancel_open_orders; an unconfirmed purchase ends with it.      *)

Go(next) ==
  /\ pc' = next
  /\ listed' = {}
  /\ UNCHANGED <<market, base, cash, avail, entry, job>>

\* Mutant: orders are not cancelled before another one is placed.
CancelNothing ==
  /\ pc \in {"list", "listBought"}
  /\ Go(IF pc = "list" THEN "post" ELSE "sell")
  /\ UNCHANGED <<orders, id, polls, history>>

\* One more failure; no more are counted than orders can be open.
FailedAgain ==
  IF Open = {} THEN 0 ELSE IF failed < Cardinality(Order) THEN failed + 1 ELSE failed

\* The open orders are asked for; without an answer nothing is cancelled.
ListOrders ==
  /\ pc \in {"list", "listBought"}
  /\ LET next == IF pc = "list" THEN "post" ELSE "sell" IN
     \/ /\ Open = {}
        /\ Go(next)
        /\ failed' = 0
     \/ /\ "get" \in Faults
        /\ Go(next)
        /\ failed' = FailedAgain
     \/ /\ Open # {}
        /\ pc' = IF pc = "list" THEN "cancel" ELSE "cancelBought"
        /\ listed' = Open
        /\ UNCHANGED <<market, base, cash, avail, entry, job, failed>>
  /\ UNCHANGED <<orders, id, polls, doubled, answered>>

\* Those that are still open are cancelled; the answer is not looked at.
Cancel ==
  /\ pc \in {"cancel", "cancelBought"}
  /\ LET next == IF pc = "cancel" THEN "post" ELSE "sell" IN
     \/ /\ Go(next)
        /\ orders' = [o \in Order |-> IF o \in listed THEN Blank ELSE orders[o]]
        /\ failed' = 0
     \/ /\ "cancel" \in Faults
        /\ Go(next)
        /\ failed' = FailedAgain
        /\ UNCHANGED orders
  /\ UNCHANGED <<id, polls, doubled, answered>>

\* _base_to_contracts rounds down, at times below the number it was given.
Lots ==
  IF market = "futures" /\ job.size \in Lossy THEN job.size - 1 ELSE job.size

\* Less than a contract cannot be ordered.
TooSmall == market = "futures" /\ Lots < 1

\* Numbers that can be given to a new order.
Unused == {o \in Order : orders[o].status # "OPEN" /\ o # id}

\* A limit order rests until it fills.
Rests(o) ==
  /\ orders' = [orders EXCEPT ![o] = [side |-> job.side, left |-> Lots, status |-> "OPEN"]]
  /\ UNCHANGED <<base, cash>>

\* A market order (IOC) fills at once, whole or but for one lot, and the rest is
\* cancelled; only sales are placed this way.
FillsAtOnce(o, awaited) ==
  \E left \in {0, 1} :
    /\ left < Lots
    /\ orders' = Forget([orders EXCEPT ![o] =
         [side |-> job.side, left |-> left,
          status |-> IF left = 0 THEN "FILLED" ELSE "CANCELLED"]], awaited)
    /\ base' = base - (Lots - left)
    /\ cash' = cash + (Lots - left)

Taken(o, awaited) ==
  IF job.kind \in {"limit", "aggressive"} THEN Rests(o) ELSE FillsAtOnce(o, awaited)

\* The spot market takes an order the account can cover.
AcceptSpot(o, awaited) ==
  /\ market = "spot"
  /\ Lots > 0
  /\ Lots <= IF job.side = "BUY" THEN CashAvailable ELSE Available
  /\ Taken(o, awaited)

\* The futures market takes any sale, of whatever position.
AcceptFutures(o, awaited) ==
  /\ market = "futures"
  /\ Taken(o, awaited)

Accept(o, awaited) == AcceptSpot(o, awaited) \/ AcceptFutures(o, awaited)

\* No answer, or none was asked for: a stop loss falls back to a market order
\* once; anything else is given up.
NoAnswer ==
  IF job.kind = "aggressive"
    THEN /\ job' = [job EXCEPT !.kind = "fallback"]
         /\ pc' = "list"
    ELSE /\ job' = NoJob
         /\ pc' = IF job.side = "BUY" THEN "sell" ELSE "idle"

\* A refusal: a stop loss falls back to a last market order.
Refused ==
  IF job.kind \in {"aggressive", "fallback"}
    THEN /\ job' = [job EXCEPT !.kind = "last"]
         /\ pc' = "list"
    ELSE /\ job' = NoJob
         /\ pc' = IF job.side = "BUY" THEN "sell" ELSE "idle"

\* The product cannot be looked up, or the amount is less than a contract.
GiveUp ==
  /\ pc = "post"
  /\ "get" \in Faults \/ TooSmall
  /\ NoAnswer
  /\ UNCHANGED <<market, exchange, avail, entry, listed, id, polls, history>>

\* A stop loss that is ordered again although it was taken sells its lots twice.
OrderedAgain ==
  doubled' = IF market = "futures" /\ job.kind = "aggressive" THEN doubled + Lots ELSE doubled

\* The order is sent: taken, refused, or lost on the way there or back.
Post ==
  /\ pc = "post"
  /\ ~TooSmall
  /\ \/ /\ Unused # {}
        /\ LET o == CHOOSE u \in Unused : TRUE IN
           \/ /\ Accept(o, o)
              /\ id' = o
              /\ pc' = "poll"
              /\ UNCHANGED <<job, doubled>>
           \/ /\ "lost" \in Faults
              /\ Accept(o, NoOrder)
              /\ NoAnswer
              /\ OrderedAgain
              /\ UNCHANGED id
     \/ /\ Refused
        /\ UNCHANGED <<exchange, id, doubled>>
     \/ /\ "lost" \in Faults
        /\ NoAnswer
        /\ UNCHANGED <<exchange, id, doubled>>
  /\ UNCHANGED <<market, avail, entry, listed, polls, failed, answered>>

(* check_order_filled *)

Answered ==
  /\ orders' = Forget(orders, NoOrder)
  /\ id' = NoOrder
  /\ polls' = 0

\* Mutant: a stop loss that is not confirmed is sent once more.
SellAgain(confirmed) ==
  /\ entry' = IF job.side = "BUY" THEN entry \/ confirmed ELSE entry /\ ~job.full
  /\ IF job.kind = "aggressive" /\ ~confirmed
       THEN pc' = "post" /\ job' = [job EXCEPT !.kind = "last"]
       ELSE pc' = (IF job.side = "BUY" THEN "sell" ELSE "idle") /\ job' = NoJob
  /\ Answered

\* What follows the answer of check_order_filled.  A purchase is only booked
\* when its fill is confirmed, a sale in any case.
Booked(confirmed) ==
  /\ IF job.side = "BUY"
       THEN /\ entry' = (entry \/ confirmed)
            /\ pc' = IF confirmed THEN "sell" ELSE "listBought"
       ELSE /\ entry' = (entry /\ ~job.full)
            /\ pc' = "idle"
  /\ job' = NoJob
  /\ Answered

check_order_filled ==
  /\ pc = "poll"
  /\ \/ /\ orders[id].status = "FILLED"
        /\ Booked(TRUE)
     \/ /\ orders[id].status = "CANCELLED"
        /\ Booked(FALSE)
     \/ /\ orders[id].status = "OPEN" \/ "get" \in Faults
        /\ IF polls + 1 < Polls
             THEN polls' = polls + 1 /\ UNCHANGED <<pc, entry, job, orders, id>>
             ELSE Booked(FALSE)
  /\ UNCHANGED <<market, base, cash, avail, listed, history>>

------------------------------------------------------------------------------
Step ==
  \/ get_balances \/ Buy \/ Sell
  \/ ListOrders \/ Cancel
  \/ GiveUp \/ Post
  \/ check_order_filled

Next ==
  \/ Step
  \/ \E o \in Order : Fill(o)

\* Cycles keep coming, and each request ends (15 s); orders need not fill.
Spec == Init /\ [][Next]_vars /\ WF_vars(Step)

------------------------------------------------------------------------------
\* The values each variable takes.
TypeOK ==
  /\ market \in Markets
  /\ base \in Int /\ cash \in Int
  /\ DOMAIN orders = Order
  /\ \A o \in Order : /\ orders[o].left \in Nat
                      /\ orders[o].status \in {"CLOSED", "OPEN", "FILLED", "CANCELLED"}
  /\ avail \in Nat
  /\ entry \in BOOLEAN
  /\ (pc = "poll") = (id # NoOrder)
  /\ polls \in 0 .. Polls - 1
  /\ (listed # {}) = (pc \in {"cancel", "cancelBought"})

\* Orders for the product never pile up by themselves: each one that is open
\* besides the latest stands for a cancellation that failed on the way.
OrdersDoNotPileUp == Cardinality(Open) <= 1 + failed

\* Lots that are free to be sold and enough for an order are managed: however a
\* purchase ended (filled late, filled in part, its answer lost), and after a read
\* that failed made the bot forget the entry, it comes to have an entry for them,
\* so that exits are looked for; as long as again and again a cycle gets to read
\* the balances and the price.
FreeLotsAreManaged ==
  LET Free == Listed /\ Available > 0 /\ (market = "spot" => Available >= Least) IN
  []<>(pc = "idle" /\ answered) => (Free ~> (entry \/ ~Free))

\* No lot of a futures position is sold twice but for two reasons: its sale was
\* resting when a cycle last read the position, which is reported whole, or a
\* stop loss was taken, its answer lost, and a market order sent after it.  The
\* account is never short by more than that.
ShortByDoubled == market = "futures" => base + doubled >= 0
==============================================================================
