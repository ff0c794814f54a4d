----------------------------- MODULE SwapGuards -----------------------------
(***************************************************************************)
(* What EthereumExecutor asks of a price before it signs a swap, and what   *)
(* that is worth when the swap is mined: the reference price of an order,   *)
(* quotes by Aerodrome and by 0x, approvals in between, the floor and the   *)
(* deadline the contracts enforce, and the wait for a receipt.              *)
(*                                                                         *)
(* One caller trades one product.  Prices are rates: units of what is       *)
(* bought per unit of what is sold; the market may move between any two     *)
(* steps, so that every reading and every fill may be at another rate.      *)
(* Nonces, the kill switch, broadcasts that fail and callers that overlap   *)
(* are those of OnchainSwap.                                                *)
(***************************************************************************)
EXTENDS Integers

CONSTANTS
  Routers,       \* what ONCHAIN_ROUTER may be set to
  Route,         \* _candidate_routes of the product
  Amount,        \* amounts ordered; 0 is dust
  MaxSwap,       \* MAX_SWAP_USD, in units of a buy
  Rate,          \* rates; 0 for a pool that does not exist
  Reference,     \* reference prices, as rates; 0 is unusable
  NoPrice,       \* an order without a reference price
  SlippageBps,   \* SLIPPAGE_BPS
  MaxDeviation,  \* MAX_PRICE_DEVIATION_PCT
  Deadline,      \* TX_DEADLINE_SECONDS, in ticks
  Margin         \* how much longer RECEIPT_TIMEOUT_SECONDS is

GuardConstants ==
  /\ Routers \subseteq {"aerodrome", "zerox"}
  /\ Route # {} /\ Amount \subseteq Nat /\ MaxSwap \in Nat
  /\ Rate \subseteq Nat /\ 0 \in Rate /\ Reference \subseteq Nat
  /\ NoPrice \notin Reference
  /\ SlippageBps \in 1 .. 300 /\ MaxDeviation \in Nat
  /\ Deadline \in Nat /\ Margin \in Nat \ {0}

Side == {"BUY", "SELL"}
Venues == {"aerodrome", "zerox"}

VARIABLES
  router,      \* onchain_router
  remembered,  \* _reference_prices of the product
  pc,          \* where the order is
  order,       \* side, amount and reference price
  venue,       \* the router being tried
  quote,       \* expected_out
  allowance,   \* of each spender, for what each side sells
  swap,        \* the swap whose fate is open: its order and venue, its floor
  told,        \* what the caller was told of it, if it is open still
  late,        \* ticks since the block its deadline is counted from
  waited       \* ticks since it was sent

guardVars == <<router, remembered, pc, order, venue, quote, allowance, swap, told,
               late, waited>>

Unordered == [side |-> "BUY", amount |-> 0, reference |-> NoPrice]
NoSwap ==
  [status |-> "none", order |-> Unordered, venue |-> "aerodrome", min |-> 0, paid |-> 0]

Init ==
  /\ router \in Routers
  /\ remembered = NoPrice
  /\ pc = "idle"
  /\ order = Unordered
  /\ venue = "aerodrome"
  /\ quote = 0
  /\ allowance = [s \in Venues \X Side |-> 0]
  /\ swap = NoSwap
  /\ told = "nothing"
  /\ late = 0
  /\ waited = 0

------------------------------------------------------------------------------
(* Prices *)

\* What the pools, or 0x, may offer for an amount.
Offers(amount) == {amount * r : r \in Rate}

\* The best of the routes; one that could not be read counts as no pool.
get_quote(answers, out) ==
  out \in {answers[r] : r \in Route} /\ \A r \in Route : answers[r] <= out

_amount_out_minimum(out) == (out * (10000 - SlippageBps)) \div 10000

_exceeds_position_cap(o) == o.side = "BUY" /\ o.amount > MaxSwap

\* _adverse_price_deviation is relative to the reference price, in USDC per
\* token: a buy is worse by par / out - 1, a sell by 1 - out / par.
_reference_price_refusal(o, out) ==
  LET par == o.amount * o.reference
  IN  \/ o.reference <= 0
      \/ 100 * (par - out) > MaxDeviation * (IF o.side = "BUY" THEN out ELSE par)

\* Mutant: what 0x promises is not compared with what its calldata enforces.
CalldataUnchecked(o, q) ==
  LET our_min == _amount_out_minimum(q.buy)
  IN  /\ q.buy > 0 /\ ~_reference_price_refusal(o, q.buy)
      /\ our_min > 0 /\ q.minBuy >= our_min

\* The numbers of a firm quote: what it expects, the minimum it names, and the
\* minimum in the call of the Settler.
_check_zerox_quote(o, q) ==
  LET our_min == _amount_out_minimum(q.buy)
  IN  /\ q.buy > 0 /\ ~_reference_price_refusal(o, q.buy)
      /\ our_min > 0 /\ q.minBuy >= our_min
      /\ q.calldataMin >= our_min

------------------------------------------------------------------------------
(* Orders *)

\* Each cycle builds an executor that remembers no price.
NewExecutor ==
  /\ pc = "idle"
  /\ remembered' = NoPrice
  /\ UNCHANGED <<router, pc, order, venue, quote, allowance, swap, told, late, waited>>

place_limit_order ==
  /\ pc = "idle"
  /\ \E s \in Side, a \in Amount, p \in Reference :
       /\ order' = [side |-> s, amount |-> a, reference |-> p]
       /\ remembered' = p
  /\ pc' = "ordered"
  /\ UNCHANGED <<router, venue, quote, allowance, swap, told, late, waited>>

\* Without a price of its own an order takes the one remembered.
place_market_order ==
  /\ pc = "idle"
  /\ \E s \in Side, a \in Amount, p \in Reference \cup {NoPrice} :
       order' = [side |-> s, amount |-> a,
                 reference |-> IF p = NoPrice THEN remembered ELSE p]
  /\ pc' = "ordered"
  /\ UNCHANGED <<router, remembered, venue, quote, allowance, swap, told, late, waited>>

Unbuilt == UNCHANGED <<swap, told, late, waited>>

Settled ==
  /\ swap' = NoSwap
  /\ told' = "nothing"
  /\ late' = 0
  /\ waited' = 0

\* The order ends; what was known of it ends with it.
End ==
  /\ pc' = "idle"
  /\ order' = Unordered
  /\ venue' = "aerodrome"
  /\ quote' = 0

GoOn(next) == pc' = next /\ UNCHANGED <<order, venue, quote>>

\* The preflight and the in-flight check, on the way to a router.
Enter(v) ==
  IF \/ _exceeds_position_cap(order)
     \/ v = "zerox" /\ order.reference <= 0
     \/ swap.status = "live"
  THEN End
  ELSE /\ venue' = v
       /\ pc' = IF v = "zerox" THEN "price" ELSE "quote"
       /\ UNCHANGED <<order, quote>>

execute_swap ==
  /\ pc = "ordered"
  /\ IF order.amount > 0 /\ order.reference # NoPrice THEN Enter(router) ELSE End
  /\ UNCHANGED <<router, remembered, allowance>> /\ Unbuilt

\* A read, an estimate or a request raises: nothing is broadcast.
Fail ==
  /\ pc \in {"ordered", "price", "firm", "quote", "approve", "requote", "check", "send"}
  /\ End
  /\ IF pc = "send" THEN Settled ELSE Unbuilt
  /\ UNCHANGED <<router, remembered, allowance>>

\* Reset, if something is left of an allowance, and approval, each awaited; one
\* that is not confirmed in time may land all the same.
_approve_token ==
  LET spender == <<venue, order.side>>
      Approved(amount) == allowance' = [allowance EXCEPT ![spender] = amount]
  IN  /\ pc = "approve"
      /\ \/ /\ allowance[spender] >= order.amount
            /\ GoOn(IF venue = "zerox" THEN "firm" ELSE "check")
            /\ UNCHANGED allowance
         \/ /\ allowance[spender] < order.amount
            /\ Approved(order.amount)
            /\ GoOn(IF venue = "zerox" THEN "firm" ELSE "requote")
         \/ /\ allowance[spender] < order.amount
            /\ \E left \in {allowance[spender], 0, order.amount} : Approved(left)
            /\ End
      /\ UNCHANGED <<router, remembered>> /\ Unbuilt

\* The transaction is built; a deadline is counted from the latest block.
Build(min) ==
  /\ swap' = [status |-> "built", order |-> order, venue |-> venue, min |-> min,
              paid |-> 0]
  /\ told' = "nothing"
  /\ late' = 0
  /\ waited' = 0
  /\ pc' = "send"
  /\ quote' = 0
  /\ UNCHANGED <<order, venue>>

------------------------------------------------------------------------------
(* Aerodrome: _execute_aerodrome_swap *)

\* Quoted before the approval, and again after one that took a transaction.
Quote ==
  /\ pc \in {"quote", "requote"}
  /\ \E answers \in [Route -> Offers(order.amount)], out \in Offers(order.amount) :
       /\ get_quote(answers, out)
       /\ IF out = 0 THEN End
          ELSE /\ quote' = out
               /\ pc' = IF pc = "quote" THEN "approve" ELSE "check"
               /\ UNCHANGED <<order, venue>>
  /\ UNCHANGED <<router, remembered, allowance>> /\ Unbuilt

CheckQuote ==
  /\ pc = "check"
  /\ IF _reference_price_refusal(order, quote) \/ _amount_out_minimum(quote) <= 0
     THEN End /\ Unbuilt
     ELSE Build(_amount_out_minimum(quote))
  /\ UNCHANGED <<router, remembered, allowance>>

------------------------------------------------------------------------------
(* 0x: _execute_zerox_swap *)

\* ZeroExError: exits fall back to Aerodrome.
Unusable == IF order.side = "SELL" THEN Enter("aerodrome") ELSE End

\* The indicative price comes before the approval.
AskPrice ==
  /\ pc = "price"
  /\ \/ \E buy \in Offers(order.amount) :
          IF buy > 0 /\ ~_reference_price_refusal(order, buy)
          THEN GoOn("approve")
          ELSE Unusable
     \/ Unusable
  /\ UNCHANGED <<router, remembered, allowance>> /\ Unbuilt

\* The firm quote is unusable, whatever its numbers, if an address, the Settler,
\* the simulation or its age is not what it should be.
AskQuote ==
  /\ pc = "firm"
  /\ \/ \E buy, minBuy, calldataMin \in Offers(order.amount) :
          IF _check_zerox_quote(order, [buy |-> buy, minBuy |-> minBuy,
                                        calldataMin |-> calldataMin])
          THEN Build(calldataMin)
          ELSE Unusable /\ Unbuilt
     \/ Unusable /\ Unbuilt
  /\ UNCHANGED <<router, remembered, allowance>>

------------------------------------------------------------------------------
(* Sending and waiting *)

Send ==
  /\ pc = "send"
  /\ swap' = [swap EXCEPT !.status = "live"]
  /\ pc' = "wait"
  /\ UNCHANGED <<router, remembered, order, venue, quote, allowance, told, late, waited>>

\* Mutant: the wait is as long as the deadline.
WaitIsDeadline == Deadline

RECEIPT_TIMEOUT == Deadline + Margin

\* A wait that raises before its time, and a lookup that raises, leave the
\* outcome unresolved.
_await_swap ==
  /\ pc = "wait"
  /\ \/ swap.status # "live" /\ Settled
     \/ /\ \/ swap.status = "live" /\ waited = RECEIPT_TIMEOUT /\ told' = "timeout"
           \/ told' = "unresolved"
        /\ UNCHANGED <<swap, late, waited>>
  /\ End
  /\ UNCHANGED <<router, remembered, allowance>>

Tick ==
  /\ pc = "send" \/ swap.status = "live"
  /\ late' = IF late <= Deadline THEN late + 1 ELSE late
  /\ waited' = IF pc = "wait" /\ waited < RECEIPT_TIMEOUT THEN waited + 1 ELSE waited
  /\ UNCHANGED <<router, remembered, pc, order, venue, quote, allowance, swap, told>>

\* A block includes the swap: the contract pays its floor at least, and
\* Aerodrome's not after the deadline.
Mine ==
  LET o == swap.order
      spender == <<swap.venue, o.side>>
  IN  /\ swap.status = "live"
      /\ \E out \in Offers(o.amount) :
           IF /\ out >= swap.min
              /\ allowance[spender] >= o.amount
              /\ swap.venue = "aerodrome" => late <= Deadline
           THEN /\ swap' = [swap EXCEPT !.status = "filled", !.paid = out]
                /\ allowance' = [allowance EXCEPT ![spender] = @ - o.amount]
           ELSE /\ swap' = [swap EXCEPT !.status = "reverted"]
                /\ UNCHANGED allowance
      /\ UNCHANGED <<router, remembered, pc, order, venue, quote, told, late, waited>>

Drop ==
  /\ swap.status = "live"
  /\ swap' = [swap EXCEPT !.status = "dropped"]
  /\ UNCHANGED <<router, remembered, pc, order, venue, quote, allowance, told, late,
                 waited>>

Next ==
  \/ NewExecutor \/ place_limit_order \/ place_market_order \/ execute_swap \/ Fail
  \/ _approve_token \/ Quote \/ CheckQuote \/ AskPrice \/ AskQuote
  \/ Send \/ _await_swap \/ Tick \/ Mine \/ Drop

Spec == Init /\ [][Next]_guardVars

------------------------------------------------------------------------------
(* Properties *)

SwapOrder == [side : Side, amount : Amount \cup {0}, reference : Reference \cup {NoPrice}]

\* The values each variable takes.
TypeOK ==
  /\ router \in Routers
  /\ remembered \in Reference \cup {NoPrice}
  /\ pc \in {"idle", "ordered", "price", "firm", "quote", "approve", "requote",
             "check", "send", "wait"}
  /\ order \in SwapOrder
  /\ venue \in Venues
  /\ quote \in UNION {Offers(a) : a \in Amount \cup {0}}
  /\ allowance \in [Venues \X Side -> Nat]
  /\ \A s \in Venues \X Side : \E a \in Amount \cup {0} : allowance[s] <= a
  /\ swap.status \in {"none", "built", "live", "filled", "reverted", "dropped"}
  /\ swap.order \in SwapOrder /\ swap.venue \in Venues
  /\ told \in {"nothing", "timeout", "unresolved"}
  /\ late \in 0 .. Deadline + 1 /\ waited \in 0 .. RECEIPT_TIMEOUT
  /\ (pc = "send") = (swap.status = "built")

\* ethereum_executor.py, "refuses quotes worse than it by more than
\* MAX_PRICE_DEVIATION_PCT": a swap that fills pays what some acceptable quote
\* allows at least, however long the approval took, whichever router filled it
\* and wherever the market went.
FillsNearReference ==
  swap.status = "filled" =>
    \E out \in Offers(swap.order.amount) :
      /\ ~_reference_price_refusal(swap.order, out)
      /\ swap.paid >= _amount_out_minimum(out)

\* ethereum_executor.py, "an unmined swap can no longer fill, so a timeout is
\* final": true of Aerodrome, whose swaps have a deadline.
TimeoutIsFinal ==
  told = "timeout" /\ swap.venue = "aerodrome" => swap.status # "filled"
==============================================================================
