----------------------------- MODULE OrderProofs -----------------------------
(***************************************************************************)
(* What becomes of orders.  On chain: what the price guards are worth when  *)
(* a swap is mined, for any routes, amounts, rates, tolerances and          *)
(* deadline.  At Coinbase: orders neither pile up nor turn a futures        *)
(* position short, and a spot account owns what its sales hold, for any     *)
(* numbers of orders, holdings, lossy counts and faults.                    *)
(***************************************************************************)
EXTENDS Requests, SumTheorems

\* In Requests the guards and the executor begin as they do by themselves, and a
\* step makes one of their steps or leaves them alone.
LEMMA SumBegins == SumInit => G!Init /\ C!Init
BY DEF SumInit

LEMMA SumMovesGuards == [SumNext]_sumVars => [G!Next]_(G!guardVars)
BY DEF SumNext, Idle, sumVars, guardVars, G!guardVars

LEMMA SumMovesOrders == [SumNext]_sumVars => [C!Next]_(C!vars)
BY DEF SumNext, Idle, sumVars, orderVars, C!vars, C!exchange, C!history

------------------------------------------------------------------------------
(* Swaps on chain: SwapGuards *)

Status == {"none", "built", "live", "filled", "reverted", "dropped"}

Ordered == [side : G!Side, amount : Nat, reference : Reference \cup {NoPrice}]

Swap == [status : Status, order : Ordered, venue : G!Venues, min : Int, paid : Int]

\* A floor that some acceptable quote for the order allows.
Guards(min, o) ==
  \E out \in G!Offers(o.amount) :
    ~G!_reference_price_refusal(o, out) /\ min >= G!_amount_out_minimum(out)

\* Orders and swaps are what they should be, a swap is built exactly until it is
\* sent, and the quote about to be checked is one for the order.
ShapeInv ==
  /\ router \in G!Venues /\ guardVenue \in G!Venues
  /\ remembered \in Reference \cup {NoPrice}
  /\ wanted \in Ordered
  /\ swap \in Swap
  /\ guardPc = "send" <=> swap.status = "built"
  /\ guardPc \in {"approve", "check"} /\ guardVenue = "aerodrome" => quote \in G!Offers(wanted.amount)
  /\ guardPc \in {"check", "requote"} => guardVenue = "aerodrome"
  /\ guardPc \in {"price", "firm"} => guardVenue = "zerox"

\* The floor in a swap comes from an acceptable quote, and what it paid is no less.
MinimumInv ==
  /\ swap.status \in {"built", "live", "filled"} => Guards(swap.min, swap.order)
  /\ swap.status = "filled" => swap.paid >= swap.min

\* The deadline began before the wait.
ClockInv ==
  /\ late \in Nat /\ waited \in Nat
  /\ swap.status = "built" => waited = 0 /\ told = "nothing"
  /\ swap.status = "live" => waited <= late \/ late > Deadline
  /\ swap.status = "live" /\ told = "timeout" => late > Deadline
  /\ G!TimeoutIsFinal

GuardInv == ShapeInv /\ MinimumInv /\ ClockInv

\* Nothing is offered but whole amounts.
LEMMA OffersAreAmounts ==
  ASSUME G!GuardConstants, NEW a \in Nat, NEW out \in G!Offers(a)
  PROVE  out \in Nat /\ G!_amount_out_minimum(out) \in Int
<1>1. PICK r \in Rate : out = a * r
  BY DEF G!Offers
<1>2. out \in Nat
  BY <1>1 DEF G!GuardConstants
<1> QED
  BY <1>2 DEF G!GuardConstants, G!_amount_out_minimum

\* No order is placed and nothing is swapped yet.
LEMMA GuardInit == G!GuardConstants /\ G!Init => GuardInv
  BY
  DEF G!GuardConstants, G!Init, GuardInv, ShapeInv, MinimumInv, ClockInv, G!TimeoutIsFinal,
         G!Unordered, G!NoSwap, Ordered, Swap, Status, G!Side, G!Venues

\* What leaves the swap and its clock alone keeps what is known of them.
LEMMA UnbuiltKeeps == MinimumInv /\ ClockInv /\ G!Unbuilt => MinimumInv' /\ ClockInv'
  BY DEF MinimumInv, ClockInv, G!Unbuilt, G!TimeoutIsFinal, Guards

\* The order that ends leaves nothing to be checked.
LEMMA EndKeepsShape ==
  ASSUME ShapeInv, G!End, guardPc # "send", UNCHANGED <<router, swap>>,
         remembered' \in Reference \cup {NoPrice}
  PROVE  ShapeInv'
  BY DEF ShapeInv, G!End, G!Unordered, Ordered, G!Side, G!Venues

LEMMA SettledKeeps ==
  ASSUME G!GuardConstants, ShapeInv, G!End, G!Settled, UNCHANGED <<router, remembered>>
  PROVE  GuardInv'
  BY
  DEF G!GuardConstants, GuardInv, ShapeInv, MinimumInv, ClockInv, G!TimeoutIsFinal, G!End,
         G!Settled, G!Unordered, G!NoSwap, Ordered, Swap, Status, G!Side, G!Venues

\* A swap is built with a floor from an acceptable quote.
LEMMA BuildKeeps ==
  ASSUME GuardInv, NEW min \in Int, Guards(min, wanted), G!Build(min),
         UNCHANGED <<router, remembered>>
  PROVE  GuardInv'
<1>1. swap' = [status |-> "built", order |-> wanted, venue |-> guardVenue, min |-> min, paid |-> 0]
  BY DEF G!Build
<1>2. ShapeInv'
  BY <1>1 DEF GuardInv, ShapeInv, G!Build, Swap, Status
<1>3. MinimumInv'
  BY <1>1 DEF MinimumInv, Guards
<1>4. ClockInv'
  BY <1>1 DEF ClockInv, G!TimeoutIsFinal, G!Build
<1> QED
  BY <1>2, <1>3, <1>4 DEF GuardInv

------------------------------------------------------------------------------
(* One lemma per group of actions *)

\* A new executor and a new order leave the last swap alone.
LEMMA OrdersKeep ==
  ASSUME G!GuardConstants, GuardInv,
         G!NewExecutor \/ G!place_limit_order \/ G!place_market_order \/ G!execute_swap
  PROVE  GuardInv'
<1>1. G!Unbuilt
  BY
  DEF G!NewExecutor, G!place_limit_order, G!place_market_order, G!execute_swap, G!Unbuilt
<1>2. MinimumInv' /\ ClockInv'
  BY <1>1, UnbuiltKeeps DEF GuardInv
<1>3. CASE G!NewExecutor
  BY <1>2, <1>3 DEF GuardInv, ShapeInv, G!NewExecutor
<1>4. CASE G!place_limit_order
  <2>1. wanted' \in Ordered
    BY <1>4 DEF G!place_limit_order, Ordered, G!GuardConstants, G!Side
  <2> QED
    BY <1>2, <1>4, <2>1 DEF GuardInv, ShapeInv, G!place_limit_order
<1>5. CASE G!place_market_order
  <2>1. PICK s \in G!Side, a \in Amount, p \in Reference \cup {NoPrice} :
          wanted' = [side |-> s, amount |-> a,
                    reference |-> IF p = NoPrice THEN remembered ELSE p]
    BY <1>5 DEF G!place_market_order
  <2>2. wanted' \in Ordered
    BY <2>1 DEF GuardInv, ShapeInv, Ordered, G!GuardConstants
  <2> QED
    BY <1>2, <1>5, <2>2 DEF GuardInv, ShapeInv, G!place_market_order
<1>6. CASE G!execute_swap
  <2>1. CASE G!End
    BY <1>1, <1>2, <1>6, <2>1, EndKeepsShape
    DEF GuardInv, ShapeInv, G!execute_swap, G!Unbuilt
  <2>2. CASE ~G!End
    BY <1>1, <1>2, <1>6, <2>2
    DEF GuardInv, ShapeInv, G!execute_swap, G!Enter, G!Unbuilt, G!Venues
  <2> QED
    BY <2>1, <2>2
<1> QED
  BY <1>3, <1>4, <1>5, <1>6

\* Approvals and quotes: what is about to be checked was quoted for the order.
LEMMA QuotesKeep ==
  ASSUME G!GuardConstants, GuardInv, G!_approve_token \/ G!Quote \/ G!AskPrice
  PROVE  GuardInv'
<1>1. G!Unbuilt /\ guardPc # "send"
  BY DEF G!_approve_token, G!Quote, G!AskPrice
<1>2. MinimumInv' /\ ClockInv'
  BY <1>1, UnbuiltKeeps DEF GuardInv
<1>3. CASE G!End
  BY <1>1, <1>2, <1>3, EndKeepsShape
     DEF GuardInv, ShapeInv, G!Unbuilt, G!_approve_token, G!Quote, G!AskPrice
<1>4. CASE G!_approve_token /\ ~G!End
  BY <1>1, <1>2, <1>4
  DEF GuardInv, ShapeInv, G!_approve_token, G!GoOn, G!Unbuilt, Swap, G!Venues
<1>5. CASE G!Quote /\ ~G!End
  <2>1. PICK out \in G!Offers(wanted.amount) :
          /\ quote' = out
          /\ guardPc' = IF guardPc = "quote" THEN "approve" ELSE "check"
          /\ UNCHANGED <<wanted, guardVenue>>
    BY <1>5 DEF G!Quote
  <2>2. guardPc \in {"quote", "requote"} /\ UNCHANGED <<router, remembered>>
    BY <1>5 DEF G!Quote
  <2> QED
    BY <1>1, <1>2, <2>1, <2>2 DEF GuardInv, ShapeInv, G!Unbuilt
<1>6. CASE G!AskPrice /\ ~G!End
  BY <1>1, <1>2, <1>6
  DEF GuardInv, ShapeInv, G!AskPrice, G!GoOn, G!Unusable, G!Enter, G!Unbuilt, G!Venues
<1> QED
  BY <1>3, <1>4, <1>5, <1>6

\* Aerodrome: the quote that was checked is the one the floor is taken from.
LEMMA CheckKeeps ==
  ASSUME G!GuardConstants, GuardInv, G!CheckQuote
  PROVE  GuardInv'
<1>1. CASE G!End /\ G!Unbuilt
  BY <1>1, UnbuiltKeeps, EndKeepsShape DEF GuardInv, ShapeInv, G!CheckQuote, G!Unbuilt
<1>2. CASE ~(G!End /\ G!Unbuilt)
  <2>1. G!Build(G!_amount_out_minimum(quote)) /\ ~G!_reference_price_refusal(wanted, quote)
    BY <1>2 DEF G!CheckQuote
  <2>2. quote \in G!Offers(wanted.amount) /\ wanted.amount \in Nat
    BY DEF G!CheckQuote, GuardInv, ShapeInv, Ordered
  <2>3. G!_amount_out_minimum(quote) \in Int
    BY <2>2, OffersAreAmounts
  <2>4. Guards(G!_amount_out_minimum(quote), wanted)
    BY <2>1, <2>2, <2>3 DEF Guards
  <2>5. UNCHANGED <<router, remembered>>
    BY DEF G!CheckQuote
  <2> QED
    BY <2>1, <2>3, <2>4, <2>5, BuildKeeps
<1> QED
  BY <1>1, <1>2

\* 0x: the floor its calldata enforces is not below ours.
LEMMA AskQuoteKeeps ==
  ASSUME G!GuardConstants, GuardInv, G!AskQuote
  PROVE  GuardInv'
<1>1. CASE G!Unusable /\ G!Unbuilt
  <2>1. MinimumInv' /\ ClockInv'
    BY <1>1, UnbuiltKeeps DEF GuardInv
  <2>2. CASE G!End
    BY <1>1, <2>1, <2>2, EndKeepsShape DEF GuardInv, ShapeInv, G!AskQuote, G!Unbuilt
  <2>3. CASE ~G!End
    BY <1>1, <2>1, <2>3
    DEF GuardInv, ShapeInv, G!AskQuote, G!Unusable, G!Enter, G!Unbuilt, G!Venues
  <2> QED
    BY <2>2, <2>3
<1>2. CASE ~(G!Unusable /\ G!Unbuilt)
  <2>1. PICK buy, minBuy, calldataMin \in G!Offers(wanted.amount) :
          /\ G!_check_zerox_quote(wanted, [buy |-> buy, minBuy |-> minBuy,
                                        calldataMin |-> calldataMin])
          /\ G!Build(calldataMin)
    BY <1>2 DEF G!AskQuote
  <2>2. wanted.amount \in Nat
    BY DEF GuardInv, ShapeInv, Ordered
  <2>3. calldataMin \in Int
    BY <2>2, OffersAreAmounts
  <2>4. Guards(calldataMin, wanted)
    BY <2>1 DEF Guards, G!_check_zerox_quote
  <2>5. UNCHANGED <<router, remembered>>
    BY DEF G!AskQuote
  <2> QED
    BY <2>1, <2>3, <2>4, <2>5, BuildKeeps
<1> QED
  BY <1>1, <1>2

\* What fails before it is sent is forgotten.
LEMMA FailKeeps ==
  ASSUME G!GuardConstants, GuardInv, G!Fail
  PROVE  GuardInv'
<1>1. CASE guardPc = "send"
  BY <1>1, SettledKeeps DEF GuardInv, G!Fail
<1>2. CASE guardPc # "send"
  BY <1>2, UnbuiltKeeps, EndKeepsShape DEF GuardInv, ShapeInv, G!Fail, G!Unbuilt
<1> QED
  BY <1>1, <1>2

\* The wait begins when the swap is sent, its deadline at the latest then.
LEMMA SendKeeps ==
  ASSUME GuardInv, G!Send
  PROVE  GuardInv'
<1>1. swap.status = "built" /\ swap' = [swap EXCEPT !.status = "live"]
  BY DEF GuardInv, ShapeInv, G!Send
<1>2. ShapeInv'
  BY <1>1 DEF GuardInv, ShapeInv, G!Send, Swap, Status
<1>3. MinimumInv'
  BY <1>1 DEF GuardInv, ShapeInv, MinimumInv, Guards, Swap
<1>4. ClockInv'
  BY <1>1 DEF GuardInv, ShapeInv, ClockInv, G!TimeoutIsFinal, G!Send, Swap
<1> QED
  BY <1>2, <1>3, <1>4 DEF GuardInv

\* A wait that came to its end outlasted the deadline.
LEMMA AwaitKeeps ==
  ASSUME G!GuardConstants, GuardInv, G!_await_swap
  PROVE  GuardInv'
<1>1. CASE G!Settled
  BY <1>1, SettledKeeps DEF GuardInv, G!_await_swap
<1>2. CASE ~G!Settled
  <2>1. guardPc = "wait" /\ G!End /\ UNCHANGED <<router, remembered, swap, late, waited>>
    BY <1>2 DEF G!_await_swap
  <2>2. ShapeInv'
    BY <2>1, EndKeepsShape DEF GuardInv, ShapeInv
  <2>3. MinimumInv'
    BY <2>1 DEF GuardInv, MinimumInv, Guards
  <2>4. CASE told' = "unresolved"
    BY <2>1, <2>2, <2>3, <2>4 DEF GuardInv, ShapeInv, ClockInv, G!TimeoutIsFinal
  <2>5. CASE swap.status = "live" /\ waited = G!RECEIPT_TIMEOUT /\ told' = "timeout"
    <3>1. late > Deadline
      BY <2>5 DEF GuardInv, ClockInv, G!RECEIPT_TIMEOUT, G!GuardConstants
    <3> QED
      BY <2>1, <2>2, <2>3, <2>5, <3>1 DEF GuardInv, ClockInv, G!TimeoutIsFinal
  <2> QED
    BY <1>2, <2>4, <2>5 DEF G!_await_swap
<1> QED
  BY <1>1, <1>2

\* The deadline and the wait run at the same pace.
LEMMA TickKeeps ==
  ASSUME G!GuardConstants, GuardInv, G!Tick
  PROVE  GuardInv'
<1>1. ShapeInv' /\ MinimumInv'
  BY DEF GuardInv, ShapeInv, MinimumInv, G!Tick, Guards
<1>2. late' \in Nat /\ waited' \in Nat
  BY DEF GuardInv, ClockInv, G!Tick, G!GuardConstants
<1>3. swap.status = "built" => waited' = 0
  BY DEF GuardInv, ShapeInv, ClockInv, G!Tick
<1>4. swap.status = "live" => waited' <= late' \/ late' > Deadline
  BY DEF GuardInv, ClockInv, G!Tick, G!GuardConstants
<1>5. late > Deadline => late' > Deadline
  BY DEF GuardInv, ClockInv, G!Tick, G!GuardConstants
<1>6. ClockInv'
  BY <1>2, <1>3, <1>4, <1>5 DEF GuardInv, ClockInv, G!TimeoutIsFinal, G!Tick
<1> QED
  BY <1>1, <1>6 DEF GuardInv

\* A swap fills at its floor or above; Aerodrome's only before the deadline.
LEMMA MineKeeps ==
  ASSUME G!GuardConstants, GuardInv, G!Mine
  PROVE  GuardInv'
<1>1. swap.status = "live" /\ guardPc # "send"
  BY DEF GuardInv, ShapeInv, G!Mine
<1>2. PICK out \in G!Offers(swap.order.amount) :
        \/ /\ out >= swap.min
           /\ swap.venue = "aerodrome" => late <= Deadline
           /\ swap' = [swap EXCEPT !.status = "filled", !.paid = out]
        \/ swap' = [swap EXCEPT !.status = "reverted"]
  BY DEF G!Mine
<1>3. out \in Int
  BY OffersAreAmounts DEF GuardInv, ShapeInv, Swap, Ordered
<1>4. UNCHANGED <<router, remembered, guardPc, wanted, guardVenue, quote, told, late, waited>>
  BY DEF G!Mine
<1>5. ShapeInv'
  BY <1>1, <1>2, <1>3, <1>4 DEF GuardInv, ShapeInv, Swap, Status
<1>6. MinimumInv'
  BY <1>1, <1>2, <1>3 DEF GuardInv, ShapeInv, MinimumInv, Guards, Swap
<1>7. told = "timeout" => late > Deadline /\ late \in Nat /\ Deadline \in Nat
  BY <1>1 DEF GuardInv, ClockInv, G!GuardConstants
<1>8. swap'.status \in {"filled", "reverted"} /\ swap'.venue = swap.venue
  BY <1>2 DEF GuardInv, ShapeInv, Swap
<1>9. swap'.status = "filled" /\ swap.venue = "aerodrome" => late <= Deadline
  BY <1>2 DEF GuardInv, ShapeInv, Swap
<1>10. G!TimeoutIsFinal'
  BY <1>4, <1>7, <1>8, <1>9 DEF G!TimeoutIsFinal
<1>11. ClockInv'
  BY <1>4, <1>8, <1>10 DEF GuardInv, ClockInv
<1> QED
  BY <1>5, <1>6, <1>11 DEF GuardInv

LEMMA DropKeeps ==
  ASSUME GuardInv, G!Drop
  PROVE  GuardInv'
<1>1. swap.status = "live" /\ swap' = [swap EXCEPT !.status = "dropped"]
  BY DEF G!Drop
<1> QED
  BY <1>1
  DEF GuardInv, ShapeInv, MinimumInv, ClockInv, G!TimeoutIsFinal, G!Drop, Swap, Status

LEMMA GuardStep == G!GuardConstants /\ GuardInv /\ [G!Next]_(G!guardVars) => GuardInv'
<1> SUFFICES ASSUME G!GuardConstants, GuardInv, [G!Next]_(G!guardVars) PROVE GuardInv'
  OBVIOUS
<1>1. CASE UNCHANGED G!guardVars
  BY <1>1
  DEF G!guardVars, GuardInv, ShapeInv, MinimumInv, ClockInv, G!TimeoutIsFinal, Guards
<1>2. CASE G!Next
  BY <1>2, OrdersKeep, QuotesKeep, CheckKeeps, AskQuoteKeeps, FailKeeps, SendKeeps,
     AwaitKeeps, TickKeeps, MineKeeps, DropKeeps DEF G!Next
<1> QED
  BY <1>1, <1>2

LEMMA GuardAlways ==
  ASSUME G!GuardConstants
  PROVE  (G!Spec => []GuardInv) /\ (SumSpec => []GuardInv)
BY GuardInit, GuardStep, SumBegins, SumMovesGuards, PTL DEF G!Spec, SumSpec

\* ethereum_executor.py, "refuses quotes worse than it by more than
\* MAX_PRICE_DEVIATION_PCT": what fills pays what an acceptable quote allows.
THEOREM FillsStayNearReference ==
  ASSUME G!GuardConstants
  PROVE  /\ G!Spec => []FillsNearReference
         /\ SumSpec => []FillsNearReference
<1>1. GuardInv => FillsNearReference
  <2> SUFFICES ASSUME GuardInv, swap.status = "filled"
               PROVE  \E out \in G!Offers(swap.order.amount) :
                        /\ ~G!_reference_price_refusal(swap.order, out)
                        /\ swap.paid >= G!_amount_out_minimum(out)
    BY DEF FillsNearReference, G!FillsNearReference
  <2>1. PICK out \in G!Offers(swap.order.amount) :
          ~G!_reference_price_refusal(swap.order, out) /\ swap.min >= G!_amount_out_minimum(out)
    BY DEF GuardInv, MinimumInv, Guards
  <2>2. swap.paid \in Int /\ swap.min \in Int /\ G!_amount_out_minimum(out) \in Int
    BY OffersAreAmounts DEF GuardInv, ShapeInv, Swap, Ordered
  <2>3. swap.paid >= swap.min
    BY DEF GuardInv, MinimumInv
  <2> QED
    BY <2>1, <2>2, <2>3
<1> QED
  BY <1>1, GuardAlways, PTL

\* ethereum_executor.py, "an unmined swap can no longer fill, so a timeout is
\* final", of Aerodrome: the wait outlasts a deadline that began before it.
THEOREM TimeoutsAreFinal ==
  ASSUME G!GuardConstants
  PROVE  /\ G!Spec => []TimeoutIsFinal
         /\ SumSpec => []TimeoutIsFinal
<1>1. GuardInv => TimeoutIsFinal
  BY DEF GuardInv, ClockInv, TimeoutIsFinal
<1> QED
  BY <1>1, GuardAlways, PTL

------------------------------------------------------------------------------
(* Swaps on chain: the values their variables take *)

\* What an order leaves of what was known of it has its type.
OrderTypes ==
  /\ guardPc \in {"idle", "ordered", "price", "firm", "quote", "approve", "requote",
                  "check", "send", "wait"}
  /\ wanted \in G!SwapOrder /\ guardVenue \in G!Venues
  /\ quote \in UNION {G!Offers(a) : a \in Amount \cup {0}}

\* No approval is for more than some order, or was ever more than used up.
AllowanceTypes ==
  /\ allowance \in [G!Venues \X G!Side -> Nat]
  /\ \A s \in G!Venues \X G!Side : \E a \in Amount \cup {0} : allowance[s] <= a

SwapTypes ==
  /\ swap.status \in Status /\ swap.order \in G!SwapOrder /\ swap.venue \in G!Venues
  /\ told \in {"nothing", "timeout", "unresolved"}
  /\ late \in 0 .. Deadline + 1 /\ waited \in 0 .. G!RECEIPT_TIMEOUT

GuardTypes ==
  /\ router \in Routers /\ remembered \in Reference \cup {NoPrice}
  /\ OrderTypes /\ AllowanceTypes /\ SwapTypes

LEMMA UnorderedIsTyped ==
  G!GuardConstants =>
    /\ G!Unordered \in G!SwapOrder /\ G!NoSwap.order \in G!SwapOrder
    /\ 0 \in UNION {G!Offers(a) : a \in Amount \cup {0}}
<1> SUFFICES ASSUME G!GuardConstants
             PROVE  /\ G!Unordered \in G!SwapOrder /\ G!NoSwap.order \in G!SwapOrder
                    /\ 0 \in UNION {G!Offers(a) : a \in Amount \cup {0}}
  OBVIOUS
<1>1. G!Unordered \in G!SwapOrder /\ G!NoSwap.order = G!Unordered
  BY DEF G!Unordered, G!SwapOrder, G!Side, G!NoSwap
<1>2. 0 \in G!Offers(0)
  BY DEF G!Offers, G!GuardConstants
<1> QED
  BY <1>1, <1>2

LEMMA GuardTypesInit == G!GuardConstants /\ G!Init => GuardTypes
<1> SUFFICES ASSUME G!GuardConstants, G!Init
             PROVE  GuardTypes
  OBVIOUS
<1>1. OrderTypes
  BY UnorderedIsTyped DEF G!Init, OrderTypes, G!Venues
<1>2. AllowanceTypes
  BY DEF G!Init, AllowanceTypes
<1>3. SwapTypes
  BY UnorderedIsTyped
  DEF G!Init, SwapTypes, G!NoSwap, G!Venues, Status, G!GuardConstants, G!RECEIPT_TIMEOUT
<1> QED
  BY <1>1, <1>2, <1>3 DEF GuardTypes, G!Init

LEMMA EndKeepsTypes == G!GuardConstants /\ G!End => OrderTypes'
  BY UnorderedIsTyped DEF G!End, OrderTypes, G!Venues

LEMMA SettledKeepsTypes == G!GuardConstants /\ G!Settled => SwapTypes'
  BY UnorderedIsTyped
  DEF G!Settled, SwapTypes, G!NoSwap, G!Venues, Status, G!GuardConstants, G!RECEIPT_TIMEOUT

LEMMA UnbuiltKeepsTypes == SwapTypes /\ G!Unbuilt => SwapTypes'
  BY DEF SwapTypes, G!Unbuilt

LEMMA EnterKeepsTypes ==
  ASSUME G!GuardConstants, OrderTypes, NEW v \in G!Venues, G!Enter(v)
  PROVE  OrderTypes'
<1>1. CASE G!End
  BY <1>1, EndKeepsTypes
<1>2. CASE ~G!End
  <2>1. guardVenue' = v /\ guardPc' \in {"price", "quote"} /\ UNCHANGED <<wanted, quote>>
    BY <1>2 DEF G!Enter
  <2> QED
    BY <2>1 DEF OrderTypes
<1> QED
  BY <1>1, <1>2

LEMMA UnusableKeepsTypes ==
  ASSUME G!GuardConstants, OrderTypes, G!Unusable
  PROVE  OrderTypes'
<1>1. "aerodrome" \in G!Venues
  BY DEF G!Venues
<1> QED
  BY <1>1, EndKeepsTypes, EnterKeepsTypes DEF G!Unusable

LEMMA BuildKeepsTypes ==
  ASSUME G!GuardConstants, OrderTypes, NEW min, G!Build(min)
  PROVE  OrderTypes' /\ SwapTypes'
<1>1. OrderTypes'
  BY UnorderedIsTyped DEF G!Build, OrderTypes
<1>2. /\ swap' = [status |-> "built", order |-> wanted, venue |-> guardVenue, min |-> min, paid |-> 0]
      /\ told' = "nothing" /\ late' = 0 /\ waited' = 0
  BY DEF G!Build
<1>3. swap'.status = "built" /\ swap'.order = wanted /\ swap'.venue = guardVenue
  BY <1>2
<1> QED
  BY <1>1, <1>2, <1>3 DEF SwapTypes, OrderTypes, Status, G!GuardConstants, G!RECEIPT_TIMEOUT

\* An approval leaves an allowance for the order, none, or what there was.
LEMMA ApprovalKeepsTypes ==
  ASSUME G!GuardConstants, OrderTypes, AllowanceTypes, G!_approve_token
  PROVE  OrderTypes' /\ AllowanceTypes'
<1> DEFINE spender == <<guardVenue, wanted.side>>
<1>1. /\ spender \in G!Venues \X G!Side /\ wanted.amount \in Amount \cup {0} /\ wanted.amount \in Nat
      /\ allowance[spender] \in Nat
  BY DEF OrderTypes, AllowanceTypes, G!SwapOrder, G!GuardConstants
<1>2. \/ allowance' = allowance
      \/ \E left \in {allowance[spender], 0, wanted.amount} :
           allowance' = [allowance EXCEPT ![spender] = left]
  BY DEF G!_approve_token
<1> HIDE DEF spender
<1>3. AllowanceTypes'
  <2>1. CASE allowance' = allowance
    BY <2>1 DEF AllowanceTypes
  <2>2. ASSUME NEW left \in {allowance[spender], 0, wanted.amount},
               allowance' = [allowance EXCEPT ![spender] = left]
        PROVE  AllowanceTypes'
    <3>1. left \in Nat /\ \E a \in Amount \cup {0} : left <= a
      <4>1. \E a \in Amount \cup {0} : allowance[spender] <= a
        BY <1>1 DEF AllowanceTypes
      <4> QED
        BY <1>1, <4>1
    <3>2. \A s \in G!Venues \X G!Side : allowance'[s] = IF s = spender THEN left ELSE allowance[s]
      BY <2>2 DEF AllowanceTypes
    <3>3. allowance' \in [G!Venues \X G!Side -> Nat]
      BY <2>2, <3>1 DEF AllowanceTypes
    <3> QED
      BY <3>1, <3>2, <3>3 DEF AllowanceTypes
  <2> QED
    BY <1>2, <2>1, <2>2
<1>4. OrderTypes'
  <2>1. CASE G!End
    BY <2>1, EndKeepsTypes
  <2>2. CASE \E next \in {"firm", "check", "requote"} : G!GoOn(next)
    BY <2>2 DEF G!GoOn, OrderTypes
  <2> QED
    BY <2>1, <2>2 DEF G!_approve_token
<1> QED
  BY <1>3, <1>4

LEMMA OrdersKeepTypes ==
  ASSUME G!GuardConstants, GuardTypes,
         \/ G!NewExecutor \/ G!place_limit_order \/ G!place_market_order
         \/ G!execute_swap \/ G!Fail
  PROVE  GuardTypes'
<1>1. CASE G!NewExecutor
  BY <1>1 DEF G!NewExecutor, GuardTypes, OrderTypes, AllowanceTypes, SwapTypes
<1>2. CASE G!place_limit_order
  <2>1. /\ wanted' \in G!SwapOrder /\ guardPc' = "ordered" /\ remembered' \in Reference
        /\ UNCHANGED <<router, guardVenue, quote, allowance, swap, told, late, waited>>
    BY <1>2 DEF G!place_limit_order, G!SwapOrder
  <2> QED
    BY <2>1 DEF GuardTypes, OrderTypes, AllowanceTypes, SwapTypes
<1>3. CASE G!place_market_order
  <2>1. PICK s \in G!Side, a \in Amount, p \in Reference \cup {NoPrice} :
          wanted' = [side |-> s, amount |-> a,
                    reference |-> IF p = NoPrice THEN remembered ELSE p]
    BY <1>3 DEF G!place_market_order
  <2>2. wanted' \in G!SwapOrder
    BY <2>1 DEF GuardTypes, G!SwapOrder
  <2>3. /\ guardPc' = "ordered"
        /\ UNCHANGED <<router, remembered, guardVenue, quote, allowance, swap, told, late, waited>>
    BY <1>3 DEF G!place_market_order
  <2> QED
    BY <2>2, <2>3 DEF GuardTypes, OrderTypes, AllowanceTypes, SwapTypes
<1>4. CASE G!execute_swap
  <2>1. OrderTypes'
    <3>1. router \in G!Venues
      BY DEF GuardTypes, G!GuardConstants, G!Venues
    <3> QED
      BY <1>4, <3>1, EndKeepsTypes, EnterKeepsTypes DEF G!execute_swap, GuardTypes
  <2> QED
    BY <1>4, <2>1, UnbuiltKeepsTypes DEF G!execute_swap, GuardTypes, AllowanceTypes
<1>5. CASE G!Fail
  <2>1. OrderTypes' /\ SwapTypes'
    BY <1>5, EndKeepsTypes, SettledKeepsTypes, UnbuiltKeepsTypes DEF G!Fail, GuardTypes
  <2> QED
    BY <1>5, <2>1 DEF G!Fail, GuardTypes, AllowanceTypes
<1> QED
  BY <1>1, <1>2, <1>3, <1>4, <1>5

LEMMA QuotesKeepTypes ==
  ASSUME G!GuardConstants, GuardTypes,
         G!_approve_token \/ G!Quote \/ G!CheckQuote \/ G!AskPrice \/ G!AskQuote
  PROVE  GuardTypes'
<1>1. CASE G!_approve_token
  BY <1>1, ApprovalKeepsTypes, UnbuiltKeepsTypes DEF G!_approve_token, GuardTypes
<1>2. CASE G!Quote
  <2>1. OrderTypes'
    <3>1. PICK out \in G!Offers(wanted.amount) :
            IF out = 0 THEN G!End
            ELSE /\ quote' = out
                 /\ guardPc' = IF guardPc = "quote" THEN "approve" ELSE "check"
                 /\ UNCHANGED <<wanted, guardVenue>>
      BY <1>2 DEF G!Quote
    <3>2. wanted.amount \in Amount \cup {0}
      BY DEF GuardTypes, OrderTypes, G!SwapOrder
    <3>3. out \in UNION {G!Offers(a) : a \in Amount \cup {0}}
      BY <3>1, <3>2
    <3> QED
      BY <3>1, <3>3, EndKeepsTypes DEF GuardTypes, OrderTypes
  <2> QED
    BY <1>2, <2>1, UnbuiltKeepsTypes DEF G!Quote, GuardTypes, AllowanceTypes
<1>3. CASE G!CheckQuote
  <2>1. OrderTypes' /\ SwapTypes'
    BY <1>3, EndKeepsTypes, UnbuiltKeepsTypes, BuildKeepsTypes DEF G!CheckQuote, GuardTypes
  <2> QED
    BY <1>3, <2>1 DEF G!CheckQuote, GuardTypes, AllowanceTypes
<1>4. CASE G!AskPrice
  <2>1. OrderTypes'
    <3>1. G!GoOn("approve") \/ G!Unusable
      BY <1>4 DEF G!AskPrice
    <3> QED
      BY <3>1, UnusableKeepsTypes DEF G!GoOn, GuardTypes, OrderTypes
  <2> QED
    BY <1>4, <2>1, UnbuiltKeepsTypes DEF G!AskPrice, GuardTypes, AllowanceTypes
<1>5. CASE G!AskQuote
  <2>1. (\E min : G!Build(min)) \/ (G!Unusable /\ G!Unbuilt)
    BY <1>5 DEF G!AskQuote
  <2>2. OrderTypes' /\ SwapTypes'
    BY <2>1, UnusableKeepsTypes, UnbuiltKeepsTypes, BuildKeepsTypes DEF GuardTypes
  <2> QED
    BY <1>5, <2>2 DEF G!AskQuote, GuardTypes, AllowanceTypes
<1> QED
  BY <1>1, <1>2, <1>3, <1>4, <1>5

LEMMA SwapsKeepTypes ==
  ASSUME G!GuardConstants, GuardTypes,
         G!Send \/ G!_await_swap \/ G!Tick \/ G!Mine \/ G!Drop, swap \in Swap
  PROVE  GuardTypes'
<1>1. \A s \in Status : [swap EXCEPT !.status = s].status = s
                        /\ [swap EXCEPT !.status = s].order = swap.order
                        /\ [swap EXCEPT !.status = s].venue = swap.venue
  BY DEF Swap
<1>2. CASE G!Send
  <2>1. /\ swap' = [swap EXCEPT !.status = "live"] /\ guardPc' = "wait"
        /\ UNCHANGED <<router, remembered, wanted, guardVenue, quote, allowance, told, late, waited>>
    BY <1>2 DEF G!Send
  <2>2. swap'.status = "live" /\ swap'.order = swap.order /\ swap'.venue = swap.venue
    BY <1>1, <2>1 DEF Status
  <2> QED
    BY <2>1, <2>2 DEF GuardTypes, OrderTypes, AllowanceTypes, SwapTypes, Status
<1>3. CASE G!_await_swap
  <2>1. SwapTypes'
    <3>1. CASE G!Settled
      BY <3>1, SettledKeepsTypes
    <3>2. CASE told' \in {"timeout", "unresolved"} /\ UNCHANGED <<swap, late, waited>>
      BY <3>2 DEF GuardTypes, SwapTypes
    <3> QED
      BY <1>3, <3>1, <3>2 DEF G!_await_swap
  <2> QED
    BY <1>3, <2>1, EndKeepsTypes DEF G!_await_swap, GuardTypes, AllowanceTypes
<1>4. CASE G!Tick
  <2>1. late' \in 0 .. Deadline + 1 /\ waited' \in 0 .. G!RECEIPT_TIMEOUT
    BY <1>4 DEF G!Tick, GuardTypes, SwapTypes, G!GuardConstants, G!RECEIPT_TIMEOUT
  <2> QED
    BY <1>4, <2>1 DEF G!Tick, GuardTypes, OrderTypes, AllowanceTypes, SwapTypes
<1>5. CASE G!Mine
  <2> DEFINE spender == <<swap.venue, swap.order.side>>
  <2>1. /\ spender \in G!Venues \X G!Side /\ swap.order.amount \in Nat
        /\ allowance[spender] \in Nat
    BY DEF GuardTypes, SwapTypes, AllowanceTypes, G!SwapOrder, G!GuardConstants
  <2>2. /\ UNCHANGED <<router, remembered, guardPc, wanted, guardVenue, quote, told, late, waited>>
        /\ \/ /\ \E out : swap' = [swap EXCEPT !.status = "filled", !.paid = out]
              /\ allowance[spender] >= swap.order.amount
              /\ allowance' = [allowance EXCEPT ![spender] = @ - swap.order.amount]
           \/ swap' = [swap EXCEPT !.status = "reverted"] /\ allowance' = allowance
    BY <1>5 DEF G!Mine
  <2> HIDE DEF spender
  <2>3. swap'.status \in Status /\ swap'.order = swap.order /\ swap'.venue = swap.venue
    BY <2>2 DEF Swap, Status
  <2>4. AllowanceTypes'
    <3>1. CASE allowance' = allowance
      BY <3>1 DEF GuardTypes, AllowanceTypes
    <3>2. CASE /\ allowance[spender] >= swap.order.amount
               /\ allowance' = [allowance EXCEPT ![spender] = @ - swap.order.amount]
      <4>1. \A s \in G!Venues \X G!Side : allowance'[s] \in Nat /\ allowance'[s] <= allowance[s]
        BY <2>1, <3>2 DEF GuardTypes, AllowanceTypes
      <4>2. allowance' \in [G!Venues \X G!Side -> Nat]
        BY <2>1, <3>2 DEF GuardTypes, AllowanceTypes
      <4>3. \A s \in G!Venues \X G!Side : \E a \in Amount \cup {0} : allowance'[s] <= a
        <5> TAKE s \in G!Venues \X G!Side
        <5>1. PICK a \in Amount \cup {0} : allowance[s] <= a
          BY DEF GuardTypes, AllowanceTypes
        <5>2. a \in Nat /\ allowance[s] \in Nat
          BY DEF GuardTypes, AllowanceTypes, G!GuardConstants
        <5> QED
          BY <4>1, <5>1, <5>2
      <4> QED
        BY <4>2, <4>3 DEF AllowanceTypes
    <3> QED
      BY <2>2, <3>1, <3>2
  <2> QED
    BY <2>2, <2>3, <2>4 DEF GuardTypes, OrderTypes, SwapTypes
<1>6. CASE G!Drop
  <2>1. swap' = [swap EXCEPT !.status = "dropped"]
    BY <1>6 DEF G!Drop
  <2>2. swap'.status = "dropped" /\ swap'.order = swap.order /\ swap'.venue = swap.venue
    BY <1>1, <2>1 DEF Status
  <2> QED
    BY <1>6, <2>2 DEF G!Drop, GuardTypes, OrderTypes, AllowanceTypes, SwapTypes, Status
<1> QED
  BY <1>2, <1>3, <1>4, <1>5, <1>6

LEMMA GuardTypesStep ==
  ASSUME G!GuardConstants, GuardInv, GuardTypes, [G!Next]_(G!guardVars)
  PROVE  GuardTypes'
<1>1. CASE UNCHANGED G!guardVars
  BY <1>1 DEF G!guardVars, GuardTypes, OrderTypes, AllowanceTypes, SwapTypes
<1>2. swap \in Swap
  BY DEF GuardInv, ShapeInv
<1> QED
  BY <1>1, <1>2, OrdersKeepTypes, QuotesKeepTypes, SwapsKeepTypes DEF G!Next

LEMMA GuardTypesHold == GuardInv /\ GuardTypes => G!TypeOK
<1> SUFFICES ASSUME GuardInv, GuardTypes
             PROVE  G!TypeOK
  OBVIOUS
<1>1. (guardPc = "send") = (swap.status = "built")
  BY DEF GuardInv, ShapeInv
<1> QED
  BY <1>1 DEF G!TypeOK, GuardTypes, OrderTypes, AllowanceTypes, SwapTypes, Status

------------------------------------------------------------------------------
(* Orders at Coinbase: CoinbaseOrders *)

\* The library's counts are the ones CoinbaseOrders uses.
LEMMA CountsAgree ==
  /\ C!IsFiniteSet(Order) <=> IsFiniteSet(Order)
  /\ \A some : C!Cardinality(some) = Cardinality(some)
<1>1. C!IsFiniteSet(Order) <=> IsFiniteSet(Order)
  BY DEF IsFiniteSet, C!IsFiniteSet
<1>2. ASSUME NEW some PROVE C!Cardinality(some) = Cardinality(some)
  BY DEF Cardinality, C!Cardinality
<1> QED
  BY <1>1, <1>2

------------------------------------------------------------------------------
(* Orders do not pile up *)

\* A cycle cancels what is open before it places an order, so an order is only
\* placed on top of orders whose cancellation failed.
PileInv ==
  /\ DOMAIN orders = Order
  /\ failed \in Nat
  /\ Cardinality(C!Open) <= 1 + failed
  /\ orderPc = "post" => Cardinality(C!Open) <= failed
  /\ orderPc \in {"cancel", "cancelBought"} => C!Open \subseteq listed

\* The open orders can be counted.
LEMMA OpenIsCounted ==
  ASSUME C!OrdersConstants
  PROVE  /\ IsFiniteSet(C!Open) /\ Cardinality(C!Open) \in 0 .. Cardinality(Order)
         /\ Cardinality(Order) \in Nat
         /\ C!Open = {} => Cardinality(C!Open) = 0
<1>1. C!Open \in SUBSET Order
  BY DEF C!Open
<1>2. IsFiniteSet(Order)
  BY CountsAgree DEF C!OrdersConstants
<1>3. IsFiniteSet(C!Open) /\ Cardinality(C!Open) <= Cardinality(Order)
  BY <1>1, <1>2, FS_Subset
<1>4. Cardinality(C!Open) \in Nat /\ Cardinality(Order) \in Nat
  BY <1>2, <1>3, FS_CardinalityType
<1> QED
  BY <1>3, <1>4, FS_EmptySet

\* Fewer open orders are no more.
LEMMA FewerAreNoMore ==
  ASSUME C!OrdersConstants, C!Open' \subseteq C!Open
  PROVE  Cardinality(C!Open') \in Nat /\ Cardinality(C!Open') <= Cardinality(C!Open)
<1>1. IsFiniteSet(C!Open)
  BY OpenIsCounted
<1> QED
  BY <1>1, FS_Subset, FS_CardinalityType

\* Orders that are no longer open are forgotten without any effect on the others.
LEMMA ForgetKeepsOpen ==
  ASSUME NEW f, DOMAIN f = Order, NEW a
  PROVE  /\ DOMAIN C!Forget(f, a) = Order
         /\ \A o \in Order : C!Forget(f, a)[o].status = "OPEN" => f[o].status = "OPEN"
         /\ \A o \in Order : f[o].status = "OPEN" => C!Forget(f, a)[o] = f[o]
  BY DEF C!Forget, C!Blank

\* Whatever opens no order and starts no new one leaves the count as it was.
LEMMA QuietKeepsPile ==
  ASSUME C!OrdersConstants, PileInv, DOMAIN orders' = Order, C!Open' \subseteq C!Open,
         failed' = failed, orderPc' # "post" \/ orderPc' = orderPc,
         orderPc' \notin {"cancel", "cancelBought"} \/ (orderPc' = orderPc /\ listed' = listed)
  PROVE  PileInv'
<1>1. Cardinality(C!Open') <= Cardinality(C!Open) /\ Cardinality(C!Open') \in Nat
  BY FewerAreNoMore
<1>2. Cardinality(C!Open) \in Nat
  BY OpenIsCounted
<1> QED
  BY <1>1, <1>2 DEF PileInv

LEMMA PileInit == C!OrdersConstants /\ C!Init => PileInv
<1> SUFFICES ASSUME C!OrdersConstants, C!Init PROVE PileInv
  OBVIOUS
<1>1. C!Open = {}
  BY DEF C!Init, C!Open, C!Blank
<1> QED
  BY <1>1, OpenIsCounted DEF C!Init, PileInv

LEMMA FillKeepsPile ==
  ASSUME C!OrdersConstants, PileInv, NEW o \in Order, C!Fill(o)
  PROVE  PileInv'
<1>1. PICK n \in {orders[o].left, orders[o].left - 1} \ {0} : orders' = C!Filled(o, n)
  BY DEF C!Fill
<1> DEFINE left == orders[o].left - n
           f == [orders EXCEPT ![o].left = left,
                               ![o].status = IF left = 0 THEN "FILLED" ELSE "OPEN"]
<1>2. DOMAIN f = Order
  BY DEF PileInv
<1>3. orders' = C!Forget(f, id)
  BY <1>1 DEF C!Filled
<1>4. \A p \in Order : f[p].status = "OPEN" => p \in C!Open
  BY DEF C!Fill, C!Open, PileInv
<1>5. DOMAIN orders' = Order /\ C!Open' \subseteq C!Open
  <2> HIDE DEF f
  <2> QED
    BY <1>2, <1>3, <1>4, ForgetKeepsOpen DEF C!Open
<1> QED
  BY <1>5, QuietKeepsPile DEF C!Fill, C!history

\* The cancellations: a failed one is counted, and without one nothing is open.
LEMMA FailureIsCounted ==
  ASSUME C!OrdersConstants, PileInv
  PROVE  C!FailedAgain \in Nat /\ Cardinality(C!Open) <= C!FailedAgain
  BY OpenIsCounted, CountsAgree DEF PileInv, C!FailedAgain

LEMMA ListKeepsPile ==
  ASSUME C!OrdersConstants, PileInv, C!ListOrders
  PROVE  PileInv'
<1>1. UNCHANGED orders /\ C!Open' = C!Open
  BY DEF C!ListOrders, C!Open
<1>2. Cardinality(C!Open) \in Nat
  BY OpenIsCounted
<1>3. CASE C!Open = {} /\ failed' = 0
  BY <1>1, <1>3, OpenIsCounted DEF PileInv
<1>4. CASE failed' = C!FailedAgain /\ orderPc' \in {"post", "sell"}
  BY <1>1, <1>2, <1>4, FailureIsCounted DEF PileInv
<1>5. CASE listed' = C!Open /\ failed' = failed /\ orderPc' \in {"cancel", "cancelBought"}
  BY <1>1, <1>5 DEF PileInv
<1> QED
  BY <1>3, <1>4, <1>5 DEF C!ListOrders, C!Go

LEMMA CancelKeepsPile ==
  ASSUME C!OrdersConstants, PileInv, C!Cancel
  PROVE  PileInv'
<1>1. orderPc' \in {"post", "sell"}
  BY DEF C!Cancel, C!Go
<1>2. CASE /\ orders' = [o \in Order |-> IF o \in listed THEN C!Blank ELSE orders[o]]
           /\ failed' = 0
  <2>1. C!Open \subseteq listed
    BY DEF C!Cancel, PileInv
  <2>2. DOMAIN orders' = Order /\ C!Open' = {}
    BY <1>2, <2>1 DEF C!Open, C!Blank
  <2>3. Cardinality(C!Open') = 0
    BY <2>2, FS_EmptySet
  <2> QED
    BY <1>1, <1>2, <2>2, <2>3 DEF PileInv
<1>3. CASE failed' = C!FailedAgain /\ UNCHANGED orders
  <2>1. C!Open' = C!Open
    BY <1>3 DEF C!Open
  <2> QED
    BY <1>1, <1>3, <2>1, FailureIsCounted, OpenIsCounted DEF PileInv
<1> QED
  BY <1>2, <1>3 DEF C!Cancel

\* A cycle takes one order, on top of those whose cancellation failed.
LEMMA OneMore ==
  ASSUME C!OrdersConstants, PileInv, orderPc = "post", NEW o \in Order, NEW a, C!Accept(o, a)
  PROVE  /\ DOMAIN orders' = Order
         /\ Cardinality(C!Open') \in Nat /\ Cardinality(C!Open') <= 1 + failed
<1>1. IsFiniteSet(C!Open) /\ Cardinality(C!Open) \in Nat /\ failed \in Nat
  BY OpenIsCounted DEF PileInv
<1>2. CASE C!Rests(o)
  <2>1. DOMAIN orders' = Order /\ C!Open' \subseteq C!Open \cup {o}
    BY <1>2 DEF C!Rests, C!Open, PileInv
  <2>2. /\ IsFiniteSet(C!Open \cup {o})
        /\ Cardinality(C!Open \cup {o}) <= Cardinality(C!Open) + 1
        /\ Cardinality(C!Open \cup {o}) \in Nat
    BY <1>1, FS_AddElement
  <2>3. Cardinality(C!Open') \in Nat /\ Cardinality(C!Open') <= Cardinality(C!Open \cup {o})
    BY <2>1, <2>2, FS_Subset, FS_CardinalityType
  <2> QED
    BY <1>1, <2>1, <2>2, <2>3 DEF PileInv
<1>3. CASE C!FillsAtOnce(o, a)
  <2>1. PICK left \in {0, 1} :
          orders' = C!Forget([orders EXCEPT ![o] =
            [side |-> order.side, left |-> left,
             status |-> IF left = 0 THEN "FILLED" ELSE "CANCELLED"]], a)
    BY <1>3 DEF C!FillsAtOnce
  <2> DEFINE f == [orders EXCEPT ![o] =
            [side |-> order.side, left |-> left,
             status |-> IF left = 0 THEN "FILLED" ELSE "CANCELLED"]]
  <2>2. DOMAIN f = Order /\ \A p \in Order : f[p].status = "OPEN" => p \in C!Open
    BY DEF PileInv, C!Open
  <2>3. DOMAIN orders' = Order /\ C!Open' \subseteq C!Open
    <3>1. orders' = C!Forget(f, a)
      BY <2>1
    <3> HIDE DEF f
    <3> QED
      BY <2>2, <3>1, ForgetKeepsOpen DEF C!Open
  <2> QED
    BY <1>1, <2>3, FewerAreNoMore DEF PileInv
<1> QED
  BY <1>2, <1>3 DEF C!Accept, C!AcceptSpot, C!AcceptFutures, C!Taken

LEMMA PostKeepsPile ==
  ASSUME C!OrdersConstants, PileInv, C!Post
  PROVE  PileInv'
<1>1. orderPc' \in {"poll", "list", "sell", "idle"} /\ failed' = failed
  BY DEF C!Post, C!NoAnswer, C!Refused
<1>2. CASE \E o \in Order : \E a : C!Accept(o, a)
  BY <1>1, <1>2, OneMore DEF PileInv, C!Post
<1>3. CASE UNCHANGED orders
  <2>1. C!Open' = C!Open
    BY <1>3 DEF C!Open
  <2> QED
    BY <1>1, <1>3, <2>1, QuietKeepsPile DEF PileInv
<1> QED
  <2>1. \A o : o = (CHOOSE u \in C!Unused : TRUE) /\ C!Unused # {} => o \in Order
    BY DEF C!Unused
  <2> QED
    BY <1>2, <1>3, <2>1 DEF C!Post, C!exchange

LEMMA PollKeepsPile ==
  ASSUME C!OrdersConstants, PileInv, C!check_order_filled
  PROVE  PileInv'
<1>1. /\ orders' = orders \/ orders' = C!Forget(orders, NoOrder)
      /\ orderPc' \in {"poll", "sell", "listBought", "idle"} /\ failed' = failed
  BY DEF C!check_order_filled, C!Booked, C!Answered, C!history
<1>2. DOMAIN orders' = Order /\ C!Open' \subseteq C!Open
  BY <1>1, ForgetKeepsOpen DEF PileInv, C!Open
<1> QED
  BY <1>1, <1>2, QuietKeepsPile

LEMMA PileStep == C!OrdersConstants /\ PileInv /\ [C!Next]_(C!vars) => PileInv'
<1> SUFFICES ASSUME C!OrdersConstants, PileInv, [C!Next]_(C!vars) PROVE PileInv'
  OBVIOUS
<1>1. CASE C!get_balances \/ C!Buy \/ C!Sell \/ C!GiveUp \/ UNCHANGED C!vars
  <2>1. /\ UNCHANGED orders /\ failed' = failed
        /\ orderPc' \in {"buy", "sell", "list", "idle"} \/ (orderPc' = orderPc /\ listed' = listed)
    BY <1>1
    DEF C!get_balances, C!Buy, C!Sell, C!GiveUp, C!Place, C!NoAnswer, C!vars, C!exchange, C!history
  <2>2. C!Open' = C!Open /\ DOMAIN orders' = Order
    BY <2>1 DEF C!Open, PileInv
  <2> QED
    BY <2>1, <2>2, QuietKeepsPile
<1> QED
  BY <1>1, FillKeepsPile, ListKeepsPile, CancelKeepsPile, PostKeepsPile, PollKeepsPile
  DEF C!Next, C!Step

\* Orders never pile up by themselves: cancel_open_orders comes before every
\* order, so of the open ones all but the latest stand for a cancellation that
\* failed, and one that succeeds starts the count anew.
THEOREM OrdersStayFew ==
  ASSUME C!OrdersConstants
  PROVE  /\ C!Spec => []OrdersDoNotPileUp
         /\ SumSpec => []OrdersDoNotPileUp
<1>1. PileInv => OrdersDoNotPileUp
  BY CountsAgree DEF PileInv, OrdersDoNotPileUp, C!OrdersDoNotPileUp
<1> QED
  BY <1>1, PileInit, PileStep, SumBegins, SumMovesOrders, PTL DEF C!Spec, SumSpec

------------------------------------------------------------------------------
(* Orders on the spot market are covered *)

Placed ==
  [side : {"BUY", "SELL"}, left : Nat, status : {"CLOSED", "OPEN", "FILLED", "CANCELLED"}]

\* What an order holds of what is sold on its side, and what all orders of an
\* exchange hold.
Held(o, way) == IF o.status = "OPEN" /\ o.side = way THEN o.left ELSE 0
HeldBy(f, way) == SumOver([o \in Order |-> Held(f[o], way)], Order)

LEMMA HeldAgrees == \A way : C!Held(way) = HeldBy(orders, way)
<1> SUFFICES ASSUME NEW way PROVE C!Held(way) = HeldBy(orders, way)
  OBVIOUS
<1>1. [o \in Order |-> IF o \in C!Open /\ orders[o].side = way THEN orders[o].left ELSE 0]
        = [o \in Order |-> Held(orders[o], way)]
  BY DEF C!Open, Held
<1>2. \A f : C!SumOver(f, Order) = SumOver(f, Order)
  BY DEF C!SumOver, SumOver, C!MapThenSumSet, MapThenSumSet, C!MapThenFoldSet, MapThenFoldSet
<1> QED
  BY <1>1, <1>2 DEF C!Held, HeldBy

LEMMA OrdersAreFinite == C!OrdersConstants => IsFiniteSet(Order)
BY CountsAgree DEF C!OrdersConstants

\* One order that changes changes what all hold by itself.
LEMMA HeldMoves ==
  ASSUME C!OrdersConstants, NEW f, f \in [Order -> Placed], NEW g, g \in [Order -> Placed],
         NEW o \in Order, NEW way,
         \A p \in Order : p # o => Held(g[p], way) = Held(f[p], way)
  PROVE  /\ HeldBy(f, way) \in Int
         /\ HeldBy(g, way) = HeldBy(f, way) - Held(f[o], way) + Held(g[o], way)
<1> DEFINE x == [p \in Order |-> Held(f[p], way)]
           y == [p \in Order |-> Held(g[p], way)]
<1>1. \A p \in Order : x[p] \in Int /\ y[p] \in Int /\ (p # o => y[p] = x[p])
  BY DEF Held, Placed
<1>2. x[o] = Held(f[o], way) /\ y[o] = Held(g[o], way)
  OBVIOUS
<1>3. HeldBy(f, way) = SumOver(x, Order) /\ HeldBy(g, way) = SumOver(y, Order)
  BY DEF HeldBy
<1>4. IsFiniteSet(Order)
  BY OrdersAreFinite
<1> HIDE DEF x, y
<1>5. SumOver(y, Order) = SumOver(x, Order) - x[o] + y[o] /\ SumOver(x, Order) \in Int
  BY ONLY <1>1, <1>4, o \in Order, SumWithOneChange
<1> QED
  BY ONLY <1>2, <1>3, <1>5

\* Orders of which none holds more hold no more together.
LEMMA HeldShrinks ==
  ASSUME C!OrdersConstants, NEW f, f \in [Order -> Placed], NEW g, g \in [Order -> Placed],
         NEW way, \A p \in Order : Held(g[p], way) <= Held(f[p], way)
  PROVE  HeldBy(g, way) <= HeldBy(f, way) /\ HeldBy(f, way) \in Nat /\ HeldBy(g, way) \in Nat
<1> DEFINE x == [p \in Order |-> Held(f[p], way)]
           y == [p \in Order |-> Held(g[p], way)]
<1>1. \A p \in Order : x[p] \in Nat /\ y[p] \in Nat /\ y[p] <= x[p]
  BY DEF Held, Placed
<1>2. HeldBy(f, way) = SumOver(x, Order) /\ HeldBy(g, way) = SumOver(y, Order)
  BY DEF HeldBy
<1>3. IsFiniteSet(Order) /\ Order \in SUBSET Order
  BY OrdersAreFinite
<1> HIDE DEF x, y
<1>4. /\ SumOver(y, Order) <= SumOver(x, Order)
      /\ SumOver(x, Order) \in Nat /\ SumOver(y, Order) \in Nat
  BY ONLY <1>1, <1>3, SumOfLess
<1> QED
  BY ONLY <1>2, <1>4

\* Orders that are forgotten held nothing.
LEMMA ForgetHolds ==
  ASSUME NEW f, f \in [Order -> Placed], NEW a
  PROVE  /\ C!Forget(f, a) \in [Order -> Placed]
         /\ \A o \in Order : \A way : Held(C!Forget(f, a)[o], way) = Held(f[o], way)
         /\ \A o \in Order : C!Forget(f, a)[o].status = "OPEN" => C!Forget(f, a)[o] = f[o]
<1>1. C!Blank \in Placed /\ C!Blank.status # "OPEN"
  BY DEF C!Blank, Placed
<1>2. ASSUME NEW o \in Order
      PROVE  /\ C!Forget(f, a)[o] \in Placed
             /\ \A way : Held(C!Forget(f, a)[o], way) = Held(f[o], way)
             /\ C!Forget(f, a)[o].status = "OPEN" => C!Forget(f, a)[o] = f[o]
  <2>1. C!Forget(f, a)[o] = f[o] \/ (f[o].status # "OPEN" /\ C!Forget(f, a)[o] = C!Blank)
    BY DEF C!Forget
  <2> QED
    BY <1>1, <2>1 DEF Held
<1>3. DOMAIN C!Forget(f, a) = Order /\ C!Forget(f, a) = [o \in Order |-> C!Forget(f, a)[o]]
  BY DEF C!Forget
<1> QED
  BY <1>2, <1>3

\* What rests has something left, and on the spot market the account owns what
\* its sales hold.
ExchangeInv ==
  /\ base \in Int /\ cash \in Int /\ orders \in [Order -> Placed]
  /\ \A o \in C!Open : orders[o].left # 0
  /\ market = "spot" => HeldBy(orders, "SELL") <= base

\* What the account would own if all its open sales filled.
Unsold == base - HeldBy(orders, "SELL")

LEMMA ExchangeInit ==
  ASSUME C!OrdersConstants, C!Init
  PROVE  ExchangeInv /\ base \in Nat /\ Unsold = base
<1>1. /\ orders = [o \in Order |-> C!Blank] /\ C!Blank \in Placed
      /\ C!Blank.status = "CLOSED" /\ base \in Nat /\ cash \in Nat
  BY DEF C!Init, C!OrdersConstants, C!Blank, Placed
<1>2. HeldBy(orders, "SELL") = 0
  <2> DEFINE x == [o \in Order |-> Held(orders[o], "SELL")]
  <2>1. HeldBy(orders, "SELL") = SumOver(x, Order)
    BY DEF HeldBy
  <2>2. \A o \in Order : x[o] = 0
    BY <1>1 DEF Held
  <2> HIDE DEF x
  <2> QED
    BY <2>1, <2>2, OrdersAreFinite, SumOfNoughts
<1> QED
  BY <1>1, <1>2 DEF ExchangeInv, C!Open, Unsold

\* Nothing that is open changes.
LEMMA UnsoldIsInt ==
  ASSUME C!OrdersConstants, ExchangeInv
  PROVE  Unsold \in Int /\ HeldBy(orders, "SELL") \in Nat
<1>1. \A p \in Order : Held(orders[p], "SELL") <= Held(orders[p], "SELL")
  BY DEF ExchangeInv, Held, Placed
<1>2. HeldBy(orders, "SELL") \in Nat
  BY <1>1, HeldShrinks DEF ExchangeInv
<1> QED
  BY <1>2 DEF ExchangeInv, Unsold

LEMMA QuietKeepsExchange ==
  ASSUME C!OrdersConstants, ExchangeInv, UNCHANGED <<market, base, cash>>,
         orders' = orders \/ \E a : orders' = C!Forget(orders, a)
  PROVE  ExchangeInv' /\ Unsold' >= Unsold
<1>1. CASE orders' = orders
  <2>1. Unsold' = Unsold /\ Unsold \in Int
    BY <1>1, UnsoldIsInt DEF Unsold
  <2> QED
    BY <1>1, <2>1 DEF ExchangeInv, C!Open
<1>2. CASE \E a : orders' = C!Forget(orders, a)
  <2>1. PICK a : orders' = C!Forget(orders, a)
    BY <1>2
  <2>2. /\ orders' \in [Order -> Placed]
        /\ \A o \in Order : Held(orders'[o], "SELL") = Held(orders[o], "SELL")
        /\ \A o \in Order : orders'[o].status = "OPEN" => orders'[o] = orders[o]
    <3>1. orders \in [Order -> Placed]
      BY DEF ExchangeInv
    <3> QED
      BY ONLY <2>1, <3>1, ForgetHolds
  <2>3. \A o \in Order : Held(orders'[o], "SELL") <= Held(orders[o], "SELL")
    BY <2>2 DEF ExchangeInv, Held, Placed
  <2>4. /\ HeldBy(orders', "SELL") <= HeldBy(orders, "SELL")
        /\ HeldBy(orders', "SELL") \in Nat /\ HeldBy(orders, "SELL") \in Nat
    BY <2>2, <2>3, HeldShrinks DEF ExchangeInv
  <2> QED
    BY <2>2, <2>4 DEF ExchangeInv, C!Open, Unsold
<1> QED
  BY <1>1, <1>2

LEMMA CancelKeepsExchange ==
  ASSUME C!OrdersConstants, ExchangeInv, UNCHANGED <<market, base, cash>>,
         orders' = [o \in Order |-> IF o \in listed THEN C!Blank ELSE orders[o]]
  PROVE  ExchangeInv' /\ Unsold' >= Unsold
<1>1. C!Blank \in Placed /\ C!Blank.status # "OPEN"
  BY DEF C!Blank, Placed
<1>2. \A o \in Order : orders'[o] = C!Blank \/ orders'[o] = orders[o]
  OBVIOUS
<1>3. orders' \in [Order -> Placed]
  BY <1>1 DEF ExchangeInv
<1>4. \A o \in Order : Held(orders'[o], "SELL") <= Held(orders[o], "SELL")
  BY <1>1, <1>2 DEF ExchangeInv, Held, Placed
<1>5. /\ HeldBy(orders', "SELL") <= HeldBy(orders, "SELL")
      /\ HeldBy(orders', "SELL") \in Nat /\ HeldBy(orders, "SELL") \in Nat
  BY <1>3, <1>4, HeldShrinks DEF ExchangeInv
<1>6. \A o \in C!Open' : orders'[o].left # 0
  BY <1>1, <1>2 DEF ExchangeInv, C!Open
<1> QED
  BY <1>3, <1>5, <1>6 DEF ExchangeInv, Unsold

\* A sale that fills takes from the account what it takes from what is held.
LEMMA FillKeepsExchange ==
  ASSUME C!OrdersConstants, ExchangeInv, NEW o \in Order, C!Fill(o)
  PROVE  ExchangeInv' /\ Unsold' >= Unsold
<1>1. PICK n \in {orders[o].left, orders[o].left - 1} \ {0} :
        /\ orders' = C!Filled(o, n)
        /\ base' = IF orders[o].side = "BUY" THEN base + n ELSE base - n
        /\ cash' = IF orders[o].side = "BUY" THEN cash - n ELSE cash + n
  BY DEF C!Fill
<1>2. /\ orders[o] \in Placed /\ orders[o].status = "OPEN" /\ orders[o].left \in Nat \ {0}
      /\ orders[o].side \in {"BUY", "SELL"} /\ market' = market
  BY DEF C!Fill, C!Open, ExchangeInv, Placed
<1> DEFINE left == orders[o].left - n
           f == [orders EXCEPT ![o].left = left,
                               ![o].status = IF left = 0 THEN "FILLED" ELSE "OPEN"]
<1>3. n \in Nat /\ left \in Nat
  BY <1>1, <1>2
<1>4. orders' = C!Forget(f, id)
  BY <1>1 DEF C!Filled
<1>5. /\ f \in [Order -> Placed] /\ \A p \in Order : p # o => f[p] = orders[p]
      /\ f[o].left = left /\ f[o].side = orders[o].side
      /\ f[o].status = IF left = 0 THEN "FILLED" ELSE "OPEN"
  <2>1. \A p \in Order : orders[p] \in Placed
    BY DEF ExchangeInv
  <2> QED
    BY <1>2, <1>3, <2>1 DEF ExchangeInv, Placed
<1> HIDE DEF f, left
<1>6. /\ orders' \in [Order -> Placed]
      /\ \A p \in Order : Held(orders'[p], "SELL") = Held(f[p], "SELL")
      /\ \A p \in Order : orders'[p].status = "OPEN" => orders'[p] = f[p]
  <2>1. f \in [Order -> Placed]
    BY <1>5
  <2> QED
    BY ONLY <1>4, <2>1, ForgetHolds
<1>7. \A p \in C!Open' : orders'[p].left # 0
  BY <1>5, <1>6 DEF ExchangeInv, C!Open
<1>8. /\ HeldBy(orders, "SELL") \in Int
      /\ HeldBy(orders', "SELL")
           = HeldBy(orders, "SELL") - Held(orders[o], "SELL") + Held(orders'[o], "SELL")
  <2>1. \A p \in Order : p # o => Held(orders'[p], "SELL") = Held(orders[p], "SELL")
    BY <1>5, <1>6
  <2> QED
    BY <1>6, <2>1, HeldMoves DEF ExchangeInv
<1>9. Held(orders[o], "SELL") - Held(orders'[o], "SELL")
        = IF orders[o].side = "BUY" THEN 0 ELSE n
  <2>1. Held(orders'[o], "SELL") = Held(f[o], "SELL")
    BY <1>6
  <2>2. Held(f[o], "SELL") = IF orders[o].side = "BUY" THEN 0 ELSE left
    BY <1>2, <1>5 DEF Held
  <2>3. Held(orders[o], "SELL") = IF orders[o].side = "BUY" THEN 0 ELSE orders[o].left
    BY <1>2 DEF Held
  <2> QED
    BY <1>2, <1>3, <2>1, <2>2, <2>3 DEF left
<1>10. Unsold' >= Unsold /\ (market = "spot" => HeldBy(orders', "SELL") <= base')
  <2>1. base \in Int /\ (market = "spot" => HeldBy(orders, "SELL") <= base)
    BY DEF ExchangeInv
  <2>2. Held(orders[o], "SELL") \in Int /\ Held(orders'[o], "SELL") \in Int
    BY <1>2, <1>6 DEF Held, Placed
  <2> QED
    BY <1>1, <1>3, <1>8, <1>9, <2>1, <2>2 DEF Unsold
<1>11. base' \in Int /\ cash' \in Int
  BY <1>1, <1>3 DEF ExchangeInv
<1> QED
  BY <1>2, <1>6, <1>7, <1>10, <1>11 DEF ExchangeInv

\* An order is taken on the spot market for no more than is free.
LEMMA AcceptKeepsExchange ==
  ASSUME C!OrdersConstants, ExchangeInv, UNCHANGED market,
         order.size \in Nat, order.side \in {"BUY", "SELL"}, ~C!TooSmall,
         order.kind \in {"limit", "aggressive"} \/ order.side = "SELL",
         NEW o, o \in C!Unused, NEW a, C!Accept(o, a)
  PROVE  /\ ExchangeInv'
         /\ Unsold' >= Unsold - (IF order.side = "SELL" THEN C!Lots ELSE 0)
<1>1. o \in Order /\ orders[o] \in Placed /\ orders[o].status # "OPEN"
  BY DEF C!Unused, ExchangeInv
<1>2. market \in {"spot", "futures"} /\ C!Lots \in Nat /\ C!Lots > 0
  BY DEF C!Accept, C!AcceptSpot, C!AcceptFutures, C!Lots, C!TooSmall
<1>3. HeldBy(orders, "SELL") \in Int /\ Held(orders[o], "SELL") = 0
  <2>1. \A p \in Order : Held(orders[p], "SELL") <= Held(orders[p], "SELL")
    BY DEF ExchangeInv, Held, Placed
  <2> QED
    BY <1>1, <2>1, HeldShrinks DEF ExchangeInv, Held
<1>4. market = "spot" /\ order.side = "SELL" =>
        C!Lots <= base - HeldBy(orders, "SELL")
  BY HeldAgrees DEF C!Accept, C!AcceptSpot, C!AcceptFutures, C!Available
<1>5. CASE C!Rests(o)
  <2> DEFINE r == [side |-> order.side, left |-> C!Lots, status |-> "OPEN"]
  <2>1. /\ orders' = [orders EXCEPT ![o] = r] /\ UNCHANGED <<base, cash>>
        /\ r \in Placed /\ r.left = C!Lots /\ r.status = "OPEN" /\ r.side = order.side
    BY <1>2, <1>5 DEF C!Rests, Placed
  <2> HIDE DEF r
  <2>2. /\ orders' \in [Order -> Placed] /\ orders'[o] = r
        /\ \A p \in Order : p # o => orders'[p] = orders[p]
    BY <1>1, <2>1 DEF ExchangeInv
  <2>3. HeldBy(orders', "SELL")
          = HeldBy(orders, "SELL") - Held(orders[o], "SELL") + Held(orders'[o], "SELL")
    BY <1>1, <2>2, HeldMoves DEF ExchangeInv
  <2>4. Held(orders'[o], "SELL") = IF order.side = "SELL" THEN C!Lots ELSE 0
    BY <2>1, <2>2 DEF Held
  <2>5. /\ market = "spot" => HeldBy(orders', "SELL") <= base'
        /\ Unsold' >= Unsold - (IF order.side = "SELL" THEN C!Lots ELSE 0)
    BY <1>2, <1>3, <1>4, <2>1, <2>3, <2>4 DEF ExchangeInv, Unsold
  <2>6. \A p \in C!Open' : orders'[p].left # 0
    BY <1>2, <2>1, <2>2 DEF ExchangeInv, C!Open
  <2> QED
    BY <2>1, <2>2, <2>5, <2>6 DEF ExchangeInv
<1>6. CASE C!FillsAtOnce(o, a) /\ order.side = "SELL"
  <2>1. PICK left \in {0, 1} :
          /\ left < C!Lots
          /\ orders' = C!Forget([orders EXCEPT ![o] =
               [side |-> order.side, left |-> left,
                status |-> IF left = 0 THEN "FILLED" ELSE "CANCELLED"]], a)
          /\ base' = base - (C!Lots - left)
          /\ cash' = cash + (C!Lots - left)
    BY <1>6 DEF C!FillsAtOnce
  <2> DEFINE r == [side |-> order.side, left |-> left,
                   status |-> IF left = 0 THEN "FILLED" ELSE "CANCELLED"]
             f == [orders EXCEPT ![o] = r]
  <2>2. r \in Placed /\ r.status # "OPEN"
    BY DEF Placed
  <2>3. orders' = C!Forget(f, a)
    BY <2>1
  <2> HIDE DEF r
  <2>4. /\ f \in [Order -> Placed] /\ f[o] = r
        /\ \A p \in Order : p # o => f[p] = orders[p]
    BY <1>1, <2>2 DEF ExchangeInv
  <2> HIDE DEF f
  <2>5. /\ orders' \in [Order -> Placed]
        /\ \A p \in Order : Held(orders'[p], "SELL") = Held(f[p], "SELL")
        /\ \A p \in Order : orders'[p].status = "OPEN" => orders'[p] = f[p]
    BY <2>3, <2>4, ForgetHolds
  <2>6. /\ Held(orders'[o], "SELL") = 0
        /\ \A p \in Order : p # o => Held(orders'[p], "SELL") = Held(orders[p], "SELL")
    BY <1>1, <2>2, <2>4, <2>5 DEF Held
  <2>7. HeldBy(orders', "SELL")
          = HeldBy(orders, "SELL") - Held(orders[o], "SELL") + Held(orders'[o], "SELL")
    BY <1>1, <2>5, <2>6, HeldMoves DEF ExchangeInv
  <2>8. base' \in Int /\ cash' \in Int /\ base' >= base - C!Lots
    BY <1>2, <2>1 DEF ExchangeInv
  <2>9. /\ market = "spot" => HeldBy(orders', "SELL") <= base'
        /\ Unsold' >= Unsold - (IF order.side = "SELL" THEN C!Lots ELSE 0)
    BY <1>2, <1>3, <1>4, <1>6, <2>6, <2>7, <2>8 DEF ExchangeInv, Unsold
  <2>10. \A p \in C!Open' : orders'[p].left # 0
    BY <2>2, <2>4, <2>5 DEF ExchangeInv, C!Open
  <2> QED
    BY <2>5, <2>8, <2>9, <2>10 DEF ExchangeInv
<1>7. C!Rests(o) \/ (C!FillsAtOnce(o, a) /\ order.side = "SELL")
  BY DEF C!Accept, C!AcceptSpot, C!AcceptFutures, C!Taken
<1> QED
  BY <1>5, <1>6, <1>7

Job ==
  [side : {"BUY", "SELL"}, size : Nat, kind : {"limit", "aggressive", "fallback", "last"},
   full : BOOLEAN]

\* The cycle's own variables; a purchase is never sent as anything but a limit.
CycleInv ==
  /\ market \in Markets /\ avail \in Nat /\ entry \in BOOLEAN
  /\ order \in Job /\ (order.side = "BUY" => order.kind = "limit")
  /\ orderPc = "poll" <=> id # NoOrder
  /\ polls \in 0 .. Polls - 1
  /\ listed # {} <=> orderPc \in {"cancel", "cancelBought"}

\* Nothing to be placed, and what is placed with another kind.
LEMMA JobsAreJobs ==
  /\ C!NoJob \in Job /\ C!NoJob.side = "SELL"
  /\ \A j \in Job, k \in {"fallback", "last"} :
       [j EXCEPT !.kind = k] \in Job /\ [j EXCEPT !.kind = k].side = j.side
  /\ \A way \in {"BUY", "SELL"}, n \in Nat, k \in {"limit", "aggressive"}, all \in BOOLEAN :
       [side |-> way, size |-> n, kind |-> k, full |-> all] \in Job
  BY DEF C!NoJob, Job

LEMMA CycleInit == C!OrdersConstants /\ C!Init => CycleInv
<1> SUFFICES ASSUME C!OrdersConstants, C!Init
             PROVE  CycleInv
  OBVIOUS
<1>1. order \in Job /\ order.side = "SELL"
  BY JobsAreJobs DEF C!Init
<1>2. 0 \in 0 .. Polls - 1
  BY DEF C!OrdersConstants
<1> QED
  BY <1>1, <1>2 DEF C!Init, CycleInv

\* Where a request got no answer or was refused, the next is a sale as well.
LEMMA AfterwardsKeepsCycle ==
  ASSUME CycleInv, orderPc = "post", C!NoAnswer \/ C!Refused,
         UNCHANGED <<market, avail, entry, listed, id, polls>>
  PROVE  CycleInv'
<1>1. /\ order \in Job /\ (order.side = "BUY" => order.kind = "limit")
  BY DEF CycleInv
<1>2. \/ order' = C!NoJob
      \/ /\ order.side # "BUY"
         /\ \E k \in {"fallback", "last"} : order' = [order EXCEPT !.kind = k]
  BY <1>1 DEF C!NoAnswer, C!Refused
<1>3. order' \in Job /\ (order'.side = "BUY" => order'.kind = "limit")
  BY <1>1, <1>2, JobsAreJobs
<1>4. orderPc' \in {"list", "sell", "idle"}
  BY DEF C!NoAnswer, C!Refused
<1> QED
  BY <1>3, <1>4 DEF CycleInv

LEMMA ReadKeepsCycle ==
  ASSUME C!OrdersConstants, ExchangeInv, CycleInv, C!get_balances
  PROVE  CycleInv'
<1>1. C!Available \in Nat
  <2>1. HeldBy(orders, "SELL") \in Nat
    <3>1. orders \in [Order -> Placed] /\ \A p \in Order : Held(orders[p], "SELL") <= Held(orders[p], "SELL")
      BY DEF ExchangeInv, Held, Placed
    <3> QED
      BY <3>1, HeldShrinks
  <2>2. C!Held("SELL") = HeldBy(orders, "SELL")
    BY HeldAgrees
  <2> QED
    BY <2>1, <2>2 DEF C!Available, ExchangeInv
<1>2. avail' \in Nat /\ entry' \in BOOLEAN
  <2>1. avail' \in {0, C!Available}
    BY DEF C!get_balances
  <2>2. entry' = (entry /\ C!Listed) \/ entry' = FALSE
    BY DEF C!get_balances
  <2>3. entry' \in BOOLEAN
    BY ONLY <2>2, Zenon
  <2>4. avail' \in Nat
    BY <1>1, <2>1
  <2> QED
    BY <2>3, <2>4
<1>3. orderPc = "idle" /\ orderPc' = "buy" /\ UNCHANGED <<market, order, listed, id, polls>>
  BY DEF C!get_balances
<1> QED
  BY <1>2, <1>3 DEF CycleInv

LEMMA DecideKeepsCycle ==
  ASSUME C!OrdersConstants, CycleInv, C!Buy \/ C!Sell
  PROVE  CycleInv'
<1>1. ASSUME C!Buy
      PROVE  /\ order' \in Job /\ (order'.side = "BUY" => order'.kind = "limit")
             /\ entry' = entry
  <2>1. /\ entry' = entry
        /\ \/ order' = C!NoJob
           \/ \E n \in Least .. Least + 1 :
                order' = [side |-> "BUY", size |-> n, kind |-> "limit", full |-> FALSE]
    BY <1>1 DEF C!Buy, C!Place
  <2>2. CASE order' = C!NoJob
    BY <2>1, <2>2, JobsAreJobs
  <2>3. ASSUME NEW n \in Least .. Least + 1,
               order' = [side |-> "BUY", size |-> n, kind |-> "limit", full |-> FALSE]
        PROVE  order' \in Job /\ order'.kind = "limit"
    BY <2>3 DEF Job, C!OrdersConstants
  <2> QED
    BY <2>1, <2>2, <2>3
<1>2. ASSUME C!Sell
      PROVE  /\ order' \in Job /\ (order'.side = "BUY" => order'.kind = "limit")
             /\ entry' \in BOOLEAN
  <2>1. \A n \in Nat : n \div 4 \in Nat
    OBVIOUS
  <2>2. \A j \in C!Exits : j \in Job /\ j.side = "SELL"
    <3> TAKE j \in C!Exits
    <3>1. avail \in Nat
      BY DEF CycleInv
    <3>2. j \in {C!StopLoss(avail), C!Target(avail), C!TakeProfit(avail)}
      BY DEF C!Exits
    <3> QED
      BY <2>1, <3>1, <3>2, JobsAreJobs DEF C!StopLoss, C!Target, C!TakeProfit, C!Part
  <2>3. order' = C!NoJob \/ order' \in C!Exits
    BY <1>2 DEF C!Sell, C!Place
  <2>4. entry' \in BOOLEAN
    BY <1>2 DEF C!Sell, C!Place, C!Adopted, CycleInv
  <2> QED
    BY <2>2, <2>3, <2>4, JobsAreJobs
<1>3. /\ orderPc \in {"buy", "sell"} /\ orderPc' \in {"sell", "list", "idle"}
      /\ UNCHANGED <<market, avail, listed, id, polls>>
  BY DEF C!Buy, C!Sell, C!Place
<1> QED
  BY <1>1, <1>2, <1>3 DEF CycleInv

LEMMA CancelKeepsCycle ==
  ASSUME CycleInv, C!ListOrders \/ C!Cancel
  PROVE  CycleInv'
<1>1. CASE C!ListOrders
  BY <1>1 DEF CycleInv, C!ListOrders, C!Go
<1>2. CASE C!Cancel
  BY <1>2 DEF CycleInv, C!Cancel, C!Go
<1> QED
  BY <1>1, <1>2

LEMMA PollKeepsCycle ==
  ASSUME C!OrdersConstants, CycleInv, C!check_order_filled
  PROVE  CycleInv'
<1>1. CASE \E c \in BOOLEAN : C!Booked(c)
  <2>1. PICK c \in BOOLEAN : C!Booked(c)
    BY <1>1
  <2>2. order' \in Job /\ order'.side = "SELL" /\ entry' \in BOOLEAN
    BY <2>1 DEF C!Booked, C!NoJob, Job, CycleInv
  <2>3. orderPc' \in {"sell", "listBought", "idle"} /\ id' = NoOrder /\ polls' = 0
    BY <2>1 DEF C!Booked, C!Answered
  <2> QED
    BY <2>2, <2>3 DEF CycleInv, C!check_order_filled, C!OrdersConstants
<1>2. CASE /\ polls + 1 < Polls /\ polls' = polls + 1
           /\ UNCHANGED <<orderPc, entry, order, id>>
  BY <1>2 DEF CycleInv, C!check_order_filled, C!OrdersConstants
<1> QED
  BY <1>1, <1>2 DEF C!check_order_filled

\* An order that is taken, its answer heard or not.
LEMMA PostKeepsOrders ==
  ASSUME C!OrdersConstants, ExchangeInv, CycleInv, C!Post
  PROVE  ExchangeInv' /\ CycleInv'
<1>1. /\ orderPc = "post" /\ ~C!TooSmall
      /\ UNCHANGED <<market, avail, entry, listed, polls>>
  BY DEF C!Post
<1>2. /\ order.size \in Nat /\ order.side \in {"BUY", "SELL"}
      /\ order.kind \in {"limit", "aggressive"} \/ order.side = "SELL"
  BY DEF CycleInv, Job
<1>3. CASE /\ C!Unused # {}
           /\ \E o \in C!Unused : C!Accept(o, o) /\ id' = o /\ orderPc' = "poll" /\ order' = order
  <2>1. PICK o \in C!Unused : C!Accept(o, o) /\ id' = o /\ orderPc' = "poll" /\ order' = order
    BY <1>3
  <2>2. ExchangeInv'
    BY <1>1, <1>2, <2>1, AcceptKeepsExchange
  <2>3. id' # NoOrder
    BY <2>1 DEF C!Unused, C!OrdersConstants
  <2> QED
    BY <1>1, <2>1, <2>2, <2>3 DEF CycleInv
<1>4. CASE \E o \in C!Unused : C!Accept(o, NoOrder) /\ C!NoAnswer /\ id' = id
  <2>1. PICK o \in C!Unused : C!Accept(o, NoOrder) /\ C!NoAnswer /\ id' = id
    BY <1>4
  <2>2. ExchangeInv'
    BY <1>1, <1>2, <2>1, AcceptKeepsExchange
  <2> QED
    BY <1>1, <2>1, <2>2, AfterwardsKeepsCycle
<1>5. CASE (C!Refused \/ C!NoAnswer) /\ UNCHANGED <<base, cash, orders, id>>
  BY <1>1, <1>5, AfterwardsKeepsCycle, QuietKeepsExchange
<1> QED
  <2>1. C!Unused # {} => (CHOOSE u \in C!Unused : TRUE) \in C!Unused
    OBVIOUS
  <2> QED
    BY <1>3, <1>4, <1>5, <2>1 DEF C!Post, C!exchange

LEMMA OrderTypesStep ==
  ASSUME C!OrdersConstants, ExchangeInv, CycleInv, [C!Next]_(C!vars)
  PROVE  ExchangeInv' /\ CycleInv'
<1>1. CASE C!get_balances
  BY <1>1, ReadKeepsCycle, QuietKeepsExchange DEF C!get_balances, C!exchange
<1>2. CASE C!Buy \/ C!Sell
  <2>1. UNCHANGED <<market, base, cash, orders>>
    BY <1>2 DEF C!Buy, C!Sell, C!Place, C!exchange
  <2> QED
    BY <1>2, <2>1, DecideKeepsCycle, QuietKeepsExchange
<1>3. CASE C!ListOrders
  <2>1. UNCHANGED <<market, base, cash, orders>>
    BY <1>3 DEF C!ListOrders, C!Go
  <2> QED
    BY <1>3, <2>1, CancelKeepsCycle, QuietKeepsExchange
<1>4. CASE C!Cancel
  <2>1. UNCHANGED <<market, base, cash>>
    BY <1>4 DEF C!Cancel, C!Go
  <2>2. \/ orders' = orders
        \/ orders' = [o \in Order |-> IF o \in listed THEN C!Blank ELSE orders[o]]
    BY <1>4 DEF C!Cancel
  <2> QED
    BY <1>4, <2>1, <2>2, CancelKeepsCycle, CancelKeepsExchange, QuietKeepsExchange
<1>5. CASE C!GiveUp
  BY <1>5, AfterwardsKeepsCycle, QuietKeepsExchange DEF C!GiveUp, C!exchange
<1>6. CASE C!Post
  BY <1>6, PostKeepsOrders
<1>7. CASE C!check_order_filled
  <2>1. UNCHANGED <<market, base, cash>>
    BY <1>7 DEF C!check_order_filled
  <2>2. orders' = orders \/ orders' = C!Forget(orders, NoOrder)
    BY <1>7 DEF C!check_order_filled, C!Booked, C!Answered
  <2> QED
    BY <1>7, <2>1, <2>2, PollKeepsCycle, QuietKeepsExchange
<1>8. CASE \E o \in Order : C!Fill(o)
  <2>1. CycleInv'
    BY <1>8 DEF CycleInv, C!Fill
  <2> QED
    BY <1>8, <2>1, FillKeepsExchange
<1>9. CASE UNCHANGED C!vars
  <2>1. CycleInv'
    BY <1>9 DEF CycleInv, C!vars
  <2> QED
    BY <1>9, <2>1, QuietKeepsExchange DEF C!vars, C!exchange
<1> QED
  BY <1>1, <1>2, <1>3, <1>4, <1>5, <1>6, <1>7, <1>8, <1>9 DEF C!Next, C!Step

LEMMA OrdersAreTyped ==
  ASSUME C!OrdersConstants, ExchangeInv, CycleInv
  PROVE  C!TypeOK /\ (market = "spot" => C!Available >= 0)
<1>1. market = "spot" => C!Available >= 0
  <2>1. /\ orders \in [Order -> Placed]
        /\ \A p \in Order : Held(orders[p], "SELL") <= Held(orders[p], "SELL")
    BY DEF ExchangeInv, Held, Placed
  <2>2. HeldBy(orders, "SELL") \in Nat
    BY <2>1, HeldShrinks
  <2> QED
    BY <2>2, HeldAgrees DEF C!Available, ExchangeInv
<1>2. C!TypeOK
  <2>1. DOMAIN orders = Order /\ \A o \in Order : orders[o] \in Placed
    BY DEF ExchangeInv
  <2>2. \A o \in Order : /\ orders[o].left \in Nat
                         /\ orders[o].status \in {"CLOSED", "OPEN", "FILLED", "CANCELLED"}
    BY <2>1 DEF Placed
  <2> QED
    BY <2>1, <2>2 DEF C!TypeOK, ExchangeInv, CycleInv
<1> QED
  BY <1>1, <1>2

\* The account never owns less than its open sales hold, so that what a cycle
\* reads as available is an amount, and the rest of what the cycle and the
\* exchange know has its type (get_balances, cancel_open_orders,
\* check_order_filled); in Requests too.
THEOREM SalesAreCovered ==
  ASSUME C!OrdersConstants
  PROVE  /\ C!Spec => [](C!TypeOK /\ (market = "spot" => C!Available >= 0))
         /\ SumSpec => [](C!TypeOK /\ (market = "spot" => C!Available >= 0))
<1>1. C!Init => ExchangeInv /\ CycleInv
  BY ExchangeInit, CycleInit
<1>2. ExchangeInv /\ CycleInv /\ [C!Next]_(C!vars) => (ExchangeInv /\ CycleInv)'
  BY OrderTypesStep
<1>3. ExchangeInv /\ CycleInv => C!TypeOK /\ (market = "spot" => C!Available >= 0)
  BY OrdersAreTyped
<1>4. C!Spec => [](C!TypeOK /\ (market = "spot" => C!Available >= 0))
  BY <1>1, <1>2, <1>3, PTL DEF C!Spec
<1>5. SumSpec => [](C!TypeOK /\ (market = "spot" => C!Available >= 0))
  BY <1>1, <1>2, <1>3, SumBegins, SumMovesOrders, PTL DEF SumSpec
<1> QED
  BY <1>4, <1>5

------------------------------------------------------------------------------
(* What a futures position may be sold for twice *)

\* Lots the cycle means to sell, or is about to order the sale of.
Intended ==
  IF orderPc \in {"buy", "sell"} THEN avail
  ELSE IF orderPc \in {"list", "cancel", "post"} THEN order.size ELSE 0

\* The futures executor only sells, and what is open or intended to be sold
\* exceeds the position by no more than what may be sold twice.
LongInv ==
  market = "futures" =>
    /\ doubled \in Nat
    /\ orderPc \notin {"listBought", "cancelBought"}
    /\ orderPc \in {"list", "cancel", "post", "poll"} => order.side = "SELL"
    /\ Unsold - Intended + doubled >= 0

LEMMA LongInit ==
  ASSUME C!OrdersConstants, C!Init
  PROVE  LongInv
<1>1. Unsold \in Nat
  BY ExchangeInit
<1>2. Intended = 0 /\ doubled = 0 /\ orderPc = "idle"
  BY DEF C!Init, Intended
<1> QED
  BY <1>1, <1>2 DEF LongInv

LEMMA IntendedIsNat == CycleInv => Intended \in Nat
BY DEF CycleInv, Job, Intended

\* Nothing more is sold, nor meant to be.
LEMMA QuietKeepsLong ==
  ASSUME LongInv, market = "futures", Unsold \in Int, Unsold' \in Int,
         Intended \in Nat, Intended' \in Nat,
         Unsold' >= Unsold, Intended' <= Intended, UNCHANGED doubled,
         orderPc' \notin {"listBought", "cancelBought"},
         orderPc' \in {"list", "cancel", "post", "poll"} => order'.side = "SELL"
  PROVE  LongInv'
BY DEF LongInv

\* A position is read whole, and what rests of its sales may be sold again.
LEMMA ReadKeepsLong ==
  ASSUME C!OrdersConstants, ExchangeInv, LongInv, market = "futures", C!get_balances
  PROVE  LongInv'
<1>1. /\ orderPc = "idle" /\ orderPc' = "buy"
      /\ UNCHANGED <<market, base, orders>>
  BY DEF C!get_balances, C!exchange
<1>2. /\ Unsold' = Unsold /\ Unsold = base - HeldBy(orders, "SELL")
      /\ base \in Int /\ HeldBy(orders, "SELL") \in Nat
  BY <1>1, UnsoldIsInt DEF Unsold, ExchangeInv
<1>3. Intended = 0 /\ Intended' = avail'
  BY <1>1 DEF Intended
<1>4. CASE avail' = 0 /\ doubled' = doubled
  BY <1>1, <1>2, <1>3, <1>4 DEF LongInv
<1>5. CASE avail' = base /\ doubled' = HeldBy(orders, "SELL")
  BY <1>1, <1>2, <1>3, <1>5 DEF LongInv
<1>6. C!Held("SELL") = HeldBy(orders, "SELL")
  BY HeldAgrees
<1> QED
  BY <1>4, <1>5, <1>6 DEF C!get_balances, C!Listed, C!Available

\* A futures account has no USDC to buy for, and no exit sells more than there is.
LEMMA DecideKeepsLong ==
  ASSUME C!OrdersConstants, ExchangeInv, CycleInv, LongInv, market = "futures",
         C!Buy \/ C!Sell, CycleInv'
  PROVE  LongInv'
<1>1. UNCHANGED <<market, base, orders, avail, doubled>> /\ avail \in Nat
  BY DEF C!Buy, C!Sell, C!Place, C!exchange, CycleInv
<1>2. Unsold' = Unsold /\ Unsold \in Int
  BY <1>1, UnsoldIsInt DEF Unsold
<1>3. CASE C!Buy
  <2>1. orderPc' = "sell"
    BY <1>3 DEF C!Buy, C!Place, C!CashAvailable, C!OrdersConstants
  <2>2. Intended = avail /\ Intended' = avail
    BY <1>1, <1>3, <2>1 DEF Intended, C!Buy
  <2> QED
    BY <1>1, <1>2, <2>1, <2>2, QuietKeepsLong
<1>4. CASE C!Sell
  <2>1. orderPc = "sell" /\ Intended = avail
    BY <1>4 DEF Intended, C!Sell
  <2>2. CASE orderPc' = "idle"
    <3>1. Intended' = 0
      BY <2>2 DEF Intended
    <3> QED
      BY <1>1, <1>2, <2>1, <2>2, <3>1, QuietKeepsLong
  <2>3. CASE orderPc' = "list" /\ order' \in C!Exits
    <3>1. order'.side = "SELL" /\ order'.size \in {avail, avail \div 4}
      BY <2>3 DEF C!Exits, C!StopLoss, C!Target, C!TakeProfit, C!Part
    <3>2. avail \div 4 \in Nat /\ avail \div 4 <= avail
      BY <1>1
    <3>3. Intended' = order'.size
      BY <2>3 DEF Intended
    <3>4. Intended' \in Nat /\ Intended' <= avail
      BY <1>1, <3>1, <3>2, <3>3
    <3> QED
      BY <1>1, <1>2, <2>1, <2>3, <3>1, <3>4, QuietKeepsLong
  <2> QED
    BY <1>4, <2>2, <2>3 DEF C!Sell, C!Place
<1> QED
  BY <1>3, <1>4

LEMMA CancelKeepsLong ==
  ASSUME C!OrdersConstants, ExchangeInv, CycleInv, LongInv, market = "futures",
         C!ListOrders \/ C!Cancel, Unsold' >= Unsold, Unsold' \in Int
  PROVE  LongInv'
<1>1. /\ orderPc \in {"list", "cancel"} /\ orderPc' \in {"cancel", "post"}
      /\ UNCHANGED <<market, avail, order, doubled>>
  BY DEF LongInv, C!ListOrders, C!Cancel, C!Go
<1>2. Intended = order.size /\ Intended' = order.size /\ Intended \in Nat
  BY <1>1, IntendedIsNat DEF Intended
<1>3. order.side = "SELL" /\ Unsold \in Int
  BY <1>1, UnsoldIsInt DEF LongInv
<1> QED
  BY <1>1, <1>2, <1>3, QuietKeepsLong

\* No answer, or a refusal: a stop loss is ordered again, for as much.
LEMMA AfterwardsKeepsLong ==
  ASSUME C!OrdersConstants, ExchangeInv, CycleInv, LongInv, market = "futures",
         orderPc = "post", C!NoAnswer \/ C!Refused,
         UNCHANGED <<market, base, orders, avail, doubled>>
  PROVE  LongInv'
<1>1. /\ Intended = order.size /\ Intended \in Nat /\ order.side = "SELL"
      /\ order \in Job
  BY IntendedIsNat DEF Intended, LongInv, CycleInv
<1>2. \/ orderPc' = "list" /\ \E k : order' = [order EXCEPT !.kind = k]
      \/ orderPc' = "idle"
  BY <1>1 DEF C!NoAnswer, C!Refused
<1>3. Unsold' = Unsold /\ Unsold \in Int
  BY UnsoldIsInt DEF Unsold
<1>4. CASE orderPc' = "list" /\ \E k : order' = [order EXCEPT !.kind = k]
  <2>1. order'.size = order.size /\ order'.side = "SELL"
    BY <1>1, <1>4 DEF Job
  <2>2. Intended' = order'.size
    BY <1>4 DEF Intended
  <2> QED
    BY <1>1, <1>3, <1>4, <2>1, <2>2, QuietKeepsLong
<1>5. CASE orderPc' = "idle"
  <2>1. Intended' = 0
    BY <1>5 DEF Intended
  <2> QED
    BY <1>1, <1>3, <1>5, <2>1, QuietKeepsLong
<1> QED
  BY <1>2, <1>4, <1>5

LEMMA NothingLess == \A n \in Int, k \in Nat : n + k >= 0 => n - 0 + k >= 0
OBVIOUS

LEMMA StillEnough ==
  ASSUME NEW before \in Int, NEW after \in Int, NEW n \in Nat, NEW m \in Nat, NEW k \in Nat,
         after >= before - n, n <= m, before - m + k >= 0
  PROVE  after + k >= 0
OBVIOUS

\* An order that is taken sells no more than was meant to be sold; if a stop loss
\* is ordered again all the same, what was taken counts as sold twice.
LEMMA TakenKeepsLong ==
  ASSUME C!OrdersConstants, ExchangeInv, CycleInv, LongInv, market = "futures",
         orderPc = "post", ~C!TooSmall,
         NEW o, o \in C!Unused, NEW a, C!Accept(o, a), UNCHANGED <<market, avail>>,
         \/ orderPc' = "poll" /\ UNCHANGED <<order, doubled>>
         \/ C!NoAnswer /\ C!OrderedAgain
  PROVE  LongInv'
<1>1. /\ Intended = order.size /\ order.size \in Nat /\ order.side = "SELL"
      /\ order \in Job /\ doubled \in Nat
  BY IntendedIsNat DEF Intended, LongInv, CycleInv
<1>2. C!Lots \in Nat /\ C!Lots <= order.size
  BY <1>1 DEF C!Lots, C!TooSmall
<1>3. ExchangeInv' /\ Unsold' >= Unsold - C!Lots
  BY <1>1, AcceptKeepsExchange
<1>4. Unsold \in Int /\ Unsold' \in Int
  <2>1. Unsold \in Int
    BY UnsoldIsInt
  <2>2. ExchangeInv => Unsold \in Int
    BY UnsoldIsInt
  <2>3. base' \in Int /\ orders' \in [Order -> Placed]
    BY <1>3 DEF ExchangeInv
  <2>4. HeldBy(orders', "SELL") \in Nat
    <3>1. \A p \in Order : Held(orders'[p], "SELL") <= Held(orders'[p], "SELL")
      BY <2>3 DEF Held, Placed
    <3> QED
      BY <2>3, <3>1, HeldShrinks
  <2> QED
    BY <2>1, <2>3, <2>4 DEF Unsold
<1>5. Unsold - order.size + doubled >= 0
  BY <1>1 DEF LongInv
<1>6. Unsold' + doubled >= 0
  BY <1>1, <1>2, <1>3, <1>4, <1>5, StillEnough
<1>7. CASE orderPc' = "poll" /\ UNCHANGED <<order, doubled>>
  <2>1. Intended' = 0
    BY <1>7 DEF Intended
  <2>2. Unsold' - Intended' + doubled' >= 0
    BY <1>1, <1>4, <1>6, <1>7, <2>1, NothingLess
  <2> QED
    BY <1>1, <1>7, <2>2 DEF LongInv
<1>8. CASE C!NoAnswer /\ C!OrderedAgain /\ order.kind = "aggressive"
  <2>1. /\ orderPc' = "list" /\ order'.size = order.size /\ order'.side = "SELL"
        /\ doubled' = doubled + C!Lots
    BY <1>1, <1>8 DEF C!NoAnswer, C!OrderedAgain, Job
  <2>2. Intended' = order.size
    BY <2>1 DEF Intended
  <2>3. Unsold' - Intended' + doubled' >= 0 /\ doubled' \in Nat
    BY <1>1, <1>2, <1>3, <1>4, <1>5, <2>1, <2>2
  <2> QED
    BY <2>1, <2>3 DEF LongInv
<1>9. CASE C!NoAnswer /\ C!OrderedAgain /\ order.kind # "aggressive"
  <2>1. orderPc' = "idle" /\ doubled' = doubled
    BY <1>1, <1>9 DEF C!NoAnswer, C!OrderedAgain
  <2>2. Intended' = 0
    BY <2>1 DEF Intended
  <2>3. Unsold' - Intended' + doubled' >= 0
    BY <1>1, <1>4, <1>6, <2>1, <2>2, NothingLess
  <2> QED
    BY <1>1, <2>1, <2>3 DEF LongInv
<1> QED
  BY <1>7, <1>8, <1>9

LEMMA PostKeepsLong ==
  ASSUME C!OrdersConstants, ExchangeInv, CycleInv, LongInv, market = "futures",
         C!GiveUp \/ C!Post
  PROVE  LongInv'
<1>1. UNCHANGED <<market, avail>> /\ orderPc = "post"
  BY DEF C!GiveUp, C!Post
<1>2. CASE C!GiveUp
  BY <1>1, <1>2, AfterwardsKeepsLong DEF C!GiveUp, C!exchange, C!history
<1>3. CASE C!Post
  <2>1. PICK o : o = CHOOSE u \in C!Unused : TRUE
    OBVIOUS
  <2>2. C!Unused # {} => o \in C!Unused
    BY <2>1
  <2>3. ~C!TooSmall
    BY <1>3 DEF C!Post
  <2>4. CASE /\ C!Unused # {} /\ C!Accept(o, o) /\ orderPc' = "poll"
             /\ UNCHANGED <<order, doubled>>
    BY <1>1, <2>2, <2>3, <2>4, TakenKeepsLong
  <2>5. CASE /\ C!Unused # {} /\ C!Accept(o, NoOrder) /\ C!NoAnswer /\ C!OrderedAgain
    BY <1>1, <2>2, <2>3, <2>5, TakenKeepsLong
  <2>6. CASE (C!NoAnswer \/ C!Refused) /\ UNCHANGED <<C!exchange, doubled>>
    BY <1>1, <2>6, AfterwardsKeepsLong DEF C!exchange
  <2> QED
    BY <1>3, <2>1, <2>4, <2>5, <2>6 DEF C!Post
<1> QED
  BY <1>2, <1>3

LEMMA PollKeepsLong ==
  ASSUME C!OrdersConstants, ExchangeInv, CycleInv, LongInv, market = "futures",
         C!check_order_filled, Unsold' >= Unsold, Unsold' \in Int
  PROVE  LongInv'
<1>1. /\ UNCHANGED <<market, avail, doubled>> /\ orderPc = "poll"
      /\ order.side = "SELL"
  BY DEF C!check_order_filled, C!history, LongInv
<1>2. \/ UNCHANGED <<orderPc, order>>
      \/ orderPc' = "idle"
  BY <1>1 DEF C!check_order_filled, C!Booked
<1>3. Intended = 0 /\ Intended' = 0
  BY <1>1, <1>2 DEF Intended
<1> QED
  BY <1>1, <1>2, <1>3, UnsoldIsInt, QuietKeepsLong

LEMMA FillKeepsLong ==
  ASSUME C!OrdersConstants, ExchangeInv, CycleInv, LongInv, market = "futures",
         NEW o \in Order, C!Fill(o), Unsold' \in Int
  PROVE  LongInv'
<1>1. UNCHANGED <<market, orderPc, avail, order, doubled>>
  BY DEF C!Fill, C!history
<1>2. Intended' = Intended /\ Intended \in Nat
  BY <1>1, IntendedIsNat DEF Intended
<1>3. Unsold' >= Unsold /\ Unsold \in Int
  BY FillKeepsExchange, UnsoldIsInt
<1> QED
  BY <1>1, <1>2, <1>3, QuietKeepsLong DEF LongInv

LEMMA LongStep ==
  ASSUME C!OrdersConstants, ExchangeInv, CycleInv, LongInv, [C!Next]_(C!vars)
  PROVE  LongInv'
<1>1. ExchangeInv' /\ CycleInv'
  BY OrderTypesStep
<1>2. Unsold' \in Int
  <2>1. \A p \in Order : Held(orders'[p], "SELL") <= Held(orders'[p], "SELL")
    BY <1>1 DEF ExchangeInv, Held, Placed
  <2>2. HeldBy(orders', "SELL") \in Nat
    BY <1>1, <2>1, HeldShrinks DEF ExchangeInv
  <2> QED
    BY <1>1, <2>2 DEF ExchangeInv, Unsold
<1>3. CASE market # "futures"
  <2>1. market' = market
    BY
    DEF C!Next, C!Step, C!vars, C!get_balances, C!Buy, C!Sell, C!Place, C!ListOrders,
        C!Cancel, C!Go, C!GiveUp, C!Post, C!check_order_filled, C!Fill
  <2> QED
    BY <1>3, <2>1 DEF LongInv
<1>4. CASE market = "futures" /\ UNCHANGED C!vars
  <2>1. Unsold' = Unsold /\ Intended' = Intended
    BY <1>4 DEF C!vars, C!exchange, Unsold, Intended
  <2> QED
    BY <1>4, <2>1 DEF LongInv, C!vars, C!history
<1>5. CASE market = "futures" /\ (C!ListOrders \/ C!Cancel)
  <2>1. UNCHANGED <<market, base, cash>>
    BY <1>5 DEF C!ListOrders, C!Cancel, C!Go
  <2>2. \/ orders' = orders
        \/ orders' = [o \in Order |-> IF o \in listed THEN C!Blank ELSE orders[o]]
    BY <1>5 DEF C!ListOrders, C!Cancel
  <2>3. Unsold' >= Unsold
    BY <2>1, <2>2, CancelKeepsExchange, QuietKeepsExchange
  <2> QED
    BY <1>2, <1>5, <2>3, CancelKeepsLong
<1>6. CASE market = "futures" /\ C!check_order_filled
  <2>1. UNCHANGED <<market, base, cash>>
    BY <1>6 DEF C!check_order_filled
  <2>2. orders' = orders \/ orders' = C!Forget(orders, NoOrder)
    BY <1>6 DEF C!check_order_filled, C!Booked, C!Answered
  <2>3. Unsold' >= Unsold
    BY <2>1, <2>2, QuietKeepsExchange
  <2> QED
    BY <1>2, <1>6, <2>3, PollKeepsLong
<1>7. CASE market = "futures" /\ \E o \in Order : C!Fill(o)
  BY <1>2, <1>7, FillKeepsLong
<1> QED
  BY <1>1, <1>3, <1>4, <1>5, <1>6, <1>7, ReadKeepsLong, DecideKeepsLong, PostKeepsLong
  DEF C!Next, C!Step

\* A futures account that starts without a short position never gets one from
\* the bot, partial fills, failed cancellations, refusals, retries as market
\* orders and contract counts that come out one lower included, but for what was
\* resting when its position was last read, and what of a stop loss was taken
\* without an answer: it is short by no more than that.
THEOREM ShortOnlyByDoubled ==
  ASSUME C!OrdersConstants
  PROVE  /\ C!Spec => []ShortByDoubled
         /\ SumSpec => []ShortByDoubled
<1>1. C!Init => ExchangeInv /\ CycleInv /\ LongInv
  BY ExchangeInit, CycleInit, LongInit
<1>2. ExchangeInv /\ CycleInv /\ LongInv /\ [C!Next]_(C!vars)
        => (ExchangeInv /\ CycleInv /\ LongInv)'
  BY OrderTypesStep, LongStep
<1>3. ASSUME ExchangeInv, CycleInv, LongInv PROVE ShortByDoubled
  <2>1. Intended \in Nat /\ HeldBy(orders, "SELL") \in Nat /\ base \in Int
    BY <1>3, IntendedIsNat, UnsoldIsInt DEF ExchangeInv
  <2> QED
    BY <1>3, <2>1 DEF LongInv, Unsold, ShortByDoubled, C!ShortByDoubled
<1>4. C!Spec => []ShortByDoubled
  BY <1>1, <1>2, <1>3, PTL DEF C!Spec
<1>5. SumSpec => []ShortByDoubled
  BY <1>1, <1>2, <1>3, SumBegins, SumMovesOrders, PTL DEF SumSpec
<1> QED
  BY <1>4, <1>5
==============================================================================
