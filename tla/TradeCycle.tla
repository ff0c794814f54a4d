----------------------------- MODULE TradeCycle -----------------------------
(***************************************************************************)
(* run_executor_strategy for one executor, and the state file it keeps      *)
(* through StateManager.  A cycle loads a snapshot of the file, and goes on *)
(* using it while the mutators of StateManager (update_entry_price,         *)
(* record_trade, ...) load, change and save the file themselves; when a     *)
(* price makes a new high or an exit triggers, it saves its snapshot.       *)
(*                                                                          *)
(* Prices and amounts are abstracted to the decisions they lead to: whether *)
(* a candidate is bought, which exit triggers, whether a high is new, which *)
(* peak check_circuit_breakers leaves (DrawdownBreaker has its rule).  Dust *)
(* and a price that cannot be read are positions a cycle passes over; with  *)
(* dust left out, a sell never gets the "dust_skip" answer.                 *)
(***************************************************************************)
EXTENDS Naturals, FiniteSets

CONSTANTS
  Asset,         \* what the executor trades
  Level,         \* exits that fire once per entry: "tp1", "tp2", "trend_exit"
  MaxPositions,  \* max_concurrent_positions
  Peak,          \* peak values
  Scanned,       \* BALANCE_SCAN_TOKENS: looked up on chain in any case
  Venue,         \* "onchain" (EthereumExecutor) or "coinbase"
  Faults,        \* "balance": a balance read misses assets; "late": an order
                 \* whose outcome was not confirmed fills afterwards
  MaxFills,      \* bound: sells that fill, and sells that are recorded
  NoAsset        \* no asset is being traded

ASSUME CycleAssumption ==
  /\ Level \subseteq {"tp1", "tp2", "trend_exit"}
  /\ MaxPositions \in Nat
  /\ Peak \subseteq Nat /\ 0 \in Peak
  /\ Scanned \subseteq Asset
  /\ MaxFills \in Nat
  /\ Venue \in {"onchain", "coinbase"}
  /\ NoAsset \notin Asset

\* Exits that sell all of a position: the trailing stop, and the target and
\* time exits of mean reversion.
Full == {"stop", "target"}

VARIABLES
  disk,       \* the state file
  state,      \* the snapshot `state` of the cycle
  held,       \* assets the account holds
  open,       \* orders that may still fill: <<asset, side>>
  pc,         \* where the cycle is
  seen,       \* assets in the balances it read
  allowed,    \* trading_allowed
  positions,  \* current_positions
  todo,       \* assets left in the loop over candidates or over holdings
  asset,      \* the asset being traded
  kind,       \* the exit that triggered for it
  ideal,      \* history: the file as it would be had no update been lost
  fired,      \* history: how often each level of the present entry fired
  fills,      \* history: sells that filled
  missed      \* history: assets bought without the bot learning of it, since a
              \* read of the balances last found them within the cap

cycle == <<seen, allowed, positions>>
account == <<held, open, missed>>
vars == <<disk, state, account, pc, cycle, todo, asset, kind, ideal, fired, fills>>

------------------------------------------------------------------------------
(* StateManager *)

Blank ==
  [entry |-> [a \in Asset |-> FALSE],   \* entry_prices
   flags |-> [a \in Asset |-> {}],      \* take_profit_flags that are set
   stop |-> [a \in Asset |-> FALSE],    \* stopout_timestamps in their cooldown
   trades |-> 0,                        \* performance.total_trades
   peak |-> 0]                          \* peak_portfolio_values

\* A purchase on top of a position the file knows averages the entry price and
\* keeps its flags; any other one starts a new entry.
update_entry_price(f, a, existing) ==
  IF f.entry[a] /\ existing
    THEN f
    ELSE [f EXCEPT !.entry[a] = TRUE, !.flags[a] = {}]

\* Mutant: the flags outlive the entry.
ClearEntryOnly(f, A) ==
  [f EXCEPT !.entry = [a \in Asset |-> @[a] /\ a \notin A]]

clear_entry_prices(f, A) ==
  [f EXCEPT !.entry = [a \in Asset |-> @[a] /\ a \notin A],
            !.flags = [a \in Asset |-> IF a \in A THEN {} ELSE @[a]]]

record_stopout(f, a) == [f EXCEPT !.stop[a] = TRUE]

record_trade(f) == [f EXCEPT !.trades = @ + 1]

save_peak_value(f, p) == [f EXCEPT !.peak = p]

SetFlags(f, a, flags) == [f EXCEPT !.flags[a] = flags]

------------------------------------------------------------------------------
NoneFired == [l \in Level |-> 0]

Init ==
  /\ disk = Blank
  /\ state = Blank
  /\ held = {}
  /\ open = {}
  /\ missed = {}
  /\ pc = "idle"
  /\ seen = {}
  /\ allowed = FALSE
  /\ positions = 0
  /\ todo = {}
  /\ asset = NoAsset
  /\ kind = "none"
  /\ ideal = Blank
  /\ fired = [a \in Asset |-> NoneFired]
  /\ fills = 0

\* Coinbase lists every account; on chain only the balances of the tokens the
\* file has an entry for are asked for, beside BALANCE_SCAN_TOKENS.
get_balances ==
  held \cap (IF Venue = "coinbase" THEN Asset
             ELSE Scanned \cup {a \in Asset : disk.entry[a]})

\* The balances are read, the entries of assets not among them are cleared and
\* the snapshot is loaded.
Reconcile ==
  /\ pc = "idle"
  /\ \/ seen' = get_balances
     \/ "balance" \in Faults /\ seen' \in SUBSET get_balances
  /\ disk' = clear_entry_prices(disk, Asset \ seen')
  /\ ideal' = clear_entry_prices(ideal, Asset \ seen')
  /\ state' = disk'
  /\ fired' = [a \in Asset |-> IF a \in seen' THEN fired[a] ELSE NoneFired]
  /\ positions' = Cardinality(seen')
  /\ missed' = IF Cardinality(held) <= MaxPositions THEN {} ELSE missed
  /\ pc' = "check"
  /\ UNCHANGED <<held, open, allowed, todo, asset, kind, fills>>

EndCycle ==
  /\ pc' = "idle"
  /\ todo' = {}

\* A value under a tenth of the peak ends the cycle there and then.
SkipCycle ==
  /\ pc = "check"
  /\ EndCycle
  /\ UNCHANGED <<disk, state, account, cycle, asset, kind, ideal, fired, fills>>

\* check_circuit_breakers saves the peak; the snapshot keeps the old one.
CheckBreakers ==
  /\ pc = "check"
  /\ \E p \in Peak :
       /\ disk' = save_peak_value(disk, p)
       /\ ideal' = save_peak_value(ideal, p)
  /\ allowed' \in BOOLEAN
  /\ \/ pc' = "reset" /\ todo' = seen
     \/ pc' = "buy" /\ todo' = Asset
  /\ UNCHANGED <<state, account, seen, positions, asset, kind, fired, fills>>

\* reset_to_usdc: a market sell whose result nobody looks at.
Reset(a) ==
  /\ pc = "reset"
  /\ a \in todo
  /\ held' = held \/ held' = held \ {a}
  /\ disk' = clear_entry_prices(disk, {a})
  /\ ideal' = clear_entry_prices(ideal, {a})
  /\ fired' = [fired EXCEPT ![a] = NoneFired]
  /\ todo' = todo \ {a}
  /\ UNCHANGED <<state, open, missed, pc, cycle, asset, kind, fills>>

EndReset ==
  /\ pc = "reset"
  /\ todo = {}
  /\ EndCycle
  /\ UNCHANGED <<disk, state, account, cycle, asset, kind, ideal, fired, fills>>

------------------------------------------------------------------------------
(* Buys *)

\* Cooldown, position cap and circuit breaker; the cooldown is read from the
\* file, the positions are those counted in this cycle.
CanBuy(a) ==
  /\ ~disk.stop[a]
  /\ positions < MaxPositions \/ a \in seen
  /\ allowed

\* No candidate, refused by CanBuy, too small, or the order failed; in a
\* reset, an asset that is blacklisted or has no price.
PassOver(a) ==
  /\ pc \in {"buy", "reset"}
  /\ a \in todo
  /\ todo' = todo \ {a}
  /\ UNCHANGED <<disk, state, account, pc, cycle, asset, kind, ideal, fired, fills>>

BuyFills(a) ==
  /\ pc = "buy"
  /\ a \in todo
  /\ CanBuy(a)
  /\ held' = held \cup {a}
  /\ asset' = a
  /\ pc' = "bought"
  /\ UNCHANGED <<disk, state, open, missed, cycle, todo, kind, ideal, fired, fills>>

\* What the account gets that no cycle counts or records.
GetsUnseen(a) ==
  /\ held' = held \cup {a}
  /\ missed' = IF a \in held THEN missed ELSE missed \cup {a}

\* check_order_filled knows an order that is FILLED from any other.  A limit
\* buy on Coinbase that filled in part, or whose answers were lost, is cancelled
\* like one that did not fill, and what it bought is passed over.  "late": a swap
\* is still pending, or cancel_open_orders fails.
BuyUnconfirmed(a) ==
  /\ pc = "buy"
  /\ a \in todo
  /\ CanBuy(a)
  /\ \/ Venue = "coinbase" /\ GetsUnseen(a) /\ UNCHANGED open
     \/ "late" \in Faults /\ open' = open \cup {<<a, "BUY">>} /\ UNCHANGED <<held, missed>>
  /\ todo' = todo \ {a}
  /\ UNCHANGED <<disk, state, pc, cycle, asset, kind, ideal, fired, fills>>

\* Mutant: what was bought in this cycle is not counted.
NotCounted == positions

Counted == IF asset \in seen THEN positions ELSE positions + 1

RecordBuy ==
  /\ pc = "bought"
  /\ disk' = update_entry_price(disk, asset, asset \in seen)
  /\ ideal' = update_entry_price(ideal, asset, asset \in seen)
  /\ fired' = IF disk.entry[asset] /\ asset \in seen
                THEN fired ELSE [fired EXCEPT ![asset] = NoneFired]
  /\ positions' = Counted
  /\ todo' = todo \ {asset}
  /\ asset' = NoAsset
  /\ pc' = "buy"
  /\ UNCHANGED <<state, account, seen, allowed, kind, fills>>

\* The loop over candidates ends early when there are none left.
EndBuys ==
  /\ pc = "buy"
  /\ pc' = "sell"
  /\ todo' = seen
  /\ UNCHANGED <<disk, state, account, cycle, asset, kind, ideal, fired, fills>>

------------------------------------------------------------------------------
(* Sells: the holdings are those read when the cycle began *)

Manage(a) ==
  /\ pc = "sell"
  /\ a \in todo
  /\ todo' = todo \ {a}

\* Dust, no price, no candles, or no exit and no new high.
LeaveAlone(a) ==
  /\ Manage(a)
  /\ UNCHANGED <<disk, state, account, pc, cycle, asset, kind, ideal, fired, fills>>

\* A holding the snapshot has no entry for is adopted, at the price of the day.
Adopt(a) ==
  /\ Manage(a)
  /\ ~state.entry[a]
  /\ disk' = update_entry_price(disk, a, FALSE)
  /\ ideal' = update_entry_price(ideal, a, FALSE)
  /\ state' = disk'
  /\ fired' = [fired EXCEPT ![a] = NoneFired]
  /\ UNCHANGED <<account, pc, cycle, asset, kind, fills>>

\* A new high water mark and no exit: the snapshot is saved.
NewHigh(a) ==
  /\ Manage(a)
  /\ state.entry[a]
  /\ disk' = state
  /\ UNCHANGED <<state, account, pc, cycle, asset, kind, ideal, fired, fills>>

\* The flags check_exit returns.
FlagsAfter(flags, k) ==
  flags \cup ({k} \cap Level) \cup (IF k = "tp2" THEN {"tp1"} \cap Level ELSE {})

\* Mutant: the flags only reach the file with the next save.
FlagLater(f) == disk

FlagFirst(f) == f

\* check_exit triggers; the snapshot is saved, with its flags, before anything
\* is ordered.
ExitTriggers(a) ==
  /\ Manage(a)
  /\ state.entry[a]
  /\ \E k \in (Level \ state.flags[a]) \cup Full :
       LET flags == FlagsAfter(state.flags[a], k) IN
       /\ state' = SetFlags(state, a, flags)
       /\ disk' = FlagFirst(SetFlags(state, a, flags))
       /\ ideal' = SetFlags(ideal, a, flags)
       /\ kind' = k
  /\ asset' = a
  /\ pc' = "exit"
  /\ UNCHANGED <<account, cycle, fired, fills>>

Fire ==
  fired' = IF kind \in Level
             THEN [fired EXCEPT ![asset][kind] = @ + 1] ELSE fired

NextHolding ==
  /\ pc' = "sell"
  /\ asset' = NoAsset
  /\ kind' = "none"

\* The order, or the market order a stop loss falls back on, fills.
SellFills ==
  /\ pc = "exit"
  /\ asset \in held
  /\ fills < MaxFills /\ ideal.trades < MaxFills
  /\ fills' = fills + 1
  /\ Fire
  /\ held' = IF kind \in Full THEN held \ {asset} ELSE held
  /\ pc' = "sold"
  /\ UNCHANGED <<disk, state, open, missed, cycle, todo, asset, kind, ideal>>

\* Every order for it was refused or failed.
SellFails ==
  /\ pc = "exit"
  /\ Fire
  /\ NextHolding
  /\ UNCHANGED <<disk, state, account, cycle, todo, ideal, fills>>

\* Mutant: a swap that is still pending counts as sold.
PendingIsSold ==
  /\ pc' = "sold"
  /\ UNCHANGED <<asset, kind>>

PendingIsLeft == NextHolding

\* The outcome is not known: a pending swap is left alone, a Coinbase order
\* that was accepted but not confirmed is booked as sold.  With "late" it may
\* fill afterwards.
SellUnconfirmed ==
  /\ pc = "exit"
  /\ Fire
  /\ open' = IF "late" \in Faults THEN open \cup {<<asset, "SELL">>} ELSE open
  /\ \/ Venue = "onchain" /\ PendingIsLeft
     \/ /\ Venue = "coinbase"
        /\ ideal.trades < MaxFills
        /\ pc' = "sold"
        /\ UNCHANGED <<asset, kind>>
  /\ UNCHANGED <<disk, state, held, missed, cycle, todo, ideal, fills>>

RecordTrade ==
  /\ pc = "sold"
  /\ disk' = record_trade(disk)
  /\ ideal' = record_trade(ideal)
  /\ CASE kind = "stop" -> pc' = "stopout" /\ UNCHANGED <<asset, kind>>
       [] kind = "target" -> pc' = "clear" /\ UNCHANGED <<asset, kind>>
       [] OTHER -> NextHolding
  /\ UNCHANGED <<state, account, cycle, todo, fired, fills>>

RecordStopout ==
  /\ pc = "stopout"
  /\ disk' = record_stopout(disk, asset)
  /\ ideal' = record_stopout(ideal, asset)
  /\ pc' = "clear"
  /\ UNCHANGED <<state, account, cycle, todo, asset, kind, fired, fills>>

\* Mutant: the snapshot is not loaded again after a sale.
KeepSnapshot(f) == state

Reload(f) == f

ClearEntry ==
  /\ pc = "clear"
  /\ disk' = clear_entry_prices(disk, {asset})
  /\ ideal' = clear_entry_prices(ideal, {asset})
  /\ state' = Reload(clear_entry_prices(disk, {asset}))
  /\ fired' = [fired EXCEPT ![asset] = NoneFired]
  /\ NextHolding
  /\ UNCHANGED <<account, cycle, todo, fills>>

EndSells ==
  /\ pc = "sell"
  /\ todo = {}
  /\ EndCycle
  /\ UNCHANGED <<disk, state, account, cycle, asset, kind, ideal, fired, fills>>

------------------------------------------------------------------------------
(* The environment *)

\* The process dies, or an exception ends the cycle, at any point of it.
Crash ==
  /\ pc # "idle"
  /\ state' = Blank
  /\ EndCycle
  /\ seen' = {} /\ allowed' = FALSE /\ positions' = 0
  /\ asset' = NoAsset /\ kind' = "none"
  /\ UNCHANGED <<disk, account, ideal, fired, fills>>

\* The cooldown of a stop-out runs out, in whatever copy.
CooldownEnds(a) ==
  /\ disk.stop[a] \/ ideal.stop[a]
  /\ disk' = [disk EXCEPT !.stop[a] = FALSE]
  /\ state' = [state EXCEPT !.stop[a] = FALSE]
  /\ ideal' = [ideal EXCEPT !.stop[a] = FALSE]
  /\ UNCHANGED <<account, pc, cycle, todo, asset, kind, fired, fills>>

LateFill(a) ==
  /\ \/ <<a, "BUY">> \in open /\ GetsUnseen(a) /\ open' = open \ {<<a, "BUY">>}
     \/ /\ <<a, "SELL">> \in open /\ held' = held \ {a}
        /\ open' = open \ {<<a, "SELL">>}
        /\ UNCHANGED missed
  /\ UNCHANGED <<disk, state, pc, cycle, todo, asset, kind, ideal, fired, fills>>

Next ==
  \/ Reconcile \/ SkipCycle \/ CheckBreakers \/ EndReset
  \/ RecordBuy \/ EndBuys
  \/ SellFills \/ SellFails \/ SellUnconfirmed
  \/ RecordTrade \/ RecordStopout \/ ClearEntry \/ EndSells
  \/ \E a \in Asset :
       \/ Reset(a) \/ PassOver(a) \/ BuyFills(a) \/ BuyUnconfirmed(a)
       \/ LeaveAlone(a) \/ Adopt(a) \/ NewHigh(a) \/ ExitTriggers(a)
       \/ CooldownEnds(a) \/ LateFill(a)
  \/ Crash

Spec == Init /\ [][Next]_vars

------------------------------------------------------------------------------
(* Properties *)

\* A state file: flags belong to an entry.
StateFile ==
  {f \in [entry : [Asset -> BOOLEAN], flags : [Asset -> SUBSET Level],
          stop : [Asset -> BOOLEAN], trades : 0 .. MaxFills, peak : Peak] :
     \A a \in Asset : f.flags[a] # {} => f.entry[a]}

\* The values each variable takes; no copy of the file has take-profit flags
\* that no entry accounts for, which the next entry would inherit.
TypeOK ==
  /\ disk \in StateFile
  /\ state \in StateFile
  /\ held \subseteq Asset
  /\ open \subseteq Asset \X {"BUY", "SELL"}
  /\ missed \subseteq Asset
  /\ pc \in {"idle", "check", "reset", "buy", "bought", "sell", "exit", "sold",
             "stopout", "clear"}
  /\ seen \subseteq Asset
  /\ allowed \in BOOLEAN
  /\ positions \in Nat
  /\ todo \subseteq Asset
  /\ asset \in Asset \cup {NoAsset}
  /\ kind \in Level \cup Full \cup {"none"}
  /\ fills \in 0 .. MaxFills

\* An asset that was stopped out is not bought again before its cooldown is
\* over, although the same cycle may go on to save a snapshot of the file; all
\* that can still come in is an order that was left open before.
NoReentry ==
  [][\A a \in held' \ held : ideal.stop[a] => <<a, "BUY">> \in open \ open']_vars

\* A profit level is ordered once per entry, however often the process dies.
TakesProfitOnce ==
  \A a \in Asset, l \in Level : fired[a][l] <= 1

\* strategy-guide.md: "Max 3 concurrent positions (concentration guard)".  That
\* much is not kept on Coinbase: what was bought in part, or late, is not counted
\* before the next read.  But nothing else takes the account past the cap,
\* through crashes and lost updates, and a read that finds it past the cap lets no
\* cycle add to it: all that is held beyond came unseen since it was last within.
CapButUnseen == Cardinality(held \ missed) <= MaxPositions

\* On chain no sale is booked that did not fill, retries, pending swaps and
\* crashes included.
BookedSalesFilled == disk.trades <= fills

\* state_manager.py: update_entry_price tracks the position: its entry stays in
\* the file until it is cleared.
EntriesAreKept == \A a \in Asset : ideal.entry[a] => disk.entry[a]
==============================================================================
