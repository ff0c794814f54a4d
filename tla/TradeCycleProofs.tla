-------------------------- MODULE TradeCycleProofs --------------------------
(***************************************************************************)
(* What a cycle of run_executor_strategy keeps, through crashes and the     *)
(* snapshots it saves over newer files, for any assets, levels and bounds:  *)
(* the shape of the file, profit levels that fire once, sales that are      *)
(* booked when they filled, stop-outs that last, and the position cap.      *)
(***************************************************************************)
EXTENDS TradeCycle, FiniteSetTheorems, TLAPS

Phase == {"idle", "check", "reset", "buy", "bought", "sell", "exit", "sold",
          "stopout", "clear"}

\* Where the cycle has an asset in hand, and where an exit of it.
Busy == {"bought", "exit", "sold", "stopout", "clear"}
Exiting == {"exit", "sold", "stopout", "clear"}

StateRecord ==
  [entry : [Asset -> BOOLEAN], flags : [Asset -> SUBSET Level],
   stop : [Asset -> BOOLEAN], trades : 0 .. MaxFills, peak : Peak]

\* A copy of the file is one its mutators can have written.
FileOK(f) ==
  /\ f \in StateRecord
  /\ \A a \in Asset : f.flags[a] # {} => f.entry[a]

CycleShape ==
  /\ pc \in Phase
  /\ held \subseteq Asset /\ IsFiniteSet(held)
  /\ open \subseteq Asset \X {"BUY", "SELL"}
  /\ missed \subseteq Asset
  /\ seen \subseteq Asset
  /\ allowed \in BOOLEAN
  /\ positions \in Nat
  /\ todo \subseteq Asset
  /\ asset \in Asset \cup {NoAsset}
  /\ kind \in Level \cup Full \cup {"none"}
  /\ pc \in Busy => asset \in Asset
  /\ pc \in Exiting => kind \in Level \cup Full
  /\ pc \in {"stopout", "clear"} => kind \in Full
  /\ fills \in 0 .. MaxFills
  /\ fired \in [Asset -> [Level -> Nat]]

\* No copy has booked more trades than there were, and there is room for one
\* that is about to be booked.
TradesCounted ==
  /\ ideal \in StateRecord
  /\ disk.trades <= ideal.trades
  /\ state.trades <= ideal.trades
  /\ pc = "sold" => ideal.trades < MaxFills

TypeInv == FileOK(disk) /\ FileOK(state) /\ CycleShape /\ TradesCounted

\* What fired is marked in the file, and in the snapshot of a cycle that may
\* save it; the level about to be ordered is marked and has not fired.
FlagInv ==
  /\ \A a \in Asset, l \in Level :
       /\ fired[a][l] <= 1
       /\ fired[a][l] = 1 => l \in disk.flags[a]
       /\ fired[a][l] = 1 /\ pc # "idle" => l \in state.flags[a]
  /\ pc = "exit" /\ kind \in Level =>
       /\ fired[asset][kind] = 0
       /\ kind \in disk.flags[asset] \cap state.flags[asset]

\* On chain an order is booked after it filled.
BookInv ==
  /\ ideal.trades <= fills
  /\ pc = "sold" => ideal.trades < fills

\* Every stop-out is in the file, and in the snapshot unless it is about to be
\* loaded again.
StopInv ==
  \A a \in Asset :
    /\ ideal.stop[a] => disk.stop[a]
    /\ ideal.stop[a] /\ pc \notin {"idle", "clear"} => state.stop[a]

\* Where a cycle works with the assets it counted.
Counting == {"check", "buy", "bought"}

\* While a cycle buys, what it counted covers what the account holds and what
\* was read, but for what came unseen; without that, it is within the cap, also
\* if everything that was read is bought again.
CapInv ==
  /\ Cardinality(held \ missed) <= MaxPositions
  /\ pc \in Counting =>
       /\ IsFiniteSet(seen)
       /\ Cardinality((held \cup seen) \ missed) <= MaxPositions
       /\ Cardinality((held \ missed) \cup seen)
            <= IF pc = "bought" THEN Counted ELSE positions

------------------------------------------------------------------------------
(* The mutators of the file *)

LEMMA BlankFile ==
  /\ FileOK(Blank)
  /\ Blank.trades = 0
  /\ \A a \in Asset : Blank.flags[a] = {} /\ ~Blank.stop[a] /\ ~Blank.entry[a]
BY CycleAssumption DEF Blank, FileOK, StateRecord

LEMMA ClearFile ==
  ASSUME NEW f \in StateRecord, NEW A \in SUBSET Asset
  PROVE  /\ clear_entry_prices(f, A) \in StateRecord
         /\ FileOK(f) => FileOK(clear_entry_prices(f, A))
         /\ clear_entry_prices(f, A).trades = f.trades
         /\ clear_entry_prices(f, A).stop = f.stop
         /\ \A a \in Asset \ A :
              clear_entry_prices(f, A).flags[a] = f.flags[a]
BY DEF clear_entry_prices, FileOK, StateRecord

LEMMA UpdateFile ==
  ASSUME NEW f \in StateRecord, NEW a \in Asset, NEW existing \in BOOLEAN
  PROVE  /\ update_entry_price(f, a, existing) \in StateRecord
         /\ FileOK(f) => FileOK(update_entry_price(f, a, existing))
         /\ update_entry_price(f, a, existing).trades = f.trades
         /\ update_entry_price(f, a, existing).stop = f.stop
         /\ \A b \in Asset \ {a} :
              update_entry_price(f, a, existing).flags[b] = f.flags[b]
         /\ f.entry[a] /\ existing =>
              update_entry_price(f, a, existing).flags = f.flags
BY DEF update_entry_price, FileOK, StateRecord

LEMMA TradeFile ==
  ASSUME NEW f \in StateRecord, f.trades < MaxFills
  PROVE  /\ record_trade(f) \in StateRecord
         /\ FileOK(f) => FileOK(record_trade(f))
         /\ record_trade(f).trades = f.trades + 1
         /\ record_trade(f).stop = f.stop
         /\ record_trade(f).flags = f.flags
<1>1. /\ f.trades \in 0 .. MaxFills
      /\ f.trades + 1 \in 0 .. MaxFills
  BY CycleAssumption DEF StateRecord
<1> QED
  BY <1>1 DEF record_trade, FileOK, StateRecord

LEMMA StopFile ==
  ASSUME NEW f \in StateRecord, NEW a \in Asset
  PROVE  /\ record_stopout(f, a) \in StateRecord
         /\ FileOK(f) => FileOK(record_stopout(f, a))
         /\ record_stopout(f, a).trades = f.trades
         /\ record_stopout(f, a).flags = f.flags
         /\ record_stopout(f, a).stop[a]
         /\ \A b \in Asset \ {a} : record_stopout(f, a).stop[b] <=> f.stop[b]
BY DEF record_stopout, FileOK, StateRecord

LEMMA PeakFile ==
  ASSUME NEW f \in StateRecord, NEW p \in Peak
  PROVE  /\ save_peak_value(f, p) \in StateRecord
         /\ FileOK(f) => FileOK(save_peak_value(f, p))
         /\ save_peak_value(f, p).trades = f.trades
         /\ save_peak_value(f, p).flags = f.flags
         /\ save_peak_value(f, p).stop = f.stop
BY DEF save_peak_value, FileOK, StateRecord

LEMMA FlagsFile ==
  ASSUME NEW f \in StateRecord, NEW a \in Asset, NEW flags \in SUBSET Level
  PROVE  /\ SetFlags(f, a, flags) \in StateRecord
         /\ FileOK(f) /\ f.entry[a] => FileOK(SetFlags(f, a, flags))
         /\ SetFlags(f, a, flags).trades = f.trades
         /\ SetFlags(f, a, flags).stop = f.stop
         /\ SetFlags(f, a, flags).flags[a] = flags
         /\ \A b \in Asset \ {a} : SetFlags(f, a, flags).flags[b] = f.flags[b]
BY DEF SetFlags, FileOK, StateRecord

LEMMA CooldownFile ==
  ASSUME NEW f \in StateRecord, NEW a \in Asset
  PROVE  /\ [f EXCEPT !.stop[a] = FALSE] \in StateRecord
         /\ FileOK(f) => FileOK([f EXCEPT !.stop[a] = FALSE])
         /\ [f EXCEPT !.stop[a] = FALSE].trades = f.trades
         /\ [f EXCEPT !.stop[a] = FALSE].flags = f.flags
         /\ ~[f EXCEPT !.stop[a] = FALSE].stop[a]
         /\ \A b \in Asset \ {a} :
              [f EXCEPT !.stop[a] = FALSE].stop[b] <=> f.stop[b]
BY DEF FileOK, StateRecord

------------------------------------------------------------------------------
(* Type correctness *)

\* Nothing but the process's own variables is touched.
LEMMA QuietTypes ==
  ASSUME TypeInv, UNCHANGED <<disk, state, ideal, fired>>,
         held' \subseteq Asset, IsFiniteSet(held'),
         open' \subseteq Asset \X {"BUY", "SELL"}, missed' \subseteq Asset,
         pc' \in Phase,
         seen' \subseteq Asset, allowed' \in BOOLEAN, positions' \in Nat,
         todo' \subseteq Asset, asset' \in Asset \cup {NoAsset},
         kind' \in Level \cup Full \cup {"none"},
         pc' \in Busy => asset' \in Asset,
         pc' \in Exiting => kind' \in Level \cup Full,
         pc' \in {"stopout", "clear"} => kind' \in Full,
         fills' \in 0 .. MaxFills,
         pc' = "sold" => ideal.trades < MaxFills
  PROVE  TypeInv'
BY DEF TypeInv, FileOK, CycleShape, TradesCounted

LEMMA TypeInit == Init => TypeInv
<1> SUFFICES ASSUME Init PROVE TypeInv
  OBVIOUS
<1>1. FileOK(disk) /\ FileOK(state)
  BY BlankFile DEF Init
<1>2. CycleShape
  <2>1. fired \in [Asset -> [Level -> Nat]]
    BY DEF Init, NoneFired
  <2>2. IsFiniteSet(held)
    BY FS_EmptySet DEF Init
  <2>3. fills \in 0 .. MaxFills
    BY CycleAssumption DEF Init
  <2> QED
    BY <2>1, <2>2, <2>3 DEF Init, CycleShape, Phase, Busy, Exiting
<1>3. TradesCounted
  BY BlankFile, CycleAssumption DEF Init, TradesCounted, FileOK
<1> QED
  BY <1>1, <1>2, <1>3 DEF TypeInv

LEMMA ReconcileTypes == TypeInv /\ Reconcile => TypeInv'
<1> SUFFICES ASSUME TypeInv, Reconcile PROVE TypeInv'
  OBVIOUS
<1>1. seen' \subseteq held
  BY DEF Reconcile, get_balances
<1>2. seen' \subseteq Asset /\ Cardinality(seen') \in Nat
  BY <1>1, FS_Subset, FS_CardinalityType DEF TypeInv, CycleShape
<1>3. /\ FileOK(disk') /\ FileOK(state') /\ ideal' \in StateRecord
      /\ disk'.trades = disk.trades /\ state'.trades = disk.trades
      /\ ideal'.trades = ideal.trades
  BY ClearFile DEF Reconcile, TypeInv, TradesCounted, FileOK
<1>4. fired' \in [Asset -> [Level -> Nat]]
  BY DEF Reconcile, TypeInv, CycleShape, NoneFired
<1> QED
  BY <1>2, <1>3, <1>4
  DEF Reconcile, TypeInv, FileOK, CycleShape, TradesCounted, Phase, Busy,
      Exiting, account

LEMMA QuietStepTypes ==
  TypeInv /\ (SkipCycle \/ EndReset \/ EndBuys \/ EndSells) => TypeInv'
BY QuietTypes
DEF SkipCycle, EndReset, EndBuys, EndSells, EndCycle, TypeInv, CycleShape,
    Phase, Busy, Exiting, account, cycle

LEMMA BreakerTypes == TypeInv /\ CheckBreakers => TypeInv'
<1> SUFFICES ASSUME TypeInv, CheckBreakers PROVE TypeInv'
  OBVIOUS
<1>1. PICK p \in Peak : /\ disk' = save_peak_value(disk, p)
                        /\ ideal' = save_peak_value(ideal, p)
  BY DEF CheckBreakers
<1>2. /\ FileOK(disk') /\ ideal' \in StateRecord
      /\ disk'.trades = disk.trades /\ ideal'.trades = ideal.trades
  BY <1>1, PeakFile DEF TypeInv, TradesCounted, FileOK
<1> QED
  BY <1>2
  DEF CheckBreakers, TypeInv, FileOK, CycleShape, TradesCounted, Phase, Busy,
      Exiting, account

LEMMA ResetTypes == ASSUME NEW a \in Asset, TypeInv, Reset(a) PROVE TypeInv'
<1>1. /\ FileOK(disk') /\ ideal' \in StateRecord
      /\ disk'.trades = disk.trades /\ ideal'.trades = ideal.trades
  BY ClearFile DEF Reset, TypeInv, TradesCounted, FileOK
<1>2. held' \subseteq Asset /\ IsFiniteSet(held')
  BY FS_Subset DEF Reset, TypeInv, CycleShape
<1>3. fired' \in [Asset -> [Level -> Nat]]
  BY DEF Reset, TypeInv, CycleShape, NoneFired
<1> QED
  BY <1>1, <1>2, <1>3
  DEF Reset, TypeInv, FileOK, CycleShape, TradesCounted, Phase, Busy,
      Exiting, cycle

LEMMA BuyTypes ==
  ASSUME NEW a \in Asset, TypeInv, BuyFills(a) \/ BuyUnconfirmed(a)
  PROVE  TypeInv'
<1>1. /\ IsFiniteSet(held \cup {a}) /\ held \cup {a} \subseteq Asset
      /\ missed \cup {a} \subseteq Asset
  BY FS_AddElement DEF TypeInv, CycleShape
<1>2. CASE BuyFills(a)
  <2>1. held' \subseteq Asset /\ IsFiniteSet(held')
    BY <1>1, <1>2 DEF BuyFills
  <2> QED
    BY <1>2, <2>1, QuietTypes
    DEF BuyFills, TypeInv, CycleShape, Phase, Busy, Exiting, cycle
<1>3. CASE BuyUnconfirmed(a)
  <2>1. held' \subseteq Asset /\ IsFiniteSet(held') /\ missed' \subseteq Asset
    BY <1>1, <1>3 DEF BuyUnconfirmed, GetsUnseen, TypeInv, CycleShape
  <2>2. open' \subseteq Asset \X {"BUY", "SELL"}
    BY <1>3 DEF BuyUnconfirmed, TypeInv, CycleShape
  <2> QED
    BY <1>3, <2>1, <2>2, QuietTypes
    DEF BuyUnconfirmed, TypeInv, CycleShape, Phase, Busy, Exiting, cycle
<1> QED
  BY <1>2, <1>3

LEMMA RecordBuyTypes == TypeInv /\ RecordBuy => TypeInv'
<1> SUFFICES ASSUME TypeInv, RecordBuy PROVE TypeInv'
  OBVIOUS
<1>1. asset \in Asset
  BY DEF RecordBuy, TypeInv, CycleShape, Busy
<1>2. /\ FileOK(disk') /\ ideal' \in StateRecord
      /\ disk'.trades = disk.trades /\ ideal'.trades = ideal.trades
  <2>1. CASE asset \in seen
    <3>1. /\ disk' = update_entry_price(disk, asset, TRUE)
          /\ ideal' = update_entry_price(ideal, asset, TRUE)
      BY <2>1 DEF RecordBuy, update_entry_price
    <3> QED
      BY <1>1, <3>1, UpdateFile DEF TypeInv, TradesCounted, FileOK
  <2>2. CASE asset \notin seen
    <3>1. /\ disk' = update_entry_price(disk, asset, FALSE)
          /\ ideal' = update_entry_price(ideal, asset, FALSE)
      BY <2>2 DEF RecordBuy, update_entry_price
    <3> QED
      BY <1>1, <3>1, UpdateFile DEF TypeInv, TradesCounted, FileOK
  <2> QED
    BY <2>1, <2>2
<1>3. fired' \in [Asset -> [Level -> Nat]]
  BY DEF RecordBuy, TypeInv, CycleShape, NoneFired
<1>4. positions' \in Nat
  BY DEF RecordBuy, Counted, TypeInv, CycleShape
<1> QED
  BY <1>2, <1>3, <1>4
  DEF RecordBuy, TypeInv, FileOK, CycleShape, TradesCounted, Phase, Busy,
      Exiting, account

LEMMA PassTypes ==
  ASSUME NEW a \in Asset, TypeInv, PassOver(a) \/ LeaveAlone(a) \/ LateFill(a)
  PROVE  TypeInv'
<1>1. CASE PassOver(a) \/ LeaveAlone(a)
  BY <1>1, QuietTypes
  DEF PassOver, LeaveAlone, Manage, TypeInv, CycleShape, account, cycle
<1>2. CASE LateFill(a)
  <2>1. held' \subseteq Asset /\ IsFiniteSet(held') /\ missed' \subseteq Asset
    <3>1. /\ held' = held \cup {a} \/ held' = held \ {a}
          /\ missed' = missed \cup {a} \/ missed' = missed
      BY <1>2 DEF LateFill, GetsUnseen
    <3>2. IsFiniteSet(held \cup {a}) /\ IsFiniteSet(held \ {a})
      BY FS_AddElement, FS_RemoveElement DEF TypeInv, CycleShape
    <3> QED
      BY <3>1, <3>2 DEF TypeInv, CycleShape
  <2>2. /\ open' \subseteq open
        /\ UNCHANGED <<disk, state, pc, cycle, todo, asset, kind, ideal, fired,
                       fills>>
    BY <1>2 DEF LateFill
  <2> QED
    BY <2>1, <2>2, QuietTypes DEF TypeInv, CycleShape, TradesCounted, cycle
<1> QED
  BY <1>1, <1>2

LEMMA AdoptTypes == ASSUME NEW a \in Asset, TypeInv, Adopt(a) PROVE TypeInv'
<1>1. /\ FileOK(disk') /\ FileOK(state') /\ ideal' \in StateRecord
      /\ disk'.trades = disk.trades /\ state'.trades = disk.trades
      /\ ideal'.trades = ideal.trades
  BY UpdateFile DEF Adopt, TypeInv, TradesCounted, FileOK
<1>2. fired' \in [Asset -> [Level -> Nat]]
  BY DEF Adopt, TypeInv, CycleShape, NoneFired
<1> QED
  BY <1>1, <1>2
  DEF Adopt, Manage, TypeInv, FileOK, CycleShape, TradesCounted, account, cycle

LEMMA NewHighTypes == ASSUME NEW a \in Asset, TypeInv, NewHigh(a) PROVE TypeInv'
BY DEF NewHigh, Manage, TypeInv, FileOK, CycleShape, TradesCounted, account,
       cycle

\* Whatever exit triggers, the flags that go with it are levels.
LEMMA FlagsAfterLevels ==
  ASSUME NEW flags \in SUBSET Level, NEW k
  PROVE  /\ FlagsAfter(flags, k) \in SUBSET Level
         /\ flags \subseteq FlagsAfter(flags, k)
         /\ k \in Level => k \in FlagsAfter(flags, k)
BY DEF FlagsAfter

LEMMA ExitTypes == ASSUME NEW a \in Asset, TypeInv, ExitTriggers(a) PROVE TypeInv'
<1>1. PICK k \in (Level \ state.flags[a]) \cup Full :
        /\ state' = SetFlags(state, a, FlagsAfter(state.flags[a], k))
        /\ disk' = SetFlags(state, a, FlagsAfter(state.flags[a], k))
        /\ ideal' = SetFlags(ideal, a, FlagsAfter(state.flags[a], k))
        /\ kind' = k
  BY DEF ExitTriggers, FlagFirst
<1>2. FlagsAfter(state.flags[a], k) \in SUBSET Level
  BY FlagsAfterLevels DEF TypeInv, FileOK, StateRecord
<1>3. /\ FileOK(disk') /\ FileOK(state') /\ ideal' \in StateRecord
      /\ disk'.trades = state.trades /\ state'.trades = state.trades
      /\ ideal'.trades = ideal.trades
  BY <1>1, <1>2, FlagsFile
  DEF ExitTriggers, TypeInv, TradesCounted, FileOK
<1> QED
  BY <1>1, <1>3
  DEF ExitTriggers, Manage, TypeInv, FileOK, CycleShape, TradesCounted, Phase,
      Busy, Exiting, account, cycle

\* Firing an exit counts it.
LEMMA FireCounts ==
  ASSUME TypeInv, pc = "exit", Fire
  PROVE  /\ asset \in Asset /\ kind \in Level \cup Full
         /\ fired' \in [Asset -> [Level -> Nat]]
         /\ kind \in Level => fired'[asset][kind] = fired[asset][kind] + 1
         /\ \A a \in Asset, l \in Level :
              a # asset \/ l # kind => fired'[a][l] = fired[a][l]
BY DEF Fire, TypeInv, CycleShape, Busy, Exiting

LEMMA SellTypes ==
  TypeInv /\ (SellFills \/ SellFails \/ SellUnconfirmed) => TypeInv'
<1> SUFFICES ASSUME TypeInv, SellFills \/ SellFails \/ SellUnconfirmed
             PROVE  TypeInv'
  OBVIOUS
<1>1. /\ asset \in Asset /\ kind \in Level \cup Full
      /\ fired' \in [Asset -> [Level -> Nat]]
  BY FireCounts DEF SellFills, SellFails, SellUnconfirmed
<1>2. CASE SellFills
  <2>1. held' \subseteq Asset /\ IsFiniteSet(held')
    BY <1>2, FS_RemoveElement DEF SellFills, TypeInv, CycleShape
  <2>2. fills' \in 0 .. MaxFills
    BY <1>2, CycleAssumption DEF SellFills, TypeInv, CycleShape
  <2> QED
    BY <1>1, <1>2, <2>1, <2>2
    DEF SellFills, TypeInv, FileOK, CycleShape, TradesCounted, Phase, Busy,
        Exiting, cycle
<1>3. CASE SellFails
  BY <1>1, <1>3
  DEF SellFails, NextHolding, TypeInv, FileOK, CycleShape, TradesCounted,
      Phase, Busy, Exiting, account, cycle
<1>4. CASE SellUnconfirmed
  BY <1>1, <1>4
  DEF SellUnconfirmed, PendingIsLeft, NextHolding, TypeInv, FileOK, CycleShape,
      TradesCounted, Phase, Busy, Exiting, cycle
<1> QED
  BY <1>2, <1>3, <1>4

LEMMA RecordTradeTypes == TypeInv /\ RecordTrade => TypeInv'
<1> SUFFICES ASSUME TypeInv, RecordTrade PROVE TypeInv'
  OBVIOUS
<1>1. disk.trades < MaxFills /\ ideal.trades < MaxFills
  BY CycleAssumption
  DEF RecordTrade, TypeInv, TradesCounted, FileOK, StateRecord
<1>2. /\ FileOK(disk') /\ ideal' \in StateRecord
      /\ disk'.trades = disk.trades + 1 /\ ideal'.trades = ideal.trades + 1
  BY <1>1, TradeFile DEF RecordTrade, TypeInv, TradesCounted, FileOK
<1>3. /\ disk.trades \in Nat /\ ideal.trades \in Nat /\ state.trades \in Nat
      /\ asset \in Asset /\ kind \in Level \cup Full
  BY DEF RecordTrade, TypeInv, TradesCounted, FileOK, StateRecord, CycleShape,
         Busy, Exiting
<1>4. disk'.trades <= ideal'.trades /\ state.trades <= ideal'.trades
  BY <1>2, <1>3 DEF TypeInv, TradesCounted
<1>5. /\ pc' \in {"stopout", "clear", "sell"}
      /\ pc' # "sell" => kind \in Full /\ UNCHANGED <<asset, kind>>
      /\ pc' = "sell" => asset' = NoAsset /\ kind' = "none"
  BY DEF RecordTrade, NextHolding, Full
<1> QED
  BY <1>2, <1>3, <1>4, <1>5
  DEF RecordTrade, TypeInv, FileOK, CycleShape, TradesCounted, Phase, Busy,
      Exiting, account, cycle

LEMMA StopoutTypes == TypeInv /\ RecordStopout => TypeInv'
<1> SUFFICES ASSUME TypeInv, RecordStopout PROVE TypeInv'
  OBVIOUS
<1>1. asset \in Asset
  BY DEF RecordStopout, TypeInv, CycleShape, Busy
<1>2. /\ FileOK(disk') /\ ideal' \in StateRecord
      /\ disk'.trades = disk.trades /\ ideal'.trades = ideal.trades
  BY <1>1, StopFile DEF RecordStopout, TypeInv, TradesCounted, FileOK
<1> QED
  BY <1>2
  DEF RecordStopout, TypeInv, FileOK, CycleShape, TradesCounted, Phase, Busy,
      Exiting, account, cycle

LEMMA ClearTypes == TypeInv /\ ClearEntry => TypeInv'
<1> SUFFICES ASSUME TypeInv, ClearEntry PROVE TypeInv'
  OBVIOUS
<1>1. asset \in Asset
  BY DEF ClearEntry, TypeInv, CycleShape, Busy
<1>2. /\ FileOK(disk') /\ FileOK(state') /\ ideal' \in StateRecord
      /\ disk'.trades = disk.trades /\ state'.trades = disk.trades
      /\ ideal'.trades = ideal.trades
  BY <1>1, ClearFile
  DEF ClearEntry, Reload, TypeInv, TradesCounted, FileOK
<1>3. fired' \in [Asset -> [Level -> Nat]]
  BY DEF ClearEntry, TypeInv, CycleShape, NoneFired
<1> QED
  BY <1>2, <1>3
  DEF ClearEntry, NextHolding, TypeInv, FileOK, CycleShape, TradesCounted,
      Phase, Busy, Exiting, account, cycle

LEMMA CrashTypes == TypeInv /\ Crash => TypeInv'
<1> SUFFICES ASSUME TypeInv, Crash PROVE TypeInv'
  OBVIOUS
<1>1. FileOK(state') /\ state'.trades = 0
  BY BlankFile DEF Crash
<1>2. 0 <= ideal.trades
  BY DEF TypeInv, TradesCounted, StateRecord
<1> QED
  BY <1>1, <1>2
  DEF Crash, EndCycle, TypeInv, FileOK, CycleShape, TradesCounted, Phase, Busy,
      Exiting, account

LEMMA CooldownTypes ==
  ASSUME NEW a \in Asset, TypeInv, CooldownEnds(a) PROVE TypeInv'
<1>1. /\ FileOK(disk') /\ FileOK(state') /\ ideal' \in StateRecord
      /\ disk'.trades = disk.trades /\ state'.trades = state.trades
      /\ ideal'.trades = ideal.trades
  BY CooldownFile DEF CooldownEnds, TypeInv, TradesCounted, FileOK
<1> QED
  BY <1>1
  DEF CooldownEnds, TypeInv, FileOK, CycleShape, TradesCounted, account, cycle

LEMMA TypeStep == TypeInv /\ [Next]_vars => TypeInv'
<1> SUFFICES ASSUME TypeInv, [Next]_vars PROVE TypeInv'
  OBVIOUS
<1>1. CASE \/ Reconcile \/ SkipCycle \/ CheckBreakers \/ EndReset
           \/ RecordBuy \/ EndBuys
  BY <1>1, ReconcileTypes, QuietStepTypes, BreakerTypes, RecordBuyTypes
<1>2. CASE \/ SellFills \/ SellFails \/ SellUnconfirmed
           \/ RecordTrade \/ RecordStopout \/ ClearEntry \/ EndSells \/ Crash
  BY <1>2, SellTypes, RecordTradeTypes, StopoutTypes, ClearTypes,
     QuietStepTypes, CrashTypes
<1>3. CASE \E a \in Asset :
             \/ Reset(a) \/ PassOver(a) \/ BuyFills(a) \/ BuyUnconfirmed(a)
             \/ LeaveAlone(a) \/ Adopt(a) \/ NewHigh(a) \/ ExitTriggers(a)
             \/ CooldownEnds(a) \/ LateFill(a)
  BY <1>3, ResetTypes, PassTypes, BuyTypes, AdoptTypes, NewHighTypes,
     ExitTypes, CooldownTypes
<1>4. CASE UNCHANGED vars
  BY <1>4, QuietTypes
  DEF vars, account, cycle, TypeInv, CycleShape, TradesCounted
<1> QED
  BY <1>1, <1>2, <1>3, <1>4 DEF Next

\* The values each variable takes, and that no copy of the file has take-profit
\* flags without an entry: clear_entry_price pops both, and check_exit only
\* marks a position the snapshot has an entry for.
THEOREM TypeCorrect == Spec => []TypeOK
<1>1. TypeInv => TypeOK
  BY DEF TypeInv, FileOK, StateRecord, CycleShape, Phase, TypeOK, StateFile
<1> QED
  BY <1>1, TypeInit, TypeStep, PTL DEF Spec

------------------------------------------------------------------------------
(* Profit levels fire once *)

\* The first half of FlagInv, for one level of one asset.
FlagCovers(a, l) ==
  /\ fired[a][l] <= 1
  /\ fired[a][l] = 1 => l \in disk.flags[a]
  /\ fired[a][l] = 1 /\ pc # "idle" => l \in state.flags[a]

LEMMA FlagInit == Init => FlagInv
BY BlankFile DEF Init, FlagInv, NoneFired

\* A step that changes no flag and fires nothing.
LEMMA QuietFlags ==
  ASSUME FlagInv, disk'.flags = disk.flags, state'.flags = state.flags,
         UNCHANGED fired, pc # "idle" \/ pc' = pc, pc' # "exit"
  PROVE  FlagInv'
BY DEF FlagInv

\* A step that leaves no exit in hand has only to cover what fired.
LEMMA CoveredFlags ==
  ASSUME pc' # "exit", \A a \in Asset, l \in Level : FlagCovers(a, l)'
  PROVE  FlagInv'
BY DEF FlagInv, FlagCovers

LEMMA QuietStepFlags ==
  ASSUME TypeInv, FlagInv,
         \/ SkipCycle \/ CheckBreakers \/ EndReset \/ EndBuys \/ EndSells
         \/ RecordTrade \/ RecordStopout
  PROVE  FlagInv'
<1>1. CASE CheckBreakers
  <2>1. PICK p \in Peak : disk' = save_peak_value(disk, p)
    BY <1>1 DEF CheckBreakers
  <2>2. disk'.flags = disk.flags
    BY <2>1, PeakFile DEF TypeInv, FileOK
  <2> QED
    BY <1>1, <2>2, QuietFlags DEF CheckBreakers
<1>2. CASE RecordTrade
  <2>1. disk.trades < MaxFills
    BY <1>2, CycleAssumption
    DEF RecordTrade, TypeInv, TradesCounted, FileOK, StateRecord
  <2>2. disk'.flags = disk.flags
    BY <1>2, <2>1, TradeFile DEF RecordTrade, TypeInv, FileOK
  <2>3. pc' \in {"stopout", "clear", "sell"}
    BY <1>2 DEF RecordTrade, NextHolding
  <2> QED
    BY <1>2, <2>2, <2>3, QuietFlags DEF RecordTrade
<1>3. CASE RecordStopout
  <2>1. disk'.flags = disk.flags
    BY <1>3, StopFile DEF RecordStopout, TypeInv, FileOK, CycleShape, Busy
  <2> QED
    BY <1>3, <2>1, QuietFlags DEF RecordStopout
<1>4. CASE SkipCycle \/ EndReset \/ EndBuys \/ EndSells
  BY <1>4, QuietFlags DEF SkipCycle, EndReset, EndBuys, EndSells, EndCycle
<1> QED
  BY <1>1, <1>2, <1>3, <1>4

LEMMA PassFlags ==
  ASSUME NEW a \in Asset, FlagInv,
         PassOver(a) \/ BuyFills(a) \/ BuyUnconfirmed(a) \/ LeaveAlone(a)
  PROVE  FlagInv'
BY QuietFlags DEF PassOver, BuyFills, BuyUnconfirmed, LeaveAlone, Manage

LEMMA OutsideFlags ==
  ASSUME NEW a \in Asset, TypeInv, FlagInv, CooldownEnds(a) \/ LateFill(a)
  PROVE  FlagInv'
<1>1. disk'.flags = disk.flags /\ state'.flags = state.flags
  BY CooldownFile DEF CooldownEnds, LateFill, TypeInv, FileOK
<1>2. UNCHANGED <<fired, pc, kind, asset>>
  BY DEF CooldownEnds, LateFill
<1> QED
  BY <1>1, <1>2 DEF FlagInv

LEMMA ReconcileFlags == TypeInv /\ FlagInv /\ Reconcile => FlagInv'
<1> SUFFICES ASSUME TypeInv, FlagInv, Reconcile,
                    NEW a \in Asset, NEW l \in Level
             PROVE  FlagCovers(a, l)'
  BY CoveredFlags DEF Reconcile
<1>1. CASE a \in seen'
  <2>1. disk'.flags[a] = disk.flags[a] /\ state' = disk'
    BY <1>1, ClearFile DEF Reconcile, TypeInv, FileOK
  <2>2. fired'[a] = fired[a]
    BY <1>1 DEF Reconcile
  <2> QED
    BY <2>1, <2>2 DEF FlagInv, FlagCovers
<1>2. CASE a \notin seen'
  BY <1>2 DEF Reconcile, NoneFired, FlagCovers
<1> QED
  BY <1>1, <1>2

LEMMA ResetFlags ==
  ASSUME NEW a \in Asset, TypeInv, FlagInv, Reset(a) PROVE FlagInv'
<1> SUFFICES ASSUME NEW b \in Asset, NEW l \in Level PROVE FlagCovers(b, l)'
  BY CoveredFlags DEF Reset
<1>1. CASE b = a
  BY <1>1 DEF Reset, NoneFired, FlagCovers, TypeInv, CycleShape
<1>2. CASE b # a
  <2>1. disk'.flags[b] = disk.flags[b]
    BY <1>2, ClearFile DEF Reset, TypeInv, FileOK
  <2>2. fired'[b] = fired[b] /\ UNCHANGED <<state, pc>>
    BY <1>2 DEF Reset, cycle, TypeInv, CycleShape
  <2> QED
    BY <2>1, <2>2 DEF FlagInv, FlagCovers
<1> QED
  BY <1>1, <1>2

\* A purchase the file knows keeps the flags; any other starts again.
LEMMA RecordBuyFlags == TypeInv /\ FlagInv /\ RecordBuy => FlagInv'
<1> SUFFICES ASSUME TypeInv, FlagInv, RecordBuy,
                    NEW b \in Asset, NEW l \in Level
             PROVE  FlagCovers(b, l)'
  BY CoveredFlags DEF RecordBuy
<1>1. asset \in Asset /\ pc # "idle" /\ UNCHANGED state
  BY DEF RecordBuy, TypeInv, CycleShape, Busy
<1>2. CASE disk.entry[asset] /\ asset \in seen
  <2>1. disk' = disk /\ fired' = fired
    BY <1>2 DEF RecordBuy, update_entry_price
  <2> QED
    BY <1>1, <2>1 DEF FlagInv, FlagCovers
<1>3. CASE ~(disk.entry[asset] /\ asset \in seen)
  <2>1. disk' = [disk EXCEPT !.entry[asset] = TRUE, !.flags[asset] = {}]
    BY <1>3 DEF RecordBuy, update_entry_price
  <2>2. fired' = [fired EXCEPT ![asset] = NoneFired]
    BY <1>3 DEF RecordBuy
  <2>3. CASE b = asset
    BY <2>2, <2>3, <1>1 DEF NoneFired, FlagCovers, TypeInv, CycleShape
  <2>4. CASE b # asset
    <3>1. disk'.flags[b] = disk.flags[b] /\ fired'[b] = fired[b]
      BY <1>1, <2>1, <2>2, <2>4
      DEF TypeInv, FileOK, StateRecord, CycleShape
    <3> QED
      BY <1>1, <3>1 DEF FlagInv, FlagCovers
  <2> QED
    BY <2>3, <2>4
<1> QED
  BY <1>2, <1>3

\* The snapshot that is adopted or cleared is the file as just written.
LEMMA ReloadFlags ==
  ASSUME NEW a \in Asset, TypeInv, FlagInv,
         Adopt(a) \/ (ClearEntry /\ a = asset)
  PROVE  FlagInv'
<1> SUFFICES ASSUME NEW b \in Asset, NEW l \in Level PROVE FlagCovers(b, l)'
  BY CoveredFlags DEF Adopt, ClearEntry, NextHolding, Manage
<1>1. /\ state' = disk'
      /\ fired' = [fired EXCEPT ![a] = NoneFired]
  BY DEF Adopt, ClearEntry, Reload
<1>2. CASE b = a
  BY <1>1, <1>2 DEF NoneFired, FlagCovers, TypeInv, CycleShape
<1>3. CASE b # a
  <2>1. disk'.flags[b] = disk.flags[b]
    <3>1. \/ disk' = update_entry_price(disk, a, FALSE)
          \/ disk' = clear_entry_prices(disk, {a})
      BY DEF Adopt, ClearEntry
    <3>2. disk \in StateRecord /\ {a} \in SUBSET Asset /\ FALSE \in BOOLEAN
          /\ b \in Asset \ {a}
      BY <1>3 DEF TypeInv, FileOK
    <3>3. update_entry_price(disk, a, FALSE).flags[b] = disk.flags[b]
      BY <3>2, UpdateFile
    <3>4. clear_entry_prices(disk, {a}).flags[b] = disk.flags[b]
      BY <3>2, ClearFile
    <3> QED
      BY <3>1, <3>3, <3>4
  <2>2. fired'[b] = fired[b]
    BY <1>1, <1>3 DEF TypeInv, CycleShape
  <2> QED
    BY <1>1, <2>1, <2>2 DEF FlagInv, FlagCovers
<1> QED
  BY <1>2, <1>3

\* The snapshot that is saved has every flag the file has to have.
LEMMA NewHighFlags ==
  ASSUME NEW a \in Asset, TypeInv, FlagInv, NewHigh(a) PROVE FlagInv'
BY DEF NewHigh, Manage, FlagInv

LEMMA ExitFlags ==
  ASSUME NEW a \in Asset, TypeInv, FlagInv, ExitTriggers(a) PROVE FlagInv'
<1>1. PICK k \in (Level \ state.flags[a]) \cup Full :
        /\ state' = SetFlags(state, a, FlagsAfter(state.flags[a], k))
        /\ disk' = SetFlags(state, a, FlagsAfter(state.flags[a], k))
        /\ kind' = k
  BY DEF ExitTriggers, FlagFirst
<1>2. /\ FlagsAfter(state.flags[a], k) \in SUBSET Level
      /\ state.flags[a] \subseteq FlagsAfter(state.flags[a], k)
      /\ k \in Level => k \in FlagsAfter(state.flags[a], k)
  BY FlagsAfterLevels DEF TypeInv, FileOK, StateRecord
<1>3. /\ state'.flags[a] = FlagsAfter(state.flags[a], k)
      /\ \A b \in Asset \ {a} : state'.flags[b] = state.flags[b]
      /\ disk' = state'
  BY <1>1, <1>2, FlagsFile DEF TypeInv, FileOK
<1>4. pc = "sell" /\ asset' = a /\ UNCHANGED fired
  BY DEF ExitTriggers, Manage
<1>5. \A b \in Asset, l \in Level : FlagCovers(b, l)'
  BY <1>2, <1>3, <1>4 DEF FlagInv, FlagCovers
<1>6. k \in Level =>
        fired[a][k] = 0 /\ k \in disk'.flags[a] \cap state'.flags[a]
  <2> SUFFICES ASSUME k \in Level
               PROVE  fired[a][k] = 0 /\ k \in disk'.flags[a] \cap state'.flags[a]
    OBVIOUS
  <2>1. k \notin state.flags[a]
    BY <1>1, CycleAssumption DEF Full
  <2>2. fired[a][k] \in Nat /\ fired[a][k] <= 1 /\ fired[a][k] # 1
    BY <1>4, <2>1 DEF FlagInv, TypeInv, CycleShape
  <2> QED
    BY <1>2, <1>3, <2>2
<1> QED
  BY <1>1, <1>4, <1>5, <1>6 DEF FlagInv, FlagCovers

LEMMA SellFlags ==
  TypeInv /\ FlagInv /\ (SellFills \/ SellFails \/ SellUnconfirmed) => FlagInv'
<1> SUFFICES ASSUME TypeInv, FlagInv,
                    SellFills \/ SellFails \/ SellUnconfirmed,
                    NEW b \in Asset, NEW l \in Level
             PROVE  FlagCovers(b, l)'
  BY CoveredFlags
  DEF SellFills, SellFails, SellUnconfirmed, PendingIsLeft, NextHolding
<1>1. pc = "exit" /\ Fire /\ UNCHANGED <<disk, state>>
  BY DEF SellFills, SellFails, SellUnconfirmed
<1>2. CASE b = asset /\ l = kind
  <2>1. fired'[b][l] = 1
    BY <1>1, <1>2, FireCounts DEF FlagInv
  <2> QED
    BY <1>1, <1>2, <2>1 DEF FlagInv, FlagCovers
<1>3. CASE ~(b = asset /\ l = kind)
  <2>1. fired'[b][l] = fired[b][l]
    BY <1>1, <1>3, FireCounts
  <2> QED
    BY <1>1, <2>1 DEF FlagInv, FlagCovers
<1> QED
  BY <1>2, <1>3

LEMMA CrashFlags == FlagInv /\ Crash => FlagInv'
BY DEF FlagInv, Crash, EndCycle

LEMMA FlagStep == TypeInv /\ FlagInv /\ [Next]_vars => FlagInv'
<1> SUFFICES ASSUME TypeInv, FlagInv, [Next]_vars PROVE FlagInv'
  OBVIOUS
<1>1. CASE Reconcile \/ RecordBuy \/ SellFills \/ SellFails \/ SellUnconfirmed
           \/ Crash
  BY <1>1, ReconcileFlags, RecordBuyFlags, SellFlags, CrashFlags
<1>2. CASE SkipCycle \/ CheckBreakers \/ EndReset \/ EndBuys \/ EndSells
           \/ RecordTrade \/ RecordStopout
  BY <1>2, QuietStepFlags
<1>3. CASE ClearEntry
  BY <1>3, ReloadFlags DEF ClearEntry, TypeInv, CycleShape, Busy
<1>4. CASE \E a \in Asset :
             \/ Reset(a) \/ PassOver(a) \/ BuyFills(a) \/ BuyUnconfirmed(a)
             \/ LeaveAlone(a) \/ Adopt(a) \/ NewHigh(a) \/ ExitTriggers(a)
             \/ CooldownEnds(a) \/ LateFill(a)
  BY <1>4, ResetFlags, PassFlags, ReloadFlags, NewHighFlags, ExitFlags,
     OutsideFlags
<1>5. CASE UNCHANGED vars
  BY <1>5 DEF vars, FlagInv
<1> QED
  BY <1>1, <1>2, <1>3, <1>4, <1>5 DEF Next

\* A take-profit level is ordered once per entry, however often the process
\* dies: check_exit's flags are saved before anything is ordered, and every
\* snapshot that is saved later has them.
THEOREM ProfitTakenOnce == Spec => []TakesProfitOnce
<1>1. TypeInv /\ FlagInv => TakesProfitOnce
  BY DEF FlagInv, TakesProfitOnce
<1> QED
  BY <1>1, TypeInit, TypeStep, FlagInit, FlagStep, PTL DEF Spec

------------------------------------------------------------------------------
(* Booked sales *)

LEMMA BookInit == Init => BookInv
BY BlankFile, CycleAssumption DEF Init, BookInv

\* A step that neither fills nor books, and leaves no sale to be booked.
LEMMA QuietBooks ==
  ASSUME BookInv, ideal'.trades = ideal.trades, UNCHANGED fills,
         pc' # "sold" \/ pc' = pc
  PROVE  BookInv'
BY DEF BookInv

\* Only record_trade changes the count of a copy of the file.
LEMMA CountKept ==
  ASSUME TypeInv, [Next]_vars, ~RecordTrade
  PROVE  ideal'.trades = ideal.trades
<1>1. CASE Reconcile \/ CheckBreakers \/ ClearEntry \/ RecordStopout
  <2>1. ideal \in StateRecord /\ (pc \in Busy => asset \in Asset)
    BY DEF TypeInv, TradesCounted, CycleShape
  <2>2. CASE Reconcile
    BY <2>1, <2>2, ClearFile DEF Reconcile
  <2>3. CASE CheckBreakers
    BY <2>1, <2>3, PeakFile DEF CheckBreakers
  <2>4. CASE ClearEntry
    BY <2>1, <2>4, ClearFile DEF ClearEntry, Busy
  <2>5. CASE RecordStopout
    BY <2>1, <2>5, StopFile DEF RecordStopout, Busy
  <2> QED
    BY <1>1, <2>2, <2>3, <2>4, <2>5
<1>2. CASE RecordBuy
  BY <1>2
  DEF RecordBuy, update_entry_price, TypeInv, TradesCounted, StateRecord
<1>3. CASE \/ SkipCycle \/ EndReset \/ EndBuys \/ SellFills \/ SellFails
           \/ SellUnconfirmed \/ EndSells \/ Crash \/ UNCHANGED vars
  BY <1>3
  DEF SkipCycle, EndReset, EndBuys, SellFills, SellFails, SellUnconfirmed,
      EndSells, Crash, vars
<1>4. ASSUME NEW a \in Asset,
             \/ Reset(a) \/ PassOver(a) \/ BuyFills(a) \/ BuyUnconfirmed(a)
             \/ LeaveAlone(a) \/ Adopt(a) \/ NewHigh(a) \/ ExitTriggers(a)
             \/ CooldownEnds(a) \/ LateFill(a)
      PROVE  ideal'.trades = ideal.trades
  <2>1. ideal \in StateRecord /\ {a} \in SUBSET Asset
    BY DEF TypeInv, TradesCounted
  <2>2. CASE Reset(a)
    BY <2>1, <2>2, ClearFile DEF Reset
  <2>3. CASE Adopt(a)
    BY <2>1, <2>3, UpdateFile DEF Adopt
  <2>4. CASE ExitTriggers(a)
    BY <2>4 DEF ExitTriggers, SetFlags, TypeInv, TradesCounted, StateRecord
  <2>5. CASE CooldownEnds(a)
    BY <2>1, <2>5, CooldownFile DEF CooldownEnds
  <2>6. CASE \/ PassOver(a) \/ BuyFills(a) \/ BuyUnconfirmed(a) \/ LeaveAlone(a)
             \/ NewHigh(a) \/ LateFill(a)
    BY <2>6
    DEF PassOver, BuyFills, BuyUnconfirmed, LeaveAlone, NewHigh, LateFill
  <2> QED
    BY <1>4, <2>2, <2>3, <2>4, <2>5, <2>6
<1> QED
  BY <1>1, <1>2, <1>3, <1>4 DEF Next

\* Only a sale that is told of on the way to "sold" is booked.
LEMMA SoldBySale ==
  ASSUME [Next]_vars, ~SellFills, ~SellUnconfirmed
  PROVE  /\ pc' # "sold" \/ pc' = pc
         /\ UNCHANGED fills
BY DEF Next, vars, account, cycle, Reconcile, SkipCycle, CheckBreakers,
       EndReset, EndCycle, RecordBuy, EndBuys, SellFails, NextHolding,
       RecordTrade, RecordStopout, ClearEntry, EndSells, Crash, Reset, PassOver,
       BuyFills, BuyUnconfirmed, LeaveAlone, Manage, Adopt, NewHigh,
       ExitTriggers, CooldownEnds, LateFill

LEMMA BookStep ==
  ASSUME Venue = "onchain", TypeInv, BookInv, [Next]_vars
  PROVE  BookInv'
<1>1. ideal.trades \in Nat /\ fills \in Nat
  BY DEF TypeInv, TradesCounted, StateRecord, CycleShape
<1>2. CASE RecordTrade
  <2>1. ideal.trades < MaxFills
    BY <1>2 DEF RecordTrade, TypeInv, TradesCounted
  <2>2. ideal'.trades = ideal.trades + 1
    BY <1>2, <2>1, TradeFile DEF RecordTrade, TypeInv, TradesCounted
  <2>3. pc = "sold" /\ pc' # "sold" /\ UNCHANGED fills
    BY <1>2 DEF RecordTrade, NextHolding
  <2> QED
    BY <1>1, <2>2, <2>3 DEF BookInv
<1>3. CASE SellFills
  BY <1>1, <1>3 DEF SellFills, BookInv
<1>4. CASE SellUnconfirmed
  BY <1>1, <1>4 DEF SellUnconfirmed, PendingIsLeft, NextHolding, BookInv
<1>5. CASE ~RecordTrade /\ ~SellFills /\ ~SellUnconfirmed
  BY <1>5, CountKept, SoldBySale, QuietBooks
<1> QED
  BY <1>2, <1>3, <1>4, <1>5

\* On chain no sale is booked that did not fill, retries, pending swaps and
\* crashes included: record_trade follows a receipt that says so, and a
\* snapshot that is saved over the file only forgets trades.
THEOREM SalesBookedWhenFilled ==
  ASSUME Venue = "onchain"
  PROVE  Spec => []BookedSalesFilled
<1>1. TypeInv /\ BookInv => BookedSalesFilled
  BY DEF TypeInv, TradesCounted, FileOK, StateRecord, CycleShape, BookInv,
         BookedSalesFilled
<1>2. TypeInv /\ BookInv /\ [Next]_vars => BookInv'
  BY BookStep
<1> QED
  BY <1>1, <1>2, TypeInit, TypeStep, BookInit, PTL DEF Spec

------------------------------------------------------------------------------
(* Stop-outs *)

LEMMA StopInit == Init => StopInv
BY BlankFile DEF Init, StopInv

\* A step that changes no stop-out of a copy it keeps.
LEMMA QuietStops ==
  ASSUME StopInv, disk'.stop = disk.stop, ideal'.stop = ideal.stop,
         \/ state'.stop = disk.stop
         \/ pc' \in {"idle", "clear"}
         \/ state'.stop = state.stop /\ pc \notin {"idle", "clear"}
  PROVE  StopInv'
BY DEF StopInv

\* The snapshot that is saved has every stop-out of the file.
LEMMA SavedStops ==
  ASSUME StopInv, pc \notin {"idle", "clear"},
         disk'.stop = state.stop, state'.stop = state.stop,
         ideal'.stop = ideal.stop
  PROVE  StopInv'
BY DEF StopInv

LEMMA FileStops ==
  ASSUME TypeInv, StopInv,
         \/ Reconcile \/ CheckBreakers \/ RecordBuy \/ RecordTrade \/ ClearEntry
  PROVE  StopInv'
<1>1. /\ disk \in StateRecord /\ ideal \in StateRecord
      /\ pc \in Busy => asset \in Asset
  BY DEF TypeInv, FileOK, TradesCounted, CycleShape, StopInv
<1>2. CASE Reconcile
  BY <1>1, <1>2, ClearFile, QuietStops DEF Reconcile, account
<1>3. CASE CheckBreakers
  BY <1>1, <1>3, PeakFile, QuietStops DEF CheckBreakers, account
<1>4. CASE RecordBuy
  <2>1. disk'.stop = disk.stop /\ ideal'.stop = ideal.stop
    BY <1>1, <1>4 DEF RecordBuy, update_entry_price, StateRecord
  <2> QED
    BY <1>1, <1>4, <2>1, QuietStops DEF RecordBuy, account
<1>5. CASE RecordTrade
  <2>1. disk.trades < MaxFills /\ ideal.trades < MaxFills
    BY <1>5, CycleAssumption
    DEF RecordTrade, TypeInv, TradesCounted, FileOK, StateRecord
  <2> QED
    BY <1>1, <1>5, <2>1, TradeFile, QuietStops DEF RecordTrade, account
<1>6. CASE ClearEntry
  <2>1. /\ clear_entry_prices(disk, {asset}).stop = disk.stop
        /\ clear_entry_prices(ideal, {asset}).stop = ideal.stop
    BY <1>1, <1>6, ClearFile DEF ClearEntry, Busy
  <2> QED
    BY <1>1, <1>6, <2>1, QuietStops DEF ClearEntry, Reload, account
<1> QED
  BY <1>2, <1>3, <1>4, <1>5, <1>6

\* A stop-out that is recorded is in the file; the snapshot without it is
\* loaded again before it can be saved.
LEMMA RecordStopoutStops == TypeInv /\ StopInv /\ RecordStopout => StopInv'
<1> SUFFICES ASSUME TypeInv, StopInv, RecordStopout PROVE StopInv'
  OBVIOUS
<1>1. /\ disk \in StateRecord /\ ideal \in StateRecord /\ asset \in Asset
      /\ disk' = record_stopout(disk, asset)
      /\ ideal' = record_stopout(ideal, asset)
  BY DEF TypeInv, FileOK, TradesCounted, CycleShape, Busy, RecordStopout
<1>2. disk'.stop[asset]
  BY <1>1, StopFile
<1>3. ASSUME NEW b \in Asset, b # asset
      PROVE  (disk'.stop[b] <=> disk.stop[b]) /\ (ideal'.stop[b] <=> ideal.stop[b])
  BY <1>1, <1>3, StopFile
<1>4. pc' = "clear"
  BY DEF RecordStopout
<1> QED
  BY <1>2, <1>3, <1>4 DEF StopInv

LEMMA QuietStepStops ==
  ASSUME StopInv,
         \/ SkipCycle \/ EndReset \/ EndBuys \/ SellFills \/ SellFails
         \/ EndSells \/ Crash
  PROVE  StopInv'
BY QuietStops
DEF SkipCycle, EndReset, EndCycle, EndBuys, SellFills, SellFails, NextHolding,
    EndSells, Crash, account, StopInv

LEMMA UnconfirmedStops ==
  ASSUME StopInv, SellUnconfirmed
  PROVE  StopInv'
BY QuietStops
DEF SellUnconfirmed, PendingIsLeft, NextHolding, StopInv

LEMMA AssetStops ==
  ASSUME TypeInv, StopInv, NEW a \in Asset,
         \/ Reset(a) \/ PassOver(a) \/ BuyFills(a) \/ BuyUnconfirmed(a)
         \/ LeaveAlone(a) \/ Adopt(a) \/ NewHigh(a) \/ ExitTriggers(a)
         \/ CooldownEnds(a) \/ LateFill(a)
  PROVE  StopInv'
<1>1. /\ disk \in StateRecord /\ ideal \in StateRecord /\ state \in StateRecord
      /\ {a} \in SUBSET Asset
  BY DEF TypeInv, FileOK, TradesCounted, StopInv
<1>2. CASE Reset(a)
  BY <1>1, <1>2, ClearFile, QuietStops DEF Reset
<1>3. CASE PassOver(a) \/ BuyFills(a) \/ LeaveAlone(a)
  BY <1>1, <1>3, QuietStops DEF PassOver, BuyFills, LeaveAlone, Manage, account
<1>4. CASE BuyUnconfirmed(a) \/ LateFill(a)
  BY <1>1, <1>4, QuietStops DEF BuyUnconfirmed, LateFill
<1>5. CASE Adopt(a)
  <2>1. disk'.stop = disk.stop /\ ideal'.stop = ideal.stop /\ state' = disk'
    BY <1>1, <1>5, UpdateFile DEF Adopt
  <2> QED
    BY <1>1, <1>5, <2>1, QuietStops DEF Adopt, account
<1>6. CASE NewHigh(a)
  BY <1>1, <1>6, SavedStops DEF NewHigh, Manage, account
<1>7. CASE ExitTriggers(a)
  <2>1. /\ disk'.stop = state.stop /\ state'.stop = state.stop
        /\ ideal'.stop = ideal.stop
    BY <1>1, <1>7 DEF ExitTriggers, FlagFirst, SetFlags, StateRecord
  <2> QED
    BY <1>1, <1>7, <2>1, SavedStops DEF ExitTriggers, Manage, account
<1>8. CASE CooldownEnds(a)
  <2>1. /\ disk' = [disk EXCEPT !.stop[a] = FALSE]
        /\ state' = [state EXCEPT !.stop[a] = FALSE]
        /\ ideal' = [ideal EXCEPT !.stop[a] = FALSE]
        /\ pc' = pc
    BY <1>1, <1>8 DEF CooldownEnds, account
  <2>2. ASSUME NEW b \in Asset
        PROVE  /\ ideal'.stop[b] => disk'.stop[b]
               /\ ideal'.stop[b] /\ pc \notin {"idle", "clear"} => state'.stop[b]
    <3>1. CASE b = a
      BY <1>1, <2>1, <3>1, CooldownFile
    <3>2. CASE b # a
      <4>1. /\ ideal'.stop[b] <=> ideal.stop[b]
            /\ disk'.stop[b] <=> disk.stop[b]
            /\ state'.stop[b] <=> state.stop[b]
        BY <1>1, <2>1, <3>2, CooldownFile
      <4> QED
        BY <4>1 DEF StopInv
    <3> QED
      BY <3>1, <3>2
  <2> QED
    BY <2>1, <2>2 DEF StopInv
<1> QED
  BY <1>2, <1>3, <1>4, <1>5, <1>6, <1>7, <1>8

LEMMA StopStep ==
  ASSUME TypeInv, StopInv, [Next]_vars
  PROVE  StopInv'
<1>1. CASE UNCHANGED vars
  BY <1>1 DEF vars, account, StopInv
<1> QED
  BY <1>1, FileStops, RecordStopoutStops, QuietStepStops, UnconfirmedStops,
     AssetStops DEF Next

\* What the account comes to hold, it bought within CanBuy or by a late fill.
LEMMA HeldByBuying ==
  ASSUME TypeInv, [Next]_vars, NEW a \in held' \ held
  PROVE  BuyFills(a) \/ BuyUnconfirmed(a) \/ LateFill(a)
<1>1. ASSUME NEW b \in Asset, BuyFills(b) \/ BuyUnconfirmed(b) \/ LateFill(b)
      PROVE  BuyFills(a) \/ BuyUnconfirmed(a) \/ LateFill(a)
  <2>1. a = b
    BY <1>1 DEF BuyFills, BuyUnconfirmed, LateFill, GetsUnseen
  <2> QED
    BY <1>1, <2>1
<1>2. CASE ~(\E b \in Asset : BuyFills(b) \/ BuyUnconfirmed(b) \/ LateFill(b))
  <2>1. held' \subseteq held
    BY <1>2
    DEF Next, vars, account, Reconcile, SkipCycle, CheckBreakers, EndReset,
        RecordBuy, EndBuys, SellFills, SellFails, SellUnconfirmed, RecordTrade,
        RecordStopout, ClearEntry, EndSells, Crash, Reset, PassOver,
        LeaveAlone, Adopt, NewHigh, ExitTriggers, CooldownEnds
  <2> QED
    BY <2>1
<1> QED
  BY <1>1, <1>2

\* An asset that was stopped out is not ordered again before its cooldown is
\* over: record_stopout reaches the file before anything else is saved, the
\* snapshot without it is loaded again, and can_buy reads the file.  What an
\* order left open before brings in afterwards is all that can still come.
THEOREM StoppedOutStaysOut == Spec => NoReentry
<1>1. TypeInv /\ StopInv /\ [Next]_vars
        => [\A a \in held' \ held :
              ideal.stop[a] => <<a, "BUY">> \in open \ open']_vars
  <2> SUFFICES ASSUME TypeInv, StopInv, [Next]_vars, NEW a \in held' \ held,
                      ideal.stop[a]
               PROVE  <<a, "BUY">> \in open \ open'
    OBVIOUS
  <2>1. a \in Asset
    BY TypeStep DEF TypeInv, CycleShape
  <2>2. ~BuyFills(a) /\ ~BuyUnconfirmed(a)
    BY <2>1 DEF BuyFills, BuyUnconfirmed, CanBuy, StopInv
  <2>3. LateFill(a)
    BY <2>2, HeldByBuying
  <2> QED
    BY <2>3 DEF LateFill
<1>2. TypeInv /\ StopInv /\ [Next]_vars => StopInv'
  BY StopStep
<1> QED
  BY <1>1, <1>2, TypeInit, TypeStep, StopInit, PTL DEF Spec, NoReentry

------------------------------------------------------------------------------
(* The position cap *)

\* What CapInv compares is finite, and so is whatever lies within it.
LEMMA FewerHeld ==
  ASSUME NEW S, NEW T, IsFiniteSet(T), S \subseteq T, NEW n \in Nat,
         Cardinality(T) <= n
  PROVE  Cardinality(S) <= n
<1>1. IsFiniteSet(S) /\ Cardinality(S) <= Cardinality(T)
  BY FS_Subset
<1>2. Cardinality(S) \in Nat /\ Cardinality(T) \in Nat
  BY <1>1, FS_CardinalityType
<1> QED
  BY <1>1, <1>2

LEMMA FiniteHoldings ==
  ASSUME TypeInv
  PROVE  /\ IsFiniteSet(held \ missed)
         /\ IsFiniteSet(seen) => /\ IsFiniteSet((held \cup seen) \ missed)
                                 /\ IsFiniteSet((held \ missed) \cup seen)
<1>1. IsFiniteSet(held)
  BY DEF TypeInv, CycleShape
<1>2. ASSUME IsFiniteSet(seen)
      PROVE  IsFiniteSet(held \cup seen)
  BY <1>1, <1>2, FS_Union
<1> QED
  BY <1>1, <1>2, FS_Subset

LEMMA CapInit == Init => CapInv
<1> SUFFICES ASSUME Init PROVE CapInv
  OBVIOUS
<1>1. held \ missed = {} /\ pc \notin Counting
  BY DEF Init, Counting
<1> QED
  BY <1>1, FS_EmptySet, CycleAssumption DEF CapInv

\* A step that brings in nothing but what comes unseen, and counts nothing new.
LEMMA QuietCap ==
  ASSUME TypeInv, CapInv, held' \ missed' \subseteq held \ missed,
         missed \subseteq missed',
         \/ pc' \notin Counting
         \/ UNCHANGED <<seen, positions, asset, pc>>
  PROVE  CapInv'
<1>1. Cardinality(held' \ missed') <= MaxPositions
  BY FewerHeld, FiniteHoldings, CycleAssumption DEF CapInv
<1>2. CASE pc' \notin Counting
  BY <1>1, <1>2 DEF CapInv, Counting
<1>3. CASE UNCHANGED <<seen, positions, asset, pc>> /\ pc \in Counting
  <2>1. /\ IsFiniteSet(seen)
        /\ Cardinality((held \cup seen) \ missed) <= MaxPositions
        /\ Cardinality((held \ missed) \cup seen)
             <= IF pc = "bought" THEN Counted ELSE positions
    BY <1>3 DEF CapInv
  <2>2. /\ (held' \cup seen) \ missed' \subseteq (held \cup seen) \ missed
        /\ (held' \ missed') \cup seen \subseteq (held \ missed) \cup seen
    OBVIOUS
  <2>3. (IF pc = "bought" THEN Counted ELSE positions) \in Nat
    BY DEF Counted, TypeInv, CycleShape
  <2>4. Cardinality((held' \cup seen) \ missed') <= MaxPositions
    BY <2>1, <2>2, FewerHeld, FiniteHoldings, CycleAssumption
  <2>5. Cardinality((held' \ missed') \cup seen)
          <= IF pc = "bought" THEN Counted ELSE positions
    BY <2>1, <2>2, <2>3, FewerHeld, FiniteHoldings
  <2> QED
    BY <1>1, <1>3, <2>1, <2>4, <2>5 DEF CapInv, Counted
<1> QED
  BY <1>2, <1>3

\* The balances of Coinbase are all there, and the position count starts there.
LEMMA ReconcileCap ==
  ASSUME Venue = "coinbase", "balance" \notin Faults, TypeInv, CapInv, Reconcile
  PROVE  CapInv'
<1>1. seen' = held /\ held' = held /\ positions' = Cardinality(held)
  BY DEF Reconcile, get_balances, TypeInv, CycleShape
<1>2. /\ IsFiniteSet(held) /\ Cardinality(held) \in Nat
      /\ pc' = "check"
  BY FS_CardinalityType DEF TypeInv, CycleShape, Reconcile
<1>3. Cardinality(held \ missed') <= MaxPositions
  <2>1. CASE Cardinality(held) <= MaxPositions
    BY <1>2, <2>1, FewerHeld, CycleAssumption
  <2>2. CASE ~(Cardinality(held) <= MaxPositions)
    BY <2>2 DEF Reconcile, CapInv
  <2> QED
    BY <2>1, <2>2
<1>4. /\ (held' \cup seen') \ missed' = held \ missed'
      /\ (held' \ missed') \cup seen' = held
  BY <1>1
<1> QED
  BY <1>1, <1>2, <1>3, <1>4 DEF CapInv

\* A purchase within the cap; RecordBuy then counts it.
LEMMA BuyCap ==
  ASSUME TypeInv, CapInv, NEW a \in Asset, BuyFills(a)
  PROVE  CapInv'
<1>1. /\ IsFiniteSet(seen)
      /\ Cardinality((held \cup seen) \ missed) <= MaxPositions
      /\ Cardinality((held \ missed) \cup seen) <= positions
      /\ positions < MaxPositions \/ a \in seen
      /\ pc' = "bought" /\ asset' = a /\ held' = held \cup {a}
      /\ UNCHANGED <<missed, seen, positions>>
  BY DEF CapInv, Counting, BuyFills, CanBuy, cycle
<1>2. /\ positions \in Nat /\ MaxPositions \in Nat
      /\ IsFiniteSet((held \cup seen) \ missed)
      /\ IsFiniteSet((held \ missed) \cup seen)
  BY <1>1, FiniteHoldings, CycleAssumption DEF TypeInv, CycleShape
<1>3. Counted' = IF a \in seen THEN positions ELSE positions + 1
  BY <1>1 DEF Counted
<1>4. CASE a \in seen
  <2>1. /\ held' \ missed' \subseteq (held \cup seen) \ missed
        /\ (held' \cup seen) \ missed' = (held \cup seen) \ missed
        /\ (held' \ missed') \cup seen = (held \ missed) \cup seen
    BY <1>1, <1>4
  <2>2. Cardinality(held' \ missed') <= MaxPositions
    BY <1>1, <1>2, <2>1, FewerHeld
  <2> QED
    BY <1>1, <1>3, <1>4, <2>1, <2>2 DEF CapInv
<1>5. CASE a \notin seen
  <2> DEFINE More == ((held \ missed) \cup seen) \cup {a}
  <2>1. /\ held' \ missed' \subseteq More
        /\ (held' \cup seen) \ missed' \subseteq More
        /\ (held' \ missed') \cup seen \subseteq More
    BY <1>1
  <2>2. IsFiniteSet(More) /\ Cardinality(More) <= positions + 1
    <3>1. /\ IsFiniteSet(More)
          /\ \/ Cardinality(More) = Cardinality((held \ missed) \cup seen)
             \/ Cardinality(More) = Cardinality((held \ missed) \cup seen) + 1
      BY <1>2, FS_AddElement
    <3>2. Cardinality((held \ missed) \cup seen) \in Nat
      BY <1>2, FS_CardinalityType
    <3> QED
      BY <1>1, <1>2, <3>1, <3>2
  <2>3. Cardinality(More) <= MaxPositions
    <3>1. Cardinality(More) \in Nat
      BY <2>2, FS_CardinalityType
    <3> QED
      BY <1>1, <1>2, <1>5, <2>2, <3>1
  <2> HIDE DEF More
  <2>4. /\ Cardinality(held' \ missed') <= MaxPositions
        /\ Cardinality((held' \cup seen) \ missed') <= MaxPositions
        /\ Cardinality((held' \ missed') \cup seen) <= positions + 1
    BY <1>2, <2>1, <2>2, <2>3, FewerHeld
  <2> QED
    BY <1>1, <1>3, <1>5, <2>4 DEF CapInv
<1> QED
  BY <1>4, <1>5

LEMMA RecordBuyCap ==
  ASSUME TypeInv, CapInv, RecordBuy
  PROVE  CapInv'
<1>1. pc = "bought" /\ pc' = "buy" /\ positions' = Counted
  BY DEF RecordBuy
<1>2. UNCHANGED <<held, missed, seen>>
  BY DEF RecordBuy, account
<1> QED
  BY <1>1, <1>2 DEF CapInv, Counting

LEMMA AssetCap ==
  ASSUME TypeInv, CapInv, NEW a \in Asset,
         \/ Reset(a) \/ PassOver(a) \/ BuyUnconfirmed(a) \/ LeaveAlone(a)
         \/ Adopt(a) \/ NewHigh(a) \/ ExitTriggers(a) \/ CooldownEnds(a)
         \/ LateFill(a)
  PROVE  CapInv'
<1>1. CASE Reset(a)
  BY <1>1, QuietCap DEF Reset, Counting
<1>2. CASE BuyUnconfirmed(a)
  BY <1>2, QuietCap DEF BuyUnconfirmed, GetsUnseen, cycle
<1>3. CASE LateFill(a)
  BY <1>3, QuietCap DEF LateFill, GetsUnseen, cycle
<1>4. CASE PassOver(a) \/ LeaveAlone(a) \/ Adopt(a) \/ NewHigh(a) \/ CooldownEnds(a)
  BY <1>4, QuietCap
  DEF PassOver, LeaveAlone, Adopt, NewHigh, CooldownEnds, account, cycle
<1>5. CASE ExitTriggers(a)
  BY <1>5, QuietCap DEF ExitTriggers, account, Counting
<1> QED
  BY <1>1, <1>2, <1>3, <1>4, <1>5

LEMMA CapStep ==
  ASSUME Venue = "coinbase", "balance" \notin Faults, TypeInv, CapInv,
         [Next]_vars
  PROVE  CapInv'
<1>1. CASE \/ SkipCycle \/ EndReset \/ EndBuys \/ SellFills \/ SellFails
           \/ SellUnconfirmed \/ RecordTrade \/ RecordStopout \/ ClearEntry
           \/ EndSells \/ Crash
  <2>1. pc' \notin Counting
    BY <1>1
    DEF SkipCycle, EndReset, EndCycle, EndBuys, SellFills, SellFails,
        SellUnconfirmed, PendingIsLeft, NextHolding, RecordTrade,
        RecordStopout, ClearEntry, EndSells, Crash, Counting
  <2>2. held' \subseteq held /\ UNCHANGED missed
    BY <1>1
    DEF SkipCycle, EndReset, EndBuys, SellFills, SellFails, SellUnconfirmed,
        RecordTrade, RecordStopout, ClearEntry, EndSells, Crash, account
  <2> QED
    BY <2>1, <2>2, QuietCap
<1>2. CASE Reconcile
  BY <1>2, ReconcileCap
<1>3. CASE CheckBreakers
  BY <1>3 DEF CheckBreakers, account, CapInv, Counting
<1>4. CASE RecordBuy
  BY <1>4, RecordBuyCap
<1>5. CASE UNCHANGED vars
  BY <1>5, QuietCap DEF vars, account, cycle
<1> QED
  BY <1>1, <1>2, <1>3, <1>4, <1>5, BuyCap, AssetCap DEF Next

\* "Max 3 concurrent positions", as far as Coinbase keeps to it, whose balances
\* list every account: through crashes and lost updates nothing takes the
\* account past max_concurrent_positions but purchases that came unseen, in
\* part or late, since a read last found it within.
THEOREM CapKeptButUnseen ==
  ASSUME Venue = "coinbase", "balance" \notin Faults
  PROVE  Spec => []CapButUnseen
<1>1. TypeInv /\ CapInv => CapButUnseen
  BY DEF CapInv, CapButUnseen
<1>2. TypeInv /\ CapInv /\ [Next]_vars => CapInv'
  BY CapStep
<1> QED
  BY <1>1, <1>2, TypeInit, TypeStep, CapInit, PTL DEF Spec
==============================================================================
