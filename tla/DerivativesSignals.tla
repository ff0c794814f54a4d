-------------------------- MODULE DerivativesSignals --------------------------
(***************************************************************************)
(* DerivativesDataProvider: the funding rate, the open interest and the     *)
(* long/short ratio that scans ask OKX for, kept for a time of their own    *)
(* each, and what a scan makes of them: how much of a size is bought, and    *)
(* whether anything is.                                                     *)
(*                                                                          *)
(* A funding rate is in units of 0.01%, the other readings and the price    *)
(* change in percent.  Time passes in ticks, also while a scan is under way: *)
(* the signals are asked for once and used until its last candidate, after  *)
(* polls and receipt waits.  A request (ten seconds at most) outlasts one    *)
(* tick at most.                                                            *)
(***************************************************************************)
EXTENDS Integers, Sequences, FiniteSetsExt

CONSTANTS
  Scan,        \* scans; in WebSocket mode two may overlap
  Reading,     \* the readings each signal may have: [Key -> SUBSET Int]
  Ttl,         \* FUNDING_TTL, OI_TTL and LS_TTL in ticks
  PriceChange, \* changes of BTC's price in 24 hours
  FundingHigh, \* derivatives_funding_high
  OiFall,      \* derivatives_oi_divergence_pct
  ScanTicks    \* bound: how many ticks a scan lasts

Key == {"funding", "oi", "ls"}

SignalsConstants ==
  /\ \A k \in Key : Reading[k] \subseteq Int /\ Ttl[k] \in Nat \ {0}
  /\ PriceChange \subseteq Int
  /\ ScanTicks \in Nat

None == {}                         \* no signal; a signal is {reading}

Order == <<"funding", "oi", "ls">>

VARIABLES
  world,    \* what OKX would answer
  truth,    \* history: ticks since each reading was last right
  cache,    \* _cache: [data, age]
  pc,       \* per scan: "idle", "get", "ask", "wait" (since a tick), "decide"
  todo,     \* per scan: signals it still wants, in order
  answer,   \* per scan: what OKX answered to its request
  got,      \* per scan: the signals it has
  price,    \* per scan: price_change_pct
  elapsed   \* history: ticks since each scan began

vars == <<world, truth, cache, pc, todo, answer, got, price, elapsed>>

Nothing == [k \in Key |-> None]

\* No use is made of anything that was last right so long ago.
LongAgo(k) == Ttl[k] + ScanTicks + 1

Init ==
  /\ world \in [Key -> UNION {Reading[k] : k \in Key}]
  /\ \A k \in Key : world[k] \in Reading[k]
  /\ truth = [k \in Key |-> [r \in Reading[k] |->
                               IF r = world[k] THEN 0 ELSE LongAgo(k)]]
  /\ cache = [k \in Key |-> [data |-> None, age |-> 0]]
  /\ pc = [s \in Scan |-> "idle"]
  /\ todo = [s \in Scan |-> <<>>]
  /\ answer = [s \in Scan |-> None]
  /\ got = [s \in Scan |-> Nothing]
  /\ price = [s \in Scan |-> None]
  /\ elapsed = [s \in Scan |-> 0]

------------------------------------------------------------------------------
(* What the readings mean. *)

_classify_funding(rate) ==
  CASE rate < -FundingHigh -> "EXTREME_NEGATIVE"
    [] rate >= -FundingHigh /\ rate < -1 -> "NEGATIVE"
    [] rate >= -1 /\ rate <= 3 -> "NORMAL"
    [] rate > 3 /\ rate <= FundingHigh -> "ELEVATED"
    [] OTHER -> "EXTREME"

Falling(change) == change <= 10 /\ change < OiFall

ExtremeLong(ratio) == ratio > 65

\* In thousandths, one factor for each signal there is.
FundingFactor(rate) ==
  LET signal == _classify_funding(rate) IN
  CASE signal = "EXTREME" -> 500
    [] signal = "ELEVATED" -> 750
    [] signal = "EXTREME_NEGATIVE" -> 1250
    [] signal = "NEGATIVE" -> 1100
    [] signal = "NORMAL" -> 1000

compute_position_modifier(funding, ls) ==
  LET ByFunding == IF funding = None THEN 1000
                   ELSE FundingFactor(CHOOSE r \in funding : TRUE)
      ByCrowd == IF \E r \in ls : ExtremeLong(r) THEN 750 ELSE 1000
  IN  Max({250, Min({1250, (ByFunding * ByCrowd) \div 1000})})

\* The price is known and rises while the open interest falls.
detect_oi_divergence(oi, change) ==
  \E r \in oi, p \in change : p > 1 /\ Falling(r)

position_modifier(s) == compute_position_modifier(got[s].funding, got[s].ls)
entry_allowed(s) == ~detect_oi_divergence(got[s].oi, price[s])

------------------------------------------------------------------------------
(* Mutant: a signal is kept for one tick more than its time to live. *)
FreshOneMore(k) == cache[k].data # None /\ cache[k].age <= Ttl[k]

\* _get_cached
Fresh(k) == cache[k].data # None /\ cache[k].age < Ttl[k]

\* The price comes first; without 24 candles no change of it is known.
StartScan(s) ==
  /\ pc[s] = "idle"
  /\ pc' = [pc EXCEPT ![s] = "get"]
  /\ todo' = [todo EXCEPT ![s] = Order]
  /\ \E p \in {None} \cup {{c} : c \in PriceChange} :
       price' = [price EXCEPT ![s] = p]
  /\ UNCHANGED <<world, truth, cache, answer, got, elapsed>>

\* The next signal is known: the scan goes on to the one after it.
Take(s, signal) ==
  /\ got' = [got EXCEPT ![s][Head(todo[s])] = signal]
  /\ todo' = [todo EXCEPT ![s] = Tail(@)]
  /\ pc' = [pc EXCEPT ![s] = IF Len(todo[s]) = 1 THEN "decide" ELSE "get"]

UseCached(s) ==
  /\ pc[s] = "get"
  /\ Fresh(Head(todo[s]))
  /\ Take(s, cache[Head(todo[s])].data)
  /\ UNCHANGED <<world, truth, cache, answer, price, elapsed>>

\* OKX reads its answer while the scan waits for it.
Ask(s) ==
  /\ pc[s] = "get"
  /\ ~Fresh(Head(todo[s]))
  /\ pc' = [pc EXCEPT ![s] = "ask"]
  /\ answer' = [answer EXCEPT ![s] = {world[Head(todo[s])]}]
  /\ UNCHANGED <<world, truth, cache, todo, got, price, elapsed>>

\* _set_cache
Stored(k, data) == [cache EXCEPT ![k] = [data |-> data, age |-> 0]]

Asking(s) == pc[s] \in {"ask", "wait"}

Answered(s) ==
  /\ Asking(s)
  /\ cache' = Stored(Head(todo[s]), answer[s])
  /\ Take(s, answer[s])
  /\ answer' = [answer EXCEPT ![s] = None]
  /\ UNCHANGED <<world, truth, price, elapsed>>

\* A timeout, an error status, a code other than "0" or an answer without data:
\* the scan does without the signal, and the next one asks again.
Unknown(k) == None

Failed(s) ==
  /\ Asking(s)
  /\ Take(s, Unknown(Head(todo[s])))
  /\ answer' = [answer EXCEPT ![s] = None]
  /\ UNCHANGED <<world, truth, cache, price, elapsed>>

\* Candidates are bought, or kept out, on what the signals say, executor by
\* executor, until the scan is over.
Decide(s) ==
  /\ pc[s] = "decide"
  /\ pc' = [pc EXCEPT ![s] = "idle"]
  /\ got' = [got EXCEPT ![s] = Nothing]
  /\ price' = [price EXCEPT ![s] = None]
  /\ elapsed' = [elapsed EXCEPT ![s] = 0]
  /\ UNCHANGED <<world, truth, cache, todo, answer>>

Move(k) ==
  /\ \E r \in Reading[k] \ {world[k]} :
       /\ world' = [world EXCEPT ![k] = r]
       /\ truth' = [truth EXCEPT ![k][r] = 0]
  /\ UNCHANGED <<cache, pc, todo, answer, got, price, elapsed>>

Tick ==
  /\ \A s \in Scan : pc[s] # "wait" /\ (pc[s] = "idle" \/ elapsed[s] < ScanTicks)
  /\ elapsed' = [s \in Scan |-> IF pc[s] = "idle" THEN 0 ELSE elapsed[s] + 1]
  /\ pc' = [s \in Scan |-> IF pc[s] = "ask" THEN "wait" ELSE pc[s]]
  /\ truth' = [k \in Key |-> [r \in Reading[k] |->
                 IF r = world[k] THEN 0 ELSE Min({truth[k][r] + 1, LongAgo(k)})]]
  /\ cache' = [k \in Key |-> [cache[k] EXCEPT !.age =
                 IF cache[k].data = None THEN 0 ELSE Min({@ + 1, Ttl[k] + 1})]]
  /\ UNCHANGED <<world, todo, answer, got, price>>

Next ==
  \/ \E s \in Scan : \/ StartScan(s) \/ UseCached(s) \/ Ask(s)
                     \/ Answered(s) \/ Failed(s) \/ Decide(s)
  \/ \E k \in Key : Move(k)
  \/ Tick

Spec == Init /\ [][Next]_vars

------------------------------------------------------------------------------
\* The values each variable takes; a size is scaled to a quarter at least and
\* to five quarters at most.
TypeOK ==
  /\ \A k \in Key : /\ world[k] \in Reading[k]
                    /\ cache[k].data = None \/ \E r \in Reading[k] : cache[k].data = {r}
                    /\ cache[k].age \in 0 .. Ttl[k] + 1
  /\ \A s \in Scan : /\ pc[s] \in {"idle", "get", "ask", "wait", "decide"}
                     /\ (pc[s] \in {"get", "ask", "wait"}) = (todo[s] # <<>>)
                     /\ elapsed[s] \in 0 .. ScanTicks
                     /\ position_modifier(s) \in 250 .. 1250

\* What a scan decides on was right no longer ago than its time to live, and the
\* time the scan has taken since it began: requests that fail, in this scan or
\* another, and entries another scan stores, add nothing to that.
NeverMisled ==
  \A s \in Scan : pc[s] = "decide" =>
    \A k \in Key : \A r \in got[s][k] : truth[k][r] <= Ttl[k] + elapsed[s]
==============================================================================
