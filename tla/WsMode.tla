------------------------------- MODULE WsMode -------------------------------
(***************************************************************************)
(* The bot as a long-lived process: run_ws_mode, CoinbaseWSClient and the   *)
(* run lock, beside the one-shot process the timer starts.  The client      *)
(* listens to a connection and, as long as it lasts, starts a scan whenever *)
(* the last one is over and an interval has passed.  A scan is a worker     *)
(* thread: when the connection breaks its task is cancelled, the thread     *)
(* goes on, and the next connection may start another scan beside it.  One  *)
(* that is still trading 300 s after the client has returned outlives the   *)
(* lock: such a thread is stray.                                            *)
(*                                                                          *)
(* A tick changes nothing: on_tick takes every position for dust (see       *)
(* Amount), so what it does after that is not modelled.  Trading is         *)
(* abstracted to the positions it opens and closes (TradeCycle has the      *)
(* cycle), and the state file to the positions it knows and the time of the *)
(* last periodic status.  The length of the backoff and the JWTs are left   *)
(* out.                                                                     *)
(***************************************************************************)
EXTENDS Naturals, FiniteSets

CONSTANTS
  Product,    \* products that may be held
  Supported,  \* get_supported_assets: subscribed in any case
  Thread,     \* threads scans may run in
  Timer,      \* the process run_bot runs in
  MaxCrashes, \* bound: how often a process is killed
  MaxUnheard  \* bound: statuses delivered without an answer, per interval

ASSUME WsAssumption ==
  /\ Supported \subseteq Product
  /\ Timer \notin Thread
  /\ {"off", "sleep"} \cap (Thread \cup {Timer}) = {}
  /\ MaxCrashes \in Nat
  /\ MaxUnheard \in Nat

Worker == Thread \cup {Timer}
NoThread == "no thread"

VARIABLES
  runLock,     \* who holds the lock file: "ws", "timer" or "free"
  link,        \* where CoinbaseWSClient.run is
  shutdown,    \* shutdown_event
  scanLoop,    \* _scan_loop: "off", "sleep" or the thread it waits for
  phase,       \* where each worker is in its scan
  snapshot,    \* the state file as each worker loaded it
  stray,       \* threads still at work in a process that gave its lock up
  file,        \* the state file: positions, and whether the status is due
  owned,       \* positions of the account
  held,        \* _held_entries, as of the last refresh
  products,    \* _product_ids
  subscribed,  \* what the present connection is subscribed to
  sent,        \* history: statuses delivered since the last became due
  unheard,     \* history: those of them whose answer was lost
  overlapped,  \* history: two scans ran at once
  crashes      \* processes killed so far

client == <<link, scanLoop, subscribed>>
scans == <<phase, snapshot, stray>>
history == <<sent, unheard, overlapped>>
lists == <<held, products>>
vars == <<runLock, client, shutdown, scans, file, owned, lists, history,
          crashes>>

Empty == [entries |-> {}, due |-> TRUE]

Init ==
  /\ runLock = "free"
  /\ link = "off"
  /\ shutdown = FALSE
  /\ scanLoop = "off"
  /\ phase = [w \in Worker |-> "idle"]
  /\ snapshot = [w \in Worker |-> Empty]
  /\ stray = {}
  /\ file = Empty
  /\ owned = {}
  /\ held = {}
  /\ products = Supported
  /\ subscribed = {}
  /\ sent = 0
  /\ unheard = 0
  /\ overlapped = FALSE
  /\ crashes = 0

------------------------------------------------------------------------------
(* Processes *)

\* Mutant: the lock file is opened and written, but not locked.
LockIsOpened == TRUE

LockIsFree == runLock = "free"

acquire_run_lock(owner) == LockIsFree /\ runLock' = owner

\* The threads at work, and whether anybody is.
BusyThreads == {t \in Thread : phase[t] # "idle"}
SomebodyTrades == \E w \in Worker : phase[w] # "idle"

\* A scan starts.  The statuses are counted until two run at once.
NoteOverlap ==
  /\ overlapped' = (overlapped \/ SomebodyTrades)
  /\ sent' = IF overlapped' THEN 0 ELSE sent
  /\ unheard' = IF overlapped' THEN 0 ELSE unheard

Counted(n) == IF overlapped THEN 0 ELSE n

\* run_ws_mode, up to asyncio.run: the first snapshot is taken before the
\* client exists.
StartWs ==
  /\ link = "off"
  /\ acquire_run_lock("ws")
  /\ held' = file.entries
  /\ products' = Supported
  /\ link' = "connect"
  /\ UNCHANGED <<scanLoop, subscribed, shutdown, scans, file, owned, history,
                 crashes>>

\* run_bot, as the timer starts it.
StartTimer ==
  /\ phase[Timer] = "idle"
  /\ acquire_run_lock("timer")
  /\ phase' = [phase EXCEPT ![Timer] = "trade"]
  /\ NoteOverlap
  /\ UNCHANGED <<client, shutdown, snapshot, stray, file, owned, lists,
                 crashes>>

\* SIGTERM or SIGINT.
SignalShutdown ==
  /\ link # "off"
  /\ ~shutdown
  /\ shutdown' = TRUE
  /\ UNCHANGED <<runLock, client, scans, file, owned, lists, history,
                 crashes>>

\* Mutant: the lock is released as soon as the client returns.
ThreadsMayRun == TRUE

\* asyncio.run joins the threads it started before it returns ...
ThreadsAreDone == BusyThreads \subseteq stray

\* ... for 300 s, then it warns and returns without them; the interpreter
\* waits for them, but only after the lock is released.
LeaveWs ==
  /\ link = "leaving"
  /\ \/ ThreadsAreDone /\ UNCHANGED stray
     \/ ~ThreadsAreDone /\ stray' = BusyThreads
  /\ link' = "off"
  /\ runLock' = "free"
  /\ held' = {}
  /\ products' = Supported
  /\ shutdown' = FALSE
  /\ UNCHANGED <<scanLoop, subscribed, phase, snapshot, file, owned, history,
                 crashes>>

\* The threads of T end where they are.
Killed(T) ==
  /\ phase' = [w \in Worker |-> IF w \in T THEN "idle" ELSE phase[w]]
  /\ snapshot' = [w \in Worker |-> IF w \in T THEN Empty ELSE snapshot[w]]

\* A process is killed; the kernel drops its lock.
KillWs ==
  /\ link # "off"
  /\ crashes < MaxCrashes
  /\ crashes' = crashes + 1
  /\ link' = "off"
  /\ runLock' = "free"
  /\ held' = {}
  /\ products' = Supported
  /\ scanLoop' = "off"
  /\ subscribed' = {}
  /\ Killed(Thread \ stray)
  /\ shutdown' = FALSE
  /\ UNCHANGED <<stray, file, owned, history>>

\* So is one that waits at its exit for the threads that outlived its lock.
KillStray ==
  /\ stray # {}
  /\ crashes < MaxCrashes
  /\ crashes' = crashes + 1
  /\ Killed(stray)
  /\ stray' = {}
  /\ UNCHANGED <<runLock, client, shutdown, file, owned, lists, history>>

KillTimer ==
  /\ phase[Timer] # "idle"
  /\ crashes < MaxCrashes
  /\ crashes' = crashes + 1
  /\ Killed({Timer})
  /\ runLock' = "free"
  /\ UNCHANGED <<client, shutdown, stray, file, owned, lists, history>>

------------------------------------------------------------------------------
(* CoinbaseWSClient *)

\* Mutant: the tasks of a connection outlive it.
KeepsTasks(next) ==
  /\ link' = next
  /\ UNCHANGED <<scanLoop, subscribed>>

\* The finally clause of _connect_and_listen: the tasks are cancelled, the
\* thread of a scan is not.
Dropped(next) ==
  /\ link' = next
  /\ scanLoop' = "off"
  /\ subscribed' = {}

\* The loop ends when its condition is read.
EndRun ==
  /\ link = "connect"
  /\ shutdown
  /\ Dropped("leaving")
  /\ UNCHANGED <<runLock, shutdown, scans, file, owned, lists, history,
                 crashes>>

Connect ==
  /\ link = "connect"
  /\ ~shutdown
  /\ \/ /\ link' = "up"
        /\ subscribed' = products
        /\ scanLoop' = "sleep"
     \/ Dropped("backoff")
  /\ UNCHANGED <<runLock, shutdown, scans, file, owned, lists, history,
                 crashes>>

\* The connection is closed, in order or by an error.
Disconnect ==
  /\ link = "up"
  /\ \E next \in {"connect", "backoff"} : Dropped(next)
  /\ UNCHANGED <<runLock, shutdown, scans, file, owned, lists, history,
                 crashes>>

\* Mutant: messages are handled without a look at the event.
NeverStops == FALSE

StopsListening == shutdown

\* A message: a tick, which changes nothing, unless shutdown was requested.
HearMessage ==
  /\ link = "up"
  /\ StopsListening
  /\ Dropped("leaving")
  /\ UNCHANGED <<runLock, shutdown, scans, file, owned, lists, history,
                 crashes>>

\* The wait is over, or shutdown ends it.
EndBackoff ==
  /\ link = "backoff"
  /\ Dropped(IF shutdown THEN "leaving" ELSE "connect")
  /\ UNCHANGED <<runLock, shutdown, scans, file, owned, lists, history,
                 crashes>>

\* Mutant: it repeats the subscription of the connection.
ResubscribedAsBefore == subscribed

\* _jwt_refresh_loop subscribes once more, to what the list is by now.
Resubscribed == products

RefreshJwt ==
  /\ link = "up"
  /\ ~shutdown
  /\ subscribed' = subscribed \cup Resubscribed
  /\ UNCHANGED <<runLock, link, shutdown, scanLoop, scans, file, owned,
                 lists, history, crashes>>

\* The interval has passed: asyncio.to_thread(on_scan_cycle).
StartScan(t) ==
  /\ link = "up"
  /\ scanLoop = "sleep"
  /\ ~shutdown
  /\ phase[t] = "idle"
  /\ scanLoop' = t
  /\ phase' = [phase EXCEPT ![t] = "trade"]
  /\ NoteOverlap
  /\ UNCHANGED <<runLock, link, shutdown, subscribed, snapshot, stray, file,
                 owned, lists, crashes>>

------------------------------------------------------------------------------
(* Ticks *)

\* CoinbaseExecutor.get_balances: what can be traded, and what with holds.
get_balances ==
  [part \in {"available", "total"} |-> [cash |-> {}, crypto |-> owned]]

\* dict.get(key, {})
Get(dict, key) == IF key \in DOMAIN dict THEN dict[key] ELSE {}

\* on_tick: _balances.get(asset, 0), in positions.
Amount(p) == IF p \in Get(get_balances, "crypto") THEN 1 ELSE 0

\* Ticks come for what is subscribed and are looked at if an entry is known;
\* a position without an amount is dust, and on_tick returns.
TickIsDust(p) ==
  link = "up" /\ p \in subscribed \cap held /\ Amount(p) = 0

------------------------------------------------------------------------------
(* A scan: _run_bot, and in this process _refresh_snapshots *)

\* Mutant: an exception ends the scan loop.
LoopEnds == "off"

LoopGoesOn == "sleep"

\* The worker has no more to do; a timer process releases its lock and ends.
Done(w, after) ==
  /\ phase' = [phase EXCEPT ![w] = "idle"]
  /\ snapshot' = [snapshot EXCEPT ![w] = Empty]
  /\ stray' = stray \ {w}
  /\ scanLoop' = IF scanLoop = w THEN after ELSE scanLoop
  /\ runLock' = IF w = Timer THEN "free" ELSE runLock

Goto(w, p) ==
  /\ phase' = [phase EXCEPT ![w] = p]
  /\ snapshot' = [snapshot EXCEPT ![w] = IF p \in {"status", "swap"} THEN file
                                         ELSE IF p = "sent" THEN @ ELSE Empty]
  /\ UNCHANGED <<runLock, scanLoop, stray>>

AfterTrading(w) == IF w = Timer THEN Done(w, "off") ELSE Goto(w, "refresh")

\* A position is opened or closed, and the file updated.
Trade(w) ==
  /\ phase[w] = "trade"
  /\ \E p \in Product :
       \/ /\ p \notin owned
          /\ owned' = owned \cup {p}
          /\ file' = [file EXCEPT !.entries = @ \cup {p}]
       \/ /\ p \in owned
          /\ owned' = owned \ {p}
          /\ file' = [file EXCEPT !.entries = @ \ {p}]
  /\ UNCHANGED <<runLock, client, shutdown, scans, lists, history,
                 crashes>>

\* An executor cannot be built: on_scan_cycle raises, nothing is refreshed.
ScanFails(w) ==
  /\ phase[w] = "trade"
  /\ Done(w, LoopGoesOn)
  /\ UNCHANGED <<link, subscribed, shutdown, file, owned,
                 lists, history, crashes>>

\* _maybe_send_periodic_status loads the file ...
LoadForStatus(w) ==
  /\ phase[w] = "trade"
  /\ IF file.due THEN Goto(w, "status") ELSE AfterTrading(w)
  /\ UNCHANGED <<link, subscribed, shutdown, file, owned, lists,
                 history, crashes>>

\* ... and sends the message.  One that failed is due again in the next scan,
\* and so is one that arrived while its answer did not: send_telegram_message
\* returns False for both.
SendStatus(w) ==
  /\ phase[w] = "status"
  /\ \/ sent' = Counted(sent + 1) /\ UNCHANGED unheard /\ Goto(w, "sent")
     \/ UNCHANGED <<sent, unheard>> /\ AfterTrading(w)
     \/ /\ unheard < MaxUnheard
        /\ unheard' = Counted(unheard + 1)
        /\ sent' = Counted(sent + 1)
        /\ AfterTrading(w)
  /\ UNCHANGED <<link, subscribed, shutdown, file, owned,
                 lists, overlapped, crashes>>

\* Mutants: the time of the status is not saved; nothing else is.
StampForgotten(f) == f
OnlyStamp(f) == [Empty EXCEPT !.due = FALSE]

Stamped(f) == [f EXCEPT !.due = FALSE]

\* The file is saved as it was loaded, with the time of the status.
SaveStatus(w) ==
  /\ phase[w] = "sent"
  /\ file' = Stamped(snapshot[w])
  /\ AfterTrading(w)
  /\ UNCHANGED <<link, subscribed, shutdown, owned, lists,
                 history, crashes>>

\* _refresh_snapshots loads the file first ...
LoadForRefresh(w) ==
  /\ phase[w] = "refresh"
  /\ Goto(w, "swap")
  /\ UNCHANGED <<link, subscribed, shutdown, file, owned, lists,
                 history, crashes>>

\* ... and swaps the dictionaries under the lock; then the list of products
\* follows, unless nothing is held.  A stray thread swaps those of its own
\* process, which nobody reads any more.
SwapSnapshots(w) ==
  /\ phase[w] = "swap"
  /\ IF w \in stray
     THEN UNCHANGED lists
     ELSE /\ held' = snapshot[w].entries
          /\ products' = IF held' = {} THEN products ELSE Supported \cup held'
  /\ Done(w, "sleep")
  /\ UNCHANGED <<link, subscribed, shutdown, file, owned, history,
                 crashes>>

\* PERIODIC_STATUS_INTERVAL has passed, in no scan that is about to save.
StatusDue ==
  /\ ~file.due
  /\ \A w \in Worker : phase[w] \in {"idle", "trade"}
  /\ file' = [file EXCEPT !.due = TRUE]
  /\ sent' = 0
  /\ unheard' = 0
  /\ UNCHANGED <<runLock, client, shutdown, scans, owned, lists,
                 overlapped, crashes>>

ScanStep(w) ==
  \/ LoadForStatus(w) \/ SendStatus(w) \/ SaveStatus(w) \/ LoadForRefresh(w)
  \/ SwapSnapshots(w)

Next ==
  \/ StartWs \/ StartTimer \/ SignalShutdown \/ LeaveWs \/ KillWs
  \/ KillStray \/ KillTimer
  \/ EndRun \/ Connect \/ Disconnect \/ HearMessage \/ EndBackoff \/ RefreshJwt
  \/ \E t \in Thread : StartScan(t)
  \/ \E w \in Worker : Trade(w) \/ ScanFails(w) \/ ScanStep(w)
  \/ StatusDue

\* Every wait in the client is bounded and messages keep coming (there is a
\* heartbeat each second); a scan gets to its end, since requests have timeouts.
Fairness ==
  /\ WF_vars(EndRun) /\ WF_vars(Connect) /\ WF_vars(HearMessage)
  /\ WF_vars(EndBackoff) /\ WF_vars(RefreshJwt) /\ WF_vars(LeaveWs)
  /\ WF_vars(\E t \in Thread : StartScan(t))
  /\ \A w \in Worker : WF_vars(ScanStep(w))

Spec == Init /\ [][Next]_vars /\ Fairness

------------------------------------------------------------------------------
(* Properties *)

StateFile == [entries : SUBSET Product, due : BOOLEAN]

\* The values each variable takes; a scan the loop waits for is under way, as is
\* a stray one, and the loop and the subscription are those of the present
\* connection.
TypeOK ==
  /\ runLock \in {"free", "ws", "timer"}
  /\ link \in {"off", "connect", "up", "backoff", "leaving"}
  /\ shutdown \in BOOLEAN
  /\ scanLoop \in {"off", "sleep"} \cup Thread
  /\ phase \in [Worker -> {"idle", "trade", "status", "sent", "refresh", "swap"}]
  /\ snapshot \in [Worker -> StateFile]
  /\ stray \subseteq BusyThreads
  /\ file \in StateFile
  /\ owned \subseteq Product
  /\ held \subseteq Product
  /\ products \subseteq Product /\ Supported \subseteq products
  /\ subscribed \subseteq Product
  /\ sent \in Nat
  /\ unheard \in 0 .. MaxUnheard
  /\ overlapped \in BOOLEAN
  /\ crashes \in 0 .. MaxCrashes
  /\ scanLoop \in Thread => scanLoop \in BusyThreads \ stray
  /\ link # "up" => scanLoop = "off" /\ subscribed = {}

\* trading_bot.py, "prevents overlapping runs from systemd timer": the timer's
\* process never trades beside the other one, nor beside a scan of it, even one
\* whose connection is gone or whose process is shutting down, unless that scan
\* outlasted the 300 s asyncio.run waits for its threads.
OneProcess ==
  phase[Timer] # "idle" => link = "off" /\ BusyThreads \subseteq stray

\* base.py, get_balances, 'Format {"cash": ..., "crypto": ...}', and run_ws_mode,
\* "real-time exit checks": a tick of a position the account holds is checked
\* for an exit, not taken for dust.
TicksSeeHoldings == \A p \in owned : ~TickIsDust(p)

\* As long as no two scans ran at once, in one process or two, the file knows the
\* positions of the account: the status saves a copy that lacks none of them.
NothingLost == ~overlapped => file.entries = owned

\* The status is delivered once per interval, once more for each process that
\* was killed between sending it and saving so, and once more for each answer
\* that was lost; the copy of the file saved with it does not undo that.
StatusOnce == ~overlapped => sent <= 1 + crashes + unheard

\* A shutdown that was requested comes to an end, from wherever the client is,
\* and the lock is free for the next process.
ShutdownEnds == shutdown ~> link = "off"

\* With a connection that lasts, scans keep coming, also after one that failed.
ScansKeepComing ==
  <>[](link = "up" /\ ~shutdown) => []<>(scanLoop \in Thread)

\* What stays held is subscribed to in the end, if the connection lasts and
\* scans do not all fail.
HeldIsSubscribed ==
  \A p \in Product :
    /\ <>[](link = "up" /\ ~shutdown /\ p \in file.entries)
    /\ []<>(\E t \in Thread : phase[t] = "swap")
    => <>[](p \in subscribed)
==============================================================================
