---------------------------- MODULE WsModeProofs ----------------------------
(***************************************************************************)
(* What the run lock and the scan loop guarantee in WebSocket mode: one     *)
(* process trades at a time, but for threads that outlived the lock, and as *)
(* long as no two scans ran at once the state file is complete and the      *)
(* periodic status goes out once.                                           *)
(***************************************************************************)
EXTENDS WsMode, TLAPS

Phase == {"idle", "trade", "status", "sent", "refresh", "swap"}

\* The steps of processes that come, leave and are killed.
Processes ==
  StartWs \/ StartTimer \/ SignalShutdown \/ LeaveWs \/ KillWs \/ KillStray \/ KillTimer

\* What a kill does, a fact at a time.
LEMMA KilledWorkers ==
  ASSUME NEW T \in SUBSET Worker, TypeOK, Killed(T)
  PROVE  /\ phase' \in [Worker -> Phase] /\ snapshot' \in [Worker -> StateFile]
         /\ \A w \in T : phase'[w] = "idle"
         /\ \A w \in Worker \ T : phase'[w] = phase[w] /\ snapshot'[w] = snapshot[w]
  BY DEF Killed, TypeOK, Phase, Empty, StateFile

------------------------------------------------------------------------------
(* Types *)

LEMMA EmptyIsFile == Empty \in StateFile
  BY DEF Empty, StateFile

LEMMA TypeInit == Init => TypeOK
<1> SUFFICES ASSUME Init PROVE TypeOK
  OBVIOUS
<1> USE EmptyIsFile DEF Init
<1>1. phase \in [Worker -> Phase] /\ snapshot \in [Worker -> StateFile]
  BY DEF Phase
<1>2. /\ Supported \subseteq Product /\ scanLoop \notin Thread
      /\ crashes \in 0 .. MaxCrashes /\ unheard \in 0 .. MaxUnheard
  BY WsAssumption DEF WsAssumption
<1> QED
  BY <1>1, <1>2 DEF TypeOK, Phase

LEMMA ProcessesKeepTypes ==
  TypeOK /\ Processes => TypeOK'
<1> SUFFICES ASSUME TypeOK,
                    Processes
             PROVE  TypeOK'
  OBVIOUS
<1> USE WsAssumption DEF WsAssumption, TypeOK, BusyThreads, Worker, client, scans, history, lists
<1>1. CASE StartWs
  BY <1>1 DEF StartWs, acquire_run_lock, LockIsFree, StateFile
<1>2. CASE StartTimer
  BY <1>2 DEF StartTimer, acquire_run_lock, LockIsFree, NoteOverlap
<1>3. CASE SignalShutdown
  BY <1>3 DEF SignalShutdown
<1>4. CASE LeaveWs
  BY <1>4 DEF LeaveWs
<1>5. CASE KillWs
  <2>1. /\ phase' \in [Worker -> Phase] /\ snapshot' \in [Worker -> StateFile]
        /\ \A w \in stray : phase'[w] = phase[w]
    BY <1>5, KilledWorkers DEF KillWs
  <2>2. scanLoop' = "off" /\ "off" \notin Thread
    BY <1>5 DEF KillWs
  <2>3. Supported \subseteq Product /\ crashes' \in 0 .. MaxCrashes
    BY <1>5 DEF KillWs
  <2> HIDE DEF Worker
  <2> QED
    BY <1>5, <2>1, <2>2, <2>3 DEF KillWs, Phase
<1>6. CASE KillTimer
  <2>1. /\ phase' \in [Worker -> Phase] /\ snapshot' \in [Worker -> StateFile]
        /\ \A t \in Thread : phase'[t] = phase[t]
    BY <1>6, KilledWorkers DEF KillTimer
  <2> HIDE DEF Worker
  <2> QED
    BY <1>6, <2>1 DEF KillTimer, Phase
<1>7. CASE KillStray
  <2>1. /\ phase' \in [Worker -> Phase] /\ snapshot' \in [Worker -> StateFile]
        /\ \A t \in Thread \ stray : phase'[t] = phase[t]
    BY <1>7, KilledWorkers DEF KillStray
  <2> HIDE DEF Worker
  <2> QED
    BY <1>7, <2>1 DEF KillStray, Phase
<1> QED
  BY <1>1, <1>2, <1>3, <1>4, <1>5, <1>6, <1>7 DEF Processes

LEMMA ClientKeepsTypes ==
  TypeOK /\ (EndRun \/ Connect \/ Disconnect \/ HearMessage \/ EndBackoff \/ RefreshJwt
             \/ \E t \in Thread : StartScan(t))
  => TypeOK'
<1> SUFFICES ASSUME TypeOK,
                    EndRun \/ Connect \/ Disconnect \/ HearMessage \/ EndBackoff
                      \/ RefreshJwt \/ \E t \in Thread : StartScan(t)
             PROVE  TypeOK'
  OBVIOUS
<1> USE WsAssumption DEF WsAssumption, TypeOK, BusyThreads, Worker, client, scans, history, lists
<1>1. CASE EndRun
  BY <1>1 DEF EndRun, Dropped
<1>2. CASE Connect
  BY <1>2 DEF Connect, Dropped
<1>3. CASE Disconnect
  BY <1>3 DEF Disconnect, Dropped
<1>4. CASE HearMessage
  BY <1>4 DEF HearMessage, Dropped
<1>5. CASE EndBackoff
  BY <1>5 DEF EndBackoff, Dropped
<1>6. CASE RefreshJwt
  BY <1>6 DEF RefreshJwt, Resubscribed
<1>7. CASE \E t \in Thread : StartScan(t)
  BY <1>7 DEF StartScan, NoteOverlap
<1> QED
  BY <1>1, <1>2, <1>3, <1>4, <1>5, <1>6, <1>7

\* What a step of a scan may change: its place, its copy of the file, and with
\* its end the lock, the loop and the stray.
ScanTypeOK ==
  /\ runLock \in {"free", "ws", "timer"}
  /\ scanLoop \in {"off", "sleep"} \cup Thread
  /\ phase \in [Worker -> Phase]
  /\ snapshot \in [Worker -> StateFile]
  /\ stray \subseteq BusyThreads
  /\ scanLoop \in Thread => scanLoop \in BusyThreads \ stray
  /\ link # "up" => scanLoop = "off"

LEMMA DoneKeepsTypes ==
  ASSUME TypeOK, NEW w \in Worker, NEW after \in {"off", "sleep"}, Done(w, after),
         UNCHANGED link
  PROVE  ScanTypeOK'
  BY WsAssumption, EmptyIsFile DEF WsAssumption, TypeOK, BusyThreads, ScanTypeOK, Phase, Done, Worker

LEMMA GotoKeepsTypes ==
  ASSUME TypeOK, NEW w \in Worker, NEW p \in Phase \ {"idle"}, Goto(w, p),
         UNCHANGED link
  PROVE  ScanTypeOK'
  BY EmptyIsFile DEF TypeOK, BusyThreads, ScanTypeOK, Phase, Goto, Worker

LEMMA AfterTradingKeepsTypes ==
  ASSUME TypeOK, NEW w \in Worker, AfterTrading(w), UNCHANGED link
  PROVE  ScanTypeOK'
  BY DoneKeepsTypes, GotoKeepsTypes DEF AfterTrading, Phase

LEMMA ScansKeepTypes ==
  ASSUME TypeOK, NEW w \in Worker, Trade(w) \/ ScanFails(w) \/ ScanStep(w) \/ StatusDue
  PROVE  TypeOK'
<1>1. CASE Trade(w)
  <2>1. file' \in StateFile /\ owned' \subseteq Product
    BY <1>1 DEF Trade, TypeOK, StateFile
  <2> QED
    BY <1>1, <2>1 DEF Trade, TypeOK, BusyThreads, client, scans, history, lists
<1>2. CASE ScanFails(w)
  <2>1. ScanTypeOK'
    BY <1>2, DoneKeepsTypes DEF ScanFails, LoopGoesOn
  <2> QED
    BY <1>2, <2>1 DEF ScanFails, TypeOK, ScanTypeOK, Phase, history, lists
<1>3. CASE LoadForStatus(w)
  <2>1. ScanTypeOK'
    BY <1>3, GotoKeepsTypes, AfterTradingKeepsTypes DEF LoadForStatus, Phase
  <2> QED
    BY <1>3, <2>1 DEF LoadForStatus, TypeOK, ScanTypeOK, Phase, history, lists
<1>4. CASE SendStatus(w)
  <2>1. ScanTypeOK'
    BY <1>4, GotoKeepsTypes, AfterTradingKeepsTypes DEF SendStatus, Phase
  <2>2. sent' \in Nat /\ unheard' \in 0 .. MaxUnheard
    BY <1>4, WsAssumption DEF WsAssumption, SendStatus, Counted, TypeOK
  <2> QED
    BY <1>4, <2>1, <2>2 DEF SendStatus, TypeOK, ScanTypeOK, Phase, history, lists
<1>5. CASE SaveStatus(w)
  <2>1. ScanTypeOK'
    BY <1>5, AfterTradingKeepsTypes DEF SaveStatus
  <2>2. file' \in StateFile
    BY <1>5 DEF SaveStatus, Stamped, TypeOK, StateFile
  <2> QED
    BY <1>5, <2>1, <2>2 DEF SaveStatus, TypeOK, ScanTypeOK, Phase, history, lists
<1>6. CASE LoadForRefresh(w)
  <2>1. ScanTypeOK'
    BY <1>6, GotoKeepsTypes DEF LoadForRefresh, Phase
  <2> QED
    BY <1>6, <2>1 DEF LoadForRefresh, TypeOK, ScanTypeOK, Phase, history, lists
<1>7. CASE SwapSnapshots(w)
  <2>1. ScanTypeOK'
    BY <1>7, DoneKeepsTypes DEF SwapSnapshots
  <2>2. held' \subseteq Product
    BY <1>7 DEF SwapSnapshots, TypeOK, StateFile, lists
  <2>3. products' \subseteq Product /\ Supported \subseteq products'
    BY <1>7, <2>2, WsAssumption DEF WsAssumption, SwapSnapshots, TypeOK, lists
  <2> QED
    BY <1>7, <2>1, <2>2, <2>3 DEF SwapSnapshots, TypeOK, ScanTypeOK, Phase, history
<1>8. CASE StatusDue
  <2>1. file' \in StateFile
    BY <1>8 DEF StatusDue, TypeOK, StateFile
  <2>2. sent' \in Nat /\ unheard' \in 0 .. MaxUnheard
    BY <1>8, WsAssumption DEF WsAssumption, StatusDue
  <2> QED
    BY <1>8, <2>1, <2>2 DEF StatusDue, TypeOK, BusyThreads, client, scans, lists
<1> QED
  BY <1>1, <1>2, <1>3, <1>4, <1>5, <1>6, <1>7, <1>8 DEF ScanStep

LEMMA TypeStep == TypeOK /\ [Next]_vars => TypeOK'
<1> SUFFICES ASSUME TypeOK, [Next]_vars PROVE TypeOK'
  OBVIOUS
<1>1. CASE UNCHANGED vars
  BY <1>1 DEF TypeOK, BusyThreads, vars, client, scans, history, lists
<1>2. CASE Next
  <2>1. Timer \in Worker
    BY DEF Worker
  <2> QED
    BY <1>2, <2>1, ProcessesKeepTypes, ClientKeepsTypes, ScansKeepTypes DEF Next, Processes
<1> QED
  BY <1>1, <1>2

\* Every reachable state is well typed: a scan the loop waits for is under way,
\* and loop and subscription never outlive their connection.
THEOREM TypeCorrect == Spec => []TypeOK
  BY TypeInit, TypeStep, PTL DEF Spec

------------------------------------------------------------------------------
(* The run lock *)

\* Who holds the lock is who is there, and without the process a thread runs only
\* if it is stray.
LockInv ==
  /\ runLock = "ws" <=> link # "off"
  /\ runLock = "timer" <=> phase[Timer] # "idle"
  /\ link = "off" => BusyThreads \subseteq stray

LEMMA LockInit == Init => LockInv
  BY DEF Init, LockInv, BusyThreads, Worker

LEMMA ProcessesKeepLock ==
  TypeOK /\ LockInv
  /\ Processes
  => LockInv'
<1> SUFFICES ASSUME TypeOK, LockInv,
                    Processes
             PROVE  LockInv'
  OBVIOUS
<1> USE WsAssumption DEF WsAssumption, LockInv, BusyThreads, Worker, client, scans
<1>0. phase \in [Worker -> Phase] /\ stray \subseteq Thread
  BY DEF TypeOK, Phase, BusyThreads
<1>1. CASE StartWs
  BY <1>1 DEF StartWs, acquire_run_lock, LockIsFree
<1>2. CASE StartTimer
  BY <1>0, <1>2 DEF StartTimer, acquire_run_lock, LockIsFree
<1>3. CASE SignalShutdown
  BY <1>3 DEF SignalShutdown
<1>4. CASE LeaveWs
  BY <1>0, <1>4 DEF LeaveWs, ThreadsAreDone
<1>5. CASE KillWs
  <2>1. /\ phase'[Timer] = phase[Timer]
        /\ \A t \in Thread \ stray : phase'[t] = "idle"
    BY <1>0, <1>5, KilledWorkers DEF KillWs
  <2> QED
    BY <1>5, <2>1 DEF KillWs
<1>6. CASE KillTimer
  <2>1. /\ phase'[Timer] = "idle"
        /\ \A t \in Thread : phase'[t] = phase[t]
    BY <1>6, KilledWorkers DEF KillTimer
  <2> QED
    BY <1>6, <2>1 DEF KillTimer
<1>7. CASE KillStray
  <2>1. /\ phase'[Timer] = phase[Timer]
        /\ \A t \in stray : phase'[t] = "idle"
        /\ \A t \in Thread \ stray : phase'[t] = phase[t]
    BY <1>0, <1>7, KilledWorkers DEF KillStray
  <2> QED
    BY <1>7, <2>1 DEF KillStray
<1> QED
  BY <1>1, <1>2, <1>3, <1>4, <1>5, <1>6, <1>7 DEF Processes

LEMMA ClientKeepsLock ==
  TypeOK /\ LockInv
  /\ (EndRun \/ Connect \/ Disconnect \/ HearMessage \/ EndBackoff \/ RefreshJwt
      \/ \E t \in Thread : StartScan(t))
  => LockInv'
<1> SUFFICES ASSUME TypeOK, LockInv,
                    EndRun \/ Connect \/ Disconnect \/ HearMessage \/ EndBackoff
                      \/ RefreshJwt \/ \E t \in Thread : StartScan(t)
             PROVE  LockInv'
  OBVIOUS
<1> USE WsAssumption DEF WsAssumption, LockInv, BusyThreads, Worker, scans
<1>1. CASE EndRun \/ Connect \/ Disconnect \/ HearMessage \/ EndBackoff \/ RefreshJwt
  BY <1>1 DEF EndRun, Connect, Disconnect, HearMessage, EndBackoff, RefreshJwt, Dropped
<1>2. CASE \E t \in Thread : StartScan(t)
  BY <1>2 DEF StartScan, TypeOK
<1> QED
  BY <1>1, <1>2

\* A worker that is busy may stop or go on; only the timer's frees the lock.
LEMMA DoneKeepsLock ==
  ASSUME TypeOK, LockInv, NEW w \in Worker, NEW after, phase[w] # "idle", Done(w, after),
         UNCHANGED link
  PROVE  LockInv'
  BY WsAssumption DEF WsAssumption, TypeOK, BusyThreads, LockInv, Done, Worker

LEMMA GotoKeepsLock ==
  ASSUME TypeOK, LockInv, NEW w \in Worker, NEW p \in Phase \ {"idle"},
         phase[w] # "idle", Goto(w, p), UNCHANGED link
  PROVE  LockInv'
  BY WsAssumption DEF WsAssumption, TypeOK, BusyThreads, LockInv, Goto, Worker

LEMMA AfterTradingKeepsLock ==
  ASSUME TypeOK, LockInv, NEW w \in Worker, phase[w] # "idle", AfterTrading(w),
         UNCHANGED link
  PROVE  LockInv'
  BY DoneKeepsLock, GotoKeepsLock DEF AfterTrading, Phase

LEMMA ScansKeepLock ==
  ASSUME TypeOK, LockInv, NEW w \in Worker,
         Trade(w) \/ ScanFails(w) \/ ScanStep(w) \/ StatusDue
  PROVE  LockInv'
<1>1. CASE Trade(w) \/ StatusDue
  BY <1>1 DEF Trade, StatusDue, LockInv, BusyThreads, client, scans
<1>2. CASE ScanFails(w) \/ SwapSnapshots(w)
  BY <1>2, DoneKeepsLock DEF ScanFails, SwapSnapshots
<1>3. CASE LoadForStatus(w)
  BY <1>3, GotoKeepsLock, AfterTradingKeepsLock DEF LoadForStatus, Phase
<1>4. CASE SendStatus(w)
  BY <1>4, GotoKeepsLock, AfterTradingKeepsLock DEF SendStatus, Phase
<1>5. CASE SaveStatus(w)
  BY <1>5, AfterTradingKeepsLock DEF SaveStatus
<1>6. CASE LoadForRefresh(w)
  BY <1>6, GotoKeepsLock DEF LoadForRefresh, Phase
<1> QED
  BY <1>1, <1>2, <1>3, <1>4, <1>5, <1>6 DEF ScanStep

LEMMA LockStep == TypeOK /\ LockInv /\ [Next]_vars => LockInv'
<1> SUFFICES ASSUME TypeOK, LockInv, [Next]_vars PROVE LockInv'
  OBVIOUS
<1>1. CASE UNCHANGED vars
  BY <1>1 DEF LockInv, BusyThreads, vars, client, scans
<1>2. CASE Next
  <2>1. Timer \in Worker
    BY DEF Worker
  <2> QED
    BY <1>2, <2>1, ProcessesKeepLock, ClientKeepsLock, ScansKeepLock DEF Next, Processes
<1> QED
  BY <1>1, <1>2

\* trading_bot.py, "prevents overlapping runs": the timer's process never trades
\* beside the other one, nor beside a thread of it that asyncio.run still waits for.
THEOREM OneProcessTrades == Spec => []OneProcess
<1>1. LockInv => OneProcess
  <2> SUFFICES ASSUME LockInv, phase[Timer] # "idle" PROVE OneProcess
    BY DEF OneProcess
  <2>1. runLock = "timer" /\ runLock # "ws"
    BY DEF LockInv
  <2> QED
    BY <2>1 DEF LockInv, OneProcess
<1> QED
  BY <1>1, TypeInit, TypeStep, LockInit, LockStep, PTL DEF Spec

------------------------------------------------------------------------------
(* The state file *)

\* A copy of the file that is about to be saved.
InStatus(w) == phase[w] \in {"status", "sent"}

\* While no two scans ran at once, one worker is busy at most, file and copies
\* know the positions of the account, and only a status that is about to be
\* saved, an answer that was lost, or a process that was killed, stands for one
\* more message.
FileInv ==
  ~overlapped =>
    /\ \A v, w \in Worker : phase[v] # "idle" /\ phase[w] # "idle" => v = w
    /\ file.entries = owned
    /\ \A w \in Worker : InStatus(w) => snapshot[w].entries = owned /\ file.due
    /\ sent <= 1 + crashes + unheard
    /\ file.due => sent <= crashes + unheard \/ \E w \in Worker : phase[w] = "sent"

\* A worker that is busy is alone.
LEMMA BusyIsAlone ==
  ASSUME FileInv, ~overlapped, NEW v \in Worker, NEW w \in Worker,
         phase[v] # "idle", phase[w] # "idle"
  PROVE  v = w
  BY DEF FileInv

LEMMA FileInit == Init => FileInv
  BY DEF Init, FileInv, InStatus, Empty, Worker

\* A scan that starts is alone, or notes that it is not.
LEMMA StartKeepsFile ==
  ASSUME TypeOK, FileInv, NEW t \in Worker, phase[t] = "idle", NoteOverlap,
         phase' = [phase EXCEPT ![t] = "trade"], UNCHANGED <<snapshot, file, owned, crashes>>
  PROVE  FileInv'
<1> SUFFICES ASSUME ~overlapped' PROVE FileInv'
  BY DEF FileInv
<1>1. /\ ~overlapped /\ \A w \in Worker : phase[w] = "idle"
      /\ UNCHANGED <<sent, unheard>>
  BY DEF NoteOverlap, SomebodyTrades
<1>2. phase'[t] = "trade" /\ \A w \in Worker : w # t => phase'[w] = "idle"
  BY <1>1 DEF TypeOK
<1>3. \A v, w \in Worker : phase'[v] # "idle" /\ phase'[w] # "idle" => v = w
  BY <1>2
<1>4. \A w \in Worker : ~InStatus(w)'
  BY <1>2 DEF InStatus
<1>5. file'.due => sent' <= crashes' + unheard'
  BY <1>1 DEF FileInv
<1> QED
  BY <1>1, <1>3, <1>4, <1>5 DEF FileInv

LEMMA ProcessesKeepFile ==
  TypeOK /\ FileInv /\ Processes => FileInv'
<1> SUFFICES ASSUME TypeOK, FileInv, Processes
             PROVE  FileInv'
  OBVIOUS
<1> USE WsAssumption DEF WsAssumption, client, scans, history
<1>0. /\ phase \in [Worker -> Phase] /\ stray \subseteq Thread
      /\ sent \in Nat /\ crashes \in Nat /\ unheard \in Nat
  BY DEF TypeOK, Phase, BusyThreads
<1>1. CASE StartWs \/ SignalShutdown \/ LeaveWs
  BY <1>1 DEF StartWs, SignalShutdown, LeaveWs, FileInv, InStatus
<1>2. CASE StartTimer
  BY <1>2, StartKeepsFile DEF StartTimer, Worker
<1>3. CASE KillWs \/ KillStray \/ KillTimer
  <2>1. PICK T \in SUBSET Worker : Killed(T)
    BY <1>0, <1>3 DEF KillWs, KillStray, KillTimer, Worker
  <2>2. /\ crashes' = crashes + 1
        /\ UNCHANGED <<file, owned, sent, unheard, overlapped>>
    BY <1>3 DEF KillWs, KillStray, KillTimer
  <2>3. /\ \A w \in T : phase'[w] = "idle"
        /\ \A w \in Worker \ T : phase'[w] = phase[w] /\ snapshot'[w] = snapshot[w]
    BY <2>1, KilledWorkers
  <2>4. \A w \in Worker : phase'[w] \in {phase[w], "idle"}
    BY <2>3
  <2>5. \A w \in Worker : phase'[w] # "idle" => snapshot'[w] = snapshot[w]
    BY <2>3
  <2> SUFFICES ASSUME ~overlapped PROVE FileInv'
    BY <2>2 DEF FileInv
  <2>6. sent' <= 1 + crashes' + unheard' /\ (file'.due => sent' <= crashes' + unheard')
    BY <1>0, <2>2 DEF FileInv
  <2>7. \A v, w \in Worker : phase'[v] # "idle" /\ phase'[w] # "idle" => v = w
    BY <2>4 DEF FileInv
  <2>8. \A w \in Worker : InStatus(w)' => snapshot'[w].entries = owned' /\ file'.due
    BY <2>2, <2>4, <2>5 DEF FileInv, InStatus
  <2> QED
    BY <2>2, <2>6, <2>7, <2>8 DEF FileInv
<1> QED
  BY <1>1, <1>2, <1>3 DEF Processes

LEMMA ClientKeepsFile ==
  TypeOK /\ FileInv
  /\ (EndRun \/ Connect \/ Disconnect \/ HearMessage \/ EndBackoff \/ RefreshJwt
      \/ \E t \in Thread : StartScan(t))
  => FileInv'
<1> SUFFICES ASSUME TypeOK, FileInv,
                    EndRun \/ Connect \/ Disconnect \/ HearMessage \/ EndBackoff
                      \/ RefreshJwt \/ \E t \in Thread : StartScan(t)
             PROVE  FileInv'
  OBVIOUS
<1>1. CASE EndRun \/ Connect \/ Disconnect \/ HearMessage \/ EndBackoff \/ RefreshJwt
  BY <1>1 DEF EndRun, Connect, Disconnect, HearMessage, EndBackoff, RefreshJwt, scans,
              history, FileInv, InStatus
<1>2. CASE \E t \in Thread : StartScan(t)
  BY <1>2, StartKeepsFile DEF StartScan, Worker
<1> QED
  BY <1>1, <1>2

LEMMA TradeKeepsFile ==
  ASSUME TypeOK, FileInv, NEW w \in Worker, Trade(w)
  PROVE  FileInv'
<1>1. ~overlapped => \A v \in Worker : ~InStatus(v)
  BY BusyIsAlone DEF Trade, InStatus
<1>2. ~overlapped => file'.entries = owned' /\ file'.due = file.due
  BY DEF Trade, FileInv, TypeOK, StateFile
<1>3. UNCHANGED <<scans, history, crashes>>
  BY DEF Trade
<1> QED
  BY <1>1, <1>2, <1>3 DEF FileInv, InStatus, scans, history

\* How a worker moves on: another place, and nobody else's copy touched.
Moves(w, p) ==
  /\ phase' = [phase EXCEPT ![w] = p]
  /\ \A v \in Worker : v # w => snapshot'[v] = snapshot[v]

LEMMA DoneMoves ==
  ASSUME TypeOK, NEW w \in Worker, NEW after, Done(w, after)
  PROVE  Moves(w, "idle")
  BY DEF TypeOK, Done, Moves

LEMMA GotoMoves ==
  ASSUME TypeOK, NEW w \in Worker, NEW p \in Phase, Goto(w, p)
  PROVE  /\ Moves(w, p)
         /\ p \in {"status", "swap"} => snapshot'[w] = file
         /\ p = "sent" => snapshot'[w] = snapshot[w]
  BY DEF TypeOK, Goto, Moves

LEMMA AfterTradingMoves ==
  ASSUME TypeOK, NEW w \in Worker, AfterTrading(w)
  PROVE  Moves(w, "idle") \/ Moves(w, "refresh")
  BY DoneMoves, GotoMoves DEF AfterTrading, Phase

\* A worker that is not about to save stops, or goes on with a copy of the file
\* as it is; an answer that is lost counts as one more message and accounts for it.
LEMMA MoveKeepsFile ==
  ASSUME TypeOK, FileInv, NEW w \in Worker, phase[w] \notin {"idle", "sent"},
         NEW p \in Phase \ {"sent"}, Moves(w, p),
         p = "status" => file.due /\ snapshot'[w] = file,
         ~overlapped => \/ UNCHANGED <<sent, unheard>>
                        \/ sent' = sent + 1 /\ unheard' = unheard + 1,
         UNCHANGED <<file, owned, overlapped, crashes>>
  PROVE  FileInv'
<1>1. /\ phase'[w] = p
      /\ \A v \in Worker : v # w => phase'[v] = phase[v] /\ snapshot'[v] = snapshot[v]
  BY DEF Moves, TypeOK
<1> SUFFICES ASSUME ~overlapped PROVE FileInv'
  BY DEF FileInv
<1>2. \A v \in Worker : v # w => phase[v] = "idle"
  BY BusyIsAlone
<1>3. \A u, v \in Worker : phase'[u] # "idle" /\ phase'[v] # "idle" => u = v
  BY <1>1, <1>2 DEF Worker
<1>4. \A v \in Worker : InStatus(v)' => v = w /\ p = "status"
  BY <1>1, <1>2 DEF InStatus
<1>5. \A v \in Worker : phase[v] # "sent"
  BY <1>2
<1>6. /\ sent' <= 1 + crashes' + unheard'
      /\ file'.due => sent' <= crashes' + unheard'
  BY <1>5 DEF FileInv, TypeOK
<1> QED
  BY <1>1, <1>3, <1>4, <1>6 DEF FileInv

LEMMA SendKeepsFile ==
  ASSUME TypeOK, FileInv, NEW w \in Worker, SendStatus(w)
  PROVE  FileInv'
<1>0. phase[w] = "status" /\ UNCHANGED <<file, owned, overlapped, crashes>>
  BY DEF SendStatus
<1>1. CASE AfterTrading(w) /\ \/ UNCHANGED <<sent, unheard>>
                               \/ /\ sent' = Counted(sent + 1)
                                  /\ unheard' = Counted(unheard + 1)
  <2>1. \E p \in {"idle", "refresh"} : Moves(w, p)
    BY <1>1, AfterTradingMoves
  <2>2. ~overlapped => \/ UNCHANGED <<sent, unheard>>
                       \/ sent' = sent + 1 /\ unheard' = unheard + 1
    BY <1>1 DEF Counted
  <2> QED
    BY <1>0, <2>1, <2>2, MoveKeepsFile DEF Phase
<1>2. CASE sent' = Counted(sent + 1) /\ UNCHANGED unheard /\ Goto(w, "sent")
  <2>1. Moves(w, "sent") /\ snapshot'[w] = snapshot[w]
    BY <1>2, GotoMoves DEF Phase
  <2>2. phase'[w] = "sent" /\ \A v \in Worker : v # w => phase'[v] = phase[v]
    BY <2>1 DEF Moves, TypeOK
  <2> SUFFICES ASSUME ~overlapped PROVE FileInv'
    BY <1>0 DEF FileInv
  <2>3. \A v \in Worker : v # w => phase[v] = "idle"
    BY <1>0, BusyIsAlone
  <2>4. \A u, v \in Worker : phase'[u] # "idle" /\ phase'[v] # "idle" => u = v
    BY <2>2, <2>3 DEF Worker
  <2>5. \A v \in Worker : InStatus(v)' => v = w
    BY <2>2, <2>3 DEF InStatus
  <2>6. snapshot[w].entries = owned /\ file.due
    BY <1>0 DEF FileInv, InStatus
  <2>7. sent <= crashes + unheard
    BY <1>0, <2>3, <2>6 DEF FileInv
  <2>8. sent' <= 1 + crashes' + unheard'
    BY <1>0, <1>2, <2>7 DEF TypeOK, Counted
  <2> QED
    BY <1>0, <2>1, <2>2, <2>4, <2>5, <2>6, <2>8 DEF FileInv
<1> QED
  BY <1>1, <1>2 DEF SendStatus

LEMMA SaveKeepsFile ==
  ASSUME TypeOK, FileInv, NEW w \in Worker, SaveStatus(w)
  PROVE  FileInv'
<1>1. /\ phase[w] = "sent"
      /\ file' = Stamped(snapshot[w])
      /\ UNCHANGED <<owned, history, crashes>>
  BY DEF SaveStatus
<1>2. PICK p \in {"idle", "refresh"} : Moves(w, p)
  BY AfterTradingMoves DEF SaveStatus
<1>3. phase'[w] = p /\ \A v \in Worker : v # w => phase'[v] = phase[v]
  BY <1>2 DEF Moves, TypeOK
<1> SUFFICES ASSUME ~overlapped PROVE FileInv'
  BY <1>1 DEF FileInv, history
<1>4. \A v \in Worker : v # w => phase[v] = "idle"
  BY <1>1, BusyIsAlone
<1>5. \A u, v \in Worker : phase'[u] # "idle" /\ phase'[v] # "idle" => u = v
  BY <1>3, <1>4 DEF Worker
<1>6. \A v \in Worker : ~InStatus(v)'
  BY <1>3, <1>4 DEF InStatus
<1>7. file'.entries = owned' /\ file'.due = FALSE
  BY <1>1 DEF Stamped, FileInv, InStatus, TypeOK, StateFile
<1>8. sent' <= 1 + crashes' + unheard'
  BY <1>1 DEF FileInv, history
<1> QED
  BY <1>5, <1>6, <1>7, <1>8 DEF FileInv

LEMMA ScansKeepFile ==
  ASSUME TypeOK, FileInv, NEW w \in Worker, Trade(w) \/ ScanFails(w) \/ ScanStep(w)
  PROVE  FileInv'
<1>1. CASE ScanFails(w) \/ SwapSnapshots(w)
  BY <1>1, DoneMoves, MoveKeepsFile DEF ScanFails, SwapSnapshots, Phase, history
<1>2. CASE LoadForStatus(w)
  <2>1. phase[w] = "trade" /\ UNCHANGED <<file, owned, history, crashes>>
    BY <1>2 DEF LoadForStatus
  <2>2. CASE file.due
    BY <1>2, <2>1, <2>2, GotoMoves, MoveKeepsFile DEF LoadForStatus, Phase, history
  <2>3. CASE ~file.due
    BY <1>2, <2>1, <2>3, AfterTradingMoves, MoveKeepsFile DEF LoadForStatus, Phase, history
  <2> QED
    BY <2>2, <2>3
<1>3. CASE LoadForRefresh(w)
  BY <1>3, GotoMoves, MoveKeepsFile DEF LoadForRefresh, Phase, history
<1> QED
  BY <1>1, <1>2, <1>3, TradeKeepsFile, SendKeepsFile, SaveKeepsFile DEF ScanStep

LEMMA DueKeepsFile ==
  ASSUME TypeOK, FileInv, StatusDue
  PROVE  FileInv'
<1>1. \A w \in Worker : ~InStatus(w)
  BY DEF StatusDue, InStatus
<1>2. file'.entries = file.entries
  BY DEF StatusDue, TypeOK, StateFile
<1> QED
  BY <1>1, <1>2 DEF StatusDue, FileInv, InStatus, TypeOK, scans

LEMMA FileStep == TypeOK /\ FileInv /\ [Next]_vars => FileInv'
<1> SUFFICES ASSUME TypeOK, FileInv, [Next]_vars PROVE FileInv'
  OBVIOUS
<1>1. CASE UNCHANGED vars
  BY <1>1 DEF FileInv, InStatus, vars, scans, history
<1>2. CASE Next
  <2>1. Timer \in Worker
    BY DEF Worker
  <2> QED
    BY <1>2, <2>1, ProcessesKeepFile, ClientKeepsFile, ScansKeepFile, DueKeepsFile
       DEF Next, Processes
<1> QED
  BY <1>1, <1>2

LEMMA FileAlways == Spec => []FileInv
  BY TypeInit, TypeStep, FileInit, FileStep, PTL DEF Spec

\* trading_bot.py, _maybe_send_periodic_status, saves the whole file it loaded
\* before a message was sent: without overlapping scans no position opened
\* meanwhile is lost by that.
THEOREM FileIsComplete == Spec => []NothingLost
<1>1. FileInv => NothingLost
  BY DEF FileInv, NothingLost
<1> QED
  BY <1>1, FileAlways, PTL

\* The status of an interval is delivered once, and once more at most for each
\* process killed between the message and the save and each answer lost.
THEOREM StatusGoesOutOnce == Spec => []StatusOnce
<1>1. FileInv => StatusOnce
  BY DEF FileInv, StatusOnce
<1> QED
  BY <1>1, FileAlways, PTL
==============================================================================
