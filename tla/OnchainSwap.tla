----------------------------- MODULE OnchainSwap -----------------------------
(***************************************************************************)
(* The write path of EthereumExecutor: execute_swap and everything it      *)
(* calls to approve, sign, broadcast and reconcile a transaction, together *)
(* with the stop-loss fallback of run_executor_strategy that may call it a *)
(* second time for the same sell.                                          *)
(*                                                                         *)
(* Callers (threads) run swaps on executor instances; an instance has one  *)
(* nonce lock and one local nonce floor.  The Base node and the account on *)
(* chain are the environment.  Amounts, prices and calldata are abstracted *)
(* to the outcomes the code branches on: what an allowance covers, whether *)
(* a quote is acceptable, whether a read raises.                           *)
(***************************************************************************)
EXTENDS Integers, FiniteSets

CONSTANTS
  Caller,       \* threads that place orders
  Exec,         \* EthereumExecutor instances on the same account
  ExecOf,       \* the instance each caller uses
  Venue,        \* what ONCHAIN_ROUTER is set to: "aerodrome" or "zerox"
  MaxAttempts,  \* max_attempts of _send_contract_tx
  MaxTx,        \* bound: transactions ever signed
  MaxSales,     \* bound: swaps each caller decides on
  Faults,       \* node behaviours beyond failing reads: "lag", "regossip", "late"
  NoCaller      \* the free nonce lock

ASSUME SwapAssumption ==
  /\ ExecOf \in [Caller -> Exec]
  /\ Venue \in {"aerodrome", "zerox"}
  /\ MaxAttempts \in Nat \ {0}
  /\ MaxTx \in Nat
  /\ MaxSales \in Nat
  /\ NoCaller \notin Caller

Tx == 1 .. MaxTx
NoTx == 0
NoNonce == -1

VARIABLES
  killSwitch,     \* ONCHAIN_KILL_SWITCH or its file
  latest,         \* transactions of the account that are mined
  signed,         \* transactions signed so far; transaction signed is the last one
  txState,        \* what happened to each transaction
  txNonce,        \* its nonce
  txKind,         \* "reset", "approve" or "swap"
  txSale,         \* the decision it was signed for: <<caller, number>>
  lock,           \* _nonce_lock of each instance: its holder
  nextNonce,      \* _next_nonce
  lastSent,       \* _last_sent_hash
  pc,             \* where each caller is
  sale,           \* decisions taken by the caller
  tries,          \* calls of execute_swap for this decision
  side,           \* "BUY" or "SELL"
  venue,          \* the router being tried
  job,            \* which transaction is being sent
  attempt,        \* attempt of _send_contract_tx_locked
  nonce,          \* the nonce it read
  view,           \* the pending count _has_unconfirmed_tx read
  cur,            \* the transaction it signed last
  result,         \* what execute_swap returned
  sentAfterKill   \* history: transactions first broadcast after the kill switch

chain == <<latest, txState>>
txs == <<signed, txNonce, txKind, txSale>>
executor == <<nextNonce, lastSent>>
decision == <<sale, tries, side>>
vars == <<killSwitch, chain, txs, lock, executor, pc, decision, venue, job,
          attempt, nonce, view, cur, result, sentAfterKill>>

------------------------------------------------------------------------------
(* The trusted node *)

Mined(t) == txState[t] \in {"ok", "reverted"}
Pending(t) == txState[t] = "pending"

\* _is_tx_known: get_transaction finds mined and mempool transactions alike.
IsKnown(t) == Mined(t) \/ Pending(t)

PendingAt(n) == \E t \in Tx : Pending(t) /\ txNonce[t] = n

\* What get_transaction_count(account, "pending") may answer: the first nonce
\* no pending transaction occupies, or less when the node's view lags.
PendingCounts ==
  {n \in latest .. latest + MaxTx :
      /\ \A m \in latest .. n - 1 : PendingAt(m)
      /\ "lag" \in Faults \/ ~PendingAt(n)}

------------------------------------------------------------------------------
Init ==
  /\ killSwitch = FALSE
  /\ latest = 0
  /\ signed = 0
  /\ txState = [t \in Tx |-> "none"]
  /\ txNonce = [t \in Tx |-> NoNonce]
  /\ txKind = [t \in Tx |-> "swap"]
  /\ txSale = [t \in Tx |-> <<NoCaller, 0>>]
  /\ lock = [e \in Exec |-> NoCaller]
  /\ nextNonce = [e \in Exec |-> NoNonce]
  /\ lastSent = [e \in Exec |-> NoTx]
  /\ pc = [c \in Caller |-> "idle"]
  /\ sale = [c \in Caller |-> 0]
  /\ tries = [c \in Caller |-> 0]
  /\ side = [c \in Caller |-> "BUY"]
  /\ venue = [c \in Caller |-> Venue]
  /\ job = [c \in Caller |-> "swap"]
  /\ attempt = [c \in Caller |-> 1]
  /\ nonce = [c \in Caller |-> NoNonce]
  /\ view = [c \in Caller |-> 0]
  /\ cur = [c \in Caller |-> NoTx]
  /\ result = [c \in Caller |-> "none"]
  /\ sentAfterKill = {}

Goto(c, label) == pc' = [pc EXCEPT ![c] = label]

\* The caller leaves the with _nonce_lock block.
Release(c) == lock' = [lock EXCEPT ![ExecOf[c]] = NoCaller]

Return(c, r) ==
  /\ Goto(c, "done")
  /\ result' = [result EXCEPT ![c] = r]

------------------------------------------------------------------------------
(* execute_swap up to the lock *)

\* The kill-switch test at the top of execute_swap, then _preflight, any of
\* whose checks may refuse or raise.
Enter(c) ==
  \/ killSwitch /\ Return(c, "refused")
  \/ ~killSwitch /\ Return(c, "failed")
  \/ /\ ~killSwitch
     /\ Goto(c, "lock")
     /\ result' = [result EXCEPT ![c] = "none"]

\* run_executor_strategy decides on a buy or on a sell.
ExecuteSwap(c) ==
  /\ pc[c] \in {"idle", "done"}
  /\ sale[c] < MaxSales
  /\ sale' = [sale EXCEPT ![c] = @ + 1]
  /\ tries' = [tries EXCEPT ![c] = 1]
  /\ \E s \in {"BUY", "SELL"} : side' = [side EXCEPT ![c] = s]
  /\ venue' = [venue EXCEPT ![c] = Venue]
  /\ cur' = [cur EXCEPT ![c] = NoTx]
  /\ Enter(c)
  /\ UNCHANGED <<killSwitch, chain, txs, lock, executor, job, attempt, nonce,
                 view, sentAfterKill>>

\* A stop-loss sell that failed is sold again as a market order; one whose
\* outcome is pending is not.
StopLossFallback(c) ==
  /\ pc[c] = "done"
  /\ side[c] = "SELL"
  /\ tries[c] = 1
  /\ result[c] \in {"refused", "failed", "reverted", "dropped"}
  /\ tries' = [tries EXCEPT ![c] = 2]
  /\ venue' = [venue EXCEPT ![c] = Venue]
  /\ Enter(c)
  /\ UNCHANGED <<killSwitch, chain, txs, lock, executor, sale, side, job,
                 attempt, nonce, view, cur, sentAfterKill>>

\* Mutant: a lock its holder cannot take again.
PlainLock(c) == lock[ExecOf[c]] = NoCaller

\* _nonce_lock is re-entrant.
CanLock(c) == lock[ExecOf[c]] \in {NoCaller, c}

AcquireNonceLock(c) ==
  /\ pc[c] = "lock"
  /\ CanLock(c)
  /\ lock' = [lock EXCEPT ![ExecOf[c]] = c]
  /\ Goto(c, "count")
  /\ UNCHANGED <<killSwitch, chain, txs, executor, decision, venue, job,
                 attempt, nonce, view, cur, result, sentAfterKill>>

------------------------------------------------------------------------------
(* From the in-flight check to the call of _send_contract_tx, lock held *)

\* An exception or a refusal inside the locked block: nothing was broadcast
\* for this attempt, the lock is released and the call reports failure.
Fail(c) ==
  /\ Release(c)
  /\ Return(c, "failed")
  /\ UNCHANGED venue

\* A ZeroExError: exits go on with Aerodrome, whose _preflight may refuse.
ZeroExUnavailable(c) ==
  /\ venue[c] = "zerox"
  /\ Release(c)
  /\ \/ Return(c, "failed") /\ UNCHANGED venue
     \/ /\ side[c] = "SELL"
        /\ venue' = [venue EXCEPT ![c] = "aerodrome"]
        /\ Goto(c, "lock")
        /\ UNCHANGED result

\* _has_unconfirmed_tx reads the pending count, then the latest count.
ReadPendingCount(c) ==
  /\ pc[c] = "count"
  /\ \/ Fail(c) /\ UNCHANGED view
     \/ /\ \E n \in PendingCounts : view' = [view EXCEPT ![c] = n]
        /\ Goto(c, "inflight")
        /\ UNCHANGED <<lock, venue, result>>
  /\ UNCHANGED <<killSwitch, chain, txs, executor, decision, job, attempt,
                 nonce, cur, sentAfterKill>>

\* Mutant: one transaction in flight is let through.
TwoAhead(c) == view[c] > latest + 1

CountsDiffer(c) == view[c] > latest

\* With no gap between the counts the last broadcast is looked up.  The lookup
\* can always raise: the status is then "unknown", which does not refuse.
InFlightCheck(c) ==
  LET last == lastSent[ExecOf[c]] IN
  /\ pc[c] = "inflight"
  /\ \/ /\ CountsDiffer(c) \/ (last # NoTx /\ Pending(last))
        /\ Fail(c)
     \/ /\ ~CountsDiffer(c)
        /\ Goto(c, "quote")
        /\ UNCHANGED <<lock, venue, result>>
  /\ view' = [view EXCEPT ![c] = 0]
  /\ UNCHANGED <<killSwitch, chain, txs, executor, decision, job, attempt,
                 nonce, cur, sentAfterKill>>

\* The first quote, and the allowance that decides what _approve_token sends:
\* nothing, an approval, or a reset to zero before it.
Quote(c) ==
  /\ pc[c] = "quote"
  /\ \/ (Fail(c) \/ ZeroExUnavailable(c)) /\ UNCHANGED job
     \/ /\ job' = [job EXCEPT ![c] = "swap"]
        /\ Goto(c, "build")
        /\ UNCHANGED <<lock, venue, result>>
     \/ /\ \E j \in {"reset", "approve"} : job' = [job EXCEPT ![c] = j]
        /\ Goto(c, "nonce")
        /\ UNCHANGED <<lock, venue, result>>
  /\ attempt' = [attempt EXCEPT ![c] = 1]
  /\ UNCHANGED <<killSwitch, chain, txs, executor, decision, nonce, view, cur,
                 sentAfterKill>>

\* The quote the swap is built from, with its price, minimum and 0x checks.
BuildSwap(c) ==
  /\ pc[c] = "build"
  /\ \/ Fail(c)
     \/ ZeroExUnavailable(c)
     \/ Goto(c, "nonce") /\ UNCHANGED <<lock, venue, result>>
  /\ attempt' = [attempt EXCEPT ![c] = 1]
  /\ UNCHANGED <<killSwitch, chain, txs, executor, decision, job, nonce, view,
                 cur, sentAfterKill>>

------------------------------------------------------------------------------
(* _send_contract_tx_locked *)

\* Mutant: the floor counts whatever became of the last broadcast.
FloorIsAhead(e, pending) == nextNonce[e] # NoNonce /\ nextNonce[e] > pending

\* The local floor counts only above the chain's count and while the last
\* broadcast is still known.
FloorHolds(e, pending) ==
  /\ nextNonce[e] # NoNonce
  /\ nextNonce[e] > pending
  /\ lastSent[e] # NoTx
  /\ IsKnown(lastSent[e])

\* _get_nonce, then the simulation: estimate_gas raises on a revert.
GetNonce(c) ==
  LET e == ExecOf[c] IN
  /\ pc[c] = "nonce"
  /\ \/ Fail(c) /\ UNCHANGED <<executor, nonce>>
     \/ /\ \E pending \in PendingCounts :
             \/ /\ FloorHolds(e, pending)
                /\ nonce' = [nonce EXCEPT ![c] = nextNonce[e]]
                /\ UNCHANGED executor
             \/ /\ ~FloorHolds(e, pending)
                /\ nonce' = [nonce EXCEPT ![c] = pending]
                /\ IF nextNonce[e] = NoNonce \/ nextNonce[e] <= pending
                     THEN UNCHANGED executor
                     ELSE /\ nextNonce' = [nextNonce EXCEPT ![e] = NoNonce]
                          /\ lastSent' = [lastSent EXCEPT ![e] = NoTx]
        /\ Goto(c, "sign")
        /\ UNCHANGED <<lock, venue, result>>
  /\ UNCHANGED <<killSwitch, chain, txs, decision, job, attempt, view, cur,
                 sentAfterKill>>

\* Mutant: the kill switch is only read when a swap starts.
MaySignLate == TRUE

MaySign == ~killSwitch

SignTx(c, t) ==
  /\ MaySign
  /\ t \in Tx
  /\ signed' = t
  /\ txState' = [txState EXCEPT ![t] = "signed"]
  /\ txNonce' = [txNonce EXCEPT ![t] = nonce[c]]
  /\ txKind' = [txKind EXCEPT ![t] = job[c]]
  /\ txSale' = [txSale EXCEPT ![t] = <<c, sale[c]>>]
  /\ cur' = [cur EXCEPT ![c] = t]
  /\ Goto(c, "send")
  /\ UNCHANGED <<latest, lock, venue, result>>

\* The kill switch is read once more, right before signing.
Sign(c) ==
  /\ pc[c] = "sign"
  /\ \/ Fail(c) /\ UNCHANGED <<chain, txs, cur>>
     \/ SignTx(c, signed + 1)
  /\ UNCHANGED <<killSwitch, executor, decision, job, attempt, nonce, view,
                 sentAfterKill>>

\* The node takes t into its mempool, in place of one with the same nonce.
Admit(t) ==
  /\ txNonce[t] >= latest
  /\ txState' = [u \in Tx |->
       IF u = t THEN "pending"
       ELSE IF Pending(u) /\ txNonce[u] = txNonce[t] THEN "dropped"
       ELSE txState[u]]
  /\ UNCHANGED latest

\* _send_contract_tx returns the hash: the floor moves past the nonce used,
\* and a swap leaves the locked block before it waits.
Commit(c) ==
  LET e == ExecOf[c] IN
  /\ nextNonce' = [nextNonce EXCEPT ![e] = nonce[c] + 1]
  /\ lastSent' = [lastSent EXCEPT ![e] = cur[c]]
  /\ nonce' = [nonce EXCEPT ![c] = NoNonce]
  /\ IF job[c] = "swap" THEN Release(c) ELSE UNCHANGED lock
  /\ Goto(c, "await")
  /\ UNCHANGED <<venue, result>>

\* send_raw_transaction, retried by retry_rpc_call.  It may succeed; it may
\* raise, with a nonce or underpriced error ("renonce") or another one, and
\* the node may have taken the transaction from an earlier try all the same;
\* with "late" the request is still on its way when it raises.
Broadcast(c) ==
  LET t == cur[c] IN
  /\ pc[c] = "send"
  /\ sentAfterKill' = IF killSwitch THEN sentAfterKill \cup {t} ELSE sentAfterKill
  /\ \/ Admit(t) /\ Commit(c)
     \/ /\ Admit(t) \/ UNCHANGED chain
        /\ \E label \in {"reconcile", "renonce"} : Goto(c, label)
        /\ UNCHANGED <<executor, nonce, lock, venue, result>>
     \/ /\ "late" \in Faults
        /\ txState' = [txState EXCEPT ![t] = "delayed"]
        /\ Goto(c, "reconcile")
        /\ UNCHANGED <<latest, executor, nonce, lock, venue, result>>
  /\ UNCHANGED <<killSwitch, txs, decision, job, attempt, view, cur>>

\* Mutant: the attempts are not counted.
SignAgainForever(c) ==
  /\ pc[c] = "renonce"
  /\ nextNonce' = [nextNonce EXCEPT ![ExecOf[c]] = NoNonce]
  /\ attempt' = [attempt EXCEPT ![c] = @ + 1]
  /\ Goto(c, "nonce")
  /\ UNCHANGED <<lastSent, lock, venue, result>>

SignAgain(c) ==
  /\ pc[c] = "renonce"
  /\ attempt[c] < MaxAttempts
  /\ nextNonce' = [nextNonce EXCEPT ![ExecOf[c]] = NoNonce]
  /\ attempt' = [attempt EXCEPT ![c] = @ + 1]
  /\ Goto(c, "nonce")
  /\ UNCHANGED <<lastSent, lock, venue, result>>

\* After a broadcast that raised: a transaction the node knows, or cannot be
\* asked about (that lookup can always raise), counts as sent; an unknown one
\* is signed again with a fresh nonce after a nonce error, else given up.
Reconcile(c) ==
  /\ pc[c] \in {"reconcile", "renonce"}
  /\ \/ Commit(c) /\ UNCHANGED attempt
     \/ /\ ~IsKnown(cur[c])
        /\ nonce' = [nonce EXCEPT ![c] = NoNonce]
        /\ \/ SignAgain(c)
           \/ /\ pc[c] = "reconcile" \/ attempt[c] >= MaxAttempts
              /\ Fail(c)
              /\ UNCHANGED <<executor, attempt>>
  /\ UNCHANGED <<killSwitch, chain, txs, decision, job, view, cur,
                 sentAfterKill>>

------------------------------------------------------------------------------
(* _await_receipt, _await_swap and the end of _approve_token *)

\* What the caller makes of the final status of cur[c].  A swap returns it.  A
\* confirmed approval leads to the next transaction, still under the lock; any
\* other status of an approval is a failure.
Settle(c, status) ==
  \/ /\ job[c] = "swap"
     /\ IF status = "filled" /\ venue[c] = "zerox"
          THEN Goto(c, "verify") /\ result' = [result EXCEPT ![c] = status]
          ELSE Return(c, status)
     /\ UNCHANGED <<lock, venue, job, attempt>>
  \/ /\ job[c] # "swap"
     /\ status = "filled"
     /\ IF job[c] = "reset"
          THEN job' = [job EXCEPT ![c] = "approve"] /\ Goto(c, "nonce")
          ELSE job' = [job EXCEPT ![c] = "swap"] /\ Goto(c, "build")
     /\ attempt' = [attempt EXCEPT ![c] = 1]
     /\ UNCHANGED <<lock, venue, result>>
  \/ /\ job[c] # "swap"
     /\ status # "filled"
     /\ Fail(c)
     /\ UNCHANGED <<job, attempt>>

ReceiptStatus(t) == IF txState[t] = "ok" THEN "filled" ELSE "reverted"

\* The wait ends with a receipt, or with a timeout or an RPC error.
AwaitReceipt(c) ==
  /\ pc[c] = "await"
  /\ \/ Mined(cur[c]) /\ Settle(c, ReceiptStatus(cur[c]))
     \/ Goto(c, "lookup") /\ UNCHANGED <<lock, venue, job, attempt, result>>
  /\ UNCHANGED <<killSwitch, chain, txs, executor, decision, nonce, view, cur,
                 sentAfterKill>>

\* Mutant: a transaction without a receipt counts as dropped.
NoReceipt(t) == ~Mined(t)

Vanished(t) == ~IsKnown(t)

\* _lookup_tx_status.  Dropped and unknown resynchronise the nonce first;
\* an unknown status is returned as pending.
LookupStatus(c) ==
  /\ pc[c] = "lookup"
  /\ \/ Mined(cur[c]) /\ Settle(c, ReceiptStatus(cur[c]))
     \/ Pending(cur[c]) /\ Settle(c, "pending")
     \/ /\ \/ Vanished(cur[c]) /\ result' = [result EXCEPT ![c] = "dropped"]
           \/ result' = [result EXCEPT ![c] = "pending"]
        /\ Goto(c, "resync")
        /\ UNCHANGED <<lock, venue, job, attempt>>
  /\ UNCHANGED <<killSwitch, chain, txs, executor, decision, nonce, view, cur,
                 sentAfterKill>>

\* _resync_nonce takes the nonce lock by itself.
ResyncNonce(c) ==
  LET e == ExecOf[c] IN
  /\ pc[c] = "resync"
  /\ CanLock(c)
  /\ lastSent' = [lastSent EXCEPT ![e] = NoTx]
  /\ \E n \in PendingCounts \cup {NoNonce} :
        nextNonce' = [nextNonce EXCEPT ![e] = n]
  /\ Settle(c, result[c])
  /\ UNCHANGED <<killSwitch, chain, txs, decision, nonce, view, cur,
                 sentAfterKill>>

\* _verify_fill engages the kill switch when a 0x fill came up short.
VerifyFill(c) ==
  /\ pc[c] = "verify"
  /\ killSwitch' = TRUE \/ UNCHANGED killSwitch
  /\ Return(c, "filled")
  /\ UNCHANGED <<chain, txs, lock, executor, decision, venue, job, attempt,
                 nonce, view, cur, sentAfterKill>>

------------------------------------------------------------------------------
(* The environment *)

callers == <<lock, executor, pc, decision, venue, job, attempt, nonce, view,
             cur, result, sentAfterKill>>

\* A block includes the transaction at the account's nonce.
Mine(t) ==
  /\ Pending(t)
  /\ txNonce[t] = latest
  /\ latest' = latest + 1
  /\ \E s \in {"ok", "reverted"} : txState' = [txState EXCEPT ![t] = s]
  /\ UNCHANGED <<killSwitch, txs, callers>>

\* The node forgets a mempool transaction.
Drop(t) ==
  /\ Pending(t)
  /\ txState' = [txState EXCEPT ![t] = "dropped"]
  /\ UNCHANGED <<killSwitch, latest, txs, callers>>

\* It hears of it again, or a delayed broadcast arrives.
Reappear(t) ==
  /\ \/ "regossip" \in Faults /\ txState[t] = "dropped"
     \/ "late" \in Faults /\ txState[t] = "delayed"
  /\ ~PendingAt(txNonce[t])
  /\ Admit(t)
  /\ UNCHANGED <<killSwitch, txs, callers>>

EngageKillSwitch ==
  /\ ~killSwitch
  /\ killSwitch' = TRUE
  /\ UNCHANGED <<chain, txs, callers>>

\* The process dies and is started again, or a new cycle builds its executors:
\* nothing of the write path outlives the instances.
Restart ==
  /\ lock' = [e \in Exec |-> NoCaller]
  /\ nextNonce' = [e \in Exec |-> NoNonce]
  /\ lastSent' = [e \in Exec |-> NoTx]
  /\ pc' = [c \in Caller |-> "idle"]
  /\ result' = [c \in Caller |-> "none"]
  /\ job' = [c \in Caller |-> "swap"]
  /\ attempt' = [c \in Caller |-> 1]
  /\ nonce' = [c \in Caller |-> NoNonce]
  /\ view' = [c \in Caller |-> 0]
  /\ cur' = [c \in Caller |-> NoTx]
  /\ UNCHANGED <<killSwitch, chain, txs, decision, venue, sentAfterKill>>

------------------------------------------------------------------------------
\* A caller's own steps once it is inside execute_swap.
Step(c) ==
  \/ AcquireNonceLock(c)
  \/ ReadPendingCount(c)
  \/ InFlightCheck(c)
  \/ Quote(c)
  \/ BuildSwap(c)
  \/ GetNonce(c)
  \/ Sign(c)
  \/ Broadcast(c)
  \/ Reconcile(c)
  \/ AwaitReceipt(c)
  \/ LookupStatus(c)
  \/ ResyncNonce(c)
  \/ VerifyFill(c)

Node ==
  \/ \E t \in Tx : Mine(t) \/ Drop(t) \/ Reappear(t)
  \/ EngageKillSwitch
  \/ Restart

Next ==
  \/ \E c \in Caller : ExecuteSwap(c) \/ StopLossFallback(c) \/ Step(c)
  \/ Node

Spec == Init /\ [][Next]_vars

\* The thread that runs a call keeps running it: every read, wait and retry of
\* the write path is bounded.  Nothing is assumed of the node or of Restart,
\* and of the lock only that a waiter gets it when nobody else wants it.
FairSpec == Spec /\ \A c \in Caller : WF_vars(Step(c))

------------------------------------------------------------------------------
(* Properties *)

ChainTypeOK ==
  /\ killSwitch \in BOOLEAN
  /\ latest \in Nat
  /\ signed \in 0 .. MaxTx
  /\ txState \in [Tx -> {"none", "signed", "pending", "ok", "reverted",
                         "dropped", "delayed"}]
  /\ txNonce \in [Tx -> Int]
  /\ txKind \in [Tx -> {"reset", "approve", "swap"}]
  /\ txSale \in [Tx -> (Caller \cup {NoCaller}) \X Nat]
  /\ sentAfterKill \in SUBSET Tx

ExecTypeOK ==
  /\ lock \in [Exec -> Caller \cup {NoCaller}]
  /\ nextNonce \in [Exec -> Int]
  /\ lastSent \in [Exec -> 0 .. MaxTx]

DecisionTypeOK ==
  /\ sale \in [Caller -> Nat]
  /\ tries \in [Caller -> 0 .. 2]
  /\ side \in [Caller -> {"BUY", "SELL"}]
  /\ result \in [Caller -> {"none", "refused", "failed", "filled", "reverted",
                            "dropped", "pending"}]

CallTypeOK ==
  /\ pc \in [Caller -> {"idle", "lock", "count", "inflight", "quote", "build",
                        "nonce", "sign", "send", "reconcile", "renonce",
                        "await", "lookup", "resync", "verify", "done"}]
  /\ venue \in [Caller -> {"aerodrome", "zerox"}]
  /\ job \in [Caller -> {"reset", "approve", "swap"}]
  /\ attempt \in [Caller -> 1 .. MaxAttempts]
  /\ nonce \in [Caller -> Int]
  /\ view \in [Caller -> Int]
  /\ cur \in [Caller -> 0 .. MaxTx]

\* The values each variable takes.
TypeOK == ChainTypeOK /\ ExecTypeOK /\ DecisionTypeOK /\ CallTypeOK

\* _execute_aerodrome_swap and _execute_zerox_swap "refuse to stack another
\* swap": the account never has two transactions in the mempool.
NoStackedSwaps ==
  \A t, u \in Tx : Pending(t) /\ Pending(u) => t = u

\* A transaction in the mempool can be mined next: none waits behind a nonce
\* nobody used, which would make every later call refuse for ever.
NeverBehindAGap ==
  \A t \in Tx : Pending(t) => txNonce[t] = latest

\* A failure that is not "pending" is final, so the caller may sell again: no
\* swap signed for the decision is live or filled when the call returns it.
FailureIsFinal ==
  \A c \in Caller : \A t \in Tx :
     /\ pc[c] = "done"
     /\ result[c] \in {"refused", "failed", "reverted", "dropped"}
     /\ txKind[t] = "swap"
     /\ txSale[t] = <<c, sale[c]>>
     => ~Pending(t) /\ txState[t] # "ok"

\* The kill switch stops the wallet: once it is engaged an instance broadcasts
\* at most the one transaction it had already signed.
AtMostOneAfterKill ==
  \A t, u \in sentAfterKill :
     ExecOf[txSale[t][1]] = ExecOf[txSale[u][1]] => t = u

\* Every call of execute_swap returns, unless the process dies, whatever the
\* node does and whoever else wants the lock.
EveryCallReturns ==
  \A c \in Caller : (pc[c] \notin {"idle", "done"}) ~> (pc[c] \in {"idle", "done"})

------------------------------------------------------------------------------
(* Refinement of SwapPromise *)

Fills(c) ==
  Cardinality({t \in Tx : txKind[t] = "swap" /\ txState[t] = "ok"
                            /\ txSale[t] = <<c, sale[c]>>})

Phase(c) ==
  CASE pc[c] = "idle" -> "idle"
    [] pc[c] = "done" /\ result[c] = "filled" -> "filled"
    [] pc[c] = "done" /\ result[c] = "pending" -> "unresolved"
    [] pc[c] = "done" /\ result[c] \notin {"filled", "pending"} -> "failed"
    [] OTHER -> "open"

Promise == INSTANCE SwapPromise WITH
  phase <- [c \in Caller |-> Phase(c)],
  fills <- [c \in Caller |-> Fills(c)]

\* Every behaviour of the write path keeps the promise: a decision fills at
\* most once over all transactions signed and all calls made for it, and never
\* after it was reported as failed.
KeepsPromise == Promise!Spec
==============================================================================
