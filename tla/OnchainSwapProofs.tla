-------------------------- MODULE OnchainSwapProofs --------------------------
(***************************************************************************)
(* Proofs about OnchainSwap for any number of callers, executor instances, *)
(* transactions and decisions: types, the kill switch, and what the write  *)
(* path promises to the code that trades.  A failure reported as final is  *)
(* final, the account never has two transactions in the mempool, and none  *)
(* waits behind a gap.                                                     *)
(***************************************************************************)
EXTENDS OnchainSwap, TLAPS

\* Between signing a transaction and the end of its wait, cur names it.
HasTx(c) == pc[c] \in {"send", "reconcile", "renonce", "await", "lookup", "resync"}

CurIsTx == \A c \in Caller : HasTx(c) => cur[c] \in Tx

TypeInv == TypeOK /\ CurIsTx

LEMMA TypeInit == Init => TypeInv
<1> SUFFICES ASSUME Init PROVE TypeInv
  OBVIOUS
<1> USE SwapAssumption DEF SwapAssumption, Init, Tx, NoTx, NoNonce
<1>1. ChainTypeOK
  <2>1. txSale \in [Tx -> (Caller \cup {NoCaller}) \X Nat]
    OBVIOUS
  <2>2. txState \in [Tx -> {"none", "signed", "pending", "ok", "reverted",
                           "dropped", "delayed"}]
    OBVIOUS
  <2>3. latest \in Nat /\ signed \in 0 .. MaxTx
    OBVIOUS
  <2>7. killSwitch \in BOOLEAN
    OBVIOUS
  <2>4. txNonce \in [Tx -> Int] /\ txKind \in [Tx -> {"reset", "approve", "swap"}]
    OBVIOUS
  <2>5. sentAfterKill \in SUBSET Tx
    OBVIOUS
  <2>6. QED
    BY ONLY <2>1, <2>2, <2>3, <2>4, <2>5, <2>7 DEF ChainTypeOK
<1>2. ExecTypeOK
  BY DEF ExecTypeOK
<1>3. DecisionTypeOK
  BY DEF DecisionTypeOK
<1>4. CallTypeOK
  BY DEF CallTypeOK
<1>5. CurIsTx
  BY DEF CurIsTx, HasTx
<1>6. QED
  BY <1>1, <1>2, <1>3, <1>4, <1>5 DEF TypeInv, TypeOK

LEMMA PendingCountsInt == TypeOK => PendingCounts \subseteq Int
  BY SwapAssumption DEF SwapAssumption, TypeOK, ChainTypeOK, PendingCounts

LEMMA TypeStep == TypeInv /\ [Next]_vars => TypeInv'
<1> SUFFICES ASSUME TypeInv, [Next]_vars PROVE TypeInv'
  OBVIOUS
<1> USE SwapAssumption, PendingCountsInt
    DEF SwapAssumption, TypeInv, TypeOK, chain, txs, executor, decision
<1>1. ASSUME NEW c \in Caller, ExecuteSwap(c) PROVE TypeInv'
  <2> USE <1>1 DEF ExecuteSwap, Enter, Return, Goto, NoTx
  <2>1. ChainTypeOK'
    BY DEF ChainTypeOK, CallTypeOK, CurIsTx, HasTx
  <2>2. ExecTypeOK'
    BY DEF ExecTypeOK, CallTypeOK
  <2>3. DecisionTypeOK'
    BY DEF DecisionTypeOK
  <2>4. CallTypeOK'
    BY DEF CallTypeOK, ExecTypeOK, ChainTypeOK
  <2>5. CurIsTx'
    BY DEF CurIsTx, HasTx, CallTypeOK
  <2>6. QED
    BY <2>1, <2>2, <2>3, <2>4, <2>5
<1>2. ASSUME NEW c \in Caller, StopLossFallback(c) PROVE TypeInv'
  <2> USE <1>2 DEF StopLossFallback, Enter, Return, Goto
  <2>1. ChainTypeOK'
    BY DEF ChainTypeOK, CallTypeOK, CurIsTx, HasTx
  <2>2. ExecTypeOK'
    BY DEF ExecTypeOK, CallTypeOK
  <2>3. DecisionTypeOK'
    BY DEF DecisionTypeOK
  <2>4. CallTypeOK'
    BY DEF CallTypeOK, ExecTypeOK, ChainTypeOK
  <2>5. CurIsTx'
    BY DEF CurIsTx, HasTx, CallTypeOK
  <2>6. QED
    BY <2>1, <2>2, <2>3, <2>4, <2>5
<1>3. ASSUME NEW c \in Caller, AcquireNonceLock(c) PROVE TypeInv'
  <2> USE <1>3 DEF AcquireNonceLock, Goto
  <2>1. ChainTypeOK'
    BY DEF ChainTypeOK, CallTypeOK, CurIsTx, HasTx
  <2>2. ExecTypeOK'
    BY DEF ExecTypeOK, CallTypeOK
  <2>3. DecisionTypeOK'
    BY DEF DecisionTypeOK
  <2>4. CallTypeOK'
    BY DEF CallTypeOK, ExecTypeOK, ChainTypeOK
  <2>5. CurIsTx'
    BY DEF CurIsTx, HasTx, CallTypeOK
  <2>6. QED
    BY <2>1, <2>2, <2>3, <2>4, <2>5
<1>4. ASSUME NEW c \in Caller, ReadPendingCount(c) PROVE TypeInv'
  <2> USE <1>4 DEF ReadPendingCount, Fail, Release, Return, Goto
  <2>1. ChainTypeOK'
    BY DEF ChainTypeOK, CallTypeOK, CurIsTx, HasTx
  <2>2. ExecTypeOK'
    BY DEF ExecTypeOK, CallTypeOK
  <2>3. DecisionTypeOK'
    BY DEF DecisionTypeOK
  <2>4. CallTypeOK'
    BY DEF CallTypeOK, ExecTypeOK, ChainTypeOK
  <2>5. CurIsTx'
    BY DEF CurIsTx, HasTx, CallTypeOK
  <2>6. QED
    BY <2>1, <2>2, <2>3, <2>4, <2>5
<1>5. ASSUME NEW c \in Caller, InFlightCheck(c) PROVE TypeInv'
  <2> USE <1>5 DEF InFlightCheck, Fail, Release, Return, Goto
  <2>1. ChainTypeOK'
    BY DEF ChainTypeOK, CallTypeOK, CurIsTx, HasTx
  <2>2. ExecTypeOK'
    BY DEF ExecTypeOK, CallTypeOK
  <2>3. DecisionTypeOK'
    BY DEF DecisionTypeOK
  <2>4. CallTypeOK'
    BY DEF CallTypeOK, ExecTypeOK, ChainTypeOK
  <2>5. CurIsTx'
    BY DEF CurIsTx, HasTx, CallTypeOK
  <2>6. QED
    BY <2>1, <2>2, <2>3, <2>4, <2>5
<1>6. ASSUME NEW c \in Caller, Quote(c) PROVE TypeInv'
  <2> USE <1>6 DEF Quote, Fail, ZeroExUnavailable, Release, Return, Goto
  <2>1. ChainTypeOK'
    BY DEF ChainTypeOK, CallTypeOK, CurIsTx, HasTx
  <2>2. ExecTypeOK'
    BY DEF ExecTypeOK, CallTypeOK
  <2>3. DecisionTypeOK'
    BY DEF DecisionTypeOK
  <2>4. CallTypeOK'
    <3>1. pc' \in [Caller -> {"idle", "lock", "count", "inflight", "quote", "build",
                             "nonce", "sign", "send", "reconcile", "renonce",
                             "await", "lookup", "resync", "verify", "done"}]
      BY DEF CallTypeOK
    <3>2. nonce' \in [Caller -> Int] /\ attempt' \in [Caller -> 1 .. MaxAttempts]
      BY DEF CallTypeOK, ExecTypeOK
    <3>3. cur' \in [Caller -> 0 .. MaxTx] /\ venue' \in [Caller -> {"aerodrome", "zerox"}]
      BY DEF CallTypeOK, ChainTypeOK
    <3>4. job' \in [Caller -> {"reset", "approve", "swap"}] /\ view' \in [Caller -> Int]
      BY DEF CallTypeOK
    <3>5. QED
      BY <3>1, <3>2, <3>3, <3>4 DEF CallTypeOK
  <2>5. CurIsTx'
    BY DEF CurIsTx, HasTx, CallTypeOK
  <2>6. QED
    BY <2>1, <2>2, <2>3, <2>4, <2>5
<1>7. ASSUME NEW c \in Caller, BuildSwap(c) PROVE TypeInv'
  <2> USE <1>7 DEF BuildSwap, Fail, ZeroExUnavailable, Release, Return, Goto
  <2>1. ChainTypeOK'
    BY DEF ChainTypeOK, CallTypeOK, CurIsTx, HasTx
  <2>2. ExecTypeOK'
    BY DEF ExecTypeOK, CallTypeOK
  <2>3. DecisionTypeOK'
    BY DEF DecisionTypeOK
  <2>4. CallTypeOK'
    BY DEF CallTypeOK
  <2>5. CurIsTx'
    BY DEF CurIsTx, HasTx, CallTypeOK
  <2>6. QED
    BY <2>1, <2>2, <2>3, <2>4, <2>5
<1>8. ASSUME NEW c \in Caller, GetNonce(c) PROVE TypeInv'
  <2> USE <1>8 DEF GetNonce, Fail, Release, Return, Goto, NoNonce, NoTx
  <2>1. ChainTypeOK'
    BY DEF ChainTypeOK, CallTypeOK, CurIsTx, HasTx
  <2>2. ExecTypeOK'
    BY DEF ExecTypeOK, CallTypeOK
  <2>3. DecisionTypeOK'
    BY DEF DecisionTypeOK
  <2>4. CallTypeOK'
    BY DEF CallTypeOK, ExecTypeOK, ChainTypeOK
  <2>5. CurIsTx'
    BY DEF CurIsTx, HasTx, CallTypeOK
  <2>6. QED
    BY <2>1, <2>2, <2>3, <2>4, <2>5
<1>9. ASSUME NEW c \in Caller, Sign(c) PROVE TypeInv'
  <2> USE <1>9 DEF Sign, SignTx, Tx, Fail, Release, Return, Goto
  <2>1. ChainTypeOK'
    <3>1. signed' \in 0 .. MaxTx
      <4>1. signed' = signed \/ signed' \in 1 .. MaxTx
        OBVIOUS
      <4>2. signed \in 0 .. MaxTx
        BY DEF ChainTypeOK
      <4>3. QED
        BY ONLY <4>1, <4>2
    <3>9. latest' \in Nat
      BY DEF ChainTypeOK
    <3>8. killSwitch' \in BOOLEAN
      BY DEF ChainTypeOK
    <3>2. txState' \in [Tx -> {"none", "signed", "pending", "ok", "reverted",
                               "dropped", "delayed"}]
      BY DEF ChainTypeOK
    <3>3. txNonce' \in [Tx -> Int]
      <4>1. txNonce' = txNonce \/ txNonce' = [txNonce EXCEPT ![signed + 1] = nonce[c]]
        OBVIOUS
      <4>2. txNonce \in [Tx -> Int] /\ nonce[c] \in Int
        BY DEF ChainTypeOK, CallTypeOK
      <4>3. QED
        BY ONLY <4>1, <4>2
    <3>4. txKind' \in [Tx -> {"reset", "approve", "swap"}]
      <4>1. txKind' = txKind \/ txKind' = [txKind EXCEPT ![signed + 1] = job[c]]
        OBVIOUS
      <4>2. txKind \in [Tx -> {"reset", "approve", "swap"}] /\ job[c] \in {"reset", "approve", "swap"}
        BY DEF ChainTypeOK, CallTypeOK
      <4>3. QED
        BY ONLY <4>1, <4>2
    <3>5. txSale' \in [Tx -> (Caller \cup {NoCaller}) \X Nat]
      <4>1. <<c, sale[c]>> \in (Caller \cup {NoCaller}) \X Nat
        BY DEF DecisionTypeOK
      <4>2. txSale' = txSale \/ txSale' = [txSale EXCEPT ![signed + 1] = <<c, sale[c]>>]
        OBVIOUS
      <4>3. txSale \in [Tx -> (Caller \cup {NoCaller}) \X Nat]
        BY DEF ChainTypeOK
      <4>4. QED
        BY ONLY <4>1, <4>2, <4>3
    <3>6. sentAfterKill' \in SUBSET Tx
      BY DEF ChainTypeOK
    <3>7. QED
      BY ONLY <3>1, <3>2, <3>3, <3>4, <3>5, <3>6, <3>8, <3>9 DEF ChainTypeOK
  <2>2. ExecTypeOK'
    BY DEF ExecTypeOK, CallTypeOK
  <2>3. DecisionTypeOK'
    BY DEF DecisionTypeOK
  <2>4. CallTypeOK'
    <3>1. pc' \in [Caller -> {"idle", "lock", "count", "inflight", "quote", "build",
                             "nonce", "sign", "send", "reconcile", "renonce",
                             "await", "lookup", "resync", "verify", "done"}]
      BY DEF CallTypeOK
    <3>2. nonce' \in [Caller -> Int] /\ attempt' \in [Caller -> 1 .. MaxAttempts]
      BY DEF CallTypeOK, ExecTypeOK
    <3>3. cur' \in [Caller -> 0 .. MaxTx]
      BY DEF CallTypeOK
    <3>6. venue' \in [Caller -> {"aerodrome", "zerox"}]
      BY DEF CallTypeOK
    <3>4. job' \in [Caller -> {"reset", "approve", "swap"}] /\ view' \in [Caller -> Int]
      BY DEF CallTypeOK
    <3>5. QED
      BY <3>1, <3>2, <3>3, <3>4, <3>6 DEF CallTypeOK
  <2>5. CurIsTx'
    BY DEF CurIsTx, HasTx, CallTypeOK
  <2>6. QED
    BY <2>1, <2>2, <2>3, <2>4, <2>5
<1>10. ASSUME NEW c \in Caller, Broadcast(c) PROVE TypeInv'
  <2> USE <1>10 DEF Broadcast, Admit, Commit, NoNonce, Release, Goto
  <2>1. ChainTypeOK'
    BY DEF ChainTypeOK, CallTypeOK, CurIsTx, HasTx
  <2>2. ExecTypeOK'
    BY DEF ExecTypeOK, CallTypeOK
  <2>3. DecisionTypeOK'
    BY DEF DecisionTypeOK
  <2>4. CallTypeOK'
    BY DEF CallTypeOK, ExecTypeOK, ChainTypeOK
  <2>5. CurIsTx'
    BY DEF CurIsTx, HasTx, CallTypeOK
  <2>6. QED
    BY <2>1, <2>2, <2>3, <2>4, <2>5
<1>11. ASSUME NEW c \in Caller, Reconcile(c) PROVE TypeInv'
  <2> USE <1>11 DEF Reconcile, SignAgain, Commit, NoNonce, Fail, Release, Return, Goto
  <2>1. ChainTypeOK'
    BY DEF ChainTypeOK, CallTypeOK, CurIsTx, HasTx
  <2>2. ExecTypeOK'
    BY DEF ExecTypeOK, CallTypeOK
  <2>3. DecisionTypeOK'
    BY DEF DecisionTypeOK
  <2>4. CallTypeOK'
    BY DEF CallTypeOK, ExecTypeOK, ChainTypeOK
  <2>5. CurIsTx'
    BY DEF CurIsTx, HasTx, CallTypeOK
  <2>6. QED
    BY <2>1, <2>2, <2>3, <2>4, <2>5
<1>12. ASSUME NEW c \in Caller, AwaitReceipt(c) PROVE TypeInv'
  <2> USE <1>12 DEF AwaitReceipt, Settle, ReceiptStatus, Fail, Release, Return, Goto
  <2>1. ChainTypeOK'
    BY DEF ChainTypeOK, CallTypeOK, CurIsTx, HasTx
  <2>2. ExecTypeOK'
    BY DEF ExecTypeOK, CallTypeOK
  <2>3. DecisionTypeOK'
    BY DEF DecisionTypeOK
  <2>4. CallTypeOK'
    BY DEF CallTypeOK
  <2>5. CurIsTx'
    BY DEF CurIsTx, HasTx, CallTypeOK
  <2>6. QED
    BY <2>1, <2>2, <2>3, <2>4, <2>5
<1>13. ASSUME NEW c \in Caller, LookupStatus(c) PROVE TypeInv'
  <2> USE <1>13 DEF LookupStatus, Settle, ReceiptStatus, Fail, Release, Return, Goto
  <2>1. ChainTypeOK'
    BY DEF ChainTypeOK, CallTypeOK, CurIsTx, HasTx
  <2>2. ExecTypeOK'
    BY DEF ExecTypeOK, CallTypeOK
  <2>3. DecisionTypeOK'
    BY DEF DecisionTypeOK
  <2>4. CallTypeOK'
    BY DEF CallTypeOK, ExecTypeOK, ChainTypeOK
  <2>5. CurIsTx'
    BY DEF CurIsTx, HasTx, CallTypeOK
  <2>6. QED
    BY <2>1, <2>2, <2>3, <2>4, <2>5
<1>14. ASSUME NEW c \in Caller, ResyncNonce(c) PROVE TypeInv'
  <2> USE <1>14 DEF ResyncNonce, Settle, NoNonce, NoTx, Fail, Release, Return, Goto
  <2>1. ChainTypeOK'
    BY DEF ChainTypeOK, CallTypeOK, CurIsTx, HasTx
  <2>2. ExecTypeOK'
    BY DEF ExecTypeOK, CallTypeOK
  <2>3. DecisionTypeOK'
    BY DEF DecisionTypeOK
  <2>4. CallTypeOK'
    <3>1. pc' \in [Caller -> {"idle", "lock", "count", "inflight", "quote", "build",
                             "nonce", "sign", "send", "reconcile", "renonce",
                             "await", "lookup", "resync", "verify", "done"}]
      BY DEF CallTypeOK
    <3>2. nonce' \in [Caller -> Int] /\ attempt' \in [Caller -> 1 .. MaxAttempts]
      BY DEF CallTypeOK, ExecTypeOK
    <3>3. cur' \in [Caller -> 0 .. MaxTx] /\ venue' \in [Caller -> {"aerodrome", "zerox"}]
      BY DEF CallTypeOK, ChainTypeOK
    <3>4. job' \in [Caller -> {"reset", "approve", "swap"}] /\ view' \in [Caller -> Int]
      BY DEF CallTypeOK
    <3>5. QED
      BY <3>1, <3>2, <3>3, <3>4 DEF CallTypeOK
  <2>5. CurIsTx'
    BY DEF CurIsTx, HasTx, CallTypeOK
  <2>6. QED
    BY <2>1, <2>2, <2>3, <2>4, <2>5
<1>15. ASSUME NEW c \in Caller, VerifyFill(c) PROVE TypeInv'
  <2> USE <1>15 DEF VerifyFill, Return, Goto
  <2>1. ChainTypeOK'
    BY DEF ChainTypeOK, CallTypeOK, CurIsTx, HasTx
  <2>2. ExecTypeOK'
    BY DEF ExecTypeOK, CallTypeOK
  <2>3. DecisionTypeOK'
    BY DEF DecisionTypeOK
  <2>4. CallTypeOK'
    BY DEF CallTypeOK, ExecTypeOK, ChainTypeOK
  <2>5. CurIsTx'
    BY DEF CurIsTx, HasTx, CallTypeOK
  <2>6. QED
    BY <2>1, <2>2, <2>3, <2>4, <2>5
<1>16. ASSUME NEW t \in Tx, Mine(t) PROVE TypeInv'
  <2> USE <1>16 DEF Mine, callers
  <2>1. ChainTypeOK'
    BY DEF ChainTypeOK, CallTypeOK, CurIsTx, HasTx
  <2>2. ExecTypeOK'
    BY DEF ExecTypeOK, CallTypeOK
  <2>3. DecisionTypeOK'
    BY DEF DecisionTypeOK
  <2>4. CallTypeOK'
    BY DEF CallTypeOK, ExecTypeOK, ChainTypeOK
  <2>5. CurIsTx'
    BY DEF CurIsTx, HasTx, CallTypeOK
  <2>6. QED
    BY <2>1, <2>2, <2>3, <2>4, <2>5
<1>17. ASSUME NEW t \in Tx, Drop(t) PROVE TypeInv'
  <2> USE <1>17 DEF Drop, callers
  <2>1. ChainTypeOK'
    BY DEF ChainTypeOK, CallTypeOK, CurIsTx, HasTx
  <2>2. ExecTypeOK'
    BY DEF ExecTypeOK, CallTypeOK
  <2>3. DecisionTypeOK'
    BY DEF DecisionTypeOK
  <2>4. CallTypeOK'
    BY DEF CallTypeOK, ExecTypeOK, ChainTypeOK
  <2>5. CurIsTx'
    BY DEF CurIsTx, HasTx, CallTypeOK
  <2>6. QED
    BY <2>1, <2>2, <2>3, <2>4, <2>5
<1>18. ASSUME NEW t \in Tx, Reappear(t) PROVE TypeInv'
  <2> USE <1>18 DEF Reappear, Admit, callers
  <2>1. ChainTypeOK'
    BY DEF ChainTypeOK, CallTypeOK, CurIsTx, HasTx
  <2>2. ExecTypeOK'
    BY DEF ExecTypeOK, CallTypeOK
  <2>3. DecisionTypeOK'
    BY DEF DecisionTypeOK
  <2>4. CallTypeOK'
    BY DEF CallTypeOK, ExecTypeOK, ChainTypeOK
  <2>5. CurIsTx'
    BY DEF CurIsTx, HasTx, CallTypeOK
  <2>6. QED
    BY <2>1, <2>2, <2>3, <2>4, <2>5
<1>19. ASSUME EngageKillSwitch PROVE TypeInv'
  <2> USE <1>19 DEF EngageKillSwitch, callers
  <2>1. ChainTypeOK'
    BY DEF ChainTypeOK, CallTypeOK, CurIsTx, HasTx
  <2>2. ExecTypeOK'
    BY DEF ExecTypeOK, CallTypeOK
  <2>3. DecisionTypeOK'
    BY DEF DecisionTypeOK
  <2>4. CallTypeOK'
    BY DEF CallTypeOK, ExecTypeOK, ChainTypeOK
  <2>5. CurIsTx'
    BY DEF CurIsTx, HasTx, CallTypeOK
  <2>6. QED
    BY <2>1, <2>2, <2>3, <2>4, <2>5
<1>20. ASSUME Restart PROVE TypeInv'
  <2> USE <1>20 DEF Restart, NoNonce, NoTx
  <2>1. ChainTypeOK'
    BY DEF ChainTypeOK, CallTypeOK, CurIsTx, HasTx
  <2>2. ExecTypeOK'
    BY DEF ExecTypeOK, CallTypeOK
  <2>3. DecisionTypeOK'
    BY DEF DecisionTypeOK
  <2>4. CallTypeOK'
    BY DEF CallTypeOK, ExecTypeOK, ChainTypeOK
  <2>5. CurIsTx'
    BY DEF CurIsTx, HasTx, CallTypeOK
  <2>6. QED
    BY <2>1, <2>2, <2>3, <2>4, <2>5
<1>21. CASE UNCHANGED vars
  BY <1>21 DEF vars, ChainTypeOK, ExecTypeOK, DecisionTypeOK, CallTypeOK, CurIsTx, HasTx
<1>22. QED
  BY <1>1, <1>2, <1>3, <1>4, <1>5, <1>6, <1>7, <1>8, <1>9, <1>10, <1>11, <1>12, <1>13, <1>14, <1>15, <1>16, <1>17, <1>18, <1>19, <1>20, <1>21
  DEF Next, Step, Node

\* Every variable of the write path keeps its type, whatever the constants.
THEOREM TypeCorrect == Spec => []TypeOK
<1>1. Spec => []TypeInv
  BY TypeInit, TypeStep, PTL DEF Spec
<1>2. TypeInv => TypeOK
  BY DEF TypeInv
<1>3. QED
  BY <1>1, <1>2, PTL

------------------------------------------------------------------------------
(* The nonce lock *)

\* Where a caller is inside the with _nonce_lock block: from the in-flight
\* check to the broadcast of the swap, the waits for its approvals included.
InLock(c) ==
  \/ pc[c] \in {"count", "inflight", "quote", "build", "nonce", "sign", "send",
                "reconcile", "renonce"}
  \/ pc[c] \in {"await", "lookup", "resync"} /\ job[c] # "swap"

LockInv == \A c \in Caller : InLock(c) => lock[ExecOf[c]] = c

LEMMA LockInit == Init => LockInv
  BY SwapAssumption DEF SwapAssumption, Init, LockInv, InLock

LEMMA LockStep == TypeInv /\ LockInv /\ [Next]_vars => LockInv'
<1> SUFFICES ASSUME TypeInv, LockInv, [Next]_vars PROVE LockInv'
  OBVIOUS
<1> USE SwapAssumption
    DEF SwapAssumption, TypeInv, TypeOK, CallTypeOK, ExecTypeOK, LockInv, InLock,
        chain, txs, executor, decision
<1>1. ASSUME NEW c \in Caller, ExecuteSwap(c) PROVE LockInv'
  BY <1>1 DEF ExecuteSwap, Enter, Return, Goto
<1>2. ASSUME NEW c \in Caller, StopLossFallback(c) PROVE LockInv'
  BY <1>2 DEF StopLossFallback, Enter, Return, Goto
<1>3. ASSUME NEW c \in Caller, AcquireNonceLock(c) PROVE LockInv'
  BY <1>3 DEF AcquireNonceLock, CanLock, Goto
<1>4. ASSUME NEW c \in Caller, ReadPendingCount(c) PROVE LockInv'
  BY <1>4 DEF ReadPendingCount, Fail, Release, Return, Goto
<1>5. ASSUME NEW c \in Caller, InFlightCheck(c) PROVE LockInv'
  BY <1>5 DEF InFlightCheck, Fail, Release, Return, Goto
<1>6. ASSUME NEW c \in Caller, Quote(c) PROVE LockInv'
  BY <1>6 DEF Quote, Fail, ZeroExUnavailable, Release, Return, Goto
<1>7. ASSUME NEW c \in Caller, BuildSwap(c) PROVE LockInv'
  BY <1>7 DEF BuildSwap, Fail, ZeroExUnavailable, Release, Return, Goto
<1>8. ASSUME NEW c \in Caller, GetNonce(c) PROVE LockInv'
  BY <1>8 DEF GetNonce, Fail, Release, Return, Goto
<1>9. ASSUME NEW c \in Caller, Sign(c) PROVE LockInv'
  BY <1>9 DEF Sign, SignTx, Fail, Release, Return, Goto
<1>10. ASSUME NEW c \in Caller, Broadcast(c) PROVE LockInv'
  BY <1>10 DEF Broadcast, Commit, Release, Goto
<1>11. ASSUME NEW c \in Caller, Reconcile(c) PROVE LockInv'
  BY <1>11 DEF Reconcile, SignAgain, Commit, Fail, Release, Return, Goto
<1>12. ASSUME NEW c \in Caller, AwaitReceipt(c) PROVE LockInv'
  BY <1>12 DEF AwaitReceipt, Settle, Fail, Release, Return, Goto
<1>13. ASSUME NEW c \in Caller, LookupStatus(c) PROVE LockInv'
  BY <1>13 DEF LookupStatus, Settle, Fail, Release, Return, Goto
<1>14. ASSUME NEW c \in Caller, ResyncNonce(c) PROVE LockInv'
  BY <1>14 DEF ResyncNonce, Settle, Fail, Release, Return, Goto
<1>15. ASSUME NEW c \in Caller, VerifyFill(c) PROVE LockInv'
  BY <1>15 DEF VerifyFill, Return, Goto
<1>16. ASSUME NEW t \in Tx, Mine(t) PROVE LockInv'
  BY <1>16 DEF Mine, callers
<1>17. ASSUME NEW t \in Tx, Drop(t) PROVE LockInv'
  BY <1>17 DEF Drop, callers
<1>18. ASSUME NEW t \in Tx, Reappear(t) PROVE LockInv'
  BY <1>18 DEF Reappear, callers
<1>19. CASE EngageKillSwitch
  BY <1>19 DEF EngageKillSwitch, callers
<1>20. CASE Restart
  BY <1>20 DEF Restart
<1>21. CASE UNCHANGED vars
  BY <1>21 DEF vars
<1>22. QED
  BY <1>1, <1>2, <1>3, <1>4, <1>5, <1>6, <1>7, <1>8, <1>9, <1>10, <1>11, <1>12, <1>13, <1>14, <1>15, <1>16, <1>17, <1>18, <1>19, <1>20, <1>21
  DEF Next, Step, Node

------------------------------------------------------------------------------
(* The transaction a caller is busy with *)

CurInv ==
  \A c \in Caller :
     /\ HasTx(c) => /\ cur[c] \in 1 .. signed
                    /\ txSale[cur[c]] = <<c, sale[c]>>
                    /\ txKind[cur[c]] = job[c]
     /\ pc[c] = "resync" => result[c] \in {"dropped", "pending"}

LEMMA CurInit == Init => CurInv
  BY DEF Init, CurInv, HasTx

LEMMA CurStep == TypeInv /\ CurInv /\ [Next]_vars => CurInv'
<1> SUFFICES ASSUME TypeInv, CurInv, [Next]_vars PROVE CurInv'
  OBVIOUS
<1> USE SwapAssumption
    DEF SwapAssumption, TypeInv, TypeOK, CallTypeOK, ChainTypeOK, DecisionTypeOK,
        CurIsTx, CurInv, HasTx, chain, txs, executor, decision
<1>1. ASSUME NEW c \in Caller, ExecuteSwap(c) PROVE CurInv'
  BY <1>1 DEF ExecuteSwap, Enter, Return, Goto, NoTx
<1>2. ASSUME NEW c \in Caller, StopLossFallback(c) PROVE CurInv'
  BY <1>2 DEF StopLossFallback, Enter, Return, Goto
<1>3. ASSUME NEW c \in Caller, AcquireNonceLock(c) PROVE CurInv'
  BY <1>3 DEF AcquireNonceLock, CanLock, Goto
<1>4. ASSUME NEW c \in Caller, ReadPendingCount(c) PROVE CurInv'
  BY <1>4 DEF ReadPendingCount, Fail, Release, Return, Goto
<1>5. ASSUME NEW c \in Caller, InFlightCheck(c) PROVE CurInv'
  BY <1>5 DEF InFlightCheck, Fail, Release, Return, Goto
<1>6. ASSUME NEW c \in Caller, Quote(c) PROVE CurInv'
  BY <1>6 DEF Quote, Fail, ZeroExUnavailable, Release, Return, Goto
<1>7. ASSUME NEW c \in Caller, BuildSwap(c) PROVE CurInv'
  BY <1>7 DEF BuildSwap, Fail, ZeroExUnavailable, Release, Return, Goto
<1>8. ASSUME NEW c \in Caller, GetNonce(c) PROVE CurInv'
  BY <1>8 DEF GetNonce, Fail, Release, Return, Goto, NoNonce, NoTx
<1>9. ASSUME NEW c \in Caller, Sign(c) PROVE CurInv'
  <2>1. CASE Fail(c) /\ UNCHANGED <<chain, txs, cur>>
    BY <1>9, <2>1 DEF Sign, Fail, Release, Return, Goto
  <2>2. CASE SignTx(c, signed + 1)
    <3>1. ASSUME NEW d \in Caller, d # c, HasTx(d)'
          PROVE  /\ cur'[d] \in 1 .. signed'
                 /\ txSale'[cur'[d]] = <<d, sale'[d]>>
                 /\ txKind'[cur'[d]] = job'[d]
      <4>1. HasTx(d) /\ cur'[d] = cur[d] /\ job' = job /\ sale' = sale
        BY <1>9, <2>2, <3>1 DEF Sign, SignTx, Goto
      <4>2. cur[d] \in 1 .. signed /\ signed \in Nat /\ cur[d] # signed + 1
        BY <4>1
      <4>3. cur[d] \in Tx /\ signed' = signed + 1
        BY <2>2, <4>1 DEF SignTx
      <4>4. txSale'[cur[d]] = txSale[cur[d]] /\ txKind'[cur[d]] = txKind[cur[d]]
        BY ONLY <2>2, <4>2, <4>3, TypeInv DEF SignTx, TypeInv, TypeOK, ChainTypeOK
      <4>5. cur[d] \in 1 .. signed'
        BY ONLY <4>2, <4>3
      <4>6. QED
        BY <4>1, <4>4, <4>5
    <3>2. /\ cur'[c] \in 1 .. signed'
          /\ txSale'[cur'[c]] = <<c, sale'[c]>>
          /\ txKind'[cur'[c]] = job'[c]
      BY <1>9, <2>2 DEF Sign, SignTx, Tx
    <3>3. \A d \in Caller : pc'[d] = "resync" => result'[d] \in {"dropped", "pending"}
      BY <1>9, <2>2 DEF Sign, SignTx, Goto
    <3>4. QED
      BY <3>1, <3>2, <3>3
  <2>3. QED
    BY <1>9, <2>1, <2>2 DEF Sign
<1>10. ASSUME NEW c \in Caller, Broadcast(c) PROVE CurInv'
  BY <1>10 DEF Broadcast, Admit, Commit, NoNonce, Release, Goto
<1>11. ASSUME NEW c \in Caller, Reconcile(c) PROVE CurInv'
  BY <1>11 DEF Reconcile, SignAgain, Commit, NoNonce, Fail, Release, Return, Goto
<1>12. ASSUME NEW c \in Caller, AwaitReceipt(c) PROVE CurInv'
  BY <1>12 DEF AwaitReceipt, Settle, ReceiptStatus, Fail, Release, Return, Goto
<1>13. ASSUME NEW c \in Caller, LookupStatus(c) PROVE CurInv'
  BY <1>13 DEF LookupStatus, Settle, ReceiptStatus, Fail, Release, Return, Goto
<1>14. ASSUME NEW c \in Caller, ResyncNonce(c) PROVE CurInv'
  BY <1>14 DEF ResyncNonce, Settle, NoNonce, NoTx, Fail, Release, Return, Goto
<1>15. ASSUME NEW c \in Caller, VerifyFill(c) PROVE CurInv'
  BY <1>15 DEF VerifyFill, Return, Goto
<1>16. ASSUME NEW t \in Tx, Mine(t) PROVE CurInv'
  BY <1>16 DEF Mine, callers
<1>17. ASSUME NEW t \in Tx, Drop(t) PROVE CurInv'
  BY <1>17 DEF Drop, callers
<1>18. ASSUME NEW t \in Tx, Reappear(t) PROVE CurInv'
  BY <1>18 DEF Reappear, Admit, callers
<1>19. CASE EngageKillSwitch
  BY <1>19 DEF EngageKillSwitch, callers
<1>20. CASE Restart
  BY <1>20 DEF Restart, NoNonce, NoTx
<1>21. CASE UNCHANGED vars
  BY <1>21 DEF vars
<1>22. QED
  BY <1>1, <1>2, <1>3, <1>4, <1>5, <1>6, <1>7, <1>8, <1>9, <1>10, <1>11, <1>12, <1>13, <1>14, <1>15, <1>16, <1>17, <1>18, <1>19, <1>20, <1>21
  DEF Next, Step, Node

------------------------------------------------------------------------------
(* The kill switch *)

\* After the kill switch no instance that broadcast something still holds a
\* signed transaction.
KillInv ==
  /\ \A t \in sentAfterKill : killSwitch /\ t \in 1 .. signed
  /\ \A t \in sentAfterKill : \A c \in Caller :
        pc[c] = "send" => ExecOf[txSale[t][1]] # ExecOf[c]
  /\ AtMostOneAfterKill

LEMMA KillInit == Init => KillInv
  BY DEF Init, KillInv, AtMostOneAfterKill

LEMMA KillStep ==
  TypeInv /\ LockInv /\ CurInv /\ KillInv /\ [Next]_vars => KillInv'
<1> SUFFICES ASSUME TypeInv, LockInv, CurInv, KillInv, [Next]_vars PROVE KillInv'
  OBVIOUS
<1> USE SwapAssumption
    DEF SwapAssumption, TypeInv, TypeOK, CallTypeOK, ChainTypeOK,
        LockInv, InLock, CurInv, HasTx, KillInv, AtMostOneAfterKill,
        chain, txs, executor, decision
<1>1. ASSUME NEW c \in Caller, ExecuteSwap(c) PROVE KillInv'
  BY <1>1 DEF ExecuteSwap, Enter, Return, Goto, NoTx
<1>2. ASSUME NEW c \in Caller, StopLossFallback(c) PROVE KillInv'
  BY <1>2 DEF StopLossFallback, Enter, Return, Goto
<1>3. ASSUME NEW c \in Caller, AcquireNonceLock(c) PROVE KillInv'
  BY <1>3 DEF AcquireNonceLock, CanLock, Goto
<1>4. ASSUME NEW c \in Caller, ReadPendingCount(c) PROVE KillInv'
  BY <1>4 DEF ReadPendingCount, Fail, Release, Return, Goto
<1>5. ASSUME NEW c \in Caller, InFlightCheck(c) PROVE KillInv'
  BY <1>5 DEF InFlightCheck, Fail, Release, Return, Goto
<1>6. ASSUME NEW c \in Caller, Quote(c) PROVE KillInv'
  BY <1>6 DEF Quote, Fail, ZeroExUnavailable, Release, Return, Goto
<1>7. ASSUME NEW c \in Caller, BuildSwap(c) PROVE KillInv'
  BY <1>7 DEF BuildSwap, Fail, ZeroExUnavailable, Release, Return, Goto
<1>8. ASSUME NEW c \in Caller, GetNonce(c) PROVE KillInv'
  BY <1>8 DEF GetNonce, Fail, Release, Return, Goto, NoNonce, NoTx
<1>9. ASSUME NEW c \in Caller, Sign(c) PROVE KillInv'
  <2>1. CASE Fail(c) /\ UNCHANGED <<chain, txs, cur>>
    BY <1>9, <2>1 DEF Sign, Fail, Release, Return, Goto
  <2>2. CASE SignTx(c, signed + 1)
    <3>1. sentAfterKill' = {}
      BY <1>9, <2>2 DEF Sign, SignTx, MaySign
    <3>2. QED
      BY <3>1
  <2>3. QED
    BY <1>9, <2>1, <2>2 DEF Sign
<1>10. ASSUME NEW c \in Caller, Broadcast(c) PROVE KillInv'
  BY <1>10 DEF Broadcast, Admit, Commit, NoNonce, Release, Goto
<1>11. ASSUME NEW c \in Caller, Reconcile(c) PROVE KillInv'
  BY <1>11 DEF Reconcile, SignAgain, Commit, NoNonce, Fail, Release, Return, Goto
<1>12. ASSUME NEW c \in Caller, AwaitReceipt(c) PROVE KillInv'
  BY <1>12 DEF AwaitReceipt, Settle, ReceiptStatus, Fail, Release, Return, Goto
<1>13. ASSUME NEW c \in Caller, LookupStatus(c) PROVE KillInv'
  BY <1>13 DEF LookupStatus, Settle, ReceiptStatus, Fail, Release, Return, Goto
<1>14. ASSUME NEW c \in Caller, ResyncNonce(c) PROVE KillInv'
  BY <1>14 DEF ResyncNonce, Settle, NoNonce, NoTx, Fail, Release, Return, Goto
<1>15. ASSUME NEW c \in Caller, VerifyFill(c) PROVE KillInv'
  BY <1>15 DEF VerifyFill, Return, Goto
<1>16. ASSUME NEW t \in Tx, Mine(t) PROVE KillInv'
  BY <1>16 DEF Mine, callers
<1>17. ASSUME NEW t \in Tx, Drop(t) PROVE KillInv'
  BY <1>17 DEF Drop, callers
<1>18. ASSUME NEW t \in Tx, Reappear(t) PROVE KillInv'
  BY <1>18 DEF Reappear, Admit, callers
<1>19. CASE EngageKillSwitch
  BY <1>19 DEF EngageKillSwitch, callers
<1>20. CASE Restart
  BY <1>20 DEF Restart, NoNonce, NoTx
<1>21. CASE UNCHANGED vars
  BY <1>21 DEF vars
<1>22. QED
  BY <1>1, <1>2, <1>3, <1>4, <1>5, <1>6, <1>7, <1>8, <1>9, <1>10, <1>11, <1>12, <1>13, <1>14, <1>15, <1>16, <1>17, <1>18, <1>19, <1>20, <1>21
  DEF Next, Step, Node

\* Once the kill switch is engaged an instance broadcasts at most one more
\* transaction, under any node behaviour.
THEOREM KillSwitchStops == Spec => []AtMostOneAfterKill
<1>1. Init => TypeInv /\ LockInv /\ CurInv /\ KillInv
  BY TypeInit, LockInit, CurInit, KillInit
<1>2. TypeInv /\ LockInv /\ CurInv /\ KillInv /\ [Next]_vars
        => (TypeInv /\ LockInv /\ CurInv /\ KillInv)'
  BY TypeStep, LockStep, CurStep, KillStep
<1>3. KillInv => AtMostOneAfterKill
  BY DEF KillInv
<1>4. QED
  BY <1>1, <1>2, <1>3, PTL DEF Spec

------------------------------------------------------------------------------

(* Failure is final *)

Live(t) == Pending(t) \/ txState[t] = "ok"

\* t is a swap signed for the current decision of c.
OwnSwap(t, c) == txKind[t] = "swap" /\ txSale[t] = <<c, sale[c]>>

\* The caller is still going to learn, or has said, that its transaction lives.
Awaits(c) ==
  \/ pc[c] \in {"reconcile", "renonce", "await", "lookup", "verify"}
  \/ pc[c] = "resync" /\ result[c] = "pending"
  \/ pc[c] = "done" /\ result[c] \in {"filled", "pending"}

\* Nothing beyond the last signed transaction exists, and each was signed for
\* a decision that was taken.
SignedInv ==
  /\ \A t \in Tx : t > signed => txState[t] = "none"
  /\ \A t \in 1 .. signed : \A c \in Caller : \A k \in Nat :
        txSale[t] = <<c, k>> => k <= sale[c]

\* A live swap of a caller's current decision is the one the caller waits for.
LiveIsAwaited ==
  \A t \in 1 .. signed : \A c \in Caller :
     OwnSwap(t, c) /\ Live(t) => pc[c] = "idle" \/ (cur[c] = t /\ Awaits(c))

LEMMA SignedInit == Init => SignedInv
  BY SwapAssumption DEF SwapAssumption, Init, SignedInv, Tx

\* A step that signs nothing and takes no decision.
LEMMA SignedFrame ==
  ASSUME SignedInv, UNCHANGED <<txs, sale>>,
         \A t \in Tx : t > signed => txState'[t] = txState[t]
  PROVE  SignedInv'
  BY DEF SignedInv, txs

LEMMA SignedStep == TypeInv /\ CurInv /\ SignedInv /\ [Next]_vars => SignedInv'
<1> SUFFICES ASSUME TypeInv, CurInv, SignedInv, [Next]_vars PROVE SignedInv'
  OBVIOUS
<1> USE SwapAssumption
    DEF SwapAssumption, TypeInv, TypeOK, ChainTypeOK, DecisionTypeOK, SignedInv,
        Tx, chain, txs, executor, decision
<1>1. ASSUME NEW c \in Caller, ExecuteSwap(c) PROVE SignedInv'
  BY <1>1 DEF ExecuteSwap, Enter, Return, Goto, NoTx
<1>2. ASSUME NEW c \in Caller, StopLossFallback(c) PROVE SignedInv'
  BY <1>2 DEF StopLossFallback, Enter, Return, Goto
<1>3. ASSUME NEW c \in Caller, AcquireNonceLock(c) PROVE SignedInv'
  BY <1>3 DEF AcquireNonceLock, Goto
<1>4. ASSUME NEW c \in Caller, ReadPendingCount(c) PROVE SignedInv'
  BY <1>4 DEF ReadPendingCount, Fail, Release, Return, Goto
<1>5. ASSUME NEW c \in Caller, InFlightCheck(c) PROVE SignedInv'
  BY <1>5 DEF InFlightCheck, CountsDiffer, Fail, Release, Return, Goto
<1>6. ASSUME NEW c \in Caller, Quote(c) PROVE SignedInv'
  BY <1>6 DEF Quote, Fail, ZeroExUnavailable, Release, Return, Goto
<1>7. ASSUME NEW c \in Caller, BuildSwap(c) PROVE SignedInv'
  BY <1>7 DEF BuildSwap, Fail, ZeroExUnavailable, Release, Return, Goto
<1>8. ASSUME NEW c \in Caller, GetNonce(c) PROVE SignedInv'
  BY <1>8 DEF GetNonce, Fail, Release, Return, Goto, NoNonce, NoTx
<1>9. ASSUME NEW c \in Caller, Sign(c) PROVE SignedInv'
  <2>1. CASE Fail(c) /\ UNCHANGED <<chain, txs, cur>>
    BY <1>9, <2>1 DEF Sign, Fail, Return
  <2>2. CASE SignTx(c, signed + 1)
    <3>1. sale' = sale /\ signed' = signed + 1 /\ signed \in Nat
      BY <1>9, <2>2 DEF Sign, SignTx
    <3>2. \A t \in Tx : t > signed' => txState'[t] = "none"
      BY <2>2, <3>1 DEF SignTx, Tx
    <3>3. \A t \in 1 .. signed : txSale'[t] = txSale[t]
      <4>1. \A t \in 1 .. signed : t \in Tx /\ t # signed + 1
        BY <2>2, <3>1 DEF SignTx, Tx
      <4>2. QED
        BY ONLY <2>2, <4>1, TypeInv DEF SignTx, TypeInv, TypeOK, ChainTypeOK
    <3>4. txSale'[signed + 1] = <<c, sale[c]>>
      BY <2>2 DEF SignTx
    <3>5. ASSUME NEW t \in 1 .. signed', NEW e \in Caller, NEW k \in Nat, txSale'[t] = <<e, k>>
          PROVE  k <= sale'[e]
      <4>1. CASE t = signed + 1
        BY <3>1, <3>4, <3>5, <4>1
      <4>2. CASE t # signed + 1
        <5>1. t \in 1 .. signed
          BY ONLY <3>1, <3>5, <4>2
        <5>2. txSale[t] = <<e, k>> /\ k <= sale[e]
          BY ONLY <3>3, <3>5, <5>1, SignedInv DEF SignedInv
        <5>3. QED
          BY ONLY <3>1, <5>2
      <4>3. QED
        BY <4>1, <4>2
    <3>6. QED
      BY <3>2, <3>5
  <2>3. QED
    BY <1>9, <2>1, <2>2 DEF Sign
<1>10. ASSUME NEW c \in Caller, Broadcast(c) PROVE SignedInv'
  <2>1. UNCHANGED <<txs, sale>>
    BY <1>10 DEF Broadcast
  <2>2. cur[c] \in Tx /\ ~(cur[c] > signed)
    BY <1>10 DEF Broadcast, CurInv, CurIsTx, HasTx
  <2>3. \A u \in Tx : u > signed => txState'[u] = txState[u]
    BY <1>10, <2>2 DEF Broadcast, Admit, Pending
  <2>4. QED
    BY <2>1, <2>3, SignedFrame
<1>11. ASSUME NEW c \in Caller, Reconcile(c) PROVE SignedInv'
  BY <1>11 DEF Reconcile, SignAgain, Commit, NoNonce, Fail, Release, Return, Goto
<1>12. ASSUME NEW c \in Caller, AwaitReceipt(c) PROVE SignedInv'
  BY <1>12 DEF AwaitReceipt, Settle, ReceiptStatus, Fail, Release, Return, Goto
<1>13. ASSUME NEW c \in Caller, LookupStatus(c) PROVE SignedInv'
  BY <1>13 DEF LookupStatus, Vanished, Settle, ReceiptStatus, Fail, Release, Return, Goto
<1>14. ASSUME NEW c \in Caller, ResyncNonce(c) PROVE SignedInv'
  BY <1>14 DEF ResyncNonce, Settle, NoNonce, NoTx, Fail, Release, Return, Goto
<1>15. ASSUME NEW c \in Caller, VerifyFill(c) PROVE SignedInv'
  BY <1>15 DEF VerifyFill, Return, Goto
<1>16. ASSUME NEW t \in Tx, Mine(t) PROVE SignedInv'
  <2>1. UNCHANGED <<txs, sale>>
    BY <1>16 DEF Mine, callers
  <2>2. \A u \in Tx : u > signed => txState'[u] = txState[u]
    BY <1>16 DEF Mine, callers, Pending
  <2>3. QED
    BY <2>1, <2>2, SignedFrame
<1>17. ASSUME NEW t \in Tx, Drop(t) PROVE SignedInv'
  <2>1. UNCHANGED <<txs, sale>>
    BY <1>17 DEF Drop, callers
  <2>2. \A u \in Tx : u > signed => txState'[u] = txState[u]
    BY <1>17 DEF Drop, callers, Pending
  <2>3. QED
    BY <2>1, <2>2, SignedFrame
<1>18. ASSUME NEW t \in Tx, Reappear(t) PROVE SignedInv'
  <2>1. UNCHANGED <<txs, sale>>
    BY <1>18 DEF Reappear, callers
  <2>2. \A u \in Tx : u > signed => txState'[u] = txState[u]
    BY <1>18 DEF Reappear, Admit, Pending
  <2>3. QED
    BY <2>1, <2>2, SignedFrame
<1>19. CASE EngageKillSwitch
  BY <1>19 DEF EngageKillSwitch, callers
<1>20. CASE Restart
  BY <1>20 DEF Restart, NoNonce, NoTx
<1>21. CASE UNCHANGED vars
  BY <1>21 DEF vars
<1>22. QED
  BY <1>1, <1>2, <1>3, <1>4, <1>5, <1>6, <1>7, <1>8, <1>9, <1>10, <1>11, <1>12, <1>13, <1>14, <1>15, <1>16, <1>17, <1>18, <1>19, <1>20, <1>21
  DEF Next, Step, Node

LEMMA LiveInit == Init => LiveIsAwaited
  BY SwapAssumption DEF SwapAssumption, Init, LiveIsAwaited

\* A step of c that touches no transaction and keeps c waiting.
LEMMA OwnFrame ==
  ASSUME TypeInv, LiveIsAwaited, UNCHANGED <<txs, sale>>, txState' = txState, NEW c \in Caller,
         \A e \in Caller : e # c => pc'[e] = pc[e] /\ result'[e] = result[e] /\ cur'[e] = cur[e],
         pc[c] # "idle",
         Awaits(c) /\ Live(cur[c]) /\ txKind[cur[c]] = "swap"
           => cur'[c] = cur[c] /\ Awaits(c)'
  PROVE  LiveIsAwaited'
<1> SUFFICES ASSUME NEW t \in 1 .. signed', NEW e \in Caller, OwnSwap(t, e)', Live(t)'
             PROVE  pc'[e] = "idle" \/ (cur'[e] = t /\ Awaits(e)')
  BY DEF LiveIsAwaited
<1>1. t \in 1 .. signed /\ OwnSwap(t, e) /\ Live(t)
  BY DEF txs, OwnSwap, Live, Pending
<1>2. pc[e] = "idle" \/ (cur[e] = t /\ Awaits(e))
  BY <1>1 DEF LiveIsAwaited
<1>3. txKind[t] = "swap"
  BY <1>1 DEF OwnSwap
<1>4. CASE e = c
  <2>1. cur[c] = t /\ Awaits(c)
    BY <1>2, <1>4 DEF Awaits
  <2>2. Live(cur[c]) /\ txKind[cur[c]] = "swap"
    BY <1>1, <1>3, <2>1
  <2>3. cur'[c] = t /\ Awaits(c)'
    BY <2>1, <2>2
  <2>4. QED
    BY <1>4, <2>3 DEF Awaits
<1>5. CASE e # c
  BY <1>2, <1>5 DEF Awaits
<1>6. QED
  BY <1>4, <1>5

\* A step of the node that brings nothing to life.
LEMMA EnvFrame ==
  ASSUME TypeInv, LiveIsAwaited, UNCHANGED <<txs, sale, pc, cur, result>>,
         \A t \in Tx : Live(t)' => Live(t)
  PROVE  LiveIsAwaited'
<1> SUFFICES ASSUME NEW t \in 1 .. signed', NEW e \in Caller, OwnSwap(t, e)', Live(t)'
             PROVE  pc'[e] = "idle" \/ (cur'[e] = t /\ Awaits(e)')
  BY DEF LiveIsAwaited
<1>1. t \in 1 .. signed /\ t \in Tx /\ OwnSwap(t, e)
  BY SwapAssumption DEF SwapAssumption, txs, OwnSwap, TypeInv, TypeOK, ChainTypeOK, Tx
<1>2. QED
  BY <1>1 DEF LiveIsAwaited, Awaits

LEMMA LiveStep ==
  ASSUME "regossip" \notin Faults, "late" \notin Faults
  PROVE  TypeInv /\ CurInv /\ SignedInv /\ LiveIsAwaited /\ [Next]_vars => LiveIsAwaited'
<1> SUFFICES ASSUME TypeInv, CurInv, SignedInv, LiveIsAwaited, [Next]_vars
             PROVE  LiveIsAwaited'
  OBVIOUS
<1> USE SwapAssumption, "regossip" \notin Faults, "late" \notin Faults
    DEF SwapAssumption, TypeInv, TypeOK, chain, decision
<1>1. ASSUME NEW c \in Caller, ExecuteSwap(c) PROVE LiveIsAwaited'
  <2>1. UNCHANGED txs /\ txState' = txState /\ sale' = [sale EXCEPT ![c] = @ + 1]
    BY <1>1 DEF ExecuteSwap, chain
  <2>2. \A e \in Caller : e # c => pc'[e] = pc[e] /\ result'[e] = result[e] /\ cur'[e] = cur[e]
    BY <1>1 DEF ExecuteSwap, Enter, Return, Goto, CallTypeOK, DecisionTypeOK
  <2>3. \A t \in 1 .. signed : txSale[t] # <<c, sale'[c]>>
    BY <2>1 DEF SignedInv, DecisionTypeOK
  <2>4. \A e \in Caller : e # c => sale'[e] = sale[e]
    BY <2>1 DEF DecisionTypeOK
  <2>5. ASSUME NEW t \in 1 .. signed', NEW e \in Caller, OwnSwap(t, e)', Live(t)'
        PROVE  pc'[e] = "idle" \/ (cur'[e] = t /\ Awaits(e)')
    <3>1. t \in 1 .. signed /\ e # c
      BY <2>1, <2>3, <2>5 DEF OwnSwap, txs
    <3>2. OwnSwap(t, e) /\ Live(t)
      BY <2>1, <2>4, <2>5, <3>1 DEF OwnSwap, txs, Live, Pending
    <3>3. QED
      BY <2>2, <3>1, <3>2 DEF LiveIsAwaited, Awaits
  <2>6. QED
    BY <2>5 DEF LiveIsAwaited
<1>2. ASSUME NEW c \in Caller, StopLossFallback(c) PROVE LiveIsAwaited'
  <2>1. UNCHANGED <<txs, sale>> /\ txState' = txState
    BY <1>2 DEF StopLossFallback, Enter, Return, Goto
  <2>2. \A e \in Caller : e # c => pc'[e] = pc[e] /\ result'[e] = result[e] /\ cur'[e] = cur[e]
    BY <1>2 DEF StopLossFallback, Enter, Return, Goto, CallTypeOK, DecisionTypeOK
  <2>3. pc[c] # "idle" /\ (Awaits(c) /\ Live(cur[c]) /\ txKind[cur[c]] = "swap"
                          => cur'[c] = cur[c] /\ Awaits(c)')
    BY <1>2 DEF StopLossFallback, Enter, Return, Goto, CallTypeOK, DecisionTypeOK, CurInv, HasTx, Awaits, IsKnown, Mined, Pending, Live
  <2>4. QED
    BY <2>1, <2>2, <2>3, OwnFrame
<1>3. ASSUME NEW c \in Caller, AcquireNonceLock(c) PROVE LiveIsAwaited'
  <2>1. UNCHANGED <<txs, sale>> /\ txState' = txState
    BY <1>3 DEF AcquireNonceLock, Goto
  <2>2. \A e \in Caller : e # c => pc'[e] = pc[e] /\ result'[e] = result[e] /\ cur'[e] = cur[e]
    BY <1>3 DEF AcquireNonceLock, Goto, CallTypeOK, DecisionTypeOK
  <2>3. pc[c] # "idle" /\ (Awaits(c) /\ Live(cur[c]) /\ txKind[cur[c]] = "swap"
                          => cur'[c] = cur[c] /\ Awaits(c)')
    BY <1>3 DEF AcquireNonceLock, Goto, CallTypeOK, DecisionTypeOK, CurInv, HasTx, Awaits, IsKnown, Mined, Pending, Live
  <2>4. QED
    BY <2>1, <2>2, <2>3, OwnFrame
<1>4. ASSUME NEW c \in Caller, ReadPendingCount(c) PROVE LiveIsAwaited'
  <2>1. UNCHANGED <<txs, sale>> /\ txState' = txState
    BY <1>4 DEF ReadPendingCount, Fail, Release, Return, Goto
  <2>2. \A e \in Caller : e # c => pc'[e] = pc[e] /\ result'[e] = result[e] /\ cur'[e] = cur[e]
    BY <1>4 DEF ReadPendingCount, Fail, Release, Return, Goto, CallTypeOK, DecisionTypeOK
  <2>3. pc[c] # "idle" /\ (Awaits(c) /\ Live(cur[c]) /\ txKind[cur[c]] = "swap"
                          => cur'[c] = cur[c] /\ Awaits(c)')
    BY <1>4 DEF ReadPendingCount, Fail, Release, Return, Goto, CallTypeOK, DecisionTypeOK, CurInv, HasTx, Awaits, IsKnown, Mined, Pending, Live
  <2>4. QED
    BY <2>1, <2>2, <2>3, OwnFrame
<1>5. ASSUME NEW c \in Caller, InFlightCheck(c) PROVE LiveIsAwaited'
  <2>1. UNCHANGED <<txs, sale>> /\ txState' = txState
    BY <1>5 DEF InFlightCheck, CountsDiffer, Fail, Release, Return, Goto
  <2>2. \A e \in Caller : e # c => pc'[e] = pc[e] /\ result'[e] = result[e] /\ cur'[e] = cur[e]
    BY <1>5 DEF InFlightCheck, CountsDiffer, Fail, Release, Return, Goto, CallTypeOK, DecisionTypeOK
  <2>3. pc[c] # "idle" /\ (Awaits(c) /\ Live(cur[c]) /\ txKind[cur[c]] = "swap"
                          => cur'[c] = cur[c] /\ Awaits(c)')
    BY <1>5 DEF InFlightCheck, CountsDiffer, Fail, Release, Return, Goto, CallTypeOK, DecisionTypeOK, CurInv, HasTx, Awaits, IsKnown, Mined, Pending, Live
  <2>4. QED
    BY <2>1, <2>2, <2>3, OwnFrame
<1>6. ASSUME NEW c \in Caller, Quote(c) PROVE LiveIsAwaited'
  <2>1. UNCHANGED <<txs, sale>> /\ txState' = txState
    BY <1>6 DEF Quote, Fail, ZeroExUnavailable, Release, Return, Goto
  <2>2. \A e \in Caller : e # c => pc'[e] = pc[e] /\ result'[e] = result[e] /\ cur'[e] = cur[e]
    BY <1>6 DEF Quote, Fail, ZeroExUnavailable, Release, Return, Goto, CallTypeOK, DecisionTypeOK
  <2>3. pc[c] # "idle" /\ (Awaits(c) /\ Live(cur[c]) /\ txKind[cur[c]] = "swap"
                          => cur'[c] = cur[c] /\ Awaits(c)')
    BY <1>6 DEF Quote, Fail, ZeroExUnavailable, Release, Return, Goto, CallTypeOK, DecisionTypeOK, CurInv, HasTx, Awaits, IsKnown, Mined, Pending, Live
  <2>4. QED
    BY <2>1, <2>2, <2>3, OwnFrame
<1>7. ASSUME NEW c \in Caller, BuildSwap(c) PROVE LiveIsAwaited'
  <2>1. UNCHANGED <<txs, sale>> /\ txState' = txState
    BY <1>7 DEF BuildSwap, Fail, ZeroExUnavailable, Release, Return, Goto
  <2>2. \A e \in Caller : e # c => pc'[e] = pc[e] /\ result'[e] = result[e] /\ cur'[e] = cur[e]
    BY <1>7 DEF BuildSwap, Fail, ZeroExUnavailable, Release, Return, Goto, CallTypeOK, DecisionTypeOK
  <2>3. pc[c] # "idle" /\ (Awaits(c) /\ Live(cur[c]) /\ txKind[cur[c]] = "swap"
                          => cur'[c] = cur[c] /\ Awaits(c)')
    BY <1>7 DEF BuildSwap, Fail, ZeroExUnavailable, Release, Return, Goto, CallTypeOK, DecisionTypeOK, CurInv, HasTx, Awaits, IsKnown, Mined, Pending, Live
  <2>4. QED
    BY <2>1, <2>2, <2>3, OwnFrame
<1>8. ASSUME NEW c \in Caller, GetNonce(c) PROVE LiveIsAwaited'
  <2>1. UNCHANGED <<txs, sale>> /\ txState' = txState
    BY <1>8 DEF GetNonce, Fail, Release, Return, Goto, NoNonce, NoTx
  <2>2. \A e \in Caller : e # c => pc'[e] = pc[e] /\ result'[e] = result[e] /\ cur'[e] = cur[e]
    BY <1>8 DEF GetNonce, Fail, Release, Return, Goto, NoNonce, NoTx, CallTypeOK, DecisionTypeOK
  <2>3. pc[c] # "idle" /\ (Awaits(c) /\ Live(cur[c]) /\ txKind[cur[c]] = "swap"
                          => cur'[c] = cur[c] /\ Awaits(c)')
    BY <1>8 DEF GetNonce, Fail, Release, Return, Goto, NoNonce, NoTx, CallTypeOK, DecisionTypeOK, CurInv, HasTx, Awaits, IsKnown, Mined, Pending, Live
  <2>4. QED
    BY <2>1, <2>2, <2>3, OwnFrame
<1>9. ASSUME NEW c \in Caller, Sign(c) PROVE LiveIsAwaited'
  <2>1. CASE Fail(c) /\ UNCHANGED <<chain, txs, cur>>
    <3>1. UNCHANGED <<txs, sale>> /\ txState' = txState
      BY <1>9, <2>1 DEF Sign, chain, decision
    <3>2. \A e \in Caller : e # c => pc'[e] = pc[e] /\ result'[e] = result[e] /\ cur'[e] = cur[e]
      BY <2>1 DEF Fail, Return, Goto
    <3>3. pc[c] # "idle" /\ ~Awaits(c)
      BY <1>9 DEF Sign, Awaits
    <3>4. QED
      BY <3>1, <3>2, <3>3, OwnFrame
  <2>2. CASE SignTx(c, signed + 1)
    <3>1. \A e \in Caller : e # c => pc'[e] = pc[e] /\ cur'[e] = cur[e]
      BY <2>2 DEF SignTx, Goto, CallTypeOK
    <3>2. result' = result /\ sale' = sale /\ signed' = signed + 1 /\ signed \in Nat
      BY <1>9, <2>2 DEF Sign, SignTx, decision, ChainTypeOK
    <3>3. pc[c] # "idle" /\ ~Awaits(c)
      BY <1>9 DEF Sign, Awaits
    <3>4. txState'[signed + 1] = "signed"
      BY <2>2 DEF SignTx, ChainTypeOK
    <3>5. \A t \in 1 .. signed :
             txState'[t] = txState[t] /\ txKind'[t] = txKind[t] /\ txSale'[t] = txSale[t]
      <4>1. \A t \in 1 .. signed : t \in Tx /\ t # signed + 1
        BY <2>2, <3>2 DEF SignTx, Tx
      <4>2. QED
        BY ONLY <2>2, <4>1, TypeInv DEF SignTx, TypeInv, TypeOK, ChainTypeOK
    <3>6. ASSUME NEW t \in 1 .. signed', NEW e \in Caller, OwnSwap(t, e)', Live(t)'
          PROVE  pc'[e] = "idle" \/ (cur'[e] = t /\ Awaits(e)')
      <4>1. t \in 1 .. signed
        BY <3>2, <3>4, <3>6 DEF Live, Pending
      <4>2. OwnSwap(t, e) /\ Live(t)
        BY <3>2, <3>5, <3>6, <4>1 DEF OwnSwap, Live, Pending
      <4>3. e # c /\ (pc[e] = "idle" \/ (cur[e] = t /\ Awaits(e)))
        BY <3>3, <4>1, <4>2 DEF LiveIsAwaited
      <4>4. QED
        BY <3>1, <3>2, <4>3 DEF Awaits
    <3>7. QED
      BY <3>6 DEF LiveIsAwaited
  <2>3. QED
    BY <1>9, <2>1, <2>2 DEF Sign
<1>10. ASSUME NEW c \in Caller, Broadcast(c) PROVE LiveIsAwaited'
  <2>1. UNCHANGED <<txs, sale, cur, result>>
    BY <1>10 DEF Broadcast, Commit, decision
  <2>2. \A e \in Caller : e # c => pc'[e] = pc[e]
    BY <1>10 DEF Broadcast, Commit, Goto, CallTypeOK
  <2>3. pc'[c] \in {"reconcile", "renonce", "await"} /\ pc[c] = "send"
    BY <1>10 DEF Broadcast, Commit, Goto, CallTypeOK
  <2>4. \A t \in Tx : Live(t)' => Live(t) \/ t = cur[c]
    BY <1>10 DEF Broadcast, Admit, chain, Live, Pending, ChainTypeOK
  <2>5. \A t \in Tx : \A e \in Caller : OwnSwap(t, e) /\ t = cur[c] => e = c
    BY <2>3 DEF OwnSwap, CurInv, HasTx
  <2>6. ASSUME NEW t \in 1 .. signed', NEW e \in Caller, OwnSwap(t, e)', Live(t)'
        PROVE  pc'[e] = "idle" \/ (cur'[e] = t /\ Awaits(e)')
    <3>1. t \in 1 .. signed /\ t \in Tx /\ OwnSwap(t, e)
      BY <2>1, <2>6 DEF OwnSwap, txs, ChainTypeOK, Tx
    <3>2. CASE t = cur[c]
      BY <2>1, <2>3, <2>5, <3>1, <3>2 DEF Awaits
    <3>3. CASE t # cur[c]
      <4>1. pc[e] = "idle" \/ (cur[e] = t /\ Awaits(e))
        BY <2>4, <2>6, <3>1, <3>3 DEF LiveIsAwaited
      <4>2. e # c
        BY <2>3, <3>3, <4>1
      <4>3. QED
        BY <2>1, <2>2, <4>1, <4>2 DEF Awaits
    <3>4. QED
      BY <3>2, <3>3
  <2>7. QED
    BY <2>6 DEF LiveIsAwaited
<1>11. ASSUME NEW c \in Caller, Reconcile(c) PROVE LiveIsAwaited'
  <2>1. UNCHANGED <<txs, sale>> /\ txState' = txState
    BY <1>11 DEF Reconcile, SignAgain, Commit, NoNonce, Fail, Release, Return, Goto
  <2>2. \A e \in Caller : e # c => pc'[e] = pc[e] /\ result'[e] = result[e] /\ cur'[e] = cur[e]
    BY <1>11 DEF Reconcile, SignAgain, Commit, NoNonce, Fail, Release, Return, Goto, CallTypeOK, DecisionTypeOK
  <2>3. pc[c] # "idle" /\ (Awaits(c) /\ Live(cur[c]) /\ txKind[cur[c]] = "swap"
                          => cur'[c] = cur[c] /\ Awaits(c)')
    BY <1>11 DEF Reconcile, SignAgain, Commit, NoNonce, Fail, Release, Return, Goto, CallTypeOK, DecisionTypeOK, CurInv, HasTx, Awaits, IsKnown, Mined, Pending, Live
  <2>4. QED
    BY <2>1, <2>2, <2>3, OwnFrame
<1>12. ASSUME NEW c \in Caller, AwaitReceipt(c) PROVE LiveIsAwaited'
  <2>1. UNCHANGED <<txs, sale>> /\ txState' = txState
    BY <1>12 DEF AwaitReceipt, Settle, ReceiptStatus, Fail, Release, Return, Goto
  <2>2. \A e \in Caller : e # c => pc'[e] = pc[e] /\ result'[e] = result[e] /\ cur'[e] = cur[e]
    BY <1>12 DEF AwaitReceipt, Settle, ReceiptStatus, Fail, Release, Return, Goto, CallTypeOK, DecisionTypeOK
  <2>3. pc[c] # "idle" /\ (Awaits(c) /\ Live(cur[c]) /\ txKind[cur[c]] = "swap"
                          => cur'[c] = cur[c] /\ Awaits(c)')
    BY <1>12 DEF AwaitReceipt, Settle, ReceiptStatus, Fail, Release, Return, Goto, CallTypeOK, DecisionTypeOK, CurInv, HasTx, Awaits, IsKnown, Mined, Pending, Live
  <2>4. QED
    BY <2>1, <2>2, <2>3, OwnFrame
<1>13. ASSUME NEW c \in Caller, LookupStatus(c) PROVE LiveIsAwaited'
  <2>1. UNCHANGED <<txs, sale>> /\ txState' = txState
    BY <1>13 DEF LookupStatus, Vanished, Settle, ReceiptStatus, Fail, Release, Return, Goto
  <2>2. \A e \in Caller : e # c => pc'[e] = pc[e] /\ result'[e] = result[e] /\ cur'[e] = cur[e]
    BY <1>13 DEF LookupStatus, Vanished, Settle, ReceiptStatus, Fail, Release, Return, Goto, CallTypeOK, DecisionTypeOK
  <2>3. pc[c] # "idle" /\ (Awaits(c) /\ Live(cur[c]) /\ txKind[cur[c]] = "swap"
                          => cur'[c] = cur[c] /\ Awaits(c)')
    BY <1>13 DEF LookupStatus, Vanished, Settle, ReceiptStatus, Fail, Release, Return, Goto, CallTypeOK, DecisionTypeOK, CurInv, HasTx, Awaits, IsKnown, Mined, Pending, Live
  <2>4. QED
    BY <2>1, <2>2, <2>3, OwnFrame
<1>14. ASSUME NEW c \in Caller, ResyncNonce(c) PROVE LiveIsAwaited'
  <2>1. UNCHANGED <<txs, sale>> /\ txState' = txState
    BY <1>14 DEF ResyncNonce, Settle, NoNonce, NoTx, Fail, Release, Return, Goto
  <2>2. \A e \in Caller : e # c => pc'[e] = pc[e] /\ result'[e] = result[e] /\ cur'[e] = cur[e]
    BY <1>14 DEF ResyncNonce, Settle, NoNonce, NoTx, Fail, Release, Return, Goto, CallTypeOK, DecisionTypeOK
  <2>3. pc[c] # "idle" /\ (Awaits(c) /\ Live(cur[c]) /\ txKind[cur[c]] = "swap"
                          => cur'[c] = cur[c] /\ Awaits(c)')
    BY <1>14 DEF ResyncNonce, Settle, NoNonce, NoTx, Fail, Release, Return, Goto, CallTypeOK, DecisionTypeOK, CurInv, HasTx, Awaits, IsKnown, Mined, Pending, Live
  <2>4. QED
    BY <2>1, <2>2, <2>3, OwnFrame
<1>15. ASSUME NEW c \in Caller, VerifyFill(c) PROVE LiveIsAwaited'
  <2>1. UNCHANGED <<txs, sale>> /\ txState' = txState
    BY <1>15 DEF VerifyFill, Return, Goto
  <2>2. \A e \in Caller : e # c => pc'[e] = pc[e] /\ result'[e] = result[e] /\ cur'[e] = cur[e]
    BY <1>15 DEF VerifyFill, Return, Goto, CallTypeOK, DecisionTypeOK
  <2>3. pc[c] # "idle" /\ (Awaits(c) /\ Live(cur[c]) /\ txKind[cur[c]] = "swap"
                          => cur'[c] = cur[c] /\ Awaits(c)')
    BY <1>15 DEF VerifyFill, Return, Goto, CallTypeOK, DecisionTypeOK, CurInv, HasTx, Awaits, IsKnown, Mined, Pending, Live
  <2>4. QED
    BY <2>1, <2>2, <2>3, OwnFrame
<1>16. ASSUME NEW t \in Tx, Mine(t) PROVE LiveIsAwaited'
  <2>1. UNCHANGED <<txs, sale, pc, cur, result>>
    BY <1>16 DEF Mine, callers, decision
  <2>2. \A u \in Tx : Live(u)' => Live(u)
    BY <1>16 DEF Mine, callers, Live, Pending, TypeInv, TypeOK, ChainTypeOK
  <2>3. QED
    BY <2>1, <2>2, EnvFrame
<1>17. ASSUME NEW t \in Tx, Drop(t) PROVE LiveIsAwaited'
  <2>1. UNCHANGED <<txs, sale, pc, cur, result>>
    BY <1>17 DEF Drop, callers, decision
  <2>2. \A u \in Tx : Live(u)' => Live(u)
    BY <1>17 DEF Drop, callers, Live, Pending, TypeInv, TypeOK, ChainTypeOK
  <2>3. QED
    BY <2>1, <2>2, EnvFrame
<1>18. ASSUME NEW t \in Tx, Reappear(t) PROVE LiveIsAwaited'
  BY <1>18 DEF Reappear
<1>19. CASE EngageKillSwitch
  <2>1. UNCHANGED <<txs, sale, pc, cur, result, txState>>
    BY <1>19 DEF EngageKillSwitch, callers, chain, decision
  <2>2. QED
    BY <2>1, EnvFrame DEF Live, Pending
<1>20. CASE Restart
  BY <1>20 DEF Restart, LiveIsAwaited
<1>21. CASE UNCHANGED vars
  <2>1. UNCHANGED <<txs, sale, pc, cur, result, txState>>
    BY <1>21 DEF vars, txs, chain, decision
  <2>2. QED
    BY <2>1, EnvFrame DEF Live, Pending
<1>22. QED
  BY <1>1, <1>2, <1>3, <1>4, <1>5, <1>6, <1>7, <1>8, <1>9, <1>10, <1>11, <1>12, <1>13, <1>14, <1>15, <1>16, <1>17, <1>18, <1>19, <1>20, <1>21
  DEF Next, Step, Node

\* A call of execute_swap that fails without "pending" left no swap of its
\* decision live or filled, as long as the node neither forgets a transaction
\* and hears of it again nor delivers a broadcast after its request failed.
THEOREM FailuresAreFinal ==
  ASSUME "regossip" \notin Faults, "late" \notin Faults
  PROVE  Spec => []FailureIsFinal
<1> DEFINE IInv == TypeInv /\ CurInv /\ SignedInv /\ LiveIsAwaited
<1>1. Init => IInv
  BY TypeInit, CurInit, SignedInit, LiveInit
<1>2. IInv /\ [Next]_vars => IInv'
  BY TypeStep, CurStep, SignedStep, LiveStep
<1>3. IInv => FailureIsFinal
  <2> SUFFICES ASSUME IInv, NEW c \in Caller, NEW t \in Tx, pc[c] = "done",
                      result[c] \in {"refused", "failed", "reverted", "dropped"},
                      OwnSwap(t, c)
               PROVE  ~Live(t)
    BY DEF FailureIsFinal, Live, OwnSwap
  <2>1. CASE t > signed
    BY <2>1 DEF SignedInv, Live, Pending
  <2>2. CASE t \in 1 .. signed
    BY <2>2 DEF LiveIsAwaited, Awaits
  <2>3. QED
    BY <2>1, <2>2, SwapAssumption DEF SwapAssumption, Tx, TypeInv, TypeOK, ChainTypeOK
<1>4. QED
  BY <1>1, <1>2, <1>3, PTL DEF Spec

------------------------------------------------------------------------------
(* One transaction in the mempool *)

\* One instance writes for the account, and the node is faithful: its pending
\* count is exact, what it forgot stays forgotten, a failed request is gone.
OneFaithful == Faults = {} /\ \A e, f \in Exec : e = f

Clear == \A t \in Tx : ~Pending(t)

\* What the account looks like: one transaction at most waits, it is the next
\* to be mined, and the nonces that were mined are used up.
ChainInv ==
  /\ NoStackedSwaps
  /\ NeverBehindAGap
  /\ \A t \in Tx : Mined(t) => txNonce[t] < latest

\* What a caller inside the lock may rely on.  Once it is past the in-flight
\* check nothing waits; until then the count it read tells; its nonce is the
\* account's next; after its broadcast only its own transaction can wait.
CallerInv(c) ==
  /\ pc[c] \in {"quote", "build", "nonce", "sign", "send"} => Clear
  /\ pc[c] = "inflight" /\ ~Clear => view[c] > latest
  /\ pc[c] \in {"sign", "send"} => nonce[c] = latest
  /\ pc[c] \in {"send", "reconcile", "renonce"} => txNonce[cur[c]] = nonce[c]
  /\ InLock(c) /\ pc[c] \in {"reconcile", "renonce", "await", "lookup", "resync"}
       => \A t \in Tx : Pending(t) => t = cur[c]

\* The local floor is the nonce after the last broadcast.
FloorInv ==
  \A e \in Exec : lastSent[e] # NoTx =>
     /\ lastSent[e] \in 1 .. signed
     /\ nextNonce[e] \in {NoNonce, txNonce[lastSent[e]] + 1}

PoolInv == ChainInv /\ (\A c \in Caller : CallerInv(c)) /\ FloorInv

LEMMA PoolInit == Init => PoolInv
<1> SUFFICES ASSUME Init PROVE PoolInv
  OBVIOUS
<1>1. Clear /\ \A t \in Tx : ~Mined(t)
  BY DEF Init, Clear, Pending, Mined
<1>2. ChainInv
  BY <1>1 DEF ChainInv, NoStackedSwaps, NeverBehindAGap, Clear
<1>3. \A c \in Caller : CallerInv(c)
  BY <1>1 DEF Init, CallerInv, InLock
<1>4. QED
  BY <1>2, <1>3 DEF Init, PoolInv, FloorInv

SameCall(c) ==
  /\ pc'[c] = pc[c] /\ job'[c] = job[c] /\ cur'[c] = cur[c]
  /\ nonce'[c] = nonce[c] /\ view'[c] = view[c]

\* A step of c that touches neither the chain nor any transaction.
LEMMA QuietFrame ==
  ASSUME PoolInv, UNCHANGED <<chain, txs>>, NEW c \in Caller,
         \A e \in Caller : e # c => SameCall(e), CallerInv(c)', FloorInv'
  PROVE  PoolInv'
<1>1. ChainInv'
  BY DEF PoolInv, ChainInv, NoStackedSwaps, NeverBehindAGap, Pending, Mined, chain, txs
<1>2. ASSUME NEW e \in Caller, e # c PROVE CallerInv(e)'
  <2>1. CallerInv(e) /\ SameCall(e)
    BY <1>2 DEF PoolInv
  <2>2. QED
    BY <2>1 DEF CallerInv, SameCall, InLock, Clear, Pending, chain, txs
<1>3. QED
  BY <1>1, <1>2 DEF PoolInv

\* While c is inside the lock of the only instance nobody else is.
LEMMA LockFrame ==
  ASSUME OneFaithful, TypeInv, LockInv, NEW c \in Caller, InLock(c),
         \A e \in Caller : e # c => SameCall(e), CallerInv(c)'
  PROVE  \A e \in Caller : CallerInv(e)'
<1> SUFFICES ASSUME NEW e \in Caller, e # c PROVE CallerInv(e)'
  OBVIOUS
<1>1. ExecOf[e] = ExecOf[c]
  BY SwapAssumption DEF SwapAssumption, OneFaithful
<1>2. ~InLock(e)
  BY <1>1 DEF LockInv
<1>3. ~InLock(e)'
  BY <1>2 DEF SameCall, InLock
<1>4. QED
  BY <1>3 DEF CallerInv, InLock

\* While something is pending, a faithful pending count is above the mined one.
LEMMA PendingCountAboveLatest ==
  ASSUME OneFaithful, TypeOK, NeverBehindAGap
  PROVE  \A n \in PendingCounts : ~Clear => n > latest
<1> SUFFICES ASSUME NEW n \in PendingCounts, ~Clear PROVE n > latest
  OBVIOUS
<1>1. latest \in Nat
  BY DEF TypeOK, ChainTypeOK
<1>2. PendingAt(latest)
  BY DEF Clear, NeverBehindAGap, PendingAt
<1>3. ~PendingAt(n)
  BY DEF OneFaithful, PendingCounts
<1>4. n \in latest .. latest + MaxTx
  BY DEF PendingCounts
<1>5. n # latest
  BY <1>2, <1>3
<1>6. MaxTx \in Nat
  BY SwapAssumption DEF SwapAssumption
<1>7. QED
  BY ONLY <1>1, <1>4, <1>5, <1>6

LEMMA PoolStep ==
  ASSUME OneFaithful
  PROVE  TypeInv /\ LockInv /\ CurInv /\ PoolInv /\ [Next]_vars => PoolInv'
<1> SUFFICES ASSUME TypeInv, LockInv, CurInv, PoolInv, [Next]_vars PROVE PoolInv'
  OBVIOUS
<1> USE SwapAssumption, OneFaithful
    DEF SwapAssumption, OneFaithful, TypeInv, TypeOK, PoolInv
<1>1. ASSUME NEW c \in Caller, ExecuteSwap(c) PROVE PoolInv'
  <2>1. UNCHANGED <<chain, txs>>
    BY <1>1 DEF ExecuteSwap, Enter, Return, Goto, NoTx
  <2>2. \A e \in Caller : e # c => SameCall(e)
    BY <1>1 DEF ExecuteSwap, Enter, Return, Goto, NoTx, SameCall, CallTypeOK, ChainTypeOK, ExecTypeOK, DecisionTypeOK
  <2>3. CallerInv(c)'
    BY <1>1 DEF ExecuteSwap, Enter, Return, Goto, NoTx, CallerInv, InLock, CallTypeOK, ChainTypeOK, ExecTypeOK, DecisionTypeOK, chain, txs
  <2>4. FloorInv'
    BY <1>1 DEF ExecuteSwap, Enter, Return, Goto, NoTx, FloorInv, txs, executor
  <2>5. QED
    BY <2>1, <2>2, <2>3, <2>4, QuietFrame
<1>2. ASSUME NEW c \in Caller, StopLossFallback(c) PROVE PoolInv'
  <2>1. UNCHANGED <<chain, txs>>
    BY <1>2 DEF StopLossFallback, Enter, Return, Goto
  <2>2. \A e \in Caller : e # c => SameCall(e)
    BY <1>2 DEF StopLossFallback, Enter, Return, Goto, SameCall, CallTypeOK, ChainTypeOK, ExecTypeOK, DecisionTypeOK
  <2>3. CallerInv(c)'
    BY <1>2 DEF StopLossFallback, Enter, Return, Goto, CallerInv, InLock, CallTypeOK, ChainTypeOK, ExecTypeOK, DecisionTypeOK, chain, txs
  <2>4. FloorInv'
    BY <1>2 DEF StopLossFallback, Enter, Return, Goto, FloorInv, txs, executor
  <2>5. QED
    BY <2>1, <2>2, <2>3, <2>4, QuietFrame
<1>3. ASSUME NEW c \in Caller, AcquireNonceLock(c) PROVE PoolInv'
  <2>1. UNCHANGED <<chain, txs>>
    BY <1>3 DEF AcquireNonceLock, Goto
  <2>2. \A e \in Caller : e # c => SameCall(e)
    BY <1>3 DEF AcquireNonceLock, Goto, SameCall, CallTypeOK, ChainTypeOK, ExecTypeOK, DecisionTypeOK
  <2>3. CallerInv(c)'
    BY <1>3 DEF AcquireNonceLock, Goto, CallerInv, InLock, CallTypeOK, ChainTypeOK, ExecTypeOK, DecisionTypeOK, chain, txs
  <2>4. FloorInv'
    BY <1>3 DEF AcquireNonceLock, Goto, FloorInv, txs, executor
  <2>5. QED
    BY <2>1, <2>2, <2>3, <2>4, QuietFrame
<1>4. ASSUME NEW c \in Caller, ReadPendingCount(c) PROVE PoolInv'
  <2>1. UNCHANGED <<chain, txs>>
    BY <1>4 DEF ReadPendingCount, Fail, Release, Return, Goto
  <2>2. \A e \in Caller : e # c => SameCall(e)
    BY <1>4 DEF ReadPendingCount, Fail, Release, Return, Goto, SameCall, CallTypeOK, ChainTypeOK, ExecTypeOK, DecisionTypeOK
  <2>3. CallerInv(c)'
    <3>1. (Clear' <=> Clear) /\ latest' = latest
      BY <2>1 DEF Clear, Pending, chain
    <3>2. \A n \in PendingCounts : ~Clear => n > latest
      <4>1. TypeOK /\ NeverBehindAGap
        BY DEF ChainInv
      <4>2. QED
        BY ONLY <4>1, OneFaithful, PendingCountAboveLatest
    <3>3. CASE Fail(c)
      BY <3>3 DEF Fail, Return, Goto, CallerInv, InLock, CallTypeOK
    <3>4. ASSUME NEW n \in PendingCounts, view' = [view EXCEPT ![c] = n], Goto(c, "inflight")
          PROVE  CallerInv(c)'
      <4>1. view'[c] = n /\ pc'[c] = "inflight"
        BY <3>4 DEF Goto, CallTypeOK
      <4>2. QED
        BY <3>1, <3>2, <4>1 DEF CallerInv
    <3>5. QED
      BY <1>4, <3>3, <3>4 DEF ReadPendingCount
  <2>4. FloorInv'
    BY <1>4 DEF ReadPendingCount, Fail, Release, Return, Goto, FloorInv, txs, executor
  <2>5. QED
    BY <2>1, <2>2, <2>3, <2>4, QuietFrame
<1>5. ASSUME NEW c \in Caller, InFlightCheck(c) PROVE PoolInv'
  <2>1. UNCHANGED <<chain, txs>>
    BY <1>5 DEF InFlightCheck, CountsDiffer, Fail, Release, Return, Goto
  <2>2. \A e \in Caller : e # c => SameCall(e)
    BY <1>5 DEF InFlightCheck, CountsDiffer, Fail, Release, Return, Goto, SameCall, CallTypeOK, ChainTypeOK, ExecTypeOK, DecisionTypeOK
  <2>3. CallerInv(c)'
    <3>1. Clear' <=> Clear
      BY <2>1 DEF Clear, Pending, chain
    <3>2. QED
      BY <1>5, <3>1 DEF InFlightCheck, CountsDiffer, Fail, Release, Return, Goto, CallerInv, InLock, CallTypeOK, ChainTypeOK
  <2>4. FloorInv'
    BY <1>5 DEF InFlightCheck, CountsDiffer, Fail, Release, Return, Goto, FloorInv, txs, executor
  <2>5. QED
    BY <2>1, <2>2, <2>3, <2>4, QuietFrame
<1>6. ASSUME NEW c \in Caller, Quote(c) PROVE PoolInv'
  <2>1. UNCHANGED <<chain, txs>>
    BY <1>6 DEF Quote, Fail, ZeroExUnavailable, Release, Return, Goto
  <2>2. \A e \in Caller : e # c => SameCall(e)
    BY <1>6 DEF Quote, Fail, ZeroExUnavailable, Release, Return, Goto, SameCall, CallTypeOK, ChainTypeOK, ExecTypeOK, DecisionTypeOK
  <2>3. CallerInv(c)'
    <3>1. Clear' <=> Clear
      BY <2>1 DEF Clear, Pending, chain
    <3>2. QED
      BY <1>6, <3>1 DEF Quote, Fail, ZeroExUnavailable, Release, Return, Goto, CallerInv, InLock, CallTypeOK, ChainTypeOK
  <2>4. FloorInv'
    BY <1>6 DEF Quote, Fail, ZeroExUnavailable, Release, Return, Goto, FloorInv, txs, executor
  <2>5. QED
    BY <2>1, <2>2, <2>3, <2>4, QuietFrame
<1>7. ASSUME NEW c \in Caller, BuildSwap(c) PROVE PoolInv'
  <2>1. UNCHANGED <<chain, txs>>
    BY <1>7 DEF BuildSwap, Fail, ZeroExUnavailable, Release, Return, Goto
  <2>2. \A e \in Caller : e # c => SameCall(e)
    BY <1>7 DEF BuildSwap, Fail, ZeroExUnavailable, Release, Return, Goto, SameCall, CallTypeOK, ChainTypeOK, ExecTypeOK, DecisionTypeOK
  <2>3. CallerInv(c)'
    <3>1. Clear' <=> Clear
      BY <2>1 DEF Clear, Pending, chain
    <3>2. QED
      BY <1>7, <3>1 DEF BuildSwap, Fail, ZeroExUnavailable, Release, Return, Goto, CallerInv, InLock, CallTypeOK, ChainTypeOK
  <2>4. FloorInv'
    BY <1>7 DEF BuildSwap, Fail, ZeroExUnavailable, Release, Return, Goto, FloorInv, txs, executor
  <2>5. QED
    BY <2>1, <2>2, <2>3, <2>4, QuietFrame
<1>8. ASSUME NEW c \in Caller, GetNonce(c) PROVE PoolInv'
  <2>1. UNCHANGED <<chain, txs>>
    BY <1>8 DEF GetNonce, Fail, Release, Return, Goto, NoNonce, NoTx
  <2>2. \A e \in Caller : e # c => SameCall(e)
    BY <1>8 DEF GetNonce, Fail, Release, Return, Goto, NoNonce, NoTx, SameCall, CallTypeOK, ChainTypeOK, ExecTypeOK, DecisionTypeOK
  <2>3. CallerInv(c)'
    <3>1. CASE Fail(c)
      BY <3>1 DEF Fail, Return, Goto, CallerInv, InLock, CallTypeOK
    <3>2. ASSUME NEW pending \in PendingCounts, Goto(c, "sign"),
                 nonce'[c] = pending \/ (FloorHolds(ExecOf[c], pending) /\ nonce'[c] = nextNonce[ExecOf[c]])
          PROVE  CallerInv(c)'
      <4>1. Clear /\ UNCHANGED <<chain, txs, cur, job>>
        BY <1>8 DEF GetNonce, CallerInv, decision
      <4>2. pending = latest
        BY <3>2, <4>1 DEF PendingCounts, PendingAt, Clear, ChainTypeOK
      <4>3. ~FloorHolds(ExecOf[c], pending)
        <5> SUFFICES ASSUME FloorHolds(ExecOf[c], pending) PROVE FALSE
          OBVIOUS
        <5> DEFINE l == lastSent[ExecOf[c]]
        <5>1. l \in Tx /\ nextNonce[ExecOf[c]] = txNonce[l] + 1
          BY DEF FloorHolds, FloorInv, ExecTypeOK, ChainTypeOK, Tx
        <5>2. Mined(l)
          BY <4>1, <5>1 DEF FloorHolds, IsKnown, Clear
        <5>3. txNonce[l] < latest /\ nextNonce[ExecOf[c]] > latest
          BY <4>2, <5>1, <5>2 DEF ChainInv, FloorHolds
        <5>4. QED
          BY <5>1, <5>3 DEF ChainTypeOK
      <4>4. pc'[c] = "sign" /\ nonce'[c] = latest' /\ Clear'
        BY <3>2, <4>1, <4>2, <4>3 DEF Goto, CallTypeOK, Clear, Pending, chain
      <4>5. QED
        BY <4>4 DEF CallerInv, InLock
    <3>3. QED
      BY <1>8, <3>1, <3>2 DEF GetNonce, CallTypeOK
  <2>4. FloorInv'
    BY <1>8 DEF GetNonce, Fail, NoTx, FloorInv, ExecTypeOK, txs, executor
  <2>5. QED
    BY <2>1, <2>2, <2>3, <2>4, QuietFrame
<1>9. ASSUME NEW c \in Caller, Sign(c) PROVE PoolInv'
  <2>1. InLock(c)
    BY <1>9 DEF Sign, InLock
  <2>2. \A e \in Caller : e # c => SameCall(e)
    BY <1>9 DEF Sign, SignTx, Fail, Return, Goto, SameCall, CallTypeOK
  <2>3. CASE Fail(c) /\ UNCHANGED <<chain, txs, cur>>
    <3>1. CallerInv(c)'
      BY <2>3 DEF Fail, Return, Goto, CallerInv, InLock, CallTypeOK
    <3>2. FloorInv' /\ UNCHANGED <<chain, txs>>
      BY <1>9, <2>3 DEF Sign, FloorInv, txs, executor
    <3>3. QED
      BY <2>2, <3>1, <3>2, QuietFrame
  <2>4. CASE SignTx(c, signed + 1)
    <3>1. signed + 1 \in Tx /\ signed' = signed + 1 /\ signed \in Nat /\ latest' = latest
      BY <2>4 DEF SignTx, ChainTypeOK
    <3>2. \A t \in Tx : t # signed + 1 => txState'[t] = txState[t] /\ txNonce'[t] = txNonce[t]
      BY ONLY <2>4, TypeInv DEF SignTx, TypeInv, TypeOK, ChainTypeOK
    <3>3. txState'[signed + 1] = "signed" /\ txNonce'[signed + 1] = nonce[c]
      BY ONLY <2>4, TypeInv DEF SignTx, TypeInv, TypeOK, ChainTypeOK
    <3>4. \A t \in Tx : (Pending(t)' => Pending(t)) /\ (Mined(t)' => Mined(t) /\ t # signed + 1)
      BY <3>2, <3>3 DEF Pending, Mined
    <3>5. ChainInv'
      <4>1. \A t \in Tx : Pending(t)' => t # signed + 1
        BY <3>3 DEF Pending
      <4>2. QED
        BY <3>1, <3>2, <3>4, <4>1 DEF ChainInv, NoStackedSwaps, NeverBehindAGap
    <3>6. pc'[c] = "send" /\ cur'[c] = signed + 1 /\ nonce'[c] = latest' /\ txNonce'[cur'[c]] = nonce'[c]
      BY <1>9, <2>4, <3>1, <3>3 DEF Sign, SignTx, Goto, CallerInv, CallTypeOK
    <3>7. Clear'
      BY <1>9, <3>4 DEF Sign, CallerInv, Clear
    <3>8. CallerInv(c)'
      BY <3>6, <3>7 DEF CallerInv, InLock
    <3>9. FloorInv'
      <4>1. UNCHANGED <<lastSent, nextNonce>>
        BY <1>9 DEF Sign, executor
      <4>2. \A t \in 1 .. signed : t \in Tx /\ t # signed + 1 /\ t \in 1 .. signed'
        BY <3>1 DEF Tx
      <4>3. QED
        BY <3>2, <4>1, <4>2 DEF FloorInv
    <3>10. QED
      BY <2>1, <2>2, <3>5, <3>8, <3>9, LockFrame DEF PoolInv
  <2>5. QED
    BY <1>9, <2>3, <2>4 DEF Sign
<1>10. ASSUME NEW c \in Caller, Broadcast(c) PROVE PoolInv'
  <2>1. InLock(c)
    BY <1>10 DEF Broadcast, InLock
  <2>2. \A e \in Caller : e # c => SameCall(e)
    BY <1>10 DEF Broadcast, Commit, Goto, SameCall, CallTypeOK
  <2>3. cur[c] \in Tx /\ txNonce[cur[c]] = latest /\ latest' = latest /\ Clear
    BY <1>10 DEF Broadcast, Admit, chain, CurIsTx, HasTx, CallerInv
  <2>4. UNCHANGED <<txs, cur>>
    BY <1>10 DEF Broadcast
  <2>5. \A t \in Tx : Pending(t)' => t = cur[c]
    BY <1>10, <2>3 DEF Broadcast, Admit, chain, Pending, Clear
  <2>6. \A t \in Tx : Mined(t)' => Mined(t)
    BY <1>10 DEF Broadcast, Admit, chain, Mined
  <2>7. ChainInv'
    BY <2>3, <2>4, <2>5, <2>6 DEF ChainInv, NoStackedSwaps, NeverBehindAGap, txs
  <2>8. CallerInv(c)'
    <3>1. pc'[c] \in {"reconcile", "renonce", "await"}
      BY <1>10 DEF Broadcast, Commit, Goto, CallTypeOK
    <3>2. pc'[c] \in {"reconcile", "renonce"} => nonce' = nonce
      BY <1>10 DEF Broadcast, Commit, Goto, CallTypeOK
    <3>3. txNonce[cur[c]] = nonce[c]
      BY <1>10 DEF Broadcast, CallerInv
    <3>4. QED
      BY <2>4, <2>5, <3>1, <3>2, <3>3 DEF CallerInv, txs
  <2>9. FloorInv'
    <3>1. CASE UNCHANGED executor
      BY <2>4, <3>1 DEF FloorInv, txs, executor
    <3>2. CASE Commit(c)
      BY <1>10, <2>4, <3>2 DEF Broadcast, Commit, FloorInv, CallerInv, CurInv, HasTx, txs, ExecTypeOK
    <3>3. QED
      BY <1>10, <3>1, <3>2 DEF Broadcast
  <2>10. QED
    BY <2>1, <2>2, <2>7, <2>8, <2>9, LockFrame DEF PoolInv
<1>11. ASSUME NEW c \in Caller, Reconcile(c) PROVE PoolInv'
  <2>1. UNCHANGED <<chain, txs>>
    BY <1>11 DEF Reconcile, SignAgain, Commit, NoNonce, Fail, Release, Return, Goto
  <2>2. \A e \in Caller : e # c => SameCall(e)
    BY <1>11 DEF Reconcile, SignAgain, Commit, NoNonce, Fail, Release, Return, Goto, SameCall, CallTypeOK, ChainTypeOK, ExecTypeOK, DecisionTypeOK
  <2>3. CallerInv(c)'
    BY <1>11 DEF Reconcile, SignAgain, Commit, NoNonce, Fail, Release, Return, Goto, CallerInv, InLock, CallTypeOK, ChainTypeOK, ExecTypeOK, DecisionTypeOK, Clear, IsKnown, Mined, Pending, chain, txs
  <2>4. FloorInv'
    BY <1>11 DEF Reconcile, SignAgain, Commit, Fail, FloorInv, ExecTypeOK, CurInv, HasTx, CallerInv, CallTypeOK, txs, executor
  <2>5. QED
    BY <2>1, <2>2, <2>3, <2>4, QuietFrame
<1>12. ASSUME NEW c \in Caller, AwaitReceipt(c) PROVE PoolInv'
  <2>1. UNCHANGED <<chain, txs>>
    BY <1>12 DEF AwaitReceipt, Settle, ReceiptStatus, Fail, Release, Return, Goto
  <2>2. \A e \in Caller : e # c => SameCall(e)
    BY <1>12 DEF AwaitReceipt, Settle, ReceiptStatus, Fail, Release, Return, Goto, SameCall, CallTypeOK, ChainTypeOK, ExecTypeOK, DecisionTypeOK
  <2>3. CallerInv(c)'
    BY <1>12 DEF AwaitReceipt, Settle, ReceiptStatus, Fail, Release, Return, Goto, CallerInv, InLock, CallTypeOK, ChainTypeOK, ExecTypeOK, DecisionTypeOK, Clear, Mined, Pending, chain, txs
  <2>4. FloorInv'
    BY <1>12 DEF AwaitReceipt, Settle, ReceiptStatus, Fail, Release, Return, Goto, FloorInv, txs, executor
  <2>5. QED
    BY <2>1, <2>2, <2>3, <2>4, QuietFrame
<1>13. ASSUME NEW c \in Caller, LookupStatus(c) PROVE PoolInv'
  <2>1. UNCHANGED <<chain, txs>>
    BY <1>13 DEF LookupStatus, Vanished, Settle, ReceiptStatus, Fail, Release, Return, Goto
  <2>2. \A e \in Caller : e # c => SameCall(e)
    BY <1>13 DEF LookupStatus, Vanished, Settle, ReceiptStatus, Fail, Release, Return, Goto, SameCall, CallTypeOK, ChainTypeOK, ExecTypeOK, DecisionTypeOK
  <2>3. CallerInv(c)'
    BY <1>13 DEF LookupStatus, Vanished, Settle, ReceiptStatus, Fail, Release, Return, Goto, CallerInv, InLock, CallTypeOK, ChainTypeOK, ExecTypeOK, DecisionTypeOK, Clear, Mined, Pending, chain, txs
  <2>4. FloorInv'
    BY <1>13 DEF LookupStatus, Vanished, Settle, ReceiptStatus, Fail, Release, Return, Goto, FloorInv, txs, executor
  <2>5. QED
    BY <2>1, <2>2, <2>3, <2>4, QuietFrame
<1>14. ASSUME NEW c \in Caller, ResyncNonce(c) PROVE PoolInv'
  <2>1. UNCHANGED <<chain, txs>>
    BY <1>14 DEF ResyncNonce, Settle, NoNonce, NoTx, Fail, Release, Return, Goto
  <2>2. \A e \in Caller : e # c => SameCall(e)
    BY <1>14 DEF ResyncNonce, Settle, NoNonce, NoTx, Fail, Release, Return, Goto, SameCall, CallTypeOK, ChainTypeOK, ExecTypeOK, DecisionTypeOK
  <2>3. CallerInv(c)'
    BY <1>14 DEF ResyncNonce, Settle, NoNonce, NoTx, Fail, Release, Return, Goto, CallerInv, InLock, CallTypeOK, ChainTypeOK, ExecTypeOK, DecisionTypeOK, CurInv, chain, txs
  <2>4. FloorInv'
    BY <1>14 DEF ResyncNonce, NoTx, FloorInv, ExecTypeOK, txs, executor
  <2>5. QED
    BY <2>1, <2>2, <2>3, <2>4, QuietFrame
<1>15. ASSUME NEW c \in Caller, VerifyFill(c) PROVE PoolInv'
  <2>1. UNCHANGED <<chain, txs>>
    BY <1>15 DEF VerifyFill, Return, Goto
  <2>2. \A e \in Caller : e # c => SameCall(e)
    BY <1>15 DEF VerifyFill, Return, Goto, SameCall, CallTypeOK, ChainTypeOK, ExecTypeOK, DecisionTypeOK
  <2>3. CallerInv(c)'
    BY <1>15 DEF VerifyFill, Return, Goto, CallerInv, InLock, CallTypeOK, ChainTypeOK, ExecTypeOK, DecisionTypeOK, chain, txs
  <2>4. FloorInv'
    BY <1>15 DEF VerifyFill, Return, Goto, FloorInv, txs, executor
  <2>5. QED
    BY <2>1, <2>2, <2>3, <2>4, QuietFrame
<1>16. ASSUME NEW t \in Tx, Mine(t) PROVE PoolInv'
  <2>1. UNCHANGED <<txs, pc, cur, nonce, view, job, executor>>
    BY <1>16 DEF Mine, callers
  <2>2. latest' = latest + 1 /\ latest \in Nat /\ txNonce[t] = latest /\ Pending(t)
    BY <1>16 DEF Mine, ChainTypeOK
  <2>3. \A u \in Tx : u # t => txState'[u] = txState[u]
    BY <1>16 DEF Mine, ChainTypeOK
  <2>4. txState'[t] \in {"ok", "reverted"}
    BY <1>16 DEF Mine, ChainTypeOK
  <2>5. Clear'
    BY <2>2, <2>3, <2>4 DEF Clear, Pending, ChainInv, NoStackedSwaps
  <2>6. ChainInv'
    <3>1. \A u \in Tx : Mined(u)' => txNonce'[u] < latest'
      BY <2>1, <2>2, <2>3 DEF ChainInv, Mined, txs, ChainTypeOK
    <3>2. QED
      BY <2>5, <3>1 DEF ChainInv, NoStackedSwaps, NeverBehindAGap, Clear
  <2>7. \A e \in Caller : CallerInv(e)'
    <3> SUFFICES ASSUME NEW e \in Caller PROVE CallerInv(e)'
      OBVIOUS
    <3>1. pc[e] \notin {"quote", "build", "nonce", "sign", "send"}
      BY <2>2 DEF CallerInv, Clear
    <3>2. QED
      BY <2>1, <2>5, <3>1 DEF CallerInv, Clear, txs
  <2>8. QED
    BY <2>1, <2>6, <2>7 DEF PoolInv, FloorInv, txs, executor
<1>17. ASSUME NEW t \in Tx, Drop(t) PROVE PoolInv'
  <2>1. UNCHANGED <<latest, txs, pc, cur, nonce, view, job, executor>>
    BY <1>17 DEF Drop, callers
  <2>2. \A u \in Tx : (Pending(u)' => Pending(u)) /\ (Mined(u)' => Mined(u))
    BY <1>17 DEF Drop, Pending, Mined, ChainTypeOK
  <2>3. ChainInv'
    BY <2>1, <2>2 DEF ChainInv, NoStackedSwaps, NeverBehindAGap, txs
  <2>4. \A e \in Caller : CallerInv(e)'
    BY <2>1, <2>2 DEF CallerInv, InLock, Clear, txs
  <2>5. QED
    BY <2>1, <2>3, <2>4 DEF PoolInv, FloorInv, txs, executor
<1>18. ASSUME NEW t \in Tx, Reappear(t) PROVE PoolInv'
  BY <1>18 DEF Reappear
<1>19. CASE EngageKillSwitch
  <2>1. UNCHANGED <<chain, txs, pc, cur, nonce, view, job, executor>>
    BY <1>19 DEF EngageKillSwitch, callers
  <2>2. QED
    BY <2>1 DEF PoolInv, ChainInv, NoStackedSwaps, NeverBehindAGap, Pending, Mined,
                CallerInv, InLock, Clear, FloorInv, chain, txs, executor
<1>20. CASE Restart
  <2>1. UNCHANGED <<chain, txs>> /\ \A e \in Exec : lastSent'[e] = NoTx
    BY <1>20 DEF Restart
  <2>2. ChainInv'
    BY <2>1 DEF ChainInv, NoStackedSwaps, NeverBehindAGap, Pending, Mined, chain, txs
  <2>3. \A e \in Caller : CallerInv(e)'
    BY <1>20 DEF Restart, CallerInv, InLock
  <2>4. QED
    BY <2>1, <2>2, <2>3 DEF PoolInv, FloorInv
<1>21. CASE UNCHANGED vars
  <2>1. UNCHANGED <<chain, txs, pc, cur, nonce, view, job, executor>>
    BY <1>21 DEF vars
  <2>2. QED
    BY <2>1 DEF PoolInv, ChainInv, NoStackedSwaps, NeverBehindAGap, Pending, Mined,
                CallerInv, InLock, Clear, FloorInv, chain, txs, executor
<1>22. QED
  BY <1>1, <1>2, <1>3, <1>4, <1>5, <1>6, <1>7, <1>8, <1>9, <1>10, <1>11, <1>12, <1>13, <1>14, <1>15, <1>16, <1>17, <1>18, <1>19, <1>20, <1>21
  DEF Next, Step, Node

LEMMA PoolHolds ==
  ASSUME OneFaithful
  PROVE  Spec => []PoolInv
<1> DEFINE IInv == TypeInv /\ LockInv /\ CurInv /\ PoolInv
<1>1. Init => IInv
  BY TypeInit, LockInit, CurInit, PoolInit
<1>2. IInv /\ [Next]_vars => IInv'
  BY TypeStep, LockStep, CurStep, PoolStep
<1>3. QED
  BY <1>1, <1>2, PTL DEF Spec

\* "Refuse to stack another swap": the account never has two transactions in the
\* mempool, for any number of callers that share one instance on a faithful
\* node, since each looks for what is in flight inside the nonce lock.
THEOREM OneSwapAtATime ==
  ASSUME OneFaithful
  PROVE  Spec => []NoStackedSwaps
<1>1. PoolInv => NoStackedSwaps
  BY DEF PoolInv, ChainInv
<1>2. QED
  BY <1>1, PoolHolds, PTL

\* The transaction in the mempool can be mined next: _get_nonce never signs with
\* a nonce above one that nobody used, whatever its local floor says.
THEOREM NothingBehindAGap ==
  ASSUME OneFaithful
  PROVE  Spec => []NeverBehindAGap
<1>1. PoolInv => NeverBehindAGap
  BY DEF PoolInv, ChainInv
<1>2. QED
  BY <1>1, PoolHolds, PTL
==============================================================================
