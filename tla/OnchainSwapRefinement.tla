----------------------- MODULE OnchainSwapRefinement -----------------------
(***************************************************************************)
(* The write path implements SwapPromise, for any number of callers,       *)
(* executor instances and transactions: a decision fills at most once over *)
(* every transaction signed and every call made for it, and never after it *)
(* was reported as failed.  The mapping is the one of OnchainSwap: what a  *)
(* caller knows, and the swaps of its decision that filled.                *)
(***************************************************************************)
EXTENDS OnchainSwapProofs, FiniteSetTheorems

Calm == "regossip" \notin Faults /\ "late" \notin Faults

\* A transaction is broadcast for the first time when it was just signed.
SentOnce == \A c \in Caller : pc[c] = "send" => txState[cur[c]] = "signed"

\* The caller has seen the receipt of its transaction, and will say "filled".
KnowsFill(c) ==
  pc[c] = "verify" \/ (pc[c] = "done" /\ result[c] = "filled")

FilledIsMined ==
  \A c \in Caller : KnowsFill(c) =>
     cur[c] \in 1 .. signed /\ OwnSwap(cur[c], c) /\ txState[cur[c]] = "ok"

\* One swap of a decision lives, also after a restart, when nobody waits for
\* it any more.
OneLive ==
  \A c \in Caller : \A t, u \in 1 .. signed :
     OwnSwap(t, c) /\ Live(t) /\ OwnSwap(u, c) /\ Live(u) => t = u

WaitInv == TypeInv /\ CurInv /\ SignedInv /\ LiveIsAwaited

RefInv == WaitInv /\ SentOnce /\ FilledIsMined /\ OneLive

------------------------------------------------------------------------------
(* The steps of a caller *)

Others(c) ==
  \A e \in Caller \ {c} :
     /\ pc'[e] = pc[e] /\ result'[e] = result[e] /\ cur'[e] = cur[e]
     /\ sale'[e] = sale[e]

\* A step of a call that touches no transaction.  It learns of a fill from the
\* receipt of its own swap.
QuietCall(c) ==
  /\ UNCHANGED <<txState, txs, sale>>
  /\ Others(c)
  /\ pc[c] \notin {"idle", "done"} /\ pc'[c] \notin {"idle", "send"}
  /\ KnowsFill(c)' =>
       /\ cur'[c] = cur[c]
       /\ \/ pc[c] = "verify"
          \/ HasTx(c) /\ job[c] = "swap" /\ txState[cur[c]] = "ok"

LEMMA QuietSteps ==
  ASSUME TypeInv, CurInv, NEW c \in Caller, Step(c)
  PROVE  QuietCall(c) \/ Broadcast(c) \/ (Sign(c) /\ SignTx(c, signed + 1))
<1> USE DEF TypeInv, TypeOK, CallTypeOK, DecisionTypeOK, QuietCall, Others,
            KnowsFill, HasTx, chain, txs, decision, Goto, Return, Release, Fail
<1>1. CASE AcquireNonceLock(c)
  BY <1>1 DEF AcquireNonceLock
<1>2. CASE ReadPendingCount(c)
  BY <1>2 DEF ReadPendingCount
<1>3. CASE InFlightCheck(c)
  BY <1>3 DEF InFlightCheck
<1>4. CASE Quote(c)
  BY <1>4 DEF Quote, ZeroExUnavailable
<1>5. CASE BuildSwap(c)
  BY <1>5 DEF BuildSwap, ZeroExUnavailable
<1>6. CASE GetNonce(c)
  BY <1>6 DEF GetNonce
<1>7. CASE Sign(c)
  BY <1>7 DEF Sign
<1>8. CASE Reconcile(c)
  BY <1>8 DEF Reconcile, Commit, SignAgain
<1>9. CASE AwaitReceipt(c)
  BY <1>9 DEF AwaitReceipt, Settle, ReceiptStatus
<1>10. CASE LookupStatus(c)
  BY <1>10 DEF LookupStatus, Vanished, Settle, ReceiptStatus
<1>11. CASE ResyncNonce(c)
  BY <1>11 DEF ResyncNonce, Settle, CurInv
<1>12. CASE VerifyFill(c)
  BY <1>12 DEF VerifyFill
<1> QED
  BY <1>1, <1>2, <1>3, <1>4, <1>5, <1>6, <1>7, <1>8, <1>9, <1>10, <1>11, <1>12
  DEF Step

\* What signing and broadcasting change.
SignsOwn(c) ==
  LET t == signed + 1 IN
  /\ t \in Tx /\ signed' = t /\ txState[t] = "none" /\ txState'[t] = "signed"
  /\ \A u \in Tx \ {t} :
        /\ txState'[u] = txState[u] /\ txKind'[u] = txKind[u]
        /\ txSale'[u] = txSale[u]
  /\ cur'[c] = t /\ pc[c] = "sign" /\ pc'[c] = "send"
  /\ Others(c) /\ UNCHANGED sale

LEMMA SignSteps ==
  ASSUME TypeInv, SignedInv, NEW c \in Caller, Sign(c), SignTx(c, signed + 1)
  PROVE  SignsOwn(c)
<1>1. /\ signed + 1 \in Tx /\ signed' = signed + 1 /\ signed \in Nat
      /\ pc[c] = "sign" /\ UNCHANGED <<sale, result>>
  BY DEF Sign, SignTx, decision, TypeInv, TypeOK, ChainTypeOK
<1>2. txState[signed + 1] = "none"
  BY <1>1 DEF SignedInv
<1>3. pc' = [pc EXCEPT ![c] = "send"] /\ cur' = [cur EXCEPT ![c] = signed + 1]
  BY DEF SignTx, Goto
<1>4. /\ txState' = [txState EXCEPT ![signed + 1] = "signed"]
      /\ txKind' = [txKind EXCEPT ![signed + 1] = job[c]]
      /\ txSale' = [txSale EXCEPT ![signed + 1] = <<c, sale[c]>>]
  BY DEF SignTx
<1>5. Others(c) /\ cur'[c] = signed + 1 /\ pc'[c] = "send"
  BY <1>1, <1>3 DEF Others, TypeInv, TypeOK, CallTypeOK
<1> QED
  BY <1>1, <1>2, <1>4, <1>5 DEF SignsOwn, TypeInv, TypeOK, ChainTypeOK

SendsOwn(c) ==
  LET t == cur[c] IN
  /\ t \in 1 .. signed /\ txSale[t] = <<c, sale[c]>>
  /\ txState'[t] \in {"signed", "pending"}
  /\ \A u \in Tx \ {t} :
        txState'[u] = txState[u] \/ (Pending(u) /\ txState'[u] = "dropped")
  /\ pc[c] = "send" /\ pc'[c] \in {"reconcile", "renonce", "await"}
  /\ UNCHANGED <<txs, sale, cur, result>>
  /\ Others(c)

LEMMA SendSteps ==
  ASSUME Calm, TypeInv, CurInv, SentOnce, NEW c \in Caller, Broadcast(c)
  PROVE  SendsOwn(c)
<1>1. /\ pc[c] = "send" /\ cur[c] \in 1 .. signed /\ cur[c] \in Tx
      /\ txSale[cur[c]] = <<c, sale[c]>> /\ txState[cur[c]] = "signed"
  BY DEF Broadcast, CurInv, HasTx, SentOnce, TypeInv, CurIsTx
<1>2. UNCHANGED <<txs, sale, cur, result>>
  BY DEF Broadcast, Commit, decision
<1>3. \E l \in {"reconcile", "renonce", "await"} : pc' = [pc EXCEPT ![c] = l]
  BY DEF Broadcast, Commit, Goto
<1>4. pc'[c] \in {"reconcile", "renonce", "await"} /\ Others(c)
  BY <1>2, <1>3 DEF Others, TypeInv, TypeOK, CallTypeOK
<1>5. Admit(cur[c]) \/ txState' = txState
  BY DEF Broadcast, Calm, chain
<1>6. txState'[cur[c]] \in {"signed", "pending"}
  BY <1>1, <1>5 DEF Admit
<1>7. \A u \in Tx \ {cur[c]} :
        txState'[u] = txState[u] \/ (Pending(u) /\ txState'[u] = "dropped")
  BY <1>5 DEF Admit
<1> QED
  BY <1>1, <1>2, <1>4, <1>6, <1>7 DEF SendsOwn

\* A new decision has no transaction yet; one that is tried again keeps its own.
Decides(c) ==
  /\ UNCHANGED <<txState, txs>>
  /\ Others(c)
  /\ pc[c] \in {"idle", "done"}
  /\ \/ pc'[c] = "done" /\ result'[c] \in {"refused", "failed"}
     \/ pc'[c] = "lock" /\ result'[c] = "none"
  /\ \/ sale'[c] = sale[c] + 1
     \/ /\ sale'[c] = sale[c] /\ pc[c] = "done"
        /\ result[c] \notin {"filled", "pending"}

LEMMA DecideSteps ==
  ASSUME TypeInv, NEW c \in Caller, ExecuteSwap(c) \/ StopLossFallback(c)
  PROVE  Decides(c)
BY DEF ExecuteSwap, StopLossFallback, Enter, Return, Goto, Decides, Others,
       chain, txs, TypeInv, TypeOK, CallTypeOK, DecisionTypeOK

\* The node mines or drops what is pending, and nothing else happens.
Calls == <<txs, sale, pc, result, cur>>

NodeMoves(t) ==
  /\ t \in Tx /\ Pending(t)
  /\ txState'[t] \in {"ok", "reverted", "dropped"}
  /\ \A u \in Tx \ {t} : txState'[u] = txState[u]
  /\ UNCHANGED Calls

LEMMA NodeSteps ==
  ASSUME TypeInv, NEW t \in Tx, Mine(t) \/ Drop(t)
  PROVE  NodeMoves(t)
BY DEF Mine, Drop, NodeMoves, Calls, callers, decision, TypeInv, TypeOK,
       ChainTypeOK

\* A restart forgets the calls, not the chain.
LEMMA RestartSteps ==
  ASSUME Restart
  PROVE  /\ UNCHANGED <<txs, txState, sale>>
         /\ \A c \in Caller : pc'[c] = "idle"
BY DEF Restart, chain, decision

\* On a calm node these are all the steps there are.
LEMMA AllSteps ==
  ASSUME Calm, WaitInv, SentOnce, [Next]_vars
  PROVE  \/ \E c \in Caller :
              Decides(c) \/ QuietCall(c) \/ SignsOwn(c) \/ SendsOwn(c)
         \/ \E t \in Tx : NodeMoves(t)
         \/ UNCHANGED <<txState, Calls>>
         \/ Restart
<1>1. ASSUME NEW c \in Caller,
             ExecuteSwap(c) \/ StopLossFallback(c) \/ Step(c)
      PROVE  Decides(c) \/ QuietCall(c) \/ SignsOwn(c) \/ SendsOwn(c)
  BY <1>1, DecideSteps, QuietSteps, SignSteps, SendSteps DEF WaitInv
<1>2. ASSUME NEW t \in Tx, Mine(t) \/ Drop(t) \/ Reappear(t)
      PROVE  NodeMoves(t)
  BY <1>2, NodeSteps DEF Reappear, Calm, WaitInv
<1>3. CASE EngageKillSwitch \/ UNCHANGED vars
  BY <1>3 DEF EngageKillSwitch, vars, callers, chain, decision, Calls
<1> QED
  BY <1>1, <1>2, <1>3 DEF Next, Node

------------------------------------------------------------------------------
(* The invariant *)

LEMMA RefInit == Init => RefInv
<1> SUFFICES ASSUME Init PROVE RefInv
  OBVIOUS
<1>1. WaitInv
  BY TypeInit, CurInit, SignedInit, LiveInit DEF WaitInv
<1>2. SentOnce /\ FilledIsMined /\ OneLive
  BY SwapAssumption DEF Init, SentOnce, FilledIsMined, KnowsFill, OneLive
<1> QED
  BY <1>1, <1>2 DEF RefInv

LEMMA WaitStep == ASSUME Calm, WaitInv, [Next]_vars PROVE WaitInv'
BY TypeStep, CurStep, SignedStep, LiveStep DEF WaitInv, Calm

\* Transactions that were signed have a state and a decision of their own.
LEMMA SignedTx ==
  ASSUME TypeInv, NEW t \in 1 .. signed
  PROVE  t \in Tx /\ t # signed + 1
BY SwapAssumption DEF TypeInv, TypeOK, ChainTypeOK, Tx

LEMMA SentStep ==
  ASSUME Calm, RefInv, [Next]_vars
  PROVE  SentOnce'
<1> SUFFICES ASSUME NEW d \in Caller, pc'[d] = "send"
             PROVE  txState'[cur'[d]] = "signed"
  BY DEF SentOnce
<1>1. ASSUME NEW c \in Caller,
             Decides(c) \/ QuietCall(c) \/ SignsOwn(c) \/ SendsOwn(c)
      PROVE  txState'[cur'[d]] = "signed"
  <2>1. CASE d = c
    BY <1>1, <2>1 DEF Decides, QuietCall, SignsOwn, SendsOwn
  <2>2. CASE d # c
    <3>1. pc[d] = "send" /\ cur'[d] = cur[d]
      BY <1>1, <2>2 DEF Decides, QuietCall, SignsOwn, SendsOwn, Others
    <3>2. /\ cur[d] \in 1 .. signed /\ txSale[cur[d]] = <<d, sale[d]>>
          /\ txState[cur[d]] = "signed"
      BY <3>1 DEF RefInv, WaitInv, CurInv, HasTx, SentOnce
    <3>3. cur[d] \in Tx /\ cur[d] # signed + 1
      BY <3>2, SignedTx DEF RefInv, WaitInv
    <3>4. txState'[cur[d]] = txState[cur[d]]
      BY <1>1, <2>2, <3>2, <3>3
      DEF Decides, QuietCall, SignsOwn, SendsOwn, Pending
    <3> QED
      BY <3>1, <3>2, <3>4
  <2> QED
    BY <2>1, <2>2
<1>2. CASE (\E t \in Tx : NodeMoves(t)) \/ UNCHANGED <<txState, Calls>>
  <2>1. /\ pc[d] = "send" /\ cur'[d] = cur[d]
    BY <1>2 DEF NodeMoves, Calls
  <2>2. cur[d] \in 1 .. signed /\ txState[cur[d]] = "signed"
    BY <2>1 DEF RefInv, WaitInv, CurInv, HasTx, SentOnce
  <2>3. cur[d] \in Tx
    BY <2>2, SignedTx DEF RefInv, WaitInv
  <2> QED
    BY <1>2, <2>1, <2>2, <2>3 DEF NodeMoves, Pending
<1>3. CASE Restart
  BY <1>3, RestartSteps
<1> QED
  BY <1>1, <1>2, <1>3, AllSteps DEF RefInv

\* A swap that filled stays filled, whoever takes a step.
LEMMA FilledStays ==
  ASSUME Calm, RefInv, [Next]_vars, NEW t \in 1 .. signed, txState[t] = "ok"
  PROVE  /\ t \in 1 .. signed' /\ txState'[t] = "ok"
         /\ txKind'[t] = txKind[t] /\ txSale'[t] = txSale[t]
<1>1. t \in Tx /\ t # signed + 1 /\ signed \in Nat
  BY SignedTx DEF RefInv, WaitInv, TypeInv, TypeOK, ChainTypeOK
<1>2. ASSUME NEW c \in Caller, SendsOwn(c)
      PROVE  t # cur[c]
  BY <1>2 DEF SendsOwn, RefInv, SentOnce
<1>3. ASSUME NEW c \in Caller, SignsOwn(c)
      PROVE  /\ t \in 1 .. signed' /\ txState'[t] = txState[t]
             /\ txKind'[t] = txKind[t] /\ txSale'[t] = txSale[t]
  BY <1>1, <1>3 DEF SignsOwn
<1>4. ASSUME NEW c \in Caller, SendsOwn(c)
      PROVE  UNCHANGED txs /\ txState'[t] = txState[t]
  BY <1>1, <1>2, <1>4 DEF SendsOwn, Pending
<1>5. ASSUME NEW u \in Tx, NodeMoves(u)
      PROVE  UNCHANGED txs /\ txState'[t] = txState[t]
  BY <1>1, <1>5 DEF NodeMoves, Calls, Pending
<1>6. ASSUME \/ \E c \in Caller : Decides(c) \/ QuietCall(c)
             \/ UNCHANGED <<txState, Calls>> \/ Restart
      PROVE  UNCHANGED txs /\ txState'[t] = txState[t]
  BY <1>6, RestartSteps DEF Decides, QuietCall, Calls
<1> QED
  BY <1>3, <1>4, <1>5, <1>6, AllSteps DEF RefInv, txs

LEMMA FilledStep ==
  ASSUME Calm, RefInv, [Next]_vars
  PROVE  FilledIsMined'
<1> SUFFICES ASSUME NEW d \in Caller, KnowsFill(d)'
             PROVE  (/\ cur[d] \in 1 .. signed /\ OwnSwap(cur[d], d)
                     /\ txState[cur[d]] = "ok")'
  BY DEF FilledIsMined
<1> DEFINE Learns == /\ cur'[d] = cur[d] /\ sale'[d] = sale[d]
                     /\ \/ KnowsFill(d)
                        \/ HasTx(d) /\ job[d] = "swap" /\ txState[cur[d]] = "ok"
<1>1. Learns
  <2>1. ASSUME NEW c \in Caller,
               Decides(c) \/ QuietCall(c) \/ SignsOwn(c) \/ SendsOwn(c)
        PROVE  Learns
    <3>1. CASE d = c
      BY <2>1, <3>1
      DEF Decides, QuietCall, SignsOwn, SendsOwn, KnowsFill
    <3>2. CASE d # c
      BY <2>1, <3>2
      DEF Decides, QuietCall, SignsOwn, SendsOwn, Others, KnowsFill
    <3> QED
      BY <3>1, <3>2
  <2>2. CASE (\E t \in Tx : NodeMoves(t)) \/ UNCHANGED <<txState, Calls>>
    BY <2>2 DEF NodeMoves, Calls, KnowsFill
  <2>3. CASE Restart
    BY <2>3, RestartSteps DEF KnowsFill
  <2> QED
    BY <2>1, <2>2, <2>3, AllSteps DEF RefInv
<1>2. cur[d] \in 1 .. signed /\ OwnSwap(cur[d], d) /\ txState[cur[d]] = "ok"
  BY <1>1 DEF RefInv, WaitInv, CurInv, FilledIsMined, OwnSwap
<1>3. /\ cur[d] \in 1 .. signed' /\ txState'[cur[d]] = "ok"
      /\ txKind'[cur[d]] = txKind[cur[d]] /\ txSale'[cur[d]] = txSale[cur[d]]
  BY <1>2, FilledStays
<1> QED
  BY <1>1, <1>2, <1>3 DEF OwnSwap

\* Nothing comes to life behind the back of a caller that waits for nothing.
LEMMA IdleFrame ==
  ASSUME Calm, RefInv, [Next]_vars, NEW d \in Caller, pc'[d] = "idle",
         NEW t \in 1 .. signed', OwnSwap(t, d)', Live(t)'
  PROVE  t \in 1 .. signed /\ OwnSwap(t, d) /\ Live(t)
<1>1. signed \in Nat
  BY DEF RefInv, WaitInv, TypeInv, TypeOK, ChainTypeOK
<1>2. ASSUME NEW c \in Caller,
             Decides(c) \/ QuietCall(c) \/ SignsOwn(c) \/ SendsOwn(c)
      PROVE  t \in 1 .. signed /\ OwnSwap(t, d) /\ Live(t)
  <2>1. d # c
    BY <1>2 DEF Decides, QuietCall, SignsOwn, SendsOwn
  <2>2. CASE Decides(c) \/ QuietCall(c)
    BY <2>1, <2>2 DEF Decides, QuietCall, Others, OwnSwap, Live, Pending, txs
  <2>3. CASE SignsOwn(c)
    <3>1. t # signed + 1 /\ signed' = signed + 1
      BY <2>3 DEF SignsOwn, Live, Pending
    <3>2. t \in 1 .. signed /\ t \in Tx
      BY <1>1, <3>1, SignedTx DEF RefInv, WaitInv
    <3> QED
      BY <2>3, <3>1, <3>2 DEF SignsOwn, OwnSwap, Live, Pending
  <2>4. CASE SendsOwn(c)
    <3>1. t \in 1 .. signed /\ OwnSwap(t, d) /\ t \in Tx
      BY <2>4, SignedTx DEF SendsOwn, txs, OwnSwap, RefInv, WaitInv
    <3>2. t # cur[c]
      BY <2>1, <2>4, <3>1 DEF SendsOwn, OwnSwap
    <3> QED
      BY <2>4, <3>1, <3>2 DEF SendsOwn, Live, Pending
  <2> QED
    BY <1>2, <2>2, <2>3, <2>4
<1>3. CASE \E u \in Tx : NodeMoves(u)
  <2>1. PICK u \in Tx : NodeMoves(u)
    BY <1>3
  <2>2. t \in 1 .. signed /\ OwnSwap(t, d) /\ t \in Tx
    BY <2>1, SignedTx DEF NodeMoves, Calls, txs, OwnSwap, RefInv, WaitInv
  <2> QED
    BY <2>1, <2>2 DEF NodeMoves, Live, Pending
<1>4. CASE UNCHANGED <<txState, Calls>> \/ Restart
  BY <1>4, RestartSteps DEF Calls, txs, OwnSwap, Live, Pending
<1> QED
  BY <1>2, <1>3, <1>4, AllSteps DEF RefInv

LEMMA OneLiveStep ==
  ASSUME Calm, RefInv, [Next]_vars
  PROVE  OneLive'
<1> SUFFICES ASSUME NEW d \in Caller, NEW t \in 1 .. signed', NEW u \in 1 .. signed',
                    OwnSwap(t, d)', Live(t)', OwnSwap(u, d)', Live(u)'
             PROVE  t = u
  BY DEF OneLive
<1>1. CASE pc'[d] = "idle"
  BY <1>1, IdleFrame DEF RefInv, OneLive
<1>2. CASE pc'[d] # "idle"
  <2>1. LiveIsAwaited'
    BY WaitStep DEF RefInv, WaitInv
  <2> QED
    BY <1>2, <2>1 DEF LiveIsAwaited
<1> QED
  BY <1>1, <1>2

LEMMA RefStep == ASSUME Calm, RefInv, [Next]_vars PROVE RefInv'
<1>1. WaitInv'
  BY WaitStep DEF RefInv
<1> QED
  BY <1>1, SentStep, FilledStep, OneLiveStep DEF RefInv

------------------------------------------------------------------------------
(* The mapping *)

PhaseAgrees ==
  \A c \in Caller :
     /\ pc[c] = "idle" => Phase(c) = "idle"
     /\ pc[c] = "done" /\ result[c] = "filled" => Phase(c) = "filled"
     /\ pc[c] = "done" /\ result[c] = "pending" => Phase(c) = "unresolved"
     /\ pc[c] = "done" /\ result[c] \notin {"filled", "pending"}
          => Phase(c) = "failed"
     /\ pc[c] \notin {"idle", "done"} => Phase(c) = "open"

LEMMA PhaseIs == PhaseAgrees
<1> SUFFICES ASSUME NEW c \in Caller
             PROVE  /\ pc[c] = "idle" => Phase(c) = "idle"
                    /\ pc[c] = "done" /\ result[c] = "filled"
                         => Phase(c) = "filled"
                    /\ pc[c] = "done" /\ result[c] = "pending"
                         => Phase(c) = "unresolved"
                    /\ pc[c] = "done" /\ result[c] \notin {"filled", "pending"}
                         => Phase(c) = "failed"
                    /\ pc[c] \notin {"idle", "done"} => Phase(c) = "open"
  BY DEF PhaseAgrees
<1>1. pc[c] = "idle" => Phase(c) = "idle"
  BY DEF Phase
<1>2. pc[c] = "done" /\ result[c] = "filled" => Phase(c) = "filled"
  BY DEF Phase
<1>3. pc[c] = "done" /\ result[c] = "pending" => Phase(c) = "unresolved"
  BY DEF Phase
<1>4. pc[c] = "done" /\ result[c] \notin {"filled", "pending"}
        => Phase(c) = "failed"
  BY DEF Phase
<1>5. pc[c] \notin {"idle", "done"} => Phase(c) = "open"
  BY DEF Phase
<1> QED
  BY <1>1, <1>2, <1>3, <1>4, <1>5

Filled(t, c) == OwnSwap(t, c) /\ txState[t] = "ok"

\* A decision counts its fills as none or one.
FillsCounted ==
  \A c \in Caller :
    /\ (\A t \in Tx : ~Filled(t, c)) => Fills(c) = 0
    /\ (\E t \in Tx : Filled(t, c)) => Fills(c) = 1

LEMMA OkIsSigned ==
  ASSUME RefInv, NEW t \in Tx, txState[t] # "none"
  PROVE  t \in 1 .. signed
BY SwapAssumption
DEF RefInv, WaitInv, SignedInv, TypeInv, TypeOK, ChainTypeOK, Tx

LEMMA FillCount == RefInv => FillsCounted
<1> SUFFICES ASSUME RefInv, NEW c \in Caller
             PROVE  /\ (\A t \in Tx : ~Filled(t, c)) => Fills(c) = 0
                    /\ (\E t \in Tx : Filled(t, c)) => Fills(c) = 1
  BY DEF FillsCounted
<1> DEFINE S == {t \in Tx : txKind[t] = "swap" /\ txState[t] = "ok"
                               /\ txSale[t] = <<c, sale[c]>>}
<1>1. Fills(c) = Cardinality(S) /\ \A t \in Tx : t \in S <=> Filled(t, c)
  BY DEF Fills, Filled, OwnSwap
<1>2. ASSUME \A t \in Tx : ~Filled(t, c) PROVE Fills(c) = 0
  <2>1. S = {}
    BY <1>1, <1>2
  <2> HIDE DEF S
  <2> QED
    BY <1>1, <2>1, FS_EmptySet
<1>3. ASSUME NEW t \in Tx, Filled(t, c) PROVE Fills(c) = 1
  <2>1. ASSUME NEW u \in Tx, Filled(u, c) PROVE u \in 1 .. signed
    BY <2>1, OkIsSigned DEF Filled
  <2>2. \A u \in Tx : Filled(u, c) => u = t
    BY <1>3, <2>1 DEF RefInv, OneLive, Filled, Live
  <2>3. S = {t}
    BY <1>1, <1>3, <2>2
  <2> HIDE DEF S
  <2> QED
    BY <1>1, <2>3, FS_Singleton
<1> QED
  BY <1>2, <1>3

\* What a caller knows agrees with the chain.
PhaseMeaning ==
  \A c \in Caller :
    /\ Phase(c) = "failed" => Fills(c) = 0
    /\ Phase(c) = "filled" => Fills(c) = 1

LEMMA PhaseMeans == RefInv => PhaseMeaning
<1> SUFFICES ASSUME RefInv, NEW c \in Caller
             PROVE  /\ Phase(c) = "failed" => Fills(c) = 0
                    /\ Phase(c) = "filled" => Fills(c) = 1
  BY DEF PhaseMeaning
<1>1. ASSUME Phase(c) = "failed" PROVE Fills(c) = 0
  <2>1. pc[c] = "done" /\ result[c] \notin {"filled", "pending"}
    BY <1>1, PhaseIs DEF PhaseAgrees
  <2>2. ASSUME NEW t \in Tx, Filled(t, c) PROVE FALSE
    <3>1. t \in 1 .. signed
      BY <2>2, OkIsSigned DEF Filled
    <3> QED
      BY <2>1, <2>2, <3>1
      DEF RefInv, WaitInv, LiveIsAwaited, Awaits, Filled, Live
  <2> QED
    BY <2>2, FillCount DEF FillsCounted
<1>2. ASSUME Phase(c) = "filled" PROVE Fills(c) = 1
  <2>1. KnowsFill(c)
    BY <1>2, PhaseIs DEF PhaseAgrees, KnowsFill
  <2>2. cur[c] \in Tx /\ Filled(cur[c], c)
    BY <2>1, SignedTx DEF RefInv, WaitInv, FilledIsMined, Filled
  <2> QED
    BY <2>2, FillCount DEF FillsCounted
<1> QED
  BY <1>1, <1>2

\* Where the filled swaps of a decision are the same, so is their number.
LEMMA SameFills ==
  ASSUME NEW c \in Caller, \A t \in Tx : Filled(t, c)' <=> Filled(t, c)
  PROVE  Fills(c)' = Fills(c)
<1>1. {t \in Tx : txKind'[t] = "swap" /\ txState'[t] = "ok"
                   /\ txSale'[t] = <<c, sale'[c]>>}
      = {t \in Tx : txKind[t] = "swap" /\ txState[t] = "ok"
                     /\ txSale[t] = <<c, sale[c]>>}
  BY DEF Filled, OwnSwap
<1> QED
  BY <1>1 DEF Fills, Tx

\* Where a caller is and what it was told decide what it knows.
LEMMA SamePhase ==
  ASSUME NEW c \in Caller, pc'[c] = pc[c], result'[c] = result[c]
  PROVE  Phase(c)' = Phase(c)
BY DEF Phase

\* Nothing fills by a step of a caller.
LEMMA CallFills ==
  ASSUME RefInv, NEW c \in Caller,
         Decides(c) \/ QuietCall(c) \/ SignsOwn(c) \/ SendsOwn(c),
         NEW e \in Caller, sale'[e] = sale[e]
  PROVE  Fills(e)' = Fills(e)
<1> SUFFICES ASSUME NEW t \in Tx PROVE Filled(t, e)' <=> Filled(t, e)
  BY SameFills
<1>1. CASE Decides(c) \/ QuietCall(c)
  BY <1>1 DEF Decides, QuietCall, Filled, OwnSwap, txs
<1>2. CASE SignsOwn(c)
  <2>1. CASE t = signed + 1
    BY <1>2, <2>1 DEF SignsOwn, Filled
  <2>2. CASE t # signed + 1
    BY <1>2, <2>2 DEF SignsOwn, Filled, OwnSwap
  <2> QED
    BY <2>1, <2>2
<1>3. CASE SendsOwn(c)
  <2>1. txState[cur[c]] = "signed"
    BY <1>3 DEF SendsOwn, RefInv, SentOnce
  <2> QED
    BY <1>3, <2>1 DEF SendsOwn, Filled, OwnSwap, Pending, txs
<1> QED
  BY <1>1, <1>2, <1>3

\* All of it holds after the step as well.
LEMMA MapNext == RefInv' => PhaseAgrees' /\ FillsCounted' /\ PhaseMeaning'
BY PhaseIs, FillCount, PhaseMeans, PTL

LEMMA DecideMaps ==
  ASSUME RefInv, RefInv', NEW c \in Caller, Decides(c)
  PROVE  [Promise!Next]_(Promise!promise)
<1>1. ASSUME NEW e \in Caller, e # c
      PROVE  Phase(e)' = Phase(e) /\ Fills(e)' = Fills(e)
  BY <1>1, SamePhase, CallFills DEF Decides, Others
<1>2. pc'[c] = "lock" => Phase(c)' = "open"
  BY MapNext DEF PhaseAgrees
<1>3. pc'[c] = "done" => Phase(c)' = "failed"
  BY MapNext DEF PhaseAgrees, Decides
<1>4. CASE sale'[c] = sale[c] + 1
  <2>1. Phase(c) # "open"
    BY PhaseIs DEF PhaseAgrees, Decides
  <2>2. ASSUME NEW t \in Tx, Filled(t, c)' PROVE FALSE
    <3>1. txSale[t] = <<c, sale[c] + 1>> /\ txState[t] = "ok"
      BY <1>4, <2>2 DEF Decides, Filled, OwnSwap, txs
    <3>2. t \in 1 .. signed
      BY <3>1, OkIsSigned
    <3>3. sale[c] \in Nat
      BY DEF RefInv, WaitInv, TypeInv, TypeOK, DecisionTypeOK
    <3>4. sale[c] + 1 <= sale[c]
      BY <3>1, <3>2, <3>3 DEF RefInv, WaitInv, SignedInv
    <3> QED
      BY <3>3, <3>4
  <2>4. Fills(c)' = 0
    BY <2>2, MapNext DEF FillsCounted, Tx
  <2>5. CASE pc'[c] = "lock"
    <3>1. Promise!Decide(c)
      BY <1>1, <1>2, <2>1, <2>4, <2>5 DEF Promise!Decide
    <3> QED
      BY <3>1 DEF Promise!Next
  <2>6. CASE pc'[c] = "done"
    <3>1. Promise!Refuse(c)
      BY <1>1, <1>3, <2>1, <2>4, <2>6 DEF Promise!Refuse
    <3> QED
      BY <3>1 DEF Promise!Next
  <2> QED
    BY <2>5, <2>6 DEF Decides
<1>5. CASE sale'[c] = sale[c]
  <2>1. /\ pc[c] = "done" /\ result[c] \notin {"filled", "pending"}
    BY <1>5 DEF Decides, RefInv, WaitInv, TypeInv, TypeOK, DecisionTypeOK
  <2>2. Phase(c) = "failed"
    BY <2>1, PhaseIs DEF PhaseAgrees
  <2>3. Fills(c)' = Fills(c)
    BY <1>5, CallFills
  <2>4. CASE pc'[c] = "lock"
    <3>1. Promise!TryAgain(c)
      BY <1>1, <1>2, <2>2, <2>3, <2>4 DEF Promise!TryAgain
    <3> QED
      BY <3>1 DEF Promise!Next
  <2>5. CASE pc'[c] = "done"
    BY <1>1, <1>3, <2>2, <2>3, <2>5 DEF Promise!promise
  <2> QED
    BY <2>4, <2>5 DEF Decides
<1> QED
  BY <1>4, <1>5 DEF Decides

LEMMA CallMaps ==
  ASSUME RefInv, RefInv', NEW c \in Caller,
         QuietCall(c) \/ SignsOwn(c) \/ SendsOwn(c)
  PROVE  [Promise!Next]_(Promise!promise)
<1>1. ASSUME NEW e \in Caller, e # c
      PROVE  Phase(e)' = Phase(e)
  BY <1>1, SamePhase DEF QuietCall, SignsOwn, SendsOwn, Others
<1>2. ASSUME NEW e \in Caller
      PROVE  Fills(e)' = Fills(e)
  BY CallFills DEF QuietCall, SignsOwn, SendsOwn
<1>3. pc[c] \notin {"idle", "done"} /\ pc'[c] # "idle"
  BY DEF QuietCall, SignsOwn, SendsOwn
<1>4. Phase(c) = "open"
  BY <1>3, PhaseIs DEF PhaseAgrees
<1>5. /\ Phase(c)' = "failed" => Fills(c)' = 0
      /\ Phase(c)' = "filled" => Fills(c)' = 1
  BY MapNext DEF PhaseMeaning
<1>6. Phase(c)' \in {"open", "failed", "filled", "unresolved"}
  BY <1>3, MapNext DEF PhaseAgrees
<1>7. CASE Phase(c)' = "open"
  BY <1>1, <1>2, <1>4, <1>7 DEF Promise!promise
<1>8. CASE Phase(c)' # "open"
  <2>1. Promise!Answer(c)
    BY <1>1, <1>2, <1>4, <1>5, <1>6, <1>8 DEF Promise!Answer
  <2> QED
    BY <2>1 DEF Promise!Next
<1> QED
  BY <1>7, <1>8

LEMMA NodeMaps ==
  ASSUME RefInv, RefInv', NEW t \in Tx, NodeMoves(t)
  PROVE  [Promise!Next]_(Promise!promise)
<1>1. ASSUME NEW e \in Caller PROVE Phase(e)' = Phase(e)
  BY SamePhase DEF NodeMoves, Calls
<1>2. ASSUME NEW e \in Caller, ~Filled(t, e)' PROVE Fills(e)' = Fills(e)
  <2>1. ~Filled(t, e)
    BY DEF NodeMoves, Filled, Pending
  <2>2. ASSUME NEW u \in Tx, u # t PROVE Filled(u, e)' <=> Filled(u, e)
    BY <2>2 DEF NodeMoves, Calls, Filled, OwnSwap, txs
  <2> QED
    BY <1>2, <2>1, <2>2, SameFills
<1>3. CASE \A c \in Caller : ~Filled(t, c)'
  BY <1>1, <1>2, <1>3 DEF Promise!promise
<1>4. ASSUME NEW c \in Caller, Filled(t, c)' PROVE Promise!Fill(c)
  <2>1. OwnSwap(t, c) /\ Live(t)
    BY <1>4 DEF NodeMoves, Calls, Filled, OwnSwap, Live, txs
  <2>2. ASSUME NEW u \in Tx, u \notin 1 .. signed PROVE txState[u] = "none"
    BY <2>2, OkIsSigned
  <2>3. t \in 1 .. signed
    BY <2>2 DEF NodeMoves, Pending
  <2>4. Phase(c) # "failed"
    <3>1. \/ pc[c] = "idle" \/ pc[c] \notin {"idle", "done"}
          \/ pc[c] = "done" /\ result[c] \in {"filled", "pending"}
      BY <2>1, <2>3 DEF RefInv, WaitInv, LiveIsAwaited, Awaits
    <3> QED
      BY <3>1, PhaseIs DEF PhaseAgrees
  <2>5. ASSUME NEW u \in Tx, Filled(u, c) PROVE FALSE
    <3>1. u \in 1 .. signed /\ OwnSwap(u, c) /\ Live(u)
      BY <2>2, <2>5 DEF Filled, Live
    <3>2. u = t
      BY <2>1, <2>3, <3>1 DEF RefInv, OneLive
    <3> QED
      BY <2>5, <3>2 DEF Filled, NodeMoves, Pending
  <2>6. Fills(c) = 0
    BY <2>5, FillCount DEF FillsCounted
  <2>8. Fills(c)' = 1
    BY <1>4, MapNext DEF FillsCounted, Tx
  <2>9. ASSUME NEW e \in Caller, e # c PROVE Fills(e)' = Fills(e)
    <3>1. ~Filled(t, e)'
      BY <1>4, <2>9 DEF Filled, OwnSwap
    <3> QED
      BY <3>1, <1>2
  <2> QED
    BY <1>1, <2>4, <2>6, <2>8, <2>9 DEF Promise!Fill
<1> QED
  BY <1>3, <1>4 DEF Promise!Next

LEMMA QuietMaps ==
  ASSUME RefInv, RefInv', UNCHANGED <<txState, Calls>> \/ Restart
  PROVE  [Promise!Next]_(Promise!promise)
<1>1. ASSUME NEW c \in Caller PROVE Fills(c)' = Fills(c)
  <2>1. ASSUME NEW t \in Tx PROVE Filled(t, c)' <=> Filled(t, c)
    BY RestartSteps DEF Calls, Filled, OwnSwap, txs
  <2> QED
    BY <2>1, SameFills
<1>2. CASE UNCHANGED <<txState, Calls>>
  BY <1>1, <1>2, SamePhase DEF Calls, Promise!promise
<1>3. CASE Restart
  <2>1. ASSUME NEW c \in Caller PROVE Phase(c)' = "idle"
    BY <1>3, MapNext, RestartSteps DEF PhaseAgrees
  <2>2. Promise!Forget
    BY <1>1, <2>1 DEF Promise!Forget
  <2> QED
    BY <2>2 DEF Promise!Next
<1> QED
  BY <1>2, <1>3

LEMMA InitMaps == Init => Promise!Init
<1> SUFFICES ASSUME Init PROVE Promise!Init
  OBVIOUS
<1>1. ASSUME NEW c \in Caller PROVE Phase(c) = "idle"
  BY PhaseIs DEF PhaseAgrees, Init
<1>2. ASSUME NEW c \in Caller PROVE Fills(c) = 0
  BY RefInit, FillCount DEF FillsCounted, Init, Filled
<1> QED
  BY <1>1, <1>2 DEF Promise!Init

\* The write path implements SwapPromise: whatever is signed again, sold again
\* after a failure, mined late or forgotten by a restart, a decision fills at
\* most once, "filled" is said of one that did, and a failure that is not
\* reported as pending is final; as long as the node neither hears again of a
\* transaction it forgot nor delivers a broadcast after its request failed.
THEOREM SwapsKeepThePromise ==
  ASSUME "regossip" \notin Faults, "late" \notin Faults
  PROVE  Spec => KeepsPromise
<1>1. RefInv /\ [Next]_vars => RefInv'
  BY RefStep DEF Calm
<1>2. RefInv /\ RefInv' /\ [Next]_vars => [Promise!Next]_(Promise!promise)
  <2> SUFFICES ASSUME RefInv, RefInv', [Next]_vars
               PROVE  [Promise!Next]_(Promise!promise)
    OBVIOUS
  <2>1. \/ \E c \in Caller :
             Decides(c) \/ QuietCall(c) \/ SignsOwn(c) \/ SendsOwn(c)
        \/ \E t \in Tx : NodeMoves(t)
        \/ UNCHANGED <<txState, Calls>>
        \/ Restart
    BY AllSteps DEF Calm, RefInv
  <2> QED
    BY <2>1, DecideMaps, CallMaps, NodeMaps, QuietMaps
<1> QED
  BY <1>1, <1>2, RefInit, InitMaps, PTL DEF Spec, KeepsPromise, Promise!Spec
==============================================================================
