----------------------------- MODULE SwapPromise -----------------------------
(***************************************************************************)
(* What execute_swap promises to the code that trades: each decision to    *)
(* buy or sell fills at most once on chain, whatever happens to the        *)
(* transactions signed for it; "filled" is only said of a decision that    *)
(* did; and a failure that is not reported as unresolved is final, so that *)
(* the same decision may be tried again without selling twice.             *)
(***************************************************************************)
EXTENDS Naturals

CONSTANT Caller

VARIABLES
  phase,  \* what the caller knows of its current decision
  fills   \* how often that decision filled on chain

promise == <<phase, fills>>

Init ==
  /\ phase = [c \in Caller |-> "idle"]
  /\ fills = [c \in Caller |-> 0]

\* A new decision.  An earlier unresolved one is no longer anybody's business.
Decide(c) ==
  /\ phase[c] # "open"
  /\ phase' = [phase EXCEPT ![c] = "open"]
  /\ fills' = [fills EXCEPT ![c] = 0]

\* ... which may be refused at once.
Refuse(c) ==
  /\ phase[c] # "open"
  /\ phase' = [phase EXCEPT ![c] = "failed"]
  /\ fills' = [fills EXCEPT ![c] = 0]

\* The decision that failed is tried again.
TryAgain(c) ==
  /\ phase[c] = "failed"
  /\ phase' = [phase EXCEPT ![c] = "open"]
  /\ UNCHANGED fills

\* The chain executes it: never twice, and never after a final failure.
Fill(c) ==
  /\ phase[c] # "failed"
  /\ fills[c] = 0
  /\ fills' = [fills EXCEPT ![c] = 1]
  /\ UNCHANGED phase

Answer(c) ==
  /\ phase[c] = "open"
  /\ \/ fills[c] = 1 /\ phase' = [phase EXCEPT ![c] = "filled"]
     \/ fills[c] = 0 /\ phase' = [phase EXCEPT ![c] = "failed"]
     \/ phase' = [phase EXCEPT ![c] = "unresolved"]
  /\ UNCHANGED fills

\* The process dies: no caller knows anything any more.
Forget ==
  /\ phase' = [c \in Caller |-> "idle"]
  /\ UNCHANGED fills

Next ==
  \/ \E c \in Caller : Decide(c) \/ Refuse(c) \/ TryAgain(c) \/ Fill(c) \/ Answer(c)
  \/ Forget

Spec == Init /\ [][Next]_promise
==============================================================================
