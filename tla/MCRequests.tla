----------------------------- MODULE MCRequests -----------------------------
(* Requests on the smallest instances on which each of its parts can fail; the *)
(* swaps are those of a caller that decides twice, over a node without faults. *)
EXTENDS Requests, TLC

Lots == [spot |-> {0, 4}, futures |-> {0, 29}]

OneExec == "c1" :> "e1"

NoQuote == -1

ASSUME H!BalanceConstants /\ C!OrdersConstants /\ G!GuardConstants
ASSUME Z!ClientConstants /\ A!AlertConstants
==============================================================================
