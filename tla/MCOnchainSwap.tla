---- MODULE MCOnchainSwap ----
(* OnchainSwap with two callers, on one executor instance or on one each. *)
EXTENDS OnchainSwap, TLC
CONSTANTS c1, c2, e1, e2
OneExec == c1 :> e1 @@ c2 :> e1
TwoExecs == c1 :> e1 @@ c2 :> e2
Callers == Permutations({c1, c2})
====
