---- MODULE MCTradeCycle ----
(* TradeCycle with three assets, of which a run uses two or three. *)
EXTENDS TradeCycle, TLC
CONSTANTS a1, a2, a3
Assets == Permutations(Asset)
====
