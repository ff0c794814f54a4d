---- MODULE MCRegime ----
(* RegimeHysteresis with every pair of signals. *)
EXTENDS RegimeHysteresis
Signals == Macro \X Rotation
====
