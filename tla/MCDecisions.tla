---------------------------- MODULE MCDecisions ----------------------------
(* Decisions on the smallest instances on which each of its parts can fail; the *)
(* cycle is one on Coinbase, with complete balance reads, purchases that may    *)
(* fill in part without being seen, no other faults and no profit levels.       *)
EXTENDS Decisions, TLC

Signals == {<<"BULL", "ETH_LEADING">>, <<"BULL", "NEUTRAL_RATIO">>,
            <<"FLAT", "NEUTRAL_RATIO">>, <<"BEAR", "BTC_LEADING">>}

Readings == [funding |-> {-2, 6}, oi |-> {0, -6}, ls |-> {70}]

TimesToLive == [funding |-> 2, oi |-> 1, ls |-> 1]

CandlesPerEngine == [base |-> 3, derivatives |-> 2, bear |-> 2]

FallOfInterest == -5

ASSUME K!BreakerConstants
ASSUME R!HysteresisConstants /\ P!PositionsConstants
ASSUME B!SizingConstants /\ D!SignalsConstants /\ T!BacktestConstants
==============================================================================
