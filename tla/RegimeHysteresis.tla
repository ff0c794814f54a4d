-------------------------- MODULE RegimeHysteresis --------------------------
(***************************************************************************)
(* The market regime a cycle of _run_bot trades in: resolve_regime combines *)
(* the two trend signals into a reading, and apply_regime_hysteresis keeps  *)
(* the confirmed regime of the state file until enough readings disagree.   *)
(*                                                                          *)
(* A scan loads the state file, decides and saves it without holding the    *)
(* file lock in between, and saves copies of the whole file later on, while *)
(* it trades; WebSocket mode can have two scans under way.                  *)
(* Prices are abstracted to the signal they amount to.                      *)
(***************************************************************************)
EXTENDS Naturals, Sequences

CONSTANTS
  Scan,         \* threads that run _run_bot
  Market,       \* pairs of signals the prices may amount to
  ConfirmCount  \* REGIME_CONFIRM_COUNT

Macro == {"BULL", "BEAR", "FLAT"}
Rotation == {"ETH_LEADING", "BTC_LEADING", "NEUTRAL_RATIO"}
Regime == {"STRONG_BULL", "BULL", "NEUTRAL", "BEAR", "STRONG_BEAR"}
Unset == "unset"

HysteresisConstants ==
  /\ Market \subseteq Macro \X Rotation
  /\ ConfirmCount \in Nat \ {0}

\* resolve_regime; a rotation signal that is missing counts as neutral.
resolve_regime(macro, rotation) ==
  CASE macro = "BULL" /\ rotation = "ETH_LEADING" -> "STRONG_BULL"
    [] macro = "BULL" /\ rotation # "ETH_LEADING" -> "BULL"
    [] macro = "BEAR" /\ rotation = "BTC_LEADING" -> "STRONG_BEAR"
    [] macro = "BEAR" /\ rotation # "BTC_LEADING" -> "BEAR"
    [] macro = "FLAT" -> "NEUTRAL"

VARIABLES
  market,     \* the two signals the prices amount to
  confirmed,  \* confirmed_regime in the state file
  streak,     \* regime_streak in the state file
  pc,         \* "idle", "decide", "load" or "trade", of each scan
  reading,    \* the regime a scan computed
  loaded,     \* what it loaded: <<confirmed_regime, regime_streak>>
  regime,     \* the regime the last scan to decide trades in
  recent,     \* history: the last ConfirmCount readings acted on
  overlapped  \* history: two scans were once under way together

file == <<confirmed, streak>>
vars == <<market, file, pc, reading, loaded, regime, recent,
          overlapped>>

CurrentReading == resolve_regime(market[1], market[2])

Init ==
  /\ market \in Market
  /\ confirmed = Unset
  /\ streak = 0
  /\ pc = [s \in Scan |-> "idle"]
  /\ reading = [s \in Scan |-> Unset]
  /\ loaded = [s \in Scan |-> <<Unset, 0>>]
  /\ regime = Unset
  /\ recent = <<>>
  /\ overlapped = FALSE

\* The prices move.
Move ==
  /\ market' \in Market
  /\ UNCHANGED <<file, pc, reading, loaded, regime, recent, overlapped>>

UnderWay == {s \in Scan : pc[s] # "idle"}

\* A scan computes the regime and loads the state file.
Detect(s) ==
  /\ pc[s] = "idle"
  /\ reading' = [reading EXCEPT ![s] = CurrentReading]
  /\ loaded' = [loaded EXCEPT ![s] = file]
  /\ pc' = [pc EXCEPT ![s] = "decide"]
  /\ overlapped' = (overlapped \/ UnderWay # {})
  /\ UNCHANGED <<market, file, regime, recent>>

\* The scan trades in r from here on.
ActOn(s, r) ==
  LET seen == Append(recent, reading[s]) IN
  /\ regime' = r
  /\ recent' = IF Len(seen) > ConfirmCount THEN Tail(seen) ELSE seen
  /\ pc' = [pc EXCEPT ![s] = "load"]
  /\ reading' = [reading EXCEPT ![s] = Unset]
  /\ loaded' = [loaded EXCEPT ![s] = <<Unset, 0>>]
  /\ UNCHANGED <<market, overlapped>>

\* No regime was ever confirmed: the first reading is.
Seed(s) ==
  /\ loaded[s][1] = Unset
  /\ confirmed' = reading[s]
  /\ streak' = 0
  /\ ActOn(s, reading[s])

\* Mutant: a reading that agrees leaves the streak of the others standing.
AgreeKeepingStreak(s) ==
  /\ loaded[s][1] = reading[s]
  /\ UNCHANGED file
  /\ ActOn(s, reading[s])

\* The reading agrees; the file is only written when a streak is to be reset.
Agree(s) ==
  /\ loaded[s][1] = reading[s]
  /\ IF loaded[s][2] = 0
       THEN UNCHANGED file
       ELSE confirmed' = loaded[s][1] /\ streak' = 0
  /\ ActOn(s, reading[s])

\* Mutant: one reading too many is asked for.
OneTooMany(s) == loaded[s][2] + 1 > ConfirmCount

Confirmed(s) == loaded[s][2] + 1 >= ConfirmCount

\* Mutant: the streak is not saved.
ForgetStreak(s) == UNCHANGED file

SaveStreak(s) ==
  /\ confirmed' = loaded[s][1]
  /\ streak' = loaded[s][2] + 1

\* Any reading but the confirmed one counts towards the streak, whichever it is.
Disagree(s) ==
  /\ loaded[s][1] \notin {Unset, reading[s]}
  /\ IF Confirmed(s)
       THEN /\ confirmed' = reading[s]
            /\ streak' = 0
            /\ ActOn(s, reading[s])
       ELSE /\ SaveStreak(s)
            /\ ActOn(s, loaded[s][1])

apply_regime_hysteresis(s) ==
  /\ pc[s] = "decide"
  /\ Seed(s) \/ Agree(s) \/ Disagree(s)

\* The scan loads the file to trade by: for each executor, and for the status.
Load(s) ==
  /\ pc[s] \in {"load", "trade"}
  /\ loaded' = [loaded EXCEPT ![s] = file]
  /\ pc' = [pc EXCEPT ![s] = "trade"]
  /\ UNCHANGED <<market, file, reading, regime, recent, overlapped>>

\* It saves the copy it loaded, with a mark, a flag or a time changed: regime
\* and streak become again what they were.
SaveSnapshot(s) ==
  /\ pc[s] = "trade"
  /\ confirmed' = loaded[s][1]
  /\ streak' = loaded[s][2]
  /\ UNCHANGED <<market, pc, reading, loaded, regime, recent, overlapped>>

Finish(s) ==
  /\ pc[s] = "trade"
  /\ pc' = [pc EXCEPT ![s] = "idle"]
  /\ loaded' = [loaded EXCEPT ![s] = <<Unset, 0>>]
  /\ UNCHANGED <<market, file, reading, regime, recent, overlapped>>

Next ==
  \/ Move
  \/ \E s \in Scan : \/ Detect(s) \/ apply_regime_hysteresis(s)
                     \/ Load(s) \/ SaveSnapshot(s) \/ Finish(s)

Spec == Init /\ [][Next]_vars

\* Scans keep coming (a timer, or the scan loop) and each one finishes.
Begins == \E s \in Scan : Detect(s)
LoadsFirst(s) == pc[s] = "load" /\ Load(s)

FairSpec ==
  /\ Spec
  /\ WF_vars(Begins)
  /\ \A s \in Scan : /\ WF_vars(apply_regime_hysteresis(s))
                     /\ WF_vars(LoadsFirst(s))
                     /\ WF_vars(Finish(s))

------------------------------------------------------------------------------
\* The values each variable takes; the streak never reaches ConfirmCount.
TypeOK ==
  /\ market \in Market
  /\ confirmed \in Regime \cup {Unset}
  /\ streak \in 0 .. ConfirmCount - 1
  /\ pc \in [Scan -> {"idle", "decide", "load", "trade"}]
  /\ reading \in [Scan -> Regime \cup {Unset}]
  /\ loaded \in [Scan -> (Regime \cup {Unset}) \X (0 .. ConfirmCount - 1)]
  /\ regime \in Regime \cup {Unset}
  /\ recent \in Seq(Regime)
  /\ overlapped \in BOOLEAN

\* The hysteresis filters noise: as long as no two scans overlap, the bot only
\* leaves a regime when each of the last ConfirmCount readings disagreed with
\* it, the one at hand included.
LeavesOnlyOnDissent ==
  [][regime' # regime /\ regime # Unset /\ ~overlapped =>
       /\ Len(recent') = ConfirmCount
       /\ \A i \in 1 .. ConfirmCount : recent'[i] # regime]_vars

\* strategy-guide.md: a regime switches when another signal "appears 3 times in a
\* row" (ConfirmCount times): as long as no two scans overlap, each of the last
\* readings is the regime that is switched to.
SwitchesOnRepeats ==
  [][regime' # regime /\ regime # Unset /\ ~overlapped =>
       \A i \in DOMAIN recent' : recent'[i] = regime']_vars

\* The regime is never stuck: whatever overlapping scans made of the file, signals
\* that stay put are traded on in the end, once scans do not overlap any more.  As
\* long as they do, an older snapshot may take each streak back.
Settles ==
  \A r \in Regime :
    <>[](CurrentReading = r /\ \A s, t \in UnderWay : s = t) => <>[](regime = r)
==============================================================================
