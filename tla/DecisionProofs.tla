--------------------------- MODULE DecisionProofs ---------------------------
(***************************************************************************)
(* The rules a cycle decides by, for every value of their constants.  What  *)
(* is proved of each rule by itself is carried over to Decisions, where it  *)
(* is one part of a sum and idle while another part is at work.             *)
(***************************************************************************)
EXTENDS Decisions, TradeCycleProofs, SumTheorems, SequenceTheorems

------------------------------------------------------------------------------
(* The sum *)

\* Whichever part is at work, every one begins as it would by itself, and a step
\* of the sum is a step of each or leaves it alone.
LEMMA SumBegins == SumInit => K!Init /\ R!Init /\ P!Init /\ B!Init /\ D!Init /\ T!Init
BY DEF SumInit

LEMMA SumMovesBreaker == [SumNext]_sumVars => [K!Next]_(K!vars)
BY DEF SumNext, Idle, sumVars, breakerVars, K!vars

LEMMA SumMovesRegime == [SumNext]_sumVars => [R!Next]_(R!vars)
BY DEF SumNext, Idle, sumVars, regimeVars, R!vars, R!file

LEMMA SumMovesPositions == [SumNext]_sumVars => [P!Next]_(P!vars)
BY DEF SumNext, Idle, sumVars, positionVars, P!vars, P!position

LEMMA SumMovesSizes == [SumNext]_sumVars => [B!Next]_(B!vars)
BY DEF SumNext, Idle, sumVars, sizingVars, B!vars, B!account

LEMMA SumMovesTests == [SumNext]_sumVars => [T!Next]_(T!vars)
BY DEF SumNext, Idle, TestIsDone, sumVars, testVars, T!vars, T!market, T!books

LEMMA SumMovesSignals == [SumNext]_sumVars => [D!Next]_(D!vars)
BY DEF SumNext, Idle, sumVars, signalVars, D!vars

------------------------------------------------------------------------------
(* The circuit breaker *)

\* Every step either leaves the breaker to itself or is one outcome of a cycle.
LEMMA StepCases ==
  ASSUME [K!Next]_(K!vars)
  PROVE  \/ K!Skip /\ UNCHANGED value
         \/ K!NewPeak /\ K!check_circuit_breakers /\ UNCHANGED value
         \/ K!WithinLimit /\ K!check_circuit_breakers /\ UNCHANGED value
         \/ K!StartPause /\ K!check_circuit_breakers /\ UNCHANGED value
         \/ K!StayPaused /\ K!check_circuit_breakers /\ UNCHANGED value
         \/ K!EndPause /\ K!check_circuit_breakers /\ UNCHANGED value
         \/ K!Move
         \/ K!Hour
         \/ K!Restart
         \/ UNCHANGED K!vars
BY DEF K!Next, K!Cycle, K!check_circuit_breakers

\* TypeOK is inductive: every variable keeps to its values, whatever the
\* deployment.
THEOREM BreakerTypeCorrect ==
  ASSUME K!BreakerConstants
  PROVE  (K!Spec => []K!TypeOK) /\ (SumSpec => []K!TypeOK)
<1>1. K!Init => K!TypeOK
  BY DEF K!BreakerConstants, K!Init, K!TypeOK, K!NoPause
<1>2. K!TypeOK /\ [K!Next]_(K!vars) => K!TypeOK'
  <2> SUFFICES ASSUME K!TypeOK, [K!Next]_(K!vars) PROVE K!TypeOK'
    OBVIOUS
  <2> USE DEF K!BreakerConstants, K!TypeOK, K!NoPause
  <2>1. CASE K!Skip /\ UNCHANGED value
    BY <2>1 DEF K!Skip, K!Keep
  <2>2. CASE K!NewPeak /\ K!check_circuit_breakers /\ UNCHANGED value
    BY <2>2 DEF K!NewPeak, K!check_circuit_breakers, K!Keep
  <2>3. CASE K!WithinLimit /\ K!check_circuit_breakers /\ UNCHANGED value
    BY <2>3 DEF K!WithinLimit, K!check_circuit_breakers, K!Keep
  <2>4. CASE K!StartPause /\ K!check_circuit_breakers /\ UNCHANGED value
    BY <2>4 DEF K!StartPause, K!Halt, K!check_circuit_breakers, K!Keep
  <2>5. CASE K!StayPaused /\ K!check_circuit_breakers /\ UNCHANGED value
    BY <2>5 DEF K!StayPaused, K!Halt, K!check_circuit_breakers, K!Keep
  <2>6. CASE K!EndPause /\ K!check_circuit_breakers /\ UNCHANGED value
    BY <2>6 DEF K!EndPause, K!check_circuit_breakers, K!Keep
  <2>7. CASE K!Move
    BY <2>7 DEF K!Move
  <2>8. CASE K!Hour
    BY <2>8 DEF K!Hour, K!Older
  <2>9. CASE K!Restart
    BY <2>9 DEF K!Restart
  <2>10. CASE UNCHANGED K!vars
    BY <2>10 DEF K!vars
  <2> QED
    BY <2>1, <2>2, <2>3, <2>4, <2>5, <2>6, <2>7, <2>8, <2>9, <2>10, StepCases
<1> QED
  BY <1>1, <1>2, SumBegins, SumMovesBreaker, PTL DEF K!Spec, SumSpec

\* No pause runs before the first peak was recorded: what makes PauseIsHonest
\* inductive, because the first value keeps whatever pause there is.
PauseInv == PauseIsHonest /\ (peak = 0 => paused = K!NoPause)

\* A pause can only be running while every cycle is halted, and the process has
\* not measured more hours of it than have passed: a restart or a cleared pause
\* makes the halt longer, never shorter.
THEOREM PausesAreHonest ==
  ASSUME K!BreakerConstants
  PROVE  /\ K!Spec => []PauseIsHonest
         /\ SumSpec => []PauseIsHonest
<1>1. K!Init => PauseInv
  BY DEF K!Init, PauseInv, PauseIsHonest, K!PauseIsHonest, K!NoPause
<1>2. K!TypeOK /\ PauseInv /\ [K!Next]_(K!vars) => PauseInv'
  <2> SUFFICES ASSUME K!TypeOK, PauseInv, [K!Next]_(K!vars) PROVE PauseInv'
    OBVIOUS
  <2> USE DEF K!BreakerConstants, K!TypeOK, K!NoPause, PauseInv, PauseIsHonest, K!PauseIsHonest
  <2>1. CASE K!Skip /\ UNCHANGED value
    BY <2>1 DEF K!Skip, K!Keep
  <2>2. CASE K!NewPeak /\ K!check_circuit_breakers /\ UNCHANGED value
    BY <2>2 DEF K!NewPeak, K!check_circuit_breakers, K!Keep
  <2>3. CASE K!WithinLimit /\ K!check_circuit_breakers /\ UNCHANGED value
    BY <2>3 DEF K!WithinLimit, K!check_circuit_breakers, K!Keep
  <2>4. CASE K!StartPause /\ K!check_circuit_breakers /\ UNCHANGED value
    <3>1. peak # 0
      BY <2>4 DEF K!StartPause, K!Drawn
    <3> QED
      BY <2>4, <3>1 DEF K!StartPause, K!Halt, K!check_circuit_breakers, K!Keep
  <2>5. CASE K!StayPaused /\ K!check_circuit_breakers /\ UNCHANGED value
    BY <2>5 DEF K!StayPaused, K!Halt, K!check_circuit_breakers, K!Keep
  <2>6. CASE K!EndPause /\ K!check_circuit_breakers /\ UNCHANGED value
    BY <2>6 DEF K!EndPause, K!check_circuit_breakers, K!Keep
  <2>7. CASE K!Move
    BY <2>7 DEF K!Move
  <2>8. CASE K!Hour
    BY <2>8 DEF K!Hour, K!Older
  <2>9. CASE K!Restart
    BY <2>9 DEF K!Restart
  <2>10. CASE UNCHANGED K!vars
    BY <2>10 DEF K!vars
  <2> QED
    BY <2>1, <2>2, <2>3, <2>4, <2>5, <2>6, <2>7, <2>8, <2>9, <2>10, StepCases
<1>3. PauseInv => PauseIsHonest
  BY DEF PauseInv
<1> QED
  BY <1>1, <1>2, <1>3, BreakerTypeCorrect, SumBegins, SumMovesBreaker, PTL
  DEF K!Spec, SumSpec

\* The halt lasts until the drawdown is over or the cooldown has really
\* elapsed, through restarts and in either deployment.
THEOREM HaltsLast ==
  ASSUME K!BreakerConstants
  PROVE  /\ K!Spec => HaltLasts
         /\ SumSpec => HaltLasts
<1> DEFINE Lasts == verdict = "halted" /\ verdict' = "allowed" =>
                      ~K!Drawn(peak, value) \/ down >= Cooldown
<1>1. K!TypeOK /\ PauseIsHonest /\ [K!Next]_(K!vars) => [Lasts]_(K!vars)
  <2> SUFFICES ASSUME K!TypeOK, PauseIsHonest, [K!Next]_(K!vars),
                      verdict = "halted", verdict' = "allowed"
               PROVE  ~K!Drawn(peak, value) \/ down >= Cooldown
    OBVIOUS
  <2> USE DEF K!BreakerConstants, K!TypeOK, K!NoPause, PauseIsHonest, K!PauseIsHonest
  <2>1. CASE K!NewPeak /\ K!check_circuit_breakers /\ UNCHANGED value
    <3>1. value \in Nat /\ peak \in Nat
      OBVIOUS
    <3>2. ~K!Drawn(peak, value)
      BY <2>1, <3>1 DEF K!NewPeak, K!Drawn
    <3> QED
      BY <3>2
  <2>2. CASE K!WithinLimit /\ K!check_circuit_breakers /\ UNCHANGED value
    BY <2>2 DEF K!WithinLimit
  <2>3. CASE K!EndPause /\ K!check_circuit_breakers /\ UNCHANGED value
    BY <2>3 DEF K!EndPause, K!Over
  <2> QED
    BY <2>1, <2>2, <2>3, StepCases
       DEF K!Skip, K!StartPause, K!StayPaused, K!Halt, K!Move, K!Hour, K!Restart, K!vars
<1> QED
  BY <1>1, BreakerTypeCorrect, PausesAreHonest, SumMovesBreaker, PTL
  DEF K!Spec, SumSpec, HaltLasts, K!HaltLasts

------------------------------------------------------------------------------
(* The regime *)

Loaded == (R!Regime \cup {R!Unset}) \X (0 .. ConfirmCount - 1)

\* A scan that is about to decide has a reading.
RegimeTypeInv ==
  /\ R!TypeOK
  /\ \A s \in Scan : scanPc[s] = "decide" => reading[s] \in R!Regime

\* Two signals amount to one of the regimes.
LEMMA ReadingIsRegime ==
  ASSUME R!HysteresisConstants, NEW m \in Market
  PROVE  R!resolve_regime(m[1], m[2]) \in R!Regime
<1>1. m[1] \in R!Macro
  BY DEF R!HysteresisConstants
<1> QED
  BY <1>1 DEF R!resolve_regime, R!Regime, R!Macro

LEMMA RegimeTypeInit == R!HysteresisConstants /\ R!Init => RegimeTypeInv
<1> SUFFICES ASSUME R!HysteresisConstants, R!Init PROVE RegimeTypeInv
  OBVIOUS
<1>1. ConfirmCount \in Nat \ {0}
  BY DEF R!HysteresisConstants
<1>2. <<R!Unset, 0>> \in Loaded
  BY <1>1 DEF Loaded
<1>3. recent \in Seq(R!Regime)
  BY DEF R!Init
<1> QED
  BY <1>1, <1>2, <1>3 DEF R!Init, RegimeTypeInv, R!TypeOK, Loaded, R!Unset

\* What a scan leaves behind when it has decided.
LEMMA ActOnTypes ==
  ASSUME R!HysteresisConstants, RegimeTypeInv, NEW s \in Scan, scanPc[s] = "decide",
         NEW r \in R!Regime, R!ActOn(s, r),
         confirmed' \in R!Regime \cup {R!Unset}, streak' \in 0 .. ConfirmCount - 1
  PROVE  RegimeTypeInv'
<1>1. ConfirmCount \in Nat \ {0}
  BY DEF R!HysteresisConstants
<1>2. <<R!Unset, 0>> \in Loaded
  BY <1>1 DEF Loaded
<1>3. recent' \in Seq(R!Regime)
  <2> DEFINE readings == Append(recent, reading[s])
  <2>1. readings \in Seq(R!Regime) /\ readings # <<>>
    BY DEF RegimeTypeInv, R!TypeOK
  <2>2. recent' = IF Len(readings) > ConfirmCount THEN Tail(readings) ELSE readings
    BY DEF R!ActOn
  <2> HIDE DEF readings
  <2> QED
    BY <2>1, <2>2
<1>4. /\ market' \in Market /\ traded' \in R!Regime /\ overlapped' \in BOOLEAN
      /\ scanPc' \in [Scan -> {"idle", "decide", "load", "trade"}]
      /\ reading' \in [Scan -> R!Regime \cup {R!Unset}]
      /\ loaded' \in [Scan -> Loaded]
      /\ \A t \in Scan : scanPc'[t] = "decide" => reading'[t] \in R!Regime
  BY <1>2 DEF R!ActOn, RegimeTypeInv, R!TypeOK, Loaded
<1> QED
  BY <1>3, <1>4 DEF RegimeTypeInv, R!TypeOK, Loaded

LEMMA DecideTypes ==
  ASSUME R!HysteresisConstants, RegimeTypeInv, NEW s \in Scan,
         R!apply_regime_hysteresis(s)
  PROVE  RegimeTypeInv'
<1>1. /\ ConfirmCount \in Nat \ {0} /\ scanPc[s] = "decide" /\ reading[s] \in R!Regime
      /\ loaded[s] \in Loaded
      /\ confirmed \in R!Regime \cup {R!Unset} /\ streak \in 0 .. ConfirmCount - 1
  BY DEF R!HysteresisConstants, R!apply_regime_hysteresis, RegimeTypeInv, R!TypeOK, Loaded
<1>2. loaded[s][1] \in R!Regime \cup {R!Unset} /\ loaded[s][2] \in 0 .. ConfirmCount - 1
  BY <1>1 DEF Loaded
<1>3. CASE R!Seed(s)
  BY <1>1, <1>3, ActOnTypes DEF R!Seed
<1>4. CASE R!Agree(s)
  BY <1>1, <1>2, <1>4, ActOnTypes DEF R!Agree, R!file
<1>5. CASE R!Disagree(s) /\ R!Confirmed(s)
  BY <1>1, <1>5, ActOnTypes DEF R!Disagree
<1>6. CASE R!Disagree(s) /\ ~R!Confirmed(s)
  BY <1>1, <1>2, <1>6, ActOnTypes DEF R!Disagree, R!Confirmed, R!SaveStreak
<1> QED
  BY <1>3, <1>4, <1>5, <1>6 DEF R!apply_regime_hysteresis

LEMMA RegimeTypeStep ==
  R!HysteresisConstants /\ RegimeTypeInv /\ [R!Next]_(R!vars) => RegimeTypeInv'
<1> SUFFICES ASSUME R!HysteresisConstants, RegimeTypeInv, [R!Next]_(R!vars)
             PROVE  RegimeTypeInv'
  OBVIOUS
<1>1. CASE R!Move
  BY <1>1 DEF R!Move, R!file, RegimeTypeInv, R!TypeOK
<1>2. ASSUME NEW s \in Scan, R!Detect(s) PROVE RegimeTypeInv'
  <2>1. R!CurrentReading \in R!Regime
    BY ReadingIsRegime DEF R!CurrentReading, RegimeTypeInv, R!TypeOK
  <2>2. R!file \in Loaded
    BY DEF R!file, Loaded, RegimeTypeInv, R!TypeOK
  <2>3. /\ reading' \in [Scan -> R!Regime \cup {R!Unset}]
        /\ loaded' \in [Scan -> Loaded]
        /\ scanPc' \in [Scan -> {"idle", "decide", "load", "trade"}]
        /\ \A t \in Scan : scanPc'[t] = "decide" => reading'[t] \in R!Regime
    BY <1>2, <2>1, <2>2 DEF R!Detect, RegimeTypeInv, R!TypeOK, Loaded
  <2>4. overlapped' \in BOOLEAN
    BY <1>2 DEF R!Detect, RegimeTypeInv, R!TypeOK
  <2> QED
    BY <1>2, <2>3, <2>4 DEF R!Detect, R!file, RegimeTypeInv, R!TypeOK, Loaded
<1>3. ASSUME NEW s \in Scan, R!Load(s) PROVE RegimeTypeInv'
  <2>1. R!file \in Loaded
    BY DEF R!file, Loaded, RegimeTypeInv, R!TypeOK
  <2>2. /\ loaded' \in [Scan -> Loaded]
        /\ scanPc' \in [Scan -> {"idle", "decide", "load", "trade"}]
        /\ \A t \in Scan : scanPc'[t] = "decide" => reading'[t] \in R!Regime
    BY <1>3, <2>1 DEF R!Load, RegimeTypeInv, R!TypeOK, Loaded
  <2> QED
    BY <1>3, <2>2 DEF R!Load, R!file, RegimeTypeInv, R!TypeOK, Loaded
<1>4. ASSUME NEW s \in Scan, R!SaveSnapshot(s) PROVE RegimeTypeInv'
  <2>1. loaded[s] \in Loaded
    BY DEF RegimeTypeInv, R!TypeOK, Loaded
  <2>2. confirmed' \in R!Regime \cup {R!Unset} /\ streak' \in 0 .. ConfirmCount - 1
    BY <1>4, <2>1 DEF R!SaveSnapshot, Loaded
  <2> QED
    BY <1>4, <2>2 DEF R!SaveSnapshot, RegimeTypeInv, R!TypeOK
<1>5. ASSUME NEW s \in Scan, R!Finish(s) PROVE RegimeTypeInv'
  <2>1. <<R!Unset, 0>> \in Loaded
    BY DEF Loaded, R!HysteresisConstants
  <2>2. /\ loaded' \in [Scan -> Loaded]
        /\ scanPc' \in [Scan -> {"idle", "decide", "load", "trade"}]
        /\ \A t \in Scan : scanPc'[t] = "decide" => reading'[t] \in R!Regime
    BY <1>5, <2>1 DEF R!Finish, RegimeTypeInv, R!TypeOK, Loaded
  <2> QED
    BY <1>5, <2>2 DEF R!Finish, R!file, RegimeTypeInv, R!TypeOK, Loaded
<1>6. CASE UNCHANGED R!vars
  BY <1>6 DEF R!vars, R!file, RegimeTypeInv, R!TypeOK
<1> QED
  BY <1>1, <1>2, <1>3, <1>4, <1>5, <1>6, DecideTypes DEF R!Next

\* The values of the regime's state, for any signals and number of scans at
\* once: the streak never reaches REGIME_CONFIRM_COUNT.
THEOREM RegimeTypeCorrect ==
  ASSUME R!HysteresisConstants
  PROVE  (R!Spec => []R!TypeOK) /\ (SumSpec => []R!TypeOK)
<1>1. RegimeTypeInv => R!TypeOK
  BY DEF RegimeTypeInv
<1> QED
  BY <1>1, RegimeTypeInit, RegimeTypeStep, SumBegins, SumMovesRegime, PTL
  DEF R!Spec, SumSpec

\* The last n of some readings disagreed with r.
Dissent(readings, n, r) ==
  \A i \in 1 .. Len(readings) : i > Len(readings) - n => readings[i] # r

\* As long as no two scans were under way at once, the copy of the one that is
\* says what the file says, the bot trades in the confirmed regime, and the
\* streak counts readings that disagreed, the last ones.
DissentInv ==
  ~overlapped =>
    /\ \A s, t \in Scan : scanPc[s] # "idle" /\ scanPc[t] # "idle" => s = t
    /\ \A s \in Scan : scanPc[s] \in {"decide", "trade"} => loaded[s] = R!file
    /\ traded = confirmed
    /\ Len(recent) <= ConfirmCount /\ streak <= Len(recent)
    /\ Dissent(recent, streak, confirmed)

LEMMA DissentInit == R!HysteresisConstants /\ R!Init => DissentInv
<1> SUFFICES ASSUME R!HysteresisConstants, R!Init PROVE DissentInv
  OBVIOUS
<1>1. recent = <<>> /\ Len(recent) = 0 /\ ConfirmCount \in Nat
  BY DEF R!Init, R!HysteresisConstants
<1> QED
  BY <1>1 DEF R!Init, DissentInv, Dissent

\* One more reading that disagrees makes the streak of dissent one longer.
LEMMA DissentGrows ==
  ASSUME R!HysteresisConstants, RegimeTypeInv, NEW s \in Scan, scanPc[s] = "decide",
         NEW r, R!ActOn(s, r), Len(recent) <= ConfirmCount, streak <= Len(recent),
         NEW c, Dissent(recent, streak, c), reading[s] # c
  PROVE  /\ Len(recent') <= ConfirmCount /\ streak + 1 <= Len(recent')
         /\ Dissent(recent', streak + 1, c)
<1> DEFINE readings == Append(recent, reading[s])
<1>1. /\ ConfirmCount \in Nat \ {0} /\ reading[s] \in R!Regime
      /\ recent \in Seq(R!Regime) /\ streak \in 0 .. ConfirmCount - 1
  BY DEF R!HysteresisConstants, RegimeTypeInv, R!TypeOK
<1>2. /\ readings \in Seq(R!Regime) /\ Len(readings) = Len(recent) + 1
      /\ readings[Len(recent) + 1] = reading[s]
      /\ \A i \in 1 .. Len(recent) : readings[i] = recent[i]
  BY <1>1
<1>3. Dissent(readings, streak + 1, c)
  <2> SUFFICES ASSUME NEW i \in 1 .. Len(readings), i > Len(readings) - (streak + 1)
               PROVE  readings[i] # c
    BY DEF Dissent
  <2> HIDE DEF readings
  <2>1. CASE i = Len(recent) + 1
    BY <1>2, <2>1
  <2>2. CASE i \in 1 .. Len(recent)
    BY <1>1, <1>2, <2>2 DEF Dissent
  <2> QED
    BY <1>1, <1>2, <2>1, <2>2
<1>4. recent' = IF Len(readings) > ConfirmCount THEN Tail(readings) ELSE readings
  BY DEF R!ActOn
<1> HIDE DEF readings
<1>5. CASE Len(readings) <= ConfirmCount
  BY <1>1, <1>2, <1>3, <1>4, <1>5
<1>6. CASE Len(readings) > ConfirmCount
  <2>1. recent' = Tail(readings) /\ readings # <<>>
    BY <1>1, <1>2, <1>4, <1>6
  <2>2. /\ Len(recent') = Len(recent)
        /\ \A i \in 1 .. Len(recent') : recent'[i] = readings[i + 1]
    BY <1>1, <1>2, <2>1
  <2>3. \A i \in 1 .. Len(recent') : i > Len(recent') - (streak + 1) => recent'[i] # c
    BY <1>1, <1>2, <1>3, <2>2 DEF Dissent
  <2> QED
    BY <1>1, <1>2, <1>6, <2>2, <2>3 DEF Dissent
<1> QED
  BY <1>1, <1>2, <1>5, <1>6

\* A reading that agrees, or is the first, leaves no more readings than are kept.
LEMMA ReadingsAreKept ==
  ASSUME R!HysteresisConstants, RegimeTypeInv, NEW s \in Scan, scanPc[s] = "decide",
         NEW r, R!ActOn(s, r), Len(recent) <= ConfirmCount
  PROVE  Len(recent') \in Nat /\ Len(recent') <= ConfirmCount
<1> DEFINE readings == Append(recent, reading[s])
<1>1. ConfirmCount \in Nat \ {0} /\ reading[s] \in R!Regime /\ recent \in Seq(R!Regime)
  BY DEF R!HysteresisConstants, RegimeTypeInv, R!TypeOK
<1>2. readings \in Seq(R!Regime) /\ Len(readings) = Len(recent) + 1 /\ readings # <<>>
  BY <1>1
<1>3. recent' = IF Len(readings) > ConfirmCount THEN Tail(readings) ELSE readings
  BY DEF R!ActOn
<1> HIDE DEF readings
<1> QED
  BY <1>1, <1>2, <1>3

\* When a scan has decided, it is the one under way and has no copy yet.
LEMMA NoCopyIsHeld ==
  ASSUME RegimeTypeInv, DissentInv, ~overlapped, NEW s \in Scan, scanPc[s] = "decide",
         NEW r, R!ActOn(s, r)
  PROVE  /\ \A t \in Scan : scanPc'[t] # "idle" => t = s
         /\ \A t \in Scan : scanPc'[t] \notin {"decide", "trade"}
  BY DEF R!ActOn, RegimeTypeInv, R!TypeOK, DissentInv

LEMMA DecideKeepsDissent ==
  ASSUME R!HysteresisConstants, RegimeTypeInv, DissentInv, NEW s \in Scan,
         R!apply_regime_hysteresis(s)
  PROVE  DissentInv'
<1> SUFFICES ASSUME ~overlapped' PROVE DissentInv'
  BY DEF DissentInv
<1>1. /\ scanPc[s] = "decide" /\ ~overlapped
      /\ ConfirmCount \in Nat \ {0} /\ reading[s] \in R!Regime
      /\ streak \in 0 .. ConfirmCount - 1 /\ recent \in Seq(R!Regime)
  BY DEF R!apply_regime_hysteresis, R!Seed, R!Agree, R!Disagree, R!ActOn,
         R!HysteresisConstants, RegimeTypeInv, R!TypeOK
<1>2. /\ loaded[s][1] = confirmed /\ loaded[s][2] = streak /\ traded = confirmed
      /\ Len(recent) <= ConfirmCount /\ streak <= Len(recent)
      /\ Dissent(recent, streak, confirmed)
  BY <1>1 DEF DissentInv, R!file
<1>3. CASE streak' = 0 /\ \E r : R!ActOn(s, r) /\ confirmed' = r
  <2>1. PICK r : R!ActOn(s, r) /\ confirmed' = r
    BY <1>3
  <2>2. Len(recent') \in Nat /\ Len(recent') <= ConfirmCount
    BY <1>1, <1>2, <2>1, ReadingsAreKept
  <2>3. /\ \A t \in Scan : scanPc'[t] # "idle" => t = s
        /\ \A t \in Scan : scanPc'[t] \notin {"decide", "trade"}
    BY <1>1, <2>1, NoCopyIsHeld
  <2>4. traded' = confirmed'
    BY <2>1 DEF R!ActOn
  <2> QED
    BY <1>3, <2>2, <2>3, <2>4 DEF DissentInv, Dissent
<1>4. CASE R!Disagree(s) /\ ~R!Confirmed(s)
  <2>1. /\ R!ActOn(s, confirmed) /\ confirmed' = confirmed /\ streak' = streak + 1
        /\ reading[s] # confirmed
    BY <1>2, <1>4 DEF R!Disagree, R!SaveStreak
  <2>2. /\ Len(recent') <= ConfirmCount /\ streak + 1 <= Len(recent')
        /\ Dissent(recent', streak + 1, confirmed)
    BY <1>1, <1>2, <2>1, DissentGrows
  <2>3. /\ \A t \in Scan : scanPc'[t] # "idle" => t = s
        /\ \A t \in Scan : scanPc'[t] \notin {"decide", "trade"}
    BY <1>1, <2>1, NoCopyIsHeld
  <2>4. traded' = confirmed'
    BY <2>1 DEF R!ActOn
  <2> QED
    BY <2>1, <2>2, <2>3, <2>4 DEF DissentInv, Dissent
<1>5. ASSUME R!Seed(s) \/ R!Agree(s) \/ (R!Disagree(s) /\ R!Confirmed(s))
      PROVE  streak' = 0 /\ \E r : R!ActOn(s, r) /\ confirmed' = r
  BY <1>2, <1>5 DEF R!Seed, R!Agree, R!Disagree, R!file
<1> QED
  BY <1>3, <1>4, <1>5 DEF R!apply_regime_hysteresis

LEMMA DissentStep ==
  R!HysteresisConstants /\ RegimeTypeInv /\ DissentInv /\ [R!Next]_(R!vars) => DissentInv'
<1> SUFFICES ASSUME R!HysteresisConstants, RegimeTypeInv, DissentInv, [R!Next]_(R!vars)
             PROVE  DissentInv'
  OBVIOUS
<1>1. CASE R!Move \/ UNCHANGED R!vars
  BY <1>1 DEF R!Move, R!vars, R!file, DissentInv, Dissent
<1>2. ASSUME NEW s \in Scan, R!Detect(s) PROVE DissentInv'
  <2> SUFFICES ASSUME ~overlapped' PROVE DissentInv'
    BY DEF DissentInv
  <2>1. ~overlapped /\ \A t \in Scan : scanPc[t] = "idle"
    BY <1>2 DEF R!Detect, R!UnderWay
  <2>2. /\ UNCHANGED <<confirmed, streak, traded, recent>> /\ loaded'[s] = R!file
        /\ \A t \in Scan \ {s} : scanPc'[t] = "idle"
    BY <1>2, <2>1 DEF R!Detect, R!file, RegimeTypeInv, R!TypeOK
  <2> QED
    BY <2>1, <2>2 DEF DissentInv, Dissent, R!file
<1>3. ASSUME NEW s \in Scan, R!Load(s) \/ R!Finish(s) PROVE DissentInv'
  <2>1. /\ scanPc[s] # "idle"
        /\ UNCHANGED <<confirmed, streak, traded, recent, overlapped>>
        /\ \A t \in Scan \ {s} : scanPc'[t] = scanPc[t] /\ loaded'[t] = loaded[t]
        /\ scanPc'[s] = "trade" => loaded'[s] = R!file
        /\ scanPc'[s] # "decide"
    BY <1>3 DEF R!Load, R!Finish, R!file, RegimeTypeInv, R!TypeOK
  <2> QED
    BY <2>1 DEF DissentInv, Dissent, R!file
<1>4. ASSUME NEW s \in Scan, R!SaveSnapshot(s) PROVE DissentInv'
  <2> SUFFICES ASSUME ~overlapped' PROVE DissentInv'
    BY DEF DissentInv
  <2>1. /\ ~overlapped /\ scanPc[s] = "trade"
        /\ UNCHANGED <<scanPc, loaded, traded, recent>>
    BY <1>4 DEF R!SaveSnapshot
  <2>2. UNCHANGED <<confirmed, streak>>
    BY <1>4, <2>1 DEF R!SaveSnapshot, DissentInv, R!file
  <2> QED
    BY <2>1, <2>2 DEF DissentInv, Dissent, R!file
<1> QED
  BY <1>1, <1>2, <1>3, <1>4, DecideKeepsDissent DEF R!Next

\* The regime changes only in a step that confirms another one.
LEMMA LeavesOnDissent ==
  ASSUME R!HysteresisConstants, RegimeTypeInv, DissentInv, [R!Next]_(R!vars),
         traded' # traded, traded # R!Unset, ~overlapped
  PROVE  Len(recent') = ConfirmCount /\ \A i \in 1 .. ConfirmCount : recent'[i] # traded
<1>1. PICK s \in Scan : R!apply_regime_hysteresis(s)
  BY DEF R!Next, R!Move, R!Detect, R!Load, R!SaveSnapshot, R!Finish, R!vars
<1>2. /\ scanPc[s] = "decide" /\ ConfirmCount \in Nat \ {0}
      /\ streak \in 0 .. ConfirmCount - 1
      /\ loaded[s][1] = confirmed /\ loaded[s][2] = streak /\ traded = confirmed
      /\ Len(recent) <= ConfirmCount /\ streak <= Len(recent)
      /\ Dissent(recent, streak, confirmed)
  BY <1>1 DEF R!apply_regime_hysteresis, R!HysteresisConstants, RegimeTypeInv, R!TypeOK,
              DissentInv, R!file
<1>3. R!Disagree(s) /\ R!Confirmed(s)
  BY <1>1, <1>2 DEF R!apply_regime_hysteresis, R!Seed, R!Agree, R!Disagree, R!ActOn
<1>4. streak = ConfirmCount - 1 /\ reading[s] # confirmed /\ R!ActOn(s, reading[s])
  BY <1>2, <1>3 DEF R!Disagree, R!Confirmed
<1>5. /\ Len(recent') <= ConfirmCount /\ streak + 1 <= Len(recent')
      /\ Dissent(recent', streak + 1, confirmed)
  BY <1>2, <1>4, DissentGrows
<1>6. Len(recent') \in Nat
  BY <1>2, <1>4, ReadingsAreKept
<1> QED
  BY <1>2, <1>4, <1>5, <1>6 DEF Dissent

\* The hysteresis filters noise, for any REGIME_CONFIRM_COUNT: as long as no two
\* scans overlap, the bot leaves a regime only when each of the last
\* REGIME_CONFIRM_COUNT readings disagreed with it.
THEOREM RegimeIsLeftOnDissent ==
  ASSUME R!HysteresisConstants
  PROVE  /\ R!Spec => LeavesOnlyOnDissent
         /\ SumSpec => LeavesOnlyOnDissent
<1> DEFINE Leaves ==
      traded' # traded /\ traded # R!Unset /\ ~overlapped =>
        /\ Len(recent') = ConfirmCount
        /\ \A i \in 1 .. ConfirmCount : recent'[i] # traded
<1>1. RegimeTypeInv /\ DissentInv /\ [R!Next]_(R!vars) => [Leaves]_(R!vars)
  BY LeavesOnDissent
<1> QED
  BY <1>1, RegimeTypeInit, RegimeTypeStep, DissentInit, DissentStep,
     SumBegins, SumMovesRegime, PTL
  DEF R!Spec, SumSpec, LeavesOnlyOnDissent, R!LeavesOnlyOnDissent

------------------------------------------------------------------------------
(* The exits *)

Tiered == {"trend_following", "supertrend", "mtf_trend"}

\* A strategy that is not chosen by the regime stays in force.
PositionInv ==
  /\ P!TypeOK
  /\ strategy \in Tiered \cup {"mean_reversion"}
  /\ config # "auto" => strategy = config
  /\ P!HighCoversSeen

\* Prices are amounts, and so is what is kept of them.
LEMMA PricesAreAmounts ==
  ASSUME P!PositionsConstants, P!TypeOK
  PROVE  /\ entry \in Nat /\ hwm \in Nat /\ sighted \in Nat
         /\ entry \in Price \cup {0} /\ hwm \in Price \cup {0} /\ sighted \in Price \cup {0}
         /\ \A price \in Price : price \in Nat /\ price # 0
         /\ TimeExit \in Nat \ {0}
<1>1. Price \subseteq Nat \ {0} /\ TimeExit \in Nat \ {0}
  BY DEF P!PositionsConstants
<1>2. entry \in Price \cup {0} /\ hwm \in Price \cup {0} /\ sighted \in Price \cup {0}
  BY DEF P!TypeOK
<1> QED
  BY <1>1, <1>2

\* What an exit leaves of the flags.
LEMMA FlagsOfExits ==
  ASSUME PositionInv, NEW atr, NEW turned \in BOOLEAN, NEW high, NEW price
  PROVE  /\ P!check_exit(strategy, atr, turned, high, price).flags \in P!Flags
         /\ P!check_exit(strategy, atr, turned, high, price).flags.tp2
              => P!check_exit(strategy, atr, turned, high, price).flags.tp1
<1> DEFINE Good(f) == f \in P!Flags /\ (f.tp2 => f.tp1)
<1>1. Good(flags) /\ Good(P!BothHit(flags)) /\ Good([flags EXCEPT !.tp1 = TRUE])
      /\ Good([flags EXCEPT !.trend = TRUE])
  BY DEF PositionInv, P!TypeOK, P!Flags, P!BothHit
<1> HIDE DEF Good
<1>2. Good(P!TieredExit(strategy, atr, turned, high, price).flags)
  BY <1>1 DEF P!TieredExit, P!Sell, P!StopOut, P!Keep
<1>3. Good(P!mean_reversion_exit(turned, high, price).flags)
  BY <1>1 DEF P!mean_reversion_exit, P!Sell, P!StopOut, P!Keep
<1>4. Good(P!check_exit(strategy, atr, turned, high, price).flags)
  BY <1>1, <1>2, <1>3 DEF P!check_exit, P!Keep
<1> QED
  BY <1>4 DEF Good

LEMMA PositionInit == P!PositionsConstants /\ P!Init => PositionInv
<1> SUFFICES ASSUME P!PositionsConstants, P!Init PROVE PositionInv
  OBVIOUS
<1>1. TimeExit \in Nat /\ config \in Tiered \cup {"mean_reversion", "auto"}
  BY DEF P!PositionsConstants, P!Init, Tiered
<1>2. flags \in P!Flags /\ (flags.tp2 => flags.tp1)
  BY DEF P!Init, P!Flags, P!NoFlags
<1>3. strategy \in Tiered \cup {"mean_reversion"} /\ (config # "auto" => strategy = config)
  BY <1>1 DEF P!Init, Tiered
<1>4. data \subseteq P!Timeframe /\ {entry, hwm, sighted} \subseteq Price \cup {0}
  BY DEF P!Init
<1>5. age \in 0 .. TimeExit /\ hwm >= entry
  BY <1>1 DEF P!Init
<1> QED
  BY <1>2, <1>3, <1>4, <1>5 DEF P!Init, PositionInv, P!TypeOK, P!HighCoversSeen

\* Buying, and not buying, ends with the candles the check will have.
LEMMA BuysKeepPosition ==
  ASSUME P!PositionsConstants, PositionInv, P!Buy \/ P!TopUp \/ P!BuyNothing
  PROVE  PositionInv'
<1>1. P!EndBuys
  BY DEF P!Buy, P!TopUp, P!BuyNothing
<1>2. /\ UNCHANGED <<config, strategy, regime, last>> /\ phase' = "sell"
      /\ data' \subseteq P!Timeframe
  BY <1>1 DEF P!EndBuys, P!Timeframes, P!Timeframe
<1>3. CASE P!Buy
  BY <1>2, <1>3 DEF P!Buy, P!PositionsConstants, PositionInv, P!TypeOK,
                    P!HighCoversSeen, P!Flags, P!NoFlags
<1>4. CASE P!TopUp
  <2>1. PICK price \in Price, avg \in Price : entry' = avg /\ P!KeepsHighAndClock(avg)
    BY <1>4 DEF P!TopUp
  <2>2. /\ hwm' = (IF hwm >= avg THEN hwm ELSE avg) /\ age' = age
        /\ UNCHANGED <<holding, flags, sighted>> /\ holding
    BY <1>4, <2>1 DEF P!TopUp, P!KeepsHighAndClock, P!Max2
  <2>3. hwm \in Nat /\ sighted \in Nat /\ avg \in Nat /\ avg # 0
    BY PricesAreAmounts DEF PositionInv
  <2> QED
    BY <1>2, <2>1, <2>2, <2>3 DEF PositionInv, P!TypeOK, P!HighCoversSeen
<1>5. CASE P!BuyNothing
  BY <1>2, <1>5 DEF P!BuyNothing, P!position, PositionInv, P!TypeOK, P!HighCoversSeen
<1> QED
  BY <1>3, <1>4, <1>5

\* A position that is sold leaves nothing of itself.
LEMMA NothingIsHeld ==
  ASSUME P!PositionsConstants, P!TypeOK, P!NoPosition, phase' = "regime",
         UNCHANGED <<config, strategy, regime, data>>
  PROVE  P!TypeOK' /\ P!HighCoversSeen'
<1>1. flags' \in P!Flags /\ (flags'.tp2 => flags'.tp1)
  BY DEF P!NoPosition, P!Flags, P!NoFlags
<1>2. {entry', hwm', sighted'} \subseteq Price \cup {0}
  BY DEF P!NoPosition
<1>3. age' \in 0 .. TimeExit /\ hwm' >= entry'
  BY PricesAreAmounts DEF P!NoPosition
<1> QED
  BY <1>1, <1>2, <1>3 DEF P!NoPosition, P!TypeOK, P!HighCoversSeen

\* The check raises the mark before it looks for an exit.
LEMMA CheckKeepsPosition ==
  ASSUME P!PositionsConstants, PositionInv, P!Check
  PROVE  PositionInv'
<1>1. PICK price \in Price, atr \in Atr \cup {P!None}, turned \in BOOLEAN :
        LET high == P!Max2(hwm, price)
            exit == P!check_exit(strategy, atr, turned, high, price) IN
        /\ last' = [ratio |-> exit.ratio, price |-> price, entry |-> entry]
        /\ IF exit.ratio = 100
             THEN P!NoPosition
             ELSE /\ hwm' = high
                  /\ flags' = exit.flags
                  /\ sighted' = P!Max2(sighted, price)
                  /\ age' = IF age < TimeExit THEN age + 1 ELSE age
                  /\ UNCHANGED <<holding, entry>>
  BY ONLY P!Check, Zenon DEF P!Check
<1> DEFINE high == P!Max2(hwm, price)
           exit == P!check_exit(strategy, atr, turned, high, price)
<1>2. exit.flags \in P!Flags /\ (exit.flags.tp2 => exit.flags.tp1)
  BY FlagsOfExits
<1> HIDE DEF exit
<1>3. UNCHANGED <<config, strategy, regime, data>> /\ phase' = "regime"
  BY DEF P!Check
<1>4. /\ hwm \in Nat /\ sighted \in Nat /\ entry \in Nat /\ price \in Nat
      /\ TimeExit \in Nat \ {0}
  BY PricesAreAmounts DEF PositionInv
<1>5. CASE P!NoPosition
  BY <1>3, <1>4, <1>5, NothingIsHeld DEF PositionInv
<1>6. CASE /\ hwm' = high /\ flags' = exit.flags /\ sighted' = P!Max2(sighted, price)
           /\ age' = IF age < TimeExit THEN age + 1 ELSE age
           /\ UNCHANGED <<holding, entry>>
  <2>1. /\ hwm' \in Price \cup {0} /\ sighted' \in Price \cup {0}
        /\ hwm' >= hwm /\ (hwm' >= sighted' \/ ~holding)
    BY <1>4, <1>6 DEF P!Max2, PositionInv, P!TypeOK, P!HighCoversSeen
  <2>2. hwm' >= entry
    BY <1>4, <1>6 DEF P!Max2, PositionInv, P!TypeOK
  <2>3. age' \in 0 .. TimeExit
    BY <1>4, <1>6 DEF PositionInv, P!TypeOK
  <2> QED
    BY <1>2, <1>3, <1>6, <2>1, <2>2, <2>3 DEF PositionInv, P!TypeOK, P!HighCoversSeen
<1> QED
  BY <1>1, <1>5, <1>6 DEF exit

LEMMA PositionStep ==
  P!PositionsConstants /\ PositionInv /\ [P!Next]_(P!vars) => PositionInv'
<1> SUFFICES ASSUME P!PositionsConstants, PositionInv, [P!Next]_(P!vars)
             PROVE  PositionInv'
  OBVIOUS
<1>1. CASE P!ReadRegime
  BY <1>1 DEF P!ReadRegime, P!position, P!select_strategy_for_regime, PositionInv,
              P!TypeOK, P!HighCoversSeen, Tiered
<1>2. CASE P!NothingToCheck \/ UNCHANGED P!vars
  BY <1>2 DEF P!NothingToCheck, P!position, P!vars, PositionInv, P!TypeOK,
              P!HighCoversSeen
<1> QED
  BY <1>1, <1>2, BuysKeepPosition, CheckKeepsPosition DEF P!Next

\* The high-water mark the stop hangs on covers every price a check has seen,
\* for any prices and strategy: an addition only raises it.
THEOREM HighMarkCoversSeen ==
  ASSUME P!PositionsConstants
  PROVE  /\ P!Spec => [](P!TypeOK /\ HighCoversSeen)
         /\ SumSpec => [](P!TypeOK /\ HighCoversSeen)
<1>1. PositionInv => P!TypeOK /\ HighCoversSeen
  BY DEF PositionInv, HighCoversSeen
<1> QED
  BY <1>1, PositionInit, PositionStep, SumBegins, SumMovesPositions, PTL
  DEF P!Spec, SumSpec

\* Below its entry a position that has taken its first profit is stopped out.
LEMMA StopsAtEntry ==
  ASSUME P!PositionsConstants, PositionInv, flags.tp1, strategy \in Tiered, P!Sighted,
         NEW price \in Nat, NEW atr \in Atr \cup {P!None}, NEW turned, NEW high \in Nat,
         price < entry
  PROVE  P!check_exit(strategy, atr, turned, high, price).ratio = 100
<1>1. entry \in Nat /\ (atr = P!None \/ atr \in Nat) /\ flags.tp1
  BY PricesAreAmounts DEF PositionInv, P!PositionsConstants
<1>2. ~(100 * price >= entry * (100 + P!TakeProfit2))
  BY <1>1 DEF P!TakeProfit2
<1>3. P!StopPct(strategy, atr) \in Int
  BY <1>1 DEF P!StopPct, P!Clamp, P!TrailingStop, Tiered, P!None
<1>4. P!Stopped(strategy, atr, high, price)
  <2>1. high * (100 - P!StopPct(strategy, atr)) \in Int
    BY <1>3
  <2> QED
    BY <1>1, <2>1 DEF P!Stopped, P!Floored, P!Max2
<1>5. /\ strategy = "mtf_trend" => "15m" \in data
      /\ strategy # "mtf_trend" => "1h" \in data
  BY DEF P!Sighted, P!Timeframes, P!Timeframe
<1>6. P!TieredExit(strategy, atr, turned, high, price) = P!StopOut(flags)
  BY <1>1, <1>2, <1>4, <1>5 DEF P!TieredExit
<1> QED
  BY <1>5, <1>6 DEF P!check_exit, P!StopOut, Tiered

\* After its first profit nothing is held below its entry, for any prices and
\* volatility: a check that sees the candles it needs sells all of it.
THEOREM ProfitsBreakEven ==
  ASSUME P!PositionsConstants
  PROVE  /\ P!Spec => Breakeven
         /\ SumSpec => Breakeven
<1> DEFINE Even ==
      config \notin {"auto", "mean_reversion"}
      /\ phase = "sell" /\ holding /\ flags.tp1 /\ P!Sighted
      /\ last'.price < last'.entry
      => last'.ratio = 100
<1>1. PositionInv /\ [P!Next]_(P!vars) => [Even]_(P!vars)
  <2> SUFFICES ASSUME PositionInv, P!Next,
                      config \notin {"auto", "mean_reversion"},
                      phase = "sell", holding, flags.tp1, P!Sighted,
                      last'.price < last'.entry
               PROVE  last'.ratio = 100
    OBVIOUS
  <2>1. P!Check
    BY DEF P!Next, P!ReadRegime, P!Buy, P!TopUp, P!BuyNothing, P!NothingToCheck
  <2>2. PICK price \in Price, atr \in Atr \cup {P!None}, turned \in BOOLEAN :
          last' = [ratio |-> P!check_exit(strategy, atr, turned,
                               P!Max2(hwm, price), price).ratio,
                   price |-> price, entry |-> entry]
    BY <2>1 DEF P!Check
  <2>3. price \in Nat /\ P!Max2(hwm, price) \in Nat
    BY PricesAreAmounts DEF PositionInv, P!Max2
  <2>4. strategy \in Tiered
    BY DEF PositionInv, Tiered
  <2> QED
    BY <2>2, <2>3, <2>4, StopsAtEntry
<1> QED
  BY <1>1, PositionInit, PositionStep, SumBegins, SumMovesPositions, PTL
  DEF P!Spec, SumSpec, Breakeven, P!Breakeven

------------------------------------------------------------------------------
(* The sizes *)

LEMMA LargerOfTwo ==
  ASSUME NEW x \in Int, NEW y \in Int
  PROVE  /\ B!Max({x, y}) \in {x, y}
         /\ B!Max({x, y}) >= x /\ B!Max({x, y}) >= y
<1>1. \E z \in {x, y} : \A w \in {x, y} : z >= w
  <2>1. CASE x >= y
    BY <2>1
  <2>2. CASE y >= x
    BY <2>2
  <2> QED
    BY <2>1, <2>2
<1>2. /\ B!Max({x, y}) \in {x, y}
      /\ \A w \in {x, y} : B!Max({x, y}) >= w
  BY <1>1 DEF B!Max
<1> QED
  BY <1>2

LEMMA SmallerOfTwo ==
  ASSUME NEW x \in Int, NEW y \in Int
  PROVE  /\ B!Min({x, y}) \in {x, y}
         /\ B!Min({x, y}) <= x /\ B!Min({x, y}) <= y
<1>1. \E z \in {x, y} : \A w \in {x, y} : z <= w
  <2>1. CASE x <= y
    BY <2>1
  <2>2. CASE y <= x
    BY <2>2
  <2> QED
    BY <2>1, <2>2
<1>2. /\ B!Min({x, y}) \in {x, y}
      /\ \A w \in {x, y} : B!Min({x, y}) <= w
  BY <1>1 DEF B!Min
<1> QED
  BY <1>2

\* Products, which the provers only reason about one at a time.
LEMMA ProductsGrow ==
  ASSUME NEW x \in Int, NEW y \in Int, x <= y, NEW t \in Nat
  PROVE  x * t \in Int /\ y * t \in Int /\ x * t <= y * t
  OBVIOUS

LEMMA NothingSpent ==
  ASSUME NEW x \in Int, NEW y \in Int, NEW z \in Int, y = 0, z = x
  PROVE  x + y = z
  OBVIOUS

LEMMA ProductsCount ==
  ASSUME NEW x \in Nat, NEW y \in Nat
  PROVE  x * y \in Nat
  OBVIOUS

\* Rounding down.
LEMMA PartBounds ==
  ASSUME NEW x \in Int, NEW t \in Nat
  PROVE  B!Part(x, t) \in Int /\ 1000 * B!Part(x, t) <= x * t
<1>1. x * t \in Int
  OBVIOUS
<1> QED
  BY <1>1 DEF B!Part

LEMMA PartGrows ==
  ASSUME NEW x \in Int, NEW y \in Int, x <= y, NEW t \in Nat
  PROVE  B!Part(x, t) <= B!Part(y, t)
<1>1. x * t \in Int /\ y * t \in Int /\ x * t <= y * t
  BY ProductsGrow
<1> QED
  BY <1>1 DEF B!Part

LEMMA ShareBounds ==
  ASSUME NEW a \in Int, NEW n \in Nat \ {0}
  PROVE  a \div n \in Int /\ (a >= 0 => a \div n <= a /\ a \div n >= 0)
         /\ (a < 0 => a \div n <= 0)
  OBVIOUS

\* The library's counts are the ones BuySizing uses.
LEMMA CountsAgree ==
  /\ \A S : B!IsFiniteSet(S) <=> IsFiniteSet(S)
  /\ \A S : B!Cardinality(S) = Cardinality(S)
<1>1. ASSUME NEW S PROVE B!IsFiniteSet(S) <=> IsFiniteSet(S)
  BY DEF IsFiniteSet, B!IsFiniteSet
<1>2. ASSUME NEW S PROVE B!Cardinality(S) = Cardinality(S)
  BY DEF Cardinality, B!Cardinality
<1> QED
  BY <1>1, <1>2

\* So are its sums.
LEMMA TotalIsSum ==
  ASSUME NEW values
  PROVE  B!Total(values) = SumOver(values, Asset)
BY DEF B!Total, B!SumOver, SumOver, B!MapThenSumSet, MapThenSumSet, B!MapThenFoldSet,
       MapThenFoldSet

\* What the holdings are worth adds up to an amount.
LEMMA WorthAddsUp ==
  ASSUME B!SizingConstants, NEW values \in [Asset -> HoldingWorth]
  PROVE  B!Total(values) \in Nat
<1>1. IsFiniteSet(Asset) /\ HoldingWorth \subseteq Nat
  BY CountsAgree DEF B!SizingConstants
<1>2. \A a \in Asset : values[a] \in Nat
  BY <1>1
<1> QED
  BY <1>1, <1>2, SumOfAmounts, TotalIsSum

\* The boost of the signals is none at least.
BoostOf(m) == B!Max({1000, m})

LEMMA BoostBounds ==
  /\ B!Boost = BoostOf(modifier)
  /\ \A m \in 250 .. 1250 : BoostOf(m) \in Nat /\ BoostOf(m) >= 1000 /\ BoostOf(m) >= m
<1>1. B!Boost = BoostOf(modifier)
  BY DEF B!Boost, BoostOf
<1>2. ASSUME NEW m \in 250 .. 1250
      PROVE  BoostOf(m) \in Nat /\ BoostOf(m) >= 1000 /\ BoostOf(m) >= m
  <2>1. /\ B!Max({1000, m}) \in {1000, m}
        /\ B!Max({1000, m}) >= 1000 /\ B!Max({1000, m}) >= m
    BY LargerOfTwo
  <2> QED
    BY <2>1 DEF BoostOf
<1> QED
  BY <1>1, <1>2

LEMMA BoostBoundsLater == B!Boost' = BoostOf(modifier')
  BY DEF B!Boost, BoostOf

\* RiskManager's size spends no more than there is.
LEMMA SizeWithinCash ==
  ASSUME B!SizingConstants, NEW reference \in Nat, NEW existing \in Nat,
         NEW available \in Int, NEW risk \in Nat
  PROVE  LET base == B!calculate_position_size(reference, existing, available, risk) IN
         base \in Int /\ (base <= 0 \/ base <= available)
<1> DEFINE slots == B!Slots(existing)
           share == available \div slots
           byRisk == B!Part(B!Part(reference, TradeLimit) \div slots, B!VolMultiplier(risk))
           limit == B!MaxValue(reference)
<1>1. MaxPositions \in Nat \ {0} /\ TradeLimit \in Nat
  BY DEF B!SizingConstants
<1>2. slots \in Nat \ {0}
  <2> DEFINE n == MaxPositions - existing
  <2>1. n \in Int
    BY <1>1
  <2>2. slots = B!Max({1, n})
    BY DEF B!Slots
  <2> HIDE DEF n, slots
  <2>3. B!Max({1, n}) \in {1, n} /\ B!Max({1, n}) >= 1
    BY <2>1, LargerOfTwo
  <2> QED
    BY <2>1, <2>2, <2>3
<1>3. share \in Int /\ (share <= 0 \/ share <= available)
  BY <1>2, ShareBounds
<1>4. limit \in Int
  BY <1>1, ShareBounds DEF B!MaxValue
<1>5. B!VolMultiplier(risk) \in Int
  <2>1. CASE risk = 0
    BY <2>1 DEF B!VolMultiplier
  <2>2. CASE risk # 0
    <3> DEFINE q == 50000 \div risk
               m == B!Min({1500, q})
    <3>1. q \in Int
      BY <2>2, ShareBounds
    <3>2. m \in Int
      <4> HIDE DEF q
      <4>1. B!Min({1500, q}) \in {1500, q}
        BY <3>1, SmallerOfTwo
      <4> QED
        BY <3>1, <4>1
    <3>3. B!VolMultiplier(risk) = B!Max({500, m})
      BY <2>2 DEF B!VolMultiplier
    <3> HIDE DEF m
    <3>4. B!Max({500, m}) \in {500, m}
      BY <3>2, LargerOfTwo
    <3> QED
      BY <3>2, <3>3, <3>4
  <2> QED
    BY <2>1, <2>2
<1>6. byRisk \in Int
  <2>1. B!Part(reference, TradeLimit) \in Int
    BY <1>1, PartBounds
  <2>2. B!Part(reference, TradeLimit) \div slots \in Int
    BY <1>2, <2>1, ShareBounds
  <2> HIDE DEF slots
  <2>3. (B!Part(reference, TradeLimit) \div slots) * B!VolMultiplier(risk) \in Int
    BY <1>5, <2>2
  <2> QED
    BY <2>3 DEF B!Part
<1> HIDE DEF share, byRisk, limit
<1>7. /\ B!Min({share, byRisk, limit}) \in {share, byRisk, limit}
      /\ B!Min({share, byRisk, limit}) <= share
  <2>1. \E z \in {share, byRisk, limit} : \A w \in {share, byRisk, limit} : z <= w
    BY <1>3, <1>4, <1>6
  <2>2. /\ B!Min({share, byRisk, limit}) \in {share, byRisk, limit}
        /\ \A w \in {share, byRisk, limit} : B!Min({share, byRisk, limit}) <= w
    BY <2>1 DEF B!Min
  <2> QED
    BY <2>2
<1>8. B!calculate_position_size(reference, existing, available, risk)
        = B!Min({share, byRisk, limit})
  BY DEF B!calculate_position_size, share, byRisk, limit
<1> QED
  BY <1>3, <1>4, <1>6, <1>7, <1>8

\* With what is held the size stays within the room of the asset.
LEMMA SizeWithinRoom ==
  ASSUME B!SizingConstants, NEW reference \in Nat, NEW current \in Nat,
         NEW existing \in Nat, NEW available \in Int, NEW risk \in Nat
  PROVE  LET base == B!calculate_position_with_existing(reference, current, existing,
                                                        available, risk) IN
         /\ base \in Int /\ (base <= 0 \/ base <= available)
         /\ B!Room(reference, current) \in Nat /\ base <= B!Room(reference, current)
<1> DEFINE base == B!calculate_position_size(reference, existing, available, risk)
           limit == B!MaxValue(reference)
<1>1. base \in Int /\ (base <= 0 \/ base <= available)
  BY SizeWithinCash
<1>2. limit \in Int /\ MinOrder \in Nat \ {0}
  BY ShareBounds DEF B!MaxValue, B!SizingConstants
<1> HIDE DEF base, limit
<1>3. /\ B!Room(reference, current) \in {0, limit - current}
      /\ B!Room(reference, current) >= 0 /\ B!Room(reference, current) >= limit - current
  <2> DEFINE d == limit - current
  <2>1. d \in Int
    BY <1>2
  <2>2. B!Room(reference, current) = B!Max({0, d})
    BY DEF B!Room, limit
  <2> HIDE DEF d
  <2>3. /\ B!Room(reference, current) \in {0, d}
        /\ B!Room(reference, current) >= 0 /\ B!Room(reference, current) >= d
    BY <2>1, <2>2, LargerOfTwo
  <2> QED
    BY <2>3 DEF d
<1>4. /\ B!Capped(reference, current, base) \in Int
      /\ \/ B!Capped(reference, current, base) <= 0
         \/ B!Capped(reference, current, base) <= base
      /\ B!Capped(reference, current, base) <= B!Room(reference, current)
  BY <1>1, <1>2, <1>3 DEF B!Capped, limit
<1> QED
  BY <1>1, <1>2, <1>3, <1>4 DEF B!calculate_position_with_existing, base

\* Scaling and boosting: what is bought for costs no more than the boosted cash,
\* and fits into the boosted room.
LEMMA ScaledSize ==
  ASSUME B!SizingConstants, modifier \in 250 .. 1250, bear \in BOOLEAN,
         NEW base \in Int, NEW available \in Int, NEW limit \in Nat,
         base <= 0 \/ base <= available, base <= limit
  PROVE  /\ B!Scaled(base) \in Int
         /\ B!Scaled(base) >= MinOrder =>
              /\ 1000 * B!Scaled(base) <= B!Boost * available
              /\ 1000 * B!Scaled(base) <=
                   B!Boost * (IF bear THEN B!Part(limit, BearScale) ELSE limit)
<1> DEFINE scaled == IF bear THEN B!Part(base, BearScale) ELSE base
           most == IF bear THEN B!Part(limit, BearScale) ELSE limit
<1>1. MinOrder \in Nat \ {0} /\ BearScale \in Nat /\ BearScale <= 1000
  BY DEF B!SizingConstants
<1>2. scaled \in Int /\ most \in Int /\ scaled <= most /\ (scaled <= 0 \/ scaled <= base)
  <2>1. CASE bear
    <3>1. /\ B!Part(base, BearScale) \in Int /\ B!Part(limit, BearScale) \in Int
          /\ 1000 * B!Part(base, BearScale) <= base * BearScale
      BY <1>1, PartBounds
    <3>2. B!Part(base, BearScale) <= B!Part(limit, BearScale)
      BY <1>1, PartGrows
    <3>3. base <= 0 => base * BearScale <= 0
      BY <1>1
    <3>4. base >= 0 => base * BearScale <= base * 1000
      BY <1>1
    <3>5. B!Part(base, BearScale) <= 0 \/ B!Part(base, BearScale) <= base
      <4>1. base * BearScale \in Int
        BY <1>1
      <4> QED
        BY <3>1, <3>3, <3>4, <4>1
    <3> QED
      BY <2>1, <3>1, <3>2, <3>5
  <2>2. CASE ~bear
    BY <2>2
  <2> QED
    BY <2>1, <2>2
<1>3. B!Scaled(base) = B!Part(scaled, modifier)
  BY DEF B!Scaled
<1> HIDE DEF scaled, most
<1>4. B!Scaled(base) \in Int /\ 1000 * B!Scaled(base) <= scaled * modifier
  BY <1>2, <1>3, PartBounds
<1> SUFFICES ASSUME B!Scaled(base) >= MinOrder
             PROVE  /\ 1000 * B!Scaled(base) <= B!Boost * available
                    /\ 1000 * B!Scaled(base) <= B!Boost * most
  BY <1>4 DEF most
<1>5. B!Boost \in Nat /\ B!Boost >= 1000 /\ B!Boost >= modifier
  BY BoostBounds
<1>6. scaled > 0
  <2>1. scaled * modifier > 0
    BY <1>1, <1>2, <1>4
  <2>2. scaled <= 0 => scaled * modifier <= 0
    BY <1>2
  <2> QED
    BY <1>2, <2>1, <2>2
<1>7. scaled * modifier <= scaled * B!Boost
  BY <1>2, <1>5, <1>6
<1>8. scaled <= available /\ scaled <= most
  BY <1>2, <1>6
<1>9. scaled * B!Boost <= available * B!Boost /\ scaled * B!Boost <= most * B!Boost
  BY <1>2, <1>5, <1>8, ProductsGrow
<1>10. available * B!Boost = B!Boost * available /\ most * B!Boost = B!Boost * most
  BY <1>2, <1>5
<1>11. /\ scaled * modifier \in Int /\ scaled * B!Boost \in Int
       /\ available * B!Boost \in Int /\ most * B!Boost \in Int
  BY <1>2, <1>5
<1> QED
  BY <1>4, <1>7, <1>9, <1>10, <1>11

SizeFits ==
  size >= MinOrder =>
    /\ 1000 * size <= B!Boost * cash
    /\ 1000 * size <= B!Boost * (IF bear THEN B!Part(room, BearScale) ELSE room)

\* Cash that is spent is gone, and what is about to be spent is within the
\* boosted cash that is left.
SizingInv ==
  /\ sizePc \in {"idle", "buy", "size"} /\ bear \in BOOLEAN /\ modifier \in 250 .. 1250
  /\ cash \in Int /\ spent \in Nat /\ budget \in Nat /\ cash + spent = budget
  /\ 1000 * spent <= B!Boost * budget
  /\ exValue \in Nat /\ taken \in Nat /\ size \in Int /\ room \in Nat
  /\ sizePc = "idle" => spent = 0
  /\ sizePc # "size" => size = 0
  /\ SizeFits

LEMMA SizingInit == B!SizingConstants /\ B!Init => SizingInv
<1> SUFFICES ASSUME B!SizingConstants, B!Init PROVE SizingInv
  OBVIOUS
<1>1. MinOrder \in Nat \ {0}
  BY DEF B!SizingConstants
<1>2. modifier = 1000 /\ size = 0 /\ spent = 0 /\ budget = 0
  BY DEF B!Init
<1>3. B!Boost \in Nat
  BY <1>2, BoostBounds
<1>4. 1000 * spent <= B!Boost * budget
  BY <1>2, <1>3
<1>5. SizeFits
  BY <1>1, <1>2 DEF SizeFits
<1>6. /\ sizePc = "idle" /\ modifier \in 250 .. 1250
      /\ cash = 0 /\ exValue \in Nat /\ taken \in Nat /\ room \in Nat
  BY DEF B!Init
<1>9. bear \in BOOLEAN
  BY DEF B!Init
<1>7. cash + spent = budget /\ cash \in Int /\ spent \in Nat /\ budget \in Nat
  BY <1>2, <1>6
<1>8. size \in Int
  BY <1>2
<1> HIDE DEF SizeFits
<1> QED
  BY <1>2, <1>4, <1>5, <1>6, <1>7, <1>8, <1>9 DEF SizingInv

LEMMA StartKeepsSizes ==
  ASSUME B!SizingConstants, SizingInv, B!StartCycle
  PROVE  SizingInv'
<1>1. /\ cash' \in Nat /\ budget' = cash' /\ modifier' \in 250 .. 1250
      /\ bear' \in BOOLEAN /\ sizePc' = "buy" /\ MinOrder \in Nat \ {0}
      /\ spent' = 0 /\ size' = 0 /\ room' = room /\ room \in Nat
  BY DEF B!StartCycle, B!SizingConstants, SizingInv
<1>2. exValue' \in Nat
  <2>1. worth' \in [Asset -> HoldingWorth] /\ exValue' = cash' + B!Total(worth')
    BY DEF B!StartCycle
  <2>2. B!Total(worth') \in Nat
    BY <2>1, WorthAddsUp
  <2> QED
    BY <1>1, <2>1, <2>2
<1>3. taken' \in Nat
  <2> DEFINE some == {a \in Asset : worth'[a] > 0}
  <2>1. taken' = Cardinality(some)
    BY CountsAgree DEF B!StartCycle
  <2>2. some \in SUBSET Asset /\ IsFiniteSet(Asset)
    BY CountsAgree DEF B!SizingConstants
  <2> HIDE DEF some
  <2>3. IsFiniteSet(some)
    BY <2>2, FS_Subset
  <2> QED
    BY <2>1, <2>3, FS_CardinalityType
<1>4. B!Boost' \in Nat
  BY <1>1, BoostBounds, BoostBoundsLater
<1>5. B!Boost' * budget' \in Nat
  <2>1. budget' \in Nat
    BY <1>1
  <2> QED
    BY <1>4, <2>1, ProductsCount
<1>6. 1000 * spent' <= B!Boost' * budget'
  <2>1. 1000 * spent' = 0
    BY <1>1
  <2> QED
    BY <1>5, <2>1
<1>7. SizeFits'
  BY <1>1 DEF SizeFits
<1>8. /\ cash' \in Int /\ budget' \in Nat /\ spent' \in Nat /\ size' \in Int
      /\ room' \in Nat /\ cash' + spent' = budget'
  <2>1. cash' \in Nat /\ budget' = cash' /\ spent' = 0
    BY <1>1
  <2>2. size' \in Int /\ room' \in Nat
    BY <1>1
  <2>3. cash' \in Int /\ budget' \in Nat /\ spent' \in Nat
    BY <2>1
  <2>4. spent' \in Int /\ budget' \in Int
    BY <2>3
  <2>5. cash' + spent' = budget'
    BY <2>1, <2>3, <2>4, NothingSpent
  <2> QED
    BY <2>2, <2>3, <2>5
<1>9. sizePc' \in {"idle", "buy", "size"} /\ bear' \in BOOLEAN /\ modifier' \in 250 .. 1250
  BY <1>1
<1>10. (sizePc' = "idle" => spent' = 0) /\ (sizePc' # "size" => size' = 0)
  BY <1>1
<1> QED
  BY ONLY <1>2, <1>3, <1>6, <1>7, <1>8, <1>9, <1>10 DEF SizingInv

LEMMA EvaluateKeepsSizes ==
  ASSUME B!SizingConstants, SizingInv, NEW a \in Asset, B!Evaluate(a)
  PROVE  SizingInv'
<1>1. PICK r \in Risk, w \in HoldingWorth :
        /\ size' = B!Scaled(B!calculate_position_with_existing(exValue, w, taken, cash, r))
        /\ room' = B!Room(exValue, w)
  BY DEF B!Evaluate
<1> DEFINE base == B!calculate_position_with_existing(exValue, w, taken, cash, r)
<1>2. r \in Nat /\ w \in Nat /\ exValue \in Nat /\ taken \in Nat /\ cash \in Int
  BY DEF B!SizingConstants, SizingInv
<1>3. /\ base \in Int /\ (base <= 0 \/ base <= cash)
      /\ B!Room(exValue, w) \in Nat /\ base <= B!Room(exValue, w)
  BY <1>2, SizeWithinRoom
<1> HIDE DEF base
<1>4. UNCHANGED <<bear, modifier, exValue, budget, cash, spent, taken>> /\ sizePc' = "size"
  BY DEF B!Evaluate, B!account
<1>5. size' = B!Scaled(base)
  BY <1>1 DEF base
<1>6. /\ size' \in Int
      /\ size' >= MinOrder =>
           /\ 1000 * size' <= B!Boost * cash
           /\ 1000 * size' <= B!Boost * (IF bear THEN B!Part(room', BearScale) ELSE room')
  <2>1. modifier \in 250 .. 1250 /\ bear \in BOOLEAN
    BY DEF SizingInv
  <2> DEFINE left == B!Room(exValue, w)
  <2>2. room' = left
    BY <1>1
  <2>3. left \in Nat /\ base <= left
    BY <1>3
  <2> HIDE DEF left
  <2>4. /\ B!Scaled(base) \in Int
        /\ B!Scaled(base) >= MinOrder =>
             /\ 1000 * B!Scaled(base) <= B!Boost * cash
             /\ 1000 * B!Scaled(base) <=
                  B!Boost * (IF bear THEN B!Part(left, BearScale) ELSE left)
    BY <1>2, <1>3, <2>1, <2>3, ScaledSize
  <2> QED
    BY <1>5, <2>2, <2>4
<1>7. B!Boost' = B!Boost
  BY <1>4 DEF B!Boost
<1>8. SizeFits'
  BY <1>4, <1>6, <1>7 DEF SizeFits, B!Part
<1>9. room' \in Nat
  BY <1>1, <1>3
<1> QED
  BY <1>4, <1>6, <1>7, <1>8, <1>9 DEF SizingInv

\* A purchase takes what it costs from the cash.
LEMMA BoughtKeepsSizes ==
  ASSUME B!SizingConstants, SizingInv, B!Bought
  PROVE  SizingInv'
<1>1. /\ size \in Int /\ size >= MinOrder /\ MinOrder \in Nat \ {0}
      /\ cash' = cash - size /\ spent' = spent + size /\ size' = 0 /\ room' = 0
      /\ sizePc' = "buy" /\ UNCHANGED <<bear, modifier, exValue, budget>>
  BY DEF B!Bought, B!Spend, B!Done, B!account, B!SizingConstants, SizingInv
<1>2. taken' \in Nat
  BY DEF B!Bought, SizingInv
<1>3. /\ spent \in Nat /\ budget \in Nat /\ cash = budget - spent
      /\ 1000 * size <= B!Boost * cash
  BY <1>1 DEF SizingInv, SizeFits
<1>4. B!Boost \in Nat /\ B!Boost >= 1000 /\ B!Boost' = B!Boost
  BY <1>1, BoostBounds, BoostBoundsLater DEF SizingInv
<1>5. 1000 * spent <= B!Boost * spent
  BY <1>3, <1>4
<1>6. B!Boost * cash = B!Boost * budget - B!Boost * spent
  BY <1>3, <1>4
<1>7. B!Boost * budget \in Int /\ B!Boost * spent \in Int
  BY <1>3, <1>4
<1>8. 1000 * (spent + size) <= B!Boost * budget
  BY <1>1, <1>3, <1>5, <1>6, <1>7
<1>9. cash' \in Int /\ spent' \in Nat /\ cash' + spent' = budget'
  BY <1>1, <1>3
<1>10. SizeFits'
  BY <1>1 DEF SizeFits
<1> QED
  BY <1>1, <1>2, <1>4, <1>8, <1>9, <1>10 DEF SizingInv

LEMMA SizingStep ==
  B!SizingConstants /\ SizingInv /\ [B!Next]_(B!vars) => SizingInv'
<1> SUFFICES ASSUME B!SizingConstants, SizingInv, [B!Next]_(B!vars)
             PROVE  SizingInv'
  OBVIOUS
<1>1. MinOrder \in Nat \ {0}
  BY DEF B!SizingConstants
<1>2. CASE B!EndCycle
  <2>1. /\ modifier' = 1000 /\ budget' = 0 /\ spent' = 0 /\ cash' = 0 /\ size' = 0
        /\ sizePc' = "idle" /\ bear' = FALSE /\ exValue' = 0 /\ taken' = 0 /\ room' \in Nat
    BY <1>2 DEF B!EndCycle, SizingInv
  <2>2. B!Boost' \in Nat
    BY <2>1, BoostBounds, BoostBoundsLater
  <2>3. 1000 * spent' <= B!Boost' * budget'
    <3>1. 1000 * spent' = 0
      BY <2>1
    <3>2. B!Boost' * budget' \in Nat
      BY <2>1, <2>2, ProductsCount
    <3> QED
      BY <3>1, <3>2
  <2>4. SizeFits'
    BY <1>1, <2>1 DEF SizeFits
  <2>5. /\ cash' + spent' = budget'
        /\ cash' \in Int /\ budget' \in Nat /\ spent' \in Nat /\ size' \in Int
    BY <2>1
  <2>6. modifier' \in 250 .. 1250 /\ exValue' \in Nat /\ taken' \in Nat
    BY <2>1
  <2>7. bear' \in BOOLEAN
    BY <2>1
  <2> QED
    BY <2>1, <2>3, <2>4, <2>5, <2>6, <2>7 DEF SizingInv
<1>3. CASE (\E a \in Asset : B!PassOver(a)) \/ UNCHANGED B!vars
  <2>1. UNCHANGED <<sizePc, bear, modifier, exValue, budget, cash, spent, taken, size, room>>
    BY <1>3 DEF B!PassOver, B!vars, B!account
  <2>2. B!Boost' = B!Boost
    BY <2>1 DEF B!Boost
  <2> QED
    BY <2>1, <2>2 DEF SizingInv, SizeFits, B!Part
<1>4. CASE B!NotBought
  <2>1. /\ UNCHANGED <<bear, modifier, exValue, budget, cash, spent, taken>>
        /\ sizePc' = "buy" /\ size' = 0 /\ room' = 0
    BY <1>4 DEF B!NotBought, B!Done, B!account
  <2>2. B!Boost' = B!Boost
    BY <2>1 DEF B!Boost
  <2>3. SizeFits'
    BY <1>1, <2>1 DEF SizeFits
  <2> QED
    BY <2>1, <2>2, <2>3 DEF SizingInv
<1> QED
  BY <1>2, <1>3, <1>4, StartKeepsSizes, EvaluateKeepsSizes, BoughtKeepsSizes DEF B!Next

\* Slots are only taken while there are any, or by what is held already.
SlotLimit == B!Max({MaxPositions, B!Cardinality(Asset)})

SlotsInv ==
  /\ taken \in Nat /\ taken <= SlotLimit
  /\ worth \in [Asset -> Nat]
  /\ candidates \subseteq Asset
  /\ sizePc = "size" => candidate \in Asset /\ (worth[candidate] = 0 => taken < MaxPositions)
  /\ sizePc # "size" => candidate = NoAsset

LEMMA SlotLimitBounds ==
  ASSUME B!SizingConstants
  PROVE  /\ SlotLimit \in Nat /\ MaxPositions <= SlotLimit /\ MaxPositions \in Nat
         /\ \A S \in SUBSET Asset : /\ B!Cardinality(S) \in Nat
                                    /\ B!Cardinality(S) <= SlotLimit
<1>1. IsFiniteSet(Asset) /\ MaxPositions \in Nat
  BY CountsAgree DEF B!SizingConstants
<1>2. Cardinality(Asset) \in Nat
  BY <1>1, FS_CardinalityType
<1>3. /\ SlotLimit \in {MaxPositions, Cardinality(Asset)}
      /\ SlotLimit >= MaxPositions /\ SlotLimit >= Cardinality(Asset)
  BY <1>1, <1>2, CountsAgree, LargerOfTwo DEF SlotLimit
<1>4. ASSUME NEW S \in SUBSET Asset
      PROVE  B!Cardinality(S) \in Nat /\ B!Cardinality(S) <= SlotLimit
  <2>1. Cardinality(S) <= Cardinality(Asset) /\ IsFiniteSet(S)
    BY <1>1, FS_Subset
  <2>2. Cardinality(S) \in Nat
    BY <2>1, FS_CardinalityType
  <2>3. B!Cardinality(S) = Cardinality(S)
    BY CountsAgree
  <2>4. SlotLimit \in Nat /\ Cardinality(Asset) <= SlotLimit
    BY <1>1, <1>2, <1>3
  <2>5. \A x, y, z \in Nat : x <= y /\ y <= z => x <= z
    OBVIOUS
  <2>6. Cardinality(S) <= SlotLimit
    BY <1>2, <2>1, <2>2, <2>4, <2>5, Zenon
  <2> QED
    BY <2>2, <2>3, <2>6, Zenon
<1> QED
  BY <1>1, <1>2, <1>3, <1>4

LEMMA SlotsInit == B!SizingConstants /\ B!Init => SlotsInv
BY SlotLimitBounds DEF B!Init, SlotsInv

LEMMA SlotsStep ==
  ASSUME B!SizingConstants, SlotsInv, [B!Next]_(B!vars)
  PROVE  SlotsInv'
<1>1. /\ SlotLimit \in Nat /\ MaxPositions <= SlotLimit /\ MaxPositions \in Nat
      /\ \A S \in SUBSET Asset : B!Cardinality(S) \in Nat /\ B!Cardinality(S) <= SlotLimit
  BY SlotLimitBounds
<1>2. HoldingWorth \subseteq Nat /\ NoAsset \notin Asset
  BY DEF B!SizingConstants
<1>3. SlotLimit' = SlotLimit
  BY DEF SlotLimit
<1> HIDE DEF SlotLimit
<1>4. CASE B!StartCycle
  <2>1. /\ taken' = B!Cardinality({a \in Asset : worth'[a] > 0})
        /\ worth' \in [Asset -> HoldingWorth] /\ candidates' \in SUBSET Asset
        /\ sizePc = "idle" /\ sizePc' = "buy" /\ UNCHANGED candidate
    BY <1>4 DEF B!StartCycle
  <2>2. taken' \in Nat /\ taken' <= SlotLimit
    <3>1. {a \in Asset : worth'[a] > 0} \in SUBSET Asset
      OBVIOUS
    <3> QED
      BY <1>1, <2>1, <3>1
  <2> QED
    BY <1>2, <1>3, <2>1, <2>2 DEF SlotsInv
<1>5. CASE B!EndCycle
  BY <1>1, <1>3, <1>5 DEF B!EndCycle, SlotsInv
<1>6. ASSUME NEW a \in Asset, B!PassOver(a) PROVE SlotsInv'
  BY <1>3, <1>6 DEF B!PassOver, B!account, SlotsInv
<1>7. ASSUME NEW a \in Asset, B!Evaluate(a) PROVE SlotsInv'
  <2>1. /\ ~(taken >= MaxPositions /\ worth[a] = 0)
        /\ candidates' = candidates \ {a} /\ candidate' = a /\ sizePc' = "size"
        /\ UNCHANGED <<worth, taken>>
    BY <1>7 DEF B!Evaluate, B!Full, B!account
  <2> QED
    BY <1>1, <1>3, <2>1 DEF SlotsInv
<1>8. CASE B!NotBought
  BY <1>3, <1>8 DEF B!NotBought, B!Done, B!account, SlotsInv
<1>9. CASE B!Bought
  <2>1. /\ sizePc = "size" /\ sizePc' = "buy" /\ candidate' = NoAsset
        /\ taken' = IF worth[candidate] > 0 THEN taken ELSE taken + 1
        /\ UNCHANGED <<worth, candidates>>
    BY <1>9 DEF B!Bought, B!Done, B!account
  <2> QED
    BY <1>1, <1>2, <1>3, <2>1 DEF SlotsInv
<1>10. CASE UNCHANGED B!vars
  BY <1>3, <1>10 DEF B!vars, B!account, SlotsInv
<1> QED
  BY <1>4, <1>5, <1>6, <1>7, <1>8, <1>9, <1>10 DEF B!Next

LEMMA SizesAreTyped == B!SizingConstants /\ SizingInv /\ SlotsInv => B!TypeOK
<1> SUFFICES ASSUME B!SizingConstants, SizingInv, SlotsInv PROVE B!TypeOK
  OBVIOUS
<1>1. SlotLimit \in Nat /\ NoAsset \notin Asset
  BY SlotLimitBounds DEF B!SizingConstants
<1> QED
  BY <1>1 DEF SizingInv, SlotsInv, SlotLimit, B!TypeOK

\* For any account, prices, limits and signals, a cycle buys for no more than
\* its boosted cash, and each purchase fits into the boosted room of its asset,
\* a quarter of it in a bear market: sizes, scales, boosts and rounding included.
\* No more slots are taken than there are, or than balances showed.
THEOREM SizesWithinLimits ==
  ASSUME B!SizingConstants
  PROVE  /\ B!Spec => [](B!TypeOK /\ WithinLimits)
         /\ SumSpec => [](B!TypeOK /\ WithinLimits)
<1>1. SizingInv => WithinLimits
  BY DEF SizingInv, SizeFits, WithinLimits, B!WithinLimits
<1> QED
  BY <1>1, SizingInit, SizingStep, SlotsInit, SlotsStep, SizesAreTyped, SumBegins,
     SumMovesSizes, PTL
  DEF B!Spec, SumSpec

------------------------------------------------------------------------------
(* The signals *)

LEMMA SmallerAge ==
  ASSUME NEW x \in Int, NEW y \in Int
  PROVE  /\ D!Min({x, y}) \in {x, y}
         /\ D!Min({x, y}) <= x /\ D!Min({x, y}) <= y
<1>1. \E z \in {x, y} : \A w \in {x, y} : z <= w
  <2>1. CASE x <= y
    BY <2>1
  <2>2. CASE y <= x
    BY <2>2
  <2> QED
    BY <2>1, <2>2
<1>2. /\ D!Min({x, y}) \in {x, y}
      /\ \A w \in {x, y} : D!Min({x, y}) <= w
  BY <1>1 DEF D!Min
<1> QED
  BY <1>2

\* A reading that was right no longer ago than some ticks.
Was(k, r, ticks) == r \in Reading[k] /\ truth[k][r] <= ticks

\* One that is kept, unless it is too old to be used: a request that lasted
\* through a tick brought it a tick late.
Kept(k, r) == r \in Reading[k] /\ (cache[k].age < Ttl[k] => truth[k][r] <= cache[k].age + 1)

\* Where a scan still wants a signal.
Wants == {"get", "ask", "wait"}

SignalShape ==
  /\ DOMAIN world = D!Key /\ \A k \in D!Key : world[k] \in Reading[k]
  /\ DOMAIN truth = D!Key
  /\ \A k \in D!Key : DOMAIN truth[k] = Reading[k]
  /\ \A k \in D!Key : \A r \in Reading[k] : truth[k][r] \in Nat
  /\ DOMAIN cache = D!Key
  /\ \A k \in D!Key : DOMAIN cache[k] = {"data", "age"} /\ cache[k].age \in Nat
  /\ signalPc \in [SignalScan -> {"idle", "get", "ask", "wait", "decide"}]
  /\ wanted \in [SignalScan -> Seq(D!Key)]
  /\ \A s \in SignalScan : signalPc[s] \in Wants => wanted[s] # <<>>
  /\ DOMAIN answer = SignalScan
  /\ DOMAIN got = SignalScan /\ \A s \in SignalScan : DOMAIN got[s] = D!Key
  /\ elapsed \in [SignalScan -> Nat]

\* Each reading on its way to a decision was right not too long ago.
TruthInv ==
  /\ SignalShape
  /\ \A k \in D!Key : truth[k][world[k]] = 0
  /\ \A k \in D!Key : \A r \in cache[k].data : Kept(k, r)
  /\ \A s \in SignalScan : signalPc[s] \in {"ask", "wait"} =>
       \A r \in answer[s] : Was(Head(wanted[s]), r, IF signalPc[s] = "ask" THEN 0 ELSE 1)
  /\ \A s \in SignalScan : \A k \in D!Key : \A r \in got[s][k] :
       signalPc[s] # "idle" /\ Was(k, r, Ttl[k] + elapsed[s])

LEMMA TruthInit == D!SignalsConstants /\ D!Init => TruthInv
<1> SUFFICES ASSUME D!SignalsConstants, D!Init PROVE TruthInv
  OBVIOUS
<1>1. SignalShape
  <2>1. DOMAIN world = D!Key /\ \A k \in D!Key : world[k] \in Reading[k]
    BY DEF D!Init
  <2>2. /\ DOMAIN truth = D!Key
        /\ \A k \in D!Key : DOMAIN truth[k] = Reading[k]
        /\ \A k \in D!Key : \A r \in Reading[k] : truth[k][r] \in Nat
    BY DEF D!Init, D!SignalsConstants, D!LongAgo
  <2>3. /\ DOMAIN cache = D!Key
        /\ \A k \in D!Key : DOMAIN cache[k] = {"data", "age"} /\ cache[k].age \in Nat
    BY DEF D!Init
  <2>4. /\ signalPc \in [SignalScan -> {"idle", "get", "ask", "wait", "decide"}]
        /\ \A s \in SignalScan : signalPc[s] = "idle"
        /\ wanted \in [SignalScan -> Seq(D!Key)]
    BY DEF D!Init
  <2>5. /\ DOMAIN answer = SignalScan /\ DOMAIN got = SignalScan
        /\ \A s \in SignalScan : DOMAIN got[s] = D!Key
        /\ elapsed \in [SignalScan -> Nat]
    BY DEF D!Init, D!Nothing
  <2> QED
    BY <2>1, <2>2, <2>3, <2>4, <2>5 DEF SignalShape, Wants
<1>2. \A k \in D!Key : truth[k][world[k]] = 0 /\ cache[k].data = {}
  BY DEF D!Init, D!None
<1>3. \A s \in SignalScan : signalPc[s] = "idle" /\ \A k \in D!Key : got[s][k] = {}
  BY DEF D!Init, D!Nothing, D!None
<1> QED
  BY <1>1, <1>2, <1>3 DEF TruthInv

\* A scan that takes a signal which is right, or not too long ago was, goes on
\* with the next one; nothing else is touched.
LEMMA TakeKeepsTruth ==
  ASSUME D!SignalsConstants, TruthInv, NEW s \in SignalScan, signalPc[s] \in Wants,
         NEW signal,
         \A r \in signal : Was(Head(wanted[s]), r, Ttl[Head(wanted[s])] + elapsed[s]),
         D!Take(s, signal), UNCHANGED <<world, truth, elapsed>>,
         DOMAIN cache' = D!Key,
         \A k \in D!Key : DOMAIN cache'[k] = {"data", "age"} /\ cache'[k].age \in Nat,
         \A k \in D!Key : \A r \in cache'[k].data : Kept(k, r)',
         answer' = [answer EXCEPT ![s] = D!None] \/ answer' = answer
  PROVE  TruthInv'
<1> DEFINE h == Head(wanted[s])
           left == Tail(wanted[s])
<1>1. wanted[s] \in Seq(D!Key) /\ wanted[s] # <<>> /\ Len(wanted[s]) \in Nat
  BY DEF TruthInv, SignalShape
<1>2. h \in D!Key /\ left \in Seq(D!Key) /\ Len(left) = Len(wanted[s]) - 1
  BY <1>1
<1>3. Len(wanted[s]) # 1 => left # <<>>
  <2>1. Len(wanted[s]) # 0
    BY <1>1
  <2> HIDE DEF left
  <2>2. left = <<>> => Len(left) = 0
    <3>1. Len(<<>>) = 0
      OBVIOUS
    <3> QED
      BY <3>1
  <2> QED
    BY <1>1, <1>2, <2>1, <2>2
<1>4. /\ signalPc' = [signalPc EXCEPT ![s] = IF Len(wanted[s]) = 1 THEN "decide" ELSE "get"]
      /\ wanted' = [wanted EXCEPT ![s] = left]
      /\ got' = [got EXCEPT ![s][h] = signal]
  BY DEF D!Take
<1> HIDE DEF left
<1>5. /\ signalPc' \in [SignalScan -> {"idle", "get", "ask", "wait", "decide"}]
      /\ wanted' \in [SignalScan -> Seq(D!Key)]
      /\ \A t \in SignalScan : signalPc'[t] \in Wants => wanted'[t] # <<>>
  BY <1>2, <1>3, <1>4 DEF TruthInv, SignalShape, Wants
<1>6. DOMAIN answer' = SignalScan /\ DOMAIN got' = SignalScan /\ \A t \in SignalScan : DOMAIN got'[t] = D!Key
  BY <1>4 DEF TruthInv, SignalShape
<1>7. SignalShape'
  BY <1>5, <1>6 DEF TruthInv, SignalShape
<1>8. (\A t \in SignalScan : signalPc[t] \in {"ask", "wait"} =>
        \A r \in answer[t] : Was(Head(wanted[t]), r, IF signalPc[t] = "ask" THEN 0 ELSE 1))'
  <2> SUFFICES ASSUME NEW t \in SignalScan, signalPc'[t] \in {"ask", "wait"}, NEW r \in answer'[t]
               PROVE  Was(Head(wanted[t]), r, IF signalPc[t] = "ask" THEN 0 ELSE 1)'
    OBVIOUS
  <2>1. t # s
    BY <1>4 DEF TruthInv, SignalShape
  <2>2. /\ signalPc'[t] = signalPc[t] /\ wanted'[t] = wanted[t]
        /\ answer'[t] = answer[t]
    BY <1>4, <2>1 DEF TruthInv, SignalShape
  <2> QED
    BY <2>2 DEF TruthInv, Was
<1>9. \A t \in SignalScan : \A k \in D!Key : \A r \in got'[t][k] :
        signalPc'[t] # "idle" /\ Was(k, r, Ttl[k] + elapsed[t])
  <2> SUFFICES ASSUME NEW t \in SignalScan, NEW k \in D!Key, NEW r \in got'[t][k]
               PROVE  signalPc'[t] # "idle" /\ Was(k, r, Ttl[k] + elapsed[t])
    OBVIOUS
  <2>1. CASE t = s /\ k = h
    <3>1. got'[t][k] = signal
      BY <1>2, <1>4, <2>1 DEF TruthInv, SignalShape
    <3>2. signalPc'[t] # "idle"
      BY <1>4, <2>1 DEF TruthInv, SignalShape
    <3> QED
      BY <2>1, <3>1, <3>2
  <2>2. CASE t = s /\ k # h
    <3>1. got'[t][k] = got[t][k]
      BY <1>2, <1>4, <2>2 DEF TruthInv, SignalShape
    <3>2. signalPc'[t] # "idle"
      BY <1>4, <2>2 DEF TruthInv, SignalShape
    <3> QED
      BY <3>1, <3>2 DEF TruthInv
  <2>3. CASE t # s
    <3>1. got'[t] = got[t] /\ signalPc'[t] = signalPc[t]
      BY <1>4, <2>3 DEF TruthInv, SignalShape
    <3> QED
      BY <3>1 DEF TruthInv
  <2> QED
    BY <2>1, <2>2, <2>3
<1>10. (\A k \in D!Key : \A r \in cache[k].data : Kept(k, r))'
  OBVIOUS
<1> QED
  BY <1>7, <1>8, <1>9, <1>10 DEF TruthInv, Was

\* The actions of a scan.
LEMMA ScanKeepsTruth ==
  ASSUME D!SignalsConstants, TruthInv, NEW s \in SignalScan,
         \/ D!StartScan(s) \/ D!UseCached(s) \/ D!Ask(s)
         \/ D!Answered(s) \/ D!Failed(s) \/ D!Decide(s)
  PROVE  TruthInv'
<1> DEFINE h == Head(wanted[s])
<1>1. signalPc[s] \in Wants => h \in D!Key
  <2>1. wanted[s] \in Seq(D!Key)
    BY DEF TruthInv, SignalShape
  <2>2. signalPc[s] \in Wants => wanted[s] # <<>>
    BY DEF TruthInv, SignalShape
  <2> QED
    BY <2>1, <2>2
<1>2. \A k \in D!Key : Ttl[k] \in Nat \ {0}
  BY DEF D!SignalsConstants
<1>3. /\ DOMAIN cache = D!Key
      /\ \A k \in D!Key : DOMAIN cache[k] = {"data", "age"} /\ cache[k].age \in Nat
      /\ \A k \in D!Key : \A r \in cache[k].data : Kept(k, r)
      /\ elapsed[s] \in Nat
  BY DEF TruthInv, SignalShape
<1>4. \A k \in D!Key : \A r \in Reading[k] : truth[k][r] \in Nat
  BY DEF TruthInv, SignalShape
<1>5. CASE D!StartScan(s)
  <2>1. D!Order \in Seq(D!Key) /\ D!Order # <<>>
    BY DEF D!Order, D!Key
  <2> HIDE DEF D!Order
  <2>2. /\ signalPc' = [signalPc EXCEPT ![s] = "get"]
        /\ wanted' = [wanted EXCEPT ![s] = D!Order]
        /\ UNCHANGED <<world, truth, cache, answer, got, elapsed>>
    BY <1>5 DEF D!StartScan
  <2>3. SignalShape'
    BY <2>1, <2>2 DEF TruthInv, SignalShape
  <2>4. \A t \in SignalScan : signalPc'[t] \in {"ask", "wait"} =>
          signalPc'[t] = signalPc[t] /\ wanted'[t] = wanted[t]
    BY <2>2 DEF TruthInv, SignalShape
  <2>5. \A t \in SignalScan : signalPc'[t] = "idle" => signalPc[t] = "idle"
    BY <2>2 DEF TruthInv, SignalShape
  <2> QED
    BY <2>2, <2>3, <2>4, <2>5 DEF TruthInv, Was, Kept
<1>6. CASE D!UseCached(s)
  <2>1. /\ signalPc[s] = "get" /\ cache[h].age < Ttl[h] /\ D!Take(s, cache[h].data)
        /\ UNCHANGED <<world, truth, cache, answer, elapsed>>
    BY <1>6 DEF D!UseCached, D!Fresh
  <2>2. h \in D!Key
    BY <1>1, <2>1 DEF Wants
  <2>3. ASSUME NEW r \in cache[h].data PROVE Was(h, r, Ttl[h] + elapsed[s])
    <3>1. r \in Reading[h] /\ truth[h][r] <= cache[h].age + 1
      BY <1>3, <2>1, <2>2 DEF Kept
    <3>2. truth[h][r] \in Nat /\ cache[h].age \in Nat /\ Ttl[h] \in Nat /\ elapsed[s] \in Nat
      BY <1>2, <1>3, <1>4, <2>2, <3>1
    <3> QED
      BY <2>1, <3>1, <3>2 DEF Was
  <2>4. \A k \in D!Key : \A r \in cache'[k].data : Kept(k, r)'
    BY <1>3, <2>1 DEF Kept
  <2> HIDE DEF h
  <2> QED
    BY <1>3, <2>1, <2>3, <2>4, TakeKeepsTruth DEF h, Wants
<1>7. CASE D!Ask(s)
  <2>1. /\ signalPc[s] = "get"
        /\ signalPc' = [signalPc EXCEPT ![s] = "ask"]
        /\ answer' = [answer EXCEPT ![s] = {world[h]}]
        /\ UNCHANGED <<world, truth, cache, wanted, got, elapsed>>
    BY <1>7 DEF D!Ask
  <2>2. h \in D!Key
    BY <1>1, <2>1 DEF Wants
  <2>3. SignalShape'
    BY <2>1 DEF TruthInv, SignalShape, Wants
  <2>4. Was(h, world[h], 0)
    BY <2>2 DEF TruthInv, SignalShape, Was
  <2>5. (\A t \in SignalScan : signalPc[t] \in {"ask", "wait"} =>
           \A r \in answer[t] : Was(Head(wanted[t]), r, IF signalPc[t] = "ask" THEN 0 ELSE 1))'
    <3> SUFFICES ASSUME NEW t \in SignalScan, signalPc'[t] \in {"ask", "wait"},
                        NEW r \in answer'[t]
                 PROVE  Was(Head(wanted[t]), r, IF signalPc[t] = "ask" THEN 0 ELSE 1)'
      OBVIOUS
    <3>1. CASE t = s
      <4>1. answer'[t] = {world[h]} /\ wanted'[t] = wanted[s] /\ signalPc'[t] = "ask"
        BY <2>1, <3>1 DEF TruthInv, SignalShape
      <4> QED
        BY <2>1, <2>4, <4>1 DEF Was
    <3>2. CASE t # s
      <4>1. signalPc'[t] = signalPc[t] /\ wanted'[t] = wanted[t] /\ answer'[t] = answer[t]
        BY <2>1, <3>2 DEF TruthInv, SignalShape
      <4> QED
        BY <2>1, <4>1 DEF TruthInv, Was
    <3> QED
      BY <3>1, <3>2
  <2>6. \A t \in SignalScan : signalPc'[t] = "idle" => signalPc[t] = "idle"
    BY <2>1 DEF TruthInv, SignalShape
  <2> QED
    BY <2>1, <2>3, <2>5, <2>6 DEF TruthInv, Was, Kept
<1>8. CASE D!Answered(s)
  <2>1. /\ signalPc[s] \in {"ask", "wait"} /\ D!Take(s, answer[s])
        /\ cache' = [cache EXCEPT ![h] = [data |-> answer[s], age |-> 0]]
        /\ answer' = [answer EXCEPT ![s] = D!None]
        /\ UNCHANGED <<world, truth, elapsed>>
    BY <1>8 DEF D!Answered, D!Asking, D!Stored
  <2>2. h \in D!Key
    BY <1>1, <2>1 DEF Wants
  <2>3. \A r \in answer[s] : Was(h, r, 1)
    <3> SUFFICES ASSUME NEW r \in answer[s] PROVE Was(h, r, 1)
      OBVIOUS
    <3>1. Was(h, r, IF signalPc[s] = "ask" THEN 0 ELSE 1)
      BY <2>1 DEF TruthInv
    <3> QED
      BY <1>4, <2>2, <3>1 DEF Was
  <2>4. \A r \in answer[s] : Was(h, r, Ttl[h] + elapsed[s])
    <3> SUFFICES ASSUME NEW r \in answer[s] PROVE Was(h, r, Ttl[h] + elapsed[s])
      OBVIOUS
    <3>1. r \in Reading[h] /\ truth[h][r] <= 1
      BY <2>3 DEF Was
    <3>2. truth[h][r] \in Nat /\ Ttl[h] \in Nat \ {0} /\ elapsed[s] \in Nat
      BY <1>2, <1>3, <1>4, <2>2, <3>1
    <3> QED
      BY <3>1, <3>2 DEF Was
  <2>5. /\ cache'[h] = [data |-> answer[s], age |-> 0]
        /\ \A k \in D!Key : k # h => cache'[k] = cache[k]
        /\ DOMAIN cache' = D!Key
    BY <1>3, <2>1, <2>2
  <2>6. \A k \in D!Key : DOMAIN cache'[k] = {"data", "age"} /\ cache'[k].age \in Nat
    BY <1>3, <2>5
  <2>7. \A k \in D!Key : \A r \in cache'[k].data : Kept(k, r)'
    <3> SUFFICES ASSUME NEW k \in D!Key, NEW r \in cache'[k].data PROVE Kept(k, r)'
      OBVIOUS
    <3>1. CASE k = h
      <4>1. r \in answer[s] /\ cache'[k].age = 0
        BY <2>5, <3>1
      <4> QED
        BY <2>1, <2>3, <3>1, <4>1 DEF Was, Kept
    <3>2. CASE k # h
      BY <1>3, <2>1, <2>5, <3>2 DEF Kept
    <3> QED
      BY <3>1, <3>2
  <2> HIDE DEF h
  <2> QED
    BY <2>1, <2>4, <2>5, <2>6, <2>7, TakeKeepsTruth DEF h, Wants
<1>9. CASE D!Failed(s)
  <2>1. /\ signalPc[s] \in {"ask", "wait"} /\ D!Take(s, {})
        /\ answer' = [answer EXCEPT ![s] = D!None]
        /\ UNCHANGED <<world, truth, cache, elapsed>>
    BY <1>9 DEF D!Failed, D!Asking, D!Unknown, D!None
  <2>2. \A k \in D!Key : \A r \in cache'[k].data : Kept(k, r)'
    BY <1>3, <2>1 DEF Kept
  <2> QED
    BY <1>3, <2>1, <2>2, TakeKeepsTruth DEF Wants
<1>10. CASE D!Decide(s)
  <2>1. /\ signalPc' = [signalPc EXCEPT ![s] = "idle"]
        /\ got' = [got EXCEPT ![s] = D!Nothing]
        /\ elapsed' = [elapsed EXCEPT ![s] = 0]
        /\ UNCHANGED <<world, truth, cache, wanted, answer>>
    BY <1>10 DEF D!Decide
  <2>2. DOMAIN D!Nothing = D!Key /\ \A k \in D!Key : D!Nothing[k] = {}
    BY DEF D!Nothing, D!None
  <2> HIDE DEF D!Nothing
  <2>3. SignalShape'
    BY <2>1, <2>2 DEF TruthInv, SignalShape, Wants
  <2>4. \A t \in SignalScan : signalPc'[t] \in {"ask", "wait"} => signalPc'[t] = signalPc[t]
    BY <2>1 DEF TruthInv, SignalShape
  <2>5. \A t \in SignalScan : \A k \in D!Key : \A r \in got'[t][k] :
          r \in got[t][k] /\ signalPc'[t] = signalPc[t] /\ elapsed'[t] = elapsed[t]
    BY <2>1, <2>2 DEF TruthInv, SignalShape
  <2> QED
    BY <2>1, <2>3, <2>4, <2>5 DEF TruthInv, Was, Kept
<1> QED
  BY <1>5, <1>6, <1>7, <1>8, <1>9, <1>10

\* The market moves and time passes: what was right stays right for a while.
LEMMA WorldKeepsTruth ==
  ASSUME D!SignalsConstants, TruthInv, D!Tick \/ \E k \in D!Key : D!Move(k)
  PROVE  TruthInv'
<1>1. ScanTicks \in Nat /\ \A k \in D!Key : Ttl[k] \in Nat \ {0}
  BY DEF D!SignalsConstants
<1>2. CASE D!Tick
  <2>1. /\ \A s \in SignalScan : signalPc[s] # "wait"
        /\ UNCHANGED <<world, wanted, answer, got>>
        /\ elapsed' = [s \in SignalScan |->
             IF signalPc[s] = "idle" THEN 0 ELSE elapsed[s] + 1]
        /\ signalPc' = [s \in SignalScan |->
             IF signalPc[s] = "ask" THEN "wait" ELSE signalPc[s]]
        /\ truth' = [k \in D!Key |-> [r \in Reading[k] |->
             IF r = world[k] THEN 0 ELSE D!Min({truth[k][r] + 1, D!LongAgo(k)})]]
        /\ cache' = [k \in D!Key |-> [cache[k] EXCEPT !.age =
             IF cache[k].data = D!None THEN 0 ELSE D!Min({@ + 1, Ttl[k] + 1})]]
    BY <1>2 DEF D!Tick
  <2>2. \A k \in D!Key : \A r \in Reading[k] :
          /\ truth[k][r] \in Nat /\ truth'[k][r] \in Nat
          /\ truth'[k][r] <= truth[k][r] + 1
    <3> SUFFICES ASSUME NEW k \in D!Key, NEW r \in Reading[k]
                 PROVE  /\ truth[k][r] \in Nat /\ truth'[k][r] \in Nat
                        /\ truth'[k][r] <= truth[k][r] + 1
      OBVIOUS
    <3> DEFINE n == truth[k][r] + 1
               most == D!LongAgo(k)
    <3>1. truth[k][r] \in Nat /\ n \in Nat /\ most \in Nat
      BY <1>1 DEF TruthInv, SignalShape, D!LongAgo
    <3>2. truth'[k][r] = IF r = world[k] THEN 0 ELSE D!Min({n, most})
      BY <2>1
    <3> HIDE DEF n, most
    <3>3. D!Min({n, most}) \in {n, most} /\ D!Min({n, most}) <= n /\ D!Min({n, most}) <= most
      <4>1. n \in Int /\ most \in Int
        BY <3>1
      <4> QED
        BY ONLY <4>1, SmallerAge
    <3>4. truth'[k][r] \in Nat /\ truth'[k][r] <= n /\ truth'[k][r] <= most
      BY <3>1, <3>2, <3>3
    <3> QED
      BY <3>1, <3>4 DEF n, most
  <2>3. \A k \in D!Key :
          /\ DOMAIN cache'[k] = {"data", "age"} /\ cache'[k].data = cache[k].data
          /\ cache'[k].age \in Nat
          /\ cache[k].data # {} => cache'[k].age \in {cache[k].age + 1, Ttl[k] + 1}
    <3> SUFFICES ASSUME NEW k \in D!Key
                 PROVE  /\ DOMAIN cache'[k] = {"data", "age"} /\ cache'[k].data = cache[k].data
                        /\ cache'[k].age \in Nat
                        /\ cache[k].data # {} =>
                             cache'[k].age \in {cache[k].age + 1, Ttl[k] + 1}
      OBVIOUS
    <3> DEFINE n == cache[k].age + 1
               most == Ttl[k] + 1
    <3>1. n \in Nat /\ most \in Nat /\ DOMAIN cache[k] = {"data", "age"}
      BY <1>1 DEF TruthInv, SignalShape
    <3>2. /\ DOMAIN cache'[k] = {"data", "age"} /\ cache'[k].data = cache[k].data
          /\ cache'[k].age = IF cache[k].data = {} THEN 0 ELSE D!Min({n, most})
      BY <2>1, <3>1 DEF D!None
    <3> HIDE DEF n, most
    <3>3. D!Min({n, most}) \in {n, most}
      <4>1. n \in Int /\ most \in Int
        BY <3>1
      <4> QED
        BY ONLY <4>1, SmallerAge
    <3>4. cache'[k].age \in Nat /\ (cache[k].data # {} => cache'[k].age \in {n, most})
      BY <3>1, <3>2, <3>3
    <3> QED
      BY <3>2, <3>4 DEF n, most
  <2>4. \A k \in D!Key : world[k] \in Reading[k] /\ truth'[k][world[k]] = 0
    BY <2>1 DEF TruthInv, SignalShape
  <2>5. (\A k \in D!Key : \A r \in cache[k].data : Kept(k, r))'
    <3> SUFFICES ASSUME NEW k \in D!Key, NEW r \in cache'[k].data
                 PROVE  /\ r \in Reading[k]
                        /\ cache'[k].age < Ttl[k] => truth'[k][r] <= cache'[k].age + 1
      BY DEF Kept
    <3>1. /\ r \in cache[k].data /\ r \in Reading[k]
          /\ cache[k].age < Ttl[k] => truth[k][r] <= cache[k].age + 1
      BY <2>3 DEF TruthInv, Kept
    <3>2. /\ cache'[k].age \in {cache[k].age + 1, Ttl[k] + 1} /\ cache[k].age \in Nat
          /\ Ttl[k] \in Nat
      BY <1>1, <2>3, <3>1 DEF TruthInv, SignalShape
    <3>3. truth[k][r] \in Nat /\ truth'[k][r] \in Nat /\ truth'[k][r] <= truth[k][r] + 1
      BY <2>2, <3>1
    <3> QED
      BY <3>1, <3>2, <3>3
  <2>6. SignalShape'
    <3>1. /\ DOMAIN truth' = D!Key /\ DOMAIN cache' = D!Key
          /\ \A k \in D!Key : DOMAIN truth'[k] = Reading[k]
      BY <2>1
    <3>2. /\ signalPc' \in [SignalScan -> {"idle", "get", "ask", "wait", "decide"}]
          /\ \A s \in SignalScan : signalPc'[s] \in Wants => wanted'[s] # <<>>
          /\ elapsed' \in [SignalScan -> Nat]
      BY <2>1 DEF TruthInv, SignalShape, Wants
    <3> QED
      BY <2>1, <2>2, <2>3, <3>1, <3>2 DEF TruthInv, SignalShape
  <2>7. (\A s \in SignalScan : signalPc[s] \in {"ask", "wait"} =>
           \A r \in answer[s] : Was(Head(wanted[s]), r, IF signalPc[s] = "ask" THEN 0 ELSE 1))'
    <3> SUFFICES ASSUME NEW s \in SignalScan, signalPc'[s] \in {"ask", "wait"},
                        NEW r \in answer[s]
                 PROVE  /\ signalPc'[s] = "wait"
                        /\ r \in Reading[Head(wanted[s])] /\ truth'[Head(wanted[s])][r] <= 1
      BY <2>1 DEF Was
    <3>1. signalPc[s] = "ask" /\ signalPc'[s] = "wait"
      BY <2>1
    <3>2. wanted[s] \in Seq(D!Key) /\ wanted[s] # <<>>
      BY <3>1 DEF TruthInv, SignalShape, Wants
    <3>3. Head(wanted[s]) \in D!Key
      BY <3>2
    <3>4. r \in Reading[Head(wanted[s])] /\ truth[Head(wanted[s])][r] <= 0
      BY <3>1 DEF TruthInv, Was
    <3> QED
      BY <2>2, <3>1, <3>3, <3>4
  <2>8. (\A s \in SignalScan : \A k \in D!Key : \A r \in got[s][k] :
           signalPc[s] # "idle" /\ Was(k, r, Ttl[k] + elapsed[s]))'
    <3> SUFFICES ASSUME NEW s \in SignalScan, NEW k \in D!Key, NEW r \in got[s][k]
                 PROVE  /\ signalPc'[s] # "idle" /\ r \in Reading[k]
                        /\ truth'[k][r] <= Ttl[k] + elapsed'[s]
      BY <2>1 DEF Was
    <3>1. /\ signalPc[s] # "idle" /\ r \in Reading[k] /\ truth[k][r] <= Ttl[k] + elapsed[s]
          /\ elapsed[s] \in Nat /\ Ttl[k] \in Nat
      BY <1>1 DEF TruthInv, SignalShape, Was
    <3>2. signalPc'[s] # "idle" /\ elapsed'[s] = elapsed[s] + 1
      BY <2>1, <3>1
    <3>3. truth[k][r] \in Nat /\ truth'[k][r] \in Nat /\ truth'[k][r] <= truth[k][r] + 1
      BY <2>2, <3>1
    <3> QED
      BY <3>1, <3>2, <3>3
  <2> QED
    BY <2>1, <2>4, <2>5, <2>6, <2>7, <2>8 DEF TruthInv
<1>3. CASE \E k \in D!Key : D!Move(k)
  <2>1. PICK k \in D!Key : D!Move(k)
    BY <1>3
  <2>2. PICK r \in Reading[k] \ {world[k]} :
          /\ world' = [world EXCEPT ![k] = r]
          /\ truth' = [truth EXCEPT ![k][r] = 0]
    BY <2>1 DEF D!Move
  <2>3. UNCHANGED <<cache, signalPc, wanted, answer, got, elapsed>>
    BY <2>1 DEF D!Move
  <2>4. \A i \in D!Key : DOMAIN truth'[i] = Reading[i]
    BY <2>2 DEF TruthInv, SignalShape
  <2>5. \A i \in D!Key : \A x \in Reading[i] :
          truth'[i][x] = (IF i = k /\ x = r THEN 0 ELSE truth[i][x])
    BY <2>2 DEF TruthInv, SignalShape
  <2>6. \A i \in D!Key : \A x \in Reading[i] :
          truth[i][x] \in Nat /\ truth'[i][x] \in Nat /\ truth'[i][x] <= truth[i][x]
    <3>1. \A i \in D!Key : \A x \in Reading[i] : truth[i][x] \in Nat
      BY DEF TruthInv, SignalShape
    <3>2. \A i \in D!Key : \A x \in Reading[i] :
            truth'[i][x] = 0 \/ truth'[i][x] = truth[i][x]
      BY <2>5
    <3> QED
      BY <3>1, <3>2
  <2>7. \A i \in D!Key : world'[i] \in Reading[i] /\ truth'[i][world'[i]] = 0
    BY <2>2, <2>5 DEF TruthInv, SignalShape
  <2>8. SignalShape'
    <3>1. DOMAIN truth' = D!Key /\ DOMAIN world' = D!Key
      BY <2>2 DEF TruthInv, SignalShape
    <3> QED
      BY <2>3, <2>4, <2>6, <2>7, <3>1 DEF TruthInv, SignalShape
  <2>9. (\A i \in D!Key : \A x \in cache[i].data : Kept(i, x))'
    <3> SUFFICES ASSUME NEW i \in D!Key, NEW x \in cache[i].data
                 PROVE  /\ x \in Reading[i]
                        /\ cache[i].age < Ttl[i] => truth'[i][x] <= cache[i].age + 1
      BY <2>3 DEF Kept
    <3>1. /\ x \in Reading[i] /\ cache[i].age \in Nat
          /\ cache[i].age < Ttl[i] => truth[i][x] <= cache[i].age + 1
      BY DEF TruthInv, SignalShape, Kept
    <3>2. truth[i][x] \in Nat /\ truth'[i][x] \in Nat /\ truth'[i][x] <= truth[i][x]
      BY <2>6, <3>1
    <3> QED
      BY <3>1, <3>2
  <2>10. (\A s \in SignalScan : signalPc[s] \in {"ask", "wait"} =>
            \A x \in answer[s] :
              Was(Head(wanted[s]), x, IF signalPc[s] = "ask" THEN 0 ELSE 1))'
    <3> SUFFICES ASSUME NEW s \in SignalScan, signalPc[s] \in {"ask", "wait"},
                        NEW x \in answer[s]
                 PROVE  /\ x \in Reading[Head(wanted[s])]
                        /\ truth'[Head(wanted[s])][x] <= IF signalPc[s] = "ask" THEN 0 ELSE 1
      BY <2>3 DEF Was
    <3>1. wanted[s] \in Seq(D!Key) /\ wanted[s] # <<>>
      BY DEF TruthInv, SignalShape, Wants
    <3>2. Head(wanted[s]) \in D!Key
      BY <3>1
    <3>3. /\ x \in Reading[Head(wanted[s])]
          /\ truth[Head(wanted[s])][x] <= IF signalPc[s] = "ask" THEN 0 ELSE 1
      BY DEF TruthInv, Was
    <3> QED
      BY <2>6, <3>2, <3>3
  <2>11. (\A s \in SignalScan : \A i \in D!Key : \A x \in got[s][i] :
            signalPc[s] # "idle" /\ Was(i, x, Ttl[i] + elapsed[s]))'
    <3> SUFFICES ASSUME NEW s \in SignalScan, NEW i \in D!Key, NEW x \in got[s][i]
                 PROVE  /\ signalPc[s] # "idle" /\ x \in Reading[i]
                        /\ truth'[i][x] <= Ttl[i] + elapsed[s]
      BY <2>3 DEF Was
    <3>1. /\ signalPc[s] # "idle" /\ x \in Reading[i] /\ truth[i][x] <= Ttl[i] + elapsed[s]
          /\ Ttl[i] + elapsed[s] \in Nat
      BY <1>1 DEF TruthInv, SignalShape, Was
    <3>2. truth[i][x] \in Nat /\ truth'[i][x] \in Nat /\ truth'[i][x] <= truth[i][x]
      BY <2>6, <3>1
    <3> QED
      BY <3>1, <3>2
  <2> QED
    BY <2>3, <2>7, <2>8, <2>9, <2>10, <2>11 DEF TruthInv
<1> QED
  BY <1>2, <1>3

LEMMA TruthStep ==
  D!SignalsConstants /\ TruthInv /\ [D!Next]_(D!vars) => TruthInv'
<1> SUFFICES ASSUME D!SignalsConstants, TruthInv, [D!Next]_(D!vars) PROVE TruthInv'
  OBVIOUS
<1>1. CASE UNCHANGED D!vars
  BY <1>1 DEF D!vars, TruthInv, SignalShape, Was, Kept
<1> QED
  BY <1>1, ScanKeepsTruth, WorldKeepsTruth DEF D!Next

\* Whatever the signals say, the modifier keeps to its limits.
LEMMA ModifierBounds ==
  ASSUME NEW funding, NEW ls
  PROVE  D!compute_position_modifier(funding, ls) \in 250 .. 1250
<1> DEFINE ByFunding == IF funding = D!None THEN 1000
                        ELSE D!FundingFactor(CHOOSE r \in funding : TRUE)
           ByCrowd == IF \E r \in ls : D!ExtremeLong(r) THEN 750 ELSE 1000
           x == (ByFunding * ByCrowd) \div 1000
<1>1. ByFunding \in {500, 750, 1000, 1100, 1250}
  <2>1. ASSUME NEW rate
        PROVE  D!_classify_funding(rate) \in
                 {"EXTREME_NEGATIVE", "NEGATIVE", "NORMAL", "ELEVATED", "EXTREME"}
    BY DEF D!_classify_funding
  <2>2. ASSUME NEW rate PROVE D!FundingFactor(rate) \in {500, 750, 1000, 1100, 1250}
    BY <2>1 DEF D!FundingFactor
  <2> QED
    BY <2>2
<1>2. ByCrowd \in {750, 1000}
  OBVIOUS
<1>3. D!compute_position_modifier(funding, ls) = D!Max({250, D!Min({1250, x})})
  BY DEF D!compute_position_modifier
<1> HIDE DEF ByFunding, ByCrowd
<1>4. x \in Int
  BY <1>1, <1>2
<1> HIDE DEF x
<1>5. D!Min({1250, x}) \in {1250, x} /\ D!Min({1250, x}) <= 1250
  BY <1>4, SmallerAge
<1>6. /\ D!Max({250, D!Min({1250, x})}) \in {250, D!Min({1250, x})}
      /\ D!Max({250, D!Min({1250, x})}) >= 250
  <2>1. \A m \in Int : D!Max({250, m}) = B!Max({250, m})
    BY DEF D!Max, B!Max
  <2> DEFINE m == D!Min({1250, x})
  <2>2. m \in Int /\ 250 \in Int
    BY <1>4, <1>5
  <2> HIDE DEF m
  <2>3. D!Max({250, m}) \in {250, m} /\ D!Max({250, m}) >= 250
    BY ONLY <2>1, <2>2, LargerOfTwo
  <2> QED
    BY <2>3 DEF m
<1> QED
  BY <1>3, <1>4, <1>5, <1>6

\* Each signal that is kept, or on its way, is one reading.
SignalTypesInv ==
  /\ SignalShape
  /\ \A k \in D!Key : /\ \/ cache[k].data = D!None
                         \/ \E r \in Reading[k] : cache[k].data = {r}
                      /\ cache[k].age <= Ttl[k] + 1
  /\ \A s \in SignalScan : signalPc[s] \in {"ask", "wait"} =>
       \E r \in Reading[Head(wanted[s])] : answer[s] = {r}
  /\ \A s \in SignalScan : signalPc[s] \in {"idle", "decide"} => wanted[s] = <<>>
  /\ \A s \in SignalScan : elapsed[s] <= ScanTicks

LEMMA SignalsAreTyped == D!SignalsConstants /\ SignalTypesInv => D!TypeOK
<1> SUFFICES ASSUME D!SignalsConstants, SignalTypesInv PROVE D!TypeOK
  OBVIOUS
<1>1. ASSUME NEW s \in SignalScan PROVE D!position_modifier(s) \in 250 .. 1250
  BY ModifierBounds DEF D!position_modifier
<1>2. ASSUME NEW k \in D!Key
      PROVE  /\ world[k] \in Reading[k]
             /\ cache[k].data = D!None \/ \E r \in Reading[k] : cache[k].data = {r}
             /\ cache[k].age \in 0 .. Ttl[k] + 1
  <2>1. cache[k].age \in Nat /\ cache[k].age <= Ttl[k] + 1
    BY DEF SignalTypesInv, SignalShape
  <2> QED
    BY <2>1 DEF SignalTypesInv, SignalShape
<1>3. ASSUME NEW s \in SignalScan
      PROVE  /\ signalPc[s] \in {"idle", "get", "ask", "wait", "decide"}
             /\ (signalPc[s] \in {"get", "ask", "wait"}) = (wanted[s] # <<>>)
             /\ elapsed[s] \in 0 .. ScanTicks
  <2>1. elapsed[s] \in Nat /\ elapsed[s] <= ScanTicks
    BY DEF SignalTypesInv, SignalShape
  <2>2. elapsed[s] \in 0 .. ScanTicks
    BY <2>1 DEF D!SignalsConstants
  <2>3. (signalPc[s] \in {"get", "ask", "wait"}) = (wanted[s] # <<>>)
    BY DEF SignalTypesInv, SignalShape, Wants
  <2> QED
    BY <2>2, <2>3 DEF SignalTypesInv, SignalShape
<1>4. \A k \in D!Key :
        /\ world[k] \in Reading[k]
        /\ cache[k].data = D!None \/ \E r \in Reading[k] : cache[k].data = {r}
        /\ cache[k].age \in 0 .. Ttl[k] + 1
  BY <1>2
<1>5. \A s \in SignalScan :
        /\ signalPc[s] \in {"idle", "get", "ask", "wait", "decide"}
        /\ (signalPc[s] \in {"get", "ask", "wait"}) = (wanted[s] # <<>>)
        /\ elapsed[s] \in 0 .. ScanTicks
        /\ D!position_modifier(s) \in 250 .. 1250
  BY <1>1, <1>3
<1> QED
  BY <1>4, <1>5 DEF D!TypeOK

LEMMA SignalTypesInit == D!SignalsConstants /\ D!Init => SignalTypesInv
<1> SUFFICES ASSUME D!SignalsConstants, D!Init PROVE SignalTypesInv
  OBVIOUS
<1>1. SignalShape
  BY TruthInit DEF TruthInv
<1>2. \A k \in D!Key : cache[k].data = D!None /\ cache[k].age = 0 /\ Ttl[k] \in Nat
  BY DEF D!Init, D!SignalsConstants
<1>3. \A s \in SignalScan : /\ signalPc[s] = "idle" /\ wanted[s] = <<>>
                            /\ elapsed[s] <= ScanTicks
  BY DEF D!Init, D!SignalsConstants
<1> QED
  BY <1>1, <1>2, <1>3 DEF SignalTypesInv

\* The signal that was wanted is there; the shape is what TruthStep keeps.
LEMMA TakeKeepsTypes ==
  ASSUME SignalTypesInv, SignalShape', NEW s \in SignalScan,
         signalPc[s] \in Wants, NEW signal, D!Take(s, signal),
         \A k \in D!Key : /\ \/ cache'[k].data = D!None
                             \/ \E r \in Reading[k] : cache'[k].data = {r}
                          /\ cache'[k].age <= Ttl[k] + 1,
         answer' = answer \/ answer' = [answer EXCEPT ![s] = D!None],
         UNCHANGED elapsed
  PROVE  SignalTypesInv'
<1>1. wanted[s] \in Seq(D!Key) /\ wanted[s] # <<>>
  BY DEF SignalTypesInv, SignalShape, Wants
<1>2. /\ signalPc' = [signalPc EXCEPT ![s] = IF Len(wanted[s]) = 1 THEN "decide" ELSE "get"]
      /\ wanted' = [wanted EXCEPT ![s] = Tail(wanted[s])]
  BY DEF D!Take
<1>3. Len(wanted[s]) = 1 => Tail(wanted[s]) = <<>>
  <2>1. Tail(wanted[s]) \in Seq(D!Key) /\ Len(Tail(wanted[s])) = Len(wanted[s]) - 1
    BY <1>1, HeadTailProperties
  <2>2. ASSUME NEW left \in Seq(D!Key), Len(left) = 0 PROVE left = <<>>
    BY <2>2, EmptySeq
  <2>3. Len(wanted[s]) = 1 => Len(Tail(wanted[s])) = 0
    BY <2>1
  <2> QED
    BY <2>1, <2>2, <2>3, Zenon
<1>4. ASSUME NEW t \in SignalScan
      PROVE  /\ signalPc'[t] \in {"ask", "wait"} =>
                  \E r \in Reading[Head(wanted'[t])] : answer'[t] = {r}
             /\ signalPc'[t] \in {"idle", "decide"} => wanted'[t] = <<>>
  <2>1. CASE t = s
    <3>1. /\ signalPc'[t] = IF Len(wanted[s]) = 1 THEN "decide" ELSE "get"
          /\ wanted'[t] = Tail(wanted[s])
      BY <1>2, <2>1 DEF SignalTypesInv, SignalShape
    <3> QED
      BY <1>3, <3>1
  <2>2. CASE t # s
    <3>1. signalPc'[t] = signalPc[t] /\ wanted'[t] = wanted[t] /\ answer'[t] = answer[t]
      BY <1>2, <2>2 DEF SignalTypesInv, SignalShape
    <3> QED
      BY <3>1 DEF SignalTypesInv
  <2> QED
    BY <2>1, <2>2
<1> QED
  BY <1>4 DEF SignalTypesInv

LEMMA SignalTypesStep ==
  ASSUME D!SignalsConstants, TruthInv, TruthInv', SignalTypesInv, [D!Next]_(D!vars)
  PROVE  SignalTypesInv'
<1>1. SignalShape /\ SignalShape'
  BY DEF TruthInv
<1>2. \A k \in D!Key : /\ \/ cache[k].data = D!None
                          \/ \E r \in Reading[k] : cache[k].data = {r}
                       /\ cache[k].age <= Ttl[k] + 1 /\ cache[k].age \in Nat
                       /\ Ttl[k] \in Nat /\ world[k] \in Reading[k]
  BY <1>1 DEF SignalTypesInv, SignalShape, D!SignalsConstants
<1>3. ASSUME NEW s \in SignalScan, signalPc[s] \in Wants
      PROVE  Head(wanted[s]) \in D!Key
  <2>1. wanted[s] \in Seq(D!Key) /\ wanted[s] # <<>>
    BY <1>1, <1>3 DEF SignalShape, Wants
  <2> QED
    BY <2>1
<1>4. ASSUME NEW s \in SignalScan, D!StartScan(s) PROVE SignalTypesInv'
  <2>1. /\ signalPc' = [signalPc EXCEPT ![s] = "get"]
        /\ wanted' = [wanted EXCEPT ![s] = D!Order]
        /\ UNCHANGED <<cache, answer, elapsed>>
    BY <1>4 DEF D!StartScan
  <2>2. \A t \in SignalScan : \/ signalPc'[t] = "get"
                              \/ signalPc'[t] = signalPc[t] /\ wanted'[t] = wanted[t]
    BY <1>1, <2>1 DEF SignalShape
  <2> QED
    BY <1>1, <1>2, <2>1, <2>2 DEF SignalTypesInv
<1>5. ASSUME NEW s \in SignalScan, D!UseCached(s) PROVE SignalTypesInv'
  <2>1. /\ signalPc[s] \in Wants /\ UNCHANGED <<cache, answer, elapsed>>
        /\ D!Take(s, cache[Head(wanted[s])].data)
    BY <1>5 DEF D!UseCached, Wants
  <2> QED
    BY <1>1, <1>2, <2>1, TakeKeepsTypes
<1>6. ASSUME NEW s \in SignalScan, D!Ask(s) PROVE SignalTypesInv'
  <2>1. /\ signalPc[s] = "get" /\ signalPc' = [signalPc EXCEPT ![s] = "ask"]
        /\ answer' = [answer EXCEPT ![s] = {world[Head(wanted[s])]}]
        /\ UNCHANGED <<cache, wanted, elapsed>>
    BY <1>6 DEF D!Ask
  <2>2. world[Head(wanted[s])] \in Reading[Head(wanted[s])]
    BY <1>2, <1>3, <2>1 DEF Wants
  <2>3. ASSUME NEW t \in SignalScan, signalPc'[t] \in {"ask", "wait"}
        PROVE  \E r \in Reading[Head(wanted'[t])] : answer'[t] = {r}
    <3>1. CASE t = s
      <4>1. answer'[t] = {world[Head(wanted[s])]} /\ wanted'[t] = wanted[s]
        BY <1>1, <2>1, <3>1 DEF SignalShape
      <4> QED
        BY <2>2, <4>1
    <3>2. CASE t # s
      <4>1. signalPc'[t] = signalPc[t] /\ wanted'[t] = wanted[t] /\ answer'[t] = answer[t]
        BY <1>1, <2>1, <3>2 DEF SignalShape
      <4> QED
        BY <2>3, <4>1 DEF SignalTypesInv
    <3> QED
      BY <3>1, <3>2
  <2>4. ASSUME NEW t \in SignalScan, signalPc'[t] \in {"idle", "decide"}
        PROVE  wanted'[t] = <<>>
    <3>1. signalPc'[t] = signalPc[t] /\ wanted'[t] = wanted[t]
      BY <1>1, <2>1, <2>4 DEF SignalShape
    <3> QED
      BY <2>4, <3>1 DEF SignalTypesInv
  <2> QED
    BY <1>1, <1>2, <2>1, <2>3, <2>4 DEF SignalTypesInv
<1>7. ASSUME NEW s \in SignalScan, D!Answered(s) PROVE SignalTypesInv'
  <2>1. /\ D!Asking(s) /\ D!Take(s, answer[s]) /\ UNCHANGED elapsed
        /\ answer' = [answer EXCEPT ![s] = D!None]
        /\ cache' = [cache EXCEPT ![Head(wanted[s])] = [data |-> answer[s], age |-> 0]]
    BY <1>7 DEF D!Answered, D!Stored
  <2>2. \E r \in Reading[Head(wanted[s])] : answer[s] = {r}
    BY <2>1 DEF SignalTypesInv, D!Asking
  <2>3. ASSUME NEW k \in D!Key
        PROVE  /\ \/ cache'[k].data = D!None
                  \/ \E r \in Reading[k] : cache'[k].data = {r}
               /\ cache'[k].age <= Ttl[k] + 1
    <3>1. CASE k = Head(wanted[s])
      <4>1. cache'[k].data = answer[s] /\ cache'[k].age = 0
        BY <1>1, <2>1, <3>1 DEF SignalShape
      <4> QED
        BY <1>2, <2>2, <3>1, <4>1
    <3>2. CASE k # Head(wanted[s])
      <4>1. cache'[k] = cache[k]
        BY <1>1, <2>1, <3>2 DEF SignalShape
      <4> QED
        BY <1>2, <4>1
    <3> QED
      BY <3>1, <3>2
  <2> QED
    BY <1>1, <2>1, <2>3, TakeKeepsTypes DEF D!Asking, Wants
<1>8. ASSUME NEW s \in SignalScan, D!Failed(s) PROVE SignalTypesInv'
  <2>1. /\ signalPc[s] \in Wants /\ UNCHANGED <<cache, elapsed>>
        /\ answer' = [answer EXCEPT ![s] = D!None]
        /\ D!Take(s, D!Unknown(Head(wanted[s])))
    BY <1>8 DEF D!Failed, D!Asking, Wants
  <2> QED
    BY <1>1, <1>2, <2>1, TakeKeepsTypes
<1>9. ASSUME NEW s \in SignalScan, D!Decide(s) PROVE SignalTypesInv'
  <2>1. /\ signalPc[s] = "decide" /\ signalPc' = [signalPc EXCEPT ![s] = "idle"]
        /\ elapsed' = [elapsed EXCEPT ![s] = 0]
        /\ UNCHANGED <<cache, wanted, answer>>
    BY <1>9 DEF D!Decide
  <2>2. \A t \in SignalScan : \/ signalPc'[t] = signalPc[t]
                              \/ t = s /\ signalPc'[t] = "idle"
    BY <1>1, <2>1 DEF SignalShape
  <2>3. \A t \in SignalScan : elapsed'[t] <= ScanTicks
    BY <1>1, <2>1 DEF SignalTypesInv, SignalShape, D!SignalsConstants
  <2> QED
    BY <1>1, <1>2, <2>1, <2>2, <2>3 DEF SignalTypesInv
<1>10. CASE (\E k \in D!Key : D!Move(k)) \/ UNCHANGED D!vars
  <2>1. UNCHANGED <<cache, signalPc, wanted, answer, elapsed>>
    BY <1>10 DEF D!Move, D!vars
  <2> QED
    BY <1>1, <1>2, <2>1 DEF SignalTypesInv
<1>11. CASE D!Tick
  <2>1. /\ cache' = [k \in D!Key |-> [cache[k] EXCEPT !.age =
                       IF cache[k].data = D!None THEN 0
                       ELSE D!Min({cache[k].age + 1, Ttl[k] + 1})]]
        /\ UNCHANGED <<wanted, answer>>
    BY <1>11 DEF D!Tick
  <2>2. ASSUME NEW k \in D!Key
        PROVE  cache'[k].data = cache[k].data /\ cache'[k].age <= Ttl[k] + 1
    <3>1. DOMAIN cache[k] = {"data", "age"}
      BY <1>1 DEF SignalShape
    <3>2. /\ cache'[k].data = cache[k].data
          /\ cache'[k].age = IF cache[k].data = D!None THEN 0
                             ELSE D!Min({cache[k].age + 1, Ttl[k] + 1})
      BY <2>1, <3>1
    <3>3. D!Min({cache[k].age + 1, Ttl[k] + 1}) <= Ttl[k] + 1
      <4>1. cache[k].age + 1 \in Int /\ Ttl[k] + 1 \in Int
        BY <1>2
      <4> QED
        BY <4>1, SmallerAge
    <3> QED
      BY <1>2, <3>2, <3>3
  <2>3. ASSUME NEW s \in SignalScan
        PROVE  /\ signalPc'[s] = signalPc[s] \/ (signalPc[s] = "ask" /\ signalPc'[s] = "wait")
               /\ elapsed'[s] <= ScanTicks
    <3>1. /\ signalPc'[s] = IF signalPc[s] = "ask" THEN "wait" ELSE signalPc[s]
          /\ elapsed'[s] = IF signalPc[s] = "idle" THEN 0 ELSE elapsed[s] + 1
          /\ signalPc[s] = "idle" \/ elapsed[s] < ScanTicks
      BY <1>11 DEF D!Tick
    <3>2. elapsed[s] \in Nat /\ ScanTicks \in Nat
      BY <1>1 DEF SignalShape, D!SignalsConstants
    <3> QED
      BY <3>1, <3>2
  <2> QED
    BY <1>1, <1>2, <2>1, <2>2, <2>3 DEF SignalTypesInv
<1> QED
  BY <1>4, <1>5, <1>6, <1>7, <1>8, <1>9, <1>10, <1>11 DEF D!Next

\* For any readings, times to live and number of overlapping scans: a decision
\* uses no signal that was last right longer ago than its time to live and the time
\* the scan has taken, whatever the requests for newer ones came to.
THEOREM SignalsAreRecent ==
  ASSUME D!SignalsConstants
  PROVE  /\ D!Spec => [](D!TypeOK /\ NeverMisled)
         /\ SumSpec => [](D!TypeOK /\ NeverMisled)
<1>1. TruthInv => NeverMisled
  BY DEF TruthInv, Was, NeverMisled, D!NeverMisled
<1> QED
  BY <1>1, TruthInit, TruthStep, SignalTypesInit, SignalTypesStep, SignalsAreTyped,
     SumBegins, SumMovesSignals, PTL
  DEF D!Spec, SumSpec

------------------------------------------------------------------------------
(* The books of a backtest *)

Trade == [type : {"SELL", "BUY"}, fee : Int, pnl : Int]

SalesIn(ts) == {i \in DOMAIN ts : ts[i].type = "SELL"}
MadeBy(ts) == SumOver([i \in DOMAIN ts |-> ts[i].pnl], SalesIn(ts))
FeesOf(ts) == SumOver([i \in DOMAIN ts |-> ts[i].fee], SalesIn(ts))
CostOf(ps) == SumOver([a \in TestAsset |-> ps[a].size * ps[a].entry], TestAsset)

LEMMA TestSumsAgree == \A f, S : T!SumOver(f, S) = SumOver(f, S)
BY DEF T!SumOver, SumOver, T!MapThenSumSet, MapThenSumSet, T!MapThenFoldSet, MapThenFoldSet

\* What the books say, in the sums the lemmas are about.
LEMMA BooksAreSums ==
  T!BooksBalance <=>
    capital + CostOf(testPositions) = Capital + MadeBy(trades) - (totalFees - FeesOf(trades))
BY TestSumsAgree DEF T!BooksBalance, CostOf, MadeBy, FeesOf, SalesIn

\* A sum over some places of a sequence, when one more follows.
LEMMA PlacesAdd ==
  ASSUME NEW n \in Nat, NEW S \in SUBSET (1 .. n), NEW f, NEW g,
         \A i \in 1 .. n : f[i] \in Int /\ g[i] = f[i], g[n + 1] \in Int
  PROVE  /\ SumOver(f, S) \in Int
         /\ SumOver(g, S) = SumOver(f, S)
         /\ SumOver(g, S \cup {n + 1}) = SumOver(f, S) + g[n + 1]
<1>1. IsFiniteSet(S) /\ n + 1 \notin S
  <2>1. IsFiniteSet(1 .. n)
    BY FS_Interval
  <2>2. n + 1 \notin S
    OBVIOUS
  <2> QED
    BY <2>1, <2>2, FS_Subset
<1>2. SumOver(f, S) \in Int
  BY <1>1, SumTakesAny
<1>3. SumOver(g, S) = SumOver(f, S)
  BY <1>1, SumsAgree
<1>4. \A i \in S \cup {n + 1} : g[i] \in Int
  OBVIOUS
<1>5. SumOver(g, S \cup {n + 1}) = SumOver(g, S) + g[n + 1]
  BY <1>1, <1>4, SumWithOneMore
<1> QED
  BY <1>2, <1>3, <1>5

\* A trade that is added to the list changes its sums by itself, when it is a
\* sale, and else leaves them alone.
LEMMA TradeAdds ==
  ASSUME NEW ts, NEW t, ts \in Seq(Trade), t \in Trade
  PROVE  /\ Append(ts, t) \in Seq(Trade)
         /\ MadeBy(ts) \in Int /\ FeesOf(ts) \in Int
         /\ t.type = "SELL" => /\ MadeBy(Append(ts, t)) = MadeBy(ts) + t.pnl
                               /\ FeesOf(Append(ts, t)) = FeesOf(ts) + t.fee
         /\ t.type # "SELL" => /\ MadeBy(Append(ts, t)) = MadeBy(ts)
                               /\ FeesOf(Append(ts, t)) = FeesOf(ts)
<1> DEFINE us == Append(ts, t)
<1>0. PICK n \in Nat : n = Len(ts)
  OBVIOUS
<1>1. /\ n \in Nat /\ DOMAIN ts = 1 .. n
      /\ us \in Seq(Trade) /\ DOMAIN us = 1 .. (n + 1)
      /\ \A i \in 1 .. n : us[i] = ts[i] /\ ts[i] \in Trade
      /\ us[n + 1] = t
  BY <1>0
<1> HIDE DEF us
<1>2. SalesIn(ts) \in SUBSET (1 .. n)
  BY <1>1 DEF SalesIn
<1>3. SalesIn(us) = IF t.type = "SELL" THEN SalesIn(ts) \cup {n + 1} ELSE SalesIn(ts)
  BY <1>1 DEF SalesIn
<1>4. /\ MadeBy(ts) \in Int
      /\ MadeBy(us) = IF t.type = "SELL" THEN MadeBy(ts) + t.pnl ELSE MadeBy(ts)
  <2> DEFINE f == [i \in DOMAIN ts |-> ts[i].pnl]
             g == [i \in DOMAIN us |-> us[i].pnl]
  <2>1. /\ \A i \in 1 .. n : f[i] \in Int /\ g[i] = f[i]
        /\ g[n + 1] \in Int /\ g[n + 1] = t.pnl
    <3>1. t.pnl \in Int /\ \A i \in 1 .. n : ts[i].pnl \in Int
      BY ONLY <1>1, t \in Trade DEF Trade
    <3> QED
      BY ONLY <1>1, <3>1 DEF f, g
  <2> HIDE DEF f, g
  <2>2. /\ SumOver(f, SalesIn(ts)) \in Int
        /\ SumOver(g, SalesIn(ts)) = SumOver(f, SalesIn(ts))
        /\ SumOver(g, SalesIn(ts) \cup {n + 1}) = SumOver(f, SalesIn(ts)) + t.pnl
    <3>1. /\ SumOver(f, SalesIn(ts)) \in Int
          /\ SumOver(g, SalesIn(ts)) = SumOver(f, SalesIn(ts))
          /\ SumOver(g, SalesIn(ts) \cup {n + 1}) = SumOver(f, SalesIn(ts)) + g[n + 1]
      <4>2. \A i \in 1 .. n : f[i] \in Int /\ g[i] = f[i]
        BY <2>1
      <4>3. g[n + 1] \in Int
        BY <2>1
      <4> QED
        BY ONLY <1>2, <4>2, <4>3, PlacesAdd
    <3> QED
      BY <2>1, <3>1
  <2>3. MadeBy(ts) = SumOver(f, SalesIn(ts)) /\ MadeBy(us) = SumOver(g, SalesIn(us))
    BY DEF MadeBy, f, g
  <2> QED
    BY <1>3, <2>2, <2>3
<1>5. /\ FeesOf(ts) \in Int
      /\ FeesOf(us) = IF t.type = "SELL" THEN FeesOf(ts) + t.fee ELSE FeesOf(ts)
  <2> DEFINE f == [i \in DOMAIN ts |-> ts[i].fee]
             g == [i \in DOMAIN us |-> us[i].fee]
  <2>1. /\ \A i \in 1 .. n : f[i] \in Int /\ g[i] = f[i]
        /\ g[n + 1] \in Int /\ g[n + 1] = t.fee
    <3>1. t.fee \in Int /\ \A i \in 1 .. n : ts[i].fee \in Int
      BY ONLY <1>1, t \in Trade DEF Trade
    <3> QED
      BY ONLY <1>1, <3>1 DEF f, g
  <2> HIDE DEF f, g
  <2>2. /\ SumOver(f, SalesIn(ts)) \in Int
        /\ SumOver(g, SalesIn(ts)) = SumOver(f, SalesIn(ts))
        /\ SumOver(g, SalesIn(ts) \cup {n + 1}) = SumOver(f, SalesIn(ts)) + t.fee
    <3>1. /\ SumOver(f, SalesIn(ts)) \in Int
          /\ SumOver(g, SalesIn(ts)) = SumOver(f, SalesIn(ts))
          /\ SumOver(g, SalesIn(ts) \cup {n + 1}) = SumOver(f, SalesIn(ts)) + g[n + 1]
      <4>2. \A i \in 1 .. n : f[i] \in Int /\ g[i] = f[i]
        BY <2>1
      <4>3. g[n + 1] \in Int
        BY <2>1
      <4> QED
        BY ONLY <1>2, <4>2, <4>3, PlacesAdd
    <3> QED
      BY <2>1, <3>1
  <2>3. FeesOf(ts) = SumOver(f, SalesIn(ts)) /\ FeesOf(us) = SumOver(g, SalesIn(us))
    BY DEF FeesOf, f, g
  <2> QED
    BY <1>3, <2>2, <2>3
<1> QED
  BY <1>1, <1>4, <1>5 DEF us

TestPosition == [size : Nat, entry : Nat]

\* What one position costs is what the costs change by when it changes.
LEMMA CostMoves ==
  ASSUME T!BacktestConstants, NEW ps \in [TestAsset -> TestPosition],
         NEW a \in TestAsset, NEW p \in TestPosition
  PROVE  /\ CostOf(ps) \in Int
         /\ ps[a].size * ps[a].entry \in Nat /\ p.size * p.entry \in Nat
         /\ CostOf([ps EXCEPT ![a] = p])
              = CostOf(ps) - ps[a].size * ps[a].entry + p.size * p.entry
<1> DEFINE qs == [ps EXCEPT ![a] = p]
           f == [b \in TestAsset |-> ps[b].size * ps[b].entry]
           g == [b \in TestAsset |-> qs[b].size * qs[b].entry]
<1>1. IsFiniteSet(TestAsset)
  BY DEF T!BacktestConstants, T!IsFiniteSet, IsFiniteSet
<1>2. qs \in [TestAsset -> TestPosition]
  OBVIOUS
<1>3. \A b \in TestAsset : /\ ps[b].size \in Nat /\ ps[b].entry \in Nat
                           /\ qs[b].size \in Nat /\ qs[b].entry \in Nat
  BY <1>2 DEF TestPosition
<1>4. \A b \in TestAsset : f[b] \in Nat /\ g[b] \in Nat
  BY <1>3, ProductsCount
<1>5. \A b \in TestAsset : b # a => g[b] = f[b]
  OBVIOUS
<1>6. f[a] = ps[a].size * ps[a].entry /\ g[a] = p.size * p.entry
  OBVIOUS
<1>7. CostOf(ps) = SumOver(f, TestAsset) /\ CostOf(qs) = SumOver(g, TestAsset)
  BY DEF CostOf
<1> HIDE DEF f, g, qs
<1>8. /\ SumOver(g, TestAsset) = SumOver(f, TestAsset) - f[a] + g[a]
      /\ SumOver(f, TestAsset) \in Int
  BY <1>1, <1>4, <1>5, SumWithOneChange
<1> QED
  BY <1>4, <1>6, <1>7, <1>8 DEF qs

\* The members of a list, each of which is in it once.
Names(s) == {s[i] : i \in 1 .. Len(s)}
OnceEach(s) == \A i, j \in 1 .. Len(s) : s[i] = s[j] => i = j

LEMMA NameTaken ==
  ASSUME NEW S, NEW s \in Seq(S), s # <<>>, OnceEach(s)
  PROVE  /\ Tail(s) \in Seq(S) /\ OnceEach(Tail(s))
         /\ Head(s) \in Names(s) /\ Names(Tail(s)) = Names(s) \ {Head(s)}
<1> DEFINE t == Tail(s)
<1>1. /\ Len(s) \in Nat \ {0} /\ t \in Seq(S) /\ Len(t) = Len(s) - 1
      /\ Head(s) = s[1]
      /\ \A i \in 1 .. Len(t) : t[i] = s[i + 1]
  BY HeadTailProperties, LenProperties, EmptySeq
<1> HIDE DEF t
<1>2. OnceEach(t)
  BY <1>1 DEF OnceEach
<1>3. Head(s) \in Names(s)
  BY <1>1 DEF Names
<1>4. ASSUME NEW x \in Names(t) PROVE x \in Names(s) /\ x # Head(s)
  <2>1. PICK i \in 1 .. Len(t) : x = t[i]
    BY DEF Names
  <2>2. i + 1 \in 1 .. Len(s) /\ x = s[i + 1] /\ 1 \in 1 .. Len(s) /\ i + 1 # 1
    BY <1>1, <2>1
  <2> QED
    BY <1>1, <2>2 DEF Names, OnceEach
<1>5. ASSUME NEW x \in Names(s), x # Head(s) PROVE x \in Names(t)
  <2>1. PICK i \in 1 .. Len(s) : x = s[i]
    BY DEF Names
  <2>2. i # 1
    BY <1>1, <1>5, <2>1
  <2>3. i - 1 \in 1 .. Len(t) /\ t[i - 1] = s[i]
    BY <1>1, <2>2
  <2> QED
    BY <2>1, <2>3 DEF Names
<1> QED
  BY <1>1, <1>2, <1>3, <1>4, <1>5 DEF t

LEMMA NameAdded ==
  ASSUME NEW S, NEW s \in Seq(S), OnceEach(s), NEW x \in S, x \notin Names(s)
  PROVE  /\ Append(s, x) \in Seq(S) /\ OnceEach(Append(s, x))
         /\ Names(Append(s, x)) = Names(s) \cup {x}
<1> DEFINE t == Append(s, x)
<1>1. /\ Len(s) \in Nat /\ t \in Seq(S) /\ Len(t) = Len(s) + 1
      /\ \A i \in 1 .. Len(s) : t[i] = s[i]
      /\ t[Len(s) + 1] = x
  OBVIOUS
<1> HIDE DEF t
<1>2. OnceEach(t)
  BY <1>1 DEF OnceEach, Names
<1>3. Names(t) = Names(s) \cup {x}
  BY <1>1 DEF Names
<1> QED
  BY <1>1, <1>2, <1>3 DEF t

LEMMA NameRemoved ==
  ASSUME NEW S, NEW s \in Seq(S), OnceEach(s), NEW k \in 1 .. Len(s)
  PROVE  /\ T!RemoveAt(s, k) \in Seq(S) /\ OnceEach(T!RemoveAt(s, k))
         /\ Names(T!RemoveAt(s, k)) = Names(s) \ {s[k]}
<1> DEFINE u == SubSeq(s, 1, k - 1)
           v == SubSeq(s, k + 1, Len(s))
           t == u \o v
<1>0. Len(s) \in Nat /\ \A i \in 1 .. Len(s) : s[i] \in S
  OBVIOUS
<1>1. /\ u \in Seq(S) /\ Len(u) = k - 1
      /\ \A i \in 1 .. (k - 1) : u[i] = s[i]
  BY <1>0, SubSeqProperties
<1>2. /\ v \in Seq(S) /\ Len(v) = Len(s) - k
      /\ \A i \in 1 .. (Len(s) - k) : v[i] = s[k + i]
  BY <1>0, SubSeqProperties
<1> HIDE DEF u, v
<1>3. /\ t \in Seq(S) /\ Len(t) = Len(s) - 1
      /\ \A i \in 1 .. Len(t) : t[i] = IF i < k THEN s[i] ELSE s[i + 1]
  <2>1. /\ t \in Seq(S) /\ Len(t) = Len(u) + Len(v)
        /\ \A i \in 1 .. (Len(u) + Len(v)) :
             t[i] = IF i <= Len(u) THEN u[i] ELSE v[i - Len(u)]
    BY <1>1, <1>2, ConcatProperties
  <2> HIDE DEF t
  <2>2. Len(t) = Len(s) - 1
    BY <1>0, <1>1, <1>2, <2>1
  <2>3. ASSUME NEW i \in 1 .. Len(t) PROVE t[i] = IF i < k THEN s[i] ELSE s[i + 1]
    <3>1. t[i] = IF i <= k - 1 THEN u[i] ELSE v[i - (k - 1)]
      BY <1>0, <1>1, <1>2, <2>1, <2>2
    <3>2. CASE i < k
      BY <1>1, <3>1, <3>2
    <3>3. CASE i >= k
      <4> DEFINE m == i - (k - 1)
      <4>1. m \in 1 .. (Len(s) - k) /\ k + m = i + 1 /\ ~(i < k) /\ ~(i <= k - 1)
        BY <1>0, <2>2, <3>3
      <4>2. t[i] = v[m] /\ v[m] = s[k + m]
        BY <1>2, <3>1, <4>1
      <4> QED
        BY <4>1, <4>2
    <3> QED
      BY <3>2, <3>3
  <2> QED
    BY <2>1, <2>2, <2>3
<1> HIDE DEF t
<1>4. OnceEach(t)
  <2> SUFFICES ASSUME NEW i \in 1 .. Len(t), NEW j \in 1 .. Len(t), t[i] = t[j]
               PROVE  i = j
    BY DEF OnceEach
  <2>1. i \in 1 .. Len(s) /\ j \in 1 .. Len(s) /\ i + 1 \in 1 .. Len(s) /\ j + 1 \in 1 .. Len(s)
    BY <1>0, <1>3
  <2> QED
    BY <1>0, <1>3, <2>1 DEF OnceEach
<1>5. ASSUME NEW x \in Names(t) PROVE x \in Names(s) /\ x # s[k]
  <2>1. PICK i \in 1 .. Len(t) : x = t[i]
    BY DEF Names
  <2>2. \E j \in 1 .. Len(s) : j # k /\ x = s[j]
    BY <1>0, <1>3, <2>1
  <2> QED
    BY <2>2 DEF Names, OnceEach
<1>6. ASSUME NEW x \in Names(s), x # s[k] PROVE x \in Names(t)
  <2>1. PICK i \in 1 .. Len(s) : x = s[i]
    BY DEF Names
  <2>2. \E j \in 1 .. Len(t) : x = t[j]
    <3>1. CASE i < k
      BY <1>0, <1>3, <2>1, <3>1
    <3>2. CASE i > k
      <4>1. i - 1 \in 1 .. Len(t) /\ t[i - 1] = s[i]
        BY <1>0, <1>3, <3>2
      <4> QED
        BY <2>1, <4>1
    <3> QED
      BY <1>6, <2>1, <3>1, <3>2
  <2> QED
    BY <2>2 DEF Names
<1>7. T!RemoveAt(s, k) = t
  BY DEF T!RemoveAt, t, u, v
<1> QED
  BY <1>3, <1>4, <1>5, <1>6, <1>7

\* The books add up, the list of the assets that are held holds those with a
\* position and no other, and each of them once.
BooksInv ==
  /\ capital \in Int /\ totalFees \in Nat /\ trades \in Seq(Trade)
  /\ testPositions \in [TestAsset -> TestPosition]
  /\ testHeld \in Seq(TestAsset) /\ OnceEach(testHeld)
  /\ Names(testHeld) = {a \in TestAsset : testPositions[a].size > 0}
  /\ stoppedAt \in [TestAsset -> Int]
  /\ \A a \in TestAsset : -1 <= stoppedAt[a] /\ stoppedAt[a] <= candle
  /\ capital + CostOf(testPositions)
       = Capital + MadeBy(trades) - (totalFees - FeesOf(trades))

\* What is still to be looked at is held, so it is sold once at most.
BacktestInv ==
  /\ engine \in Engine /\ testPc \in {"next", "exits", "entries", "done"}
  /\ candle \in 0 .. Candles[engine]
  /\ prices \in [TestAsset -> TestPrice]
  /\ entries \in 0 .. TestSlots
  /\ testModifier \in Nat
  /\ exits \in Seq(TestAsset) /\ OnceEach(exits)
  /\ Names(exits) \subseteq Names(testHeld)
  /\ testPc # "exits" => exits = <<>>
  /\ BooksInv

LEMMA ProductsOfParts ==
  ASSUME NEW x \in Nat, NEW y \in Nat, NEW z \in Nat
  PROVE  /\ x * z \in Nat /\ y * z \in Nat /\ z * y = y * z
         /\ (x - y) * z = x * z - y * z
  OBVIOUS

LEMMA FeesAreAmounts ==
  ASSUME T!BacktestConstants, NEW amount \in Nat
  PROVE  T!calculate_fees(amount) \in Nat
<1>1. FeeRate \in Nat
  BY DEF T!BacktestConstants
<1>2. amount * FeeRate \in Nat
  BY <1>1, ProductsCount
<1> QED
  BY <1>2 DEF T!calculate_fees, T!Scaled

\* Everything has a price.
LEMMA PricesArePositive ==
  ASSUME T!BacktestConstants, prices \in [TestAsset -> TestPrice]
  PROVE  \A a \in TestAsset : prices[a] \in Nat /\ prices[a] > 0
<1>1. \A p \in TestPrice : p \in Nat /\ p > 0
  BY DEF T!BacktestConstants
<1> QED
  BY ONLY <1>1, prices \in [TestAsset -> TestPrice]

\* A sale of some or all of a position.
LEMMA CloseKeepsBooks ==
  ASSUME T!BacktestConstants, BooksInv, candle \in Nat, UNCHANGED candle,
         prices \in [TestAsset -> TestPrice],
         NEW a, a \in Names(testHeld), NEW sold, sold \in 1 .. testPositions[a].size,
         NEW stop \in BOOLEAN, T!_close_position(a, sold, stop)
  PROVE  BooksInv' /\ Names(testHeld) \ {a} \subseteq Names(testHeld')
<1> DEFINE p == testPositions[a]
           proceeds == sold * prices[a]
           fee == T!calculate_fees(proceeds)
           sale == [type |-> "SELL", fee |-> fee, pnl |-> proceeds - fee - p.entry * sold]
           q == T!Reduced(p, sold)
<1>1. a \in TestAsset /\ p.size \in Nat /\ p.entry \in Nat /\ p.size > 0
      /\ p = [size |-> p.size, entry |-> p.entry]
  BY DEF BooksInv, TestPosition
<1>2. sold \in Nat /\ sold > 0 /\ sold <= p.size
  BY <1>1
<1>3. prices[a] \in Nat
  BY <1>1, PricesArePositive
<1>4. proceeds \in Nat /\ fee \in Nat
  BY <1>2, <1>3, ProductsCount, FeesAreAmounts
<1>5. /\ capital' = capital + (proceeds - fee)
      /\ totalFees' = totalFees + fee
      /\ testPositions' = [testPositions EXCEPT ![a] = q]
      /\ testHeld' = IF testPositions'[a].size = 0 THEN T!RemoveAt(testHeld, T!PlaceOf(a))
                     ELSE testHeld
      /\ trades' = Append(trades, sale)
      /\ stoppedAt' = IF stop THEN [stoppedAt EXCEPT ![a] = candle] ELSE stoppedAt
  BY DEF T!_close_position
<1>6. /\ q = IF p.size = sold THEN [size |-> 0, entry |-> 0]
             ELSE [size |-> p.size - sold, entry |-> p.entry]
      /\ q \in TestPosition
  BY <1>1, <1>2 DEF T!Reduced, T!Flat, TestPosition
<1>7. /\ p.size * p.entry \in Nat /\ sold * p.entry \in Nat
      /\ p.entry * sold = sold * p.entry
      /\ q.size * q.entry = p.size * p.entry - sold * p.entry
  <2>1. /\ p.size * p.entry \in Nat /\ sold * p.entry \in Nat
        /\ p.entry * sold = sold * p.entry
        /\ (p.size - sold) * p.entry = p.size * p.entry - sold * p.entry
    BY <1>1, <1>2, ProductsOfParts
  <2>2. CASE p.size = sold
    <3>1. q.size = 0 /\ q.entry = 0
      BY <1>6, <2>2
    <3> HIDE DEF q
    <3>2. q.size * q.entry = 0
      BY <3>1
    <3> QED
      BY <2>1, <2>2, <3>2
  <2>3. CASE p.size # sold
    <3>1. q.size = p.size - sold /\ q.entry = p.entry
      BY <1>6, <2>3
    <3> QED
      BY <2>1, <3>1
  <2> QED
    BY <2>1, <2>2, <2>3
<1> HIDE DEF fee, q
<1>8. sale \in Trade /\ sale.type = "SELL" /\ sale.fee = fee
      /\ sale.pnl = proceeds - fee - sold * p.entry
  BY <1>4, <1>7 DEF Trade
<1> HIDE DEF sale, proceeds
<1>9. /\ trades' \in Seq(Trade) /\ MadeBy(trades) \in Int /\ FeesOf(trades) \in Int
      /\ MadeBy(trades') = MadeBy(trades) + sale.pnl
      /\ FeesOf(trades') = FeesOf(trades) + sale.fee
  BY <1>5, <1>8, TradeAdds DEF BooksInv
<1>10. /\ CostOf(testPositions) \in Int
       /\ CostOf(testPositions') = CostOf(testPositions) - p.size * p.entry + q.size * q.entry
  BY <1>1, <1>5, <1>6, CostMoves DEF BooksInv
<1>11. capital' + CostOf(testPositions')
         = Capital + MadeBy(trades') - (totalFees' - FeesOf(trades'))
  <2>1. Capital \in Int /\ capital \in Int /\ totalFees \in Int
    BY DEF T!BacktestConstants, BooksInv
  <2>2. capital + CostOf(testPositions)
          = Capital + MadeBy(trades) - (totalFees - FeesOf(trades))
    BY DEF BooksInv
  <2> DEFINE before == p.size * p.entry
             gone == sold * p.entry
             after == q.size * q.entry
  <2>3. /\ before \in Nat /\ gone \in Nat /\ after = before - gone
        /\ CostOf(testPositions') = CostOf(testPositions) - before + after
        /\ sale.pnl = proceeds - fee - gone /\ sale.fee = fee
    BY <1>7, <1>8, <1>10
  <2>4. /\ capital' = capital + (proceeds - fee) /\ totalFees' = totalFees + fee
        /\ MadeBy(trades') = MadeBy(trades) + sale.pnl
        /\ FeesOf(trades') = FeesOf(trades) + sale.fee
        /\ MadeBy(trades) \in Int /\ FeesOf(trades) \in Int /\ CostOf(testPositions) \in Int
    BY <1>5, <1>9, <1>10
  <2> HIDE DEF before, gone, after
  <2> QED
    BY <1>4, <2>1, <2>2, <2>3, <2>4
<1>12. testPositions' \in [TestAsset -> TestPosition]
  BY <1>1, <1>5, <1>6 DEF BooksInv
<1>13. /\ testHeld' \in Seq(TestAsset) /\ OnceEach(testHeld')
       /\ Names(testHeld') = {b \in TestAsset : testPositions'[b].size > 0}
       /\ Names(testHeld) \ {a} \subseteq Names(testHeld')
  <2>1. /\ testPositions'[a] = q
        /\ \A b \in TestAsset : b # a => testPositions'[b] = testPositions[b]
    BY <1>1, <1>5 DEF BooksInv
  <2>2. CASE q.size = 0
    <3>1. PICK i \in 1 .. Len(testHeld) : testHeld[i] = a
      BY DEF Names
    <3>2. DOMAIN testHeld = 1 .. Len(testHeld)
      BY DEF BooksInv
    <3>3. T!PlaceOf(a) \in 1 .. Len(testHeld) /\ testHeld[T!PlaceOf(a)] = a
      BY <3>1, <3>2 DEF T!PlaceOf
    <3>4. testHeld' = T!RemoveAt(testHeld, T!PlaceOf(a))
      BY <1>5, <2>1, <2>2
    <3>5. /\ testHeld' \in Seq(TestAsset) /\ OnceEach(testHeld')
          /\ Names(testHeld') = Names(testHeld) \ {a}
      BY <3>3, <3>4, NameRemoved DEF BooksInv
    <3>6. Names(testHeld') = {b \in TestAsset : testPositions'[b].size > 0}
      BY <1>1, <2>1, <2>2, <3>5 DEF BooksInv
    <3> QED
      BY <3>5, <3>6
  <2>3. CASE q.size # 0
    <3>1. testHeld' = testHeld
      BY <1>5, <2>1, <2>3
    <3>2. q.size > 0
      BY <1>6, <2>3 DEF TestPosition
    <3>3. Names(testHeld') = {b \in TestAsset : testPositions'[b].size > 0}
      BY <1>1, <2>1, <3>1, <3>2 DEF BooksInv
    <3> QED
      BY <3>1, <3>3 DEF BooksInv
  <2> QED
    BY <2>2, <2>3
<1>14. /\ stoppedAt' \in [TestAsset -> Int]
       /\ \A b \in TestAsset : -1 <= stoppedAt'[b] /\ stoppedAt'[b] <= candle'
  BY <1>1, <1>5 DEF BooksInv
<1>15. capital' \in Int /\ totalFees' \in Nat
  BY <1>4, <1>5 DEF BooksInv
<1> QED
  BY <1>9, <1>11, <1>12, <1>13, <1>14, <1>15 DEF BooksInv


LEMMA ScaledAmounts ==
  ASSUME NEW x \in Int, NEW t \in Nat
  PROVE  T!Scaled(x, t) \in Int
<1>1. x * t \in Int
  OBVIOUS
<1> QED
  BY <1>1 DEF T!Scaled

LEMMA AllocationIsWhole ==
  ASSUME T!BacktestConstants, BooksInv, prices \in [TestAsset -> TestPrice],
         testModifier \in Nat
  PROVE  T!target_allocation \in Int
<1>1. IsFiniteSet(TestAsset)
  BY DEF T!BacktestConstants, T!IsFiniteSet, IsFiniteSet
<1> DEFINE f == [a \in TestAsset |-> testPositions[a].size * prices[a]]
<1>2. \A a \in TestAsset : testPositions[a].size \in Nat /\ prices[a] \in Nat
  BY PricesArePositive DEF BooksInv, TestPosition
<1>3. \A a \in TestAsset : f[a] \in Nat
  BY <1>2, ProductsCount
<1>4. T!get_portfolio_value = capital + SumOver(f, TestAsset)
  BY TestSumsAgree DEF T!get_portfolio_value
<1> HIDE DEF f
<1>5. SumOver(f, TestAsset) \in Int
  BY <1>1, <1>3, SumTakesAny
<1>6. T!get_portfolio_value \in Int
  BY <1>4, <1>5 DEF BooksInv
<1>7. T!get_portfolio_value \div TestSlots \in Int
  BY <1>6, ShareBounds DEF T!BacktestConstants
<1>8. BearScale \in Nat
  BY DEF T!BacktestConstants
<1> QED
  BY <1>7, <1>8, ScaledAmounts DEF T!target_allocation

\* A purchase.
LEMMA EnterKeepsBooks ==
  ASSUME T!BacktestConstants, BooksInv, prices \in [TestAsset -> TestPrice],
         testModifier \in Nat, NEW a, a \in TestAsset, T!Enter(a)
  PROVE  BooksInv'
<1> DEFINE n == T!target_allocation \div prices[a]
           cost == n * prices[a]
           fee == T!calculate_fees(cost)
           q == [size |-> n, entry |-> prices[a]]
           buy == [type |-> "BUY", fee |-> fee, pnl |-> 0]
<1>1. prices[a] \in Nat \ {0}
  BY PricesArePositive
<1>2. n \in Nat /\ n > 0
  <2>1. n \in Int
    BY <1>1, AllocationIsWhole, ShareBounds
  <2>2. n > 0
    BY DEF T!Enter
  <2> QED
    BY <2>1, <2>2
<1>3. cost \in Nat /\ fee \in Nat
  BY <1>1, <1>2, ProductsCount, FeesAreAmounts
<1>4. /\ testPositions[a].size = 0
      /\ capital' = capital - (cost + fee)
      /\ totalFees' = totalFees + fee
      /\ testPositions' = [testPositions EXCEPT ![a] = q]
      /\ testHeld' = Append(testHeld, a)
      /\ trades' = T!Bought(fee)
      /\ UNCHANGED <<stoppedAt, candle>>
  BY DEF T!Enter, T!market
<1>5. T!Bought(fee) = trades \/ T!Bought(fee) = Append(trades, buy)
  BY DEF T!Bought
<1> HIDE DEF n, fee
<1>6. q \in TestPosition /\ q.size = n /\ q.entry = prices[a]
  BY <1>1, <1>2 DEF TestPosition
<1>7. buy \in Trade /\ buy.type # "SELL"
  BY <1>3 DEF Trade
<1> HIDE DEF buy, q
<1>8. /\ trades' \in Seq(Trade) /\ MadeBy(trades) \in Int /\ FeesOf(trades) \in Int
      /\ MadeBy(trades') = MadeBy(trades) /\ FeesOf(trades') = FeesOf(trades)
  <2>1. trades \in Seq(Trade)
    BY DEF BooksInv
  <2> QED
    BY <1>4, <1>5, <1>7, <2>1, TradeAdds
<1>9. /\ CostOf(testPositions) \in Int
      /\ CostOf(testPositions') = CostOf(testPositions) + cost
  <2>1. /\ CostOf(testPositions) \in Int
        /\ CostOf(testPositions')
             = CostOf(testPositions) - testPositions[a].size * testPositions[a].entry
               + q.size * q.entry
    BY <1>4, <1>6, CostMoves DEF BooksInv
  <2>2. testPositions[a].size * testPositions[a].entry = 0
    <3>1. testPositions[a].entry \in Nat
      BY DEF BooksInv, TestPosition
    <3> QED
      BY <1>4, <3>1
  <2>3. q.size * q.entry = cost
    BY <1>6
  <2> QED
    BY <1>3, <2>1, <2>2, <2>3
<1> HIDE DEF cost
<1>10. capital' + CostOf(testPositions')
         = Capital + MadeBy(trades') - (totalFees' - FeesOf(trades'))
  <2>1. Capital \in Int /\ capital \in Int /\ totalFees \in Int
    BY DEF T!BacktestConstants, BooksInv
  <2>2. capital + CostOf(testPositions)
          = Capital + MadeBy(trades) - (totalFees - FeesOf(trades))
    BY DEF BooksInv
  <2>3. /\ capital' = capital - (cost + fee) /\ totalFees' = totalFees + fee
        /\ MadeBy(trades') = MadeBy(trades) /\ FeesOf(trades') = FeesOf(trades)
        /\ CostOf(testPositions') = CostOf(testPositions) + cost
    BY <1>4, <1>8, <1>9
  <2>4. /\ cost \in Int /\ fee \in Int /\ CostOf(testPositions) \in Int
        /\ MadeBy(trades) \in Int /\ FeesOf(trades) \in Int
    BY <1>3, <1>8, <1>9
  <2> QED
    BY ONLY <2>1, <2>2, <2>3, <2>4
<1>11. testPositions' \in [TestAsset -> TestPosition]
  BY <1>4, <1>6 DEF BooksInv
<1>12. /\ testHeld' \in Seq(TestAsset) /\ OnceEach(testHeld')
       /\ Names(testHeld') = {b \in TestAsset : testPositions'[b].size > 0}
  <2>1. a \notin Names(testHeld)
    BY <1>4 DEF BooksInv
  <2>2. /\ testHeld' \in Seq(TestAsset) /\ OnceEach(testHeld')
        /\ Names(testHeld') = Names(testHeld) \cup {a}
    BY <1>4, <2>1, NameAdded DEF BooksInv
  <2>3. /\ testPositions'[a].size > 0
        /\ \A b \in TestAsset : b # a => testPositions'[b] = testPositions[b]
    BY <1>2, <1>4, <1>6 DEF BooksInv
  <2> QED
    BY <2>2, <2>3 DEF BooksInv
<1>13. capital' \in Int /\ totalFees' \in Nat
  BY <1>3, <1>4 DEF BooksInv
<1> QED
  BY <1>4, <1>8, <1>10, <1>11, <1>12, <1>13 DEF BooksInv

LEMMA BacktestInit == T!BacktestConstants /\ T!Init => BacktestInv
<1> SUFFICES ASSUME T!BacktestConstants, T!Init PROVE BacktestInv
  OBVIOUS
<1>1. /\ engine \in Engine /\ testPc = "next" /\ candle = 0 /\ entries = 0
      /\ exits = <<>> /\ testHeld = <<>> /\ testModifier = 1000 /\ trades = <<>>
      /\ capital = Capital /\ totalFees = 0
      /\ prices = [a \in TestAsset |-> CHOOSE p \in TestPrice : TRUE]
      /\ testPositions = [a \in TestAsset |-> [size |-> 0, entry |-> 0]]
      /\ stoppedAt = [a \in TestAsset |-> -1]
  BY DEF T!Init, T!Flat
<1>2. prices \in [TestAsset -> TestPrice] /\ TestSlots \in Nat /\ Candles[engine] \in Nat
      /\ Capital \in Nat
  BY <1>1 DEF T!BacktestConstants
<1>3. testPositions \in [TestAsset -> TestPosition]
  BY <1>1 DEF TestPosition
<1>4. Names(<<>>) = {} /\ OnceEach(<<>>) /\ <<>> \in Seq(TestAsset) /\ <<>> \in Seq(Trade)
  BY DEF Names, OnceEach
<1>5. CostOf(testPositions) = 0
  <2> DEFINE f == [a \in TestAsset |-> testPositions[a].size * testPositions[a].entry]
             z == [a \in TestAsset |-> 0]
  <2>1. IsFiniteSet(TestAsset)
    BY DEF T!BacktestConstants, T!IsFiniteSet, IsFiniteSet
  <2>2. \A a \in TestAsset : f[a] = 0
    BY <1>1
  <2>3. CostOf(testPositions) = SumOver(f, TestAsset)
    BY DEF CostOf
  <2> HIDE DEF f
  <2> QED
    BY <2>1, <2>2, <2>3, SumOfNoughts
<1>6. MadeBy(trades) = 0 /\ FeesOf(trades) = 0
  <2>1. SalesIn(<<>>) = {}
    BY DEF SalesIn
  <2> QED
    BY <1>1, <2>1, SumOfNothing DEF MadeBy, FeesOf
<1> QED
  BY <1>1, <1>2, <1>3, <1>4, <1>5, <1>6 DEF BacktestInv, BooksInv

\* One action at a time.
LEMMA BacktestStep ==
  ASSUME T!BacktestConstants, BacktestInv, [T!Next]_(T!vars)
  PROVE  BacktestInv'
<1>1. /\ candle \in Nat /\ engine \in Engine /\ Candles[engine] \in Nat /\ candle <= Candles[engine]
      /\ prices \in [TestAsset -> TestPrice] /\ testModifier \in Nat
      /\ exits \in Seq(TestAsset) /\ OnceEach(exits) /\ Names(exits) \subseteq Names(testHeld)
      /\ testHeld \in Seq(TestAsset) /\ Len(testHeld) \in Nat /\ TestSlots \in Nat
      /\ testPc \in {"next", "exits", "entries", "done"}
      /\ entries \in 0 .. TestSlots
      /\ BooksInv
  BY DEF BacktestInv, BooksInv, T!BacktestConstants
<1>2. /\ Names(<<>>) = {} /\ OnceEach(<<>>) /\ <<>> \in Seq(TestAsset)
  BY DEF Names, OnceEach
<1>3. exits # <<>> => /\ Tail(exits) \in Seq(TestAsset) /\ OnceEach(Tail(exits))
                      /\ Head(exits) \in Names(exits)
                      /\ Names(Tail(exits)) = Names(exits) \ {Head(exits)}
  BY <1>1, NameTaken
<1>4. UNCHANGED <<candle, T!books>> => BooksInv'
  BY <1>1 DEF BooksInv, T!books
<1>5. CASE T!NextCandle
  <2>1. /\ testPc' = "exits" /\ candle' = candle + 1 /\ candle < Candles[engine]
        /\ prices' \in [TestAsset -> TestPrice] /\ exits' = testHeld
        /\ UNCHANGED <<engine, entries, testModifier>>
        /\ UNCHANGED <<capital, testHeld, testPositions, totalFees, trades, stoppedAt>>
    BY <1>5 DEF T!NextCandle, T!books
  <2>2. BooksInv'
    BY <1>1, <2>1 DEF BooksInv
  <2> QED
    BY <1>1, <2>1, <2>2 DEF BacktestInv, BooksInv
<1>6. CASE T!Keep
  <2>1. /\ testPc = "exits" /\ exits # <<>> /\ exits' = Tail(exits)
        /\ UNCHANGED <<engine, testPc, candle, prices, entries, testModifier, testHeld>>
        /\ UNCHANGED <<candle, T!books>>
    BY <1>6 DEF T!Keep, T!market, T!books
  <2>2. OnceEach(exits') /\ exits' \in Seq(TestAsset) /\ Names(exits') \subseteq Names(testHeld')
    BY <1>1, <1>3, <2>1
  <2> QED
    BY <1>1, <1>4, <2>1, <2>2 DEF BacktestInv
<1>7. CASE T!Exit
  <2> DEFINE a == Head(exits)
  <2>1. /\ testPc = "exits" /\ exits # <<>> /\ exits' = Tail(exits)
        /\ UNCHANGED <<engine, testPc, candle, prices, entries, testModifier>>
    BY <1>7 DEF T!Exit, T!market
  <2>2. a \in Names(testHeld) /\ testPositions[a].size \in Nat \ {0}
    BY <1>1, <1>3, <2>1 DEF BooksInv, TestPosition
  <2>3. PICK sold \in Nat, stop \in BOOLEAN :
          sold \in 1 .. testPositions[a].size /\ T!_close_position(a, sold, stop)
    <3>1. CASE \E stop \in BOOLEAN : T!_close_position(a, testPositions[a].size, stop)
      BY <2>2, <3>1
    <3>2. CASE /\ testPositions[a].size > 1
               /\ T!_close_position(a, testPositions[a].size \div 2, FALSE)
      <4>1. testPositions[a].size \div 2 \in 1 .. testPositions[a].size
        BY <2>2, <3>2
      <4>2. testPositions[a].size \div 2 \in Nat /\ FALSE \in BOOLEAN
        BY <2>2
      <4> QED
        BY <3>2, <4>1, <4>2, Zenon
    <3> QED
      BY <1>7, <3>1, <3>2 DEF T!Exit
  <2>4. BooksInv' /\ Names(testHeld) \ {a} \subseteq Names(testHeld')
    BY <1>1, <2>1, <2>2, <2>3, CloseKeepsBooks
  <2>5. OnceEach(exits') /\ exits' \in Seq(TestAsset) /\ Names(exits') \subseteq Names(testHeld')
    BY <1>1, <1>3, <2>1, <2>4
  <2> QED
    BY <1>1, <2>1, <2>4, <2>5 DEF BacktestInv
<1>8. CASE T!SkipEntries
  <2>1. /\ exits = <<>> /\ testPc' = "next"
        /\ UNCHANGED <<engine, candle, prices, exits, entries, testModifier, testHeld>>
        /\ UNCHANGED <<candle, T!books>>
    BY <1>8 DEF T!SkipEntries, T!market, T!books
  <2> QED
    BY <1>1, <1>4, <2>1 DEF BacktestInv
<1>9. CASE T!StartEntries
  <2>1. /\ exits = <<>> /\ testPc' = "entries"
        /\ Len(testHeld) < TestSlots /\ entries' = TestSlots - Len(testHeld)
        /\ testModifier' \in (IF engine = "derivatives" THEN TestModifier ELSE {1000})
        /\ UNCHANGED <<engine, candle, prices, exits, testHeld>>
        /\ UNCHANGED <<candle, T!books>>
    BY <1>9 DEF T!StartEntries, T!market, T!books
  <2>2. testModifier' \in Nat /\ entries' \in 0 .. TestSlots
    BY <1>1, <2>1 DEF T!BacktestConstants
  <2> QED
    BY <1>1, <1>4, <2>1, <2>2 DEF BacktestInv
<1>10. CASE T!EndEntries
  <2>1. /\ testPc = "entries" /\ testPc' = "next" /\ entries' = 0 /\ testModifier' = 1000
        /\ UNCHANGED <<engine, candle, prices, exits, testHeld>>
        /\ UNCHANGED <<candle, T!books>>
    BY <1>10 DEF T!EndEntries, T!market, T!books
  <2>2. exits = <<>>
    BY <2>1 DEF BacktestInv
  <2> QED
    BY <1>1, <1>4, <2>1, <2>2 DEF BacktestInv
<1>11. ASSUME NEW a \in TestAsset, T!Enter(a) PROVE BacktestInv'
  <2>1. /\ testPc = "entries" /\ entries' = entries - 1 /\ entries > 0
        /\ UNCHANGED <<engine, testPc, candle, prices, exits, testModifier>>
    BY <1>11 DEF T!Enter, T!market
  <2>2. exits = <<>>
    BY <2>1 DEF BacktestInv
  <2>3. BooksInv'
    BY <1>1, <1>11, EnterKeepsBooks
  <2> QED
    BY <1>1, <1>2, <2>1, <2>2, <2>3 DEF BacktestInv
<1>12. CASE T!CloseAtEnd
  <2> DEFINE a == Head(testHeld)
  <2>1. /\ testPc = "next" /\ testHeld # <<>>
        /\ T!_close_position(a, testPositions[a].size, FALSE)
        /\ UNCHANGED <<engine, testPc, candle, prices, exits, entries, testModifier>>
    BY <1>12 DEF T!CloseAtEnd, T!market
  <2>2. exits = <<>>
    BY <2>1 DEF BacktestInv
  <2>3. a \in Names(testHeld)
    BY <1>1, <2>1, NameTaken DEF BooksInv
  <2>4. testPositions[a].size \in 1 .. testPositions[a].size /\ FALSE \in BOOLEAN
    BY <1>1, <2>3 DEF BooksInv, TestPosition
  <2>5. BooksInv'
    BY <1>1, <2>1, <2>3, <2>4, CloseKeepsBooks
  <2> QED
    BY <1>1, <1>2, <2>1, <2>2, <2>5 DEF BacktestInv
<1>13. CASE T!Finish
  <2>1. /\ testPc = "next" /\ testPc' = "done"
        /\ UNCHANGED <<engine, candle, prices, exits, entries, testModifier, testHeld>>
        /\ UNCHANGED <<candle, T!books>>
    BY <1>13 DEF T!Finish, T!market, T!books
  <2>2. exits = <<>>
    BY <2>1 DEF BacktestInv
  <2> QED
    BY <1>1, <1>4, <2>1, <2>2 DEF BacktestInv
<1>14. CASE UNCHANGED T!vars
  <2>1. /\ UNCHANGED <<engine, testPc, candle, prices, exits, entries, testModifier, testHeld>>
        /\ UNCHANGED <<candle, T!books>>
    BY <1>14 DEF T!vars, T!market, T!books
  <2> QED
    BY <1>1, <1>4, <2>1 DEF BacktestInv
<1> QED
  BY <1>5, <1>6, <1>7, <1>8, <1>9, <1>10, <1>11, <1>12, <1>13, <1>14 DEF T!Next

LEMMA BacktestTypes ==
  T!BacktestConstants /\ BacktestInv => T!TypeOK /\ BooksBalance
<1> SUFFICES ASSUME T!BacktestConstants, BacktestInv PROVE T!TypeOK /\ BooksBalance
  OBVIOUS
<1>1. ASSUME NEW a \in TestAsset
      PROVE  (a \in T!ToSet(testHeld)) = (testPositions[a].size > 0)
  <2>1. DOMAIN testHeld = 1 .. Len(testHeld)
    BY DEF BacktestInv, BooksInv
  <2>2. T!ToSet(testHeld) = Names(testHeld)
    BY <2>1 DEF T!ToSet, Names
  <2> QED
    BY <2>2 DEF BacktestInv, BooksInv
<1>2. T!TypeOK
  BY <1>1 DEF T!TypeOK, BacktestInv, BooksInv, TestPosition
<1>3. BooksBalance
  BY BooksAreSums DEF BooksBalance, BacktestInv, BooksInv
<1> QED
  BY <1>2, <1>3

\* BooksBalance: what was there at first, plus what the sales made, minus the
\* fees of the purchases, is the cash and what the positions cost, whatever the
\* prices, the fees and the engine; and a position is on the list of what is
\* held exactly as long as there is one.
THEOREM BacktestsBalance ==
  ASSUME T!BacktestConstants
  PROVE  /\ T!Spec => [](T!TypeOK /\ T!BooksBalance)
         /\ SumSpec => [](T!TypeOK /\ BooksBalance)
<1>1. T!Init => BacktestInv
  BY BacktestInit
<1>2. BacktestInv /\ [T!Next]_(T!vars) => BacktestInv'
  BY BacktestStep
<1>3. BacktestInv => T!TypeOK /\ T!BooksBalance /\ BooksBalance
  BY BacktestTypes DEF BooksBalance
<1> QED
  BY <1>1, <1>2, <1>3, SumBegins, SumMovesTests, PTL DEF T!Spec, SumSpec

------------------------------------------------------------------------------
(* All parts together *)

LEMMA SumMovesCycle == [SumNext]_sumVars => [Next]_vars
BY DEF SumNext, Idle, sumVars, vars

\* TypesOK: whichever part is at work, its variables keep to their values, for
\* every value of the constants.
THEOREM DecisionsTypeCorrect ==
  ASSUME K!BreakerConstants, R!HysteresisConstants, P!PositionsConstants,
         B!SizingConstants, D!SignalsConstants, T!BacktestConstants
  PROVE  SumSpec => []TypesOK
<1> DEFINE AllOK == /\ TypeOK /\ K!TypeOK /\ R!TypeOK /\ P!TypeOK
                    /\ B!TypeOK /\ D!TypeOK /\ T!TypeOK
<1>1. SumInit => part \in Part
  BY DEF SumInit
<1>2. part \in Part /\ [SumNext]_sumVars => (part \in Part)'
  BY DEF SumNext, Idle, sumVars
<1>3. SumInit => Init
  BY DEF SumInit
<1>4. TypeInv => TypeOK
  BY DEF TypeInv, FileOK, StateRecord, CycleShape, Phase, TypeOK, StateFile
<1>5. SumSpec => [](part \in Part /\ TypeOK)
  BY <1>1, <1>2, <1>3, <1>4, TypeInit, TypeStep, SumMovesCycle, PTL DEF SumSpec
<1>6. SumSpec => []K!TypeOK /\ []R!TypeOK
  BY BreakerTypeCorrect, RegimeTypeCorrect
<1>7. SumSpec => [](P!TypeOK /\ HighCoversSeen) /\ [](B!TypeOK /\ WithinLimits)
  BY HighMarkCoversSeen, SizesWithinLimits
<1>8. SumSpec => [](D!TypeOK /\ NeverMisled) /\ [](T!TypeOK /\ BooksBalance)
  BY SignalsAreRecent, BacktestsBalance
<1>9. part \in Part /\ AllOK => TypesOK
  BY DEF TypesOK, Part
<1> QED
  BY <1>5, <1>6, <1>7, <1>8, <1>9, PTL
=============================================================================
