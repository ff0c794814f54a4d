--------------------------- MODULE DrawdownBreaker ---------------------------
(***************************************************************************)
(* RiskManager.check_circuit_breakers for one executor, as the cycles of    *)
(* run_executor_strategy call it: the peak portfolio value is kept in the   *)
(* state file, the time a drawdown pause began only in the process.         *)
(*                                                                          *)
(* OneShot is the timer deployment, in which every cycle is a process of    *)
(* its own; otherwise one process runs all cycles (--ws).                   *)
(***************************************************************************)
EXTENDS Integers

CONSTANTS
  Worth,        \* portfolio values
  MaxDrawdown,  \* max_drawdown_pct
  Cooldown,     \* drawdown_cooldown_hours
  OneShot       \* TRUE: a process per cycle

BreakerConstants ==
  /\ Worth \subseteq Nat
  /\ MaxDrawdown \in 1 .. 100
  /\ Cooldown \in Nat \ {0}
  /\ OneShot \in BOOLEAN

NoPause == -1

VARIABLES
  value,    \* what the portfolio is worth
  peak,     \* peak_portfolio_values in the state file
  paused,   \* hours since _drawdown_timestamps was set, or NoPause
  verdict,  \* outcome of the last cycle: "none", "skipped", "halted", "allowed"
  down      \* history: hours for which every cycle was halted

vars == <<value, peak, paused, verdict, down>>

Init ==
  /\ value \in Worth
  /\ peak = 0
  /\ paused = NoPause
  /\ verdict = "none"
  /\ down = NoPause

\* run_executor_strategy takes a value below a tenth of the peak for an API
\* failure and ends the cycle before the check.
LooksWrong(p, v) == p > 0 /\ v * 10 < p

Drawn(p, v) == p > 0 /\ (p - v) * 100 >= MaxDrawdown * p

\* Mutant: the pause ends an hour early.
OverEarly(hours) == hours >= Cooldown - 1

Over(hours) == hours >= Cooldown

\* What is left of the pause when the cycle ends.
Keep(hours) == paused' = IF OneShot THEN NoPause ELSE hours

Skip ==
  /\ LooksWrong(peak, value)
  /\ verdict' = "skipped"
  /\ Keep(paused)
  /\ UNCHANGED <<peak, down>>

\* Mutant: a new high leaves the pause running.
NewPeakPaused ==
  /\ peak = 0 \/ value > peak
  /\ peak' = value
  /\ Keep(paused)
  /\ verdict' = "allowed"
  /\ down' = NoPause

\* The first value ever, or a new high.
NewPeak ==
  /\ peak = 0 \/ value > peak
  /\ peak' = value
  /\ Keep(NoPause)
  /\ verdict' = "allowed"
  /\ down' = NoPause

WithinLimit ==
  /\ peak > 0 /\ value <= peak
  /\ ~Drawn(peak, value)
  /\ Keep(NoPause)
  /\ verdict' = "allowed"
  /\ down' = NoPause
  /\ UNCHANGED peak

Halt ==
  /\ verdict' = "halted"
  /\ down' = IF down = NoPause THEN 0 ELSE down
  /\ UNCHANGED peak

\* Mutant: the pause starts anew at every cycle that finds the drawdown.
StartPauseAgain ==
  /\ Drawn(peak, value)
  /\ Keep(0)
  /\ Halt

StartPause ==
  /\ Drawn(peak, value)
  /\ paused = NoPause
  /\ Keep(0)
  /\ Halt

StayPaused ==
  /\ Drawn(peak, value)
  /\ paused # NoPause
  /\ ~Over(paused)
  /\ Keep(paused)
  /\ Halt

\* The cooldown elapsed: the peak comes down to the value, and buying resumes.
EndPause ==
  /\ Drawn(peak, value)
  /\ paused # NoPause
  /\ Over(paused)
  /\ peak' = value
  /\ Keep(NoPause)
  /\ verdict' = "allowed"
  /\ down' = NoPause

check_circuit_breakers ==
  /\ ~LooksWrong(peak, value)
  /\ NewPeak \/ WithinLimit \/ StartPause \/ StayPaused \/ EndPause

Cycle == (Skip \/ check_circuit_breakers) /\ UNCHANGED value

Move ==
  /\ value' \in Worth
  /\ UNCHANGED <<peak, paused, verdict, down>>

\* An hour passes (counted no further than the bound Cooldown + 1).
Older(hours) ==
  IF hours = NoPause \/ hours > Cooldown THEN hours ELSE hours + 1

Hour ==
  /\ paused' = Older(paused)
  /\ down' = Older(down)
  /\ UNCHANGED <<value, peak, verdict>>

\* The process dies and another one takes over.
Restart ==
  /\ paused' = NoPause
  /\ UNCHANGED <<value, peak, verdict, down>>

Next == Cycle \/ Move \/ Hour \/ Restart

Spec == Init /\ [][Next]_vars

\* Cycles keep coming and time passes.
FairSpec == Spec /\ WF_vars(Cycle) /\ WF_vars(Hour)

------------------------------------------------------------------------------
\* The values each variable takes.
TypeOK ==
  /\ value \in Worth
  /\ peak \in Worth \cup {0}
  /\ paused \in NoPause .. Cooldown + 1
  /\ verdict \in {"none", "skipped", "halted", "allowed"}
  /\ down \in NoPause .. Cooldown + 1

\* A halt lasts: whatever restarts, checks and prices intervene, buying is only
\* allowed again when the drawdown is over or the cooldown really elapsed.
HaltLasts ==
  [][verdict = "halted" /\ verdict' = "allowed" =>
       ~Drawn(peak, value) \/ down >= Cooldown]_vars

\* The pause the process measures is never longer than the halt has been.
PauseIsHonest == paused <= down

\* strategy-guide.md: "After a 48-hour cooldown with recovery, normal trading
\* resumes."  The breaker lets go: a process that is left running either sees the value
\* recover or resets the peak, so a halt never lasts for ever.
HaltEnds ==
  <>[][~Restart]_vars => (verdict = "halted" ~> verdict # "halted")
==============================================================================
