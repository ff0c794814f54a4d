---------------------------- MODULE RegimeAlerts ----------------------------
(***************************************************************************)
(* How a change of the market regime reaches Telegram: the bot writes the    *)
(* regime to its log, report_bot copies the last one it finds there to a     *)
(* report, and notify_telegram compares the report with the regime it last   *)
(* saved.  Bot and report run from timers of their own.                      *)
(*                                                                          *)
(* Two signals are enabled (ENABLE_DUAL_REGIME).  The log is abstracted to   *)
(* the regime of the last "Market Regime:" line in the part of it that is    *)
(* read.  Fetching balances and prices for the rest of the report, the       *)
(* counters and the wording of a message are left out.                       *)
(***************************************************************************)
EXTENDS Naturals

CONSTANTS
  Regime,       \* the regimes readings take
  ConfirmCount  \* REGIME_CONFIRM_COUNT

Unknown == "Unknown"
Missing == "missing"  \* no file, or (state file) one that cannot be parsed

AlertConstants ==
  ConfirmCount \in Nat \ {0} /\ Unknown \notin Regime /\ Missing \notin Regime

VARIABLES
  bot,        \* the bot: "idle" or "cycle"
  reading,    \* full_regime of the cycle, before the hysteresis
  confirmed,  \* confirmed_regime in the state file
  streak,     \* regime_streak in the state file
  line,       \* the last regime in the 100 lines of log that are read
  job,        \* the report service: "idle", "report", "notify", "send"
  status,     \* the status generate_report found
  report,     \* the status in report.txt
  saved,      \* last_status in market_state.json
  message,    \* the change being announced: <<previous, current>>
  told,       \* history: the regime of the last message that arrived
  missed      \* history: a message was lost since, or the state file was

botVars == <<bot, reading, confirmed, streak, line>>
jobVars == <<job, status, report, saved, message, told, missed>>
vars == <<botVars, jobVars>>

Init ==
  /\ bot = "idle"
  /\ reading = Unknown
  /\ confirmed = Unknown
  /\ streak = 0
  /\ line = Unknown
  /\ job = "idle"
  /\ status = Unknown
  /\ report = Missing
  /\ saved = Missing
  /\ message = <<Unknown, Unknown>>
  /\ told = Unknown
  /\ missed = FALSE

------------------------------------------------------------------------------
(* The bot *)

\* The reading is logged as the market regime before anything confirms it.
Banner(r) == r

Detect(r) ==
  /\ bot = "idle"
  /\ bot' = "cycle"
  /\ reading' = r
  /\ line' = Banner(r)
  /\ UNCHANGED <<confirmed, streak, jobVars>>

\* apply_regime_hysteresis, as RegimeHysteresis has it for scans that do not
\* overlap, and the summary at the end of the cycle.
Summary ==
  /\ bot = "cycle"
  /\ bot' = "idle"
  /\ IF confirmed \in {Unknown, reading} \/ streak + 1 >= ConfirmCount
       THEN confirmed' = reading /\ streak' = 0
       ELSE streak' = streak + 1 /\ UNCHANGED confirmed
  /\ line' = confirmed'
  /\ UNCHANGED <<reading, jobVars>>

\* The cycle dies before its summary.
BotFails ==
  /\ bot = "cycle"
  /\ bot' = "idle"
  /\ UNCHANGED <<reading, confirmed, streak, line, jobVars>>

\* A hundred lines of something else.
Babble ==
  /\ line' = Unknown
  /\ UNCHANGED <<bot, reading, confirmed, streak, jobVars>>

------------------------------------------------------------------------------
(* trading-report, then trading-notify *)

ReadLog ==
  /\ job = "idle"
  /\ job' = "report"
  /\ status' = line
  /\ UNCHANGED <<report, saved, message, told, missed, botVars>>

WriteReport ==
  /\ job = "report"
  /\ job' = "notify"
  /\ report' = status
  /\ UNCHANGED <<status, saved, message, told, missed, botVars>>

\* load_market_state: defaults for a file that is missing or cannot be read
LastStatus == IF saved = Missing THEN Unknown ELSE saved

NoChange ==
  /\ job = "notify"
  /\ report = LastStatus
  /\ job' = "idle"
  /\ saved' = LastStatus
  /\ UNCHANGED <<status, report, message, told, missed, botVars>>

\* Mutant: the regime is not remembered.
KeepStatus == LastStatus

\* state["last_status"] = current_regime
NewStatus == report

\* The change is saved before it is sent.
SaveChange ==
  /\ job = "notify"
  /\ report # LastStatus
  /\ job' = "send"
  /\ message' = <<LastStatus, report>>
  /\ saved' = NewStatus
  /\ UNCHANGED <<status, report, told, missed, botVars>>

Arrives ==
  /\ job = "send"
  /\ job' = "idle"
  /\ told' = message[2]
  /\ missed' = FALSE
  /\ UNCHANGED <<status, report, saved, message, botVars>>

\* send_telegram_message returns False, and nobody sends it again.
Lost ==
  /\ job = "send"
  /\ job' = "idle"
  /\ missed' = TRUE
  /\ UNCHANGED <<status, report, saved, message, told, botVars>>

\* A process dies, or the balances cannot be read: the service stops there.
JobFails ==
  /\ job # "idle"
  /\ job' = "idle"
  /\ missed' = (missed \/ job = "send")
  /\ UNCHANGED <<status, report, saved, message, told, botVars>>

\* It dies while save_market_state has the file open for writing.
SaveIsCut ==
  /\ job = "notify"
  /\ report # LastStatus
  /\ job' = "idle"
  /\ saved' = Missing
  /\ missed' = TRUE
  /\ UNCHANGED <<status, report, message, told, botVars>>

Next ==
  \/ \E r \in Regime : Detect(r)
  \/ Summary \/ BotFails \/ Babble
  \/ ReadLog \/ WriteReport
  \/ NoChange \/ SaveChange \/ Arrives \/ Lost
  \/ JobFails \/ SaveIsCut

Spec == Init /\ [][Next]_vars

------------------------------------------------------------------------------
\* The values each variable takes.
TypeOK ==
  LET Status == Regime \cup {Unknown}
  IN  /\ bot \in {"idle", "cycle"}
      /\ {reading, confirmed, line, status, told} \subseteq Status
      /\ streak \in 0 .. ConfirmCount - 1
      /\ job \in {"idle", "report", "notify", "send"}
      /\ {report, saved} \subseteq Status \cup {Missing}
      /\ message \in Status \X Status
      /\ missed \in BOOLEAN

MessageArrives == job = "send" /\ job' = "idle" /\ ~missed'

\* The messages tell one story: each begins where the one before it ended,
\* wherever the services stop and however often they run, unless a message was
\* lost or the state file was.
ChangesConnect == [][MessageArrives /\ ~missed => message[1] = told]_vars
==============================================================================
