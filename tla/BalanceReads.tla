---------------------------- MODULE BalanceReads ----------------------------
(***************************************************************************)
(* How EthereumExecutor reads the account: a cycle builds an executor on     *)
(* the first of its read endpoints, looks for stranded tokens with           *)
(* _call_with_failover, and then asks for the balance of every token it      *)
(* trades, each with retry_rpc_call.  What it got decides which entries of   *)
(* the state file are kept.                                                  *)
(*                                                                          *)
(* An endpoint answers, limits the rate ("limited": HTTP 429), lets requests *)
(* time out ("slow") or refuses the connection ("down"), and may change at   *)
(* any time.  Decimals are known for every token of the registry, so they    *)
(* are never asked for.  The account is only traded between reads.           *)
(***************************************************************************)
EXTENDS Naturals

CONSTANTS
  Endpoints,   \* how many there are in _rpc_endpoints
  Token,       \* TOKENS
  Scanned,     \* BALANCE_SCAN_TOKENS
  Legacy,      \* LEGACY_TOKENS
  MaxRetries,  \* max_retries of retry_rpc_call
  MaxChanges   \* bound: changes of the endpoints and of the account

Condition == {"up", "limited", "slow", "down"}

BalanceConstants ==
  /\ Endpoints \in Nat \ {0}
  /\ Scanned \subseteq Token
  /\ MaxRetries \in Nat \ {0}
  /\ MaxChanges \in Nat

Endpoint == 0 .. Endpoints - 1

VARIABLES
  condition,  \* of each endpoint
  changes,    \* changes so far
  wallet,     \* tokens the account holds
  entries,    \* tokens with an entry in the state file
  pc,         \* "idle", "stranded" or "balances"
  index,      \* _current_rpc_index
  tried,      \* endpoints the present call with failover has tried
  attempt,    \* attempt of the present retry_rpc_call
  todo,       \* tokens still to be read
  asked,      \* tokens asked for
  balances,   \* tokens found
  steady,     \* history: endpoints that were up all through the phase
  limited     \* history: a request of the phase was limited

environment == <<condition, wallet, entries, changes>>
vars == <<environment, pc, index, tried, attempt, todo, asked, balances,
          steady, limited>>

Up == {e \in Endpoint : condition[e] = "up"}

Init ==
  /\ condition \in [Endpoint -> {"up", "down"}]
  /\ changes = 0
  /\ wallet = {}
  /\ entries = {}
  /\ pc = "idle"
  /\ index = 0
  /\ tried = 0
  /\ attempt = 0
  /\ todo = {}
  /\ asked = {}
  /\ balances = {}
  /\ steady = {}
  /\ limited = FALSE

------------------------------------------------------------------------------
(* The endpoints and the account *)

Change ==
  /\ changes < MaxChanges
  /\ changes' = changes + 1

Fluctuate ==
  /\ Change
  /\ \E e \in Endpoint, c \in Condition :
       /\ condition' = [condition EXCEPT ![e] = c]
       /\ steady' = IF c = "up" THEN steady ELSE steady \ {e}
  /\ UNCHANGED <<wallet, entries, pc, index, tried, attempt, todo, asked,
                 balances, limited>>

\* A buy or a sell of the bot, or tokens moved by hand, between two reads.
Trade ==
  /\ pc = "idle"
  /\ Change
  /\ \E t \in Token :
       \/ wallet' = wallet \cup {t} /\ entries' = entries \cup {t}
       \/ wallet' = wallet \ {t} /\ entries' = entries \ {t}
       \/ wallet' = wallet \ {t} /\ UNCHANGED entries
  /\ UNCHANGED <<condition, pc, index, tried, attempt, todo, asked, balances,
                 steady, limited>>

------------------------------------------------------------------------------
(* warn_about_stranded_tokens *)

\* A new executor starts on its primary endpoint.
NewExecutor ==
  /\ pc = "idle"
  /\ pc' = "stranded"
  /\ index' = 0
  /\ tried' = 0
  /\ todo' = Legacy
  /\ balances' = {}
  /\ steady' = Up
  /\ limited' = FALSE
  /\ UNCHANGED <<environment, attempt, asked>>

\* The answer to a request is the condition of the endpoint it is made to.
Answer == condition[index]

\* Timeouts and refused connections rotate the endpoint, any other error is
\* raised; so is the last one, once every endpoint was tried.
FailsOver == Answer \in {"slow", "down"}

\* Mutant: one more endpoint is tried than there are.
OneTooManyTried == tried = Endpoints

LastTried == tried + 1 = Endpoints

_rotate_rpc == index' = (index + 1) % Endpoints

CheckStranded(t) ==
  /\ pc = "stranded"
  /\ t \in todo
  /\ \/ /\ Answer = "up"
        /\ balances' = balances \cup {t}
        /\ todo' = todo \ {t}
        /\ tried' = 0
        /\ UNCHANGED <<index, limited>>
     \/ /\ Answer = "limited"
        /\ limited' = TRUE
        /\ todo' = todo \ {t}
        /\ tried' = 0
        /\ UNCHANGED <<index, balances>>
     \/ /\ FailsOver
        /\ _rotate_rpc
        /\ IF LastTried THEN todo' = todo \ {t} /\ tried' = 0
                        ELSE tried' = tried + 1 /\ UNCHANGED todo
        /\ UNCHANGED <<balances, limited>>
  /\ UNCHANGED <<environment, pc, attempt, asked, steady>>

------------------------------------------------------------------------------
(* get_balances *)

\* Mutant: a cycle does not ask for the tokens it holds entries for.
NoExtras == Scanned

\* BALANCE_SCAN_TOKENS and the extra tokens of the caller
TokensToScan == Scanned \cup entries

StartBalances ==
  /\ pc = "stranded"
  /\ todo = {}
  /\ pc' = "balances"
  /\ asked' = TokensToScan
  /\ todo' = asked'
  /\ attempt' = 0
  /\ balances' = {}
  /\ steady' = Up
  /\ limited' = FALSE
  /\ UNCHANGED <<environment, index, tried>>

\* Rate limits and timeouts are retried, until the attempts are used up.
Retries == Answer \in {"limited", "slow"} /\ attempt + 1 < MaxRetries

\* _check_balance: a token whose balance cannot be read is left out.  Whoever
\* is being retried is the next one.
_check_balance ==
  /\ pc = "balances"
  /\ todo # {}
  /\ LET t == CHOOSE u \in todo : TRUE
         Leave == todo' = todo \ {t} /\ attempt' = 0
     IN  \/ /\ Answer = "up"
            /\ balances' = balances \cup ({t} \cap wallet)
            /\ Leave
         \/ /\ Retries
            /\ attempt' = attempt + 1
            /\ UNCHANGED <<todo, balances>>
         \/ /\ Answer # "up" /\ ~Retries
            /\ Leave
            /\ UNCHANGED balances
  /\ limited' = (limited \/ Answer = "limited")
  /\ UNCHANGED <<environment, pc, index, tried, asked, steady>>

\* _call_with_failover has nothing to catch: _do_get_balances never raises.
\* The entries of tokens that were not found are cleared; what was found may be
\* adopted.
Reconcile ==
  /\ pc = "balances"
  /\ todo = {}
  /\ pc' = "idle"
  /\ \E adopted \in SUBSET balances :
       entries' = (entries \cap balances) \cup adopted
  /\ UNCHANGED <<condition, changes, wallet, index, tried, attempt, todo,
                 asked, balances, steady, limited>>

Next ==
  \/ Fluctuate
  \/ Trade
  \/ NewExecutor
  \/ \E t \in Legacy : CheckStranded(t)
  \/ StartBalances
  \/ _check_balance
  \/ Reconcile

Spec == Init /\ [][Next]_vars

------------------------------------------------------------------------------
\* The values each variable takes.
TypeOK ==
  /\ condition \in [Endpoint -> Condition]
  /\ changes \in 0 .. MaxChanges
  /\ wallet \subseteq Token
  /\ entries \subseteq Token
  /\ pc \in {"idle", "stranded", "balances"}
  /\ index \in Endpoint
  /\ tried \in Endpoint
  /\ attempt \in 0 .. MaxRetries - 1
  /\ todo \subseteq Token \cup Legacy
  /\ asked \subseteq Token
  /\ balances \subseteq Token \cup Legacy
  /\ steady \subseteq Up
  /\ limited \in BOOLEAN

EndsRead == pc = "balances" /\ pc' = "idle"

\* A read over an endpoint that keeps answering clears no entry of a token the
\* account holds, whichever tokens those are and however the others fare.
HeldIsKept ==
  [][EndsRead /\ index \in steady => entries \cap wallet \subseteq entries']_vars

\* ethereum_executor.py: get_balances "Uses RPC failover for connection
\* errors."  As long as one endpoint keeps answering and none limits the rate,
\* a read clears no entry of a token the account holds.
OutageIsCovered ==
  [][EndsRead /\ steady # {} /\ ~limited => entries \cap wallet \subseteq entries']_vars
==============================================================================
