---------------------------- MODULE ServiceProofs ----------------------------
(***************************************************************************)
(* The bot's dealings with services that fail: what a read of the balances  *)
(* can do to the entries of the state file, how far apart requests to the   *)
(* 0x API are, and what the messages about the regime say, for every value  *)
(* of their constants.  What is proved of each of them by itself is carried *)
(* over to Requests, where it is one part of a sum; so is the promise of    *)
(* the swaps, and in the end the types of all parts.                        *)
(***************************************************************************)
EXTENDS OrderProofs, OnchainSwapRefinement

------------------------------------------------------------------------------
(* The sum *)

\* Whichever part is at work, every one begins as it would by itself, and a step
\* of the sum is a step of each or leaves it alone.
LEMMA ServicesBegin == SumInit => H!Init /\ Z!Init /\ A!Init
BY DEF SumInit

LEMMA SumMovesReads == [SumNext]_sumVars => [H!Next]_(H!vars)
BY DEF SumNext, Idle, sumVars, readVars, H!vars, H!environment

LEMMA SumMovesClient == [SumNext]_sumVars => [Z!Next]_(Z!vars)
BY DEF SumNext, Idle, sumVars, getVars, Z!vars

LEMMA SumMovesAlerts == [SumNext]_sumVars => [A!Next]_(A!vars)
BY DEF SumNext, Idle, sumVars, alertVars, A!vars, A!botVars, A!jobVars

------------------------------------------------------------------------------
(* The balances *)

\* While balances are read, every entry's token is among those asked for, and
\* what was asked of an endpoint that has kept answering was found if it is
\* held.
ReadSoFar ==
  /\ entries \subseteq asked
  /\ index \in steady => wallet \cap (asked \ todo) \subseteq balances

\* Endpoints that have been up all along are up; a read has got so far.
ReadInv ==
  /\ steady \subseteq H!Up
  /\ readPc = "balances" => ReadSoFar

\* No request is made yet and no endpoint is known to be up.
LEMMA ReadInit == H!Init => ReadInv
  BY DEF H!Init, ReadInv

\* An endpoint that leaves "up" is no longer steady, and nothing that is read
\* depends on the others.
LEMMA FluctuateKeeps == ReadInv /\ H!Fluctuate => ReadInv'
<1> SUFFICES ASSUME ReadInv, H!Fluctuate PROVE ReadInv'
  OBVIOUS
<1>1. PICK e \in H!Endpoint, c \in H!Condition :
        /\ condition' = [condition EXCEPT ![e] = c]
        /\ steady' = IF c = "up" THEN steady ELSE steady \ {e}
  BY DEF H!Fluctuate
<1>2. steady' \subseteq H!Up'
  <2> SUFFICES ASSUME NEW f \in steady' PROVE f \in H!Up'
    OBVIOUS
  <2>1. f \in steady /\ f \in H!Endpoint /\ condition[f] = "up"
    BY <1>1 DEF ReadInv, H!Up
  <2>2. CASE f = e
    <3>1. c = "up"
      BY <1>1, <2>2
    <3> QED
      BY <1>1, <2>1, <3>1 DEF H!Up
  <2>3. CASE f # e
    BY <1>1, <2>1, <2>3 DEF H!Up
  <2> QED
    BY <2>2, <2>3
<1>3. steady' \subseteq steady
  BY <1>1
<1>4. UNCHANGED <<wallet, entries, readPc, index, todo, asked, balances>>
  BY DEF H!Fluctuate
<1> QED
  BY <1>2, <1>3, <1>4 DEF ReadInv, ReadSoFar

\* A held token that an endpoint answers for is found, and one that fails to
\* answer was not steady.
LEMMA CheckKeepsReads == ReadInv /\ H!_check_balance => ReadInv'
<1> SUFFICES ASSUME ReadInv, H!_check_balance PROVE ReadInv'
  OBVIOUS
<1> DEFINE t == CHOOSE u \in todo : TRUE
<1>1. UNCHANGED <<condition, wallet, entries, readPc, index, asked, steady>> /\ readPc = "balances"
  BY DEF H!_check_balance, H!environment
<1>2. steady' \subseteq H!Up'
  BY <1>1 DEF ReadInv, H!Up
<1>3. (index \in steady => wallet \cap (asked \ todo) \subseteq balances)'
  <2> SUFFICES ASSUME index \in steady PROVE wallet \cap (asked \ todo') \subseteq balances'
    BY <1>1
  <2>1. H!Answer = "up"
    BY DEF ReadInv, H!Up, H!Answer
  <2>2. balances' = balances \cup ({t} \cap wallet) /\ todo' = todo \ {t}
    BY <2>1 DEF H!_check_balance, H!Retries
  <2>3. wallet \cap (asked \ todo) \subseteq balances
    BY <1>1 DEF ReadInv, ReadSoFar
  <2> QED
    BY <2>2, <2>3
<1> QED
  BY <1>1, <1>2, <1>3 DEF ReadInv, ReadSoFar

\* Every step keeps ReadInv.
LEMMA ReadStep == ReadInv /\ [H!Next]_(H!vars) => ReadInv'
<1> SUFFICES ASSUME ReadInv, [H!Next]_(H!vars) PROVE ReadInv'
  OBVIOUS
<1>1. CASE H!Fluctuate
  BY <1>1, FluctuateKeeps
<1>2. CASE H!Trade
  BY <1>2 DEF ReadInv, H!Trade, H!Up
<1>3. CASE H!NewExecutor
  BY <1>3 DEF ReadInv, H!NewExecutor, H!Up, H!environment
<1>4. CASE \E t \in Legacy : H!CheckStranded(t)
  BY <1>4 DEF ReadInv, H!CheckStranded, H!Up, H!environment
<1>5. CASE H!StartBalances
  <2>1. UNCHANGED <<wallet, entries, condition>> /\ asked' = H!TokensToScan /\ todo' = asked' /\ steady' = H!Up
    BY <1>5 DEF H!StartBalances, H!environment
  <2> QED
    BY <2>1 DEF ReadInv, ReadSoFar, H!TokensToScan, H!Up
<1>6. CASE H!_check_balance
  BY <1>6, CheckKeepsReads
<1>7. CASE H!Reconcile
  BY <1>7 DEF ReadInv, H!Reconcile, H!Up
<1>8. CASE UNCHANGED H!vars
  BY <1>8 DEF ReadInv, ReadSoFar, H!Up, H!vars, H!environment
<1> QED
  BY <1>1, <1>2, <1>3, <1>4, <1>5, <1>6, <1>7, <1>8 DEF H!Next

\* A read that ends has nothing left to ask for.
LEMMA ReadEnds == ReadInv /\ [H!Next]_(H!vars) =>
                    (H!EndsRead /\ index \in steady => entries \cap wallet \subseteq entries')
<1> SUFFICES ASSUME ReadInv, [H!Next]_(H!vars), H!EndsRead, index \in steady
             PROVE entries \cap wallet \subseteq entries'
  OBVIOUS
<1>1. H!Reconcile
  BY DEF H!Next, H!EndsRead, H!vars, H!environment, H!Fluctuate, H!Trade, H!NewExecutor,
         H!CheckStranded, H!StartBalances, H!_check_balance
<1>2. todo = {} /\ \E adopted : entries' = (entries \cap balances) \cup adopted
  BY <1>1 DEF H!Reconcile
<1>3. entries \subseteq asked /\ wallet \cap (asked \ todo) \subseteq balances
  BY DEF ReadInv, ReadSoFar, H!EndsRead
<1> QED
  BY <1>2, <1>3

\* For any endpoints, tokens and number of retries: a read over an endpoint that
\* keeps answering clears no entry of a token the account holds.
THEOREM HealthyReadsKeepEntries ==
  (H!Spec => HeldIsKept) /\ (SumSpec => HeldIsKept)
<1>1. H!Init => ReadInv
  BY ReadInit
<1>2. ReadInv /\ [H!Next]_(H!vars) => ReadInv'
  BY ReadStep
<1>3. ReadInv /\ [H!Next]_(H!vars) =>
        [H!EndsRead /\ index \in steady => entries \cap wallet \subseteq entries']_(H!vars)
  BY ReadEnds
<1> QED
  BY <1>1, <1>2, <1>3, ServicesBegin, SumMovesReads, PTL DEF H!Spec, SumSpec,
  HeldIsKept, H!HeldIsKept

\* What get_balances finds are tokens the bot trades.
ReadTypeInv == H!TypeOK /\ (readPc = "balances" => balances \subseteq Token)

LEMMA ReadTypeInit == H!BalanceConstants /\ H!Init => ReadTypeInv
<1> SUFFICES ASSUME H!BalanceConstants, H!Init PROVE ReadTypeInv
  OBVIOUS
<1>1. condition \in [H!Endpoint -> H!Condition]
  BY DEF H!Init, H!Condition
<1>2. index \in H!Endpoint /\ tried \in H!Endpoint /\ readAttempt \in 0 .. MaxRetries - 1
  BY DEF H!BalanceConstants, H!Init, H!Endpoint
<1>3. changes \in 0 .. MaxChanges
  BY DEF H!BalanceConstants, H!Init
<1> QED
  BY <1>1, <1>2, <1>3 DEF H!Init, ReadTypeInv, H!TypeOK

LEMMA ReadTypeStep == H!BalanceConstants /\ ReadTypeInv /\ [H!Next]_(H!vars) => ReadTypeInv'
<1> SUFFICES ASSUME H!BalanceConstants, ReadTypeInv, [H!Next]_(H!vars) PROVE ReadTypeInv'
  OBVIOUS
<1> H!TypeOK /\ (readPc = "balances" => balances \subseteq Token)
  BY DEF ReadTypeInv
<1>1. /\ Endpoints \in Nat \ {0} /\ MaxRetries \in Nat \ {0} /\ MaxChanges \in Nat
      /\ Scanned \subseteq Token /\ 0 \in H!Endpoint /\ H!Up \subseteq H!Endpoint
  BY DEF H!BalanceConstants, H!Endpoint, H!Up
<1>2. CASE H!Fluctuate
  <2>1. PICK e \in H!Endpoint, c \in H!Condition :
          /\ condition' = [condition EXCEPT ![e] = c]
          /\ steady' = IF c = "up" THEN steady ELSE steady \ {e}
    BY <1>2 DEF H!Fluctuate
  <2>2. condition' \in [H!Endpoint -> H!Condition] /\ condition'[e] = c
    BY <2>1 DEF H!TypeOK
  <2>3. \A f \in H!Endpoint : f # e => condition'[f] = condition[f]
    BY <2>1 DEF H!TypeOK
  <2>4. steady' \subseteq H!Up'
    BY <2>1, <2>2, <2>3 DEF H!TypeOK, H!Up
  <2> QED
    BY <1>1, <1>2, <2>2, <2>4 DEF ReadTypeInv, H!TypeOK, H!Fluctuate, H!Change
<1>3. CASE H!Trade
  BY <1>1, <1>3 DEF ReadTypeInv, H!TypeOK, H!Trade, H!Change, H!Up
<1>4. CASE H!NewExecutor
  BY <1>1, <1>4 DEF ReadTypeInv, H!TypeOK, H!NewExecutor, H!environment, H!Up
<1>5. ASSUME NEW t \in Legacy, H!CheckStranded(t) PROVE ReadTypeInv'
  <2>1. index' \in H!Endpoint
    <3>1. (index + 1) % Endpoints \in H!Endpoint
      BY <1>1 DEF H!TypeOK, H!Endpoint
    <3> QED
      BY <1>5, <3>1 DEF H!CheckStranded, H!_rotate_rpc, H!TypeOK
  <2>2. tried' \in H!Endpoint
    BY <1>1, <1>5 DEF H!CheckStranded, H!LastTried, H!TypeOK, H!Endpoint
  <2>3. /\ todo' \subseteq Token \cup Legacy /\ balances' \subseteq Token \cup Legacy
        /\ limited' \in BOOLEAN
    BY <1>5 DEF H!CheckStranded, H!TypeOK
  <2> QED
    BY <1>5, <2>1, <2>2, <2>3 DEF ReadTypeInv, H!TypeOK, H!CheckStranded, H!environment, H!Up
<1>6. CASE H!StartBalances
  <2>1. asked' \subseteq Token /\ todo' = asked'
    BY <1>1, <1>6 DEF H!TypeOK, H!StartBalances, H!TokensToScan
  <2>2. readAttempt' \in 0 .. MaxRetries - 1
    BY <1>1, <1>6 DEF H!StartBalances
  <2>3. UNCHANGED <<condition, changes, wallet, entries, index, tried>>
    BY <1>6 DEF H!StartBalances, H!environment
  <2>4. readPc' = "balances" /\ balances' = {} /\ steady' = H!Up' /\ limited' \in BOOLEAN
    BY <1>6, <2>3 DEF H!StartBalances, H!Up
  <2> QED
    BY <2>1, <2>2, <2>3, <2>4 DEF H!TypeOK, ReadTypeInv
<1>7. CASE H!_check_balance
  <2>1. /\ todo' \subseteq todo /\ balances' \subseteq balances \cup wallet
        /\ readAttempt' \in 0 .. MaxRetries - 1
    BY <1>1, <1>7 DEF H!_check_balance, H!Retries, H!TypeOK
  <2>2. limited' \in BOOLEAN
    BY <1>7 DEF H!_check_balance
  <2> QED
    BY <1>7, <2>1, <2>2 DEF ReadTypeInv, H!TypeOK, H!_check_balance, H!environment, H!Up
<1>8. CASE H!Reconcile
  <2>1. entries' \subseteq balances
    BY <1>8 DEF H!Reconcile
  <2>2. balances \subseteq Token
    BY <1>8 DEF H!Reconcile, H!TypeOK
  <2> QED
    BY <1>8, <2>1, <2>2 DEF ReadTypeInv, H!TypeOK, H!Reconcile, H!Up
<1>9. CASE UNCHANGED H!vars
  BY <1>9 DEF ReadTypeInv, H!TypeOK, H!vars, H!environment, H!Up
<1> QED
  BY <1>2, <1>3, <1>4, <1>5, <1>6, <1>7, <1>8, <1>9 DEF H!Next
\* For any number of endpoints, tokens and retries the state of the reads is
\* well typed: no call with failover tries more endpoints than there are.
THEOREM ReadsTypeCorrect == ASSUME H!BalanceConstants PROVE H!Spec => []H!TypeOK
<1>1. ReadTypeInv => H!TypeOK
  BY DEF ReadTypeInv
<1> QED
  BY <1>1, ReadTypeInit, ReadTypeStep, PTL DEF H!Spec

------------------------------------------------------------------------------
(* Requests to the 0x API *)

LEMMA LargerDelay ==
  ASSUME NEW x \in Int, NEW y \in Int
  PROVE  Z!Max({x, y}) = IF x >= y THEN x ELSE y
<1> DEFINE m == IF x >= y THEN x ELSE y
<1>1. m \in {x, y} /\ \A w \in {x, y} : m >= w
  OBVIOUS
<1>2. \A z \in {x, y} : (\A w \in {x, y} : z >= w) => z = m
  OBVIOUS
<1> HIDE DEF m
<1>3. Z!Max({x, y}) = m
  BY <1>1, <1>2 DEF Z!Max
<1> QED
  BY <1>3 DEF m

LEMMA SmallerDelay ==
  ASSUME NEW x \in Int, NEW y \in Int
  PROVE  Z!Min({x, y}) = IF x <= y THEN x ELSE y
<1> DEFINE m == IF x <= y THEN x ELSE y
<1>1. m \in {x, y} /\ \A w \in {x, y} : m <= w
  OBVIOUS
<1>2. \A z \in {x, y} : (\A w \in {x, y} : z <= w) => z = m
  OBVIOUS
<1> HIDE DEF m
<1>3. Z!Min({x, y}) = m
  BY <1>1, <1>2 DEF Z!Min
<1> QED
  BY <1>3 DEF m

\* Who sleeps in the throttle holds its lock, alone.
ThrottleInv ==
  /\ getPc \in [Client -> {"idle", "sleep", "lock", "throttle", "send"}]
  /\ wait \in [Client -> Nat]
  /\ since \in 0 .. Interval /\ gap = since
  /\ locked \in BOOLEAN
  /\ \A c \in Client : getPc[c] = "throttle" => locked /\ wait[c] + since >= Interval
  /\ \A c, d \in Client : getPc[c] = "throttle" /\ getPc[d] = "throttle" => c = d

\* A delay is kept for one sleep, and the sleep is as long as was asked for.
RetryInv ==
  /\ getAttempt \in [Client -> 0 .. GetAttempts - 1]
  /\ retryDelay \in [Client -> Int]
  /\ due \in [Client -> Nat]
  /\ \A c \in Client : IF getPc[c] = "sleep" THEN due[c] <= wait[c]
                       ELSE due[c] = 0 /\ retryDelay[c] = Z!NoDelay

ClientInv == ThrottleInv /\ RetryInv

LEMMA ClientInit == Z!ClientConstants /\ Z!Init => ClientInv
<1> SUFFICES ASSUME Z!ClientConstants, Z!Init PROVE ClientInv
  OBVIOUS
<1>1. locked \in BOOLEAN
  BY DEF Z!Init
<1>2. since \in 0 .. Interval /\ gap = since /\ 0 \in 0 .. GetAttempts - 1
  BY DEF Z!Init, Z!ClientConstants
<1>3. /\ getPc = [c \in Client |-> "idle"] /\ getAttempt = [c \in Client |-> 0]
      /\ retryDelay = [c \in Client |-> Z!NoDelay] /\ wait = [c \in Client |-> 0]
      /\ due = [c \in Client |-> 0] /\ Z!NoDelay \in Int
  BY DEF Z!Init, Z!NoDelay
<1>4. ThrottleInv
  BY <1>1, <1>2, <1>3 DEF ThrottleInv
<1>5. RetryInv
  BY <1>2, <1>3 DEF RetryInv
<1> QED
  BY <1>4, <1>5 DEF ClientInv

\* What a caller does outside of the throttle leaves it alone.
LEMMA OutsideKeepsThrottle ==
  ASSUME ThrottleInv, NEW c \in Client, getPc[c] # "throttle",
         NEW to \in {"idle", "sleep", "lock", "send"}, getPc' = [getPc EXCEPT ![c] = to],
         wait' = wait \/ \E n \in Nat : wait' = [wait EXCEPT ![c] = n],
         UNCHANGED <<locked, since, gap>>
  PROVE  ThrottleInv'
<1>1. \A d \in Client : getPc'[d] = "throttle" => getPc[d] = "throttle" /\ wait'[d] = wait[d]
  BY DEF ThrottleInv
<1>2. /\ getPc' \in [Client -> {"idle", "sleep", "lock", "throttle", "send"}]
      /\ wait' \in [Client -> Nat]
  BY DEF ThrottleInv
<1> QED
  BY <1>1, <1>2 DEF ThrottleInv

LEMMA ReturnKeepsClient ==
  ASSUME Z!ClientConstants, ClientInv, NEW c \in Client, getPc[c] = "send", Z!Return(c)
  PROVE  ClientInv'
<1>1. /\ getPc' = [getPc EXCEPT ![c] = "idle"]
      /\ getAttempt' = [getAttempt EXCEPT ![c] = 0]
      /\ retryDelay' = [retryDelay EXCEPT ![c] = Z!NoDelay]
      /\ due' = [due EXCEPT ![c] = 0]
      /\ UNCHANGED <<wait, locked, since, gap>>
  BY DEF Z!Return
<1>2. ThrottleInv'
  BY <1>1, OutsideKeepsThrottle DEF ClientInv
<1>3. Z!NoDelay \in Int /\ 0 \in 0 .. GetAttempts - 1
  BY DEF Z!NoDelay, Z!ClientConstants
<1>4. RetryInv'
  BY <1>1, <1>3 DEF ClientInv, ThrottleInv, RetryInv
<1> QED
  BY <1>2, <1>4 DEF ClientInv

\* A retry sleeps as long as it was told to, for no older delay is left.
LEMMA RetryKeepsClient ==
  ASSUME Z!ClientConstants, ClientInv, NEW c \in Client, getPc[c] = "send",
         NEW header \in Nat \cup {Z!NoDelay}, Z!Retry(c, header)
  PROVE  ClientInv'
<1> DEFINE n == IF header = Z!NoDelay THEN Z!BackoffAfter(getAttempt[c] + 1) ELSE header
<1>1. CASE getAttempt[c] + 1 = GetAttempts
  BY <1>1, ReturnKeepsClient DEF Z!Retry
<1>2. CASE getAttempt[c] + 1 # GetAttempts
  <2>1. retryDelay[c] = Z!NoDelay
    BY DEF ClientInv, RetryInv
  <2>2. /\ getPc' = [getPc EXCEPT ![c] = "sleep"]
        /\ getAttempt' = [getAttempt EXCEPT ![c] = @ + 1]
        /\ retryDelay' = [retryDelay EXCEPT ![c] = header]
        /\ wait' = [wait EXCEPT ![c] = n]
        /\ due' = [due EXCEPT ![c] = n]
        /\ UNCHANGED <<locked, since, gap>>
    BY <1>2, <2>1 DEF Z!Retry
  <2>3. n \in Nat
    BY DEF Z!BackoffAfter, Z!ClientConstants, Z!NoDelay
  <2>4. header \in Int
    BY DEF Z!NoDelay
  <2>5. getAttempt' \in [Client -> 0 .. GetAttempts - 1]
    BY <1>2, <2>2 DEF ClientInv, RetryInv, Z!ClientConstants
  <2> HIDE DEF n
  <2>6. ThrottleInv'
    BY <2>2, <2>3, OutsideKeepsThrottle DEF ClientInv
  <2>7. RetryInv'
    BY <2>2, <2>3, <2>4, <2>5 DEF ClientInv, ThrottleInv, RetryInv
  <2> QED
    BY <2>6, <2>7 DEF ClientInv
<1> QED
  BY <1>1, <1>2

LEMMA CallerKeepsClient ==
  ASSUME Z!ClientConstants, ClientInv, NEW c \in Client,
         \/ Z!Get(c) \/ Z!Wake(c) \/ Z!EnterThrottle(c) \/ Z!Grant(c)
         \/ Z!Answered(c) \/ Z!TimesOut(c) \/ Z!TurnedAway(c)
  PROVE  ClientInv'
<1>1. Interval \in Nat /\ Z!NoDelay \in Int
  BY DEF Z!ClientConstants, Z!NoDelay
<1>2. CASE Z!Get(c)
  <2>1. ThrottleInv'
    BY <1>2, OutsideKeepsThrottle DEF Z!Get, ClientInv
  <2>2. RetryInv'
    BY <1>2 DEF Z!Get, ClientInv, ThrottleInv, RetryInv
  <2> QED
    BY <2>1, <2>2 DEF ClientInv
<1>3. CASE Z!Wake(c)
  <2>1. ThrottleInv'
    BY <1>3, OutsideKeepsThrottle DEF Z!Wake, ClientInv
  <2>2. due[c] = 0
    BY <1>3 DEF Z!Wake, ClientInv, ThrottleInv, RetryInv
  <2>3. RetryInv'
    BY <1>1, <1>3, <2>2 DEF Z!Wake, Z!ForgetDelay, ClientInv, ThrottleInv, RetryInv
  <2> QED
    BY <2>1, <2>3 DEF ClientInv
<1>4. CASE Z!EnterThrottle(c)
  <2>1. /\ \A d \in Client : getPc[d] # "throttle"
        /\ locked' = TRUE /\ UNCHANGED <<getAttempt, retryDelay, since, gap, due>>
        /\ wait' = [wait EXCEPT ![c] = Interval - since]
        /\ getPc' = [getPc EXCEPT ![c] = "throttle"]
    BY <1>4 DEF Z!EnterThrottle, ClientInv, ThrottleInv
  <2>2. Interval - since \in Nat /\ Interval - since + since >= Interval
    BY <1>1 DEF ClientInv, ThrottleInv
  <2>3. \A d \in Client : getPc'[d] = "throttle" <=> d = c
    BY <2>1 DEF ClientInv, ThrottleInv
  <2>4. wait' \in [Client -> Nat] /\ wait'[c] = Interval - since
    BY <2>1, <2>2 DEF ClientInv, ThrottleInv
  <2>5. ThrottleInv'
    BY <2>1, <2>2, <2>3, <2>4 DEF ClientInv, ThrottleInv
  <2>6. getPc[c] # "sleep"
    BY <1>4 DEF Z!EnterThrottle
  <2>7. RetryInv'
    BY <2>1, <2>6 DEF ClientInv, ThrottleInv, RetryInv
  <2> QED
    BY <2>5, <2>7 DEF ClientInv
<1>5. CASE Z!Grant(c)
  <2>1. /\ getPc[c] = "throttle" /\ getPc' = [getPc EXCEPT ![c] = "send"]
        /\ since' = 0 /\ gap' = 0 /\ locked' = FALSE
        /\ UNCHANGED <<getAttempt, retryDelay, wait, due>>
    BY <1>5 DEF Z!Grant, Z!Stamp
  <2>2. \A d \in Client : getPc'[d] # "throttle"
    BY <2>1 DEF ClientInv, ThrottleInv
  <2>3. ThrottleInv'
    <3>1. locked' \in BOOLEAN
      BY <2>1
    <3>2. since' \in 0 .. Interval /\ gap' = since'
      BY <1>1, <2>1
    <3>3. /\ getPc' \in [Client -> {"idle", "sleep", "lock", "throttle", "send"}]
          /\ wait' \in [Client -> Nat]
      BY <2>1 DEF ClientInv, ThrottleInv
    <3> QED
      BY <2>2, <3>1, <3>2, <3>3 DEF ThrottleInv
  <2>4. RetryInv'
    BY <2>1 DEF ClientInv, ThrottleInv, RetryInv
  <2> QED
    BY <2>3, <2>4 DEF ClientInv
<1>6. CASE Z!Answered(c)
  BY <1>6, ReturnKeepsClient DEF Z!Answered
<1>7. CASE Z!TimesOut(c)
  BY <1>7, RetryKeepsClient DEF Z!TimesOut
<1>8. CASE Z!TurnedAway(c)
  <2>1. getPc[c] = "send"
    BY <1>8 DEF Z!TurnedAway
  <2>2. PICK header \in RetryAfter \cup {Z!NoDelay} : Z!Retry(c, Z!Min({header, MaxRetryAfter}))
    BY <1>8 DEF Z!TurnedAway
  <2>3. MaxRetryAfter \in Nat /\ (header \in Nat \/ header = -1)
    BY <2>2 DEF Z!ClientConstants, Z!NoDelay
  <2>4. Z!Min({header, MaxRetryAfter}) = IF header <= MaxRetryAfter THEN header ELSE MaxRetryAfter
    BY <2>3, SmallerDelay
  <2>5. Z!Min({header, MaxRetryAfter}) \in Nat \cup {Z!NoDelay}
    BY <2>3, <2>4 DEF Z!NoDelay
  <2> QED
    BY <2>1, <2>2, <2>5, RetryKeepsClient
<1> QED
  BY <1>2, <1>3, <1>4, <1>5, <1>6, <1>7, <1>8

\* Sleeps and the interval run at the same pace.
LEMMA TickKeepsClient ==
  ASSUME Z!ClientConstants, ClientInv, Z!Tick
  PROVE  ClientInv'
<1>1. Interval \in Nat /\ since \in 0 .. Interval /\ gap = since
  BY DEF Z!ClientConstants, ClientInv, ThrottleInv
<1>2. /\ since' \in 0 .. Interval /\ gap' = since'
      /\ since' = IF since + 1 <= Interval THEN since + 1 ELSE Interval
  <2> DEFINE next == since + 1
  <2>1. since' = Z!Min({next, Interval}) /\ gap' = Z!Min({next, Interval}) /\ next \in Nat
    BY <1>1 DEF Z!Tick
  <2> HIDE DEF next
  <2>2. Z!Min({next, Interval}) = IF next <= Interval THEN next ELSE Interval
    BY <1>1, <2>1, SmallerDelay
  <2> QED
    BY <1>1, <2>1, <2>2 DEF next
<1>3. \A n \in Nat : Z!Max({n - 1, 0}) = IF n = 0 THEN 0 ELSE n - 1
  <2> SUFFICES ASSUME NEW n \in Nat PROVE Z!Max({n - 1, 0}) = IF n = 0 THEN 0 ELSE n - 1
    OBVIOUS
  <2> DEFINE less == n - 1
  <2>1. less \in Int
    OBVIOUS
  <2> HIDE DEF less
  <2>2. Z!Max({less, 0}) = IF less >= 0 THEN less ELSE 0
    BY <2>1, LargerDelay
  <2> QED
    BY <2>2 DEF less
<1>4. \A c \in Client :
        /\ wait[c] \in Nat /\ wait'[c] = IF wait[c] = 0 THEN 0 ELSE wait[c] - 1
        /\ due[c] \in Nat /\ due'[c] = IF due[c] = 0 THEN 0 ELSE due[c] - 1
  BY <1>3 DEF Z!Tick, ClientInv, ThrottleInv, RetryInv
<1>5. wait' \in [Client -> Nat] /\ due' \in [Client -> Nat]
  <2>1. DOMAIN wait' = Client /\ DOMAIN due' = Client
    BY DEF Z!Tick
  <2>2. wait' = [c \in Client |-> wait'[c]] /\ due' = [c \in Client |-> due'[c]]
    BY DEF Z!Tick
  <2>3. \A c \in Client : wait'[c] \in Nat /\ due'[c] \in Nat
    BY <1>4
  <2> QED
    BY <2>2, <2>3
<1>6. UNCHANGED <<getPc, getAttempt, retryDelay, locked>>
  BY DEF Z!Tick
<1>7. \A c \in Client : getPc[c] = "throttle" => wait'[c] + since' >= Interval
  BY <1>1, <1>2, <1>4 DEF ClientInv, ThrottleInv
<1>8. \A c \in Client : (due[c] <= wait[c] => due'[c] <= wait'[c]) /\ (due[c] = 0 => due'[c] = 0)
  BY <1>4
<1>9. ThrottleInv'
  BY <1>2, <1>5, <1>6, <1>7 DEF ClientInv, ThrottleInv
<1>10. RetryInv'
  BY <1>5, <1>6, <1>8 DEF ClientInv, RetryInv
<1> QED
  BY <1>9, <1>10 DEF ClientInv

LEMMA ClientStep == Z!ClientConstants /\ ClientInv /\ [Z!Next]_(Z!vars) => ClientInv'
<1> SUFFICES ASSUME Z!ClientConstants, ClientInv, [Z!Next]_(Z!vars) PROVE ClientInv'
  OBVIOUS
<1>1. CASE UNCHANGED Z!vars
  BY <1>1 DEF Z!vars, ClientInv, ThrottleInv, RetryInv
<1> QED
  BY <1>1, CallerKeepsClient, TickKeepsClient DEF Z!Next

\* For any number of callers and any delays: requests go out an interval apart,
\* and who was turned away comes back no sooner than it was told to.
THEOREM RequestsKeepDistance ==
  ASSUME Z!ClientConstants
  PROVE  /\ Z!Spec => KeepsDistance
         /\ SumSpec => KeepsDistance
<1> DEFINE Apart == \A c \in Client : getPc[c] = "throttle" /\ getPc'[c] = "send" =>
                      gap = Interval /\ due[c] = 0
<1>1. ClientInv /\ [Z!Next]_(Z!vars) => [Apart]_(Z!vars)
  <2> SUFFICES ASSUME ClientInv, Z!Next, NEW c \in Client,
                      getPc[c] = "throttle", getPc'[c] = "send"
               PROVE  gap = Interval /\ due[c] = 0
    OBVIOUS
  <2>1. Z!Grant(c)
    <3>1. CASE Z!Tick
      BY <3>1 DEF Z!Tick
    <3>2. ASSUME NEW d \in Client, Z!Grant(d) PROVE d = c
      BY <3>2 DEF Z!Grant, ClientInv, ThrottleInv
    <3>3. ASSUME NEW d \in Client,
                 \/ Z!Get(d) \/ Z!Wake(d) \/ Z!EnterThrottle(d)
                 \/ Z!Answered(d) \/ Z!TimesOut(d) \/ Z!TurnedAway(d)
          PROVE  getPc'[c] # "send"
      BY <3>3 DEF Z!Get, Z!Wake, Z!EnterThrottle, Z!Answered, Z!TimesOut, Z!TurnedAway,
                  Z!Retry, Z!Return, ClientInv, ThrottleInv
    <3> QED
      BY <3>1, <3>2, <3>3 DEF Z!Next
  <2>2. wait[c] = 0 /\ wait[c] + since >= Interval /\ since \in 0 .. Interval /\ gap = since
    BY <2>1 DEF Z!Grant, ClientInv, ThrottleInv
  <2>3. Interval \in Int
    BY DEF Z!ClientConstants
  <2> QED
    BY <2>2, <2>3 DEF ClientInv, RetryInv
<1> QED
  BY <1>1, ClientInit, ClientStep, ServicesBegin, SumMovesClient, PTL
  DEF Z!Spec, SumSpec, KeepsDistance, Z!KeepsDistance

\* No sleep is longer than this.
Longest == Z!Max({2 * Backoff, MaxRetryAfter, Interval})

LEMMA LongestBounds ==
  Z!ClientConstants =>
    /\ Longest \in Nat /\ Backoff <= Longest /\ 2 * Backoff <= Longest
    /\ MaxRetryAfter <= Longest /\ Interval <= Longest
<1> SUFFICES ASSUME Z!ClientConstants
             PROVE  /\ Longest \in Nat /\ Backoff <= Longest /\ 2 * Backoff <= Longest
                    /\ MaxRetryAfter <= Longest /\ Interval <= Longest
  OBVIOUS
<1> DEFINE x == 2 * Backoff
           S == {x, MaxRetryAfter, Interval}
<1>1. x \in Nat /\ MaxRetryAfter \in Nat /\ Interval \in Nat /\ Backoff \in Nat /\ Backoff <= x
  BY DEF Z!ClientConstants
<1> HIDE DEF x
<1>2. \E m \in S : \A y \in S : m >= y
  <2>1. CASE x >= MaxRetryAfter /\ x >= Interval
    BY <1>1, <2>1
  <2>2. CASE MaxRetryAfter >= x /\ MaxRetryAfter >= Interval
    BY <1>1, <2>2
  <2>3. CASE Interval >= x /\ Interval >= MaxRetryAfter
    BY <1>1, <2>3
  <2> QED
    BY <1>1, <2>1, <2>2, <2>3
<1>3. Z!Max(S) \in S /\ \A y \in S : Z!Max(S) >= y
  BY <1>2 DEF Z!Max
<1>4. Longest = Z!Max(S)
  BY DEF Longest, x
<1> QED
  BY <1>1, <1>3, <1>4 DEF x

\* Sleeps are bounded, and a lock that is held is held by somebody.
SleepInv ==
  /\ \A c \in Client : retryDelay[c] \in Z!NoDelay .. MaxRetryAfter /\ wait[c] <= Longest
  /\ locked => \E c \in Client : getPc[c] = "throttle"

LEMMA SleepInit == Z!ClientConstants /\ Z!Init => SleepInv
  BY LongestBounds DEF Z!ClientConstants, Z!Init, SleepInv, Z!NoDelay

\* A caller that stays out of the throttle sleeps no longer than the longest.
LEMMA SleepKeepsWait ==
  ASSUME ClientInv, SleepInv, NEW c \in Client, getPc[c] # "throttle",
         NEW to \in {"idle", "sleep", "lock"}, getPc' = [getPc EXCEPT ![c] = to],
         NEW delay \in Z!NoDelay .. MaxRetryAfter,
         retryDelay' = [retryDelay EXCEPT ![c] = delay],
         wait' = wait \/ \E n \in Nat : n <= Longest /\ wait' = [wait EXCEPT ![c] = n],
         locked' = locked
  PROVE  SleepInv'
<1>1. \A d \in Client : d # c => getPc'[d] = getPc[d] /\ retryDelay'[d] = retryDelay[d] /\ wait'[d] = wait[d]
  BY DEF ClientInv, ThrottleInv, RetryInv
<1>2. retryDelay'[c] = delay /\ wait'[c] <= Longest
  BY DEF ClientInv, ThrottleInv, RetryInv, SleepInv
<1>3. \A d \in Client : getPc[d] = "throttle" => getPc'[d] = "throttle"
  BY <1>1
<1> QED
  BY <1>1, <1>2, <1>3 DEF SleepInv

LEMMA ReturnKeepsWait ==
  ASSUME Z!ClientConstants, ClientInv, SleepInv, NEW c \in Client, getPc[c] = "send", Z!Return(c)
  PROVE  SleepInv'
<1>1. Z!NoDelay \in Z!NoDelay .. MaxRetryAfter
  BY DEF Z!NoDelay, Z!ClientConstants
<1> QED
  BY <1>1, SleepKeepsWait DEF Z!Return

LEMMA RetryKeepsWait ==
  ASSUME Z!ClientConstants, ClientInv, SleepInv, NEW c \in Client, getPc[c] = "send",
         NEW header \in Z!NoDelay .. MaxRetryAfter, Z!Retry(c, header)
  PROVE  SleepInv'
<1> DEFINE n == IF header = Z!NoDelay THEN Z!BackoffAfter(getAttempt[c] + 1) ELSE header
<1>1. CASE getAttempt[c] + 1 = GetAttempts
  BY <1>1, ReturnKeepsWait DEF Z!Retry
<1>2. CASE getAttempt[c] + 1 # GetAttempts
  <2>1. retryDelay[c] = Z!NoDelay
    BY DEF ClientInv, RetryInv
  <2>2. /\ getPc' = [getPc EXCEPT ![c] = "sleep"]
        /\ retryDelay' = [retryDelay EXCEPT ![c] = header]
        /\ wait' = [wait EXCEPT ![c] = n]
        /\ locked' = locked
    BY <1>2, <2>1 DEF Z!Retry
  <2>3. n \in Nat /\ n <= Longest
    BY LongestBounds DEF Z!BackoffAfter, Z!ClientConstants, Z!NoDelay
  <2> HIDE DEF n
  <2> QED
    BY <2>2, <2>3, SleepKeepsWait
<1> QED
  BY <1>1, <1>2

LEMMA SleepStep ==
  ASSUME Z!ClientConstants, ClientInv, SleepInv, [Z!Next]_(Z!vars)
  PROVE  SleepInv'
<1>1. Interval \in Nat /\ MaxRetryAfter \in Nat /\ Z!NoDelay = -1
  BY DEF Z!ClientConstants, Z!NoDelay
<1>2. CASE UNCHANGED Z!vars
  BY <1>2 DEF Z!vars, SleepInv
<1>3. ASSUME NEW c \in Client, Z!Get(c)
      PROVE  SleepInv'
  <2>1. \A d \in Client : getPc[d] = "throttle" => getPc'[d] = "throttle"
    BY <1>3 DEF Z!Get, ClientInv, ThrottleInv
  <2> QED
    BY <1>3, <2>1 DEF Z!Get, SleepInv
<1>4. ASSUME NEW c \in Client, Z!Wake(c)
      PROVE  SleepInv'
  <2>1. Z!NoDelay \in Z!NoDelay .. MaxRetryAfter
    BY <1>1
  <2> QED
    BY <1>4, <2>1, SleepKeepsWait DEF Z!Wake, Z!ForgetDelay
<1>5. ASSUME NEW c \in Client, Z!EnterThrottle(c)
      PROVE  SleepInv'
  <2>1. /\ wait' = [wait EXCEPT ![c] = Interval - since] /\ retryDelay' = retryDelay
        /\ getPc' = [getPc EXCEPT ![c] = "throttle"]
    BY <1>5 DEF Z!EnterThrottle
  <2>2. Interval - since <= Longest
    BY <1>1, LongestBounds DEF ClientInv, ThrottleInv
  <2>3. \A d \in Client : wait'[d] <= Longest
    BY <2>1, <2>2 DEF ClientInv, ThrottleInv, SleepInv
  <2>4. getPc'[c] = "throttle"
    BY <2>1 DEF ClientInv, ThrottleInv
  <2> QED
    BY <2>1, <2>3, <2>4 DEF SleepInv
<1>6. ASSUME NEW c \in Client, Z!Grant(c)
      PROVE  SleepInv'
  BY <1>6 DEF Z!Grant, SleepInv
<1>7. ASSUME NEW c \in Client, Z!Answered(c)
      PROVE  SleepInv'
  BY <1>7, ReturnKeepsWait DEF Z!Answered
<1>8. ASSUME NEW c \in Client, Z!TimesOut(c)
      PROVE  SleepInv'
  <2>1. Z!NoDelay \in Z!NoDelay .. MaxRetryAfter
    BY <1>1
  <2> QED
    BY <1>8, <2>1, RetryKeepsWait DEF Z!TimesOut
<1>9. ASSUME NEW c \in Client, Z!TurnedAway(c)
      PROVE  SleepInv'
  <2>1. PICK header \in RetryAfter \cup {Z!NoDelay} : Z!Retry(c, Z!Min({header, MaxRetryAfter}))
    BY <1>9 DEF Z!TurnedAway
  <2>2. header \in Nat \/ header = -1
    BY <2>1 DEF Z!ClientConstants, Z!NoDelay
  <2>3. Z!Min({header, MaxRetryAfter}) = IF header <= MaxRetryAfter THEN header ELSE MaxRetryAfter
    BY <1>1, <2>2, SmallerDelay
  <2>4. Z!Min({header, MaxRetryAfter}) \in Z!NoDelay .. MaxRetryAfter
    BY <1>1, <2>2, <2>3
  <2>5. getPc[c] = "send"
    BY <1>9 DEF Z!TurnedAway
  <2> QED
    BY <2>1, <2>4, <2>5, RetryKeepsWait
<1>10. CASE Z!Tick
  <2>1. \A c \in Client : wait[c] \in Nat /\ wait'[c] <= wait[c] /\ wait'[c] \in Int
    <3> TAKE c \in Client
    <3> DEFINE less == wait[c] - 1
    <3>1. wait[c] \in Nat /\ less \in Int
      BY DEF ClientInv, ThrottleInv
    <3>2. wait'[c] = Z!Max({less, 0})
      BY <1>10 DEF Z!Tick
    <3>3. less <= wait[c] /\ 0 <= wait[c]
      BY <3>1
    <3> HIDE DEF less
    <3>4. Z!Max({less, 0}) = IF less >= 0 THEN less ELSE 0
      BY <3>1, LargerDelay
    <3> QED
      BY <3>1, <3>2, <3>3, <3>4
  <2>2. Longest \in Nat
    BY LongestBounds
  <2>3. UNCHANGED <<getPc, retryDelay, locked>>
    BY <1>10 DEF Z!Tick
  <2>4. \A c \in Client : wait'[c] <= Longest
    BY <2>1, <2>2 DEF SleepInv
  <2> QED
    BY <2>3, <2>4 DEF SleepInv
<1> QED
  BY <1>2, <1>3, <1>4, <1>5, <1>6, <1>7, <1>8, <1>9, <1>10 DEF Z!Next

LEMMA ClientTypes == Z!ClientConstants /\ ClientInv /\ SleepInv => Z!TypeOK
<1> SUFFICES ASSUME Z!ClientConstants, ClientInv, SleepInv
             PROVE  Z!TypeOK
  OBVIOUS
<1>1. Longest \in Nat
  BY LongestBounds
<1>2. \A c \in Client : wait[c] \in 0 .. Longest
  BY <1>1 DEF ClientInv, ThrottleInv, SleepInv
<1>3. locked = \E c \in Client : getPc[c] = "throttle"
  <2>1. locked \in BOOLEAN /\ (locked <=> \E c \in Client : getPc[c] = "throttle")
    BY DEF ClientInv, ThrottleInv, SleepInv
  <2> QED
    BY <2>1, Zenon
<1> QED
  BY <1>2, <1>3 DEF Z!TypeOK, ClientInv, ThrottleInv, RetryInv, SleepInv, Longest

------------------------------------------------------------------------------
(* Messages about the regime *)

Reading == Regime \cup {A!Unknown}

\* What is being announced was found in a report and is saved already; between
\* announcements the saved regime is the one last heard, if no message was lost.
AlertInv ==
  /\ A!TypeOK
  /\ reporter \in {"notify", "send"} => report \in Reading
  /\ reporter = "send" => saved = message[2] /\ saved # A!Missing
  /\ ~missed => IF reporter = "send" THEN message[1] = heard ELSE A!LastStatus = heard

LEMMA AlertNames == A!AlertConstants => A!Missing \notin Reading
  BY DEF A!AlertConstants, A!Missing, A!Unknown, Reading

LEMMA AlertInit == A!AlertConstants /\ A!Init => AlertInv
<1> SUFFICES ASSUME A!AlertConstants, A!Init PROVE AlertInv
  OBVIOUS
<1>1. reporter = "idle" /\ A!LastStatus = heard
  BY DEF A!Init, A!LastStatus
<1>2. missed \in BOOLEAN
  BY DEF A!Init
<1>3. streak \in 0 .. ConfirmCount - 1
  BY DEF A!Init, A!AlertConstants
<1>4. /\ bot = "idle" /\ {reading, confirmed, line, status, heard} \subseteq Reading
      /\ {report, saved} \subseteq Reading \cup {A!Missing} /\ message \in Reading \X Reading
  BY DEF A!Init, Reading
<1> QED
  BY <1>1, <1>2, <1>3, <1>4 DEF AlertInv, A!TypeOK, Reading

\* The bot's own steps.
LEMMA BotKeepsAlerts ==
  ASSUME A!AlertConstants, AlertInv,
         (\E r \in Regime : A!Detect(r)) \/ A!Summary \/ A!BotFails \/ A!Babble
  PROVE  AlertInv'
<1>1. UNCHANGED <<reporter, status, report, saved, message, heard, missed>>
  BY DEF A!Detect, A!Summary, A!BotFails, A!Babble, A!jobVars
<1>2. /\ bot' \in {"idle", "cycle"} /\ streak' \in 0 .. ConfirmCount - 1
      /\ {reading', confirmed', line'} \subseteq Reading
  <2>1. ConfirmCount \in Nat \ {0} /\ streak \in 0 .. ConfirmCount - 1
    BY DEF A!AlertConstants, AlertInv, A!TypeOK
  <2>2. {reading, confirmed, line} \subseteq Reading /\ bot \in {"idle", "cycle"}
    BY DEF AlertInv, A!TypeOK, Reading
  <2>3. CASE \E r \in Regime : A!Detect(r)
    BY <2>1, <2>2, <2>3 DEF A!Detect, A!Banner, Reading
  <2>4. CASE A!Summary
    BY <2>1, <2>2, <2>4 DEF A!Summary, Reading
  <2>5. CASE A!BotFails \/ A!Babble
    BY <2>1, <2>2, <2>5 DEF A!BotFails, A!Babble, Reading
  <2> QED
    BY <2>3, <2>4, <2>5
<1>3. {status, heard} \subseteq Reading /\ {report, saved} \subseteq Reading \cup {A!Missing}
  BY DEF AlertInv, A!TypeOK, Reading
<1>4. A!TypeOK'
  BY <1>1, <1>2, <1>3 DEF AlertInv, A!TypeOK, Reading
<1>5. A!LastStatus' = A!LastStatus
  BY <1>1 DEF A!LastStatus
<1> QED
  BY <1>1, <1>4, <1>5 DEF AlertInv

\* The report service's.
LEMMA JobKeepsAlerts ==
  ASSUME A!AlertConstants, AlertInv,
         \/ A!ReadLog \/ A!WriteReport \/ A!NoChange \/ A!SaveChange
         \/ A!Arrives \/ A!Lost \/ A!JobFails \/ A!SaveIsCut
  PROVE  AlertInv'
<1>1. UNCHANGED <<bot, reading, confirmed, streak, line>>
  BY DEF A!ReadLog, A!WriteReport, A!NoChange, A!SaveChange, A!Arrives, A!Lost,
         A!JobFails, A!SaveIsCut, A!botVars
<1>2. /\ {line, status, heard} \subseteq Reading /\ missed \in BOOLEAN
      /\ {report, saved} \subseteq Reading \cup {A!Missing}
      /\ message \in Reading \X Reading
      /\ A!LastStatus \in Reading /\ A!Missing \notin Reading /\ A!Unknown \in Reading
  BY AlertNames DEF AlertInv, A!TypeOK, A!LastStatus, Reading
<1>3. ASSUME /\ reporter' \in {"idle", "report", "notify", "send"}
             /\ {status', heard'} \subseteq Reading
             /\ {report', saved'} \subseteq Reading \cup {A!Missing}
             /\ message' \in Reading \X Reading /\ missed' \in BOOLEAN
      PROVE  A!TypeOK'
  BY <1>1, <1>3 DEF AlertInv, A!TypeOK, Reading
<1>4. CASE A!ReadLog \/ A!WriteReport
  <2>1. /\ reporter \in {"idle", "report"} /\ reporter' \in {"report", "notify"}
        /\ status' \in Reading /\ UNCHANGED <<saved, message, heard, missed>>
        /\ report' \in Reading \cup {A!Missing} /\ (reporter' = "notify" => report' \in Reading)
    BY <1>2, <1>4 DEF A!ReadLog, A!WriteReport
  <2>2. A!TypeOK'
    BY <1>2, <1>3, <2>1
  <2>3. A!LastStatus' = A!LastStatus
    BY <2>1 DEF A!LastStatus
  <2> QED
    BY <2>1, <2>2, <2>3 DEF AlertInv
<1>5. CASE A!NoChange
  <2>1. /\ reporter = "notify" /\ reporter' = "idle" /\ saved' = A!LastStatus
        /\ UNCHANGED <<status, report, message, heard, missed>>
    BY <1>5 DEF A!NoChange
  <2>2. A!TypeOK'
    BY <1>2, <1>3, <2>1
  <2>3. A!LastStatus' = A!LastStatus
    <3>1. saved' # A!Missing
      BY <1>2, <2>1
    <3>2. A!LastStatus' = saved'
      BY <3>1 DEF A!LastStatus
    <3> QED
      BY <2>1, <3>2
  <2> QED
    BY <2>1, <2>2, <2>3 DEF AlertInv
<1>6. CASE A!SaveChange
  <2>1. /\ reporter = "notify" /\ reporter' = "send" /\ saved' = report
        /\ message' = <<A!LastStatus, report>>
        /\ UNCHANGED <<status, report, heard, missed>>
    BY <1>6 DEF A!SaveChange, A!NewStatus
  <2>2. report \in Reading
    BY <2>1 DEF AlertInv
  <2>3. A!TypeOK'
    BY <1>2, <1>3, <2>1, <2>2
  <2>4. message'[1] = A!LastStatus /\ message'[2] = saved' /\ saved' # A!Missing
    BY <1>2, <2>1, <2>2
  <2>5. ~missed' => message'[1] = heard'
    BY <2>1, <2>4 DEF AlertInv
  <2> QED
    BY <2>1, <2>2, <2>3, <2>4, <2>5 DEF AlertInv
<1>7. CASE A!Arrives
  <2>1. /\ reporter = "send" /\ reporter' = "idle" /\ heard' = message[2] /\ missed' = FALSE
        /\ UNCHANGED <<status, report, saved, message>>
    BY <1>7 DEF A!Arrives
  <2>2. missed' \in BOOLEAN
    BY <2>1
  <2>3. heard' \in Reading
    BY <1>2, <2>1
  <2>4. A!TypeOK'
    BY <1>2, <1>3, <2>1, <2>2, <2>3
  <2>5. A!LastStatus' = heard'
    BY <2>1 DEF AlertInv, A!LastStatus
  <2> QED
    BY <2>1, <2>4, <2>5 DEF AlertInv
<1>8. CASE A!Lost \/ A!SaveIsCut
  <2>1. /\ reporter' = "idle" /\ missed' /\ missed' \in BOOLEAN
        /\ saved' \in {saved, A!Missing} /\ UNCHANGED <<status, report, message, heard>>
    BY <1>8 DEF A!Lost, A!SaveIsCut
  <2>2. A!TypeOK'
    BY <1>2, <1>3, <2>1
  <2> QED
    BY <2>1, <2>2 DEF AlertInv
<1>9. CASE A!JobFails
  <2>1. reporter' = "idle" /\ UNCHANGED <<status, report, saved, message, heard>>
    BY <1>9 DEF A!JobFails
  <2>2. missed' = (missed \/ reporter = "send")
    BY <1>9 DEF A!JobFails
  <2>3. missed' \in BOOLEAN
    BY <2>2, Zenon
  <2>4. ~missed' => ~missed /\ reporter # "send"
    BY <2>2, Zenon
  <2>5. A!TypeOK'
    BY <1>2, <1>3, <2>1, <2>3
  <2>6. A!LastStatus' = A!LastStatus
    BY <2>1 DEF A!LastStatus
  <2> QED
    BY <2>1, <2>4, <2>5, <2>6 DEF AlertInv
<1> QED
  BY <1>4, <1>5, <1>6, <1>7, <1>8, <1>9

LEMMA AlertStep == A!AlertConstants /\ AlertInv /\ [A!Next]_(A!vars) => AlertInv'
<1> SUFFICES ASSUME A!AlertConstants, AlertInv, [A!Next]_(A!vars) PROVE AlertInv'
  OBVIOUS
<1>1. CASE UNCHANGED A!vars
  BY <1>1 DEF A!vars, A!botVars, A!jobVars, AlertInv, A!TypeOK, A!LastStatus
<1> QED
  BY <1>1, BotKeepsAlerts, JobKeepsAlerts DEF A!Next

\* For any regimes and any number of confirmations: unless one was lost, each
\* message about the regime begins where the one before it ended.
THEOREM MessagesConnect ==
  ASSUME A!AlertConstants
  PROVE  /\ A!Spec => []A!TypeOK /\ ChangesConnect
         /\ SumSpec => []A!TypeOK /\ ChangesConnect
<1> DEFINE Connects == A!MessageArrives /\ ~missed => message[1] = heard
<1>1. AlertInv => A!TypeOK
  BY DEF AlertInv
<1>2. AlertInv /\ [A!Next]_(A!vars) => [Connects]_(A!vars)
  BY DEF AlertInv, A!MessageArrives
<1> QED
  BY <1>1, <1>2, AlertInit, AlertStep, ServicesBegin, SumMovesAlerts, PTL
  DEF A!Spec, SumSpec, ChangesConnect, A!ChangesConnect

------------------------------------------------------------------------------
(* All parts *)

LEMMA SumMovesSwaps == [SumNext]_sumVars => [Next]_vars
BY DEF SumNext, Idle, sumVars, vars

\* The swaps of the sum keep their promise as well: a decision fills at most once,
\* and not after it was reported as failed.
THEOREM RequestsKeepThePromise ==
  ASSUME "regossip" \notin Faults, "late" \notin Faults
  PROVE  SumSpec => KeepsPromise
<1>1. SumSpec => Spec
  <2>1. SumInit => Init
    BY DEF SumInit
  <2> QED
    BY <2>1, SumMovesSwaps, PTL DEF SumSpec, Spec
<1> QED
  BY <1>1, SwapsKeepThePromise

\* Whatever the bot is dealing with, what it knows of it is well typed: for all
\* numbers of callers, endpoints, orders, tokens, amounts and delays.
THEOREM RequestsTypeCorrect ==
  ASSUME H!BalanceConstants, C!OrdersConstants, G!GuardConstants, Z!ClientConstants,
         A!AlertConstants
  PROVE  SumSpec => []TypesOK
<1> DEFINE Swaps == TypeInv
           Orders == ExchangeInv /\ CycleInv
           Guarded == GuardInv /\ GuardTypes
           Gets == ClientInv /\ SleepInv
           Alerts == AlertInv
           All == Swaps /\ ReadTypeInv /\ Orders /\ Guarded /\ Gets /\ Alerts
<1>1. SumInit => All
  BY ServicesBegin, SumBegins, TypeInit, ReadTypeInit, ExchangeInit, CycleInit, GuardInit,
     GuardTypesInit, ClientInit, SleepInit, AlertInit DEF SumInit
<1>2. All /\ [SumNext]_sumVars => All'
  <2> SUFFICES ASSUME All, [SumNext]_sumVars
               PROVE  All'
    OBVIOUS
  <2>1. Swaps'
    BY SumMovesSwaps, TypeStep
  <2>2. ReadTypeInv'
    BY SumMovesReads, ReadTypeStep
  <2>3. Orders'
    BY SumMovesOrders, OrderTypesStep
  <2>4. Guarded'
    BY SumMovesGuards, GuardStep, GuardTypesStep
  <2>5. Gets'
    BY SumMovesClient, ClientStep, SleepStep
  <2>6. Alerts'
    BY SumMovesAlerts, AlertStep
  <2> QED
    BY <2>1, <2>2, <2>3, <2>4, <2>5, <2>6
<1>3. All /\ part \in Part => TypesOK
  <2>1. All => TypeOK /\ H!TypeOK /\ G!TypeOK /\ Z!TypeOK /\ A!TypeOK /\ C!TypeOK
    BY OrdersAreTyped, GuardTypesHold, ClientTypes DEF TypeInv, ReadTypeInv, AlertInv
  <2> QED
    BY <2>1 DEF TypesOK, Part
<1>4. (SumInit => part \in Part) /\ (part \in Part /\ [SumNext]_sumVars => (part \in Part)')
  BY DEF SumInit, SumNext, Idle, sumVars
<1> HIDE DEF All
<1> QED
  BY <1>1, <1>2, <1>3, <1>4, PTL DEF SumSpec
==============================================================================
