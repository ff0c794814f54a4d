---------------------------- MODULE ZeroExClient ----------------------------
(***************************************************************************)
(* ZeroExClient: the calls of one client to the 0x API.  A throttle keeps    *)
(* requests apart, and a request that times out or is turned away is made    *)
(* again, after the delay the server asked for or a growing one.            *)
(*                                                                          *)
(* Time passes in ticks; a sleep may last longer than asked for.            *)
(***************************************************************************)
EXTENDS Integers, FiniteSetsExt

CONSTANTS
  Caller,         \* threads that share the client
  MaxAttempts,    \* MAX_ATTEMPTS
  Interval,       \* MIN_REQUEST_INTERVAL_SECONDS
  Backoff,        \* RETRY_BACKOFF_SECONDS
  MaxRetryAfter,  \* MAX_RETRY_AFTER_SECONDS
  RetryAfter      \* values of a Retry-After header

ClientConstants ==
  /\ MaxAttempts \in Nat \ {0} /\ Interval \in Nat /\ Backoff \in Nat
  /\ MaxRetryAfter \in Nat /\ RetryAfter \subseteq Nat

NoDelay == -1     \* retry_delay is None

VARIABLES
  pc,          \* per caller: "idle", "sleep", "lock", "throttle", "send"
  attempt,     \* per caller
  retryDelay,  \* per caller: retry_delay
  wait,        \* per caller: what is left of its sleep
  locked,      \* _throttle_lock is held
  since,       \* ticks since _last_request, up to Interval
  gap,         \* history: ticks since a request was let through, up to Interval
  due          \* history, per caller: how long it was told to stay away

vars == <<pc, attempt, retryDelay, wait, locked, since, gap, due>>

Init ==
  /\ pc = [c \in Caller |-> "idle"]
  /\ attempt = [c \in Caller |-> 0]
  /\ retryDelay = [c \in Caller |-> NoDelay]
  /\ wait = [c \in Caller |-> 0]
  /\ locked = FALSE
  /\ since = Interval
  /\ gap = Interval
  /\ due = [c \in Caller |-> 0]

------------------------------------------------------------------------------
\* price and quote
Get(c) ==
  /\ pc[c] = "idle"
  /\ pc' = [pc EXCEPT ![c] = "lock"]
  /\ UNCHANGED <<attempt, retryDelay, wait, locked, since, gap, due>>

\* Doubled with every attempt.
BackoffAfter(n) == IF n = 1 THEN Backoff ELSE 2 * Backoff

\* Mutant: a delay that was asked for once is used for every attempt.
KeepDelay(c) == retryDelay[c]

\* retry_delay = None, once it has been slept
ForgetDelay(c) == NoDelay

Wake(c) ==
  /\ pc[c] = "sleep"
  /\ wait[c] = 0
  /\ pc' = [pc EXCEPT ![c] = "lock"]
  /\ retryDelay' = [retryDelay EXCEPT ![c] = ForgetDelay(c)]
  /\ UNCHANGED <<attempt, wait, locked, since, gap, due>>

\* The lock is kept while the caller sleeps off the rest of the interval.
EnterThrottle(c) ==
  /\ pc[c] = "lock"
  /\ ~locked
  /\ locked' = TRUE
  /\ wait' = [wait EXCEPT ![c] = Interval - since]
  /\ pc' = [pc EXCEPT ![c] = "throttle"]
  /\ UNCHANGED <<attempt, retryDelay, since, gap, due>>

\* Mutant: the request is stamped with the time before the sleep.
StampEarly == since

\* _last_request = self._clock(), after the sleep
Stamp == 0

Grant(c) ==
  /\ pc[c] = "throttle"
  /\ wait[c] = 0
  /\ locked' = FALSE
  /\ since' = Stamp
  /\ gap' = 0
  /\ pc' = [pc EXCEPT ![c] = "send"]
  /\ UNCHANGED <<attempt, retryDelay, wait, due>>

Return(c) ==
  /\ pc' = [pc EXCEPT ![c] = "idle"]
  /\ attempt' = [attempt EXCEPT ![c] = 0]
  /\ retryDelay' = [retryDelay EXCEPT ![c] = NoDelay]
  /\ due' = [due EXCEPT ![c] = 0]
  /\ UNCHANGED <<wait, locked, since, gap>>

\* A verified answer is returned; any other status, a signature that does not
\* verify and invalid JSON are raised at once.
Answered(c) ==
  /\ pc[c] = "send"
  /\ Return(c)

\* The last error is raised when the attempts are used up; else the caller
\* sleeps before the next one.
Retry(c, told) ==
  LET Sleep(delay) == IF delay = NoDelay THEN BackoffAfter(attempt[c] + 1) ELSE delay
      delay == IF told = NoDelay THEN retryDelay[c] ELSE told
  IN  IF attempt[c] + 1 = MaxAttempts THEN Return(c)
      ELSE /\ attempt' = [attempt EXCEPT ![c] = @ + 1]
           /\ retryDelay' = [retryDelay EXCEPT ![c] = delay]
           /\ wait' = [wait EXCEPT ![c] = Sleep(delay)]
           /\ due' = [due EXCEPT ![c] = Sleep(told)]
           /\ pc' = [pc EXCEPT ![c] = "sleep"]
           /\ UNCHANGED <<locked, since, gap>>

TimesOut(c) ==
  /\ pc[c] = "send"
  /\ Retry(c, NoDelay)

\* HTTP 429 or a server error, with a Retry-After header or without.
TurnedAway(c) ==
  /\ pc[c] = "send"
  /\ \E header \in RetryAfter \cup {NoDelay} : Retry(c, Min({header, MaxRetryAfter}))

Tick ==
  /\ since' = Min({since + 1, Interval})
  /\ gap' = Min({gap + 1, Interval})
  /\ wait' = [c \in Caller |-> Max({wait[c] - 1, 0})]
  /\ due' = [c \in Caller |-> Max({due[c] - 1, 0})]
  /\ UNCHANGED <<pc, attempt, retryDelay, locked>>

Next ==
  \/ \E c \in Caller : \/ Get(c) \/ Wake(c) \/ EnterThrottle(c) \/ Grant(c)
                       \/ Answered(c) \/ TimesOut(c) \/ TurnedAway(c)
  \/ Tick

Spec == Init /\ [][Next]_vars

------------------------------------------------------------------------------
\* The values each variable takes; who sleeps in the throttle holds its lock.
TypeOK ==
  /\ \A c \in Caller : /\ attempt[c] \in 0 .. MaxAttempts - 1
                       /\ retryDelay[c] \in NoDelay .. MaxRetryAfter
                       /\ wait[c] \in 0 .. Max({2 * Backoff, MaxRetryAfter, Interval})
  /\ since \in 0 .. Interval
  /\ locked = \E c \in Caller : pc[c] = "throttle"

\* However its callers overlap, what a client sends is an interval apart, and a
\* caller that was turned away comes back no sooner than it was told to: an
\* earlier delay it was asked for neither shortens nor replaces that.
KeepsDistance ==
  [][\A c \in Caller : pc[c] = "throttle" /\ pc'[c] = "send" =>
       gap = Interval /\ due[c] = 0]_vars
==============================================================================
