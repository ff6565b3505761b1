-------------------------- MODULE RateLimiter_proofs --------------------------
(***************************************************************************)
(* How much the rate limiter lets through in any span of a window's        *)
(* length, for every limit, window and number of failures, and that its    *)
(* Retry-After is honest.                                                  *)
(*                                                                         *)
(* The argument for the span follows the window that was open when it      *)
(* began.  That window owes its opening request to the time before, so     *)
(* that it contributes at most Limit - 1 requests to the span; a window    *)
(* opened during the span outlives it, so that there is at most one.       *)
(***************************************************************************)
EXTENDS RateLimiter, TLAPS

\* What the bound depends on; the history of refusals is not part of it.
LimiterTypeOK ==
  /\ count \in 0 .. Limit + 1
  /\ ttl \in 0 .. Window
  /\ failures \in 0 .. MaxFailures
  /\ watch \in 0 .. Window
  /\ seen \in Nat

\* A key exists exactly as long as it has time to live.
KeyLives == count = 0 <=> ttl = 0

\* Requests of the open window that got through because of the counter.
Counted == IF count > Limit THEN Limit ELSE count

\* What the span may contain so far, by whether a window is open and whether it
\* was opened before the span began.
SpanBound ==
  /\ watch = 0 => seen = 0
  /\ watch > 0 /\ count = 0 => seen <= Limit - 1 + failures
  /\ watch > 0 /\ count > 0 /\ ttl < watch => seen <= Counted - 1 + failures
  /\ watch > 0 /\ count > 0 /\ ttl >= watch => seen <= Limit - 1 + Counted + failures

LimiterInv == LimiterTypeOK /\ KeyLives /\ SpanBound

\* A window is at least one tick long.
LEMMA WindowType == Window \in Nat \ {0}
  BY RateAssumption DEF Window

LEMMA LimiterInit == Init => LimiterInv
  BY RateAssumption, WindowType DEF Init, LimiterInv, LimiterTypeOK, KeyLives, SpanBound

\* The invariant bounds the span.
LEMMA LimiterBounds == LimiterInv => SlidingBound
  BY RateAssumption DEF LimiterInv, LimiterTypeOK, SpanBound, Counted, SlidingBound

\* What the script leaves behind: a key that lives, opened now or before.
ScriptResult ==
  /\ count' \in 1 .. Limit + 1
  /\ ttl' \in 1 .. Window
  /\ count = 0 => count' = 1 /\ ttl' = Window
  /\ count > 0 => ttl' = ttl
  /\ count' = IF count > Limit THEN count ELSE count + 1

LEMMA ScriptLeaves == LimiterInv /\ Script => ScriptResult
  BY RateAssumption, WindowType
  DEF LimiterInv, LimiterTypeOK, KeyLives, Script, Incr, Expire, ScriptResult

\* No step breaks the invariant.
LEMMA LimiterNext == LimiterInv /\ [Next]_vars => LimiterInv'
<1> SUFFICES ASSUME LimiterInv, [Next]_vars PROVE LimiterInv'
  OBVIOUS
<1>s. Script => ScriptResult
  BY ScriptLeaves
<1> USE RateAssumption, WindowType DEF LimiterInv, LimiterTypeOK, KeyLives, SpanBound, Counted
<1>1. CASE Allow
  <2>1. ScriptResult
    BY <1>1, <1>s DEF Allow
  <2> QED
    BY <1>1, <2>1 DEF Allow, ScriptResult, Within, Admit
<1>2. CASE Reject
  <2>1. ScriptResult
    BY <1>2, <1>s DEF Reject
  <2> QED
    BY <1>2, <2>1 DEF Reject, ScriptResult, Within, observer
<1>3. CASE FailOpen
  <2>1. CASE Script
    <3>1. ScriptResult
      BY <2>1, <1>s
    <3> QED
      BY <1>3, <3>1 DEF FailOpen, ScriptResult, Admit
  <2>2. CASE UNCHANGED <<count, ttl>>
    BY <1>3, <2>2 DEF FailOpen, Admit
  <2> QED
    BY <1>3, <2>1, <2>2 DEF FailOpen
<1>4. CASE Tick
  BY <1>4 DEF Tick
<1>5. CASE Observe
  BY <1>5 DEF Observe
<1>6. CASE UNCHANGED vars
  BY <1>6 DEF vars, observer
<1> QED
  BY <1>1, <1>2, <1>3, <1>4, <1>5, <1>6 DEF Next

\* The counter lives exactly as long as its key has time to live: no request
\* leaves a counter behind that never expires.
THEOREM KeysExpire == Spec => []KeyLives
<1>1. LimiterInv => KeyLives
  BY DEF LimiterInv
<1> QED
  BY <1>1, LimiterInit, LimiterNext, PTL DEF Spec

\* In any span as long as the window fewer than twice the limit get through,
\* plus one for every failure of Redis.
THEOREM SlidingBoundHolds == Spec => []SlidingBound
  BY LimiterInit, LimiterNext, LimiterBounds, PTL DEF Spec

-----------------------------------------------------------------------------
(* The Retry-After header.                                                  *)

LEMMA Quotient ==
  ASSUME NEW a \in Nat, NEW d \in Nat \ {0}
  PROVE  /\ a \div d \in Nat
         /\ d * (a \div d) <= a
         /\ a < d * (a \div d) + d
OBVIOUS

\* What a caller is told is within half a second of the life of its key.
LEMMA RetryAfterRounds ==
  ASSUME NEW t \in Nat \ {0}
  PROVE  LET told == TicksPerSecond * RetryAfter(t) IN
         /\ told \in Int
         /\ 2 * (told - t) \in -TicksPerSecond .. TicksPerSecond
<1> DEFINE T == TicksPerSecond
           q == (2 * t + T) \div (2 * T)
<1>1. T \in Nat \ {0}
  BY RateAssumption
<1>2. 2 * t + T \in Nat /\ 2 * T \in Nat \ {0}
  BY <1>1
<1>3. q \in Nat /\ (2 * T) * q <= 2 * t + T /\ 2 * t + T < (2 * T) * q + 2 * T
  <2> HIDE DEF T
  <2> QED
    BY <1>2, Quotient
<1>4. RetryAfter(t) = q
  BY <1>1, <1>3 DEF RetryAfter, TTL
<1>5. T * q \in Int /\ 2 * (T * q) = (2 * T) * q
  <2> HIDE DEF q, T
  <2> QED
    BY <1>1, <1>3
<1>6. 2 * (T * q - t) \in -T .. T
  <2> DEFINE told == T * q
  <2>1. /\ told \in Int /\ 2 * told <= 2 * t + T /\ 2 * t + T < 2 * told + 2 * T
    BY <1>3, <1>5
  <2> HIDE DEF told, T, q
  <2>2. 2 * (told - t) \in -T .. T
    BY <1>1, <2>1
  <2> QED
    BY <2>2 DEF told
<1> QED
  BY <1>4, <1>5, <1>6

\* A caller that has been refused was told the end of the window that is open.
HonestInv == /\ promised \in Int
             /\ refused => count > 0 /\ RetryAfterIsHonest

LEMMA HonestNext == LimiterInv /\ HonestInv /\ [Next]_vars => HonestInv'
<1> SUFFICES ASSUME LimiterInv, HonestInv, [Next]_vars PROVE HonestInv'
  OBVIOUS
<1>1. /\ count \in Int /\ ttl \in Nat /\ TicksPerSecond \in Nat /\ promised \in Int
      /\ count = 0 <=> ttl = 0
      /\ refused => count > 0 /\ 2 * (promised - ttl) \in -TicksPerSecond .. TicksPerSecond
  BY RateAssumption DEF LimiterInv, LimiterTypeOK, KeyLives, HonestInv, RetryAfterIsHonest
\* Nothing moves the end of a window that is open.
<1>2. ASSUME Script \/ UNCHANGED <<count, ttl>>
      PROVE  count > 0 => count' > 0 /\ ttl' = ttl
  <2>1. CASE Script
    BY <1>1, <2>1, ScriptLeaves DEF ScriptResult
  <2>2. CASE UNCHANGED <<count, ttl>>
    BY <2>2
  <2> QED
    BY <1>2, <2>1, <2>2
<1>3. CASE \/ Allow \/ FailOpen \/ Observe \/ UNCHANGED vars
           \/ Reject /\ refused
  <2>1. refused' = refused /\ promised' = promised /\ (Script \/ UNCHANGED <<count, ttl>>)
    <3>1. CASE Allow
      BY <3>1 DEF Allow
    <3>2. CASE FailOpen
      BY <3>2 DEF FailOpen
    <3>3. CASE Observe
      BY <3>3 DEF Observe
    <3>4. CASE UNCHANGED vars
      BY <3>4 DEF vars
    <3>5. CASE Reject /\ refused
      BY <3>5 DEF Reject
    <3> QED
      BY <1>3, <3>1, <3>2, <3>3, <3>4, <3>5
  <2>2. promised' \in Int
    BY <1>1, <2>1
  <2>3. ASSUME refused'
        PROVE  count' > 0 /\ 2 * (promised' - ttl') \in -TicksPerSecond .. TicksPerSecond
    <3>1. refused
      BY <2>1, <2>3
    <3> QED
      BY <1>1, <1>2, <2>1, <3>1
  <2> QED
    BY <2>2, <2>3 DEF HonestInv, RetryAfterIsHonest
<1>4. CASE Reject /\ ~refused
  <2>1. ScriptResult /\ promised' = TicksPerSecond * RetryAfter(ttl')
    BY <1>4, ScriptLeaves DEF Reject
  <2>2. ttl' \in Nat \ {0} /\ count' > 0
    BY <2>1, WindowType, RateAssumption DEF ScriptResult
  <2> QED
    BY <2>1, <2>2, RetryAfterRounds DEF HonestInv, RetryAfterIsHonest
<1>5. CASE Tick
  <2>1. CASE refused /\ ttl # 1
    <3>1. promised' = promised - 1 /\ ttl' = ttl - 1 /\ count' = count
      BY <1>1, <1>5, <2>1 DEF Tick
    <3> QED
      BY <1>1, <2>1, <3>1 DEF HonestInv, RetryAfterIsHonest
  <2>2. CASE ~refused \/ ttl = 1
    <3>1. promised' = 0 /\ ~refused'
      BY <1>5, <2>2 DEF Tick
    <3> QED
      BY <3>1 DEF HonestInv
  <2> QED
    BY <2>1, <2>2
<1> QED
  BY <1>3, <1>4, <1>5 DEF Next

\* Retry-After is honest for every limit, window and resolution of the clock.
THEOREM RetryAfterStaysHonest == Spec => []RetryAfterIsHonest
<1>1. Init => HonestInv
  BY DEF Init, HonestInv
<1>2. HonestInv => RetryAfterIsHonest
  BY DEF HonestInv, RetryAfterIsHonest
<1> QED
  BY <1>1, <1>2, LimiterInit, LimiterNext, HonestNext, PTL DEF Spec

=============================================================================
