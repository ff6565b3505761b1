----------------------------- MODULE RateLimiter -----------------------------
(***************************************************************************)
(* The rate limiter of internal/handler/ratelimit.go: the key Redis keeps  *)
(* for one action and one caller (the user of the token, or the address),  *)
(* the Lua script every request runs on it, and what the middleware does   *)
(* with its result.  Routes of one action share the key (main.go); keys do *)
(* not interact, so one stands for all.  The script is one step: Redis     *)
(* runs nothing else meanwhile.                                            *)
(*                                                                         *)
(* Time is counted in ticks of 1 / TicksPerSecond second, because Redis    *)
(* expires keys to the millisecond and reports TTL in rounded seconds.     *)
(***************************************************************************)
EXTENDS Integers

CONSTANTS
  Limit,           \* requests per window
  WindowSeconds,   \* length of the window, 60 in main.go
  TicksPerSecond,
  MaxFailures      \* bound: script runs that return an error

ASSUME RateAssumption == /\ Limit \in Nat \ {0}
                         /\ WindowSeconds \in Nat \ {0}
                         /\ TicksPerSecond \in Nat \ {0}
                         /\ MaxFailures \in Nat

Window == WindowSeconds * TicksPerSecond

VARIABLES
  count,      \* the counter, 0 if Redis has no key; Limit + 1 stands for all above it
  ttl,        \* ticks until the key expires, 0 if it never does
  failures,   \* script runs that returned an error
  watch,      \* an observer's span: the ticks left of it, 0 if nobody observes
  seen,       \* requests let through in that span so far
  refused,    \* history: a request has been answered 429 in this window
  promised    \* history: ticks the first of those was told to wait, less those passed

observer == <<watch, seen>>
vars == <<count, ttl, failures, observer, refused, promised>>

Init == /\ count = 0
        /\ ttl = 0
        /\ failures = 0
        /\ watch = 0
        /\ seen = 0
        /\ refused = FALSE
        /\ promised = 0

-----------------------------------------------------------------------------
(* The script.                                                              *)

Incr == count' = IF count > Limit THEN count ELSE count + 1

\* Mutant: EXPIRE on every request.
ExpireAlwaysMutant == ttl' = Window

\* Mutant: INCR and EXPIRE are separate calls, and the second may be lost.
ExpireLostMutant == ttl' = ttl \/ ttl' = IF count = 0 THEN Window ELSE ttl

\* EXPIRE, by the request whose INCR returned 1.
Expire == ttl' = IF count = 0 THEN Window ELSE ttl

Script == Incr /\ Expire

\* TTL rounds milliseconds to seconds, and is -1 for a key that never expires.
TTL(t) == IF t = 0 THEN -1 ELSE (2 * t + TicksPerSecond) \div (2 * TicksPerSecond)

\* The header: "if ttl < 0 { ttl = windowSeconds }".
RetryAfter(t) == IF TTL(t) < 0 THEN WindowSeconds ELSE TTL(t)

-----------------------------------------------------------------------------
\* The request reaches the handler of the route.
Admit == /\ seen' = IF watch > 0 THEN seen + 1 ELSE 0
         /\ UNCHANGED watch

\* Mutant: the request after the last one gets through.
WithinMutant(n) == n <= Limit + 1

\* "if count > int64(limit)"
Within(n) == n <= Limit

\* c.Next()
Allow == /\ Script
         /\ Within(count')
         /\ Admit
         /\ UNCHANGED <<failures, refused, promised>>

\* 429 with Retry-After.
Reject == /\ Script
          /\ ~Within(count')
          /\ refused' = TRUE
          /\ promised' = IF refused THEN promised ELSE TicksPerSecond * RetryAfter(ttl')
          /\ UNCHANGED <<failures, observer>>

\* "If Redis fails, log or allow request": the request is let through, whether
\* or not the script has run.
FailOpen == /\ failures < MaxFailures
            /\ failures' = failures + 1
            /\ Script \/ UNCHANGED <<count, ttl>>
            /\ Admit
            /\ UNCHANGED <<refused, promised>>

\* Time passes; the key is gone when its time is over.
Tick == LET over == ttl = 1 IN
        /\ ttl' = IF ttl = 0 THEN 0 ELSE ttl - 1
        /\ count' = IF over THEN 0 ELSE count
        /\ refused' = (refused /\ ~over)
        /\ promised' = IF refused /\ ~over THEN promised - 1 ELSE 0
        /\ watch' = IF watch = 0 THEN 0 ELSE watch - 1
        /\ seen' = IF watch > 1 THEN seen ELSE 0
        /\ UNCHANGED failures

\* Somebody begins, at any time, to count what gets through in the next span of
\* a window's length.
Observe == /\ watch = 0
           /\ watch' = Window
           /\ UNCHANGED <<count, ttl, failures, seen, refused, promised>>

Next == Allow \/ Reject \/ FailOpen \/ Tick \/ Observe

Spec == Init /\ [][Next]_vars

\* Time does not stop.
FairSpec == Spec /\ WF_vars(Tick)

-----------------------------------------------------------------------------
(* Properties.                                                              *)

\* The counter is kept per fixed window, yet what a caller gets through in any
\* span of that length, wherever it begins, is less than twice the limit (the
\* request that opens a window is a full window away from the next one), plus
\* one for every failure of Redis.
SlidingBound == seen <= 2 * Limit - 1 + failures

\* No lockout is for ever: a caller over the limit has a fresh counter in the
\* end, however it keeps trying and whatever calls fail meanwhile.
LockoutEnds == count > Limit ~> count = 0

\* Retry-After is honest: from the moment a caller is first refused until the
\* window is over, the time left is what it was told, give or take the half
\* second of TTL's rounding: no request of its own or of others, and no failure,
\* moves the end.
RetryAfterIsHonest ==
  refused => 2 * (promised - ttl) \in -TicksPerSecond .. TicksPerSecond

=============================================================================
