----------------------------- MODULE RateLimiter -----------------------------
(***************************************************************************)
(* createRedisRateLimitMiddleware for one rule and one client address: the *)
(* Redis key with its counter and its time to live.                        *)
(***************************************************************************)
EXTENDS Integers

CONSTANTS
  MaxAttempts,  \* rule.max
  Window        \* rule.windowMs, in ticks

\* main.ts drops the rules without a limit or a window.
ASSUME RuleAssumption == MaxAttempts \in Nat \ {0} /\ Window \in Nat \ {0}

VARIABLES
  count,  \* the value of the key, 0 when there is none
  ttl,    \* ticks until Redis drops the key
  age,    \* ticks since the key was created
  passed  \* requests let through by this key

limiterVars == <<count, ttl, age, passed>>

LimiterInit == count = 0 /\ ttl = 0 /\ age = 0 /\ passed = 0

MaxCount == MaxAttempts + 1  \* bound on count, past which nothing changes

\* A bug in its place: every attempt starts the window again.
RearmedTtl == Window

\* The Lua script is atomic: the increment never goes without the expiry.
IncrementedTtl == IF count = 0 THEN Window ELSE ttl

\* A bug in its place: the count before the attempt is compared.
FitsBefore == count <= MaxAttempts

Fits == count + 1 <= MaxAttempts

Increment ==
  /\ count < MaxCount
  /\ count' = count + 1
  /\ ttl' = IncrementedTtl
  /\ age' = age

LetThrough == Increment /\ Fits /\ passed' = passed + 1
Refuse == Increment /\ ~Fits /\ passed' = passed

\* A failing Redis lets the request through, counted or not.
LetThroughByError ==
  \/ UNCHANGED limiterVars
  \/ Increment /\ passed' = passed

Tick ==
  /\ ttl > 0
  /\ IF ttl = 1
       THEN count' = 0 /\ ttl' = 0 /\ age' = 0 /\ passed' = 0
       ELSE /\ ttl' = ttl - 1 /\ age' = age + 1
            /\ UNCHANGED <<count, passed>>

-----------------------------------------------------------------------------
(* Properties *)

\* RATE_LIMIT_LUA: a counter always has a time to live that ends one window
\* after its first attempt, however many attempts follow or fail, so nobody is
\* shut out for longer.
HeldForOneWindow == count > 0 => ttl > 0 /\ age + ttl = Window

\* The middleware never lets more than rule.max requests through on one key,
\* other than those Redis gives no answer for.
AtMostMaxPass == passed <= MaxAttempts
=============================================================================
