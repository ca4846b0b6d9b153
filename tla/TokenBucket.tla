---------------------------- MODULE TokenBucket ----------------------------
(***************************************************************************)
(* The rate limiter the IO threads share (src/util/TokenBucket.cpp).       *)
(*                                                                         *)
(* Time is a count of ticks, tokens are counted in units, `rate' is units  *)
(* per tick and a request costs one unit.  tryAcquire() reads the clock    *)
(* before it locks mutex_, so another thread may come in between.          *)
(*                                                                         *)
(* A definition named X_Y is X with a mistake in it: put in the place of X  *)
(* it must break the property that guards against the mistake.             *)
(***************************************************************************)
EXTENDS Naturals

CONSTANTS
    Threads, \* the IO threads
    Rates,   \* the rates the bucket is configured with
    Bursts,  \* the burst sizes; 0 asks for the default
    Nil,     \* no clock reading
    MaxTime, \* bound: ticks
    MaxGrants\* bound: requests let through under one configuration

TokenAssumption ==
    /\ Rates \subseteq Nat /\ Bursts \subseteq Nat
    /\ MaxTime \in Nat /\ MaxGrants \in Nat
    /\ Nil \notin Nat

VARIABLES
    now,     \* the steady clock
    rate,    \* rate_
    burst,   \* burst_
    tokens,  \* tokens_
    refill,  \* lastRefillTime_
    clock,   \* each thread: the time tryAcquire() has read, or Nil
    since,   \* history: when the bucket was last filled by configure() or reset()
    granted  \* history: requests let through since then

bucketVars == <<rate, burst, tokens, refill>>
vars == <<now, clock, bucketVars, since, granted>>

LeastOf(a, b) == IF a < b THEN a ELSE b

Init ==
    /\ now = 0
    /\ rate \in Rates
    /\ \E b \in Bursts : burst = IF b = 0 THEN rate ELSE b
    /\ tokens = burst /\ refill = 0
    /\ clock = [t \in Threads |-> Nil]
    /\ since = 0 /\ granted = 0

-----------------------------------------------------------------------------
\* tryAcquire(): let everything through if there is no limit, else read the
\* clock ...
ReadClock(t) ==
    /\ clock[t] = Nil
    /\ rate > 0
    /\ clock' = [clock EXCEPT ![t] = now]
    /\ UNCHANGED <<now, bucketVars, since, granted>>

\* refillLocked(): a clock reading older than the last one adds nothing.
Elapsed(at) == IF rate > 0 /\ at > refill THEN at - refill ELSE 0

Refilled(at) == LeastOf(burst, tokens + Elapsed(at) * rate)

RefillTime_Kept(at) == refill

RefillTime(at) == refill + Elapsed(at)

\* tryAcquire() under the lock: refill, then let the request through ...
Grant(t) ==
    /\ clock[t] # Nil /\ Refilled(clock[t]) >= 1
    /\ granted < MaxGrants
    /\ tokens' = Refilled(clock[t]) - 1
    /\ refill' = RefillTime(clock[t])
    /\ granted' = granted + 1
    /\ clock' = [clock EXCEPT ![t] = Nil]
    /\ UNCHANGED <<now, rate, burst, since>>

\* ... or refuse.
Refuse(t) ==
    /\ clock[t] # Nil /\ Refilled(clock[t]) < 1
    /\ tokens' = Refilled(clock[t])
    /\ refill' = RefillTime(clock[t])
    /\ clock' = [clock EXCEPT ![t] = Nil]
    /\ UNCHANGED <<now, rate, burst, since, granted>>

\* configure(): a burst of 0 means the rate.
Configure(r, b) ==
    /\ rate' = r
    /\ burst' = IF b = 0 THEN r ELSE b
    /\ tokens' = burst'
    /\ refill' = now
    /\ since' = now /\ granted' = 0
    /\ UNCHANGED <<now, clock>>

\* reset().
Reset ==
    /\ tokens' = burst
    /\ refill' = now
    /\ since' = now /\ granted' = 0
    /\ UNCHANGED <<now, clock, rate, burst>>

Tick ==
    /\ now < MaxTime
    /\ now' = now + 1
    /\ UNCHANGED <<clock, bucketVars, since, granted>>

Next ==
    \/ \E t \in Threads : ReadClock(t) \/ Grant(t) \/ Refuse(t)
    \/ \E r \in Rates, b \in Bursts : Configure(r, b)
    \/ Reset \/ Tick

Spec == Init /\ [][Next]_vars

-----------------------------------------------------------------------------
(* Properties.                                                             *)

TypeOK ==
    /\ now \in Nat /\ rate \in Nat /\ burst \in Nat
    /\ tokens \in 0..burst
    /\ refill \in since..now /\ since \in 0..now
    /\ clock \in [Threads -> 0..now \union {Nil}]
    /\ granted \in Nat

\* What has been let through and what is left were in the bucket at first or
\* have been refilled since: the ledger the next property rests on.
Ledger == granted + tokens <= burst + (refill - since) * rate

\* The bucket's books balance, whatever the order in which the threads' readings of
\* the clock reach it (refillLocked()).
BooksBalance == TypeOK /\ Ledger

\* "Limits the long-run average rate": however the threads interleave, no more
\* is let through than the burst and the rate over the time that has passed.
LongRunRate == granted <= burst + (now - since) * rate
=============================================================================
