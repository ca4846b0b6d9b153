----------------------------- MODULE Accounting -----------------------------
(***************************************************************************)
(* What becomes of a request between its arrival and its answer in         *)
(* main.cpp, by what is counted of it: the message callback on an IO       *)
(* thread reports it and asks the rate limiter, itself or a worker         *)
(* answers it, and the answer is reported on an IO thread; connections     *)
(* open and close, and somebody takes a snapshot meanwhile.                *)
(*                                                                         *)
(* Every thread can do everything here: the counters and the bucket tell   *)
(* none from the other.                                                    *)
(*                                                                         *)
(* A definition named X_Y is X with a mistake in it: put in the place of X  *)
(* it must break the property that guards against the mistake.             *)
(***************************************************************************)
EXTENDS Metrics, TLC

CONSTANTS
    MaxEvents, \* bound: requests and connections
    Rates, Bursts, Nil, MaxTime, MaxGrants \* see TokenBucket.tla

VARIABLES
    now, rate, burst, tokens, refill, clock, since, granted, \* see TokenBucket.tla
    stage,    \* each thread: where it is in the message callback
    queued,   \* requests submitted to the workers
    posted,   \* answers that workers have posted to the IO threads
    started, refused, finished, \* history: requests that have come to that point
    opens, closes               \* history: connections opened and closed

limiter == INSTANCE TokenBucket

limiterVars == <<now, rate, burst, tokens, refill, clock, since, granted>>
history     == <<started, refused, finished, opens, closes>>
flowVars    == <<stage, queued, posted, history>>
vars == <<metricsVars, limiterVars, flowVars>>

ASSUME AccountingAssumption == MaxEvents \in Nat /\ limiter!TokenAssumption

Init ==
    /\ MetricsInit /\ limiter!Init
    /\ stage = [t \in Threads |-> "idle"] /\ queued = 0 /\ posted = 0
    /\ started = 0 /\ refused = 0 /\ finished = 0 /\ opens = 0 /\ closes = 0

MayBegin == started + opens < MaxEvents

\* Thread t is at `from', done with its update, and goes on to `to'.
Go(t, from, to) == stage[t] = from /\ Free(t) /\ stage' = [stage EXCEPT ![t] = to]

-----------------------------------------------------------------------------
(* The message callback.                                                   *)

\* A request: onRequestStarted().  The management paths are not limited.
Arrive(t) ==
    /\ MayBegin /\ started' = started + 1
    /\ \E next \in {"limit", "handle"} : Go(t, "idle", next)
    /\ \E m \in Methods : Report(t, <<Method(m)>>)
    /\ UNCHANGED <<limiterVars, queued, posted, refused, finished, opens, closes>>

Unlimited(t) ==
    /\ rate = 0 /\ clock[t] = Nil
    /\ Go(t, "limit", "handle")
    /\ UNCHANGED <<metricsVars, limiterVars, queued, posted, history>>

ReadClock(t) ==
    /\ stage[t] = "limit" /\ Free(t)
    /\ limiter!ReadClock(t)
    /\ UNCHANGED <<metricsVars, flowVars>>

Grant(t) ==
    /\ Go(t, "limit", "handle")
    /\ limiter!Grant(t)
    /\ UNCHANGED <<metricsVars, queued, posted, history>>

\* onRequestRateLimited(), and 429.
Refuse(t) ==
    /\ Go(t, "limit", "answer")
    /\ limiter!Refuse(t)
    /\ Report(t, <<RateLimited>>)
    /\ refused' = refused + 1
    /\ UNCHANGED <<queued, posted, started, finished, opens, closes>>

\* workerPool.submit(), or the thread handles the request itself.
Offload(t) ==
    /\ Go(t, "handle", "idle")
    /\ queued' = queued + 1
    /\ UNCHANGED <<metricsVars, limiterVars, posted, history>>

\* What router.handle() reports: a request that is forwarded, and one whose answer
\* is a server error.
ForwardSteps == {<<>>, <<Proxied>>, <<Proxied, ProxyErrors>>}

HandleHere(t) ==
    /\ Go(t, "handle", "answer")
    /\ \E steps \in ForwardSteps : Report(t, steps)
    /\ UNCHANGED <<limiterVars, queued, posted, history>>

\* A worker, and what it posts.
HandleThere(t) ==
    /\ queued > 0 /\ queued' = queued - 1
    /\ Go(t, "idle", "post")
    /\ \E steps \in ForwardSteps : Report(t, steps)
    /\ UNCHANGED <<limiterVars, posted, history>>

Post(t) ==
    /\ Go(t, "post", "idle")
    /\ posted' = posted + 1
    /\ UNCHANGED <<metricsVars, limiterVars, queued, history>>

\* respond: onRequestFinished().
Finish(t) ==
    /\ \E c \in Classes \cup {0}, b \in Buckets : Report(t, RequestSteps(c, b))
    /\ finished' = finished + 1
    /\ UNCHANGED <<limiterVars, queued, started, refused, opens, closes>>

Respond(t) == Go(t, "answer", "idle") /\ Finish(t) /\ UNCHANGED posted

RespondPosted(t) ==
    /\ posted > 0 /\ posted' = posted - 1
    /\ stage[t] = "idle" /\ Finish(t) /\ UNCHANGED stage

-----------------------------------------------------------------------------
(* Connections, snapshots and the rest.                                    *)

ConnectionOpened(t) ==
    /\ MayBegin /\ opens' = opens + 1
    /\ stage[t] = "idle" /\ Report(t, OpenSteps)
    /\ UNCHANGED <<limiterVars, stage, queued, posted, started, refused, finished, closes>>

\* onConnectionOpened() has not returned.
Opening(t) == mine[t] > 0 \/ \E i \in DOMAIN todo[t] : todo[t][i] = Current

\* A connection whose opening has been counted.
ConnectionClosed(t) ==
    /\ closes + Cardinality({u \in Threads : Opening(u)}) < opens
    /\ closes' = closes + 1
    /\ stage[t] = "idle" /\ CloseConnection(t)
    /\ UNCHANGED <<limiterVars, stage, queued, posted, started, refused, finished, opens>>

Counting(t) == Update(t) /\ UNCHANGED <<limiterVars, flowVars>>

Snapshot == (Load \/ Rendered) /\ UNCHANGED <<limiterVars, flowVars>>

\* Time, and operations of the bucket that main() has no use for.
Limiter ==
    /\ \/ limiter!Tick \/ limiter!Reset
       \/ \E r \in Rates, b \in Bursts : limiter!Configure(r, b)
    /\ UNCHANGED <<metricsVars, flowVars>>

Next ==
    \/ \E t \in Threads :
          \/ Arrive(t) \/ Unlimited(t) \/ ReadClock(t) \/ Grant(t) \/ Refuse(t)
          \/ Offload(t) \/ HandleHere(t) \/ HandleThere(t) \/ Post(t)
          \/ Respond(t) \/ RespondPosted(t)
          \/ ConnectionOpened(t) \/ ConnectionClosed(t) \/ Counting(t)
    \/ Snapshot \/ Limiter

Spec == Init /\ [][Next]_vars

Alike == Permutations(Threads)

-----------------------------------------------------------------------------
(* Properties.                                                             *)

TypeOK ==
    /\ MetricsTyped /\ limiter!TypeOK
    /\ \A t \in Threads : stage[t] \in {"idle", "limit", "handle", "answer", "post"}
    /\ queued \in Nat /\ posted \in Nat

EachIsCounted ==
    /\ started  = Sum(value, AllMethods) + Left(AllMethods)
    /\ refused  = value[RateLimited] + Left({RateLimited})
    /\ finished = value[Requests] + Left({Requests})
    /\ finished = value[Count] + Left({Count})
    /\ finished = Sum(value, AllBuckets) + Left(AllBuckets)
    /\ finished >= Sum(value, AllClasses) + Left(AllClasses)
    /\ opens = value[Total] + Left({Total})
    /\ opens - closes = value[Current] + Left({Current})

\* A request that has been reported is somewhere on its way until it is answered.
NoneIsLost ==
    started = finished + queued + posted + Cardinality({t \in Threads : stage[t] # "idle"})

\* Every request and every connection is counted, and counted once, in each of the
\* places where it should be, and none disappears between two of them; the peak of
\* the connections is not lost either, whoever loses a race (onRequestFinished(),
\* onConnectionOpened()).
NothingUncounted == TypeOK /\ EachIsCounted /\ NoneIsLost /\ MaxIsPeak

\* Although a snapshot is not of one moment, it never shows more requests finished,
\* refused or forwarded than have been reported, nor more latencies in the buckets
\* of the histogram than its count: what is counted first is loaded last
\* (snapshot()).  Its p50, p95 and p99 ascend if all that is in its count is in its
\* buckets as well.
SnapshotIsOrdered ==
    at = Len(ReadOrder) =>
        /\ snap[Requests] <= Sum(snap, AllMethods)
        /\ snap[RateLimited] <= Sum(snap, AllMethods)
        /\ snap[Proxied] <= Sum(snap, AllMethods)
        /\ Sum(snap, AllBuckets) <= snap[Count]
        /\ Sum(snap, AllBuckets) = snap[Count] =>
              /\ AtMost(Quantile(snap, 50), Quantile(snap, 95))
              /\ AtMost(Quantile(snap, 95), Quantile(snap, 99))

\* However the threads' readings of the clock reach the bucket, no more requests are
\* let through than the burst and the rate over the time that has passed, and what
\* is left in the bucket is no more than what has not been let through
\* (tryAcquire(), "limits the long-run average rate").
LongRunRate == limiter!BooksBalance /\ limiter!LongRunRate
=============================================================================
