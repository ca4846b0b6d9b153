------------------------------ MODULE Metrics ------------------------------
(***************************************************************************)
(* The counters of the server (src/util/Metrics.cpp).  Each is an atomic   *)
(* of its own, updated by any thread; snapshot() loads them one after the  *)
(* other.  A step is one atomic operation.                                 *)
(*                                                                         *)
(* An update is the sequence of the counters it still has to increment.    *)
(* Latencies are the buckets they fall in; the last one is +Inf.           *)
(* Who calls what, and when, is in Accounting.tla.                         *)
(*                                                                         *)
(* A definition named X_Y is X with a mistake in it: put in the place of X  *)
(* it must break the property that guards against the mistake.             *)
(***************************************************************************)
EXTENDS Integers, SequencesExt

CONSTANTS
    Threads,    \* the threads that report
    Bounds,     \* kBoundsMs, ascending
    NumClasses, \* status classes (5 in the code)
    NumMethods  \* kMethodCount

ASSUME MetricsAssumption ==
    /\ IsFiniteSet(Threads) /\ NumClasses \in Nat \ {0} /\ NumMethods \in Nat \ {0}
    /\ Bounds \in Seq(Nat) /\ Bounds # <<>>
    /\ \A i, j \in 1..Len(Bounds) : i < j => Bounds[i] <= Bounds[j]

Buckets == 1..(Len(Bounds) + 1)
Classes == 1..NumClasses
Methods == 1..NumMethods

\* The counters, and the order snapshot() loads them in.
Total       == <<"connectionsTotal", 0>>
Current     == <<"connectionsCurrent", 0>>
MaxEver     == <<"connectionsMax", 0>>
Requests    == <<"requestsTotal", 0>>
RateLimited == <<"requestsRateLimited", 0>>
Proxied     == <<"requestsProxy", 0>>
ProxyErrors == <<"requestsProxyErrors", 0>>
Count       == <<"latencyCount", 0>>
Class(c)  == <<"statusClasses", c>>
Method(m) == <<"methodCounts", m>>
Bucket(b) == <<"latencyBuckets", b>>

ReadOrder ==
    <<Total, Current, MaxEver, Requests, RateLimited, Proxied, ProxyErrors>>
    \o [c \in Classes |-> Class(c)] \o [m \in Methods |-> Method(m)]
    \o [b \in Buckets |-> Bucket(b)] \o <<Count>>

Counters == {ReadOrder[i] : i \in DOMAIN ReadOrder}

VARIABLES
    value, \* the counters
    todo,  \* each thread: the counters its update has still to increment
    mine,  \* each thread: `current' in onConnectionOpened(), or 0
    seen,  \* each thread: previousMax, or -1 before it is loaded
    snap,  \* the Snapshot being assembled
    at,    \* how many counters snapshot() has loaded
    peak   \* history: the highest connectionsCurrent there has been

threadVars   == <<todo, mine, seen>>
snapshotVars == <<snap, at>>
metricsVars  == <<value, threadVars, snapshotVars, peak>>

MetricsInit ==
    /\ value = [c \in Counters |-> 0]
    /\ todo = [t \in Threads |-> <<>>]
    /\ mine = [t \in Threads |-> 0]
    /\ seen = [t \in Threads |-> -1]
    /\ snap = [c \in Counters |-> 0] /\ at = 0
    /\ peak = 0

Free(t) == todo[t] = <<>> /\ mine[t] = 0

-----------------------------------------------------------------------------
RequestSteps_BucketFirst(c, b) ==
    <<Requests>> \o (IF c \in Classes THEN <<Class(c)>> ELSE <<>>) \o <<Bucket(b), Count>>

\* onRequestFinished(): c is 0 for a status outside 100 to 599.
RequestSteps(c, b) ==
    <<Requests>> \o (IF c \in Classes THEN <<Class(c)>> ELSE <<>>) \o <<Count, Bucket(b)>>

\* onConnectionOpened().
OpenSteps == <<Total, Current>>

\* A thread updates these counters: the first at once.
Report(t, counters) ==
    /\ Free(t)
    /\ IF counters = <<>> THEN UNCHANGED <<value, todo>>
       ELSE /\ value' = [value EXCEPT ![Head(counters)] = @ + 1]
            /\ todo' = [todo EXCEPT ![t] = Tail(counters)]
    /\ UNCHANGED <<mine, seen, snapshotVars, peak>>

\* fetch_add(1) on the next counter.
Bump(t) ==
    LET c == Head(todo[t])
    IN  /\ todo[t] # <<>>
        /\ value' = [value EXCEPT ![c] = @ + 1]
        /\ todo' = [todo EXCEPT ![t] = Tail(@)]
        /\ mine' = [mine EXCEPT ![t] = IF c = Current THEN value'[c] ELSE @]
        /\ peak' = IF value'[Current] > peak THEN value'[Current] ELSE peak
        /\ UNCHANGED <<seen, snapshotVars>>

\* Load connectionsMax_ for the loop that raises it.
LoadMax(t) ==
    /\ mine[t] > 0 /\ todo[t] = <<>> /\ seen[t] = -1
    /\ seen' = [seen EXCEPT ![t] = value[MaxEver]]
    /\ UNCHANGED <<value, todo, mine, snapshotVars, peak>>

Opened(t) == mine' = [mine EXCEPT ![t] = 0] /\ seen' = [seen EXCEPT ![t] = -1]

RaiseMax_Stores(t) ==
    /\ seen[t] # -1 /\ mine[t] > seen[t]
    /\ value' = [value EXCEPT ![MaxEver] = mine[t]] /\ Opened(t)
    /\ UNCHANGED <<todo, snapshotVars, peak>>

\* compare_exchange_weak(): it may fail without a reason, and then reloads.
RaiseMax(t) ==
    /\ seen[t] # -1 /\ mine[t] > seen[t]
    /\ \/ /\ seen[t] = value[MaxEver]
          /\ value' = [value EXCEPT ![MaxEver] = mine[t]] /\ Opened(t)
       \/ /\ seen' = [seen EXCEPT ![t] = value[MaxEver]]
          /\ UNCHANGED <<value, mine>>
    /\ UNCHANGED <<todo, snapshotVars, peak>>

MaxIsHigher(t) ==
    /\ seen[t] # -1 /\ mine[t] <= seen[t]
    /\ Opened(t)
    /\ UNCHANGED <<value, todo, snapshotVars, peak>>

\* onConnectionClosed().
CloseConnection(t) ==
    /\ Free(t)
    /\ value' = [value EXCEPT ![Current] = @ - 1]
    /\ UNCHANGED <<threadVars, snapshotVars, peak>>

-----------------------------------------------------------------------------
(* Snapshots.                                                              *)

\* One load after the other.
Load ==
    /\ at < Len(ReadOrder)
    /\ at' = at + 1
    /\ snap' = [snap EXCEPT ![ReadOrder[at + 1]] = value[ReadOrder[at + 1]]]
    /\ UNCHANGED <<value, threadVars, peak>>

\* The snapshot has been rendered; the next one begins.
Rendered ==
    /\ at = Len(ReadOrder)
    /\ at' = 0 /\ snap' = [c \in Counters |-> 0]
    /\ UNCHANGED <<value, threadVars, peak>>

Update(t) == Bump(t) \/ LoadMax(t) \/ RaiseMax(t) \/ MaxIsHigher(t)

\* What a family of counters adds up to.
Sum(v, family) == FoldFunctionOnSet(+, 0, v, family)

\* The latencies a bucket stands for.
Lower(bounds, b) == IF b = 1 THEN 0 ELSE bounds[b - 1]
Upper(bounds, b) == IF b <= Len(bounds) THEN bounds[b] ELSE 2 * Last(bounds)

\* quantileFromBuckets() for q percent, as a fraction: the place of the q'th
\* percent of `total' in the bucket it is found in.
quantileFromBuckets(bounds, buckets, total, q) ==
    LET UpTo(b) == Sum(buckets, 1..b)
        reached == {b \in DOMAIN buckets : 100 * UpTo(b) >= q * total}
        b       == Min(reached)
        lower   == Lower(bounds, b)
    IN  IF total = 0 THEN <<0, 1>>
        ELSE IF reached = {} THEN <<Last(bounds), 1>>
        ELSE <<lower * 100 * buckets[b]
                 + (Upper(bounds, b) - lower) * (q * total - 100 * UpTo(b - 1)),
               100 * buckets[b]>>

Quantile(v, q) ==
    quantileFromBuckets(Bounds, [b \in Buckets |-> v[Bucket(b)]], v[Count], q)

AtMost(x, y) == x[1] * y[2] <= y[1] * x[2]

-----------------------------------------------------------------------------
(* What can be said of the counters.                                       *)

MetricsTyped ==
    /\ value \in [Counters -> Nat] /\ snap \in [Counters -> Nat]
    /\ at \in 0..Len(ReadOrder)
    /\ \A t \in Threads :
          /\ Len(todo[t]) <= 4 /\ mine[t] \in Nat /\ seen[t] >= -1
          /\ mine[t] = 0 => seen[t] = -1

AllClasses == {Class(c) : c \in Classes}
AllMethods == {Method(m) : m \in Methods}
AllBuckets == {Bucket(b) : b \in Buckets}

\* The threads that have still to count something there.
Left(family) == Cardinality({t \in Threads : \E i \in DOMAIN todo[t] : todo[t][i] \in family})

\* connectionsMax never stands above the highest number of connections there
\* was, and is that number unless a thread is about to raise it.
MaxIsPeak ==
    /\ value[MaxEver] <= peak
    /\ (\A t \in Threads : mine[t] = 0) => value[MaxEver] = peak
=============================================================================
