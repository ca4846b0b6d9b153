-------------------------- MODULE AccountingProofs --------------------------
(***************************************************************************)
(* Proofs about Accounting, for any number of threads, classes, methods    *)
(* and latency bounds, and any rates and burst sizes: the rate limiter     *)
(* keeps its rate, whatever happens to requests and connections is counted *)
(* once, and a snapshot taken meanwhile is ordered.                        *)
(***************************************************************************)
EXTENDS Accounting, CommonLemmas

-----------------------------------------------------------------------------
(* Refilling, over plain numbers: b is the size of the bucket, t what is in *)
(* it, g what was let through, d the time it has been filled for, e the     *)
(* time that is added now and r the rate.                                   *)

LEMMA Products ==
    ASSUME NEW d \in Nat, NEW e \in Nat, NEW r \in Nat
    PROVE  d * r \in Nat /\ (d + e) * r = d * r + e * r
OBVIOUS

\* No time adds nothing.
LEMMA NoTime == ASSUME NEW r \in Nat PROVE 0 * r = 0
OBVIOUS

\* A bucket that has just been filled.
LEMMA StartBalances ==
    ASSUME NEW b \in Nat, NEW g, g = 0, NEW z, z = 0
    PROVE  g + b <= b + z
OBVIOUS

LEMMA LongerIsMore ==
    ASSUME NEW d \in Nat, NEW e \in Nat, NEW r \in Nat, d <= e
    PROVE  d * r <= e * r
<1>1. /\ e - d \in Nat /\ e = d + (e - d)
  OBVIOUS
<1>2. (e - d) * r \in Nat /\ d * r \in Nat /\ (d + (e - d)) * r = d * r + (e - d) * r
  BY <1>1, Products
<1>3. QED  BY <1>1, <1>2

\* The books balance after a refill as they did before it.
LEMMA RefillBalances ==
    ASSUME NEW b \in Nat, NEW t \in 0..b, NEW g \in Nat, NEW r \in Nat,
           NEW d \in Nat, NEW e \in Nat, g + t <= b + d * r
    PROVE  /\ limiter!LeastOf(b, t + e * r) \in t..b
           /\ g + limiter!LeastOf(b, t + e * r) <= b + (d + e) * r
<1>1. /\ d * r \in Nat /\ e * r \in Nat /\ (d + e) * r = d * r + e * r
  BY Products
<1>2. QED  BY <1>1 DEF limiter!LeastOf

-----------------------------------------------------------------------------
(* The bucket's steps keep its books.                                      *)

Books == limiter!TypeOK /\ limiter!Ledger

LEMMA BooksInit == Init => Books
<1> SUFFICES ASSUME Init PROVE Books
  OBVIOUS
<1> USE AccountingAssumption DEF limiter!TokenAssumption
<1>1. limiter!Init
  BY DEF Init
<1>2. /\ now = 0 /\ refill = 0 /\ since = 0 /\ granted = 0
      /\ rate \in Nat /\ burst \in Nat /\ tokens = burst
  BY <1>1 DEF limiter!Init
<1>3. clock \in [Threads -> 0..now \union {Nil}]
  BY <1>1 DEF limiter!Init
<1>4. limiter!TypeOK
  BY <1>2, <1>3 DEF limiter!TypeOK
<1>5. (refill - since) * rate \in Nat
  BY <1>2, Products
<1>6. QED  BY <1>2, <1>4, <1>5 DEF Books, limiter!Ledger

\* A refill with the reading of a thread that has one.
LEMMA Refill ==
    ASSUME Books, NEW t \in Threads, clock[t] # Nil
    PROVE  /\ limiter!Refilled(clock[t]) \in 0..burst
           /\ limiter!RefillTime(clock[t]) \in refill..now
           /\ granted + limiter!Refilled(clock[t])
                 <= burst + (limiter!RefillTime(clock[t]) - since) * rate
<1> DEFINE e == limiter!Elapsed(clock[t])
           d == refill - since
<1>1. /\ burst \in Nat /\ tokens \in 0..burst /\ granted \in Nat /\ rate \in Nat
      /\ d \in Nat /\ refill \in 0..now /\ since \in Nat /\ now \in Nat
  BY DEF Books, limiter!TypeOK
<1>2. clock[t] \in 0..now
  BY DEF Books, limiter!TypeOK
<1>3. /\ e \in Nat /\ refill + e \in refill..now
  BY <1>1, <1>2 DEF limiter!Elapsed
<1>4. granted + tokens <= burst + d * rate
  BY DEF Books, limiter!Ledger
<1> HIDE DEF e, d
<1>5. /\ limiter!LeastOf(burst, tokens + e * rate) \in tokens..burst
      /\ granted + limiter!LeastOf(burst, tokens + e * rate) <= burst + (d + e) * rate
  BY <1>1, <1>3, <1>4, RefillBalances
<1>6. /\ limiter!Refilled(clock[t]) = limiter!LeastOf(burst, tokens + e * rate)
      /\ limiter!RefillTime(clock[t]) = refill + e
  BY DEF limiter!Refilled, limiter!RefillTime, e
<1>7. (refill + e) - since = d + e
  BY <1>1, <1>3 DEF d
<1>8. QED  BY <1>1, <1>3, <1>5, <1>6, <1>7

\* A thread's reading comes or goes.
LEMMA ClockTyped ==
    ASSUME Books, NEW t \in Threads, NEW c \in 0..now \union {Nil},
           now' = now, clock' = [clock EXCEPT ![t] = c]
    PROVE  clock' \in [Threads -> 0..now' \union {Nil}]
BY DEF Books, limiter!TypeOK

LEMMA BooksGrant ==
    ASSUME Books, NEW t \in Threads, limiter!Grant(t)
    PROVE  Books'
<1>1. /\ clock[t] # Nil /\ limiter!Refilled(clock[t]) >= 1
      /\ tokens' = limiter!Refilled(clock[t]) - 1
      /\ refill' = limiter!RefillTime(clock[t])
      /\ granted' = granted + 1
      /\ now' = now /\ rate' = rate /\ burst' = burst /\ since' = since
  BY DEF limiter!Grant
<1>2. clock' \in [Threads -> 0..now' \union {Nil}]
  BY <1>1, ClockTyped DEF limiter!Grant
<1>3. /\ limiter!Refilled(clock[t]) \in 0..burst
      /\ limiter!RefillTime(clock[t]) \in refill..now
      /\ granted + limiter!Refilled(clock[t])
            <= burst + (limiter!RefillTime(clock[t]) - since) * rate
  BY <1>1, Refill
<1>4. /\ now \in Nat /\ rate \in Nat /\ burst \in Nat /\ granted \in Nat
      /\ refill \in since..now /\ since \in 0..now
  BY DEF Books, limiter!TypeOK
<1>5. limiter!TypeOK'
  BY <1>1, <1>2, <1>3, <1>4 DEF limiter!TypeOK
<1>6. granted' + tokens' = granted + limiter!Refilled(clock[t])
  BY <1>1, <1>3, <1>4
<1>7. limiter!Ledger'
  BY <1>1, <1>3, <1>6 DEF limiter!Ledger
<1>8. QED  BY <1>5, <1>7 DEF Books

LEMMA BooksRefuse ==
    ASSUME Books, NEW t \in Threads, limiter!Refuse(t)
    PROVE  Books'
<1>1. /\ clock[t] # Nil
      /\ tokens' = limiter!Refilled(clock[t])
      /\ refill' = limiter!RefillTime(clock[t])
      /\ granted' = granted
      /\ now' = now /\ rate' = rate /\ burst' = burst /\ since' = since
  BY DEF limiter!Refuse
<1>2. clock' \in [Threads -> 0..now' \union {Nil}]
  BY <1>1, ClockTyped DEF limiter!Refuse
<1>3. /\ limiter!Refilled(clock[t]) \in 0..burst
      /\ limiter!RefillTime(clock[t]) \in refill..now
      /\ granted + limiter!Refilled(clock[t])
            <= burst + (limiter!RefillTime(clock[t]) - since) * rate
  BY <1>1, Refill
<1>4. /\ now \in Nat /\ rate \in Nat /\ burst \in Nat /\ granted \in Nat
      /\ refill \in since..now /\ since \in 0..now
  BY DEF Books, limiter!TypeOK
<1>5. limiter!TypeOK'
  BY <1>1, <1>2, <1>3, <1>4 DEF limiter!TypeOK
<1>6. limiter!Ledger'
  BY <1>1, <1>3 DEF limiter!Ledger
<1>7. QED  BY <1>5, <1>6 DEF Books

\* configure() and reset() begin a new book.
LEMMA BooksRefilled ==
    ASSUME Books, rate' \in Nat, burst' \in Nat, tokens' = burst', refill' = now,
           since' = now, granted' = 0, now' = now, clock' = clock
    PROVE  Books'
<1>1. now \in Nat /\ clock' \in [Threads -> 0..now' \union {Nil}]
  BY DEF Books, limiter!TypeOK
<1>2. limiter!TypeOK'
  BY <1>1 DEF limiter!TypeOK
<1>3. refill' - since' = 0
  BY <1>1
<1>4. (refill' - since') * rate' = 0
  BY <1>3, NoTime
<1>5. granted' = 0 /\ tokens' \in Nat /\ burst' = tokens'
  OBVIOUS
<1>6. limiter!Ledger'
  BY <1>4, <1>5, StartBalances DEF limiter!Ledger
<1>7. QED  BY <1>2, <1>6 DEF Books

LEMMA BooksTick ==
    ASSUME Books, limiter!Tick
    PROVE  Books'
<1>1. /\ now' = now + 1 /\ clock' = clock
      /\ rate' = rate /\ burst' = burst /\ tokens' = tokens /\ refill' = refill
      /\ since' = since /\ granted' = granted
  BY DEF limiter!Tick, limiter!bucketVars
<1>2. now \in Nat /\ 0..now \subseteq 0..(now + 1)
  BY DEF Books, limiter!TypeOK
<1>3. clock' \in [Threads -> 0..now' \union {Nil}]
  BY <1>1, <1>2 DEF Books, limiter!TypeOK
<1>4. limiter!TypeOK'
  BY <1>1, <1>2, <1>3 DEF Books, limiter!TypeOK
<1>5. QED  BY <1>1, <1>4 DEF Books, limiter!Ledger

LEMMA BooksReadClock ==
    ASSUME Books, NEW t \in Threads, limiter!ReadClock(t)
    PROVE  Books'
<1>1. /\ now' = now /\ clock' = [clock EXCEPT ![t] = now]
      /\ rate' = rate /\ burst' = burst /\ tokens' = tokens /\ refill' = refill
      /\ since' = since /\ granted' = granted
  BY DEF limiter!ReadClock, limiter!bucketVars
<1>2. now \in 0..now
  BY DEF Books, limiter!TypeOK
<1>3. clock' \in [Threads -> 0..now' \union {Nil}]
  BY <1>1, <1>2, ClockTyped
<1>4. QED  BY <1>1, <1>3 DEF Books, limiter!TypeOK, limiter!Ledger
-----------------------------------------------------------------------------
(* The server's steps.                                                     *)

\* A step of the limiter's own: time, and operations main() has no use for.
LEMMA BooksLimiter == Books /\ Limiter => Books'
<1> SUFFICES ASSUME Books, Limiter PROVE Books'
  OBVIOUS
<1>1. CASE limiter!Tick
  BY <1>1, BooksTick
<1>2. CASE limiter!Reset
  <2>1. /\ tokens' = burst /\ refill' = now /\ since' = now /\ granted' = 0
        /\ now' = now /\ clock' = clock /\ rate' = rate /\ burst' = burst
    BY <1>2 DEF limiter!Reset
  <2>2. rate' \in Nat /\ burst' \in Nat
    BY <2>1 DEF Books, limiter!TypeOK
  <2>3. QED  BY <2>1, <2>2, BooksRefilled
<1>3. ASSUME NEW r \in Rates, NEW b \in Bursts, limiter!Configure(r, b) PROVE Books'
  <2>1. r \in Nat /\ b \in Nat
    BY AccountingAssumption DEF limiter!TokenAssumption
  <2>2. /\ rate' = r /\ burst' = IF b = 0 THEN r ELSE b
        /\ tokens' = burst' /\ refill' = now /\ since' = now /\ granted' = 0
        /\ now' = now /\ clock' = clock
    BY <1>3 DEF limiter!Configure
  <2>3. QED  BY <2>1, <2>2, BooksRefilled
<1>4. QED  BY <1>1, <1>2, <1>3 DEF Limiter

LEMMA BooksUnchanged == Books /\ UNCHANGED limiterVars => Books'
BY DEF limiterVars, Books, limiter!TypeOK, limiter!Ledger

\* Whatever a thread does, it leaves the bucket alone or makes one of its steps.
LEMMA BooksThread ==
    ASSUME Books, NEW t \in Threads,
           \/ Arrive(t) \/ Unlimited(t) \/ ReadClock(t) \/ Grant(t) \/ Refuse(t)
           \/ Offload(t) \/ HandleHere(t) \/ HandleThere(t) \/ Post(t)
           \/ Respond(t) \/ RespondPosted(t)
           \/ ConnectionOpened(t) \/ ConnectionClosed(t) \/ Counting(t)
    PROVE  Books'
<1>1. CASE ReadClock(t)
  BY <1>1, BooksReadClock DEF ReadClock
<1>2. CASE Grant(t)
  BY <1>2, BooksGrant DEF Grant
<1>3. CASE Refuse(t)
  BY <1>3, BooksRefuse DEF Refuse
<1>4. CASE Arrive(t) \/ Unlimited(t) \/ Offload(t) \/ HandleHere(t) \/ HandleThere(t) \/ Post(t)
  <2>1. UNCHANGED limiterVars
    BY <1>4 DEF Arrive, Unlimited, Offload, HandleHere, HandleThere, Post
  <2>2. QED  BY <2>1, BooksUnchanged
<1>5. CASE Respond(t) \/ RespondPosted(t)
  <2>1. UNCHANGED limiterVars
    BY <1>5 DEF Respond, RespondPosted, Finish
  <2>2. QED  BY <2>1, BooksUnchanged
<1>6. CASE ConnectionOpened(t) \/ ConnectionClosed(t) \/ Counting(t)
  <2>1. UNCHANGED limiterVars
    BY <1>6 DEF ConnectionOpened, ConnectionClosed, Counting
  <2>2. QED  BY <2>1, BooksUnchanged
<1>7. QED  BY <1>1, <1>2, <1>3, <1>4, <1>5, <1>6

LEMMA BooksStep == Books /\ [Next]_vars => Books'
<1> SUFFICES ASSUME Books, [Next]_vars PROVE Books'
  OBVIOUS
<1>1. CASE \E t \in Threads :
             \/ Arrive(t) \/ Unlimited(t) \/ ReadClock(t) \/ Grant(t) \/ Refuse(t)
             \/ Offload(t) \/ HandleHere(t) \/ HandleThere(t) \/ Post(t)
             \/ Respond(t) \/ RespondPosted(t)
             \/ ConnectionOpened(t) \/ ConnectionClosed(t) \/ Counting(t)
  BY <1>1, BooksThread
<1>2. CASE Snapshot
  BY <1>2, BooksUnchanged DEF Snapshot
<1>3. CASE Limiter
  BY <1>3, BooksLimiter
<1>4. CASE UNCHANGED vars
  <2>1. UNCHANGED limiterVars
    BY <1>4 DEF vars
  <2>2. QED  BY <2>1, BooksUnchanged
<1>5. QED  BY <1>1, <1>2, <1>3, <1>4 DEF Next

\* What the books say of what was let through.
LEMMA BooksBoundGrants == Books => LongRunRate
<1> SUFFICES ASSUME Books PROVE LongRunRate
  OBVIOUS
<1>1. /\ granted \in Nat /\ tokens \in Nat /\ burst \in Nat /\ rate \in Nat
      /\ refill - since \in Nat /\ now - since \in Nat /\ refill - since <= now - since
  BY DEF Books, limiter!TypeOK
<1>2. (refill - since) * rate <= (now - since) * rate
  BY <1>1, LongerIsMore
<1>3. (refill - since) * rate \in Nat /\ (now - since) * rate \in Nat
  BY <1>1, Products
<1>4. granted + tokens <= burst + (refill - since) * rate
  BY DEF Books, limiter!Ledger
<1>5. granted <= burst + (now - since) * rate
  BY <1>1, <1>2, <1>3, <1>4
<1>6. QED  BY <1>5 DEF Books, LongRunRate, limiter!BooksBalance, limiter!LongRunRate

\* However the threads' readings of the clock reach the bucket, no more requests are
\* let through than the burst and the rate over the time that has passed
\* (TokenBucket::tryAcquire(), refillLocked()).
THEOREM RateIsKept == Spec => []LongRunRate
<1>1. Init => Books
  BY BooksInit
<1>2. Books /\ [Next]_vars => Books'
  BY BooksStep
<1>3. Books => LongRunRate
  BY BooksBoundGrants
<1>4. QED  BY <1>1, <1>2, <1>3, PTL DEF Spec

-----------------------------------------------------------------------------
(* The counters.                                                           *)

\* The counters that snapshot() loads before those of the methods, and the rest.
First7 == {Total, Current, MaxEver, Requests, RateLimited, Proxied, ProxyErrors}
Others == AllClasses \cup AllMethods \cup AllBuckets \cup {Count}

In(s) == {s[i] : i \in 1..Len(s)}

LEMMA Kinds ==
    /\ Total[1] = "connectionsTotal" /\ Current[1] = "connectionsCurrent"
    /\ MaxEver[1] = "connectionsMax" /\ Requests[1] = "requestsTotal"
    /\ RateLimited[1] = "requestsRateLimited" /\ Proxied[1] = "requestsProxy"
    /\ ProxyErrors[1] = "requestsProxyErrors" /\ Count[1] = "latencyCount"
    /\ \A c \in AllClasses : c[1] = "statusClasses"
    /\ \A c \in AllMethods : c[1] = "methodCounts"
    /\ \A c \in AllBuckets : c[1] = "latencyBuckets"
BY DEF Total, Current, MaxEver, Requests, RateLimited, Proxied, ProxyErrors, Count,
   AllClasses, AllMethods, AllBuckets, Class, Method, Bucket

LEMMA Disjoint ==
    /\ \A c \in First7 : c \notin Others
    /\ \A c \in AllMethods : c \notin AllBuckets /\ c \notin AllClasses /\ c # Count
    /\ \A c \in AllBuckets : c \notin AllClasses /\ c # Count
    /\ \A c \in AllClasses : c # Count
BY Kinds DEF First7, Others

\* A sequence that begins with the seven, and has none of them later.
Begins(s) ==
    /\ Len(s) >= 7
    /\ \A i \in 1..Len(s) : IF i <= 7 THEN s[i] \in First7 ELSE s[i] \in Others

LEMMA BeginsJoin ==
    ASSUME NEW S, NEW s \in Seq(S), NEW t \in Seq(S), Begins(s), In(t) \subseteq Others
    PROVE  s \o t \in Seq(S) /\ Begins(s \o t) /\ In(s \o t) = In(s) \cup In(t)
<1> DEFINE e == s \o t
           m == Len(s)
           n == Len(t)
<1>1. /\ e \in Seq(S) /\ Len(e) = m + n /\ m \in Nat /\ n \in Nat /\ m >= 7
      /\ \A i \in 1..(m + n) : e[i] = IF i <= m THEN s[i] ELSE t[i - m]
  BY ConcatProperties, LenProperties DEF Begins
<1>2. /\ \A i \in 1..m : IF i <= 7 THEN s[i] \in First7 ELSE s[i] \in Others
      /\ \A i \in 1..n : t[i] \in Others
  BY DEF Begins, In
<1>3. /\ \A i \in 1..m : i \in 1..(m + n) /\ i <= m
      /\ \A i \in 1..n : m + i \in 1..(m + n) /\ ~(m + i <= m) /\ (m + i) - m = i
      /\ \A i \in 1..(m + n) : i \in 1..m \/ (i - m \in 1..n /\ i > m)
  BY <1>1
<1> HIDE DEF e, m, n
<1>4. /\ \A i \in 1..m : e[i] = s[i]
      /\ \A i \in 1..n : e[m + i] = t[i]
      /\ \A i \in 1..(m + n) :
            \/ i \in 1..m /\ e[i] = s[i]
            \/ i - m \in 1..n /\ i > m /\ e[i] = t[i - m]
  <2>1. ASSUME NEW i \in 1..(m + n)
        PROVE  \/ i \in 1..m /\ e[i] = s[i]
               \/ i - m \in 1..n /\ i > m /\ e[i] = t[i - m]
    BY <1>1
  <2>2. ASSUME NEW i \in 1..n PROVE e[m + i] = t[i]
    BY <1>1, <1>3
  <2>3. ASSUME NEW i \in 1..m PROVE e[i] = s[i]
    BY <1>1, <1>3
  <2>4. QED  BY <2>1, <2>2, <2>3, Zenon
<1>5. Begins(e)
  <2>1. ASSUME NEW i \in 1..(m + n)
        PROVE  IF i <= 7 THEN e[i] \in First7 ELSE e[i] \in Others
    <3>1. CASE i \in 1..m /\ e[i] = s[i]
      BY <1>2, <3>1
    <3>2. CASE i - m \in 1..n /\ i > m /\ e[i] = t[i - m]
      BY <1>1, <1>2, <3>2
    <3>3. QED  BY <1>4, <3>1, <3>2
  <2>2. QED  BY <1>1, <2>1 DEF Begins
<1>6. In(e) = In(s) \cup In(t)
  <2>1. ASSUME NEW x PROVE (\E i \in 1..(m + n) : e[i] = x)
                              <=> (\E i \in 1..m : s[i] = x) \/ (\E i \in 1..n : t[i] = x)
    BY <1>3, <1>4
  <2>2. /\ In(e) = {e[i] : i \in 1..(m + n)}
        /\ In(s) = {s[i] : i \in 1..m} /\ In(t) = {t[i] : i \in 1..n}
    BY <1>1 DEF In, m, n
  <2>3. QED  BY <2>1, <2>2
<1>7. QED  BY <1>1, <1>5, <1>6 DEF e

LEMMA ReadOrderBegins ==
    /\ ReadOrder \in Seq(First7 \cup Others) /\ Begins(ReadOrder)
    /\ Counters = First7 \cup Others
    /\ ReadOrder[Len(ReadOrder)] = Count
<1> DEFINE S == First7 \cup Others
           a == <<Total, Current, MaxEver, Requests, RateLimited, Proxied, ProxyErrors>>
           b == [c \in Classes |-> Class(c)]
           m == [k \in Methods |-> Method(k)]
           l == [k \in Buckets |-> Bucket(k)]
           z == <<Count>>
<1>1. a \in Seq(S) /\ Begins(a) /\ In(a) = First7
  <2>1. Len(a) = 7 /\ a \in Seq(S)
    BY DEF First7
  <2>2. In(a) = First7
    BY DEF In, First7
  <2>3. QED  BY <2>1, <2>2 DEF Begins, In
<1>0. NumClasses \in Nat /\ NumMethods \in Nat /\ Len(Bounds) + 1 \in Nat
  BY MetricsAssumption, LenProperties
<1>2. b \in Seq(S) /\ In(b) = AllClasses
  BY <1>0 DEF In, AllClasses, Classes, Others
<1>3. m \in Seq(S) /\ In(m) = AllMethods
  BY <1>0 DEF In, AllMethods, Methods, Others
<1>4. l \in Seq(S) /\ In(l) = AllBuckets
  BY <1>0 DEF In, AllBuckets, Buckets, Others
<1>5. z \in Seq(S) /\ In(z) = {Count} /\ Len(z) = 1 /\ z[1] = Count
  BY DEF In, Others
<1>6. /\ AllClasses \subseteq Others /\ AllMethods \subseteq Others
      /\ AllBuckets \subseteq Others /\ {Count} \subseteq Others
  BY DEF Others
<1> HIDE DEF a, b, m, l, z, S
<1> DEFINE x1 == a \o b
           x2 == x1 \o m
           x3 == x2 \o l
           x4 == x3 \o z
<1>7. x1 \in Seq(S) /\ Begins(x1) /\ In(x1) = First7 \cup AllClasses
  BY <1>1, <1>2, <1>6, BeginsJoin
<1> HIDE DEF x1
<1>8. x2 \in Seq(S) /\ Begins(x2) /\ In(x2) = First7 \cup AllClasses \cup AllMethods
  BY <1>3, <1>6, <1>7, BeginsJoin
<1> HIDE DEF x2
<1>9. /\ x3 \in Seq(S) /\ Begins(x3)
      /\ In(x3) = First7 \cup AllClasses \cup AllMethods \cup AllBuckets
  BY <1>4, <1>6, <1>8, BeginsJoin
<1> HIDE DEF x3
<1>10. /\ x4 \in Seq(S) /\ Begins(x4)
       /\ In(x4) = First7 \cup AllClasses \cup AllMethods \cup AllBuckets \cup {Count}
  BY <1>5, <1>6, <1>9, BeginsJoin
<1> HIDE DEF x4
<1>11. ReadOrder = x4
  BY DEF ReadOrder, a, b, m, l, z, x1, x2, x3, x4
<1>12. Counters = In(ReadOrder)
  <2>1. DOMAIN ReadOrder = 1..Len(ReadOrder)
    BY <1>10, <1>11, LenProperties
  <2>2. QED  BY <2>1 DEF Counters, In
<1>13. ReadOrder[Len(ReadOrder)] = Count
  <2>1. x3 \in Seq(S) /\ ReadOrder = x3 \o z
    BY <1>9, <1>11 DEF x4
  <2> DEFINE n == Len(z)
  <2>0. n = 1
    BY <1>5
  <2> HIDE DEF n
  <2>a. /\ Len(x3 \o z) = Len(x3) + n /\ Len(x3) \in Nat
        /\ \A i \in 1..(Len(x3) + n) :
              (x3 \o z)[i] = IF i <= Len(x3) THEN x3[i] ELSE z[i - Len(x3)]
    BY <1>5, <2>1, ConcatProperties, LenProperties DEF n
  <2>2. /\ Len(x3 \o z) = Len(x3) + 1 /\ Len(x3) \in Nat
        /\ \A i \in 1..(Len(x3) + 1) :
              (x3 \o z)[i] = IF i <= Len(x3) THEN x3[i] ELSE z[i - Len(x3)]
    BY <2>0, <2>a
  <2>3. /\ (Len(x3) + 1) - Len(x3) = 1 /\ ~(Len(x3) + 1 <= Len(x3))
        /\ Len(x3) + 1 \in 1..(Len(x3) + 1)
    BY <2>2
  <2>4. QED  BY <1>5, <2>1, <2>2, <2>3
<1>14. QED  BY <1>10, <1>11, <1>12, <1>13 DEF S, Others

-----------------------------------------------------------------------------
(* Families of counters, what they add up to and what is still to be added. *)

\* Counters of one kind.
Family(F) == F \subseteq Counters /\ IsFiniteSet(F) /\ \A c, d \in F : c[1] = d[1]

LEMMA IsFamily ==
    /\ Family(AllMethods) /\ Family(AllClasses) /\ Family(AllBuckets)
    /\ \A c \in Counters : Family({c})
<1>0. NumClasses \in Nat /\ NumMethods \in Nat /\ Len(Bounds) + 1 \in Nat
  BY MetricsAssumption, LenProperties
<1>1. /\ AllClasses \subseteq Counters /\ AllMethods \subseteq Counters
      /\ AllBuckets \subseteq Counters
  BY ReadOrderBegins DEF Others
<1>2. IsFiniteSet(AllMethods)
  <2> DEFINE f == [m \in Methods |-> Method(m)]
  <2>1. IsFiniteSet(Methods)
    BY <1>0, FS_Interval DEF Methods
  <2>2. f \in Surjection(Methods, AllMethods)
    BY DEF Surjection, AllMethods
  <2>3. QED  BY <2>1, <2>2, FS_Surjection, Zenon
<1>3. IsFiniteSet(AllClasses)
  <2> DEFINE f == [c \in Classes |-> Class(c)]
  <2>1. IsFiniteSet(Classes)
    BY <1>0, FS_Interval DEF Classes
  <2>2. f \in Surjection(Classes, AllClasses)
    BY DEF Surjection, AllClasses
  <2>3. QED  BY <2>1, <2>2, FS_Surjection, Zenon
<1>4. IsFiniteSet(AllBuckets)
  <2> DEFINE f == [b \in Buckets |-> Bucket(b)]
  <2>1. IsFiniteSet(Buckets)
    BY <1>0, FS_Interval DEF Buckets
  <2>2. f \in Surjection(Buckets, AllBuckets)
    BY DEF Surjection, AllBuckets
  <2>3. QED  BY <2>1, <2>2, FS_Surjection, Zenon
<1>5. \A c \in Counters : IsFiniteSet({c})
  BY FS_Singleton
<1>6. QED  BY <1>1, <1>2, <1>3, <1>4, <1>5, Kinds DEF Family

LEMMA SumIs == \A v, F : Sum(v, F) = SumOver(v, F)
BY DEF Sum, FoldFunctionOnSet, MapThenFoldSet, SumOver, Sums, IsSum, Chosen

\* A set that may have gained or lost one element.
LEMMA OneApart ==
    ASSUME NEW A, NEW B, IsFiniteSet(A), NEW t, A \ {t} = B \ {t}
    PROVE  /\ Cardinality(A) \in Nat /\ Cardinality(B) \in Nat /\ IsFiniteSet(B)
           /\ Cardinality(B) + (IF t \in A THEN 1 ELSE 0)
                 = Cardinality(A) + (IF t \in B THEN 1 ELSE 0)
<1> DEFINE C == A \ {t}
<1>1. IsFiniteSet(C) /\ Cardinality(C) \in Nat
  BY FS_Subset, FS_CardinalityType
<1>2. t \notin C /\ C = B \ {t}
  OBVIOUS
<1>3. /\ A = IF t \in A THEN C \cup {t} ELSE C
      /\ B = IF t \in B THEN C \cup {t} ELSE C
  OBVIOUS
<1>4. IsFiniteSet(C \cup {t}) /\ Cardinality(C \cup {t}) = Cardinality(C) + 1
  BY <1>1, <1>2, FS_AddElement
<1> HIDE DEF C
<1>5. /\ Cardinality(A) = IF t \in A THEN Cardinality(C) + 1 ELSE Cardinality(C)
      /\ Cardinality(B) = IF t \in B THEN Cardinality(C) + 1 ELSE Cardinality(C)
      /\ IsFiniteSet(B)
  BY <1>1, <1>3, <1>4, Zenon
<1>6. QED  BY <1>1, <1>5

-----------------------------------------------------------------------------
(* Updates.                                                                *)

\* What an update may still have to increment: no two counters of a kind, the maximum
\* never, the current connections last, and a bucket after the count.
Sound(s) ==
    /\ s \in Seq(Counters)
    /\ \A i, j \in 1..Len(s) : s[i][1] = s[j][1] => i = j
    /\ \A i \in 1..Len(s) : s[i] # MaxEver /\ (s[i] = Current => i = Len(s))
    /\ \A i \in 1..Len(s) : s[i] = Count => \E j \in 1..Len(s) : i < j /\ s[j] \in AllBuckets

\* It has still to increment one of F.
Owes(s, F) == IF \E c \in F : c \in In(s) THEN 1 ELSE 0

\* The first is done: the rest is owed.
LEMMA SoundTail ==
    ASSUME NEW s, Sound(s), s # <<>>
    PROVE  /\ Head(s) \in Counters /\ Head(s) # MaxEver
           /\ Head(s) = Current => Tail(s) = <<>>
           /\ Sound(Tail(s)) /\ Len(Tail(s)) = Len(s) - 1 /\ Len(s) \in Nat
           /\ In(s) = In(Tail(s)) \cup {Head(s)}
           /\ \A F : Family(F) => Owes(s, F) = Owes(Tail(s), F) + (IF Head(s) \in F THEN 1 ELSE 0)
<1> DEFINE r == Tail(s)
           n == Len(s)
<1>1. /\ r \in Seq(Counters) /\ n \in Nat \ {0} /\ Len(r) = n - 1
      /\ \A i \in 1..(n - 1) : r[i] = s[i + 1]
      /\ Head(s) = s[1] /\ \A i \in 1..n : s[i] \in Counters
  BY HeadTailProperties, LenProperties, EmptySeq DEF Sound
<1>2. /\ \A i, j \in 1..n : s[i][1] = s[j][1] => i = j
      /\ \A i \in 1..n : s[i] # MaxEver /\ (s[i] = Current => i = n)
      /\ \A i \in 1..n : s[i] = Count => \E j \in 1..n : i < j /\ s[j] \in AllBuckets
  BY DEF Sound
<1>3. n = 1 => r = <<>>
  <2> HIDE DEF r, n
  <2>1. n = 1 => Len(r) = 0
    BY <1>1
  <2>2. QED  BY <1>1, <2>1, EmptySeq
<1> HIDE DEF r, n
<1>4. 1 \in 1..n /\ \A i \in 1..(n - 1) : i + 1 \in 1..n /\ i + 1 # 1
  BY <1>1
<1>5. \A i \in 1..n : i = 1 \/ (i - 1 \in 1..(n - 1) /\ (i - 1) + 1 = i)
  BY <1>1
<1>6. Sound(r)
  <2>1. ASSUME NEW i \in 1..(n - 1), NEW j \in 1..(n - 1), r[i][1] = r[j][1] PROVE i = j
    <3>1. i + 1 = j + 1
      BY <1>1, <1>2, <1>4, <2>1
    <3>2. QED  BY <3>1
  <2>2. ASSUME NEW i \in 1..(n - 1)
        PROVE  r[i] # MaxEver /\ (r[i] = Current => i = n - 1)
    <3>1. s[i + 1] # MaxEver /\ (s[i + 1] = Current => i + 1 = n)
      BY <1>2, <1>4
    <3>2. QED  BY <1>1, <3>1
  <2>3. ASSUME NEW i \in 1..(n - 1), r[i] = Count
        PROVE  \E j \in 1..(n - 1) : i < j /\ r[j] \in AllBuckets
    <3>1. PICK j \in 1..n : i + 1 < j /\ s[j] \in AllBuckets
      BY <1>1, <1>2, <1>4, <2>3
    <3>2. j - 1 \in 1..(n - 1) /\ i < j - 1 /\ (j - 1) + 1 = j
      BY <1>1, <3>1
    <3>3. r[j - 1] = s[j]
      BY <1>1, <3>2
    <3>4. QED  BY <3>1, <3>2, <3>3
  <2>4. QED  BY <1>1, <2>1, <2>2, <2>3 DEF Sound
<1>7. In(s) = In(r) \cup {Head(s)}
  <2>1. \A x : (\E i \in 1..n : s[i] = x) <=> x = s[1] \/ \E i \in 1..(n - 1) : r[i] = x
    <3>1. ASSUME NEW x, NEW i \in 1..n, s[i] = x
          PROVE  x = s[1] \/ \E j \in 1..(n - 1) : r[j] = x
      <4>1. CASE i = 1
        BY <3>1, <4>1
      <4>2. CASE i - 1 \in 1..(n - 1) /\ (i - 1) + 1 = i
        BY <1>1, <3>1, <4>2
      <4>3. QED  BY <1>5, <4>1, <4>2
    <3>2. ASSUME NEW x, NEW i \in 1..(n - 1), r[i] = x
          PROVE  \E j \in 1..n : s[j] = x
      BY <1>1, <1>4, <3>2
    <3>3. QED  BY <1>4, <3>1, <3>2
  <2>2. In(s) = {s[i] : i \in 1..n} /\ In(r) = {r[i] : i \in 1..(n - 1)}
    BY <1>1 DEF In, n
  <2>3. \A x : x \in In(s) <=> x = s[1] \/ x \in In(r)
    BY <2>1, <2>2
  <2>4. QED  BY <1>1, <2>3
<1>8. ASSUME NEW F, Family(F), Head(s) \in F, NEW c \in F PROVE c \notin In(r)
  <2>1. SUFFICES ASSUME NEW i \in 1..(n - 1), r[i] = c PROVE FALSE
    BY <1>1 DEF In
  <2>2. s[1][1] = s[i + 1][1]
    BY <1>1, <1>8, <2>1 DEF Family
  <2>3. QED  BY <1>2, <1>4, <2>2
<1>9. ASSUME NEW F, Family(F)
      PROVE  Owes(s, F) = Owes(r, F) + (IF Head(s) \in F THEN 1 ELSE 0)
  <2>1. CASE Head(s) \in F
    BY <1>7, <1>8, <1>9, <2>1 DEF Owes
  <2>2. CASE Head(s) \notin F
    BY <1>7, <2>2 DEF Owes
  <2>3. QED  BY <2>1, <2>2
<1>10. Head(s) = Current => r = <<>>
  BY <1>1, <1>2, <1>3, <1>4
<1>11. Head(s) \in Counters /\ Head(s) # MaxEver
  BY <1>1, <1>2, <1>4
<1>12. QED  BY <1>1, <1>6, <1>7, <1>9, <1>10, <1>11 DEF r, n

-----------------------------------------------------------------------------
(* What has been counted, and what is about to be.                         *)

Stages == {"idle", "limit", "handle", "answer", "post"}

\* The counters and what the threads have still to do to them.
MetricsShape ==
    /\ value \in [Counters -> Nat] /\ peak \in Nat
    /\ todo \in [Threads -> Seq(Counters)] /\ mine \in [Threads -> Nat]
    /\ seen \in [Threads -> Nat \cup {-1}]
    /\ \A t \in Threads :
          /\ Sound(todo[t]) /\ Len(todo[t]) <= 4
          /\ \A c \in AllMethods : c \notin In(todo[t])
          /\ mine[t] > 0 => todo[t] = <<>>
          /\ mine[t] = 0 => seen[t] = -1

FlowShape ==
    /\ stage \in [Threads -> Stages] /\ queued \in Nat /\ posted \in Nat
    /\ started \in Nat /\ refused \in Nat /\ finished \in Nat /\ opens \in Nat /\ closes \in Nat

\* What has been counted in F, and what is about to be.
Counted(F) == Sum(value, F) + Left(F)

LEMMA LeftIs ==
    ASSUME NEW d \in [Threads -> Seq(Counters)], NEW F
    PROVE  {t \in Threads : \E i \in DOMAIN d[t] : d[t][i] \in F}
              = {t \in Threads : \E c \in F : c \in In(d[t])}
<1>1. \A t \in Threads : DOMAIN d[t] = 1..Len(d[t])
  BY LenProperties
<1>2. ASSUME NEW t \in Threads
      PROVE  (\E i \in DOMAIN d[t] : d[t][i] \in F) <=> \E c \in F : c \in In(d[t])
  BY <1>1 DEF In
<1>3. QED  BY <1>2

\* One thread has something else to do.
LEMMA LeftMoves ==
    ASSUME todo \in [Threads -> Seq(Counters)], NEW t \in Threads, NEW s \in Seq(Counters),
           todo' = [todo EXCEPT ![t] = s], NEW F
    PROVE  /\ Left(F) \in Nat /\ Left(F)' \in Nat
           /\ Left(F)' + Owes(todo[t], F) = Left(F) + Owes(s, F)
<1> DEFINE A == {u \in Threads : \E c \in F : c \in In(todo[u])}
           B == {u \in Threads : \E c \in F : c \in In(todo'[u])}
<1>1. todo' \in [Threads -> Seq(Counters)]
  OBVIOUS
<1>2. Left(F) = Cardinality(A)
  BY LeftIs DEF Left
<1>3. Left(F)' = Cardinality(B)
  BY <1>1, LeftIs DEF Left
<1>4. todo'[t] = s /\ \A u \in Threads : u # t => todo'[u] = todo[u]
  OBVIOUS
<1>5. A \ {t} = B \ {t}
  BY <1>4
<1>6. IsFiniteSet(A)
  BY MetricsAssumption, FS_Subset
<1>7. /\ (IF t \in A THEN 1 ELSE 0) = Owes(todo[t], F)
      /\ (IF t \in B THEN 1 ELSE 0) = Owes(s, F)
  BY <1>4 DEF Owes
<1> HIDE DEF A, B
<1>8. /\ Cardinality(A) \in Nat /\ Cardinality(B) \in Nat
      /\ Cardinality(B) + (IF t \in A THEN 1 ELSE 0)
            = Cardinality(A) + (IF t \in B THEN 1 ELSE 0)
  BY <1>5, <1>6, OneApart, Zenon
<1>9. QED  BY <1>2, <1>3, <1>7, <1>8, Zenon

\* A counter of the family, or another one, is incremented.
LEMMA SumMoves ==
    ASSUME value \in [Counters -> Nat], NEW c \in Counters,
           value' = [value EXCEPT ![c] = @ + 1], NEW F, Family(F)
    PROVE  /\ Sum(value, F) \in Nat /\ Sum(value', F) \in Nat
           /\ Sum(value', F) = Sum(value, F) + (IF c \in F THEN 1 ELSE 0)
<1>1. Raised(value, value', F, c, 1)
  BY DEF Raised, Family
<1>2. /\ SumOver(value, F) \in Nat
      /\ SumOver(value', F) = IF c \in F THEN SumOver(value, F) + 1 ELSE SumOver(value, F)
  BY <1>1, SumGrows DEF Family
<1>3. Sum(value, F) = SumOver(value, F) /\ Sum(value', F) = SumOver(value', F)
  BY SumIs
<1>4. QED  BY <1>2, <1>3

LEMMA SumStays ==
    ASSUME value \in [Counters -> Nat], NEW F, Family(F), \A c \in F : value'[c] = value[c]
    PROVE  Sum(value, F) \in Nat /\ Sum(value', F) = Sum(value, F)
<1>1. Raised(value, value', F, Total, 0)
  BY DEF Raised, Family
<1>2. /\ SumOver(value, F) \in Nat
      /\ SumOver(value', F) = IF Total \in F THEN SumOver(value, F) + 0 ELSE SumOver(value, F)
  BY <1>1, SumGrows DEF Family
<1>3. Sum(value, F) = SumOver(value, F) /\ Sum(value', F) = SumOver(value', F)
  BY SumIs
<1>4. QED  BY <1>2, <1>3

LEMMA SumOfSingle ==
    ASSUME NEW v \in [Counters -> Nat], NEW c \in Counters
    PROVE  Sum(v, {c}) = v[c]
<1>1. v[c] \in Nat
  OBVIOUS
<1>2. SumOver(v, {c}) = v[c]
  BY <1>1, SumOfOne, Zenon
<1>3. QED  BY <1>2, SumIs

LEMMA CountedTyped ==
    ASSUME value \in [Counters -> Nat], todo \in [Threads -> Seq(Counters)], NEW F, Family(F)
    PROVE  Counted(F) \in Nat /\ Sum(value, F) \in Nat /\ Left(F) \in Nat
<1>1. \A c \in F : value[c] \in Nat
  BY DEF Family
<1>2. SumOver(value, F) \in Nat
  BY <1>1, SumTyped DEF Family
<1>3. Left(F) \in Nat
  BY MetricsAssumption, FS_Subset, FS_CardinalityType DEF Left
<1>4. QED  BY <1>2, <1>3, SumIs DEF Counted

\* An update that thread t begins, or goes on with, is one more in the family or none.
LEMMA CountedMoves ==
    ASSUME value \in [Counters -> Nat], todo \in [Threads -> Seq(Counters)],
           NEW t \in Threads, NEW s, Sound(s), s # <<>>,
           value' = [value EXCEPT ![Head(s)] = @ + 1],
           todo' = [todo EXCEPT ![t] = Tail(s)], NEW F, Family(F)
    PROVE  /\ Counted(F)' \in Nat
           /\ Counted(F)' + Owes(todo[t], F) = Counted(F) + Owes(s, F)
<1>1. /\ Head(s) \in Counters /\ Tail(s) \in Seq(Counters)
      /\ Owes(s, F) = Owes(Tail(s), F) + (IF Head(s) \in F THEN 1 ELSE 0)
  BY SoundTail DEF Sound
<1>2. /\ Sum(value, F) \in Nat /\ Sum(value', F) \in Nat
      /\ Sum(value', F) = Sum(value, F) + (IF Head(s) \in F THEN 1 ELSE 0)
  BY <1>1, SumMoves
<1>3. /\ Left(F) \in Nat /\ Left(F)' \in Nat
      /\ Left(F)' + Owes(todo[t], F) = Left(F) + Owes(Tail(s), F)
  BY <1>1, LeftMoves
<1>4. Owes(Tail(s), F) \in Int /\ Owes(todo[t], F) \in Int
  BY DEF Owes
<1>5. Counted(F)' = Sum(value', F) + Left(F)'
  BY DEF Counted
<1>6. Counted(F) = Sum(value, F) + Left(F)
  BY DEF Counted
<1> DEFINE h == IF Head(s) \in F THEN 1 ELSE 0
<1>7. h \in Int
  OBVIOUS
<1> HIDE DEF h
<1>8. Owes(s, F) = Owes(Tail(s), F) + h /\ Sum(value', F) = Sum(value, F) + h
  BY <1>1, <1>2 DEF h
<1>9. Counted(F)' \in Nat
  BY <1>2, <1>3, <1>5
<1> DEFINE a == Sum(value, F)
           l == Left(F)
           k == Left(F)'
           m == Owes(todo[t], F)
           n == Owes(Tail(s), F)
<1>10. /\ a \in Int /\ l \in Int /\ k \in Int /\ m \in Int /\ n \in Int
       /\ k + m = l + n
  BY <1>2, <1>3, <1>4
<1> HIDE DEF a, l, k, m, n
<1>11. ((a + h) + k) + m = (a + l) + (n + h)
  BY <1>7, <1>10
<1>12. Counted(F)' + Owes(todo[t], F) = Counted(F) + Owes(s, F)
  BY <1>5, <1>6, <1>8, <1>11, Zenon DEF a, l, k, m, n
<1>13. QED  BY <1>9, <1>12

\* What concerns none of the family.
LEMMA CountedStays ==
    ASSUME value \in [Counters -> Nat], todo \in [Threads -> Seq(Counters)],
           todo' = todo, NEW F, Family(F), \A c \in F : value'[c] = value[c]
    PROVE  Counted(F)' = Counted(F)
<1>1. Sum(value', F) = Sum(value, F)
  BY SumStays
<1>2. Left(F)' = Left(F)
  BY DEF Left
<1>3. Counted(F)' = Sum(value', F) + Left(F)'
  BY DEF Counted
<1>4. QED  BY <1>1, <1>2, <1>3 DEF Counted

-----------------------------------------------------------------------------
(* Where the threads are.                                                  *)

At(S) == Cardinality({t \in Threads : stage[t] \in S})

\* A thread at this stage counts there.
Is(x, S) == IF x \in S THEN 1 ELSE 0

LEMMA AtMoves ==
    ASSUME stage \in [Threads -> Stages], NEW t \in Threads, NEW to \in Stages,
           stage' = [stage EXCEPT ![t] = to], NEW S
    PROVE  /\ At(S) \in Nat /\ At(S)' \in Nat
           /\ At(S)' + Is(stage[t], S) = At(S) + Is(to, S)
<1> DEFINE A == {u \in Threads : stage[u] \in S}
           B == {u \in Threads : stage'[u] \in S}
<1>1. stage'[t] = to /\ \A u \in Threads : u # t => stage'[u] = stage[u]
  OBVIOUS
<1>2. A \ {t} = B \ {t}
  BY <1>1
<1>3. IsFiniteSet(A)
  BY MetricsAssumption, FS_Subset
<1>4. (t \in A <=> stage[t] \in S) /\ (t \in B <=> to \in S)
  BY <1>1
<1>5. At(S) = Cardinality(A) /\ At(S)' = Cardinality(B)
  BY DEF At
<1> HIDE DEF A, B
<1>6. /\ Cardinality(A) \in Nat /\ Cardinality(B) \in Nat
      /\ Cardinality(B) + (IF t \in A THEN 1 ELSE 0)
            = Cardinality(A) + (IF t \in B THEN 1 ELSE 0)
  BY <1>2, <1>3, OneApart, Zenon
<1>7. /\ (IF t \in A THEN 1 ELSE 0) = Is(stage[t], S)
      /\ (IF t \in B THEN 1 ELSE 0) = Is(to, S)
  BY <1>4 DEF Is
<1>8. QED  BY <1>5, <1>6, <1>7, Zenon

LEMMA AtStays ==
    ASSUME stage \in [Threads -> Stages], NEW S
    PROVE  At(S) \in Nat /\ (stage' = stage => At(S)' = At(S))
<1>1. At(S) \in Nat
  BY MetricsAssumption, FS_Subset, FS_CardinalityType DEF At
<1>2. stage' = stage => At(S)' = At(S)
  BY DEF At
<1>3. QED  BY <1>1, <1>2

-----------------------------------------------------------------------------
(* The lists of counters that are reported.                                *)

\* They may be reported: the connections are not counted by the first, and no
\* method by what remains.
Reportable(s) ==
    /\ Sound(s) /\ Len(s) <= 4
    /\ s # <<>> => Head(s) # Current /\ \A c \in AllMethods : c \notin In(Tail(s))

LEMMA Names ==
    /\ {Total, Current, MaxEver, Requests, RateLimited, Proxied, ProxyErrors, Count}
          \subseteq Counters
    /\ \A m \in Methods : Method(m) \in AllMethods /\ Method(m) \in Counters
    /\ \A c \in Classes : Class(c) \in AllClasses /\ Class(c) \in Counters
    /\ \A b \in Buckets : Bucket(b) \in AllBuckets /\ Bucket(b) \in Counters
BY ReadOrderBegins DEF First7, Others, AllMethods, AllClasses, AllBuckets

LEMMA NoSteps == Reportable(<<>>) /\ In(<<>>) = {}
BY DEF Reportable, Sound, In

LEMMA OneStep ==
    ASSUME NEW c \in Counters, c \notin {Current, MaxEver, Count}
    PROVE  Reportable(<<c>>) /\ In(<<c>>) = {c}
<1>1. /\ <<c>> \in Seq(Counters) /\ Len(<<c>>) = 1 /\ <<c>>[1] = c
      /\ Head(<<c>>) = c /\ Tail(<<c>>) = <<>> /\ <<c>> # <<>>
  OBVIOUS
<1>2. \A i \in 1..1 : i = 1
  OBVIOUS
<1>3. Sound(<<c>>)
  BY <1>1, <1>2 DEF Sound
<1>4. In(<<c>>) = {c} /\ In(<<>>) = {}
  BY <1>1, <1>2 DEF In
<1>5. QED  BY <1>1, <1>3, <1>4 DEF Reportable

LEMMA TwoSteps ==
    ASSUME NEW c \in Counters, NEW d \in Counters, c[1] # d[1],
           c \notin {Current, MaxEver, Count}, d \notin {MaxEver, Count}, d \notin AllMethods
    PROVE  Reportable(<<c, d>>) /\ In(<<c, d>>) = {c, d}
<1> DEFINE s == <<c, d>>
<1>1. /\ s \in Seq(Counters) /\ Len(s) = 2 /\ s[1] = c /\ s[2] = d
      /\ Head(s) = c /\ Tail(s) = <<d>> /\ s # <<>>
      /\ Len(<<d>>) = 1 /\ <<d>>[1] = d
  OBVIOUS
<1>2. /\ \A i \in 1..2 : i = 1 \/ i = 2
      /\ \A i \in 1..1 : i = 1
      /\ 1 \in 1..2 /\ 2 \in 1..2 /\ 1 \in 1..1
  OBVIOUS
<1> HIDE DEF s
<1>3. Sound(s)
  BY <1>1, <1>2 DEF Sound
<1>4. In(s) = {c, d} /\ In(<<d>>) = {d}
  BY <1>1, <1>2 DEF In
<1>5. QED  BY <1>1, <1>3, <1>4 DEF Reportable, s

LEMMA Joined ==
    ASSUME NEW S, NEW s \in Seq(S), NEW t \in Seq(S)
    PROVE  /\ s \o t \in Seq(S) /\ Len(s \o t) = Len(s) + Len(t)
           /\ \A i \in 1..Len(s) : (s \o t)[i] = s[i]
           /\ \A i \in 1..Len(t) : (s \o t)[Len(s) + i] = t[i]
<1> DEFINE e == s \o t
           m == Len(s)
           n == Len(t)
<1>1. /\ e \in Seq(S) /\ Len(e) = m + n /\ m \in Nat /\ n \in Nat
      /\ \A i \in 1..(m + n) : e[i] = IF i <= m THEN s[i] ELSE t[i - m]
  BY ConcatProperties, LenProperties
<1> HIDE DEF e, m, n
<1>2. ASSUME NEW i \in 1..m PROVE e[i] = s[i]
  <2>1. i \in 1..(m + n) /\ i <= m
    BY <1>1
  <2>2. QED  BY <1>1, <2>1
<1>3. ASSUME NEW i \in 1..n PROVE e[m + i] = t[i]
  <2>1. m + i \in 1..(m + n) /\ ~(m + i <= m) /\ (m + i) - m = i
    BY <1>1
  <2>2. QED  BY <1>1, <2>1
<1>4. QED  BY <1>1, <1>2, <1>3 DEF e, m, n

LEMMA OneAndOne ==
    ASSUME NEW w, NEW x
    PROVE  <<w>> \o <<x>> = <<w, x>>
<1> DEFINE S == {w, x}
<1>1. ASSUME NEW a \in Seq(S), Len(a) = 1, a[1] = w, NEW b \in Seq(S), Len(b) = 1, b[1] = x,
             NEW c \in Seq(S), Len(c) = 2, c[1] = w, c[2] = x
      PROVE  a \o b = c
  <2> HIDE DEF S
  <2>1. /\ a \o b \in Seq(S) /\ Len(a \o b) = Len(a) + Len(b)
        /\ \A i \in 1..Len(a) : (a \o b)[i] = a[i]
        /\ \A i \in 1..Len(b) : (a \o b)[Len(a) + i] = b[i]
    BY Joined
  <2>2. Len(a \o b) = 2 /\ (a \o b)[1] = w /\ (a \o b)[2] = x
    BY <1>1, <2>1
  <2>3. QED  BY <1>1, <2>1, <2>2, SeqEqual
<1>2. /\ <<w>> \in Seq(S) /\ Len(<<w>>) = 1 /\ <<w>>[1] = w
      /\ <<x>> \in Seq(S) /\ Len(<<x>>) = 1 /\ <<x>>[1] = x
      /\ <<w, x>> \in Seq(S) /\ Len(<<w, x>>) = 2 /\ <<w, x>>[1] = w /\ <<w, x>>[2] = x
  OBVIOUS
<1> HIDE DEF S
<1>3. QED  BY <1>1, <1>2, Zenon

LEMMA OneAndTwo ==
    ASSUME NEW w, NEW y, NEW z
    PROVE  <<w>> \o <<y, z>> = <<w, y, z>>
<1> DEFINE S == {w, y, z}
<1>1. ASSUME NEW a \in Seq(S), Len(a) = 1, a[1] = w,
             NEW b \in Seq(S), Len(b) = 2, b[1] = y, b[2] = z,
             NEW c \in Seq(S), Len(c) = 3, c[1] = w, c[2] = y, c[3] = z
      PROVE  a \o b = c
  <2> HIDE DEF S
  <2>1. /\ a \o b \in Seq(S) /\ Len(a \o b) = Len(a) + Len(b)
        /\ \A i \in 1..Len(a) : (a \o b)[i] = a[i]
        /\ \A i \in 1..Len(b) : (a \o b)[Len(a) + i] = b[i]
    BY Joined
  <2>2. Len(a \o b) = 3 /\ (a \o b)[1] = w /\ (a \o b)[2] = y /\ (a \o b)[3] = z
    BY <1>1, <2>1
  <2>3. QED  BY <1>1, <2>1, <2>2, SeqEqual
<1>2. /\ <<w>> \in Seq(S) /\ Len(<<w>>) = 1 /\ <<w>>[1] = w
      /\ <<y, z>> \in Seq(S) /\ Len(<<y, z>>) = 2 /\ <<y, z>>[1] = y /\ <<y, z>>[2] = z
      /\ <<w, y, z>> \in Seq(S) /\ Len(<<w, y, z>>) = 3
      /\ <<w, y, z>>[1] = w /\ <<w, y, z>>[2] = y /\ <<w, y, z>>[3] = z
  OBVIOUS
<1> HIDE DEF S
<1>3. QED  BY <1>1, <1>2, Zenon

LEMMA TwoAndTwo ==
    ASSUME NEW w, NEW x, NEW y, NEW z
    PROVE  <<w, x>> \o <<y, z>> = <<w, x, y, z>>
<1> DEFINE S == {w, x, y, z}
<1>1. ASSUME NEW a \in Seq(S), Len(a) = 2, a[1] = w, a[2] = x,
             NEW b \in Seq(S), Len(b) = 2, b[1] = y, b[2] = z,
             NEW c \in Seq(S), Len(c) = 4, c[1] = w, c[2] = x, c[3] = y, c[4] = z
      PROVE  a \o b = c
  <2> HIDE DEF S
  <2>1. /\ a \o b \in Seq(S) /\ Len(a \o b) = Len(a) + Len(b)
        /\ \A i \in 1..Len(a) : (a \o b)[i] = a[i]
        /\ \A i \in 1..Len(b) : (a \o b)[Len(a) + i] = b[i]
    BY Joined
  <2>2. /\ Len(a \o b) = 4 /\ (a \o b)[1] = w /\ (a \o b)[2] = x
        /\ (a \o b)[3] = y /\ (a \o b)[4] = z
    BY <1>1, <2>1
  <2>3. QED  BY <1>1, <2>1, <2>2, SeqEqual
<1>2. /\ <<w, x>> \in Seq(S) /\ Len(<<w, x>>) = 2 /\ <<w, x>>[1] = w /\ <<w, x>>[2] = x
      /\ <<y, z>> \in Seq(S) /\ Len(<<y, z>>) = 2 /\ <<y, z>>[1] = y /\ <<y, z>>[2] = z
      /\ <<w, x, y, z>> \in Seq(S) /\ Len(<<w, x, y, z>>) = 4
      /\ <<w, x, y, z>>[1] = w /\ <<w, x, y, z>>[2] = x
      /\ <<w, x, y, z>>[3] = y /\ <<w, x, y, z>>[4] = z
  OBVIOUS
<1> HIDE DEF S
<1>3. QED  BY <1>1, <1>2, Zenon

LEMMA RequestStepsAre ==
    ASSUME NEW c, NEW b
    PROVE  RequestSteps(c, b) = IF c \in Classes THEN <<Requests, Class(c), Count, Bucket(b)>>
                                ELSE <<Requests, Count, Bucket(b)>>
<1>1. CASE c \in Classes
  <2>1. RequestSteps(c, b) = <<Requests>> \o <<Class(c)>> \o <<Count, Bucket(b)>>
    BY <1>1, Zenon DEF RequestSteps
  <2>2. <<Requests>> \o <<Class(c)>> = <<Requests, Class(c)>>
    BY OneAndOne
  <2>3. <<Requests, Class(c)>> \o <<Count, Bucket(b)>> = <<Requests, Class(c), Count, Bucket(b)>>
    BY TwoAndTwo
  <2>4. QED  BY <1>1, <2>1, <2>2, <2>3, Zenon
<1>2. CASE c \notin Classes
  <2>1. RequestSteps(c, b) = <<Requests>> \o <<>> \o <<Count, Bucket(b)>>
    BY <1>2, Zenon DEF RequestSteps
  <2>2. <<Requests>> \o <<>> = <<Requests>>
    OBVIOUS
  <2>3. <<Requests>> \o <<Count, Bucket(b)>> = <<Requests, Count, Bucket(b)>>
    BY OneAndTwo
  <2>4. QED  BY <1>2, <2>1, <2>2, <2>3, Zenon
<1>3. QED  BY <1>1, <1>2

LEMMA ThreeSteps ==
    ASSUME NEW b \in Buckets
    PROVE  LET s == <<Requests, Count, Bucket(b)>>
           IN  Reportable(s) /\ In(s) = {Requests, Count, Bucket(b)}
<1> DEFINE s == <<Requests, Count, Bucket(b)>>
           r == <<Count, Bucket(b)>>
<1>1. /\ s \in Seq(Counters) /\ Len(s) = 3 /\ s[1] = Requests /\ s[2] = Count /\ s[3] = Bucket(b)
      /\ Head(s) = Requests /\ Tail(s) = r /\ s # <<>>
      /\ Len(r) = 2 /\ r[1] = Count /\ r[2] = Bucket(b)
  BY Names
<1>2. /\ \A i \in 1..3 : i = 1 \/ i = 2 \/ i = 3
      /\ \A i \in 1..2 : i = 1 \/ i = 2
      /\ 1 \in 1..3 /\ 2 \in 1..3 /\ 3 \in 1..3 /\ 1 \in 1..2 /\ 2 \in 1..2 /\ 2 < 3
  OBVIOUS
<1>3. /\ Bucket(b) \in AllBuckets /\ Bucket(b)[1] = "latencyBuckets"
      /\ Requests[1] = "requestsTotal" /\ Count[1] = "latencyCount"
      /\ Current[1] = "connectionsCurrent" /\ MaxEver[1] = "connectionsMax"
      /\ \A m \in AllMethods : m[1] = "methodCounts"
  BY Names, Kinds
<1> HIDE DEF s, r
<1>4. Sound(s)
  <2>1. \A i, j \in 1..3 : s[i][1] = s[j][1] => i = j
    BY <1>1, <1>2, <1>3
  <2>2. \A i \in 1..3 : s[i] # MaxEver /\ s[i] # Current
    BY <1>1, <1>2, <1>3
  <2>3. \A i \in 1..3 : s[i] = Count => i < 3
    BY <1>1, <1>2, <1>3
  <2>4. QED  BY <1>1, <1>2, <1>3, <2>1, <2>2, <2>3 DEF Sound
<1>5. In(s) = {Requests, Count, Bucket(b)} /\ In(r) = {Count, Bucket(b)}
  BY <1>1, <1>2 DEF In
<1>6. Reportable(s)
  <2>1. \A m \in AllMethods : m \notin In(r)
    BY <1>3, <1>5
  <2>2. Head(s) # Current /\ Len(s) <= 4
    BY <1>1, <1>3
  <2>3. QED  BY <1>1, <1>4, <2>1, <2>2 DEF Reportable
<1>7. QED  BY <1>5, <1>6 DEF s

LEMMA FourSteps ==
    ASSUME NEW b \in Buckets, NEW c \in Classes
    PROVE  LET s == <<Requests, Class(c), Count, Bucket(b)>>
           IN  Reportable(s) /\ In(s) = {Requests, Class(c), Count, Bucket(b)}
<1> DEFINE s == <<Requests, Class(c), Count, Bucket(b)>>
           r == <<Class(c), Count, Bucket(b)>>
<1>1. /\ s \in Seq(Counters) /\ Len(s) = 4
      /\ s[1] = Requests /\ s[2] = Class(c) /\ s[3] = Count /\ s[4] = Bucket(b)
      /\ Head(s) = Requests /\ Tail(s) = r /\ s # <<>>
      /\ Len(r) = 3 /\ r[1] = Class(c) /\ r[2] = Count /\ r[3] = Bucket(b)
  BY Names
<1>2. /\ \A i \in 1..4 : i = 1 \/ i = 2 \/ i = 3 \/ i = 4
      /\ \A i \in 1..3 : i = 1 \/ i = 2 \/ i = 3
      /\ 1 \in 1..4 /\ 2 \in 1..4 /\ 3 \in 1..4 /\ 4 \in 1..4
      /\ 1 \in 1..3 /\ 2 \in 1..3 /\ 3 \in 1..3 /\ 3 < 4
  OBVIOUS
<1>3. /\ Bucket(b) \in AllBuckets /\ Bucket(b)[1] = "latencyBuckets"
      /\ Class(c)[1] = "statusClasses"
      /\ Requests[1] = "requestsTotal" /\ Count[1] = "latencyCount"
      /\ Current[1] = "connectionsCurrent" /\ MaxEver[1] = "connectionsMax"
      /\ \A m \in AllMethods : m[1] = "methodCounts"
  BY Names, Kinds
<1> HIDE DEF s, r
<1>4. Sound(s)
  <2>1. \A i, j \in 1..4 : s[i][1] = s[j][1] => i = j
    BY <1>1, <1>2, <1>3
  <2>2. \A i \in 1..4 : s[i] # MaxEver /\ s[i] # Current
    BY <1>1, <1>2, <1>3
  <2>3. \A i \in 1..4 : s[i] = Count => i < 4
    BY <1>1, <1>2, <1>3
  <2>4. QED  BY <1>1, <1>2, <1>3, <2>1, <2>2, <2>3 DEF Sound
<1>5. In(s) = {Requests, Class(c), Count, Bucket(b)} /\ In(r) = {Class(c), Count, Bucket(b)}
  BY <1>1, <1>2 DEF In
<1>6. Reportable(s)
  <2>1. \A m \in AllMethods : m \notin In(r)
    BY <1>3, <1>5
  <2>2. Head(s) # Current /\ Len(s) <= 4
    BY <1>1, <1>3
  <2>3. QED  BY <1>1, <1>4, <2>1, <2>2 DEF Reportable
<1>7. QED  BY <1>5, <1>6 DEF s

-----------------------------------------------------------------------------
(* What the steps of an update do to the counts.                           *)

\* Thread t increments the first of s, and has the rest before it.
LEMMA StepShape ==
    ASSUME MetricsShape, NEW t \in Threads, mine[t] = 0, NEW s, Sound(s), s # <<>>, Len(s) <= 4,
           \A c \in AllMethods : c \notin In(Tail(s)),
           value' = [value EXCEPT ![Head(s)] = @ + 1],
           todo' = [todo EXCEPT ![t] = Tail(s)], seen' = seen, peak' \in Nat,
           mine' = mine \/ (Tail(s) = <<>> /\ \E n \in Nat \ {0} : mine' = [mine EXCEPT ![t] = n])
    PROVE  /\ MetricsShape'
           /\ value'[Head(s)] = value[Head(s)] + 1
           /\ \A c \in Counters : c # Head(s) => value'[c] = value[c]
<1>1. /\ Head(s) \in Counters /\ Sound(Tail(s)) /\ Tail(s) \in Seq(Counters)
      /\ Len(Tail(s)) <= 4
  <2>1. /\ Head(s) \in Counters /\ Sound(Tail(s))
        /\ Len(Tail(s)) = Len(s) - 1 /\ Len(s) \in Nat
    BY SoundTail, Zenon
  <2>2. Tail(s) \in Seq(Counters)
    BY <2>1, Zenon DEF Sound
  <2>3. QED  BY <2>1, <2>2
<1>2. /\ value' \in [Counters -> Nat] /\ value'[Head(s)] = value[Head(s)] + 1
      /\ \A c \in Counters : c # Head(s) => value'[c] = value[c]
  BY <1>1 DEF MetricsShape
<1>3. /\ todo' \in [Threads -> Seq(Counters)] /\ todo'[t] = Tail(s)
      /\ \A u \in Threads : u # t => todo'[u] = todo[u]
  BY <1>1 DEF MetricsShape
<1>4. /\ mine' \in [Threads -> Nat] /\ \A u \in Threads : u # t => mine'[u] = mine[u]
      /\ mine'[t] > 0 => todo'[t] = <<>>
      /\ mine'[t] = 0 => seen'[t] = -1
  <2>1. CASE mine' = mine
    BY <2>1 DEF MetricsShape
  <2>2. CASE Tail(s) = <<>> /\ \E n \in Nat \ {0} : mine' = [mine EXCEPT ![t] = n]
    BY <1>3, <2>2 DEF MetricsShape
  <2>3. QED  BY <2>1, <2>2
<1>5. ASSUME NEW u \in Threads
      PROVE  /\ Sound(todo'[u]) /\ Len(todo'[u]) <= 4
             /\ \A c \in AllMethods : c \notin In(todo'[u])
             /\ mine'[u] > 0 => todo'[u] = <<>>
             /\ mine'[u] = 0 => seen'[u] = -1
  <2>1. CASE u = t
    BY <1>1, <1>3, <1>4, <2>1
  <2>2. CASE u # t
    BY <1>3, <1>4, <2>2 DEF MetricsShape
  <2>3. QED  BY <2>1, <2>2
<1>6. /\ seen' \in [Threads -> Nat \cup {-1}]
  BY DEF MetricsShape
<1>7. MetricsShape'
  BY <1>2, <1>3, <1>4, <1>5, <1>6 DEF MetricsShape
<1>8. QED  BY <1>2, <1>7

\* A report: onRequestStarted() and the like.
LEMMA ReportMoves ==
    ASSUME MetricsShape, NEW t \in Threads, NEW s, Reportable(s), Report(t, s)
    PROVE  /\ MetricsShape'
           /\ \A F : Family(F) => Counted(F)' = Counted(F) + Owes(s, F)
           /\ value'[Current] = value[Current] /\ value'[MaxEver] = value[MaxEver]
           /\ mine' = mine /\ seen' = seen /\ peak' = peak
<1>1. /\ todo[t] = <<>> /\ mine[t] = 0 /\ mine' = mine /\ seen' = seen /\ peak' = peak
  BY DEF Report, Free
<1>2. CASE s = <<>>
  <2>1. value' = value /\ todo' = todo
    BY <1>2 DEF Report
  <2>2. MetricsShape'
    BY <1>1, <2>1 DEF MetricsShape
  <2>3. ASSUME NEW F, Family(F) PROVE Counted(F)' = Counted(F) + Owes(s, F)
    <3>1. Counted(F)' = Counted(F)
      BY <2>1, <2>3, CountedStays DEF MetricsShape
    <3>2. Counted(F) \in Nat
      BY <2>3, CountedTyped DEF MetricsShape
    <3>3. Owes(s, F) = 0
      BY <1>2, NoSteps DEF Owes
    <3>4. QED  BY <3>1, <3>2, <3>3
  <2>4. QED  BY <1>1, <2>1, <2>2, <2>3
<1>3. CASE s # <<>>
  <2>1. /\ value' = [value EXCEPT ![Head(s)] = @ + 1]
        /\ todo' = [todo EXCEPT ![t] = Tail(s)]
    BY <1>3 DEF Report
  <2>2. /\ Sound(s) /\ Len(s) <= 4 /\ Head(s) # Current
        /\ \A c \in AllMethods : c \notin In(Tail(s))
    BY <1>3 DEF Reportable
  <2>3. peak' \in Nat
    BY <1>1 DEF MetricsShape
  <2>4. /\ MetricsShape'
        /\ \A c \in Counters : c # Head(s) => value'[c] = value[c]
    BY <1>1, <1>3, <2>1, <2>2, <2>3, StepShape
  <2>5. Head(s) # MaxEver
    BY <1>3, <2>2, SoundTail
  <2>6. value'[Current] = value[Current] /\ value'[MaxEver] = value[MaxEver]
    BY <2>2, <2>4, <2>5, Names
  <2>7. ASSUME NEW F, Family(F) PROVE Counted(F)' = Counted(F) + Owes(s, F)
    <3>1. /\ Counted(F)' \in Nat
          /\ Counted(F)' + Owes(todo[t], F) = Counted(F) + Owes(s, F)
      BY <1>3, <2>1, <2>2, <2>7, CountedMoves DEF MetricsShape
    <3>2. Owes(todo[t], F) = 0 /\ Owes(s, F) \in {0, 1}
      BY <1>1, NoSteps DEF Owes
    <3>3. Counted(F) \in Nat
      BY <2>7, CountedTyped DEF MetricsShape
    <3>4. QED  BY <3>1, <3>2, <3>3
  <2>8. QED  BY <1>1, <2>4, <2>6, <2>7
<1>4. QED  BY <1>2, <1>3

\* The loop that raises connectionsMax is at most behind: whoever has seen the peak of
\* the connections, and is not there yet, will store it.
PeakInv ==
    /\ value[MaxEver] <= peak /\ value[Current] <= peak
    /\ \A t \in Threads : mine[t] <= peak /\ seen[t] <= value[MaxEver]
    /\ value[MaxEver] = peak \/ \E t \in Threads : mine[t] = peak

LEMMA PeakIsMax == MetricsShape /\ PeakInv => MaxIsPeak
<1> SUFFICES ASSUME MetricsShape, PeakInv PROVE MaxIsPeak
  OBVIOUS
<1>1. MaxEver \in Counters
  BY Names
<1>2. value[MaxEver] \in Nat /\ peak \in Nat
  BY <1>1 DEF MetricsShape
<1>3. ASSUME \A t \in Threads : mine[t] = 0 PROVE value[MaxEver] = peak
  BY <1>2, <1>3 DEF PeakInv
<1>4. QED  BY <1>3 DEF MaxIsPeak, PeakInv

\* The connections and their maximum stay, and so does what the threads have seen.
LEMMA PeakStays ==
    ASSUME PeakInv, value'[Current] = value[Current], value'[MaxEver] = value[MaxEver],
           mine' = mine, seen' = seen, peak' = peak
    PROVE  PeakInv'
BY DEF PeakInv

-----------------------------------------------------------------------------
(* fetch_add(1) on the next counter.                                       *)

LEMMA BumpMoves ==
    ASSUME MetricsShape, NEW t \in Threads, Bump(t)
    PROVE  /\ MetricsShape'
           /\ \A F : Family(F) => Counted(F)' = Counted(F)
           /\ seen' = seen /\ value'[MaxEver] = value[MaxEver] /\ mine[t] = 0
           /\ peak' = IF value'[Current] > peak THEN value'[Current] ELSE peak
           /\ \/ value'[Current] = value[Current] /\ mine' = mine
              \/ /\ value'[Current] = value[Current] + 1
                 /\ mine' = [mine EXCEPT ![t] = value'[Current]]
<1> DEFINE s == todo[t]
<1>1. /\ s # <<>> /\ value' = [value EXCEPT ![Head(s)] = @ + 1]
      /\ mine' = [mine EXCEPT ![t] = IF Head(s) = Current THEN value'[Head(s)] ELSE @]
      /\ peak' = IF value'[Current] > peak THEN value'[Current] ELSE peak
      /\ seen' = seen
  BY DEF Bump
<1>2. todo' = [todo EXCEPT ![t] = Tail(s)]
  BY DEF Bump
<1>3. /\ Sound(s) /\ Len(s) <= 4 /\ \A c \in AllMethods : c \notin In(s)
      /\ todo \in [Threads -> Seq(Counters)] /\ mine \in [Threads -> Nat]
      /\ value \in [Counters -> Nat] /\ peak \in Nat
  BY DEF MetricsShape
<1>4. mine[t] = 0
  BY <1>1, <1>3 DEF MetricsShape
<1> HIDE DEF s
<1>5. /\ Head(s) \in Counters /\ Head(s) # MaxEver
      /\ Head(s) = Current => Tail(s) = <<>>
      /\ In(s) = In(Tail(s)) \cup {Head(s)}
  BY <1>1, <1>3, SoundTail
<1>6. \A c \in AllMethods : c \notin In(Tail(s))
  BY <1>3, <1>5
<1>7. Current \in Counters /\ MaxEver \in Counters
  BY Names
<1>8. value'[Current] \in Nat /\ peak' \in Nat
  BY <1>1, <1>3, <1>5, <1>7
<1>9. mine' = mine \/ (Tail(s) = <<>> /\ \E n \in Nat \ {0} : mine' = [mine EXCEPT ![t] = n])
  <2>1. CASE Head(s) = Current
    <3>1. value'[Current] \in Nat \ {0}
      BY <1>1, <1>3, <1>7, <2>1
    <3>2. mine' = [mine EXCEPT ![t] = value'[Current]]
      BY <1>1, <2>1
    <3>3. QED  BY <1>5, <2>1, <3>1, <3>2
  <2>2. CASE Head(s) # Current
    BY <1>1, <1>3, <2>2
  <2>3. QED  BY <2>1, <2>2
<1>10. /\ MetricsShape' /\ value'[Head(s)] = value[Head(s)] + 1
       /\ \A c \in Counters : c # Head(s) => value'[c] = value[c]
  BY <1>1, <1>2, <1>3, <1>4, <1>6, <1>8, <1>9, StepShape
<1>11. ASSUME NEW F, Family(F) PROVE Counted(F)' = Counted(F)
  <2>1. /\ Counted(F)' \in Nat
        /\ Counted(F)' + Owes(todo[t], F) = Counted(F) + Owes(s, F)
    BY <1>1, <1>2, <1>3, <1>11, CountedMoves
  <2>2. Owes(todo[t], F) = Owes(s, F) /\ Owes(s, F) \in {0, 1}
    BY DEF s, Owes
  <2>3. Counted(F) \in Nat
    BY <1>3, <1>11, CountedTyped
  <2>4. QED  BY <2>1, <2>2, <2>3
<1>12. value'[MaxEver] = value[MaxEver]
  BY <1>5, <1>7, <1>10
<1>13. \/ value'[Current] = value[Current] /\ mine' = mine
       \/ /\ value'[Current] = value[Current] + 1
          /\ mine' = [mine EXCEPT ![t] = value'[Current]]
  <2>1. CASE Head(s) = Current
    BY <1>1, <1>10, <2>1
  <2>2. CASE Head(s) # Current
    BY <1>1, <1>3, <1>7, <1>10, <2>2
  <2>3. QED  BY <2>1, <2>2
<1>14. QED  BY <1>1, <1>4, <1>10, <1>11, <1>12, <1>13

LEMMA PeakBump ==
    ASSUME MetricsShape, PeakInv, NEW t \in Threads, Bump(t)
    PROVE  PeakInv'
<1>1. /\ seen' = seen /\ value'[MaxEver] = value[MaxEver] /\ mine[t] = 0
      /\ peak' = IF value'[Current] > peak THEN value'[Current] ELSE peak
      /\ \/ value'[Current] = value[Current] /\ mine' = mine
         \/ /\ value'[Current] = value[Current] + 1
            /\ mine' = [mine EXCEPT ![t] = value'[Current]]
  BY BumpMoves
<1>2. /\ value[MaxEver] \in Nat /\ value[Current] \in Nat /\ peak \in Nat
      /\ mine \in [Threads -> Nat] /\ seen \in [Threads -> Nat \cup {-1}]
  BY Names DEF MetricsShape
<1>3. /\ value[MaxEver] <= peak /\ value[Current] <= peak
      /\ \A u \in Threads : mine[u] <= peak /\ seen[u] <= value[MaxEver]
      /\ value[MaxEver] = peak \/ \E u \in Threads : mine[u] = peak
  BY DEF PeakInv
<1>4. CASE value'[Current] = value[Current] /\ mine' = mine
  <2>1. peak' = peak
    BY <1>1, <1>2, <1>3, <1>4
  <2>2. QED  BY <1>1, <1>4, <2>1, PeakStays
<1>5. CASE /\ value'[Current] = value[Current] + 1
           /\ mine' = [mine EXCEPT ![t] = value'[Current]]
  <2>1. /\ mine'[t] = value'[Current] /\ value'[Current] \in Nat \ {0}
        /\ \A u \in Threads : u # t => mine'[u] = mine[u]
    BY <1>2, <1>5
  <2>2. CASE value'[Current] <= peak
    <3>1. peak' = peak
      BY <1>1, <1>2, <2>1, <2>2
    <3>2. \A u \in Threads : mine'[u] <= peak'
      BY <1>3, <2>1, <2>2, <3>1
    <3>3. peak # 0
      BY <1>2, <2>1, <2>2
    <3>4. value[MaxEver] = peak \/ \E u \in Threads : mine'[u] = peak
      BY <1>1, <1>3, <2>1, <3>3
    <3>5. QED  BY <1>1, <1>3, <2>2, <3>1, <3>2, <3>4 DEF PeakInv
  <2>3. CASE value'[Current] > peak
    <3>1. peak' = value'[Current]
      BY <1>1, <2>3
    <3>2. value[MaxEver] <= peak' /\ \E u \in Threads : mine'[u] = peak'
      BY <1>2, <1>3, <2>1, <2>3, <3>1
    <3>3. \A u \in Threads : mine'[u] <= peak'
      <4>1. ASSUME NEW u \in Threads PROVE mine'[u] <= peak'
        BY <1>2, <1>3, <2>1, <2>3, <3>1
      <4>2. QED  BY <4>1
    <3>4. value'[Current] <= peak'
      BY <2>1, <3>1
    <3>5. QED  BY <1>1, <1>3, <3>2, <3>3, <3>4 DEF PeakInv
  <2>4. QED  BY <1>2, <2>1, <2>2, <2>3
<1>6. QED  BY <1>1, <1>4, <1>5

-----------------------------------------------------------------------------
(* The loop that raises connectionsMax.                                    *)

\* Thread t has not seen a maximum, or has it already, or raises it.
LEMMA MaxMoves ==
    ASSUME MetricsShape, PeakInv, NEW t \in Threads,
           LoadMax(t) \/ RaiseMax(t) \/ MaxIsHigher(t)
    PROVE  /\ MetricsShape' /\ PeakInv' /\ todo' = todo
           /\ \A c \in Counters : c # MaxEver => value'[c] = value[c]
<1>1. /\ value \in [Counters -> Nat] /\ peak \in Nat /\ todo \in [Threads -> Seq(Counters)]
      /\ mine \in [Threads -> Nat] /\ seen \in [Threads -> Nat \cup {-1}]
      /\ \A u \in Threads :
            /\ Sound(todo[u]) /\ Len(todo[u]) <= 4
            /\ \A c \in AllMethods : c \notin In(todo[u])
            /\ mine[u] > 0 => todo[u] = <<>>
            /\ mine[u] = 0 => seen[u] = -1
  BY DEF MetricsShape
<1>2. /\ Current \in Counters /\ MaxEver \in Counters /\ Current # MaxEver
      /\ value[MaxEver] \in Nat /\ value[Current] \in Nat
  BY <1>1, Names, Kinds
<1>3. /\ value[MaxEver] <= peak /\ value[Current] <= peak
      /\ \A u \in Threads : mine[u] <= peak /\ seen[u] <= value[MaxEver]
      /\ value[MaxEver] = peak \/ \E u \in Threads : mine[u] = peak
  BY DEF PeakInv
<1>4. CASE LoadMax(t) \/ (RaiseMax(t) /\ value' = value)
  <2>1. /\ seen' = [seen EXCEPT ![t] = value[MaxEver]] /\ mine[t] # 0
        /\ value' = value /\ todo' = todo /\ mine' = mine /\ peak' = peak
    <3>1. CASE LoadMax(t)
      BY <1>1, <3>1 DEF LoadMax
    <3>2. CASE RaiseMax(t) /\ value' = value
      <4>1. /\ seen[t] # -1 /\ mine[t] > seen[t] /\ todo' = todo /\ peak' = peak
        BY <3>2 DEF RaiseMax
      <4>2. mine[t] # 0
        BY <1>1, <4>1
      <4>3. CASE seen[t] = value[MaxEver] /\ value' = [value EXCEPT ![MaxEver] = mine[t]]
        <5>1. value'[MaxEver] = mine[t]
          BY <1>1, <1>2, <4>3
        <5>2. QED  BY <1>2, <3>2, <4>1, <4>3, <5>1
      <4>4. CASE seen' = [seen EXCEPT ![t] = value[MaxEver]] /\ mine' = mine
        BY <3>2, <4>1, <4>2, <4>4
      <4>5. QED  BY <3>2, <4>3, <4>4 DEF RaiseMax
    <3>3. QED  BY <1>4, <3>1, <3>2
  <2>2. /\ seen' \in [Threads -> Nat \cup {-1}]
        /\ \A u \in Threads : mine[u] = 0 => seen'[u] = -1
        /\ \A u \in Threads : seen'[u] <= value[MaxEver]
    BY <1>1, <1>2, <1>3, <2>1
  <2>3. MetricsShape'
    BY <1>1, <2>1, <2>2 DEF MetricsShape
  <2>4. PeakInv'
    BY <1>3, <2>1, <2>2 DEF PeakInv
  <2>5. QED  BY <2>1, <2>3, <2>4
<1>5. ASSUME Opened(t), todo' = todo, peak' = peak, value' \in [Counters -> Nat],
             \A c \in Counters : c # MaxEver => value'[c] = value[c],
             value'[MaxEver] <= peak, value[MaxEver] <= value'[MaxEver],
             value'[MaxEver] = peak \/ \E u \in Threads \ {t} : mine[u] = peak
      PROVE  MetricsShape' /\ PeakInv'
  <2>1. /\ mine' \in [Threads -> Nat] /\ seen' \in [Threads -> Nat \cup {-1}]
        /\ mine'[t] = 0 /\ seen'[t] = -1
        /\ \A u \in Threads : u # t => mine'[u] = mine[u] /\ seen'[u] = seen[u]
    BY <1>1, <1>5 DEF Opened
  <2>2. ASSUME NEW u \in Threads
        PROVE  /\ mine'[u] > 0 => todo[u] = <<>>
               /\ mine'[u] = 0 => seen'[u] = -1
               /\ mine'[u] <= peak /\ seen'[u] <= value'[MaxEver]
    <3>1. CASE u = t
      BY <1>1, <1>2, <1>5, <2>1, <3>1
    <3>2. CASE u # t
      <4>1. value'[MaxEver] \in Nat
        BY <1>2, <1>5
      <4>2. QED  BY <1>1, <1>2, <1>3, <1>5, <2>1, <3>2, <4>1
    <3>3. QED  BY <3>1, <3>2
  <2>3. MetricsShape'
    BY <1>1, <1>5, <2>1, <2>2 DEF MetricsShape
  <2>4. value'[MaxEver] = peak \/ \E u \in Threads : mine'[u] = peak
    BY <1>5, <2>1
  <2>5. value'[Current] <= peak
    BY <1>2, <1>3, <1>5
  <2>6. QED  BY <1>5, <2>2, <2>3, <2>4, <2>5 DEF PeakInv
<1>6. CASE RaiseMax(t) /\ value' # value
  <2>1. /\ seen[t] = value[MaxEver] /\ mine[t] > seen[t]
        /\ value' = [value EXCEPT ![MaxEver] = mine[t]]
        /\ Opened(t) /\ todo' = todo /\ peak' = peak
    BY <1>6 DEF RaiseMax
  <2>2. /\ value' \in [Counters -> Nat] /\ value'[MaxEver] = mine[t] /\ mine[t] \in Nat
        /\ \A c \in Counters : c # MaxEver => value'[c] = value[c]
    BY <1>1, <1>2, <2>1
  <2>3. value'[MaxEver] <= peak /\ value[MaxEver] <= value'[MaxEver] /\ value[MaxEver] # peak
    BY <1>1, <1>2, <1>3, <2>1, <2>2
  <2>4. value'[MaxEver] = peak \/ \E u \in Threads \ {t} : mine[u] = peak
    BY <1>3, <2>2, <2>3
  <2>5. MetricsShape' /\ PeakInv'
    BY <1>5, <2>1, <2>2, <2>3, <2>4
  <2>6. QED  BY <2>1, <2>2, <2>5
<1>7. CASE MaxIsHigher(t)
  <2>1. /\ seen[t] # -1 /\ mine[t] <= seen[t]
        /\ Opened(t) /\ todo' = todo /\ peak' = peak /\ value' = value
    BY <1>7 DEF MaxIsHigher
  <2>2. mine[t] <= value[MaxEver]
    BY <1>1, <1>2, <1>3, <2>1
  <2>3. value[MaxEver] = peak \/ \E u \in Threads \ {t} : mine[u] = peak
    <3>1. mine[t] = peak => value[MaxEver] = peak
      BY <1>1, <1>2, <1>3, <2>2
    <3>2. QED  BY <1>3, <3>1
  <2>4. MetricsShape' /\ PeakInv'
    <3>1. /\ value' \in [Counters -> Nat] /\ value'[MaxEver] <= peak
          /\ value[MaxEver] <= value'[MaxEver]
      BY <1>1, <1>2, <1>3, <2>1
    <3>2. QED  BY <1>5, <2>1, <2>3, <3>1
  <2>5. QED  BY <2>1, <2>4
<1>8. QED  BY <1>4, <1>6, <1>7

-----------------------------------------------------------------------------
(* onConnectionClosed().                                                   *)

LEMMA CloseMoves ==
    ASSUME MetricsShape, NEW t \in Threads, CloseConnection(t), value[Current] > 0
    PROVE  /\ MetricsShape' /\ Counted({Current})' \in Nat
           /\ Counted({Current})' + 1 = Counted({Current})
           /\ \A F : Family(F) /\ Current \notin F => Counted(F)' = Counted(F)
           /\ PeakInv => PeakInv'
<1>1. /\ value' = [value EXCEPT ![Current] = @ - 1] /\ todo' = todo /\ mine' = mine
      /\ seen' = seen /\ peak' = peak
  BY DEF CloseConnection, threadVars
<1>2. /\ Current \in Counters /\ MaxEver \in Counters /\ Current # MaxEver
      /\ value \in [Counters -> Nat] /\ todo \in [Threads -> Seq(Counters)]
  BY Names, Kinds DEF MetricsShape
<1>3. /\ value' \in [Counters -> Nat] /\ value'[Current] + 1 = value[Current]
      /\ value[Current] \in Nat /\ value'[Current] \in Nat
      /\ \A c \in Counters : c # Current => value'[c] = value[c]
  BY <1>1, <1>2
<1>4. MetricsShape'
  BY <1>1, <1>3 DEF MetricsShape
<1>5. ASSUME NEW F, Family(F), Current \notin F PROVE Counted(F)' = Counted(F)
  <2>1. \A c \in F : value'[c] = value[c]
    BY <1>3, <1>5 DEF Family
  <2>2. QED  BY <1>1, <1>2, <1>5, <2>1, CountedStays
<1>6. Counted({Current})' \in Nat /\ Counted({Current})' + 1 = Counted({Current})
  <2>1. Sum(value, {Current}) = value[Current] /\ Sum(value', {Current}) = value'[Current]
    BY <1>2, <1>3, SumOfSingle
  <2>2. Left({Current})' = Left({Current})
    BY <1>1 DEF Left
  <2>3. Counted({Current})' = Sum(value', {Current}) + Left({Current})'
    BY DEF Counted
  <2>4. Left({Current}) \in Nat
    BY <1>2, IsFamily, CountedTyped
  <2>5. QED  BY <1>3, <2>1, <2>2, <2>3, <2>4 DEF Counted
<1>7. ASSUME PeakInv PROVE PeakInv'
  <2>1. peak \in Nat
    BY DEF MetricsShape
  <2>2. value'[Current] <= peak /\ value'[MaxEver] = value[MaxEver]
    BY <1>2, <1>3, <1>7, <2>1 DEF PeakInv
  <2>3. QED  BY <1>1, <1>7, <2>2 DEF PeakInv
<1>8. QED  BY <1>4, <1>5, <1>6, <1>7

-----------------------------------------------------------------------------
(* What the requests and the connections add up to.                        *)

Busy == Stages \ {"idle"}

\* Each stage that has been passed has been counted, or an update that is under way
\* will count it.
FlowInv ==
    /\ started  = Counted(AllMethods)
    /\ refused  = Counted({RateLimited})
    /\ finished = Counted({Requests})
    /\ finished = Counted({Count})
    /\ finished = Counted(AllBuckets)
    /\ finished >= Counted(AllClasses)
    /\ opens = Counted({Total})
    /\ opens = closes + Counted({Current})
    /\ started = finished + queued + posted + At(Busy)
    /\ refused + At({"limit"}) <= started
    /\ Counted({Proxied}) + queued + At({"limit", "handle"}) <= started

Flow == MetricsShape /\ FlowShape /\ FlowInv /\ PeakInv

\* The families that FlowInv is about.
Watched == {AllMethods, AllBuckets, AllClasses, {RateLimited}, {Requests}, {Count}, {Total},
            {Current}, {Proxied}}

LEMMA WatchedAre ==
    /\ \A F \in Watched : Family(F) /\ MaxEver \notin F
    /\ \A F \in Watched : F # {Current} => Current \notin F
    /\ \A F \in Watched : MetricsShape => Counted(F) \in Nat
    /\ AllMethods \in Watched /\ AllBuckets \in Watched /\ AllClasses \in Watched
    /\ {RateLimited} \in Watched /\ {Requests} \in Watched /\ {Count} \in Watched
    /\ {Total} \in Watched /\ {Current} \in Watched /\ {Proxied} \in Watched
<1>1. \A F \in Watched : Family(F)
  BY IsFamily, Names DEF Watched
<1>2. \A F \in Watched : MaxEver \notin F /\ (F # {Current} => Current \notin F)
  BY Kinds DEF Watched
<1>3. ASSUME NEW F \in Watched, MetricsShape PROVE Counted(F) \in Nat
  BY <1>1, <1>3, CountedTyped DEF MetricsShape
<1>4. QED  BY <1>1, <1>2, <1>3 DEF Watched

\* The stages in which there are requests.
LEMMA BusyAre ==
    /\ "limit" \in Stages /\ "handle" \in Stages /\ "answer" \in Stages /\ "post" \in Stages
    /\ "idle" \in Stages /\ "idle" \notin Busy
    /\ "limit" \in Busy /\ "handle" \in Busy /\ "answer" \in Busy /\ "post" \in Busy
BY DEF Stages, Busy

\* Thread t goes from one stage to the next.
LEMMA GoMoves ==
    ASSUME FlowShape, NEW t \in Threads, NEW from, NEW to \in Stages, Go(t, from, to)
    PROVE  /\ stage' \in [Threads -> Stages]
           /\ At(Busy) \in Nat /\ At(Busy)' \in Nat
           /\ At({"limit"}) \in Nat /\ At({"limit"})' \in Nat
           /\ At({"limit", "handle"}) \in Nat /\ At({"limit", "handle"})' \in Nat
           /\ At(Busy)' + Is(from, Busy) = At(Busy) + Is(to, Busy)
           /\ At({"limit"})' + Is(from, {"limit"}) = At({"limit"}) + Is(to, {"limit"})
           /\ At({"limit", "handle"})' + Is(from, {"limit", "handle"})
                 = At({"limit", "handle"}) + Is(to, {"limit", "handle"})
<1>1. /\ stage[t] = from /\ stage' = [stage EXCEPT ![t] = to]
      /\ stage \in [Threads -> Stages]
  BY DEF Go, FlowShape
<1>2. ASSUME NEW S
      PROVE  /\ At(S) \in Nat /\ At(S)' \in Nat
             /\ At(S)' + Is(from, S) = At(S) + Is(to, S)
  BY <1>1, AtMoves
<1>3. stage' \in [Threads -> Stages]
  BY <1>1
<1>4. /\ At(Busy) \in Nat /\ At(Busy)' \in Nat
      /\ At({"limit"}) \in Nat /\ At({"limit"})' \in Nat
      /\ At({"limit", "handle"}) \in Nat /\ At({"limit", "handle"})' \in Nat
      /\ At(Busy)' + Is(from, Busy) = At(Busy) + Is(to, Busy)
      /\ At({"limit"})' + Is(from, {"limit"}) = At({"limit"}) + Is(to, {"limit"})
      /\ At({"limit", "handle"})' + Is(from, {"limit", "handle"})
            = At({"limit", "handle"}) + Is(to, {"limit", "handle"})
  BY <1>2
<1>5. QED  BY <1>3, <1>4

LEMMA StageStays ==
    ASSUME FlowShape, stage' = stage
    PROVE  /\ At(Busy) \in Nat /\ At({"limit"}) \in Nat /\ At({"limit", "handle"}) \in Nat
           /\ At(Busy)' = At(Busy) /\ At({"limit"})' = At({"limit"})
           /\ At({"limit", "handle"})' = At({"limit", "handle"})
<1>1. \A S : At(S) \in Nat /\ At(S)' = At(S)
  BY AtStays DEF FlowShape
<1>2. QED  BY <1>1

\* Nothing is counted: the counters stand as they are.
LEMMA MetricsStay ==
    ASSUME MetricsShape, PeakInv, UNCHANGED <<value, threadVars, peak>>
    PROVE  /\ MetricsShape' /\ PeakInv' /\ \A F \in Watched : Counted(F)' = Counted(F)
<1>1. value' = value /\ todo' = todo /\ mine' = mine /\ seen' = seen /\ peak' = peak
  BY DEF threadVars
<1>2. MetricsShape' /\ PeakInv'
  BY <1>1 DEF MetricsShape, PeakInv
<1>3. ASSUME NEW F \in Watched PROVE Counted(F)' = Counted(F)
  BY <1>1, WatchedAre, CountedStays DEF MetricsShape
<1>4. QED  BY <1>2, <1>3

\* A report counts each of its counters' families once.
LEMMA WatchedMove ==
    ASSUME MetricsShape, PeakInv, NEW t \in Threads, NEW s, Reportable(s), Report(t, s)
    PROVE  /\ MetricsShape' /\ PeakInv'
           /\ \A F \in Watched : Counted(F)' = Counted(F) + Owes(s, F)
<1>1. /\ MetricsShape'
      /\ \A F : Family(F) => Counted(F)' = Counted(F) + Owes(s, F)
      /\ value'[Current] = value[Current] /\ value'[MaxEver] = value[MaxEver]
      /\ mine' = mine /\ seen' = seen /\ peak' = peak
  BY ReportMoves
<1>2. PeakInv'
  BY <1>1, PeakStays
<1>3. QED  BY <1>1, <1>2, WatchedAre

-----------------------------------------------------------------------------
(* The steps of the flow.                                                  *)

\* The books of a step that reports s, or nothing.
LEMMA FlowAdds ==
    ASSUME Flow, MetricsShape', FlowShape', PeakInv', NEW s,
           \A F \in Watched : Counted(F)' = Counted(F) + Owes(s, F),
           started' = started + Owes(s, AllMethods),
           refused' = refused + Owes(s, {RateLimited}),
           finished' = finished + Owes(s, {Requests}),
           Owes(s, {Count}) = Owes(s, {Requests}), Owes(s, AllBuckets) = Owes(s, {Requests}),
           Owes(s, AllClasses) <= Owes(s, {Requests}),
           opens' = opens + Owes(s, {Total}), Owes(s, {Current}) = Owes(s, {Total}),
           closes' = closes,
           started' = finished' + queued' + posted' + At(Busy)',
           refused' + At({"limit"})' <= started',
           Counted({Proxied}) + Owes(s, {Proxied}) + queued' + At({"limit", "handle"})' <= started'
    PROVE  Flow'
<1>1. /\ Counted(AllMethods) \in Nat /\ Counted({RateLimited}) \in Nat
      /\ Counted({Requests}) \in Nat /\ Counted({Count}) \in Nat
      /\ Counted(AllBuckets) \in Nat /\ Counted(AllClasses) \in Nat
      /\ Counted({Total}) \in Nat /\ Counted({Current}) \in Nat
      /\ Counted({Proxied}) \in Nat
  BY WatchedAre DEF Flow
<1>2. /\ Counted(AllMethods)' = Counted(AllMethods) + Owes(s, AllMethods)
      /\ Counted({RateLimited})' = Counted({RateLimited}) + Owes(s, {RateLimited})
      /\ Counted({Requests})' = Counted({Requests}) + Owes(s, {Requests})
      /\ Counted({Count})' = Counted({Count}) + Owes(s, {Count})
      /\ Counted(AllBuckets)' = Counted(AllBuckets) + Owes(s, AllBuckets)
      /\ Counted(AllClasses)' = Counted(AllClasses) + Owes(s, AllClasses)
      /\ Counted({Total})' = Counted({Total}) + Owes(s, {Total})
      /\ Counted({Current})' = Counted({Current}) + Owes(s, {Current})
      /\ Counted({Proxied})' = Counted({Proxied}) + Owes(s, {Proxied})
  BY WatchedAre
<1>3. /\ started  = Counted(AllMethods)
      /\ refused  = Counted({RateLimited})
      /\ finished = Counted({Requests})
      /\ finished = Counted({Count})
      /\ finished = Counted(AllBuckets)
      /\ finished >= Counted(AllClasses)
      /\ opens = Counted({Total})
      /\ opens = closes + Counted({Current})
      /\ closes \in Nat
  BY DEF Flow, FlowInv, FlowShape
<1>4. \A F : Owes(s, F) \in {0, 1}
  BY DEF Owes
<1>5. /\ started' = Counted(AllMethods)' /\ refused' = Counted({RateLimited})'
      /\ finished' = Counted({Requests})' /\ finished' = Counted({Count})'
      /\ finished' = Counted(AllBuckets)' /\ finished' >= Counted(AllClasses)'
  BY <1>1, <1>2, <1>3, <1>4
<1>6. opens' = Counted({Total})' /\ opens' = closes' + Counted({Current})'
  BY <1>1, <1>2, <1>3, <1>4
<1>7. Counted({Proxied})' + queued' + At({"limit", "handle"})' <= started'
  BY <1>2
<1>8. FlowInv'
  BY <1>5, <1>6, <1>7 DEF FlowInv
<1>9. QED  BY <1>8 DEF Flow

-----------------------------------------------------------------------------
(* The steps of the flow.                                                  *)

LEMMA FlowArrive ==
    ASSUME Flow, NEW t \in Threads, Arrive(t)
    PROVE  Flow'
<1>1. PICK m \in Methods : Report(t, <<Method(m)>>)
  BY DEF Arrive
<1>2. PICK to \in {"limit", "handle"} : Go(t, "idle", to)
  BY DEF Arrive
<1>3. /\ started' = started + 1 /\ queued' = queued /\ posted' = posted /\ refused' = refused
      /\ finished' = finished /\ opens' = opens /\ closes' = closes
  BY DEF Arrive
<1>4. /\ Method(m) \in AllMethods /\ Method(m) \in Counters
      /\ Method(m) \notin {Current, MaxEver, Count}
  BY Names, Kinds
<1> DEFINE s == <<Method(m)>>
<1>5. Reportable(s) /\ In(s) = {Method(m)}
  BY <1>4, OneStep
<1>6. Report(t, s)
  BY <1>1
<1> HIDE DEF s
<1>7. /\ Owes(s, AllMethods) = 1 /\ Owes(s, {RateLimited}) = 0 /\ Owes(s, {Requests}) = 0
      /\ Owes(s, {Count}) = 0 /\ Owes(s, AllBuckets) = 0 /\ Owes(s, AllClasses) = 0
      /\ Owes(s, {Total}) = 0 /\ Owes(s, {Current}) = 0 /\ Owes(s, {Proxied}) = 0
  BY <1>4, <1>5, Kinds DEF Owes
<1>8. /\ MetricsShape' /\ PeakInv'
      /\ \A F \in Watched : Counted(F)' = Counted(F) + Owes(s, F)
  BY <1>5, <1>6, WatchedMove DEF Flow
<1>9. /\ stage' \in [Threads -> Stages]
      /\ At(Busy)' = At(Busy) + 1 /\ At(Busy) \in Nat
      /\ At({"limit"}) \in Nat /\ At({"limit"})' \in Nat /\ At({"limit"})' <= At({"limit"}) + 1
      /\ At({"limit", "handle"})' = At({"limit", "handle"}) + 1
      /\ At({"limit", "handle"}) \in Nat
  BY <1>2, GoMoves, BusyAre DEF Flow, Is
<1>10. FlowShape'
  BY <1>3, <1>9 DEF Flow, FlowShape
<1>11. /\ started = finished + queued + posted + At(Busy)
       /\ refused + At({"limit"}) <= started
       /\ Counted({Proxied}) + queued + At({"limit", "handle"}) <= started
       /\ started \in Nat /\ refused \in Nat /\ queued \in Nat /\ finished \in Nat /\ posted \in Nat
       /\ Counted({Proxied}) \in Nat
  BY WatchedAre DEF Flow, FlowInv, FlowShape
<1>12. /\ started' = finished' + queued' + posted' + At(Busy)'
       /\ refused' + At({"limit"})' <= started'
       /\ Counted({Proxied}) + Owes(s, {Proxied}) + queued' + At({"limit", "handle"})' <= started'
  BY <1>3, <1>7, <1>9, <1>11
<1>13. /\ started' = started + Owes(s, AllMethods) /\ refused' = refused + Owes(s, {RateLimited})
       /\ finished' = finished + Owes(s, {Requests}) /\ opens' = opens + Owes(s, {Total})
       /\ Owes(s, {Count}) = Owes(s, {Requests}) /\ Owes(s, AllBuckets) = Owes(s, {Requests})
       /\ Owes(s, AllClasses) <= Owes(s, {Requests}) /\ Owes(s, {Current}) = Owes(s, {Total})
  BY <1>3, <1>7 DEF Flow, FlowShape
<1>14. QED  BY <1>3, <1>8, <1>10, <1>12, <1>13, FlowAdds, Zenon

\* Steps that report nothing and leave the history alone.
LEMMA FlowQuiet ==
    ASSUME Flow, MetricsShape', FlowShape', PeakInv', \A F \in Watched : Counted(F)' = Counted(F),
           history' = history,
           queued' + posted' + At(Busy)' = queued + posted + At(Busy), At(Busy) \in Nat,
           At(Busy)' \in Nat, At({"limit"}) \in Nat, At({"limit", "handle"}) \in Nat,
           At({"limit"})' \in Nat, At({"limit", "handle"})' \in Nat,
           At({"limit"})' <= At({"limit"}),
           queued' + At({"limit", "handle"})' <= queued + At({"limit", "handle"})
    PROVE  Flow'
<1> DEFINE s == <<>>
<1>1. \A F : Owes(s, F) = 0
  BY NoSteps DEF Owes
<1> HIDE DEF s
<1>2. \A F \in Watched : Counted(F)' = Counted(F) + Owes(s, F)
  BY <1>1, WatchedAre DEF Flow
<1>3. /\ started' = started /\ refused' = refused /\ finished' = finished
      /\ opens' = opens /\ closes' = closes
  BY DEF history
<1>4. /\ started = finished + queued + posted + At(Busy)
      /\ refused + At({"limit"}) <= started
      /\ Counted({Proxied}) + queued + At({"limit", "handle"}) <= started
      /\ started \in Nat /\ refused \in Nat /\ queued \in Nat /\ finished \in Nat /\ posted \in Nat
      /\ opens \in Nat
      /\ Counted({Proxied}) \in Nat
  BY WatchedAre DEF Flow, FlowInv, FlowShape
<1>5. queued' \in Nat /\ posted' \in Nat
  BY DEF FlowShape
<1>6. /\ started' = finished' + queued' + posted' + At(Busy)'
      /\ refused' + At({"limit"})' <= started'
      /\ Counted({Proxied}) + Owes(s, {Proxied}) + queued' + At({"limit", "handle"})' <= started'
  BY <1>1, <1>3, <1>4, <1>5
<1>7. /\ started' = started + Owes(s, AllMethods) /\ refused' = refused + Owes(s, {RateLimited})
      /\ finished' = finished + Owes(s, {Requests}) /\ opens' = opens + Owes(s, {Total})
      /\ Owes(s, {Count}) = Owes(s, {Requests}) /\ Owes(s, AllBuckets) = Owes(s, {Requests})
      /\ Owes(s, AllClasses) <= Owes(s, {Requests}) /\ Owes(s, {Current}) = Owes(s, {Total})
  BY <1>1, <1>3, <1>4
<1>8. QED  BY <1>2, <1>3, <1>6, <1>7, FlowAdds, Zenon

\* A request is let through, given to a worker, or its answer posted.
LEMMA FlowGoes ==
    ASSUME Flow, NEW t \in Threads,
           Unlimited(t) \/ Grant(t) \/ Offload(t) \/ Post(t)
    PROVE  Flow'
<1>1. /\ UNCHANGED <<value, threadVars, peak>> /\ history' = history
  BY DEF Unlimited, Grant, Offload, Post, metricsVars
<1>2. /\ MetricsShape' /\ PeakInv' /\ \A F \in Watched : Counted(F)' = Counted(F)
  BY <1>1, MetricsStay DEF Flow
<1>3. queued \in Nat /\ posted \in Nat /\ FlowShape
  BY DEF Flow, FlowShape
<1>4. ASSUME stage' \in [Threads -> Stages], queued' \in Nat, posted' \in Nat PROVE FlowShape'
  BY <1>1, <1>3, <1>4 DEF FlowShape, history
<1>5. CASE Unlimited(t) \/ Grant(t)
  <2>1. Go(t, "limit", "handle") /\ queued' = queued /\ posted' = posted
    BY <1>5 DEF Unlimited, Grant
  <2>2. /\ stage' \in [Threads -> Stages]
        /\ At(Busy) \in Nat /\ At(Busy)' \in Nat /\ At(Busy)' = At(Busy)
        /\ At({"limit"}) \in Nat /\ At({"limit"})' \in Nat /\ At({"limit"})' <= At({"limit"})
        /\ At({"limit", "handle"}) \in Nat /\ At({"limit", "handle"})' \in Nat
        /\ At({"limit", "handle"})' = At({"limit", "handle"})
    BY <1>3, <2>1, GoMoves, BusyAre DEF Is
  <2>3. FlowShape'
    BY <1>3, <1>4, <2>1, <2>2
  <2>4. /\ queued' + posted' + At(Busy)' = queued + posted + At(Busy)
        /\ queued' + At({"limit", "handle"})' <= queued + At({"limit", "handle"})
    BY <1>3, <2>1, <2>2
  <2>5. QED  BY <1>1, <1>2, <2>2, <2>3, <2>4, FlowQuiet, Zenon
<1>6. CASE Offload(t)
  <2>1. Go(t, "handle", "idle") /\ queued' = queued + 1 /\ posted' = posted
    BY <1>6 DEF Offload
  <2>2. /\ stage' \in [Threads -> Stages]
        /\ At(Busy) \in Nat /\ At(Busy)' \in Nat /\ At(Busy)' + 1 = At(Busy)
        /\ At({"limit"}) \in Nat /\ At({"limit"})' \in Nat /\ At({"limit"})' <= At({"limit"})
        /\ At({"limit", "handle"}) \in Nat /\ At({"limit", "handle"})' \in Nat
        /\ At({"limit", "handle"})' + 1 = At({"limit", "handle"})
    BY <1>3, <2>1, GoMoves, BusyAre DEF Is
  <2>3. FlowShape'
    BY <1>3, <1>4, <2>1, <2>2
  <2>4. /\ queued' + posted' + At(Busy)' = queued + posted + At(Busy)
        /\ queued' + At({"limit", "handle"})' <= queued + At({"limit", "handle"})
    BY <1>3, <2>1, <2>2
  <2>5. QED  BY <1>1, <1>2, <2>2, <2>3, <2>4, FlowQuiet, Zenon
<1>7. CASE Post(t)
  <2>1. Go(t, "post", "idle") /\ queued' = queued /\ posted' = posted + 1
    BY <1>7 DEF Post
  <2>2. /\ stage' \in [Threads -> Stages]
        /\ At(Busy) \in Nat /\ At(Busy)' \in Nat /\ At(Busy)' + 1 = At(Busy)
        /\ At({"limit"}) \in Nat /\ At({"limit"})' \in Nat /\ At({"limit"})' <= At({"limit"})
        /\ At({"limit", "handle"}) \in Nat /\ At({"limit", "handle"})' \in Nat
        /\ At({"limit", "handle"})' = At({"limit", "handle"})
    BY <1>3, <2>1, GoMoves, BusyAre DEF Is
  <2>3. FlowShape'
    BY <1>3, <1>4, <2>1, <2>2
  <2>4. /\ queued' + posted' + At(Busy)' = queued + posted + At(Busy)
        /\ queued' + At({"limit", "handle"})' <= queued + At({"limit", "handle"})
    BY <1>3, <2>1, <2>2
  <2>5. QED  BY <1>1, <1>2, <2>2, <2>3, <2>4, FlowQuiet, Zenon
<1>8. QED  BY <1>5, <1>6, <1>7

\* The flow stands still: a thread goes on with its update, or the snapshot or the
\* limiter with theirs.
LEMMA FlowStands ==
    ASSUME Flow, MetricsShape', PeakInv', \A F \in Watched : Counted(F)' = Counted(F),
           UNCHANGED flowVars
    PROVE  Flow'
<1>1. stage' = stage /\ queued' = queued /\ posted' = posted /\ history' = history
  BY DEF flowVars
<1>2. FlowShape' /\ FlowShape /\ queued \in Nat /\ posted \in Nat
  BY <1>1 DEF Flow, FlowShape, history
<1>3. /\ At(Busy) \in Nat /\ At({"limit"}) \in Nat /\ At({"limit", "handle"}) \in Nat
      /\ At(Busy)' = At(Busy) /\ At({"limit"})' = At({"limit"})
      /\ At({"limit", "handle"})' = At({"limit", "handle"})
  BY <1>1, <1>2, StageStays
<1>4. /\ At(Busy)' \in Nat /\ At({"limit"})' \in Nat /\ At({"limit", "handle"})' \in Nat
      /\ queued' + posted' + At(Busy)' = queued + posted + At(Busy)
      /\ At({"limit"})' <= At({"limit"})
      /\ queued' + At({"limit", "handle"})' <= queued + At({"limit", "handle"})
  BY <1>1, <1>2, <1>3
<1>5. QED  BY <1>1, <1>2, <1>3, <1>4, FlowQuiet, Zenon

LEMMA FlowCounting ==
    ASSUME Flow, NEW t \in Threads, Counting(t)
    PROVE  Flow'
<1>1. UNCHANGED flowVars /\ MetricsShape /\ PeakInv
  BY DEF Counting, Flow
<1>2. CASE Bump(t)
  <2>1. MetricsShape' /\ \A F : Family(F) => Counted(F)' = Counted(F)
    BY <1>1, <1>2, BumpMoves
  <2>2. PeakInv'
    BY <1>1, <1>2, PeakBump
  <2>3. QED  BY <1>1, <2>1, <2>2, WatchedAre, FlowStands
<1>3. CASE LoadMax(t) \/ RaiseMax(t) \/ MaxIsHigher(t)
  <2>1. /\ MetricsShape' /\ PeakInv' /\ todo' = todo
        /\ \A c \in Counters : c # MaxEver => value'[c] = value[c]
    BY <1>1, <1>3, MaxMoves
  <2>2. ASSUME NEW F \in Watched PROVE Counted(F)' = Counted(F)
    <3>1. Family(F) /\ \A c \in F : value'[c] = value[c]
      BY <2>1, WatchedAre DEF Family
    <3>2. QED  BY <2>1, <3>1, CountedStays DEF Flow, MetricsShape
  <2>3. QED  BY <1>1, <2>1, <2>2, FlowStands
<1>4. QED  BY <1>2, <1>3 DEF Counting, Update

LEMMA FlowElse ==
    ASSUME Flow, Snapshot \/ Limiter \/ UNCHANGED vars \/ \E t \in Threads : ReadClock(t)
    PROVE  Flow'
<1>1. UNCHANGED <<value, threadVars, peak>> /\ UNCHANGED flowVars
  <2>1. CASE Snapshot
    BY <2>1 DEF Snapshot, Load, Rendered
  <2>2. CASE Limiter \/ UNCHANGED vars \/ \E t \in Threads : ReadClock(t)
    <3>1. UNCHANGED metricsVars /\ UNCHANGED flowVars
      BY <2>2 DEF Limiter, vars, ReadClock
    <3>2. QED  BY <3>1 DEF metricsVars
  <2>3. QED  BY <2>1, <2>2
<1>2. /\ MetricsShape' /\ PeakInv' /\ \A F \in Watched : Counted(F)' = Counted(F)
  BY <1>1, MetricsStay DEF Flow
<1>3. QED  BY <1>1, <1>2, FlowStands

\* onRequestRateLimited().
LEMMA FlowRefuse ==
    ASSUME Flow, NEW t \in Threads, Refuse(t)
    PROVE  Flow'
<1> DEFINE s == <<RateLimited>>
<1>1. /\ Go(t, "limit", "answer") /\ Report(t, s)
      /\ started' = started /\ queued' = queued /\ posted' = posted /\ refused' = refused + 1
      /\ finished' = finished /\ opens' = opens /\ closes' = closes
  BY DEF Refuse
<1>2. Reportable(s) /\ In(s) = {RateLimited}
  <2>1. RateLimited \in Counters /\ RateLimited \notin {Current, MaxEver, Count}
    BY Names, Kinds
  <2>2. QED  BY <2>1, OneStep
<1> HIDE DEF s
<1>3. /\ Owes(s, AllMethods) = 0 /\ Owes(s, {RateLimited}) = 1 /\ Owes(s, {Requests}) = 0
      /\ Owes(s, {Count}) = 0 /\ Owes(s, AllBuckets) = 0 /\ Owes(s, AllClasses) = 0
      /\ Owes(s, {Total}) = 0 /\ Owes(s, {Current}) = 0 /\ Owes(s, {Proxied}) = 0
  BY <1>2, Kinds DEF Owes
<1>4. /\ MetricsShape' /\ PeakInv'
      /\ \A F \in Watched : Counted(F)' = Counted(F) + Owes(s, F)
  BY <1>1, <1>2, WatchedMove DEF Flow
<1>5. /\ stage' \in [Threads -> Stages]
      /\ At(Busy)' = At(Busy) /\ At(Busy) \in Nat
      /\ At({"limit"}) \in Nat /\ At({"limit"})' \in Nat /\ At({"limit"})' + 1 = At({"limit"})
      /\ At({"limit", "handle"}) \in Nat /\ At({"limit", "handle"})' \in Nat
      /\ At({"limit", "handle"})' + 1 = At({"limit", "handle"})
  BY <1>1, GoMoves, BusyAre DEF Flow, Is
<1>6. FlowShape'
  BY <1>1, <1>5 DEF Flow, FlowShape
<1>7. /\ started = finished + queued + posted + At(Busy)
      /\ refused + At({"limit"}) <= started
      /\ Counted({Proxied}) + queued + At({"limit", "handle"}) <= started
      /\ started \in Nat /\ refused \in Nat /\ queued \in Nat /\ finished \in Nat /\ posted \in Nat
      /\ opens \in Nat /\ Counted({Proxied}) \in Nat
  BY WatchedAre DEF Flow, FlowInv, FlowShape
<1>8. /\ started' = finished' + queued' + posted' + At(Busy)'
      /\ refused' + At({"limit"})' <= started'
      /\ Counted({Proxied}) + Owes(s, {Proxied}) + queued' + At({"limit", "handle"})' <= started'
  BY <1>1, <1>3, <1>5, <1>7
<1>9. /\ started' = started + Owes(s, AllMethods) /\ refused' = refused + Owes(s, {RateLimited})
      /\ finished' = finished + Owes(s, {Requests}) /\ opens' = opens + Owes(s, {Total})
      /\ Owes(s, {Count}) = Owes(s, {Requests}) /\ Owes(s, AllBuckets) = Owes(s, {Requests})
      /\ Owes(s, AllClasses) <= Owes(s, {Requests}) /\ Owes(s, {Current}) = Owes(s, {Total})
  BY <1>1, <1>3, <1>7
<1>10. QED  BY <1>1, <1>4, <1>6, <1>8, <1>9, FlowAdds, Zenon

LEMMA ForwardOwes ==
    ASSUME NEW s \in ForwardSteps
    PROVE  /\ Reportable(s)
           /\ Owes(s, AllMethods) = 0 /\ Owes(s, {RateLimited}) = 0 /\ Owes(s, {Requests}) = 0
           /\ Owes(s, {Count}) = 0 /\ Owes(s, AllBuckets) = 0 /\ Owes(s, AllClasses) = 0
           /\ Owes(s, {Total}) = 0 /\ Owes(s, {Current}) = 0 /\ Owes(s, {Proxied}) \in {0, 1}
<1>1. Reportable(s) /\ In(s) \subseteq {Proxied, ProxyErrors}
  <2>1. CASE s = <<>>
    BY <2>1, NoSteps
  <2>2. CASE s = <<Proxied>>
    <3>1. Proxied \in Counters /\ Proxied \notin {Current, MaxEver, Count}
      BY Names, Kinds
    <3>2. QED  BY <2>2, <3>1, OneStep
  <2>3. CASE s = <<Proxied, ProxyErrors>>
    <3>1. /\ Proxied \in Counters /\ Proxied \notin {Current, MaxEver, Count}
          /\ ProxyErrors \in Counters /\ ProxyErrors \notin {MaxEver, Count}
          /\ ProxyErrors \notin AllMethods /\ Proxied[1] # ProxyErrors[1]
      BY Names, Kinds
    <3>2. QED  BY <2>3, <3>1, TwoSteps
  <2>4. QED  BY <2>1, <2>2, <2>3 DEF ForwardSteps
<1>2. QED  BY <1>1, Kinds DEF Owes

\* router.handle(), on an IO thread or on a worker.
LEMMA FlowHandle ==
    ASSUME Flow, NEW t \in Threads, HandleHere(t) \/ HandleThere(t)
    PROVE  Flow'
<1>1. PICK s \in ForwardSteps : Report(t, s)
  BY DEF HandleHere, HandleThere
<1>2. /\ Reportable(s)
      /\ Owes(s, AllMethods) = 0 /\ Owes(s, {RateLimited}) = 0 /\ Owes(s, {Requests}) = 0
      /\ Owes(s, {Count}) = 0 /\ Owes(s, AllBuckets) = 0 /\ Owes(s, AllClasses) = 0
      /\ Owes(s, {Total}) = 0 /\ Owes(s, {Current}) = 0 /\ Owes(s, {Proxied}) \in {0, 1}
  BY ForwardOwes
<1>3. /\ MetricsShape' /\ PeakInv'
      /\ \A F \in Watched : Counted(F)' = Counted(F) + Owes(s, F)
  BY <1>1, <1>2, WatchedMove DEF Flow
<1>4. /\ started = finished + queued + posted + At(Busy)
      /\ refused + At({"limit"}) <= started
      /\ Counted({Proxied}) + queued + At({"limit", "handle"}) <= started
      /\ started \in Nat /\ refused \in Nat /\ queued \in Nat /\ finished \in Nat /\ posted \in Nat
      /\ opens \in Nat /\ Counted({Proxied}) \in Nat /\ FlowShape
  BY WatchedAre DEF Flow, FlowInv, FlowShape
<1>5. /\ started' = started /\ posted' = posted /\ refused' = refused
      /\ finished' = finished /\ opens' = opens /\ closes' = closes
  BY DEF HandleHere, HandleThere, history
<1>6. /\ stage' \in [Threads -> Stages] /\ queued' \in Nat
      /\ queued' + At(Busy)' = queued + At(Busy) /\ At(Busy) \in Nat /\ At(Busy)' \in Nat
      /\ At({"limit"}) \in Nat /\ At({"limit"})' \in Nat /\ At({"limit"})' = At({"limit"})
      /\ At({"limit", "handle"}) \in Nat /\ At({"limit", "handle"})' \in Nat
      /\ queued' + At({"limit", "handle"})' + 1 = queued + At({"limit", "handle"})
  <2>1. CASE HandleHere(t)
    <3>1. Go(t, "handle", "answer") /\ queued' = queued
      BY <2>1 DEF HandleHere
    <3>2. /\ stage' \in [Threads -> Stages]
          /\ At(Busy)' = At(Busy) /\ At(Busy) \in Nat /\ At(Busy)' \in Nat
          /\ At({"limit"}) \in Nat /\ At({"limit"})' \in Nat /\ At({"limit"})' = At({"limit"})
          /\ At({"limit", "handle"}) \in Nat /\ At({"limit", "handle"})' \in Nat
          /\ At({"limit", "handle"})' + 1 = At({"limit", "handle"})
      BY <1>4, <3>1, GoMoves, BusyAre DEF Is
    <3>3. QED  BY <1>4, <3>1, <3>2
  <2>2. CASE HandleThere(t)
    <3>1. Go(t, "idle", "post") /\ queued > 0 /\ queued' = queued - 1
      BY <2>2 DEF HandleThere
    <3>2. /\ stage' \in [Threads -> Stages]
          /\ At(Busy)' = At(Busy) + 1 /\ At(Busy) \in Nat /\ At(Busy)' \in Nat
          /\ At({"limit"}) \in Nat /\ At({"limit"})' \in Nat /\ At({"limit"})' = At({"limit"})
          /\ At({"limit", "handle"}) \in Nat /\ At({"limit", "handle"})' \in Nat
          /\ At({"limit", "handle"})' = At({"limit", "handle"})
      BY <1>4, <3>1, GoMoves, BusyAre DEF Is
    <3>3. QED  BY <1>4, <3>1, <3>2
  <2>3. QED  BY <2>1, <2>2
<1>7. FlowShape'
  BY <1>4, <1>5, <1>6 DEF FlowShape
<1>8. /\ started' = finished' + queued' + posted' + At(Busy)'
      /\ refused' + At({"limit"})' <= started'
      /\ Counted({Proxied}) + Owes(s, {Proxied}) + queued' + At({"limit", "handle"})' <= started'
  BY <1>2, <1>4, <1>5, <1>6
<1>9. /\ started' = started + Owes(s, AllMethods) /\ refused' = refused + Owes(s, {RateLimited})
      /\ finished' = finished + Owes(s, {Requests}) /\ opens' = opens + Owes(s, {Total})
      /\ Owes(s, {Count}) = Owes(s, {Requests}) /\ Owes(s, AllBuckets) = Owes(s, {Requests})
      /\ Owes(s, AllClasses) <= Owes(s, {Requests}) /\ Owes(s, {Current}) = Owes(s, {Total})
  BY <1>2, <1>4, <1>5
<1>10. QED  BY <1>3, <1>5, <1>7, <1>8, <1>9, FlowAdds, Zenon

LEMMA RequestOwes ==
    ASSUME NEW c, NEW b \in Buckets
    PROVE  LET s == RequestSteps(c, b)
           IN  /\ Reportable(s)
               /\ Owes(s, AllMethods) = 0 /\ Owes(s, {RateLimited}) = 0
               /\ Owes(s, {Requests}) = 1 /\ Owes(s, {Count}) = 1 /\ Owes(s, AllBuckets) = 1
               /\ Owes(s, AllClasses) \in {0, 1}
               /\ Owes(s, {Total}) = 0 /\ Owes(s, {Current}) = 0 /\ Owes(s, {Proxied}) = 0
<1> DEFINE s == RequestSteps(c, b)
<1>1. /\ Reportable(s) /\ Requests \in In(s) /\ Count \in In(s) /\ Bucket(b) \in In(s)
      /\ In(s) \subseteq {Requests, Count, Bucket(b)} \cup AllClasses
  <2>1. CASE c \in Classes
    <3>1. s = <<Requests, Class(c), Count, Bucket(b)>>
      BY <2>1, RequestStepsAre
    <3>2. Reportable(s) /\ In(s) = {Requests, Class(c), Count, Bucket(b)}
      BY <2>1, <3>1, FourSteps
    <3>3. QED  BY <2>1, <3>2, Names
  <2>2. CASE c \notin Classes
    <3>1. s = <<Requests, Count, Bucket(b)>>
      BY <2>2, RequestStepsAre
    <3>2. Reportable(s) /\ In(s) = {Requests, Count, Bucket(b)}
      BY <3>1, ThreeSteps
    <3>3. QED  BY <3>2
  <2>3. QED  BY <2>1, <2>2
<1> HIDE DEF s
<1>2. Bucket(b) \in AllBuckets
  BY Names
<1>3. /\ Owes(s, AllMethods) = 0 /\ Owes(s, {RateLimited}) = 0
      /\ Owes(s, {Requests}) = 1 /\ Owes(s, {Count}) = 1 /\ Owes(s, AllBuckets) = 1
      /\ Owes(s, AllClasses) \in {0, 1}
      /\ Owes(s, {Total}) = 0 /\ Owes(s, {Current}) = 0 /\ Owes(s, {Proxied}) = 0
  BY <1>1, <1>2, Kinds DEF Owes
<1>4. QED  BY <1>1, <1>3 DEF s

\* respond: onRequestFinished().
LEMMA FlowFinish ==
    ASSUME Flow, NEW t \in Threads, Respond(t) \/ RespondPosted(t)
    PROVE  Flow'
<1>0. Finish(t)
  BY DEF Respond, RespondPosted
<1>1. PICK c \in Classes \cup {0}, b \in Buckets : Report(t, RequestSteps(c, b))
  BY <1>0 DEF Finish
<1> DEFINE s == RequestSteps(c, b)
<1>2. /\ Reportable(s)
      /\ Owes(s, AllMethods) = 0 /\ Owes(s, {RateLimited}) = 0
      /\ Owes(s, {Requests}) = 1 /\ Owes(s, {Count}) = 1 /\ Owes(s, AllBuckets) = 1
      /\ Owes(s, AllClasses) \in {0, 1}
      /\ Owes(s, {Total}) = 0 /\ Owes(s, {Current}) = 0 /\ Owes(s, {Proxied}) = 0
  BY RequestOwes
<1>a. Report(t, s)
  BY <1>1
<1> HIDE DEF s
<1>3. /\ MetricsShape' /\ PeakInv'
      /\ \A F \in Watched : Counted(F)' = Counted(F) + Owes(s, F)
  BY <1>a, <1>2, WatchedMove DEF Flow
<1>4. /\ started = finished + queued + posted + At(Busy)
      /\ refused + At({"limit"}) <= started
      /\ Counted({Proxied}) + queued + At({"limit", "handle"}) <= started
      /\ started \in Nat /\ refused \in Nat /\ queued \in Nat /\ finished \in Nat /\ posted \in Nat
      /\ opens \in Nat /\ Counted({Proxied}) \in Nat /\ FlowShape
  BY WatchedAre DEF Flow, FlowInv, FlowShape
<1>5. /\ started' = started /\ queued' = queued /\ refused' = refused
      /\ finished' = finished + 1 /\ opens' = opens /\ closes' = closes
  BY <1>0 DEF Finish
<1>6. /\ stage' \in [Threads -> Stages] /\ posted' \in Nat
      /\ posted' + At(Busy)' + 1 = posted + At(Busy) /\ At(Busy) \in Nat /\ At(Busy)' \in Nat
      /\ At({"limit"}) \in Nat /\ At({"limit"})' = At({"limit"})
      /\ At({"limit", "handle"}) \in Nat /\ At({"limit", "handle"})' = At({"limit", "handle"})
  <2>1. CASE Respond(t)
    <3>1. Go(t, "answer", "idle") /\ posted' = posted
      BY <2>1 DEF Respond
    <3>2. /\ stage' \in [Threads -> Stages]
          /\ At(Busy)' + 1 = At(Busy) /\ At(Busy) \in Nat /\ At(Busy)' \in Nat
          /\ At({"limit"}) \in Nat /\ At({"limit"})' = At({"limit"})
          /\ At({"limit", "handle"}) \in Nat
          /\ At({"limit", "handle"})' = At({"limit", "handle"})
      BY <1>4, <3>1, GoMoves, BusyAre DEF Is
    <3>3. QED  BY <1>4, <3>1, <3>2
  <2>2. CASE RespondPosted(t)
    <3>1. posted > 0 /\ posted' = posted - 1 /\ stage' = stage
      BY <2>2 DEF RespondPosted
    <3>2. /\ At(Busy) \in Nat /\ At({"limit"}) \in Nat /\ At({"limit", "handle"}) \in Nat
          /\ At(Busy)' = At(Busy) /\ At({"limit"})' = At({"limit"})
          /\ At({"limit", "handle"})' = At({"limit", "handle"})
      BY <1>4, <3>1, StageStays
    <3>3. stage' \in [Threads -> Stages]
      BY <1>4, <3>1 DEF FlowShape
    <3>4. QED  BY <1>4, <3>1, <3>2, <3>3
  <2>3. QED  BY <2>1, <2>2
<1>7. FlowShape'
  BY <1>4, <1>5, <1>6 DEF FlowShape
<1>8. /\ started' = finished' + queued' + posted' + At(Busy)'
      /\ refused' + At({"limit"})' <= started'
      /\ Counted({Proxied}) + Owes(s, {Proxied}) + queued' + At({"limit", "handle"})' <= started'
  BY <1>2, <1>4, <1>5, <1>6
<1>9. /\ started' = started + Owes(s, AllMethods) /\ refused' = refused + Owes(s, {RateLimited})
      /\ finished' = finished + Owes(s, {Requests}) /\ opens' = opens + Owes(s, {Total})
      /\ Owes(s, {Count}) = Owes(s, {Requests}) /\ Owes(s, AllBuckets) = Owes(s, {Requests})
      /\ Owes(s, AllClasses) <= Owes(s, {Requests}) /\ Owes(s, {Current}) = Owes(s, {Total})
  BY <1>2, <1>4, <1>5
<1>10. QED  BY <1>3, <1>5, <1>7, <1>8, <1>9, FlowAdds, Zenon

\* onConnectionOpened().
LEMMA FlowOpen ==
    ASSUME Flow, NEW t \in Threads, ConnectionOpened(t)
    PROVE  Flow'
<1> DEFINE s == OpenSteps
<1>1. /\ Report(t, s) /\ opens' = opens + 1 /\ stage' = stage
      /\ started' = started /\ queued' = queued /\ posted' = posted /\ refused' = refused
      /\ finished' = finished /\ closes' = closes
  BY DEF ConnectionOpened
<1>2. Reportable(s) /\ In(s) = {Total, Current}
  <2>1. /\ Total \in Counters /\ Total \notin {Current, MaxEver, Count}
        /\ Current \in Counters /\ Current \notin {MaxEver, Count}
        /\ Current \notin AllMethods /\ Total[1] # Current[1]
    BY Names, Kinds
  <2>2. QED  BY <2>1, TwoSteps DEF OpenSteps
<1> HIDE DEF s
<1>3. /\ Owes(s, AllMethods) = 0 /\ Owes(s, {RateLimited}) = 0 /\ Owes(s, {Requests}) = 0
      /\ Owes(s, {Count}) = 0 /\ Owes(s, AllBuckets) = 0 /\ Owes(s, AllClasses) = 0
      /\ Owes(s, {Total}) = 1 /\ Owes(s, {Current}) = 1 /\ Owes(s, {Proxied}) = 0
  BY <1>2, Kinds DEF Owes
<1>4. /\ MetricsShape' /\ PeakInv'
      /\ \A F \in Watched : Counted(F)' = Counted(F) + Owes(s, F)
  BY <1>1, <1>2, WatchedMove DEF Flow
<1>5. FlowShape' /\ FlowShape
  BY <1>1 DEF Flow, FlowShape
<1>6. /\ At(Busy) \in Nat /\ At({"limit"}) \in Nat /\ At({"limit", "handle"}) \in Nat
      /\ At(Busy)' = At(Busy) /\ At({"limit"})' = At({"limit"})
      /\ At({"limit", "handle"})' = At({"limit", "handle"})
  BY <1>1, <1>5, StageStays
<1>7. /\ started = finished + queued + posted + At(Busy)
      /\ refused + At({"limit"}) <= started
      /\ Counted({Proxied}) + queued + At({"limit", "handle"}) <= started
      /\ started \in Nat /\ refused \in Nat /\ queued \in Nat /\ finished \in Nat /\ posted \in Nat
      /\ opens \in Nat /\ Counted({Proxied}) \in Nat
  BY WatchedAre DEF Flow, FlowInv, FlowShape
<1>8. /\ started' = finished' + queued' + posted' + At(Busy)'
      /\ refused' + At({"limit"})' <= started'
      /\ Counted({Proxied}) + Owes(s, {Proxied}) + queued' + At({"limit", "handle"})' <= started'
  BY <1>1, <1>3, <1>6, <1>7
<1>9. /\ started' = started + Owes(s, AllMethods) /\ refused' = refused + Owes(s, {RateLimited})
      /\ finished' = finished + Owes(s, {Requests}) /\ opens' = opens + Owes(s, {Total})
      /\ Owes(s, {Count}) = Owes(s, {Requests}) /\ Owes(s, AllBuckets) = Owes(s, {Requests})
      /\ Owes(s, AllClasses) <= Owes(s, {Requests}) /\ Owes(s, {Current}) = Owes(s, {Total})
  BY <1>1, <1>3, <1>7
<1>10. QED  BY <1>1, <1>4, <1>5, <1>8, <1>9, FlowAdds, Zenon

\* onConnectionClosed(), for a connection whose opening has been counted.
LEMMA FlowClose ==
    ASSUME Flow, NEW t \in Threads, ConnectionClosed(t)
    PROVE  Flow'
<1> DEFINE A == {u \in Threads : Opening(u)}
           B == {u \in Threads : \E i \in DOMAIN todo[u] : todo[u][i] \in {Current}}
<1>1. /\ closes + Cardinality(A) < opens /\ closes' = closes + 1 /\ CloseConnection(t)
      /\ stage' = stage /\ queued' = queued /\ posted' = posted /\ started' = started
      /\ refused' = refused /\ finished' = finished /\ opens' = opens
  BY DEF ConnectionClosed
<1>2. MetricsShape /\ FlowShape /\ PeakInv /\ FlowInv
  BY DEF Flow
<1>3. /\ opens = closes + Counted({Current}) /\ opens \in Nat /\ closes \in Nat
      /\ Counted({Current}) = Sum(value, {Current}) + Left({Current})
  BY <1>2 DEF FlowInv, FlowShape, Counted
<1>4. Sum(value, {Current}) = value[Current] /\ value[Current] \in Nat
  BY <1>2, Names, SumOfSingle DEF MetricsShape
<1>5. Left({Current}) \in Nat /\ Cardinality(A) \in Nat /\ Left({Current}) <= Cardinality(A)
  <2>1. B \subseteq A
    BY DEF Opening
  <2>2. IsFiniteSet(A)
    BY MetricsAssumption, FS_Subset
  <2>3. Cardinality(B) <= Cardinality(A)
    BY <2>1, <2>2, FS_Subset, Zenon
  <2>4. Cardinality(A) \in Nat /\ Cardinality(B) \in Nat
    BY <2>1, <2>2, FS_Subset, FS_CardinalityType, Zenon
  <2>5. Left({Current}) = Cardinality(B)
    BY DEF Left
  <2>6. QED  BY <2>3, <2>4, <2>5
<1> HIDE DEF A, B
<1>6. value[Current] > 0
  BY <1>1, <1>3, <1>4, <1>5
<1>7. /\ MetricsShape' /\ PeakInv' /\ Counted({Current})' \in Nat
      /\ Counted({Current})' + 1 = Counted({Current})
      /\ \A F : Family(F) /\ Current \notin F => Counted(F)' = Counted(F)
  BY <1>1, <1>2, <1>6, CloseMoves
<1>8. FlowShape'
  BY <1>1, <1>2 DEF FlowShape
<1>9. /\ At(Busy)' = At(Busy) /\ At({"limit"})' = At({"limit"})
      /\ At({"limit", "handle"})' = At({"limit", "handle"})
  BY <1>1, <1>2, StageStays
<1>10. \A F \in Watched : F # {Current} => Counted(F)' = Counted(F)
  BY <1>7, WatchedAre
<1>11. /\ Counted(AllMethods)' = Counted(AllMethods)
       /\ Counted({RateLimited})' = Counted({RateLimited})
       /\ Counted({Requests})' = Counted({Requests}) /\ Counted({Count})' = Counted({Count})
       /\ Counted(AllBuckets)' = Counted(AllBuckets) /\ Counted(AllClasses)' = Counted(AllClasses)
       /\ Counted({Total})' = Counted({Total}) /\ Counted({Proxied})' = Counted({Proxied})
  <2>1. /\ AllMethods # {Current} /\ AllBuckets # {Current} /\ AllClasses # {Current}
        /\ {RateLimited} # {Current} /\ {Requests} # {Current} /\ {Count} # {Current}
        /\ {Total} # {Current} /\ {Proxied} # {Current}
    BY Kinds
  <2>2. QED  BY <1>10, <2>1, WatchedAre
<1>12. opens' = closes' + Counted({Current})'
  <2>1. Counted({Current}) \in Nat /\ Counted({Current})' \in Nat
    BY <1>2, <1>7, WatchedAre
  <2>2. QED  BY <1>1, <1>3, <1>7, <2>1
<1>13. FlowInv'
  <2>1. /\ started' = Counted(AllMethods)' /\ refused' = Counted({RateLimited})'
        /\ finished' = Counted({Requests})' /\ finished' = Counted({Count})'
        /\ finished' = Counted(AllBuckets)' /\ finished' >= Counted(AllClasses)'
        /\ opens' = Counted({Total})'
    BY <1>1, <1>2, <1>11 DEF FlowInv
  <2>2. /\ started' = finished' + queued' + posted' + At(Busy)'
        /\ refused' + At({"limit"})' <= started'
        /\ Counted({Proxied})' + queued' + At({"limit", "handle"})' <= started'
    BY <1>1, <1>2, <1>9, <1>11 DEF FlowInv
  <2>3. QED  BY <1>12, <2>1, <2>2 DEF FlowInv
<1>14. QED  BY <1>7, <1>8, <1>13 DEF Flow

LEMMA FlowStep == Flow /\ [Next]_vars => Flow'
<1> SUFFICES ASSUME Flow, [Next]_vars PROVE Flow'
  OBVIOUS
<1>1. ASSUME NEW t \in Threads, Arrive(t) PROVE Flow'
  BY <1>1, FlowArrive
<1>2. ASSUME NEW t \in Threads, Unlimited(t) \/ Grant(t) \/ Offload(t) \/ Post(t) PROVE Flow'
  BY <1>2, FlowGoes
<1>3. ASSUME NEW t \in Threads, Refuse(t) PROVE Flow'
  BY <1>3, FlowRefuse
<1>4. ASSUME NEW t \in Threads, HandleHere(t) \/ HandleThere(t) PROVE Flow'
  BY <1>4, FlowHandle
<1>5. ASSUME NEW t \in Threads, Respond(t) \/ RespondPosted(t) PROVE Flow'
  BY <1>5, FlowFinish
<1>6. ASSUME NEW t \in Threads, ConnectionOpened(t) PROVE Flow'
  BY <1>6, FlowOpen
<1>7. ASSUME NEW t \in Threads, ConnectionClosed(t) PROVE Flow'
  BY <1>7, FlowClose
<1>8. ASSUME NEW t \in Threads, Counting(t) PROVE Flow'
  BY <1>8, FlowCounting
<1>9. CASE Snapshot \/ Limiter \/ UNCHANGED vars \/ \E t \in Threads : ReadClock(t)
  BY <1>9, FlowElse
<1>10. QED
  BY <1>1, <1>2, <1>3, <1>4, <1>5, <1>6, <1>7, <1>8, <1>9 DEF Next

LEMMA FlowInit == Init => Flow
<1> SUFFICES ASSUME Init PROVE Flow
  OBVIOUS
<1>1. /\ value = [c \in Counters |-> 0] /\ todo = [t \in Threads |-> <<>>]
      /\ mine = [t \in Threads |-> 0] /\ seen = [t \in Threads |-> -1] /\ peak = 0
      /\ stage = [t \in Threads |-> "idle"] /\ queued = 0 /\ posted = 0
      /\ started = 0 /\ refused = 0 /\ finished = 0 /\ opens = 0 /\ closes = 0
  BY DEF Init, MetricsInit
<1>2. MetricsShape
  <2>1. Sound(<<>>) /\ Len(<<>>) <= 4 /\ In(<<>>) = {} /\ <<>> \in Seq(Counters)
    BY NoSteps DEF Reportable, Sound
  <2>2. QED  BY <1>1, <2>1 DEF MetricsShape
<1>3. FlowShape
  BY <1>1 DEF FlowShape, Stages
<1>4. PeakInv
  BY <1>1, Names DEF PeakInv
<1>5. ASSUME NEW F, Family(F) PROVE Counted(F) = 0
  <2>1. \A c \in F : value[c] = 0
    BY <1>1, <1>5 DEF Family
  <2>2. SumOver(value, F) = 0
    BY <1>5, <2>1, SumOfZeros DEF Family
  <2>3. {t \in Threads : \E i \in DOMAIN todo[t] : todo[t][i] \in F} = {}
    BY <1>1
  <2>4. Left(F) = 0
    BY <2>3, FS_EmptySet DEF Left
  <2>5. QED  BY <2>2, <2>4, SumIs DEF Counted
<1>6. ASSUME NEW S, "idle" \notin S PROVE At(S) = 0
  <2>1. {t \in Threads : stage[t] \in S} = {}
    BY <1>1, <1>6
  <2>2. QED  BY <2>1, FS_EmptySet DEF At
<1>7. /\ Counted(AllMethods) = 0 /\ Counted({RateLimited}) = 0 /\ Counted({Requests}) = 0
      /\ Counted({Count}) = 0 /\ Counted(AllBuckets) = 0 /\ Counted(AllClasses) = 0
      /\ Counted({Total}) = 0 /\ Counted({Current}) = 0 /\ Counted({Proxied}) = 0
  BY <1>5, WatchedAre
<1>8. At(Busy) = 0 /\ At({"limit"}) = 0 /\ At({"limit", "handle"}) = 0
  BY <1>6, BusyAre
<1>9. FlowInv
  BY <1>1, <1>7, <1>8 DEF FlowInv
<1>10. QED  BY <1>2, <1>3, <1>4, <1>9 DEF Flow

-----------------------------------------------------------------------------
(* The snapshot.                                                           *)

\* The counters that have been loaded, and the counters as they would be if all the
\* others were loaded now.
Loaded(c) == \E i \in 1..at : ReadOrder[i] = c
Mixed == [c \in Counters |-> IF Loaded(c) THEN snap[c] ELSE value[c]]

\* What is loaded before the methods' counters is no more than these can show.
Early == {Requests, RateLimited, Proxied}

SnapShape == at \in 0..Len(ReadOrder) /\ snap \in [Counters -> Nat]

SnapInv ==
    /\ \A c \in Counters : c \notin {Current, MaxEver} => snap[c] <= value[c]
    /\ \A c \in Early : snap[c] <= Sum(Mixed, AllMethods)
    /\ at = Len(ReadOrder) => Sum(snap, AllBuckets) <= snap[Count]

\* The counters but for the connections only grow.
Grows ==
    /\ value' \in [Counters -> Nat]
    /\ \A c \in Counters : c \notin {Current, MaxEver} => value[c] <= value'[c]

LEMMA BumpGrows ==
    ASSUME value \in [Counters -> Nat], NEW c \in Counters, value' = [value EXCEPT ![c] = @ + 1]
    PROVE  Grows
<1>1. \A d \in Counters : value[d] \in Nat /\ (value'[d] = value[d] \/ value'[d] = value[d] + 1)
  OBVIOUS
<1>2. QED  BY <1>1 DEF Grows

LEMMA ReportGrows ==
    ASSUME value \in [Counters -> Nat], NEW t \in Threads, NEW s, Reportable(s), Report(t, s)
    PROVE  Grows
<1>1. CASE s = <<>>
  BY <1>1 DEF Report, Grows
<1>2. CASE s # <<>>
  <2>1. Head(s) \in Counters
    BY <1>2, SoundTail DEF Reportable
  <2>2. value' = [value EXCEPT ![Head(s)] = @ + 1]
    BY <1>2 DEF Report
  <2>3. QED  BY <2>1, <2>2, BumpGrows
<1>3. QED  BY <1>1, <1>2

\* What the threads do leaves the snapshot alone.
LEMMA OthersGrow ==
    ASSUME Flow, [Next]_vars, ~Snapshot
    PROVE  Grows /\ snap' = snap /\ at' = at
<1>0. value \in [Counters -> Nat] /\ MetricsShape /\ MetricsShape' /\ PeakInv
  BY FlowStep DEF Flow, MetricsShape
<1>1. CASE Limiter \/ UNCHANGED vars \/ \E t \in Threads : Unlimited(t) \/ Grant(t)
                \/ ReadClock(t) \/ Offload(t) \/ Post(t)
  <2>1. UNCHANGED metricsVars
    BY <1>1 DEF Limiter, vars, Unlimited, Grant, ReadClock, Offload, Post
  <2>2. QED  BY <1>0, <2>1 DEF metricsVars, snapshotVars, Grows
<1>2. ASSUME NEW t \in Threads, NEW s, Reportable(s), Report(t, s)
      PROVE  Grows /\ snap' = snap /\ at' = at
  <2>1. snap' = snap /\ at' = at
    BY <1>2 DEF Report, snapshotVars
  <2>2. QED  BY <1>0, <1>2, <2>1, ReportGrows
<1>3. ASSUME NEW t \in Threads, Arrive(t) PROVE Grows /\ snap' = snap /\ at' = at
  <2>1. PICK m \in Methods : Report(t, <<Method(m)>>)
    BY <1>3 DEF Arrive
  <2>2. Method(m) \in Counters /\ Method(m) \notin {Current, MaxEver, Count}
    BY Names, Kinds
  <2>3. Reportable(<<Method(m)>>)
    BY <2>2, OneStep
  <2>4. QED  BY <1>2, <2>1, <2>3
<1>4. ASSUME NEW t \in Threads, Refuse(t) PROVE Grows /\ snap' = snap /\ at' = at
  <2>1. Report(t, <<RateLimited>>)
    BY <1>4 DEF Refuse
  <2>2. RateLimited \in Counters /\ RateLimited \notin {Current, MaxEver, Count}
    BY Names, Kinds
  <2>3. Reportable(<<RateLimited>>)
    BY <2>2, OneStep
  <2>4. QED  BY <1>2, <2>1, <2>3
<1>5. ASSUME NEW t \in Threads, HandleHere(t) \/ HandleThere(t)
      PROVE  Grows /\ snap' = snap /\ at' = at
  <2>1. PICK s \in ForwardSteps : Report(t, s)
    BY <1>5 DEF HandleHere, HandleThere
  <2>2. QED  BY <1>2, <2>1, ForwardOwes
<1>6. ASSUME NEW t \in Threads, Respond(t) \/ RespondPosted(t)
      PROVE  Grows /\ snap' = snap /\ at' = at
  <2>1. PICK c \in Classes \cup {0}, b \in Buckets : Report(t, RequestSteps(c, b))
    BY <1>6 DEF Respond, RespondPosted, Finish
  <2>2. Reportable(RequestSteps(c, b))
    BY RequestOwes
  <2>3. QED  BY <1>2, <2>1, <2>2
<1>7. ASSUME NEW t \in Threads, ConnectionOpened(t) PROVE Grows /\ snap' = snap /\ at' = at
  <2>1. Report(t, OpenSteps)
    BY <1>7 DEF ConnectionOpened
  <2>2. /\ Total \in Counters /\ Total \notin {Current, MaxEver, Count}
        /\ Current \in Counters /\ Current \notin {MaxEver, Count}
        /\ Current \notin AllMethods /\ Total[1] # Current[1]
    BY Names, Kinds
  <2>3. Reportable(OpenSteps)
    BY <2>2, TwoSteps DEF OpenSteps
  <2>4. QED  BY <1>2, <2>1, <2>3
<1>8. ASSUME NEW t \in Threads, ConnectionClosed(t) PROVE Grows /\ snap' = snap /\ at' = at
  <2>1. /\ value' = [value EXCEPT ![Current] = @ - 1] /\ snap' = snap /\ at' = at
    BY <1>8 DEF ConnectionClosed, CloseConnection, snapshotVars
  <2>2. \A c \in Counters : c # Current => value'[c] = value[c] /\ value[c] \in Nat
    BY <1>0, <2>1
  <2>3. QED  BY <1>0, <2>1, <2>2 DEF Grows, MetricsShape
<1>9. ASSUME NEW t \in Threads, Counting(t) PROVE Grows /\ snap' = snap /\ at' = at
  <2>1. snap' = snap /\ at' = at
    BY <1>9 DEF Counting, Update, Bump, LoadMax, RaiseMax, MaxIsHigher, snapshotVars
  <2>2. CASE Bump(t)
    <3>1. todo[t] # <<>> /\ value' = [value EXCEPT ![Head(todo[t])] = @ + 1]
      BY <2>2 DEF Bump
    <3>2. Head(todo[t]) \in Counters
      BY <1>0, <3>1, SoundTail DEF MetricsShape
    <3>3. QED  BY <1>0, <2>1, <3>1, <3>2, BumpGrows
  <2>3. CASE LoadMax(t) \/ RaiseMax(t) \/ MaxIsHigher(t)
    <3>1. \A c \in Counters : c # MaxEver => value'[c] = value[c]
      BY <1>0, <2>3, MaxMoves
    <3>2. \A c \in Counters : value[c] \in Nat
      BY <1>0
    <3>3. QED  BY <1>0, <2>1, <3>1, <3>2 DEF Grows, MetricsShape
  <2>4. QED  BY <1>9, <2>2, <2>3 DEF Counting, Update
<1>10. QED
  BY <1>1, <1>3, <1>4, <1>5, <1>6, <1>7, <1>8, <1>9 DEF Next

LEMMA SnapShapeStep ==
    ASSUME Flow, SnapShape, [Next]_vars
    PROVE  SnapShape'
<1>1. CASE ~Snapshot
  BY <1>1, OthersGrow DEF SnapShape
<1>2. CASE Snapshot
  <2>1. Len(ReadOrder) \in Nat /\ \A i \in 1..Len(ReadOrder) : ReadOrder[i] \in Counters
    BY ReadOrderBegins, LenProperties, ElementOfSeq
  <2>2. CASE Load
    <3>1. /\ at < Len(ReadOrder) /\ at' = at + 1
          /\ snap' = [snap EXCEPT ![ReadOrder[at + 1]] = value[ReadOrder[at + 1]]]
      BY <2>2 DEF Load
    <3>2. at + 1 \in 1..Len(ReadOrder)
      BY <2>1, <3>1 DEF SnapShape
    <3>3. value[ReadOrder[at + 1]] \in Nat
      BY <2>1, <3>2 DEF Flow, MetricsShape
    <3>4. QED  BY <2>1, <3>1, <3>2, <3>3 DEF SnapShape
  <2>3. CASE Rendered
    BY <2>1, <2>3 DEF Rendered, SnapShape
  <2>4. QED  BY <1>2, <2>2, <2>3 DEF Snapshot
<1>3. QED  BY <1>1, <1>2

LEMMA SnapShapeInit == Init => SnapShape
<1>1. Len(ReadOrder) \in Nat
  BY ReadOrderBegins, LenProperties
<1>2. QED  BY <1>1 DEF Init, MetricsInit, SnapShape

\* The invariants say what was to be shown.
LEMMA AllIsCounted == Books /\ Flow /\ SnapShape => NothingUncounted
<1> SUFFICES ASSUME Books, Flow, SnapShape PROVE NothingUncounted
  OBVIOUS
<1>0. MetricsShape /\ FlowShape /\ PeakInv /\ FlowInv
  BY DEF Flow
<1>1. MetricsTyped
  <2>1. ASSUME NEW t \in Threads
        PROVE  /\ Len(todo[t]) <= 4 /\ mine[t] \in Nat /\ seen[t] >= -1
               /\ mine[t] = 0 => seen[t] = -1
    BY <1>0 DEF MetricsShape
  <2>2. QED  BY <1>0, <2>1 DEF MetricsTyped, MetricsShape, SnapShape
<1>2. TypeOK
  BY <1>0, <1>1 DEF TypeOK, Books, FlowShape, Stages
<1>3. /\ Counted({RateLimited}) = value[RateLimited] + Left({RateLimited})
      /\ Counted({Requests}) = value[Requests] + Left({Requests})
      /\ Counted({Count}) = value[Count] + Left({Count})
      /\ Counted({Total}) = value[Total] + Left({Total})
      /\ Counted({Current}) = value[Current] + Left({Current})
  BY <1>0, Names, SumOfSingle DEF Counted, MetricsShape
<1>4. opens - closes = value[Current] + Left({Current})
  <2>1. opens = closes + Counted({Current}) /\ closes \in Nat /\ Counted({Current}) \in Nat
    BY <1>0, WatchedAre DEF FlowInv, FlowShape
  <2>2. opens - closes = Counted({Current})
    BY <2>1
  <2>3. QED  BY <1>3, <2>2
<1>5. EachIsCounted
  BY <1>0, <1>3, <1>4 DEF EachIsCounted, FlowInv, Counted
<1>6. NoneIsLost
  <2>1. {t \in Threads : stage[t] # "idle"} = {t \in Threads : stage[t] \in Busy}
    BY <1>0 DEF FlowShape, Busy
  <2>2. QED  BY <1>0, <2>1 DEF NoneIsLost, FlowInv, At
<1>7. QED  BY <1>0, <1>2, <1>5, <1>6, PeakIsMax DEF NothingUncounted

\* Every request and every connection is counted once in each of the places where it
\* should be, and the peak is kept, whoever loses a race (onRequestStarted(),
\* onRequestFinished(), onConnectionOpened()).
THEOREM AllAreCounted == Spec => []NothingUncounted
<1> DEFINE Inv == Books /\ Flow /\ SnapShape
<1>1. Init => Inv
  BY BooksInit, FlowInit, SnapShapeInit
<1>2. Inv /\ [Next]_vars => Inv'
  BY BooksStep, FlowStep, SnapShapeStep
<1>3. Inv => NothingUncounted
  BY AllIsCounted
<1>4. QED  BY <1>1, <1>2, <1>3, PTL DEF Spec

LEMMA MixedTyped ==
    ASSUME Flow, SnapShape
    PROVE  /\ Mixed \in [Counters -> Nat] /\ Sum(Mixed, AllMethods) \in Nat
           /\ \A c \in Counters : Mixed[c] = IF Loaded(c) THEN snap[c] ELSE value[c]
<1>1. value \in [Counters -> Nat] /\ snap \in [Counters -> Nat]
  BY DEF Flow, MetricsShape, SnapShape
<1>2. \A c \in Counters : snap[c] \in Nat /\ value[c] \in Nat
  BY <1>1
<1>3. Mixed \in [Counters -> Nat]
  BY <1>2 DEF Mixed
<1>4. IsFiniteSet(AllMethods) /\ \A c \in AllMethods : Mixed[c] \in Nat
  BY <1>3, IsFamily DEF Family
<1>5. SumOver(Mixed, AllMethods) \in Nat
  BY <1>4, SumTyped
<1>6. QED  BY <1>3, <1>5, SumIs DEF Mixed

\* Counters that have only grown add up to more.
LEMMA SumsGrow ==
    ASSUME NEW v \in [Counters -> Nat], NEW w \in [Counters -> Nat], NEW F, Family(F),
           \A c \in F : v[c] <= w[c]
    PROVE  Sum(v, F) <= Sum(w, F) /\ Sum(v, F) \in Nat /\ Sum(w, F) \in Nat
<1>1. Dominated(v, w, F)
  BY DEF Dominated, Family
<1>2. SumOver(v, F) <= SumOver(w, F)
  BY <1>1, SumMonotone DEF Family
<1>3. SumOver(v, F) \in Nat /\ SumOver(w, F) \in Nat
  <2>1. (\A c \in F : v[c] \in Nat) /\ (\A c \in F : w[c] \in Nat)
    BY DEF Family
  <2>2. QED  BY <2>1, SumTyped DEF Family
<1>4. QED  BY <1>2, <1>3, SumIs

LEMMA MethodsAre ==
    /\ Family(AllMethods) /\ Family(AllBuckets)
    /\ \A c \in AllMethods : c \in Counters /\ c \notin {Current, MaxEver, Count}
    /\ \A c \in AllBuckets : c \in Counters /\ c \notin {Current, MaxEver, Count}
    /\ Early \subseteq Counters /\ Early \subseteq First7
    /\ \A c \in Early : c \notin {Current, MaxEver, Count}
<1>1. Family(AllMethods) /\ Family(AllBuckets)
  BY IsFamily
<1>2. \A c \in AllMethods \cup AllBuckets : c \in Counters /\ c \notin {Current, MaxEver, Count}
  BY <1>1, Kinds DEF Family
<1>3. Early \subseteq Counters /\ Early \subseteq First7
  BY Names DEF Early, First7
<1>4. \A c \in Early : c \notin {Current, MaxEver, Count}
  BY Kinds DEF Early
<1>5. QED  BY <1>1, <1>2, <1>3, <1>4

\* While the threads go on.
LEMMA SnapOthers ==
    ASSUME Flow, SnapShape, SnapInv, Flow', SnapShape', Grows, snap' = snap, at' = at
    PROVE  SnapInv'
<1>1. value \in [Counters -> Nat] /\ value' \in [Counters -> Nat] /\ snap \in [Counters -> Nat]
  BY DEF Flow, MetricsShape, SnapShape
<1>2. ASSUME NEW c \in Counters, c \notin {Current, MaxEver} PROVE snap'[c] <= value'[c]
  <2>1. snap[c] <= value[c] /\ value[c] <= value'[c]
    BY <1>2 DEF SnapInv, Grows
  <2>2. snap[c] \in Nat /\ value[c] \in Nat /\ value'[c] \in Nat
    BY <1>1
  <2>3. QED  BY <2>1, <2>2
<1>3. Sum(Mixed, AllMethods) <= Sum(Mixed', AllMethods) /\ Sum(Mixed, AllMethods) \in Nat
      /\ Sum(Mixed', AllMethods) \in Nat
  <2>1. \A c : Loaded(c)' <=> Loaded(c)
    BY DEF Loaded
  <2>2. /\ Mixed \in [Counters -> Nat]
        /\ \A c \in Counters : Mixed[c] = IF Loaded(c) THEN snap[c] ELSE value[c]
    BY MixedTyped
  <2>3. Mixed' = [c \in Counters |-> IF Loaded(c)' THEN snap'[c] ELSE value'[c]]
    BY DEF Mixed
  <2>4. /\ Mixed' \in [Counters -> Nat]
        /\ \A c \in Counters : Mixed'[c] = IF Loaded(c) THEN snap[c] ELSE value'[c]
    BY <1>1, <2>1, <2>3
  <2>5. ASSUME NEW c \in AllMethods PROVE Mixed[c] <= Mixed'[c]
    <3>1. c \in Counters /\ value[c] <= value'[c]
      BY MethodsAre DEF Grows
    <3>2. Mixed[c] \in Nat
      BY <2>2, <3>1
    <3>3. QED  BY <2>2, <2>4, <3>1, <3>2
  <2>6. QED  BY <2>2, <2>4, <2>5, MethodsAre, SumsGrow
<1>4. ASSUME NEW c \in Early PROVE snap'[c] <= Sum(Mixed', AllMethods)
  <2>1. snap[c] <= Sum(Mixed, AllMethods) /\ snap[c] \in Nat
    BY <1>1, MethodsAre DEF SnapInv
  <2>2. QED  BY <1>3, <2>1
<1>5. \A c \in Early : snap'[c] <= Sum(Mixed', AllMethods)
  BY <1>4
<1>6. QED  BY <1>2, <1>5 DEF SnapInv

\* A new snapshot.
LEMMA SnapRendered ==
    ASSUME Flow', SnapShape', Rendered
    PROVE  SnapInv'
<1>1. at' = 0 /\ snap' = [c \in Counters |-> 0]
  BY DEF Rendered
<1>2. value' \in [Counters -> Nat]
  BY DEF Flow, MetricsShape
<1>3. (\A c \in Counters : snap'[c] = 0 /\ value'[c] \in Nat) /\ at' # Len(ReadOrder)
  BY <1>1, <1>2, ReadOrderBegins DEF Begins
<1>4. Sum(Mixed', AllMethods) \in Nat
  <2>1. \A c \in Counters : (IF Loaded(c)' THEN snap'[c] ELSE value'[c]) \in Nat
    BY <1>3
  <2>2. Mixed' = [c \in Counters |-> IF Loaded(c)' THEN snap'[c] ELSE value'[c]]
    BY DEF Mixed
  <2>3. Mixed' \in [Counters -> Nat]
    BY <2>1, <2>2
  <2>4. (\A c \in AllMethods : Mixed'[c] <= Mixed'[c])
    BY <2>3, MethodsAre
  <2>5. QED  BY <2>3, <2>4, MethodsAre, SumsGrow
<1>5. \A c \in Early : snap'[c] <= Sum(Mixed', AllMethods)
  BY <1>3, <1>4, MethodsAre
<1>6. \A c \in Counters : snap'[c] <= value'[c]
  BY <1>3
<1>7. QED  BY <1>3, <1>5, <1>6 DEF SnapInv

\* What the counters themselves say at any moment.
LEMMA ValuesAreOrdered ==
    ASSUME Flow
    PROVE  /\ \A c \in Early : value[c] <= Sum(value, AllMethods)
           /\ Sum(value, AllBuckets) <= value[Count]
<1>0. MetricsShape /\ FlowShape /\ FlowInv
  BY DEF Flow
<1>1. \A c \in Counters : Counted({c}) = value[c] + Left({c}) /\ value[c] \in Nat
  BY <1>0, SumOfSingle DEF Counted, MetricsShape
<1>2. \A c \in Counters : Left({c}) \in Nat
  BY <1>0, IsFamily, CountedTyped DEF MetricsShape
<1>3. /\ Left(AllMethods) \in Nat /\ Sum(value, AllMethods) \in Nat
      /\ Left(AllBuckets) \in Nat /\ Sum(value, AllBuckets) \in Nat
  BY <1>0, IsFamily, CountedTyped DEF MetricsShape
<1>4. {t \in Threads : \E i \in DOMAIN todo[t] : todo[t][i] \in AllMethods} = {}
  <2>1. /\ todo \in [Threads -> Seq(Counters)]
        /\ \A t \in Threads : \A c \in AllMethods : c \notin In(todo[t])
    BY <1>0 DEF MetricsShape
  <2>2. QED  BY <2>1, LeftIs
<1>5. started = Sum(value, AllMethods)
  <2>1. Left(AllMethods) = 0
    BY <1>4, FS_EmptySet DEF Left
  <2>2. started = Counted(AllMethods)
    BY <1>0 DEF FlowInv
  <2>3. QED  BY <1>3, <2>1, <2>2 DEF Counted
<1>6. /\ Counted({Requests}) <= started /\ Counted({RateLimited}) <= started
      /\ Counted({Proxied}) <= started
  <2>1. /\ refused = Counted({RateLimited}) /\ finished = Counted({Requests})
        /\ started = finished + queued + posted + At(Busy)
        /\ refused + At({"limit"}) <= started
        /\ Counted({Proxied}) + queued + At({"limit", "handle"}) <= started
        /\ started \in Nat /\ finished \in Nat /\ queued \in Nat /\ posted \in Nat
        /\ refused \in Nat
    BY <1>0 DEF FlowInv, FlowShape
  <2>2. At(Busy) \in Nat /\ At({"limit"}) \in Nat /\ At({"limit", "handle"}) \in Nat
    BY <1>0, AtStays DEF FlowShape
  <2>3. Counted({Proxied}) \in Nat
    BY <1>0, WatchedAre
  <2>4. QED  BY <2>1, <2>2, <2>3
<1>7. ASSUME NEW c \in Early PROVE value[c] <= Sum(value, AllMethods)
  <2>1. Counted({c}) <= started /\ c \in Counters
    BY <1>6, MethodsAre DEF Early
  <2>2. QED  BY <1>1, <1>2, <1>3, <1>5, <2>1
<1>8. Left({Count}) <= Left(AllBuckets)
  <2> DEFINE A == {t \in Threads : \E i \in DOMAIN todo[t] : todo[t][i] \in {Count}}
             B == {t \in Threads : \E i \in DOMAIN todo[t] : todo[t][i] \in AllBuckets}
  <2>1. ASSUME NEW t \in Threads, NEW i \in DOMAIN todo[t], todo[t][i] \in {Count}
        PROVE  \E j \in DOMAIN todo[t] : todo[t][j] \in AllBuckets
    <3>1. Sound(todo[t]) /\ todo[t] \in Seq(Counters)
      BY <1>0 DEF MetricsShape
    <3>2. DOMAIN todo[t] = 1..Len(todo[t])
      BY <3>1, LenProperties
    <3>3. QED  BY <2>1, <3>1, <3>2 DEF Sound
  <2>2. A \subseteq B
    BY <2>1
  <2>3. IsFiniteSet(B)
    BY MetricsAssumption, FS_Subset
  <2>4. Left({Count}) = Cardinality(A) /\ Left(AllBuckets) = Cardinality(B)
    BY DEF Left
  <2> HIDE DEF A, B
  <2>5. QED  BY <2>2, <2>3, <2>4, FS_Subset, Zenon
<1>9. Sum(value, AllBuckets) <= value[Count]
  <2>1. Counted({Count}) = Counted(AllBuckets)
    BY <1>0 DEF FlowInv
  <2>2. Sum(value, AllBuckets) + Left(AllBuckets) = value[Count] + Left({Count})
    BY <1>1, <2>1, Names DEF Counted
  <2>3. value[Count] \in Nat /\ Left({Count}) \in Nat
    BY <1>1, <1>2, Names
  <2>4. QED  BY <1>3, <1>8, <2>2, <2>3
<1>10. QED  BY <1>7, <1>9

\* One more counter is loaded: an early one while no method's has been, the count when
\* all the buckets have been.
LEMMA SnapLoad ==
    ASSUME Flow, SnapShape, SnapInv, SnapShape', Load
    PROVE  SnapInv'
<1> DEFINE d == ReadOrder[at + 1]
           n == Len(ReadOrder)
<1>1. /\ at < n /\ at' = at + 1 /\ value' = value
      /\ snap' = [snap EXCEPT ![d] = value[d]]
  BY DEF Load
<1>2. /\ value \in [Counters -> Nat] /\ snap \in [Counters -> Nat] /\ at \in 0..n
      /\ snap' \in [Counters -> Nat]
  BY DEF Flow, MetricsShape, SnapShape
<1>3. /\ n \in Nat /\ \A i \in 1..n : ReadOrder[i] \in Counters
      /\ \A i \in 1..n : IF i <= 7 THEN ReadOrder[i] \in First7 ELSE ReadOrder[i] \in Others
      /\ ReadOrder[n] = Count
  BY ReadOrderBegins, LenProperties, ElementOfSeq DEF Begins
<1>4. at + 1 \in 1..n /\ d \in Counters
  BY <1>1, <1>2, <1>3
<1> HIDE DEF n
<1>5. snap'[d] = value[d] /\ \A c \in Counters : c # d => snap'[c] = snap[c]
  BY <1>1, <1>2, <1>4
<1>6. \A c \in Counters : Loaded(c)' <=> Loaded(c) \/ c = d
  <2>1. 1..(at + 1) = 1..at \cup {at + 1}
    BY <1>2, <1>3
  <2>2. QED  BY <1>1, <2>1 DEF Loaded
<1> HIDE DEF d
<1>7. /\ Mixed \in [Counters -> Nat] /\ Sum(Mixed, AllMethods) \in Nat
      /\ \A c \in Counters : Mixed[c] = IF Loaded(c) THEN snap[c] ELSE value[c]
  BY MixedTyped
<1>8. Mixed' = [c \in Counters |-> IF Loaded(c)' THEN snap'[c] ELSE value'[c]]
  BY DEF Mixed
<1>9. /\ Mixed' \in [Counters -> Nat]
      /\ \A c \in Counters : Mixed'[c] = IF c = d THEN value[c] ELSE Mixed[c]
  <2>1. ASSUME NEW c \in Counters
        PROVE  (IF Loaded(c)' THEN snap'[c] ELSE value'[c]) = IF c = d THEN value[c] ELSE Mixed[c]
    BY <1>1, <1>5, <1>6, <1>7
  <2>2. \A c \in Counters : value[c] \in Nat /\ Mixed[c] \in Nat
    BY <1>2, <1>7
  <2>3. QED  BY <1>8, <2>1, <2>2
<1>10. \A c \in Counters : c \notin {Current, MaxEver} => snap'[c] <= value'[c]
  <2>1. \A c \in Counters : c \notin {Current, MaxEver} => snap[c] <= value[c]
    BY DEF SnapInv
  <2>2. \A c \in Counters : value[c] \in Nat
    BY <1>2
  <2>3. QED  BY <1>1, <1>5, <2>1, <2>2
<1>11. ASSUME NEW c \in AllMethods PROVE Mixed[c] <= Mixed'[c]
  <2>1. c \in Counters /\ snap[c] <= value[c]
    BY MethodsAre DEF SnapInv
  <2>2. value[c] \in Nat /\ snap[c] \in Nat
    BY <1>2, <2>1
  <2>3. QED  BY <1>7, <1>9, <2>1, <2>2
<1>12. Sum(Mixed, AllMethods) <= Sum(Mixed', AllMethods) /\ Sum(Mixed', AllMethods) \in Nat
  BY <1>7, <1>9, <1>11, MethodsAre, SumsGrow
<1>13. ASSUME NEW c \in Early PROVE snap'[c] <= Sum(Mixed', AllMethods)
  <2>0. c \in Counters /\ c \in First7
    BY MethodsAre
  <2>1. CASE c # d
    <3>1. snap'[c] = snap[c] /\ snap[c] <= Sum(Mixed, AllMethods) /\ snap[c] \in Nat
      BY <1>2, <1>5, <2>0, <2>1 DEF SnapInv
    <3>2. QED  BY <1>7, <1>12, <3>1
  <2>2. CASE c = d
    <3>1. at + 1 <= 7
      <4>1. SUFFICES ASSUME ~(at + 1 <= 7) PROVE FALSE
        OBVIOUS
      <4>2. ReadOrder[at + 1] \in Others
        BY <1>3, <1>4, <4>1
      <4>3. QED  BY <2>0, <2>2, <4>2, Disjoint DEF d
    <3>2. ASSUME NEW m \in AllMethods PROVE ~Loaded(m) /\ m # d
      <4>1. m \notin First7 /\ m \in Others
        BY Disjoint DEF Others
      <4>2. ASSUME NEW i \in 1..at PROVE ReadOrder[i] \in First7
        <5>1. i \in 1..n /\ i <= 7
          BY <1>1, <1>2, <1>3, <3>1
        <5>2. QED  BY <1>3, <5>1
      <4>3. QED  BY <2>0, <2>2, <4>1, <4>2 DEF Loaded
    <3>3. \A m \in AllMethods : value[m] <= Mixed'[m]
      <4>1. ASSUME NEW m \in AllMethods PROVE Mixed'[m] = value[m] /\ value[m] \in Nat
        BY <1>2, <1>7, <1>9, <3>2, MethodsAre
      <4>2. QED  BY <4>1
    <3>4. Sum(value, AllMethods) <= Sum(Mixed', AllMethods) /\ Sum(value, AllMethods) \in Nat
      BY <1>2, <1>9, <3>3, MethodsAre, SumsGrow
    <3>5. value[c] <= Sum(value, AllMethods) /\ value[c] \in Nat
      BY <1>2, <2>0, ValuesAreOrdered
    <3>6. snap'[c] = value[c]
      BY <1>5, <2>2
    <3>7. QED  BY <1>12, <3>4, <3>5, <3>6
  <2>3. QED  BY <2>1, <2>2
<1>14. ASSUME at' = n PROVE Sum(snap', AllBuckets) <= snap'[Count]
  <2>1. d = Count
    BY <1>1, <1>3, <1>14 DEF d
  <2>2. ASSUME NEW b \in AllBuckets PROVE snap'[b] <= value[b]
    BY <1>1, <1>10, MethodsAre
  <2>3. /\ Sum(snap', AllBuckets) <= Sum(value, AllBuckets)
        /\ Sum(snap', AllBuckets) \in Nat /\ Sum(value, AllBuckets) \in Nat
    BY <1>2, <2>2, MethodsAre, SumsGrow
  <2>4. Sum(value, AllBuckets) <= value[Count] /\ value[Count] \in Nat
    BY <1>2, ValuesAreOrdered, Names
  <2>5. snap'[Count] = value[Count]
    BY <1>5, <2>1
  <2>6. QED  BY <2>3, <2>4, <2>5
<1>15. \A c \in Early : snap'[c] <= Sum(Mixed', AllMethods)
  BY <1>13
<1>16. QED  BY <1>10, <1>14, <1>15 DEF SnapInv, n

LEMMA SnapInit == Init /\ Flow /\ SnapShape => SnapInv
<1> SUFFICES ASSUME Init, Flow, SnapShape PROVE SnapInv
  OBVIOUS
<1>1. snap = [c \in Counters |-> 0] /\ at = 0
  BY DEF Init, MetricsInit
<1>2. value \in [Counters -> Nat] /\ Sum(Mixed, AllMethods) \in Nat
  BY MixedTyped DEF Flow, MetricsShape
<1>3. (\A c \in Counters : snap[c] = 0 /\ value[c] \in Nat) /\ at # Len(ReadOrder)
  BY <1>1, <1>2, ReadOrderBegins DEF Begins
<1>4. QED  BY <1>2, <1>3, MethodsAre DEF SnapInv

LEMMA SnapStep ==
    ASSUME Flow, SnapShape, SnapInv, [Next]_vars
    PROVE  SnapInv'
<1>1. Flow' /\ SnapShape'
  BY FlowStep, SnapShapeStep
<1>2. CASE ~Snapshot
  BY <1>1, <1>2, OthersGrow, SnapOthers
<1>3. CASE Load
  BY <1>1, <1>3, SnapLoad
<1>4. CASE Rendered
  BY <1>1, <1>4, SnapRendered
<1>5. QED  BY <1>2, <1>3, <1>4 DEF Snapshot

-----------------------------------------------------------------------------
(* Quantiles, over plain numbers: l and u are the ends of a bucket, d is    *)
(* what is in it, and x how far into it the quantile is.                    *)

LEMMA Times ==
    ASSUME NEW a \in Nat, NEW b \in Nat, NEW c \in Nat
    PROVE  /\ a * b \in Nat /\ a * b = b * a /\ (a * b) * c = a * (b * c)
           /\ (a + b) * c = a * c + b * c
OBVIOUS

\* Within its bucket.
LEMMA Within ==
    ASSUME NEW l \in Nat, NEW u \in Nat, NEW d \in Nat, NEW x \in 0..d, l <= u
    PROVE  /\ l * d + (u - l) * x \in Nat
           /\ l * d <= l * d + (u - l) * x /\ l * d + (u - l) * x <= u * d
<1> DEFINE w == u - l
<1>1. w \in Nat /\ u = l + w /\ x \in Nat /\ x <= d
  OBVIOUS
<1> HIDE DEF w
<1>2. x * w <= d * w
  BY <1>1, LongerIsMore
<1>3. w * x = x * w /\ w * d = d * w /\ w * x \in Nat /\ w * d \in Nat /\ l * d \in Nat
  BY <1>1, Times
<1>4. u * d = l * d + w * d
  BY <1>1, Times
<1>5. /\ l * d + w * x \in Nat /\ l * d <= l * d + w * x /\ l * d + w * x <= u * d
  BY <1>2, <1>3, <1>4
<1>6. QED  BY <1>5 DEF w

\* In a bucket, and in one above it.
LEMMA BucketsAscend ==
    ASSUME NEW l \in Nat, NEW u \in Nat, NEW d \in Nat, NEW x \in 0..d, l <= u,
           NEW ll \in Nat, NEW uu \in Nat, NEW dd \in Nat, NEW xx \in 0..dd, ll <= uu, u <= ll
    PROVE  (l * d + (u - l) * x) * dd <= (ll * dd + (uu - ll) * xx) * d
<1> DEFINE a == l * d + (u - l) * x
           b == ll * dd + (uu - ll) * xx
<1>1. a \in Nat /\ a <= u * d /\ b \in Nat /\ ll * dd <= b
  BY Within
<1> HIDE DEF a, b
<1>2. u * d \in Nat /\ ll * dd \in Nat /\ d * dd \in Nat
  BY Times
<1>3. a * dd <= (u * d) * dd /\ (ll * dd) * d <= b * d
  BY <1>1, <1>2, LongerIsMore
<1>4. (u * d) * dd = u * (d * dd) /\ (ll * dd) * d = ll * (dd * d) /\ dd * d = d * dd
  BY Times
<1>5. u * (d * dd) <= ll * (d * dd)
  BY <1>2, LongerIsMore
<1>6. a * dd \in Nat /\ b * d \in Nat /\ u * (d * dd) \in Nat /\ ll * (d * dd) \in Nat
  BY <1>1, <1>2, Times
<1>7. a * dd <= b * d
  BY <1>3, <1>4, <1>5, <1>6
<1>8. QED  BY <1>7 DEF a, b

\* Further into the same bucket.
LEMMA FurtherIsMore ==
    ASSUME NEW l \in Nat, NEW u \in Nat, NEW d \in Nat, NEW x \in 0..d, NEW y \in 0..d,
           l <= u, x <= y
    PROVE  (l * d + (u - l) * x) * d <= (l * d + (u - l) * y) * d
<1> DEFINE w == u - l
<1>1. w \in Nat /\ x \in Nat /\ y \in Nat
  OBVIOUS
<1> HIDE DEF w
<1>2. x * w <= y * w
  BY <1>1, LongerIsMore
<1>3. /\ w * x = x * w /\ w * y = y * w /\ l * d \in Nat /\ w * x \in Nat /\ w * y \in Nat
  BY <1>1, Times
<1>4. l * d + w * x \in Nat /\ l * d + w * y \in Nat /\ l * d + w * x <= l * d + w * y
  BY <1>2, <1>3
<1>5. (l * d + w * x) * d <= (l * d + w * y) * d
  BY <1>4, LongerIsMore
<1>6. QED  BY <1>5 DEF w

-----------------------------------------------------------------------------
(* The histogram.                                                          *)

\* The first of its buckets, one by one.
LEMMA UpToIs ==
    ASSUME NEW n \in Nat, NEW B \in [1..n -> Nat]
    PROVE  /\ Sum(B, 1..0) = 0 /\ \A k \in 0..n : Sum(B, 1..k) \in Nat
           /\ \A k \in 1..n : Sum(B, 1..k) = Sum(B, 1..(k - 1)) + B[k]
<1>1. ASSUME NEW k \in 0..n
      PROVE  IsFiniteSet(1..k) /\ (\A i \in 1..k : B[i] \in Nat) /\ Sum(B, 1..k) \in Nat
  <2>1. IsFiniteSet(1..k)
    BY FS_Interval
  <2>2. \A i \in 1..k : B[i] \in Nat
    OBVIOUS
  <2>3. SumOver(B, 1..k) \in Nat
    BY <2>1, <2>2, SumTyped
  <2>4. QED  BY <2>1, <2>2, <2>3, SumIs
<1>2. Sum(B, 1..0) = 0
  <2> DEFINE S == 1..0
  <2>1. S = {}
    OBVIOUS
  <2>2. IsFiniteSet(S) /\ \A i \in S : B[i] = 0
    BY <2>1, FS_EmptySet
  <2> HIDE DEF S
  <2>3. SumOver(B, S) = 0
    BY <2>2, SumOfZeros
  <2>4. QED  BY <2>3, SumIs DEF S
<1>3. ASSUME NEW k \in 1..n PROVE Sum(B, 1..k) = Sum(B, 1..(k - 1)) + B[k]
  <2>1. k \in 0..n /\ k \in 1..k /\ (1..k) \ {k} = 1..(k - 1)
    OBVIOUS
  <2>2. SumOver(B, 1..k) = SumOver(B, (1..k) \ {k}) + B[k]
    BY <1>1, <2>1, SumWithout
  <2>3. QED  BY <2>1, <2>2, SumIs
<1>4. QED  BY <1>1, <1>2, <1>3

\* It holds what the counters of its buckets hold.
LEMMA Histogram ==
    ASSUME NEW v \in [Counters -> Nat]
    PROVE  LET B == [b \in Buckets |-> v[Bucket(b)]]
           IN  B \in [1..(Len(Bounds) + 1) -> Nat]
               /\ Sum(B, 1..(Len(Bounds) + 1)) = Sum(v, AllBuckets)
<1> DEFINE B == [b \in Buckets |-> v[Bucket(b)]]
           n == Len(Bounds) + 1
           Some(k) == {Bucket(b) : b \in 1..k}
           bad == {k \in 0..n : Sum(B, 1..k) # Sum(v, Some(k))}
<1>1. n \in Nat /\ Buckets = 1..n
  BY MetricsAssumption, LenProperties DEF Buckets
<1>2. B \in [1..n -> Nat] /\ \A b \in 1..n : B[b] = v[Bucket(b)]
  BY <1>1, Names
<1>3. Some(n) = AllBuckets
  BY <1>1 DEF AllBuckets
<1> HIDE DEF B, n
<1>4. /\ Sum(B, 1..0) = 0 /\ \A k \in 0..n : Sum(B, 1..k) \in Nat
      /\ \A k \in 1..n : Sum(B, 1..k) = Sum(B, 1..(k - 1)) + B[k]
  BY <1>1, <1>2, UpToIs
<1>5. ASSUME bad # {} PROVE FALSE
  <2>1. bad \in SUBSET Nat
    BY <1>1
  <2>2. PICK m \in bad : \A k \in bad : m <= k
    BY <1>5, <2>1, LeastNatural, Zenon
  <2>3. m \in 0..n /\ Sum(B, 1..m) # Sum(v, Some(m))
    BY <2>2
  <2>4. CASE m = 0
    <3>1. Some(m) = {}
      BY <2>4
    <3>2. IsFiniteSet(Some(m)) /\ \A c \in Some(m) : v[c] = 0
      BY <3>1, FS_EmptySet
    <3> HIDE DEF Some
    <3>3. SumOver(v, Some(m)) = 0
      BY <3>2, SumOfZeros
    <3>4. QED  BY <1>4, <2>3, <2>4, <3>3, SumIs
  <2>5. CASE m # 0
    <3>1. /\ m \in 1..n /\ m - 1 \in 0..n /\ m - 1 < m
      BY <1>1, <2>3, <2>5
    <3>2. m - 1 \notin bad
      BY <2>1, <2>2, <3>1
    <3>3. Sum(B, 1..(m - 1)) = Sum(v, Some(m - 1))
      BY <3>1, <3>2
    <3>4. Some(m) \ {Bucket(m)} = Some(m - 1) /\ Bucket(m) \in Some(m)
      <4>1. \A b \in 1..m : Bucket(b) = Bucket(m) => b = m
        BY DEF Bucket
      <4>2. \A b \in 1..m : b # m => b \in 1..(m - 1)
        BY <3>1
      <4>3. \A b \in 1..(m - 1) : b \in 1..m /\ b # m
        BY <3>1
      <4>4. m \in 1..m
        BY <3>1
      <4>5. QED  BY <4>1, <4>2, <4>3, <4>4
    <3>5. Some(m) \subseteq AllBuckets
      BY <1>1, <3>1 DEF AllBuckets
    <3>6. IsFiniteSet(Some(m)) /\ \A c \in Some(m) : v[c] \in Nat
      BY <3>5, MethodsAre, FS_Subset DEF Family
    <3>7. Sum(B, 1..m) = Sum(B, 1..(m - 1)) + v[Bucket(m)]
      BY <1>2, <1>4, <3>1
    <3> HIDE DEF Some, bad
    <3>8. SumOver(v, Some(m)) = SumOver(v, Some(m) \ {Bucket(m)}) + v[Bucket(m)]
      BY <3>4, <3>6, SumWithout
    <3>9. QED  BY <2>3, <3>3, <3>4, <3>7, <3>8, SumIs
  <2>6. QED  BY <2>4, <2>5
<1>6. n \in 0..n
  BY <1>1
<1>7. Sum(B, 1..n) = Sum(v, AllBuckets)
  BY <1>3, <1>5, <1>6
<1>8. QED  BY <1>2, <1>7 DEF B, n

\* The ends of the buckets.
LEMMA Ends ==
    ASSUME NEW b \in 1..(Len(Bounds) + 1)
    PROVE  /\ Lower(Bounds, b) \in Nat /\ Upper(Bounds, b) \in Nat
           /\ Lower(Bounds, b) <= Upper(Bounds, b)
           /\ \A c \in 1..(Len(Bounds) + 1) : b < c => Upper(Bounds, b) <= Lower(Bounds, c)
<1> DEFINE n == Len(Bounds)
<1>1. /\ n \in Nat \ {0} /\ \A i \in 1..n : Bounds[i] \in Nat
      /\ \A i, j \in 1..n : i < j => Bounds[i] <= Bounds[j]
      /\ Last(Bounds) = Bounds[n]
  BY MetricsAssumption, LenProperties, ElementOfSeq, EmptySeq DEF Last
<1> HIDE DEF n
<1>2. \A i, j \in 1..n : i <= j => Bounds[i] <= Bounds[j]
  <2>1. ASSUME NEW i \in 1..n, NEW j \in 1..n, i <= j PROVE Bounds[i] <= Bounds[j]
    <3>1. CASE i = j
      BY <1>1, <3>1
    <3>2. CASE i # j
      BY <1>1, <2>1, <3>2
    <3>3. QED  BY <3>1, <3>2
  <2>2. QED  BY <2>1
<1>3. b \in 1..(n + 1)
  BY DEF n
<1>4. Lower(Bounds, b) = IF b = 1 THEN 0 ELSE Bounds[b - 1]
  BY DEF Lower
<1>5. Upper(Bounds, b) = IF b <= n THEN Bounds[b] ELSE 2 * Bounds[n]
  BY <1>1 DEF Upper, n
<1>6. b # 1 => b - 1 \in 1..n
  BY <1>1, <1>3
<1>7. b <= n => b \in 1..n
  BY <1>1, <1>3
<1>8. n \in 1..n /\ Bounds[n] \in Nat /\ 2 * Bounds[n] \in Nat /\ Bounds[n] <= 2 * Bounds[n]
  BY <1>1
<1>9. Lower(Bounds, b) \in Nat /\ Upper(Bounds, b) \in Nat
  BY <1>1, <1>4, <1>5, <1>6, <1>7, <1>8
<1>10. Lower(Bounds, b) <= Upper(Bounds, b)
  <2>1. CASE b = 1
    BY <1>4, <1>9, <2>1
  <2>2. CASE b # 1 /\ b <= n
    <3>1. b - 1 <= b /\ b - 1 \in 1..n /\ b \in 1..n
      BY <1>3, <1>6, <1>7, <2>2
    <3>2. QED  BY <1>2, <1>4, <1>5, <2>2, <3>1
  <2>3. CASE b # 1 /\ ~(b <= n)
    <3>1. b - 1 = n
      BY <1>1, <1>3, <2>3
    <3>2. QED  BY <1>4, <1>5, <1>8, <2>3, <3>1
  <2>4. QED  BY <2>1, <2>2, <2>3
<1>11. ASSUME NEW c \in 1..(n + 1), b < c PROVE Upper(Bounds, b) <= Lower(Bounds, c)
  <2>1. b <= n /\ b \in 1..n /\ c # 1 /\ c - 1 \in 1..n /\ b <= c - 1
    BY <1>1, <1>3, <1>11
  <2>2. Lower(Bounds, c) = Bounds[c - 1]
    BY <2>1 DEF Lower
  <2>3. QED  BY <1>2, <1>5, <2>1, <2>2
<1>12. QED  BY <1>9, <1>10, <1>11 DEF n

\* Where p hundredths of what is in a histogram are reached: in the bucket b, x
\* hundredths of a latency into it.
Place(B, p, b, x) ==
    /\ b \in DOMAIN B /\ 100 * Sum(B, 1..b) >= p
    /\ \A c \in DOMAIN B : 100 * Sum(B, 1..c) >= p => b <= c
    /\ x = p - 100 * Sum(B, 1..(b - 1))

LEMMA Placed ==
    ASSUME NEW n \in Nat \ {0}, NEW B \in [1..n -> Nat], NEW p \in Nat \ {0},
           p <= 100 * Sum(B, 1..n)
    PROVE  LET reached == {b \in DOMAIN B : 100 * Sum(B, 1..b) >= p}
               b == Min(reached)
               x == p - 100 * Sum(B, 1..(b - 1))
           IN  /\ reached # {} /\ Place(B, p, b, x)
               /\ x \in 0..(100 * B[b])
<1> DEFINE reached == {b \in DOMAIN B : 100 * Sum(B, 1..b) >= p}
           m == Min(reached)
           x == p - 100 * Sum(B, 1..(m - 1))
<1>1. /\ Sum(B, 1..0) = 0 /\ \A k \in 0..n : Sum(B, 1..k) \in Nat
      /\ \A k \in 1..n : Sum(B, 1..k) = Sum(B, 1..(k - 1)) + B[k]
  BY UpToIs
<1>2. n \in 1..n /\ n \in reached /\ reached \in SUBSET Nat
  BY <1>1
<1>3. \E b \in reached : \A c \in reached : b <= c
  <2> HIDE DEF reached
  <2>1. reached # {}
    BY <1>2
  <2>2. QED  BY <1>2, <2>1, LeastNatural, Zenon
<1>4. m \in reached /\ \A c \in reached : m <= c
  <2>1. m = CHOOSE b \in reached : \A c \in reached : b <= c
    BY DEF Min
  <2> HIDE DEF m, reached
  <2>2. QED  BY <1>3, <2>1, Zenon
<1> HIDE DEF m
<1>5. m \in 1..n /\ 100 * Sum(B, 1..m) >= p
  BY <1>4
<1>6. 100 * Sum(B, 1..(m - 1)) < p
  <2>1. CASE m = 1
    BY <1>1, <2>1
  <2>2. CASE m # 1
    <3>1. m - 1 \in 1..n /\ m - 1 \in 0..n /\ ~(m <= m - 1)
      BY <1>5, <2>2
    <3>2. m - 1 \notin reached
      BY <1>4, <3>1
    <3>3. ~(100 * Sum(B, 1..(m - 1)) >= p) /\ Sum(B, 1..(m - 1)) \in Nat
      BY <1>1, <3>1, <3>2
    <3>4. QED  BY <3>3
  <2>3. QED  BY <2>1, <2>2
<1>7. x \in 0..(100 * B[m])
  <2>1. /\ Sum(B, 1..m) = Sum(B, 1..(m - 1)) + B[m] /\ B[m] \in Nat
        /\ Sum(B, 1..(m - 1)) \in Nat
    <3>1. m - 1 \in 0..n
      BY <1>5
    <3>2. QED  BY <1>1, <1>5, <3>1
  <2>2. QED  BY <1>5, <1>6, <2>1
<1>8. Place(B, p, m, x)
  BY <1>4, <1>5 DEF Place
<1>9. QED  BY <1>2, <1>7, <1>8 DEF m

\* A place in a histogram, as quantileFromBuckets() gives it.
Answer(B, b, x) ==
    LET d == 100 * B[b]
    IN  <<Lower(Bounds, b) * d + (Upper(Bounds, b) - Lower(Bounds, b)) * x, d>>

\* More is reached later.
LEMMA PlacesAscend ==
    ASSUME NEW B \in [1..(Len(Bounds) + 1) -> Nat], NEW p \in Nat, NEW r \in Nat, p <= r,
           NEW b, NEW x, Place(B, p, b, x), x \in 0..(100 * B[b]),
           NEW c, NEW y, Place(B, r, c, y), y \in 0..(100 * B[c])
    PROVE  AtMost(Answer(B, b, x), Answer(B, c, y))
<1> DEFINE n == Len(Bounds) + 1
           l == Lower(Bounds, b)
           u == Upper(Bounds, b)
           ll == Lower(Bounds, c)
           uu == Upper(Bounds, c)
           d == 100 * B[b]
           dd == 100 * B[c]
<1>1. n \in Nat /\ b \in 1..n /\ c \in 1..n
  BY MetricsAssumption, LenProperties DEF Place
<1>2. /\ l \in Nat /\ u \in Nat /\ l <= u /\ ll \in Nat /\ uu \in Nat /\ ll <= uu
      /\ b < c => u <= ll
  BY <1>1, Ends
<1>3. d \in Nat /\ dd \in Nat /\ x \in 0..d /\ y \in 0..dd
  BY <1>1
<1>4. Sum(B, 1..c) \in Nat /\ Sum(B, 1..(b - 1)) \in Nat
  <2>1. c \in 0..n /\ b - 1 \in 0..n
    BY <1>1
  <2>2. QED  BY <1>1, <2>1, UpToIs
<1>5. b <= c
  <2>1. 100 * Sum(B, 1..c) >= r /\ c \in DOMAIN B
    BY DEF Place
  <2>2. 100 * Sum(B, 1..c) >= p
    BY <1>4, <2>1
  <2>3. QED  BY <2>1, <2>2 DEF Place
<1>6. /\ Answer(B, b, x)[1] = l * d + (u - l) * x /\ Answer(B, b, x)[2] = d
      /\ Answer(B, c, y)[1] = ll * dd + (uu - ll) * y /\ Answer(B, c, y)[2] = dd
  BY DEF Answer
<1>7. b = c => x <= y /\ y \in 0..d /\ ll = l /\ uu = u /\ dd = d
  <2>1. b = c => y = r - 100 * Sum(B, 1..(b - 1)) /\ x = p - 100 * Sum(B, 1..(b - 1))
    BY DEF Place
  <2>2. ASSUME b = c PROVE x <= y
    BY <1>4, <2>1, <2>2
  <2>3. QED  BY <1>3, <2>2
<1> HIDE DEF l, u, ll, uu, d, dd
<1>8. (l * d + (u - l) * x) * dd <= (ll * dd + (uu - ll) * y) * d
  <2>1. CASE b = c
    <3>1. (l * d + (u - l) * x) * d <= (l * d + (u - l) * y) * d
      BY <1>2, <1>3, <1>7, <2>1, FurtherIsMore
    <3>2. QED  BY <1>7, <2>1, <3>1
  <2>2. CASE b # c
    <3>1. u <= ll
      BY <1>1, <1>2, <1>5, <2>2
    <3>2. QED  BY <1>2, <1>3, <3>1, BucketsAscend
  <2>3. QED  BY <2>1, <2>2
<1>9. QED  BY <1>6, <1>8 DEF AtMost

\* What the buckets hold is what was counted: then a quantile is in one of them.
LEMMA QuantileIs ==
    ASSUME NEW v \in [Counters -> Nat], Sum(v, AllBuckets) = v[Count], v[Count] # 0,
           NEW q \in 1..100
    PROVE  LET B == [k \in Buckets |-> v[Bucket(k)]]
           IN  \E b, x : /\ Place(B, q * v[Count], b, x) /\ x \in 0..(100 * B[b])
                         /\ Quantile(v, q) = Answer(B, b, x)
<1> DEFINE B == [k \in Buckets |-> v[Bucket(k)]]
           n == Len(Bounds) + 1
           T == v[Count]
           p == q * T
           reached == {b \in DOMAIN B : 100 * Sum(B, 1..b) >= p}
           m == Min(reached)
           x == p - 100 * Sum(B, 1..(m - 1))
<1>1. n \in Nat \ {0} /\ DOMAIN B = 1..n
  BY MetricsAssumption, LenProperties DEF Buckets
<1>2. B \in [1..n -> Nat] /\ Sum(B, 1..n) = T
  BY Histogram
<1>3. T \in Nat \ {0}
  BY Names
<1> HIDE DEF T
<1>4. p \in Nat \ {0} /\ p <= 100 * T
  <2>1. ASSUME NEW h \in Nat, h = 100 PROVE q * T <= h * T
    BY <1>3, <2>1, LongerIsMore
  <2>2. q * T <= 100 * T
    BY <2>1
  <2>3. q * T \in Nat /\ q * T # 0
    BY <1>3
  <2>4. QED  BY <2>2, <2>3
<1> HIDE DEF B, n, p
<1>5. /\ reached # {} /\ Place(B, p, m, x) /\ x \in 0..(100 * B[m])
  BY <1>1, <1>2, <1>4, Placed
<1>6. Quantile(v, q)
         = <<Lower(Bounds, m) * 100 * B[m]
               + (Upper(Bounds, m) - Lower(Bounds, m)) * (p - 100 * Sum(B, 1..(m - 1))),
             100 * B[m]>>
  BY <1>3, <1>5, ZenonT(60) DEF Quantile, quantileFromBuckets, p, T, B
<1>7. m \in 1..n /\ B[m] \in Nat
  BY <1>1, <1>2, <1>5 DEF Place
<1>8. Lower(Bounds, m) \in Nat
  BY <1>7, Ends DEF n
<1> HIDE DEF m
<1>9. Lower(Bounds, m) * 100 * B[m] = Lower(Bounds, m) * (100 * B[m])
  BY <1>7, <1>8
<1>10. Quantile(v, q) = Answer(B, m, x)
  BY <1>6, <1>9, Zenon DEF Answer
<1> HIDE DEF x
<1>11. \E b, z : Place(B, p, b, z) /\ z \in 0..(100 * B[b]) /\ Quantile(v, q) = Answer(B, b, z)
  BY <1>5, <1>10, Zenon
<1>12. QED  BY <1>11 DEF B, p, T

LEMMA QuantilesAscend ==
    ASSUME NEW v \in [Counters -> Nat], Sum(v, AllBuckets) = v[Count],
           NEW q \in 1..100, NEW r \in 1..100, q <= r
    PROVE  AtMost(Quantile(v, q), Quantile(v, r))
<1>1. CASE v[Count] = 0
  <2>1. Quantile(v, q) = <<0, 1>> /\ Quantile(v, r) = <<0, 1>>
    BY <1>1 DEF Quantile, quantileFromBuckets
  <2>2. QED  BY <2>1 DEF AtMost
<1>2. CASE v[Count] # 0
  <2> DEFINE B == [k \in Buckets |-> v[Bucket(k)]]
  <2>1. PICK b, x : /\ Place(B, q * v[Count], b, x) /\ x \in 0..(100 * B[b])
                    /\ Quantile(v, q) = Answer(B, b, x)
    BY <1>2, QuantileIs
  <2>2. PICK c, y : /\ Place(B, r * v[Count], c, y) /\ y \in 0..(100 * B[c])
                    /\ Quantile(v, r) = Answer(B, c, y)
    BY <1>2, QuantileIs
  <2>3. B \in [1..(Len(Bounds) + 1) -> Nat]
    BY Histogram
  <2>4. v[Count] \in Nat
    BY Names
  <2> DEFINE p == q * v[Count]
             pp == r * v[Count]
  <2>5. p \in Nat /\ pp \in Nat /\ p <= pp
    BY <2>4, Times, LongerIsMore
  <2> HIDE DEF B
  <2>6. Place(B, p, b, x) /\ Place(B, pp, c, y)
    BY <2>1, <2>2
  <2> HIDE DEF p, pp
  <2>7. AtMost(Answer(B, b, x), Answer(B, c, y))
    BY <2>1, <2>2, <2>3, <2>5, <2>6, PlacesAscend
  <2>8. QED  BY <2>1, <2>2, <2>7
<1>3. QED  BY <1>1, <1>2

LEMMA SnapIsOrdered == Flow /\ SnapShape /\ SnapInv => SnapshotIsOrdered
<1> SUFFICES ASSUME Flow, SnapShape, SnapInv, at = Len(ReadOrder) PROVE
        /\ \A c \in Early : snap[c] <= Sum(snap, AllMethods)
        /\ Sum(snap, AllBuckets) <= snap[Count]
        /\ Sum(snap, AllBuckets) = snap[Count] =>
              /\ AtMost(Quantile(snap, 50), Quantile(snap, 95))
              /\ AtMost(Quantile(snap, 95), Quantile(snap, 99))
  BY DEF SnapshotIsOrdered, Early
<1>1. snap \in [Counters -> Nat]
  BY DEF SnapShape
<1>2. Sum(snap, AllBuckets) <= snap[Count]
  BY DEF SnapInv
<1>3. \A c \in Counters : Loaded(c)
  <2>1. ReadOrder \in Seq(First7 \cup Others)
    BY ReadOrderBegins
  <2>2. DOMAIN ReadOrder = 1..Len(ReadOrder)
    BY <2>1, LenProperties
  <2>3. QED  BY <2>2 DEF Loaded, Counters
<1>4. Sum(Mixed, AllMethods) <= Sum(snap, AllMethods)
  <2>1. Mixed \in [Counters -> Nat] /\ \A c \in Counters : Mixed[c] = snap[c]
    BY <1>3, MixedTyped
  <2>2. \A c \in AllMethods : Mixed[c] <= snap[c]
    <3>1. ASSUME NEW c \in AllMethods PROVE Mixed[c] = snap[c] /\ snap[c] \in Nat
      BY <1>1, <2>1, MethodsAre
    <3>2. QED  BY <3>1
  <2>3. QED  BY <1>1, <2>1, <2>2, MethodsAre, SumsGrow
<1>5. ASSUME NEW c \in Early PROVE snap[c] <= Sum(snap, AllMethods)
  <2>1. snap[c] <= Sum(Mixed, AllMethods) /\ snap[c] \in Nat
    BY <1>1, MethodsAre DEF SnapInv
  <2>2. Sum(Mixed, AllMethods) \in Nat
    BY MixedTyped
  <2>3. Sum(snap, AllMethods) \in Nat
    <3>1. \A c2 \in AllMethods : snap[c2] <= snap[c2]
      BY <1>1, MethodsAre
    <3>2. QED  BY <1>1, <3>1, MethodsAre, SumsGrow
  <2>4. QED  BY <1>4, <2>1, <2>2, <2>3
<1>6. ASSUME Sum(snap, AllBuckets) = snap[Count]
      PROVE  /\ AtMost(Quantile(snap, 50), Quantile(snap, 95))
             /\ AtMost(Quantile(snap, 95), Quantile(snap, 99))
  <2>1. \A q, r \in 1..100 : q <= r => AtMost(Quantile(snap, q), Quantile(snap, r))
    BY <1>1, <1>6, QuantilesAscend
  <2>2. /\ 50 \in 1..100 /\ 95 \in 1..100 /\ 99 \in 1..100 /\ 50 <= 95 /\ 95 <= 99
    OBVIOUS
  <2>3. QED  BY <2>1, <2>2, Zenon
<1>7. QED  BY <1>2, <1>5, <1>6

\* Although a snapshot is loaded counter by counter while others count, it shows no more
\* requests finished, refused or forwarded than reported, no more in the histogram
\* than its count, and quantiles that ascend (Metrics::snapshot(),
\* quantileFromBuckets()).
THEOREM SnapshotsAreOrdered == Spec => []SnapshotIsOrdered
<1> DEFINE Inv == Flow /\ SnapShape /\ SnapInv
<1>1. Init => Inv
  BY FlowInit, SnapShapeInit, SnapInit
<1>2. Inv /\ [Next]_vars => Inv'
  BY FlowStep, SnapShapeStep, SnapStep
<1>3. Inv => SnapshotIsOrdered
  BY SnapIsOrdered
<1>4. QED  BY <1>1, <1>2, <1>3, PTL DEF Spec
=============================================================================
