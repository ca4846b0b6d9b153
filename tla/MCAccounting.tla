---------------------------- MODULE MCAccounting ----------------------------
(***************************************************************************)
(* What Accounting is checked with, and what the quantiles of a histogram  *)
(* are: of a few latencies, in the order of their size, the one that       *)
(* stands where the percentage says is in the bucket the quantile is taken *)
(* from.                                                                   *)
(***************************************************************************)
EXTENDS Accounting

MCBounds == <<5>>

SomeBounds == <<1, 2, 5>>
Ascending(s) == \A i, j \in DOMAIN s : i < j => s[i] <= s[j]
Histogram(s) == [b \in 1..4 |-> Len(SelectSeq(s, LAMBDA x : x = b))]

\* Latencies by their buckets, sorted; the k'th is the first that q percent of them
\* do not pass (quantileFromBuckets()).
QuantilesAreRight ==
    \A s \in BoundedSeq(1..4, 6) : s # <<>> /\ Ascending(s) =>
        \A q \in {50, 95, 99} :
            LET k == CHOOSE k \in DOMAIN s : 100 * (k - 1) < q * Len(s) /\ q * Len(s) <= 100 * k
                x == quantileFromBuckets(SomeBounds, Histogram(s), Len(s), q)
            IN  AtMost(<<Lower(SomeBounds, s[k]), 1>>, x) /\ AtMost(x, <<Upper(SomeBounds, s[k]), 1>>)

ASSUME QuantilesAssumption == QuantilesAreRight
=============================================================================
