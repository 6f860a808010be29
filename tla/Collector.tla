------------------------------- MODULE Collector -------------------------------
(***************************************************************************)
(* What metrics/collector.go computes from the samples of one run.  A      *)
(* sample is the result of one call: ok or not, why not, and its latency   *)
(* in milliseconds.  Percentiles and averages are in microseconds: the     *)
(* code interpolates in floating point, and with latencies in whole        *)
(* milliseconds and ranks in thousandths three decimals are exact.         *)
(***************************************************************************)
EXTENDS Integers, Sequences, FiniteSetsExt, TLC

\* Names and upper limits of the buckets, in milliseconds; the last is open.
Limits == <<1, 5, 10, 25, 50, 100, 250, 500, 1000, 2000, 5000>>
BucketIds == 1..(Len(Limits) + 1)

\* percentile of a sorted list, p in tenths of a percent.
percentile(sorted, p) ==
    LET n == Len(sorted)
        idx == p * (n - 1)
        i == idx \div 1000
        frac == idx % 1000
    IN  CASE n = 0 -> 0
          [] n > 0 /\ p <= 0 -> 1000 * sorted[1]
          [] n > 0 /\ p >= 1000 -> 1000 * sorted[n]
          [] OTHER -> IF i + 1 < n
                        THEN 1000 * sorted[i + 1] + frac * (sorted[i + 2] - sorted[i + 1])
                        ELSE 1000 * sorted[i + 1]

\* buildDistribution: a latency is counted in the first bucket it is below.
buildDistribution(lats) ==
    LET first(l) == CHOOSE b \in BucketIds :
                      /\ b > Len(Limits) \/ l < Limits[b]
                      /\ \A a \in 1..(b - 1) : l >= Limits[a]
    IN  [b \in BucketIds |-> Len(SelectSeq(lats, LAMBDA l : first(l) = b))]

\* Mutation of Sorted: the latencies stay in the order of their recording.
Unsorted(lats) == lats

\* sort.Float64s.
Sorted(lats) == SortSeq(lats, <)

\* Collector.Report for the samples recorded so far.  With no samples the LoadConfig
\* is not filled in: conns and payload are zero.
Report(samples, conns, payload) ==
    IF samples = <<>>
      THEN [total |-> 0, conns |-> 0, payload |-> 0]
      ELSE LET good == SelectSeq(samples, LAMBDA s : s.ok)
               lats == [i \in DOMAIN good |-> good[i].lat]
               sorted == Sorted(lats)
               n == Len(lats)
           IN  [total |-> Len(samples),
                conns |-> conns, payload |-> payload,
                success |-> n, errors |-> Len(samples) - n,
                avg |-> IF n > 0 THEN (1000 * SumFunction(lats)) \div n ELSE 0,
                min |-> IF n > 0 THEN 1000 * Min(Range(lats)) ELSE 0,
                max |-> IF n > 0 THEN 1000 * Max(Range(lats)) ELSE 0,
                p |-> [q \in {500, 900, 950, 990, 999} |-> percentile(sorted, q)],
                dist |-> buildDistribution(lats)]
================================================================================
