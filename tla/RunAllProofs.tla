------------------------------ MODULE RunAllProofs -----------------------------
(* Theorems about a benchmark session (RunAll, with Bench and LoadGen), for  *)
(* every number of load loops, generators, profiles and runs, and about the   *)
(* percentiles of its reports.                                               *)
EXTENDS RunAll, FiniteSetTheorems, WellFoundedInduction, TLAPS

--------------------------------------------------------------------------------
(* The percentiles of a report: what Collector.Report computes from a sorted *)
(* list of latencies.                                                        *)

\* A list of latencies as sort.Float64s leaves it.
Ascending(s) ==
    s \in Seq(Nat) /\ \A a, b \in 1..Len(s) : a <= b => s[a] <= s[b]

\* percentile counts in thousandths, of the list and of the way from an entry to
\* the next.
Mille == 1000
Tenths == 0..1000
Inner == 1..999
Rest == 0..999

\* What percentile returns when it reads f thousandths of the way from entry a
\* of the list to entry b.
Between(s, a, b, f) == Mille * s[a] + f * (s[b] - s[a])

\* A product of natural numbers is one ...
LEMMA ProductNat == ASSUME NEW x \in Nat, NEW y \in Nat PROVE x * y \in Nat
  BY SMT

\* ... and grows with its first factor.
LEMMA ProductGrows ==
  ASSUME NEW f \in Nat, NEW g \in Nat, f <= g, NEW d \in Nat
  PROVE  f * d \in Nat /\ g * d \in Nat /\ f * d <= g * d
  <1> DEFINE h == g - f
  <1>1. h \in Nat /\ g * d = f * d + h * d
    BY SMT
  <1> HIDE DEF h
  <1>2. f * d \in Nat /\ g * d \in Nat /\ h * d \in Nat
    BY Zenon, <1>1, ProductNat
  <1> DEFINE A == f * d
             B == g * d
             C == h * d
  <1>3. A \in Nat /\ B \in Nat /\ C \in Nat /\ B = A + C
    BY Zenon, <1>1, <1>2
  <1> HIDE DEF A, B, C
  <1>4. A <= B
    BY SMT, <1>3
  <1> QED
    BY Zenon, <1>2, <1>4 DEF A, B

\* The rank of percentile p in a list of n, in thousandths, and its two parts.
Ranked(n, p, x, e, f) == x = p * (n - 1) /\ e = x \div Mille /\ f = x % Mille
InList(n, x, e, f) ==
    /\ x \in Nat /\ e \in 0..(n - 1) /\ f \in Rest /\ x = Mille * e + f
    /\ n > 1 => e + 1 < n
    /\ n = 1 => e = 0 /\ f = 0 /\ x = 0

\* The rank is in the list.
LEMMA RankInList ==
  ASSUME NEW n \in Nat, n > 0, NEW p \in Inner, NEW x, NEW e, NEW f, Ranked(n, p, x, e, f)
  PROVE  InList(n, x, e, f)
  <1>1. x \in Nat /\ x <= 999 * (n - 1)
    <2> DEFINE m == n - 1
               t == 999
    <2>1. m \in Nat /\ p \in Nat /\ t \in Nat /\ p <= t
      BY SMT DEF Inner
    <2>2. x = p * m
      BY Zenon DEF Ranked
    <2> HIDE DEF m, t
    <2>3. x \in Nat /\ x <= t * m
      BY Zenon, <2>1, <2>2, ProductGrows
    <2> QED
      BY Zenon, <2>3 DEF m, t
  <1>2. n = 1 => x = 0
    BY SMT DEF Ranked, Inner
  <1>3. e \in Nat /\ f \in Rest /\ x = Mille * e + f
    <2>1. e = x \div Mille /\ f = x % Mille
      BY Zenon DEF Ranked
    <2> QED
      BY SMT, <1>1, <2>1 DEF Mille, Rest
  <1> QED
    BY SMT, <1>1, <1>2, <1>3 DEF InList, Mille, Rest

\* Where percentile reads: f thousandths of the way from entry a to entry b.
Place(s, p, a, b, f) ==
    /\ a \in 1..Len(s) /\ b \in 1..Len(s) /\ f \in Rest
    /\ a <= b /\ b <= a + 1 /\ (a = b => f = 0)
    /\ p * (Len(s) - 1) = Mille * (a - 1) + f
    /\ percentile(s, p) = Between(s, a, b, f)

\* percentile reads at a place of the list.
LEMMA PercentilePlace ==
  ASSUME NEW s, Ascending(s), Len(s) > 0, NEW p \in Tenths
  PROVE  \E a, b, f : Place(s, p, a, b, f)
  <1>1. Len(s) \in Nat /\ Len(s) > 0
    BY SMT DEF Ascending
  <1>2. \A j \in 1..Len(s) : s[j] \in Nat
    BY SMT DEF Ascending
  <1>3. CASE p = 0
    <2>1. percentile(s, p) = Mille * s[1]
      BY SMT, <1>1, <1>3 DEF percentile, Mille
    <2>2. Place(s, p, 1, 1, 0)
      BY SMT, <1>1, <1>2, <1>3, <2>1 DEF Between, Place, Mille, Rest
    <2> QED
      BY Zenon, <2>2
  <1>4. CASE p = Mille
    <2>1. percentile(s, p) = Mille * s[Len(s)]
      BY SMT, <1>1, <1>4 DEF percentile, Mille
    <2>2. Place(s, p, Len(s), Len(s), 0)
      BY SMT, <1>1, <1>2, <1>4, <2>1 DEF Between, Place, Mille, Rest
    <2> QED
      BY Zenon, <2>2
  <1>5. CASE p \in Inner
    <2> DEFINE n == Len(s)
               x == p * (n - 1)
               e == x \div Mille
               f == x % Mille
    <2>1. percentile(s, p) = IF e + 1 < n THEN Mille * s[e + 1] + f * (s[e + 2] - s[e + 1])
                                         ELSE Mille * s[e + 1]
      <3>1. n # 0 /\ ~(p <= 0) /\ ~(p >= Mille)
        BY SMT, <1>1, <1>5 DEF Mille, Inner
      <3> QED
        BY SMT, <3>1 DEF percentile, Mille
    <2>2. n \in Nat /\ n > 0 /\ Ranked(n, p, x, e, f)
      BY Zenon, <1>1 DEF Ranked
    <2> HIDE DEF n, x, e, f
    <2>3. /\ x \in Nat /\ e \in 0..(n - 1) /\ f \in Rest /\ x = Mille * e + f
          /\ n > 1 => e + 1 < n
          /\ n = 1 => e = 0 /\ f = 0 /\ x = 0
      <3>1. InList(n, x, e, f)
        BY Zenon, <1>5, <2>2, RankInList
      <3> QED
        BY Zenon, <3>1 DEF InList
    <2>4. x = p * (Len(s) - 1) /\ n = Len(s)
      BY Zenon DEF x, n
    <2>5. CASE n > 1
      <3>1. percentile(s, p) = Between(s, e + 1, e + 2, f)
        BY Zenon, <2>1, <2>3, <2>5 DEF Between
      <3>2. Place(s, p, e + 1, e + 2, f)
        <4>1. /\ e + 1 \in 1..n /\ e + 2 \in 1..n /\ e + 1 <= e + 2 /\ e + 2 <= (e + 1) + 1
              /\ e + 1 # e + 2 /\ x = Mille * ((e + 1) - 1) + f /\ f \in Rest
          BY SMT, <2>2, <2>3, <2>5
        <4> QED
          BY Zenon, <2>4, <3>1, <4>1 DEF Place
      <3> QED
        BY Zenon, <3>2
    <2>6. CASE n = 1
      <3>1. percentile(s, p) = Mille * s[1] /\ s[1] \in Nat
        BY SMT, <1>2, <2>1, <2>3, <2>4, <2>6
      <3>2. Place(s, p, 1, 1, 0)
        BY SMT, <2>3, <2>4, <2>6, <3>1 DEF Place, Between, Mille
      <3> QED
        BY Zenon, <3>2
    <2> QED
      BY SMT, <2>2, <2>5, <2>6
  <1> QED
    BY SMT, <1>3, <1>4, <1>5 DEF Mille, Tenths, Inner

\* What is read between two entries is between them.
LEMMA BetweenIn ==
  ASSUME NEW s, NEW a, NEW b, NEW f \in Tenths, NEW g \in Tenths, f <= g,
         s[a] \in Nat, s[b] \in Nat, s[a] <= s[b]
  PROVE  /\ Between(s, a, b, f) \in Nat
         /\ Mille * s[a] <= Between(s, a, b, f) /\ Between(s, a, b, f) <= Mille * s[b]
         /\ Between(s, a, b, f) <= Between(s, a, b, g)
  <1> DEFINE d == s[b] - s[a]
             t == Mille
  <1>1. d \in Nat /\ f \in Nat /\ g \in Nat /\ t \in Nat /\ f <= t /\ s[b] = s[a] + d
    BY SMT DEF Mille, Tenths
  <1>2. Between(s, a, b, f) = Mille * s[a] + f * d /\ Between(s, a, b, g) = Mille * s[a] + g * d
    BY Zenon DEF Between
  <1> HIDE DEF d, t
  <1>3. f * d \in Nat /\ g * d \in Nat /\ f * d <= g * d /\ f * d <= t * d
    BY Zenon, <1>1, ProductGrows
  <1> DEFINE A == f * d
             B == g * d
  <1>4. A \in Nat /\ B \in Nat /\ A <= B /\ A <= Mille * d
    BY Zenon, <1>1, <1>3 DEF t
  <1>5. Between(s, a, b, f) = Mille * s[a] + A /\ Between(s, a, b, g) = Mille * s[a] + B
    BY Zenon, <1>2
  <1> HIDE DEF A, B
  <1> QED
    BY SMT, <1>1, <1>4, <1>5 DEF Mille

\* A way that is not whole is one.
LEMMA RestInTenths ==
  ASSUME NEW f \in Rest
  PROVE  f \in Tenths /\ f <= f
  BY SMT DEF Rest, Tenths

\* collector.go:170-187: a higher percentile of a list is never smaller.
THEOREM PercentilesRise ==
  ASSUME NEW s, Ascending(s), Len(s) > 0, NEW p \in Tenths, NEW q \in Tenths, p <= q
  PROVE  percentile(s, p) <= percentile(s, q)
  <1>1. PICK a, b, f : Place(s, p, a, b, f)
    BY Zenon, PercentilePlace
  <1>2. PICK c, d, g : Place(s, q, c, d, g)
    BY Zenon, PercentilePlace
  <1>3. /\ Len(s) \in Nat /\ \A j \in 1..Len(s) : s[j] \in Nat
        /\ \A j, m \in 1..Len(s) : j <= m => s[j] <= s[m]
    BY SMT DEF Ascending
  <1>4. /\ a \in 1..Len(s) /\ b \in 1..Len(s) /\ c \in 1..Len(s) /\ d \in 1..Len(s)
        /\ f \in Rest /\ g \in Rest
        /\ a <= b /\ b <= a + 1 /\ c <= d /\ d <= c + 1 /\ (a = b => f = 0) /\ (c = d => g = 0)
    BY Zenon, <1>1, <1>2 DEF Place
  <1>5. Mille * (a - 1) + f <= Mille * (c - 1) + g
    <2> DEFINE m == Len(s) - 1
    <2>1. m \in Nat /\ p \in Nat /\ q \in Nat
      BY SMT, <1>3 DEF Tenths
    <2>2. p * m = Mille * (a - 1) + f /\ q * m = Mille * (c - 1) + g
      BY Zenon, <1>1, <1>2 DEF Place
    <2> HIDE DEF m
    <2>3. p * m <= q * m
      BY Zenon, <2>1, ProductGrows
    <2> QED
      BY Zenon, <2>2, <2>3
  <1>6. \/ b <= c
        \/ a = c /\ b = d /\ f <= g
        \/ a = c /\ c = d /\ f = 0 /\ g = 0
    BY SMT, <1>3, <1>4, <1>5 DEF Mille, Rest
  <1>7. s[a] \in Nat /\ s[b] \in Nat /\ s[a] <= s[b] /\ s[c] \in Nat /\ s[d] \in Nat /\ s[c] <= s[d]
    BY Zenon, <1>3, <1>4
  <1>8. f \in Tenths /\ g \in Tenths /\ f <= f /\ g <= g
    BY Zenon, <1>4, RestInTenths
  <1> DEFINE P == Between(s, a, b, f)
             Q == Between(s, c, d, g)
  <1>9. P \in Nat /\ P <= Mille * s[b] /\ Q \in Nat /\ Mille * s[c] <= Q
    BY Zenon, <1>7, <1>8, BetweenIn
  <1>10. P <= Q
    <2>1. CASE b <= c
      <3>1. s[b] <= s[c]
        BY Zenon, <1>3, <1>4, <2>1
      <3> HIDE DEF P, Q
      <3> QED
        BY SMT, <1>7, <1>9, <3>1 DEF Mille
    <2>2. CASE a = c /\ b = d /\ f <= g
      <3>1. Between(s, a, b, f) <= Between(s, a, b, g)
        BY Zenon, <1>7, <1>8, <2>2, BetweenIn
      <3> QED
        BY Zenon, <2>2, <3>1
    <2>3. CASE a = c /\ c = d /\ f = 0 /\ g = 0
      BY SMT, <1>7, <2>3 DEF Between, Mille
    <2> QED
      BY Zenon, <1>6, <2>1, <2>2, <2>3
  <1> QED
    BY Zenon, <1>1, <1>2, <1>10 DEF Place

\* collector.go:170-187: every percentile is between the least latency and the
\* greatest.
THEOREM PercentileInRange ==
  ASSUME NEW s, Ascending(s), Len(s) > 0, NEW p \in Tenths
  PROVE  1000 * s[1] <= percentile(s, p) /\ percentile(s, p) <= 1000 * s[Len(s)]
  <1>1. 0 \in Tenths /\ Mille \in Tenths /\ 0 <= p /\ p <= Mille
    BY SMT DEF Mille, Tenths
  <1>2. percentile(s, 0) <= percentile(s, p) /\ percentile(s, p) <= percentile(s, Mille)
    BY Zenon, <1>1, PercentilesRise
  <1>3. Len(s) \in Nat
    BY SMT DEF Ascending
  <1>4. percentile(s, 0) = 1000 * s[1] /\ percentile(s, Mille) = 1000 * s[Len(s)]
    BY SMT, <1>3 DEF percentile, Mille
  <1> QED
    BY SMT, <1>2, <1>4

\* The size of a part of an interval.
LEMMA PartSize ==
  ASSUME NEW n \in Nat, NEW lo \in 1..(n + 1), NEW hi \in 0..n, NEW T, T \subseteq lo..hi, lo <= hi + 1
  PROVE  IsFiniteSet(T) /\ Cardinality(T) \in Nat /\ Cardinality(T) <= hi - lo + 1
  <1>1. lo \in Int /\ hi \in Int
    BY SMT
  <1>2. IsFiniteSet(lo..hi) /\ Cardinality(lo..hi) = IF lo > hi THEN 0 ELSE hi - lo + 1
    BY Zenon, <1>1, FS_Interval
  <1>3. IsFiniteSet(T) /\ Cardinality(T) <= Cardinality(lo..hi) /\ Cardinality(T) \in Nat
    BY Zenon, <1>2, FS_Subset, FS_CardinalityType
  <1> QED
    BY SMT, <1>1, <1>2, <1>3

\* collector.go:170-187: at most half of the latencies are above the median, and
\* at most half below.
THEOREM MedianSplits ==
  ASSUME NEW s, Ascending(s), Len(s) > 0
  PROVE  /\ 2 * Cardinality({j \in 1..Len(s) : 1000 * s[j] > percentile(s, 500)}) <= Len(s)
         /\ 2 * Cardinality({j \in 1..Len(s) : 1000 * s[j] < percentile(s, 500)}) <= Len(s)
  <1> DEFINE n == Len(s)
             p == 500
             P == percentile(s, p)
             above == {j \in 1..n : Mille * s[j] > P}
             below == {j \in 1..n : Mille * s[j] < P}
  <1>1. p \in Tenths /\ p \in Nat
    BY SMT DEF Tenths
  <1>2. /\ n \in Nat /\ \A j \in 1..n : s[j] \in Nat
        /\ \A j, m \in 1..n : j <= m => s[j] <= s[m]
    BY SMT DEF Ascending
  <1> HIDE DEF p
  <1>3. PICK a, b, f : Place(s, p, a, b, f)
    BY Zenon, <1>1, PercentilePlace
  <1>4. /\ a \in 1..n /\ b \in 1..n /\ f \in Rest /\ a <= b /\ b <= a + 1 /\ (a = b => f = 0)
        /\ p * (n - 1) = Mille * (a - 1) + f /\ P = Between(s, a, b, f)
    BY Zenon, <1>3 DEF Place
  <1>5. (n = 2 * a - 1 /\ f = 0) \/ (n = 2 * a /\ f = 500)
    <2>1. n \in Nat /\ a \in Nat /\ f \in Nat /\ f <= 999
      BY SMT, <1>2, <1>4 DEF Rest
    <2>2. 500 * (n - 1) = 1000 * (a - 1) + f
      BY SMT, <1>4 DEF p, Mille
    <2> QED
      BY SMT, <2>1, <2>2
  <1>6. s[a] \in Nat /\ s[b] \in Nat /\ s[a] <= s[b] /\ f \in Tenths /\ f <= f
    <2>1. f \in Tenths /\ f <= f
      BY Zenon, <1>4, RestInTenths
    <2> QED
      BY Zenon, <1>2, <1>4, <2>1
  <1>7. P \in Nat /\ Mille * s[a] <= P /\ P <= Mille * s[b]
    BY Zenon, <1>4, <1>6, BetweenIn
  <1>8. f = 0 => P = Mille * s[a]
    BY SMT, <1>4, <1>6 DEF Between, Mille
  <1> HIDE DEF P
  <1>9. above \subseteq (a + 1)..n
    <2> SUFFICES ASSUME NEW j \in 1..n, Mille * s[j] > P PROVE j \in (a + 1)..n
      BY Zenon
    <2>1. s[j] \in Nat /\ (j <= a => s[j] <= s[a])
      BY Zenon, <1>2, <1>4
    <2>2. ~(j <= a)
      BY SMT, <1>6, <1>7, <2>1 DEF Mille
    <2> QED
      BY SMT, <1>2, <1>4, <2>2
  <1>10. below \subseteq 1..(n - a)
    <2> SUFFICES ASSUME NEW j \in 1..n, Mille * s[j] < P PROVE j \in 1..(n - a)
      BY Zenon
    <2>1. s[j] \in Nat /\ (a <= j => s[a] <= s[j]) /\ (b <= j => s[b] <= s[j])
      BY Zenon, <1>2, <1>4
    <2>2. ~(b <= j) /\ (f = 0 => ~(a <= j))
      BY SMT, <1>6, <1>7, <1>8, <2>1 DEF Mille
    <2> QED
      BY SMT, <1>2, <1>4, <1>5, <2>2
  <1>11. Cardinality(above) \in Nat /\ Cardinality(above) <= n - a
    <2>1. a + 1 \in 1..(n + 1) /\ n \in 0..n /\ a + 1 <= n + 1
      BY SMT, <1>2, <1>4
    <2>2. Cardinality(above) \in Nat /\ Cardinality(above) <= n - (a + 1) + 1
      BY Zenon, <1>2, <1>9, <2>1, PartSize
    <2> HIDE DEF above
    <2> QED
      BY SMT, <1>2, <1>4, <2>2
  <1>12. Cardinality(below) \in Nat /\ Cardinality(below) <= n - a
    <2>1. 1 \in 1..(n + 1) /\ n - a \in 0..n /\ 1 <= (n - a) + 1
      BY SMT, <1>2, <1>4
    <2>2. Cardinality(below) \in Nat /\ Cardinality(below) <= (n - a) - 1 + 1
      BY Zenon, <1>2, <1>10, <2>1, PartSize
    <2> HIDE DEF below
    <2> QED
      BY SMT, <1>2, <1>4, <2>2
  <1>13. 2 * Cardinality(above) <= n /\ 2 * Cardinality(below) <= n
    <2> HIDE DEF above, below
    <2> QED
      BY SMTT(40), <1>2, <1>4, <1>5, <1>11, <1>12
  <1> QED
    BY Zenon, <1>13 DEF P, p, Mille

--------------------------------------------------------------------------------
(* The load generators                                                      *)

\* What is known of the current generator, and of those before it: Run has
\* cancelled them, or they never had loops.  Outside "measure" the current one is
\* one of those before.
GenInv ==
    /\ bpc # "measure" => lgpc \in {"off", "failed"}
    /\ lgpc # "off" => gen > 0
    /\ cancelled \subseteq 1..gen
    /\ collecting => lgpc = "run"
    /\ gen \in cancelled => lgpc \in {"stop", "over", "off"}
    /\ lgpc \in {"stop", "over", "off"} => gen = 0 \/ gen \in cancelled
    /\ lgpc \in {"dial", "backoff"} => attempt < Attempts
    /\ lgpc \in {"dial", "backoff", "failed"} => \A l \in Loops : at[gen][l] = "none"
    /\ \A g \in Gens : g > gen => \A l \in Loops : at[g][l] = "none"
    /\ \A g \in 1..(gen - 1) : g \in cancelled \/ \A l \in Loops : at[g][l] = "none"

\* A loop that is bound to make a call is allowed it.
PayloadInv == \A g \in Gens, l \in Loops : at[g][l] = "payload" => calls[g][l] < MaxCalls[g]

\* Unless the process was interrupted, no sample is an error of the ctx, neither
\* a recorded one nor one about to be recorded.
SampleInv ==
    ~interrupted =>
        /\ \A n \in DOMAIN samples : samples[n].why # "ctx"
        /\ \A l \in Loops : gen \in Gens /\ at[gen][l] = "record" => pending[gen][l].why # "ctx"

--------------------------------------------------------------------------------
(* The process and the session                                              *)

\* Where the main goroutine is at profile number i.
AtProfile == {"clean", "add", "clean again", "add again", "load", "measure", "save", "undo"}

CmdInv ==
    /\ bpc # "none" => cmd.profiles \in Seq(Profiles) /\ i \in 1..(Len(cmd.profiles) + 1)
    /\ bpc \in AtProfile => i <= Len(cmd.profiles)

\* Who is at work at each point of a session.
DriverInv ==
    /\ k \in 0..Total
    /\ bpc # "none" => dpc \in {"child", "user"}
    /\ dpc \in {"build", "server", "shell", "user", "cleanup"} => k = 0
    /\ dpc \in {"del", "kill", "wait"} => k = Total
    /\ heatmap # {} => dpc \in {"del", "kill", "wait", "done"}

--------------------------------------------------------------------------------
(* What the steps of a session are to the load generators.                  *)

\* The parts of a tuple of variables that does not change.
LEMMA Parts ==
  /\ UNCHANGED vars => UNCHANGED lgVars /\ UNCHANGED benchVars /\ UNCHANGED <<dpc, k, server, heatmap>>
  /\ UNCHANGED benchVars => /\ UNCHANGED <<bpc, cmd, i, sig, qdisc, applied, others, report>>
                            /\ UNCHANGED <<files, reported>>
                            /\ UNCHANGED fileVars
  <1>1. UNCHANGED vars =>
          UNCHANGED lgVars /\ UNCHANGED benchVars /\ UNCHANGED <<dpc, k, server, heatmap>>
    BY Zenon DEF vars
  <1>2. UNCHANGED benchVars =>
          UNCHANGED <<bpc, cmd, i, sig, qdisc, applied, others, report>> /\ UNCHANGED fileVars
    BY Zenon DEF benchVars
  <1>3. UNCHANGED fileVars => UNCHANGED <<files, reported>>
    BY Zenon DEF fileVars
  <1> QED
    BY Zenon, <1>1, <1>2, <1>3

\* The load generators' side of a step.
LoadView ==
    \/ UNCHANGED lgVars /\ (bpc = "measure" => bpc' = "measure" \/ lgpc = "failed")
    \/ NewGenerator /\ bpc = "load" /\ bpc' = "measure"
    \/ GeneratorStep /\ bpc = "measure" /\ bpc' = "measure"
    \/ Discard /\ bpc = "measure" /\ lgpc = "over"
    \/ ProcessEnds
    \/ LoopStep /\ bpc' = bpc
    \/ interrupted' = TRUE /\ UNCHANGED <<genVars, samples, loopVars, bpc>>

LEMMA LoadSteps == [Next]_vars => LoadView
  <1> SUFFICES ASSUME [Next]_vars PROVE LoadView
    OBVIOUS
  <1>1. CASE DriverStep \/ UserStep \/ ServerEnds \/ OtherAdds \/ Ended \/ UNCHANGED vars
    <2>1. UNCHANGED lgVars /\ (UNCHANGED bpc \/ bpc = "none")
      <3>1. CASE StartChild \/ UserRuns
        BY Zenon, <3>1 DEF StartChild, UserRuns, StartProcess
      <3>2. CASE DeferredDel \/ UserCleanup \/ OtherAdds
        BY Zenon, <3>2 DEF DeferredDel, UserCleanup, OtherAdds
      <3>3. CASE UNCHANGED <<lgVars, benchVars>>
        BY Zenon, <3>3 DEF benchVars
      <3>4. CASE UNCHANGED vars
        BY Zenon, <3>4 DEF vars, benchVars
      <3> QED
        BY <1>1, <3>1, <3>2, <3>3, <3>4 DEF DriverStep, UserStep, ServerEnds, Build, StartServer, ChildEnds,
           GenerateReport, KillServer, WaitReturns, UserReturns, Ended
    <2> QED
      BY Zenon, <2>1 DEF LoadView
  <1>2. CASE SignalStep
    BY Zenon, <1>2 DEF SignalStep, FirstSignal, SecondSignal, SignalsOver, Exit, LoadView
  <1>3. CASE LoadStep
    BY Zenon, <1>3 DEF LoadStep, LoadView, benchVars
  <1>4. CASE MainStep
    <2>1. CASE StartLoad
      BY Zenon, <2>1 DEF StartLoad, LoadView
    <2>2. CASE Generate
      BY Zenon, <2>2 DEF Generate, LoadView, benchVars
    <2>3. CASE TakeReport
      BY Zenon, <2>3 DEF TakeReport, LoadView
    <2>4. CASE Interrupted \/ FinalClean
      BY Zenon, <2>4 DEF Interrupted, FinalClean, Exit, LoadView
    <2>5. CASE \/ NextProfile \/ ApplyClean \/ ApplyAdd \/ ApplyCleanAgain \/ ApplyAddAgain
               \/ LoadFailed \/ Save \/ Undo
      <3>1. UNCHANGED lgVars /\ (bpc = "measure" => lgpc = "failed")
        BY Zenon, <2>5 DEF NextProfile, ApplyClean, ApplyAdd, ApplyCleanAgain, ApplyAddAgain, LoadFailed,
           Save, Undo, RestUnchanged
      <3> QED
        BY Zenon, <3>1 DEF LoadView
    <2> QED
      BY Zenon, <1>4, <2>1, <2>2, <2>3, <2>4, <2>5 DEF MainStep
  <1> QED
    BY Zenon, <1>1, <1>2, <1>3, <1>4 DEF Next

--------------------------------------------------------------------------------
(* The load generators keep their invariant.                                *)

\* Only the ctx's own error is called "ctx".
LEMMA SampleKinds ==
  /\ Bad("failed") \in Samples /\ Bad("ctx") \in Samples /\ Bad("failed").why # "ctx"
  /\ \A x \in Samples \ {Bad("ctx")} : x.why # "ctx"
  /\ \A g : Results(g) \subseteq Samples
  <1>1. Bad("failed") \in Samples /\ Bad("ctx") \in Samples
    BY Zenon DEF Samples
  <1>2. Bad("failed").why # "ctx" /\ \A n : Good(n).why # "ctx"
    BY Zenon DEF Good, Bad
  <1>3. \A x \in Samples \ {Bad("ctx")} : x.why # "ctx"
    BY Zenon, <1>2 DEF Samples
  <1>4. \A g : Results(g) \subseteq Samples
    BY Zenon, <1>1 DEF Results
  <1> QED
    BY Zenon, <1>1, <1>2, <1>3, <1>4

\* One loop's entry of a function of generators and loops is replaced.
LEMMA EntryReplaced ==
  ASSUME NEW A, NEW B, NEW V, NEW f \in [A -> [B -> V]], NEW a \in A, NEW b \in B, NEW v \in V,
         NEW h, h = [f EXCEPT ![a][b] = v]
  PROVE  /\ h \in [A -> [B -> V]]
         /\ h[a][b] = v
         /\ \A c \in A, d \in B : c # a \/ d # b => h[c][d] = f[c][d]
  OBVIOUS

\* The same of a loop's point.
LEMMA PointReplaced ==
  ASSUME LoadGenTypeOK, NEW g \in Gens, NEW l \in Loops, NEW to \in Points, at' = [at EXCEPT ![g][l] = to]
  PROVE  at'[g][l] = to
  <1>1. at \in [Gens -> [Loops -> Points]]
    BY Zenon DEF LoadGenTypeOK
  <1> QED
    BY <1>1

LEMMA LoadGenTypes == LoadGenTypeOK /\ GenInv /\ PayloadInv /\ LoadView => LoadGenTypeOK'
  <1> SUFFICES ASSUME LoadGenTypeOK, GenInv, PayloadInv, LoadView PROVE LoadGenTypeOK'
    OBVIOUS
  <1> USE AttemptsAssumption, BoundsAssumption
  <1>1. CASE UNCHANGED lgVars
    BY Zenon, <1>1 DEF lgVars, genVars, loopVars, LoadGenTypeOK
  <1>2. CASE NewGenerator
    <2>1. gen' \in 0..MaxGens /\ attempt' \in 0..Attempts
      BY <1>2 DEF NewGenerator, LoadGenTypeOK
    <2>2. samples' \in Seq(Samples)
      BY <1>2 DEF NewGenerator
    <2> QED
      BY Zenon, <1>2, <2>1, <2>2 DEF NewGenerator, loopVars, LoadGenTypeOK
  <1>3. CASE GeneratorStep
    <2>1. CASE ClientReady
      <3>1. gen \in Gens
        BY <2>1 DEF ClientReady, GenInv, LoadGenTypeOK, Gens
      <3>2. at' \in [Gens -> [Loops -> Points]]
        BY Zenon, <2>1, <3>1 DEF ClientReady, LoadGenTypeOK, Points
      <3> QED
        BY Zenon, <2>1, <3>2 DEF ClientReady, LoadGenTypeOK
    <2>2. CASE ClientFails
      <3>1. attempt' \in 0..Attempts /\ lgpc' \in {"backoff", "failed"}
        BY <2>2 DEF ClientFails, GenInv, LoadGenTypeOK
      <3> QED
        BY Zenon, <2>2, <3>1 DEF ClientFails, loopVars, LoadGenTypeOK
    <2>3. CASE Backoff
      BY Zenon, <2>3 DEF Backoff, loopVars, LoadGenTypeOK
    <2>4. CASE Warmup
      BY Zenon, <2>4 DEF Warmup, loopVars, LoadGenTypeOK
    <2>5. CASE StopCollecting
      BY Zenon, <2>5 DEF StopCollecting, loopVars, LoadGenTypeOK
    <2>6. CASE Cancel
      <3>1. gen \in Gens
        BY <2>6 DEF Cancel, GenInv, LoadGenTypeOK, Gens
      <3> QED
        BY Zenon, <2>6, <3>1 DEF Cancel, loopVars, LoadGenTypeOK
    <2>7. CASE RunReturns
      BY Zenon, <2>7 DEF RunReturns, loopVars, LoadGenTypeOK
    <2> QED
      BY Zenon, <1>3, <2>1, <2>2, <2>3, <2>4, <2>5, <2>6, <2>7 DEF GeneratorStep
  <1>4. CASE Discard
    BY <1>4 DEF Discard, loopVars, LoadGenTypeOK
  <1>5. CASE ProcessEnds
    <2>1. /\ at' \in [Gens -> [Loops -> Points]]
          /\ pending' \in [Gens -> [Loops -> Samples]]
      BY Zenon, <1>5, SampleKinds DEF ProcessEnds, Points
    <2>2. \A g \in Gens : calls'[g] \in [Loops -> 0..MaxCalls[g]]
      BY <1>5 DEF ProcessEnds, Gens
    <2>3. samples' \in Seq(Samples)
      BY <1>5 DEF ProcessEnds
    <2>4. gen' \in 0..MaxGens /\ attempt' \in 0..Attempts
      BY <1>5 DEF ProcessEnds
    <2> QED
      BY Zenon, <1>5, <2>1, <2>2, <2>3, <2>4 DEF ProcessEnds, LoadGenTypeOK
  <1>6. ASSUME NEW g \in 1..gen, NEW l \in Loops,
               LoopAction(g, l)
        PROVE  LoadGenTypeOK'
    <2>1. g \in Gens
      BY <1>6 DEF LoadGenTypeOK, Gens
    <2>2. at' \in [Gens -> [Loops -> Points]]
      <3>1. PICK to \in Points : at' = [at EXCEPT ![g][l] = to]
        BY Zenon, <1>6 DEF LoopAction, LoopReturns, NextPayload, SendRequest, CallReturns, Record, Points
      <3> QED
        BY Zenon, <2>1, <3>1, EntryReplaced DEF LoadGenTypeOK
    <2>3. pending' \in [Gens -> [Loops -> Samples]]
      <3>1. pending' = pending \/ \E x \in Samples : pending' = [pending EXCEPT ![g][l] = x]
        BY Zenon, <1>6, SampleKinds DEF LoopAction, LoopReturns, NextPayload, SendRequest, CallReturns, Record
      <3>2. pending \in [Gens -> [Loops -> Samples]]
        BY Zenon DEF LoadGenTypeOK
      <3> QED
        BY <2>1, <3>1, <3>2, EntryReplaced
    <2>4. samples' \in Seq(Samples)
      <3>1. pending[g][l] \in Samples /\ samples \in Seq(Samples)
        BY <1>6, <2>1 DEF LoadGenTypeOK
      <3>2. samples' = samples \/ samples' = Append(samples, pending[g][l])
        BY Zenon, <1>6 DEF LoopAction, LoopReturns, NextPayload, SendRequest, CallReturns, Record
      <3> QED
        BY SMTT(40), <3>1, <3>2
    <2>5. \A h \in Gens : calls'[h] \in [Loops -> 0..MaxCalls[h]]
      <3>1. CASE SendRequest(g, l)
        <4>1. calls[g][l] < MaxCalls[g]
          BY Zenon, <2>1, <3>1 DEF SendRequest, PayloadInv
        <4> QED
          BY SMTT(40), <2>1, <3>1, <4>1 DEF SendRequest, LoadGenTypeOK, Gens
      <3>2. CASE UNCHANGED calls
        BY Zenon, <3>2 DEF LoadGenTypeOK
      <3> QED
        BY Zenon, <1>6, <3>1, <3>2 DEF LoopAction, LoopReturns, NextPayload, CallReturns, Record
    <2>6. UNCHANGED <<interrupted, genVars>>
      BY Zenon, <1>6 DEF LoopAction, LoopReturns, NextPayload, SendRequest, CallReturns, Record
    <2> QED
      BY Zenon, <2>2, <2>3, <2>4, <2>5, <2>6 DEF genVars, LoadGenTypeOK
  <1>7. CASE interrupted' = TRUE /\ UNCHANGED <<genVars, samples, loopVars, bpc>>
    BY Zenon, <1>7 DEF genVars, loopVars, LoadGenTypeOK
  <1> QED
    BY Zenon, <1>1, <1>2, <1>3, <1>4, <1>5, <1>6, <1>7 DEF LoadView, LoopStep

\* What a step of a load loop does to the loops' positions: only loops that were
\* started move.
LEMMA LoopMoves ==
  ASSUME LoadGenTypeOK, NEW g \in 1..gen, NEW l \in Loops,
         LoopAction(g, l)
  PROVE  /\ g \in Gens /\ at[g][l] # "none"
         /\ UNCHANGED <<interrupted, genVars>>
         /\ \A h \in Gens, m \in Loops : h # g \/ m # l => at'[h][m] = at[h][m]
  <1>1. g \in Gens
    BY BoundsAssumption DEF LoadGenTypeOK, Gens
  <1>2. PICK to \in Points : at' = [at EXCEPT ![g][l] = to]
    BY Zenon DEF LoopAction, LoopReturns, NextPayload, SendRequest, CallReturns, Record, Points
  <1>3. \A h \in Gens, m \in Loops : h # g \/ m # l => at'[h][m] = at[h][m]
    BY Zenon, <1>1, <1>2, EntryReplaced DEF LoadGenTypeOK
  <1>4. at[g][l] # "none" /\ UNCHANGED <<interrupted, genVars>>
    BY Zenon DEF LoopAction, LoopReturns, NextPayload, SendRequest, CallReturns, Record
  <1> QED
    BY Zenon, <1>1, <1>3, <1>4

LEMMA GenNext == LoadGenTypeOK /\ GenInv /\ LoadView => GenInv'
  <1> SUFFICES ASSUME LoadGenTypeOK, GenInv, LoadView PROVE GenInv'
    OBVIOUS
  <1> USE BoundsAssumption
  <1>0. gen \in Nat
    BY DEF LoadGenTypeOK
  <1>1. CASE UNCHANGED lgVars /\ (bpc = "measure" => bpc' = "measure" \/ lgpc = "failed")
    BY Zenon, <1>1 DEF lgVars, genVars, loopVars, GenInv
  <1>2. CASE NewGenerator /\ bpc = "load" /\ bpc' = "measure"
    <2>1. /\ bpc' = "measure" /\ lgpc \in {"off", "failed"} /\ lgpc' = "dial" /\ collecting' = FALSE
          /\ UNCHANGED <<cancelled, at>> /\ gen' = gen + 1 /\ gen < MaxGens /\ attempt' = 0
      BY Zenon, <1>2 DEF NewGenerator, loopVars, GenInv
    <2>2. gen' > 0 /\ cancelled' \subseteq 1..gen' /\ gen' \notin cancelled'
      BY <1>0, <2>1 DEF GenInv
    <2>3. \A l \in Loops : at'[gen'][l] = "none"
      <3>1. gen' \in Gens /\ gen' > gen
        BY <1>0, <2>1 DEF Gens
      <3> QED
        BY Zenon, <2>1, <3>1 DEF GenInv
    <2>4. \A g \in Gens : g > gen' => \A l \in Loops : at'[g][l] = "none"
      <3>1. \A g \in Gens : g > gen' => g > gen
        BY <1>0, <2>1 DEF Gens
      <3> QED
        BY Zenon, <2>1, <3>1 DEF GenInv
    <2>5. ASSUME NEW g \in 1..(gen' - 1)
          PROVE  g \in cancelled' \/ \A l \in Loops : at'[g][l] = "none"
      <3>1. CASE g = gen
        BY <2>1, <2>5, <3>1 DEF GenInv
      <3>2. CASE g # gen
        <4>1. g \in 1..(gen - 1)
          BY <1>0, <2>1, <2>5, <3>2
        <4> QED
          BY Zenon, <2>1, <4>1 DEF GenInv
      <3> QED
        BY Zenon, <3>1, <3>2
    <2>6. attempt' < Attempts
      BY <2>1, AttemptsAssumption
    <2> QED
      BY Zenon, <2>1, <2>2, <2>3, <2>4, <2>5, <2>6 DEF GenInv
  <1>3. CASE GeneratorStep /\ bpc = "measure" /\ bpc' = "measure"
    <2>1. CASE ClientReady
      <3>1. /\ lgpc = "dial" /\ lgpc' = "warmup" /\ gen > 0
            /\ UNCHANGED <<gen, attempt, cancelled, collecting>>
            /\ at' = [at EXCEPT ![gen] = [l \in Loops |-> "top"]]
        BY Zenon, <2>1 DEF ClientReady, GenInv
      <3>2. \A g \in Gens : g # gen => at'[g] = at[g]
        BY Zenon, <3>1 DEF LoadGenTypeOK
      <3>3. \A g \in Gens : g > gen => g # gen
        BY <1>0 DEF Gens
      <3>4. \A g \in 1..(gen - 1) : g \in Gens /\ g # gen
        BY <1>0 DEF Gens, LoadGenTypeOK
      <3> QED
        BY <1>3, <3>1, <3>2, <3>3, <3>4 DEF GenInv
    <2>2. CASE ClientFails
      <3>1. /\ UNCHANGED <<gen, cancelled, collecting, at>> /\ lgpc = "dial"
            /\ lgpc' \in {"backoff", "failed"} /\ (lgpc' = "backoff" => attempt' < Attempts)
        BY Zenon, <2>2 DEF ClientFails, loopVars
      <3> QED
        BY Zenon, <1>3, <3>1 DEF GenInv
    <2>3. CASE Backoff
      <3>1. /\ UNCHANGED <<gen, attempt, cancelled, collecting, at>> /\ lgpc = "backoff"
            /\ lgpc' \in {"dial", "failed"}
        BY Zenon, <2>3 DEF Backoff, loopVars
      <3> QED
        BY Zenon, <1>3, <3>1 DEF GenInv
    <2>4. CASE Warmup
      BY Zenon, <1>3, <2>4 DEF Warmup, loopVars, GenInv
    <2>5. CASE StopCollecting
      BY Zenon, <1>3, <2>5 DEF StopCollecting, loopVars, GenInv
    <2>6. CASE Cancel
      <3>1. /\ UNCHANGED <<gen, attempt, collecting, at>> /\ lgpc = "cancel" /\ lgpc' = "stop"
            /\ cancelled' = cancelled \cup {gen} /\ gen > 0
        BY Zenon, <2>6 DEF Cancel, loopVars, GenInv
      <3>2. gen \in 1..gen
        BY <1>0, <3>1
      <3>3. cancelled' \subseteq 1..gen
        BY Zenon, <3>1, <3>2 DEF GenInv
      <3> QED
        BY Zenon, <1>3, <3>1, <3>3 DEF GenInv
    <2>7. CASE RunReturns
      BY Zenon, <1>3, <2>7 DEF RunReturns, loopVars, GenInv
    <2> QED
      BY Zenon, <1>3, <2>1, <2>2, <2>3, <2>4, <2>5, <2>6, <2>7 DEF GeneratorStep
  <1>4. CASE Discard /\ bpc = "measure" /\ lgpc = "over"
    BY Zenon, <1>4 DEF Discard, loopVars, GenInv
  <1>5. CASE ProcessEnds
    <2>1. /\ gen' = 0 /\ lgpc' = "off" /\ cancelled' = {} /\ collecting' = FALSE
          /\ \A g \in Gens, l \in Loops : at'[g][l] = "none"
      BY Zenon, <1>5 DEF ProcessEnds
    <2>2. \A g \in 1..(gen' - 1) : FALSE
      BY <2>1
    <2> QED
      BY Zenon, <2>1, <2>2 DEF GenInv
  <1>6. ASSUME bpc' = bpc, NEW g \in 1..gen, NEW l \in Loops,
               LoopAction(g, l)
        PROVE  GenInv'
    <2>1. /\ at[g][l] # "none" /\ UNCHANGED <<gen, lgpc, attempt, cancelled, collecting>> /\ g \in Gens
          /\ \A h \in Gens, m \in Loops : h # g \/ m # l => at'[h][m] = at[h][m]
      BY Zenon, <1>6, LoopMoves DEF genVars
    <2>2. \A h \in Gens : (\A m \in Loops : at[h][m] = "none") => \A m \in Loops : at'[h][m] = "none"
      BY Zenon, <1>6, <2>1
    <2>3. 1..(gen - 1) \subseteq Gens /\ (gen > 0 => gen \in Gens)
      BY <1>0 DEF LoadGenTypeOK, Gens
    <2> QED
      BY Zenon, <1>6, <2>1, <2>2, <2>3 DEF GenInv
  <1>7. CASE interrupted' = TRUE /\ UNCHANGED <<genVars, samples, loopVars, bpc>>
    BY Zenon, <1>7 DEF genVars, loopVars, GenInv
  <1> QED
    BY Zenon, <1>1, <1>2, <1>3, <1>4, <1>5, <1>6, <1>7 DEF LoadView, LoopStep

\* Where a loop may come to the call: it was there, or NextPayload brought it there.
LEMMA PayloadNext == LoadGenTypeOK /\ PayloadInv /\ LoadView => PayloadInv'
  <1> SUFFICES ASSUME LoadGenTypeOK, PayloadInv, LoadView PROVE PayloadInv'
    OBVIOUS
  <1>1. CASE UNCHANGED <<at, calls>>
    BY Zenon, <1>1 DEF PayloadInv
  <1>2. CASE ClientReady
    <2>1. UNCHANGED calls /\ at' = [at EXCEPT ![gen] = [l \in Loops |-> "top"]]
      BY Zenon, <1>2 DEF ClientReady
    <2>2. \A g \in Gens, l \in Loops : at'[g][l] = "top" \/ at'[g][l] = at[g][l]
      BY <2>1 DEF LoadGenTypeOK
    <2> QED
      BY Zenon, <2>1, <2>2 DEF PayloadInv
  <1>3. CASE ProcessEnds
    <2>1. \A g \in Gens, l \in Loops : at'[g][l] = "none"
      BY Zenon, <1>3 DEF ProcessEnds
    <2> QED
      BY Zenon, <2>1 DEF PayloadInv
  <1>4. ASSUME NEW g \in 1..gen, NEW l \in Loops, LoopAction(g, l)
        PROVE  PayloadInv'
    <2>1. g \in Gens /\ \A h \in Gens, m \in Loops : h # g \/ m # l => at'[h][m] = at[h][m]
      BY Zenon, <1>4, LoopMoves
    <2>2. CASE NextPayload(g, l)
      BY Zenon, <2>1, <2>2 DEF NextPayload, PayloadInv
    <2>3. CASE SendRequest(g, l)
      <3>1. at'[g][l] = "call"
        BY Zenon, <2>1, <2>3, PointReplaced DEF SendRequest, Points
      <3>2. calls' = [calls EXCEPT ![g][l] = @ + 1]
        BY Zenon, <2>3 DEF SendRequest
      <3>3. \A h \in Gens, m \in Loops : h # g \/ m # l => calls'[h][m] = calls[h][m]
        BY <3>2
      <3> QED
        BY Zenon, <2>1, <3>1, <3>3 DEF PayloadInv
    <2>4. CASE LoopReturns(g, l) \/ CallReturns(g, l) \/ Record(g, l)
      <3>1. UNCHANGED calls /\ \E to \in {"gone", "top", "record"} : at' = [at EXCEPT ![g][l] = to]
        BY Zenon, <2>4 DEF LoopReturns, CallReturns, Record
      <3>2. at'[g][l] # "payload"
        BY Zenon, <2>1, <3>1, PointReplaced DEF Points
      <3> QED
        BY Zenon, <2>1, <3>1, <3>2 DEF PayloadInv
    <2> QED
      BY Zenon, <1>4, <2>2, <2>3, <2>4 DEF LoopAction
  <1>5. UNCHANGED <<at, calls>> \/ ClientReady \/ ProcessEnds \/ LoopStep
    BY Zenon DEF LoadView, lgVars, NewGenerator, GeneratorStep, ClientFails, Backoff, Warmup,
       StopCollecting, Cancel, RunReturns, Discard, loopVars
  <1> QED
    BY Zenon, <1>1, <1>2, <1>3, <1>4, <1>5 DEF LoopStep

LEMMA SampleNext ==
  LoadGenTypeOK /\ GenInv /\ SampleInv /\ LoadView => SampleInv'
  <1> SUFFICES ASSUME LoadGenTypeOK, GenInv, SampleInv, LoadView, ~interrupted' PROVE SampleInv'
    BY Zenon DEF SampleInv
  <1> USE BoundsAssumption
  <1>1. CASE UNCHANGED lgVars
    BY Zenon, <1>1 DEF lgVars, genVars, loopVars, SampleInv
  <1>2. CASE NewGenerator
    <2>1. samples' = <<>> /\ UNCHANGED <<at, pending>> /\ gen' = gen + 1 /\ gen \in Nat
      BY <1>2 DEF NewGenerator, loopVars, LoadGenTypeOK
    <2>2. gen' \in Gens => \A l \in Loops : at'[gen'][l] = "none"
      <3>1. gen' > gen
        BY <2>1
      <3> QED
        BY Zenon, <2>1, <3>1 DEF GenInv
    <2> QED
      BY <2>1, <2>2 DEF SampleInv
  <1>3. CASE GeneratorStep
    <2>1. UNCHANGED <<interrupted, samples, gen, pending>>
      BY Zenon, <1>3 DEF GeneratorStep, ClientReady, ClientFails, Backoff, Warmup, StopCollecting, Cancel,
         RunReturns, loopVars
    <2>2. UNCHANGED at \/ at' = [at EXCEPT ![gen] = [l \in Loops |-> "top"]]
      BY Zenon, <1>3 DEF GeneratorStep, ClientReady, ClientFails, Backoff, Warmup, StopCollecting, Cancel,
         RunReturns, loopVars
    <2>3. gen \in Gens => \A l \in Loops : at'[gen][l] = "record" => at[gen][l] = "record"
      BY Zenon, <2>2 DEF LoadGenTypeOK
    <2> QED
      BY Zenon, <2>1, <2>3 DEF SampleInv
  <1>4. CASE Discard
    BY <1>4 DEF Discard, loopVars, SampleInv
  <1>5. CASE ProcessEnds
    <2>1. samples' = <<>> /\ \A g \in Gens, l \in Loops : at'[g][l] = "none"
      BY Zenon, <1>5 DEF ProcessEnds
    <2> QED
      BY <2>1 DEF SampleInv
  <1>6. ASSUME NEW g \in 1..gen, NEW l \in Loops,
               LoopAction(g, l)
        PROVE  SampleInv'
    <2>1. /\ ~interrupted /\ g \in Gens /\ gen' = gen
          /\ \A h \in Gens, m \in Loops : h # g \/ m # l => at'[h][m] = at[h][m]
      BY Zenon, <1>6, LoopMoves DEF genVars
    <2>2. CASE LoopReturns(g, l) \/ NextPayload(g, l) \/ SendRequest(g, l)
      <3>1. UNCHANGED <<samples, pending>>
        BY Zenon, <2>2 DEF LoopReturns, NextPayload, SendRequest
      <3>2. at'[g][l] # "record"
        BY <2>1, <2>2 DEF LoopReturns, NextPayload, SendRequest, LoadGenTypeOK
      <3> QED
        BY Zenon, <2>1, <3>1, <3>2 DEF SampleInv
    <2>3. CASE CallReturns(g, l)
      <3>1. UNCHANGED samples
        BY Zenon, <2>3 DEF CallReturns
      <3>2. CASE g = gen /\ collecting
        <4>1. gen \notin cancelled
          BY Zenon, <3>2 DEF GenInv
        <4>2. PICK x \in Results(g) : pending' = [pending EXCEPT ![g][l] = x]
          BY Zenon, <2>3, <3>2 DEF CallReturns
        <4>3. x \in Samples /\ x.why # "ctx"
          BY Zenon, <2>1, <3>2, <4>1, SampleKinds DEF Results, CtxDone
        <4>4. /\ pending'[g][l] = x
              /\ \A h \in Gens, m \in Loops : h # g \/ m # l => pending'[h][m] = pending[h][m]
          BY Zenon, <2>1, <4>2, <4>3, EntryReplaced DEF LoadGenTypeOK
        <4> QED
          BY Zenon, <2>1, <3>1, <4>3, <4>4 DEF SampleInv
      <3>3. CASE ~(g = gen /\ collecting)
        <4>1. UNCHANGED pending /\ at' = [at EXCEPT ![g][l] = "top"]
          BY Zenon, <2>3, <3>3 DEF CallReturns
        <4>2. at'[g][l] # "record"
          BY Zenon, <2>1, <4>1 DEF LoadGenTypeOK
        <4> QED
          BY <2>1, <3>1, <4>1, <4>2 DEF SampleInv
      <3> QED
        BY Zenon, <3>2, <3>3
    <2>4. CASE Record(g, l)
      <3>1. /\ at[g][l] = "record" /\ at' = [at EXCEPT ![g][l] = "top"]
            /\ pending' = [pending EXCEPT ![g][l] = Bad("failed")]
            /\ samples' = samples \/ (g = gen /\ samples' = Append(samples, pending[g][l]))
        BY Zenon, <2>4 DEF Record
      <3>2. at'[g][l] # "record"
        BY Zenon, <2>1, <3>1 DEF LoadGenTypeOK
      <3>3. \A h \in Gens, m \in Loops : h # g \/ m # l => pending'[h][m] = pending[h][m]
        BY <2>1, <3>1, SampleKinds, EntryReplaced DEF LoadGenTypeOK
      <3>4. \A n \in DOMAIN samples' : samples'[n].why # "ctx"
        <4>1. CASE samples' = samples
          BY Zenon, <2>1, <4>1 DEF SampleInv
        <4>2. CASE g = gen /\ samples' = Append(samples, pending[g][l])
          <5>1. pending[g][l].why # "ctx"
            BY Zenon, <2>1, <3>1, <4>2 DEF SampleInv
          <5>2. samples \in Seq(Samples)
            BY Zenon DEF LoadGenTypeOK
          <5>3. \A n \in DOMAIN samples' :
                  (n \in DOMAIN samples /\ samples'[n] = samples[n]) \/ samples'[n] = pending[g][l]
            BY <4>2, <5>2
          <5> QED
            BY Zenon, <2>1, <5>1, <5>3 DEF SampleInv
        <4> QED
          BY Zenon, <3>1, <4>1, <4>2
      <3> QED
        BY ZenonT(40), <2>1, <3>2, <3>3, <3>4 DEF SampleInv
    <2> QED
      BY Zenon, <1>6, <2>2, <2>3, <2>4 DEF LoopAction
  <1> QED
    BY Zenon, <1>1, <1>2, <1>3, <1>4, <1>5, <1>6 DEF LoadView, LoopStep

LoadInv == LoadGenTypeOK /\ GenInv /\ PayloadInv /\ SampleInv

LEMMA LoadInit == LoadGenInit /\ bpc = "none" => LoadInv
  <1> SUFFICES ASSUME LoadGenInit, bpc = "none" PROVE LoadInv
    OBVIOUS
  <1> USE BoundsAssumption
  <1>1. /\ at \in [Gens -> [Loops -> Points]]
        /\ pending \in [Gens -> [Loops -> Samples]]
        /\ \A g \in Gens, l \in Loops : at[g][l] = "none"
    BY Zenon, SampleKinds DEF LoadGenInit, Points
  <1>2. \A g \in Gens : calls[g] \in [Loops -> 0..MaxCalls[g]]
    BY DEF LoadGenInit, Gens
  <1>3. samples \in Seq(Samples) /\ samples = <<>>
    BY DEF LoadGenInit
  <1>4. gen \in 0..MaxGens /\ gen = 0 /\ attempt \in 0..Attempts /\ \A g \in 1..(gen - 1) : FALSE
    BY AttemptsAssumption DEF LoadGenInit
  <1>5. LoadGenTypeOK
    BY Zenon, <1>1, <1>2, <1>3, <1>4 DEF LoadGenInit, LoadGenTypeOK
  <1>6. GenInv
    BY Zenon, <1>1, <1>4 DEF LoadGenInit, GenInv
  <1>7. SampleInv
    BY <1>1, <1>3 DEF SampleInv
  <1>8. PayloadInv
    BY Zenon, <1>1 DEF PayloadInv
  <1> QED
    BY Zenon, <1>5, <1>6, <1>7, <1>8 DEF LoadInv

LEMMA LoadNext == LoadInv /\ [Next]_vars => LoadInv'
  BY Zenon, LoadSteps, LoadGenTypes, GenNext, PayloadNext, SampleNext DEF LoadInv

\* No sample is an error of a call that Run itself cut off, for any number of
\* loops and generators.
THEOREM OwnCancelUnseen == Spec => []NoOwnCancelError
  <1>1. Init => LoadInv
    BY Zenon, LoadInit DEF Init, BenchInit
  <1>2. LoadInv => NoOwnCancelError
    BY Zenon DEF LoadInv, SampleInv, NoOwnCancelError
  <1> QED
    BY LoadNext, <1>1, <1>2, PTL DEF Spec

\* No loop of an earlier generator ever binds itself to another call.
THEOREM OldLoadStops == Spec => NoOldLoad
  <1> DEFINE Stopped == \A g \in 1..(gen - 1), l \in Loops : Committed(g, l)' <= Committed(g, l)
  <1>1. Init => LoadInv
    BY Zenon, LoadInit DEF Init, BenchInit
  <1>2. LoadInv /\ [Next]_vars => Stopped
    <2> SUFFICES ASSUME LoadInv, LoadView, NEW g \in 1..(gen - 1), NEW l \in Loops
                 PROVE  Committed(g, l)' <= Committed(g, l)
      BY Zenon, LoadSteps
    <2>0. LoadGenTypeOK
      BY Zenon DEF LoadInv
    <2>1. g \in Gens /\ g # gen /\ g \in 1..gen
      BY <2>0, BoundsAssumption DEF LoadGenTypeOK, Gens
    <2>2. \A h \in Gens : calls[h] \in [Loops -> Nat]
      <3>1. \A h \in Gens : calls[h] \in [Loops -> 0..MaxCalls[h]] /\ MaxCalls[h] \in Nat
        BY Zenon, <2>0, BoundsAssumption DEF LoadGenTypeOK, Gens
      <3>2. \A n \in Nat : 0..n \subseteq Nat
        OBVIOUS
      <3> QED
        BY Zenon, <3>1, <3>2
    <2>3. calls[g][l] \in Nat
      BY Zenon, <2>1, <2>2
    <2>4. CASE ProcessEnds
      <3>1. calls'[g][l] = 0 /\ at'[g][l] # "payload"
        BY Zenon, <2>1, <2>4 DEF ProcessEnds
      <3> QED
        BY <2>3, <3>1 DEF Committed
    <2>5. CASE calls'[g][l] = calls[g][l] /\ at'[g][l] \in {at[g][l], "gone", "top", "record"}
      BY <2>3, <2>5 DEF Committed
    <2>6. ASSUME NEW h \in 1..gen, NEW m \in Loops, LoopAction(h, m)
          PROVE  Committed(g, l)' <= Committed(g, l)
      <3>0. /\ h \in Gens /\ at[h][m] # "none"
            /\ \A c \in Gens, d \in Loops : c # h \/ d # m => at'[c][d] = at[c][d]
        BY Zenon, <2>0, <2>6, LoopMoves
      <3>1. h \in Gens /\ at[h][m] # "none" /\ (h # g \/ m # l => at'[g][l] = at[g][l])
        BY Zenon, <2>1, <3>0
      <3>2. CASE NextPayload(h, m)
        <4>1. h # g
          BY Zenon, <3>1, <3>2 DEF LoadInv, GenInv, NextPayload, CtxDone
        <4> QED
          BY Zenon, <2>5, <3>1, <3>2, <4>1 DEF NextPayload
      <3>3. CASE SendRequest(h, m)
        <4>1. calls' = [calls EXCEPT ![h][m] = @ + 1] /\ at[h][m] = "payload"
          BY Zenon, <3>3 DEF SendRequest
        <4>2. CASE h = g /\ m = l
          <5>1. at'[g][l] = "call"
            BY Zenon, <2>0, <3>1, <3>3, <4>2, PointReplaced DEF SendRequest, Points
          <5>2. calls'[g][l] \in {calls[g][l], calls[g][l] + 1}
            BY <4>1, <4>2
          <5> QED
            BY <2>3, <4>1, <4>2, <5>1, <5>2 DEF Committed
        <4>3. CASE h # g \/ m # l
          <5>1. calls'[g][l] = calls[g][l]
            BY <4>1, <4>3
          <5> QED
            BY Zenon, <2>5, <3>1, <4>3, <5>1
        <4> QED
          BY Zenon, <4>2, <4>3
      <3>4. CASE LoopReturns(h, m) \/ CallReturns(h, m) \/ Record(h, m)
        <4>1. UNCHANGED calls /\ \E to \in {"gone", "top", "record"} : at' = [at EXCEPT ![h][m] = to]
          BY Zenon, <3>4 DEF LoopReturns, CallReturns, Record
        <4>2. PICK to \in {"gone", "top", "record"} : at' = [at EXCEPT ![h][m] = to]
          BY Zenon, <4>1
        <4>3. to \in Points
          BY Zenon DEF Points
        <4>4. at'[h][m] = to
          BY Zenon, <2>0, <3>1, <4>2, <4>3, PointReplaced
        <4> QED
          BY Zenon, <2>5, <3>1, <4>1, <4>4
      <3> QED
        BY Zenon, <2>6, <3>2, <3>3, <3>4 DEF LoopAction
    <2>7. CASE ClientReady
      <3>1. UNCHANGED calls /\ at'[g] = at[g]
        BY Zenon, <2>1, <2>7 DEF ClientReady, LoadInv, LoadGenTypeOK
      <3> QED
        BY Zenon, <2>5, <3>1
    <2>8. CASE UNCHANGED <<at, calls>>
      BY Zenon, <2>5, <2>8
    <2>9. ProcessEnds \/ LoopStep \/ ClientReady \/ UNCHANGED <<at, calls>>
      BY Zenon DEF LoadView, lgVars, NewGenerator, GeneratorStep, ClientFails, Backoff, Warmup,
         StopCollecting, Cancel, RunReturns, Discard, loopVars
    <2> QED
      BY Zenon, <2>4, <2>6, <2>7, <2>8, <2>9 DEF LoopStep
  <1>3. LoadInv /\ [Next]_vars => [Stopped]_lgVars
    BY Zenon, <1>2
  <1> QED
    BY LoadNext, <1>1, <1>3, PTL DEF Spec, NoOldLoad

--------------------------------------------------------------------------------
(* What the steps of a session are to a process: where its main goroutine is *)
(* and which profile it is at.                                               *)

ProcView ==
    \/ UNCHANGED <<bpc, cmd, i>>
    \/ bpc = "none" /\ bpc' = "check" /\ cmd'.profiles \in Seq(Profiles) /\ i' = 1
    \/ bpc' = "none" /\ cmd' = NoCommand /\ i' = 0
    \/ bpc = "check" /\ bpc' = "clean" /\ i <= Len(cmd.profiles) /\ UNCHANGED <<cmd, i>>
    \/ bpc = "check" /\ bpc' = "final" /\ UNCHANGED <<cmd, i>>
    \/ bpc \in AtProfile /\ bpc' \in AtProfile /\ UNCHANGED <<cmd, i>>
    \/ bpc \in AtProfile /\ bpc' = "check" /\ i' = i + 1 /\ UNCHANGED cmd

\* runBenchmark has checked that all profiles are known.
LEMMA ProfilesKnown ==
  ASSUME NEW c, c \in UserCommands \/ \E n : c = Child(n), Range(c.profiles) \subseteq Profiles
  PROVE  c.profiles \in Seq(Profiles)
  <1>1. ASSUME NEW n, c = Child(n) PROVE c.profiles \in Seq(Profiles)
    <2>1. PICK p : c.profiles = <<p>>
      BY Zenon, <1>1 DEF Child
    <2>2. p \in Profiles
      BY <2>1 DEF Range
    <2> QED
      BY <2>1, <2>2
  <1>2. CASE c \in UserCommands
    <2> DEFINE ps == c.profiles
    <2>1. ps \in Seq(STRING)
      BY Zenon, <1>2, CommandsAssumption
    <2>2. \A n \in DOMAIN ps : ps[n] \in Profiles
      BY Zenon DEF Range
    <2> HIDE DEF ps
    <2>3. ps \in Seq(Profiles)
      BY <2>1, <2>2
    <2> QED
      BY Zenon, <2>3 DEF ps
  <1> QED
    BY Zenon, <1>1, <1>2

LEMMA ProcSteps == [Next]_vars => ProcView
  <1> SUFFICES ASSUME [Next]_vars PROVE ProcView
    OBVIOUS
  <1>1. CASE StartChild \/ UserRuns
    <2>1. PICK c : StartProcess(c) /\ (c \in UserCommands \/ \E n : c = Child(n))
      BY Zenon, <1>1 DEF StartChild, UserRuns
    <2>2. CASE Range(c.profiles) \subseteq Profiles
      <3>1. c.profiles \in Seq(Profiles)
        BY Zenon, <2>1, <2>2, ProfilesKnown
      <3> QED
        BY Zenon, <2>1, <2>2, <3>1 DEF StartProcess, ProcView
    <2>3. CASE ~(Range(c.profiles) \subseteq Profiles)
      BY Zenon, <2>1, <2>3 DEF StartProcess, ProcView
    <2> QED
      BY Zenon, <2>2, <2>3
  <1>2. CASE SecondSignal \/ Interrupted \/ FinalClean
    BY Zenon, <1>2 DEF SecondSignal, Interrupted, FinalClean, Exit, ProcView
  <1>3. CASE NextProfile
    BY Zenon, <1>3 DEF NextProfile, RestUnchanged, ProcView
  <1>4. CASE ApplyClean \/ ApplyAdd \/ ApplyCleanAgain \/ ApplyAddAgain
    <2>1. bpc \in AtProfile /\ bpc' \in AtProfile
      BY Zenon, <1>4 DEF ApplyClean, ApplyAdd, ApplyCleanAgain, ApplyAddAgain, NotApplied, AtProfile
    <2>2. UNCHANGED <<cmd, i>>
      BY Zenon, <1>4 DEF ApplyClean, ApplyAdd, ApplyCleanAgain, ApplyAddAgain, RestUnchanged
    <2> QED
      BY Zenon, <2>1, <2>2 DEF ProcView
  <1>5. CASE StartLoad \/ TakeReport \/ LoadFailed
    BY Zenon, <1>5 DEF StartLoad, TakeReport, LoadFailed, RestUnchanged, ProcView, AtProfile
  <1>6. CASE Save \/ Undo
    BY Zenon, <1>6 DEF Save, Undo, ProcView, AtProfile
  <1>7. CASE UNCHANGED <<bpc, cmd, i>>
    BY Zenon, <1>7 DEF ProcView
  <1>8. CASE UNCHANGED benchVars \/ UNCHANGED vars
    BY Zenon, <1>7, <1>8 DEF benchVars, vars
  <1>9. CASE DriverStep \/ UserStep \/ Ended \/ OtherAdds
    <2>1. CASE DriverStep
      BY <1>1, <1>7, <1>8, <2>1 DEF DriverStep, Build, StartServer, ChildEnds, GenerateReport,
         DeferredDel, KillServer, WaitReturns
    <2>2. CASE UserStep \/ Ended \/ OtherAdds
      BY Zenon, <1>1, <1>7, <1>8, <2>2 DEF UserStep, UserReturns, UserCleanup, Ended, OtherAdds
    <2> QED
      BY Zenon, <1>9, <2>1, <2>2
  <1>10. CASE SignalStep \/ LoadStep
    BY Zenon, <1>2, <1>7, <1>8, <1>10 DEF SignalStep, FirstSignal, SignalsOver, LoadStep
  <1>11. CASE MainStep
    BY Zenon, <1>2, <1>3, <1>4, <1>5, <1>6, <1>8, <1>11 DEF MainStep, Generate
  <1> QED
    BY Zenon, <1>8, <1>9, <1>10, <1>11 DEF Next, ServerEnds

LEMMA CmdNext == CmdInv /\ ProcView => CmdInv'
  <1> SUFFICES ASSUME CmdInv, ProcView PROVE CmdInv'
    OBVIOUS
  <1>1. CASE bpc = "none" /\ bpc' = "check" /\ cmd'.profiles \in Seq(Profiles) /\ i' = 1
    <2>1. Len(cmd'.profiles) \in Nat
      BY <1>1
    <2> QED
      BY <1>1, <2>1 DEF CmdInv, AtProfile
  <1>2. CASE bpc \in AtProfile /\ bpc' = "check" /\ i' = i + 1 /\ UNCHANGED cmd
    <2>1. bpc # "none" /\ bpc' \notin AtProfile
      BY Zenon, <1>2 DEF AtProfile
    <2>2. cmd.profiles \in Seq(Profiles) /\ i \in 1..(Len(cmd.profiles) + 1) /\ i <= Len(cmd.profiles)
      BY Zenon, <1>2, <2>1 DEF CmdInv
    <2>3. Len(cmd.profiles) \in Nat
      BY <2>2
    <2>4. i' \in 1..(Len(cmd'.profiles) + 1)
      BY <1>2, <2>2, <2>3
    <2> QED
      BY Zenon, <1>2, <2>1, <2>2, <2>4 DEF CmdInv
  <1>3. CASE \/ bpc' = "none"
             \/ UNCHANGED <<bpc, cmd, i>>
             \/ bpc = "check" /\ bpc' = "clean" /\ i <= Len(cmd.profiles) /\ UNCHANGED <<cmd, i>>
             \/ bpc = "check" /\ bpc' = "final" /\ UNCHANGED <<cmd, i>>
             \/ bpc \in AtProfile /\ bpc' \in AtProfile /\ UNCHANGED <<cmd, i>>
    BY Zenon, <1>3 DEF CmdInv, AtProfile
  <1> QED
    BY Zenon, <1>1, <1>2, <1>3 DEF ProcView

--------------------------------------------------------------------------------
(* The session                                                              *)

\* The driver has something to run.
LEMMA TotalPositive == Total \in Nat /\ Total > 0
  <1>1. ASSUME NEW list, IsList(list) PROVE Len(list) \in Nat /\ Len(list) > 0
    <2>1. PICK S : list \in Seq(S) /\ list # <<>>
      BY Zenon, <1>1 DEF IsList
    <2> QED
      BY <2>1
  <1>2. \A a, b \in Nat : a > 0 /\ b > 0 => a * b \in Nat /\ a * b > 0
    BY SMT
  <1> DEFINE a == Len(connectionCounts)
             b == a * Len(scenarios)
             c == b * Len(profiles)
  <1>3. a \in Nat /\ a > 0
    BY Zenon, <1>1, ListsAssumption
  <1>4. Len(scenarios) \in Nat /\ Len(scenarios) > 0
    BY Zenon, <1>1, ListsAssumption
  <1>5. Len(profiles) \in Nat /\ Len(profiles) > 0
    BY Zenon, <1>1, ListsAssumption
  <1>6. Len(payloadSizes) \in Nat /\ Len(payloadSizes) > 0
    BY Zenon, <1>1, ListsAssumption
  <1> HIDE DEF a
  <1>7. b \in Nat /\ b > 0
    BY Zenon, <1>2, <1>3, <1>4
  <1> HIDE DEF b
  <1>8. c \in Nat /\ c > 0
    BY Zenon, <1>2, <1>5, <1>7
  <1> HIDE DEF c
  <1>9. Total = c * Len(payloadSizes)
    BY Zenon DEF Total, a, b, c
  <1> QED
    BY Zenon, <1>2, <1>6, <1>8, <1>9

\* After the end of a process nothing happens in it.
LEMMA InsideSteps ==
  ASSUME MainStep \/ LoadStep \/ SignalStep \/ OtherAdds
  PROVE  /\ bpc = "none" => bpc' = "none"
         /\ bpc = "none" => UNCHANGED fileVars
  <1>1. CASE MainStep
    <2>1. bpc # "none"
      BY Zenon, <1>1 DEF MainStep, NextProfile, Interrupted, ApplyClean, ApplyAdd, ApplyCleanAgain,
         ApplyAddAgain, StartLoad, Generate, TakeReport, LoadFailed, Save, Undo, FinalClean
    <2> QED
      BY ZenonT(40), <2>1
  <1>2. CASE LoadStep
    BY Zenon, <1>2 DEF LoadStep, benchVars
  <1>3. CASE FirstSignal \/ SignalsOver
    BY Zenon, <1>3 DEF FirstSignal, SignalsOver
  <1>4. CASE SecondSignal
    BY Zenon, <1>4 DEF SecondSignal, Exit
  <1>5. CASE OtherAdds
    BY Zenon, <1>5 DEF OtherAdds
  <1> QED
    BY Zenon, <1>1, <1>2, <1>3, <1>4, <1>5 DEF SignalStep

LEMMA DriverNext == DriverInv /\ [Next]_vars => DriverInv'
  <1> SUFFICES ASSUME DriverInv, [Next]_vars PROVE DriverInv'
    OBVIOUS
  <1>0. Total \in Nat /\ Total > 0
    BY Zenon, TotalPositive
  <1>1. CASE Inside /\ (MainStep \/ LoadStep \/ SignalStep \/ OtherAdds)
    <2>1. UNCHANGED <<dpc, k, heatmap>> /\ (bpc = "none" => bpc' = "none")
      BY Zenon, <1>1, InsideSteps DEF Inside
    <2> QED
      BY Zenon, <2>1 DEF DriverInv
  <1>2. CASE Build \/ StartServer \/ ChildEnds
    <2>1. UNCHANGED <<bpc, k, heatmap>>
      BY Zenon, <1>2 DEF Build, StartServer, ChildEnds, benchVars
    <2>2. \/ dpc = "build" /\ dpc' \in {"server", "fatal"}
          \/ dpc = "server" /\ dpc' \in {"loop", "fatal"}
          \/ dpc = "child" /\ dpc' = "loop" /\ bpc = "none"
      BY Zenon, <1>2 DEF Build, StartServer, ChildEnds
    <2> QED
      BY <2>1, <2>2 DEF DriverInv
  <1>3. CASE StartChild
    <2>1. dpc = "loop" /\ dpc' = "child" /\ k < Total /\ k' = k + 1 /\ UNCHANGED heatmap
      BY Zenon, <1>3 DEF StartChild
    <2>2. k' \in 0..Total
      BY <1>0, <2>1 DEF DriverInv
    <2> QED
      BY Zenon, <2>1, <2>2 DEF DriverInv
  <1>4. CASE GenerateReport
    <2>1. /\ dpc = "loop" /\ k = Total /\ UNCHANGED <<bpc, k>>
          /\ dpc' = "del" \/ (dpc' = "fatal" /\ UNCHANGED heatmap)
      BY <1>4 DEF GenerateReport, benchVars
    <2> QED
      BY Zenon, <2>1 DEF DriverInv
  <1>5. CASE DeferredDel \/ KillServer \/ WaitReturns
    <2>1. UNCHANGED <<bpc, k, heatmap>>
      BY Zenon, <1>5 DEF DeferredDel, KillServer, WaitReturns, benchVars
    <2>2. dpc \in {"del", "kill", "wait"} /\ dpc' \in {"kill", "wait", "done"}
      BY Zenon, <1>5 DEF DeferredDel, KillServer, WaitReturns
    <2> QED
      BY Zenon, <2>1, <2>2 DEF DriverInv
  <1>6. CASE ServerEnds
    BY Zenon, <1>6 DEF ServerEnds, benchVars, DriverInv
  <1>7. CASE UserRuns
    <2>1. dpc = "shell" /\ dpc' = "user" /\ UNCHANGED <<k, heatmap>>
      BY Zenon, <1>7 DEF UserRuns
    <2> QED
      BY Zenon, <2>1 DEF DriverInv
  <1>8. CASE UserReturns \/ UserCleanup
    <2>1. /\ dpc \in {"user", "cleanup"} /\ dpc' \in {"cleanup", "done"}
          /\ UNCHANGED <<bpc, k, heatmap>>
      BY Zenon, <1>8 DEF UserReturns, UserCleanup, benchVars
    <2>2. bpc = "none"
      BY Zenon, <1>8 DEF UserReturns, UserCleanup, DriverInv
    <2> QED
      BY Zenon, <2>1, <2>2 DEF DriverInv
  <1>9. CASE UNCHANGED vars
    BY Zenon, <1>9 DEF vars, benchVars, DriverInv
  <1> QED
    BY Zenon, <1>1, <1>2, <1>3, <1>4, <1>5, <1>6, <1>7, <1>8, <1>9 DEF Next, DriverStep, UserStep, Ended

LEMMA EmulationNext ==
  CmdInv /\ DriverInv /\ EmulationIsProfile /\ [Next]_vars => EmulationIsProfile'
  <1> SUFFICES ASSUME CmdInv, DriverInv, EmulationIsProfile, [Next]_vars,
                      bpc' \in {"load", "measure"}, applied'
               PROVE  qdisc' = Profile'
    BY Zenon DEF EmulationIsProfile
  <1>1. CASE UNCHANGED <<cmd, i, qdisc, applied>> /\ bpc \in {"load", "measure"}
    BY Zenon, <1>1 DEF EmulationIsProfile, Profile
  <1>2. CASE ApplyClean \/ ApplyAdd \/ ApplyCleanAgain \/ ApplyAddAgain
    <2>1. UNCHANGED <<cmd, i>>
      BY Zenon, <1>2 DEF ApplyClean, ApplyAdd, ApplyCleanAgain, ApplyAddAgain, RestUnchanged
    <2>2. qdisc' = Profile
      BY Zenon, <1>2 DEF ApplyClean, ApplyAdd, ApplyCleanAgain, ApplyAddAgain, NotApplied, TcAdd
    <2> QED
      BY Zenon, <2>1, <2>2 DEF Profile
  <1>3. CASE StartLoad \/ Generate \/ LoadStep \/ FirstSignal \/ SignalsOver
    <2>1. UNCHANGED <<cmd, i, qdisc, applied>> /\ bpc \in {"load", "measure"}
      BY Zenon, <1>3 DEF StartLoad, Generate, LoadStep, FirstSignal, SignalsOver, benchVars
    <2> QED
      BY Zenon, <1>1, <2>1
  <1>4. CASE \/ NextProfile \/ Interrupted \/ TakeReport \/ LoadFailed \/ Save \/ Undo \/ FinalClean
             \/ SecondSignal
    BY Zenon, <1>4 DEF NextProfile, Interrupted, TakeReport, LoadFailed, Save, Undo, FinalClean, SecondSignal, Exit
  <1>5. CASE OtherAdds
    <2>1. UNCHANGED <<bpc, cmd, i, applied>> /\ qdisc = NoQdisc
      BY Zenon, <1>5 DEF OtherAdds
    <2>2. bpc \in AtProfile /\ bpc # "none"
      BY Zenon, <2>1 DEF AtProfile
    <2>3. cmd.profiles \in Seq(Profiles) /\ i \in 1..Len(cmd.profiles)
      BY <2>2 DEF CmdInv
    <2>4. Profile \in Profiles
      BY <2>3 DEF Profile
    <2>5. qdisc = Profile
      BY Zenon, <2>1 DEF EmulationIsProfile
    <2> QED
      BY Zenon, <2>1, <2>4, <2>5, ProfilesAssumption
  <1>6. CASE DeferredDel \/ UserCleanup
    <2>1. bpc = "none" /\ UNCHANGED bpc
      BY Zenon, <1>6 DEF DeferredDel, UserCleanup, DriverInv
    <2> QED
      BY Zenon, <2>1
  <1>7. CASE StartChild \/ UserRuns
    BY Zenon, <1>7 DEF StartChild, UserRuns, StartProcess
  <1>8. CASE UNCHANGED benchVars \/ UNCHANGED vars
    BY Zenon, <1>1, <1>8 DEF benchVars, vars
  <1>9. CASE DriverStep \/ UserStep \/ Ended
    BY <1>6, <1>7, <1>8, <1>9 DEF DriverStep, UserStep, Build, StartServer, ChildEnds, GenerateReport,
       KillServer, WaitReturns, UserReturns, Ended
  <1>10. CASE MainStep
    BY Zenon, <1>2, <1>3, <1>4, <1>10 DEF MainStep
  <1> QED
    BY Zenon, <1>3, <1>4, <1>5, <1>8, <1>9, <1>10 DEF Next, SignalStep, ServerEnds

--------------------------------------------------------------------------------
(* The types                                                                *)

Places == {"none", "check", "clean", "add", "clean again", "add again", "load",
           "measure", "save", "undo", "final"}
Qdiscs == Profiles \cup {NoQdisc, OtherQdisc}
DriverPlaces == {"build", "server", "loop", "child", "del", "kill", "wait", "shell",
                 "user", "cleanup", "done", "fatal"}

\* What TypeOK says of the process and the driver, beyond the invariants above,
\* and that no process has no arguments.
SettingTypes ==
    /\ bpc \in Places
    /\ cmd \in {NoCommand} \cup Commands
    /\ bpc = "none" => cmd = NoCommand /\ i = 0
    /\ sig \in {"waiting", "armed", "over"}
    /\ qdisc \in Qdiscs
    /\ applied \in BOOLEAN
    /\ others \in 0..MaxOthers
    /\ dpc \in DriverPlaces
    /\ server \in BOOLEAN

\* A command comes from the driver's loops or from the user.
LEMMA CmdSteps == DriverInv /\ [Next]_vars => cmd' = cmd \/ cmd' = NoCommand \/ cmd' \in Commands
  <1> SUFFICES ASSUME DriverInv, [Next]_vars, cmd' # cmd, cmd' # NoCommand PROVE cmd' \in Commands
    OBVIOUS
  <1>1. CASE StartChild
    <2>1. k \in 0..(Total - 1)
      BY <1>1, TotalPositive DEF StartChild, DriverInv
    <2>2. cmd' = Child(k)
      BY Zenon, <1>1 DEF StartChild, StartProcess
    <2> QED
      BY Zenon, <2>1, <2>2 DEF Commands
  <1>2. CASE UserRuns
    BY Zenon, <1>2 DEF UserRuns, StartProcess, Commands
  <1>3. ~UNCHANGED benchVars /\ ~UNCHANGED vars
    BY Zenon, Parts
  <1>4. ~SignalStep /\ ~LoadStep /\ ~OtherAdds
    BY Zenon, <1>3 DEF SignalStep, FirstSignal, SecondSignal, SignalsOver, Exit, LoadStep, OtherAdds
  <1>5. ~MainStep
    BY Zenon, <1>3 DEF MainStep, NextProfile, Interrupted, ApplyClean, ApplyAdd, ApplyCleanAgain,
       ApplyAddAgain, StartLoad, Generate, TakeReport, LoadFailed, Save, Undo, FinalClean, Exit, RestUnchanged
  <1>6. CASE DriverStep \/ UserStep \/ ServerEnds \/ Ended
    <2>1. CASE DriverStep
      BY <1>1, <1>3, <2>1 DEF DriverStep, Build, StartServer, ChildEnds, GenerateReport,
         DeferredDel, KillServer, WaitReturns
    <2>2. CASE UserStep \/ ServerEnds \/ Ended
      BY Zenon, <1>1, <1>2, <1>3, <2>2 DEF UserStep, UserReturns, UserCleanup, ServerEnds, Ended
    <2> QED
      BY Zenon, <1>6, <2>1, <2>2
  <1> QED
    BY Zenon, <1>3, <1>4, <1>5, <1>6 DEF Next

\* What the interface has is the profile's qdisc, another program's or none.
LEMMA QdiscSteps ==
  [Next]_vars => qdisc' = qdisc \/ qdisc' \in {NoQdisc, OtherQdisc} \/ (bpc \in AtProfile /\ qdisc' = Profile)
  <1> SUFFICES ASSUME [Next]_vars, qdisc' # qdisc, qdisc' \notin {NoQdisc, OtherQdisc}
               PROVE  bpc \in AtProfile /\ qdisc' = Profile
    OBVIOUS
  <1>1. ~UNCHANGED benchVars /\ ~UNCHANGED vars
    BY Zenon, Parts
  <1>2. ~SignalStep /\ ~LoadStep /\ ~OtherAdds
    BY ZenonT(40), <1>1 DEF SignalStep, FirstSignal, SecondSignal, SignalsOver, LoadStep, OtherAdds
  <1>3. ~DriverStep /\ ~UserStep /\ ~ServerEnds /\ ~Ended
    <2>1. ~DriverStep
      BY <1>1 DEF DriverStep, Build, StartServer, StartChild, StartProcess, ChildEnds,
         GenerateReport, DeferredDel, KillServer, WaitReturns, TcDel, TcFails
    <2>2. ~UserStep /\ ~ServerEnds /\ ~Ended
      BY Zenon, <1>1 DEF UserStep, StartProcess, UserRuns, UserReturns, UserCleanup, ServerEnds, Ended, TcDel, TcFails
    <2> QED
      BY Zenon, <2>1, <2>2
  <1>4. CASE ApplyAdd \/ ApplyAddAgain
    BY ZenonT(40), <1>1, <1>4 DEF ApplyAdd, ApplyAddAgain, TcAdd, NotApplied, TcFails, AtProfile
  <1>5. CASE MainStep
    BY Zenon, <1>1, <1>4, <1>5 DEF MainStep, NextProfile, Interrupted, ApplyClean, ApplyCleanAgain, NotApplied,
       StartLoad, Generate, TakeReport, LoadFailed, Save, Undo, FinalClean, TcDel, TcFails
  <1> QED
    BY Zenon, <1>1, <1>2, <1>3, <1>5 DEF Next

\* The flags and the signal handler.
LEMMA FlagSteps ==
  [Next]_vars => /\ sig' \in {sig, "waiting", "armed", "over"}
                 /\ applied' = applied \/ applied' \in BOOLEAN
  <1> DEFINE Flags == /\ sig' \in {sig, "waiting", "armed", "over"}
                      /\ applied' = applied \/ applied' \in BOOLEAN
  <1> SUFFICES ASSUME [Next]_vars PROVE Flags
    OBVIOUS
  <1>1. CASE UNCHANGED benchVars \/ UNCHANGED vars
    BY Zenon, <1>1, Parts
  <1>2. CASE SignalStep
    BY Zenon, <1>2 DEF SignalStep, FirstSignal, SecondSignal, SignalsOver, Exit
  <1>3. CASE LoadStep \/ OtherAdds
    BY Zenon, <1>1, <1>3 DEF LoadStep, OtherAdds
  <1>4. CASE StartChild \/ UserRuns
    BY Zenon, <1>4 DEF StartChild, UserRuns, StartProcess
  <1>5. CASE DeferredDel \/ UserCleanup
    BY Zenon, <1>5 DEF DeferredDel, UserCleanup
  <1>6. CASE DriverStep \/ UserStep \/ ServerEnds \/ Ended
    <2>1. StartChild \/ UserRuns \/ DeferredDel \/ UserCleanup \/ UNCHANGED benchVars \/ UNCHANGED vars
      BY <1>6 DEF DriverStep, UserStep, ServerEnds, Build, StartServer, ChildEnds, GenerateReport, KillServer, WaitReturns,
         UserReturns, Ended
    <2> QED
      BY Zenon, <1>1, <1>4, <1>5, <2>1
  <1>7. CASE ApplyClean \/ ApplyAdd \/ ApplyCleanAgain \/ ApplyAddAgain
    <2>1. UNCHANGED sig
      BY Zenon, <1>7 DEF ApplyClean, ApplyAdd, ApplyCleanAgain, ApplyAddAgain, RestUnchanged
    <2>2. applied' = applied \/ applied' \in BOOLEAN
      BY Zenon, <1>7 DEF ApplyClean, ApplyAdd, ApplyCleanAgain, ApplyAddAgain, NotApplied
    <2> QED
      BY Zenon, <2>1, <2>2
  <1>8. CASE NextProfile \/ LoadFailed \/ StartLoad \/ TakeReport \/ Save
    BY Zenon, <1>8 DEF NextProfile, LoadFailed, StartLoad, TakeReport, Save, RestUnchanged
  <1>9. CASE Interrupted \/ Undo \/ FinalClean
    BY Zenon, <1>9 DEF Interrupted, Undo, FinalClean, Exit
  <1>10. CASE MainStep
    BY Zenon, <1>1, <1>7, <1>8, <1>9, <1>10 DEF MainStep, Generate
  <1> QED
    BY Zenon, <1>1, <1>2, <1>3, <1>6, <1>10 DEF Next

\* The other programs.
LEMMA OtherSteps == [Next]_vars => UNCHANGED others \/ OtherAdds
  <1> SUFFICES ASSUME [Next]_vars, ~UNCHANGED others PROVE OtherAdds
    OBVIOUS
  <1>1. ~UNCHANGED benchVars /\ ~UNCHANGED vars
    BY Zenon, Parts
  <1>2. ~SignalStep /\ ~LoadStep
    BY ZenonT(40), <1>1 DEF SignalStep, FirstSignal, SecondSignal, SignalsOver, LoadStep
  <1>3. ~DriverStep /\ ~UserStep /\ ~ServerEnds /\ ~Ended
    <2>1. ~DriverStep
      BY <1>1 DEF DriverStep, Build, StartServer, StartChild, StartProcess, ChildEnds,
         GenerateReport, DeferredDel, KillServer, WaitReturns
    <2>2. ~UserStep /\ ~ServerEnds /\ ~Ended
      BY Zenon, <1>1 DEF UserStep, StartProcess, UserRuns, UserReturns, UserCleanup, ServerEnds, Ended
    <2> QED
      BY Zenon, <2>1, <2>2
  <1>4. ~MainStep
    BY Zenon, <1>1 DEF MainStep, NextProfile, Interrupted, ApplyClean, ApplyAdd, ApplyCleanAgain, ApplyAddAgain,
       StartLoad, Generate, TakeReport, LoadFailed, Save, Undo, FinalClean, RestUnchanged
  <1> QED
    BY Zenon, <1>1, <1>2, <1>3, <1>4 DEF Next

\* The driver's own variables.
LEMMA PlaceSteps ==
  [Next]_vars => (dpc' = dpc \/ dpc' \in DriverPlaces) /\ (server' = server \/ server' \in BOOLEAN)
  <1> SUFFICES ASSUME [Next]_vars
               PROVE  (dpc' = dpc \/ dpc' \in DriverPlaces) /\ (server' = server \/ server' \in BOOLEAN)
    OBVIOUS
  <1>1. CASE Inside \/ UNCHANGED vars
    BY Zenon, <1>1, Parts DEF Inside
  <1>2. CASE DriverStep
    <2>1. dpc' \in DriverPlaces
      BY <1>2 DEF DriverStep, Build, StartServer, StartChild, ChildEnds, GenerateReport, DeferredDel,
         KillServer, WaitReturns, DriverPlaces
    <2>2. server' = server \/ server' \in BOOLEAN
      <3>1. CASE GenerateReport
        BY Zenon, <3>1 DEF GenerateReport
      <3> QED
        BY Zenon, <1>2, <3>1 DEF DriverStep, Build, StartServer, StartChild, ChildEnds, DeferredDel, KillServer, WaitReturns
    <2> QED
      BY Zenon, <2>1, <2>2
  <1>3. CASE UserStep \/ ServerEnds
    BY Zenon, <1>3 DEF UserStep, UserRuns, UserReturns, UserCleanup, ServerEnds, DriverPlaces
  <1> QED
    BY Zenon, <1>1, <1>2, <1>3 DEF Next, Ended

LEMMA SettingNext == CmdInv /\ DriverInv /\ SettingTypes /\ [Next]_vars => SettingTypes'
  <1> SUFFICES ASSUME CmdInv, DriverInv, SettingTypes, [Next]_vars PROVE SettingTypes'
    OBVIOUS
  <1>1. bpc' \in Places /\ (bpc' = "none" => cmd' = NoCommand /\ i' = 0)
    BY Zenon, ProcSteps DEF ProcView, SettingTypes, Places, AtProfile
  <1>2. cmd' \in {NoCommand} \cup Commands
    BY Zenon, CmdSteps DEF SettingTypes
  <1>3. qdisc' \in Qdiscs
    <2>1. CASE bpc \in AtProfile /\ qdisc' = Profile
      <3>1. bpc # "none"
        BY Zenon, <2>1 DEF AtProfile
      <3>2. cmd.profiles \in Seq(Profiles) /\ i \in 1..Len(cmd.profiles)
        BY <2>1, <3>1 DEF CmdInv
      <3>3. Profile \in Profiles
        BY <3>2 DEF Profile
      <3> QED
        BY Zenon, <2>1, <3>3 DEF Qdiscs
    <2> QED
      BY Zenon, <2>1, QdiscSteps DEF SettingTypes, Qdiscs
  <1>4. /\ sig' \in {"waiting", "armed", "over"}
        /\ applied' \in BOOLEAN
    BY Zenon, FlagSteps DEF SettingTypes
  <1>5. others' \in 0..MaxOthers
    <2>1. others \in 0..MaxOthers /\ (others' = others \/ (others < MaxOthers /\ others' = others + 1))
      BY Zenon, OtherSteps DEF SettingTypes, OtherAdds
    <2> QED
      BY <2>1, OthersAssumption
  <1>6. dpc' \in DriverPlaces /\ server' \in BOOLEAN
    BY Zenon, PlaceSteps DEF SettingTypes
  <1> QED
    BY Zenon, <1>1, <1>2, <1>3, <1>4, <1>5, <1>6 DEF SettingTypes

--------------------------------------------------------------------------------
(* The results directory and the heatmap                                    *)

\* What a report says of connections and payload is what its command says, or,
\* of a report without samples, nothing.
ReportInv ==
    bpc = "save" => \E r \in {[conns |-> cmd.conns, payload |-> cmd.payload], [conns |-> 0, payload |-> 0]} :
                       report.conns = r.conns /\ report.payload = r.payload

\* The order of ReadDir is about all files, and a result that was saved is there.
FileInv ==
    /\ \A f \in files : f.name \in Range(ReadDirOrder)
    /\ \A n \in reported : [name |-> n, fresh |-> TRUE] \in files

\* One file per name.
NamesUnique == \A f, h \in files : f.name = h.name => f = h

\* A report is there to be saved only after Collector.Report.
LEMMA ReportSteps == [Next]_vars /\ bpc' = "save" => TakeReport \/ UNCHANGED <<bpc, cmd, report>>
  <1> SUFFICES ASSUME [Next]_vars, bpc' = "save", ~TakeReport PROVE UNCHANGED <<bpc, cmd, report>>
    OBVIOUS
  <1>1. CASE UNCHANGED benchVars \/ UNCHANGED vars
    BY Zenon, <1>1, Parts
  <1>2. ~SecondSignal /\ ~StartChild /\ ~UserRuns
    <2>1. ~SecondSignal
      BY Zenon DEF SecondSignal, Exit
    <2>2. ASSUME NEW c, StartProcess(c) PROVE FALSE
      BY Zenon, <2>2 DEF StartProcess
    <2> QED
      BY Zenon, <2>1, <2>2 DEF StartChild, UserRuns
  <1>3. CASE DeferredDel \/ UserCleanup \/ OtherAdds \/ FirstSignal \/ SignalsOver
    BY Zenon, <1>3 DEF DeferredDel, UserCleanup, OtherAdds, FirstSignal, SignalsOver
  <1>4. CASE DriverStep \/ UserStep \/ ServerEnds \/ Ended
    <2>1. UNCHANGED benchVars \/ UNCHANGED vars \/ DeferredDel \/ UserCleanup
      BY <1>2, <1>4 DEF DriverStep, UserStep, ServerEnds, Build, StartServer, ChildEnds, GenerateReport,
         KillServer, WaitReturns, UserReturns, Ended
    <2> QED
      BY Zenon, <1>1, <1>3, <2>1
  <1>5. ~(\/ NextProfile \/ Interrupted \/ ApplyClean \/ ApplyAdd \/ ApplyCleanAgain \/ ApplyAddAgain
          \/ StartLoad \/ LoadFailed \/ Save \/ Undo \/ FinalClean)
    BY Zenon DEF NextProfile, Interrupted, ApplyClean, ApplyAdd, ApplyCleanAgain, ApplyAddAgain, NotApplied,
       StartLoad, LoadFailed, Save, Undo, FinalClean, Exit
  <1>6. CASE MainStep
    BY Zenon, <1>1, <1>5, <1>6 DEF MainStep, Generate
  <1> QED
    BY Zenon, <1>1, <1>2, <1>3, <1>4, <1>6 DEF Next, SignalStep, LoadStep

LEMMA ReportNext == ReportInv /\ [Next]_vars => ReportInv'
  <1> SUFFICES ASSUME ReportInv, [Next]_vars, bpc' = "save" PROVE ReportInv'
    BY Zenon DEF ReportInv
  <1>1. CASE TakeReport
    <2>1. report' = Report(samples, cmd.conns, cmd.payload) /\ UNCHANGED cmd
      BY Zenon, <1>1 DEF TakeReport
    <2>2. \/ report'.conns = cmd.conns /\ report'.payload = cmd.payload
          \/ report'.conns = 0 /\ report'.payload = 0
      BY Zenon, <2>1 DEF Report
    <2> DEFINE x == [conns |-> cmd.conns, payload |-> cmd.payload]
               y == [conns |-> 0, payload |-> 0]
    <2>3. x.conns = cmd.conns /\ x.payload = cmd.payload /\ y.conns = 0 /\ y.payload = 0
      OBVIOUS
    <2> HIDE DEF x, y
    <2>4. \E r \in {x, y} : report'.conns = r.conns /\ report'.payload = r.payload
      BY Zenon, <2>2, <2>3
    <2> QED
      BY Zenon, <2>1, <2>4 DEF ReportInv, x, y
  <1>2. CASE UNCHANGED <<bpc, cmd, report>>
    BY Zenon, <1>2 DEF ReportInv
  <1> QED
    BY Zenon, <1>1, <1>2, ReportSteps

\* The file a report is saved in is one that the order is about.
LEMMA NameListed ==
  ASSUME CmdInv, SettingTypes, ReportInv, bpc = "save" PROVE NameOf(report) \in Range(ReadDirOrder)
  <1>1. cmd.profiles \in Seq(Profiles) /\ i \in 1..Len(cmd.profiles)
    BY DEF CmdInv, AtProfile
  <1>2. Profile \in Profiles \cap Range(cmd.profiles)
    BY <1>1 DEF Profile, Range
  <1>3. cmd \in Commands
    <2>1. NoCommand.profiles = <<>>
      BY Zenon DEF NoCommand
    <2>2. cmd.profiles # <<>>
      BY <1>1
    <2>3. cmd # NoCommand
      BY Zenon, <2>1, <2>2
    <2> QED
      BY Zenon, <2>3 DEF SettingTypes
  <1>4. PICK r \in {[conns |-> cmd.conns, payload |-> cmd.payload], [conns |-> 0, payload |-> 0]} :
             report.conns = r.conns /\ report.payload = r.payload
    BY Zenon DEF ReportInv
  <1>5. NameOf(report) = FileName(cmd, Profile, r)
    BY Zenon, <1>4 DEF NameOf, FileName
  <1>6. FileName(cmd, Profile, r) \in Names(cmd)
    BY <1>2, <1>4 DEF Names
  <1>7. NameOf(report) \in UNION {Names(c) : c \in Commands}
    BY Zenon, <1>3, <1>5, <1>6
  <1> QED
    BY Zenon, <1>7, OrderAssumption

\* What a step does to the results directory: nothing, a file is lost, or a report
\* is saved.
FileView ==
    \/ UNCHANGED fileVars
    \/ \E n : files' = {f \in files : f.name # n} /\ reported' = reported \ {n}
    \/ \E n \in Range(ReadDirOrder) :
          /\ files' = {f \in files : f.name # n} \cup {[name |-> n, fresh |-> TRUE]}
          /\ reported' \subseteq reported \cup {n}

LEMMA FileSteps == CmdInv /\ SettingTypes /\ ReportInv /\ [Next]_vars => FileView
  <1> SUFFICES ASSUME CmdInv, SettingTypes, ReportInv, [Next]_vars PROVE FileView
    OBVIOUS
  <1>1. CASE Save
    <2>1. NameOf(report) \in Range(ReadDirOrder)
      BY Zenon, <1>1, NameListed DEF Save
    <2>2. \/ /\ files' = Written(report)
             /\ reported' \subseteq reported \cup {NameOf(report)}
          \/ files' = Truncated(report) /\ reported' = reported \ {NameOf(report)}
          \/ UNCHANGED fileVars
      BY Zenon, <1>1 DEF Save
    <2> QED
      BY Zenon, <2>1, <2>2 DEF Written, Truncated, FileView
  <1>2. CASE SecondSignal
    BY Zenon, <1>2 DEF SecondSignal, Truncated, FileView
  <1>3. CASE UNCHANGED fileVars
    BY Zenon, <1>3 DEF FileView
  <1>4. CASE UNCHANGED benchVars \/ UNCHANGED vars
    BY ZenonT(40), <1>3, <1>4, Parts
  <1>5. CASE DriverStep \/ UserStep \/ ServerEnds \/ Ended
    <2>1. CASE DriverStep
      BY <1>3, <1>4, <2>1 DEF DriverStep, Build, StartServer, StartChild, StartProcess, ChildEnds,
         GenerateReport, DeferredDel, KillServer, WaitReturns
    <2>2. CASE UserStep \/ ServerEnds \/ Ended
      BY Zenon, <1>3, <1>4, <2>2 DEF UserStep, StartProcess, UserRuns, UserReturns, UserCleanup, ServerEnds, Ended
    <2> QED
      BY Zenon, <1>5, <2>1, <2>2
  <1>6. CASE LoadStep \/ FirstSignal \/ SignalsOver \/ OtherAdds
    <2>1. UNCHANGED fileVars \/ UNCHANGED benchVars
      BY Zenon, <1>6 DEF LoadStep, FirstSignal, SignalsOver, OtherAdds
    <2> QED
      BY Zenon, <1>3, <1>4, <2>1
  <1>7. CASE MainStep
    BY Zenon, <1>1, <1>3, <1>4, <1>7 DEF MainStep, NextProfile, Interrupted, ApplyClean, ApplyAdd,
       ApplyCleanAgain, ApplyAddAgain, StartLoad, Generate, TakeReport, LoadFailed, Undo, FinalClean,
       RestUnchanged
  <1> QED
    BY Zenon, <1>2, <1>4, <1>5, <1>6, <1>7 DEF Next, SignalStep

LEMMA FileNext == FileInv /\ NamesUnique /\ FileView => FileInv' /\ NamesUnique'
  <1> SUFFICES ASSUME FileInv, NamesUnique, FileView PROVE FileInv' /\ NamesUnique'
    OBVIOUS
  <1>1. CASE UNCHANGED fileVars
    BY Zenon, <1>1 DEF fileVars, FileInv, NamesUnique
  <1>2. ASSUME NEW n, files' = {f \in files : f.name # n}, reported' = reported \ {n}
        PROVE  FileInv' /\ NamesUnique'
    <2>1. \A m \in reported' : [name |-> m, fresh |-> TRUE] \in files'
      <3> SUFFICES ASSUME NEW m \in reported' PROVE [name |-> m, fresh |-> TRUE] \in files'
        BY Zenon
      <3>1. m # n /\ [name |-> m, fresh |-> TRUE] \in files
        BY Zenon, <1>2 DEF FileInv
      <3>2. [name |-> m, fresh |-> TRUE].name = m
        OBVIOUS
      <3> QED
        BY Zenon, <1>2, <3>1, <3>2
    <2> QED
      BY Zenon, <1>2, <2>1 DEF FileInv, NamesUnique
  <1>3. ASSUME NEW n \in Range(ReadDirOrder),
               files' = {f \in files : f.name # n} \cup {[name |-> n, fresh |-> TRUE]},
               reported' \subseteq reported \cup {n}
        PROVE  FileInv' /\ NamesUnique'
    <2> DEFINE r == [name |-> n, fresh |-> TRUE]
    <2>1. r.name = n /\ r.fresh
      OBVIOUS
    <2>2. \A m \in reported' : [name |-> m, fresh |-> TRUE] \in files'
      <3> SUFFICES ASSUME NEW m \in reported', m # n PROVE [name |-> m, fresh |-> TRUE] \in files'
        BY Zenon, <1>3
      <3>1. [name |-> m, fresh |-> TRUE] \in files
        BY Zenon, <1>3 DEF FileInv
      <3>2. [name |-> m, fresh |-> TRUE].name = m
        OBVIOUS
      <3> QED
        BY Zenon, <1>3, <3>1, <3>2
    <2> HIDE DEF r
    <2>3. \A f \in files' : f = r \/ (f \in files /\ f.name # n)
      BY Zenon, <1>3 DEF r
    <2>4. FileInv'
      BY Zenon, <1>3, <2>1, <2>2, <2>3 DEF FileInv
    <2>5. NamesUnique'
      BY Zenon, <2>1, <2>3 DEF NamesUnique
    <2> QED
      BY Zenon, <2>4, <2>5
  <1> QED
    BY Zenon, <1>1, <1>2, <1>3 DEF FileView

--------------------------------------------------------------------------------
(* The heatmap                                                              *)

LEMMA LeastNumber ==
  ASSUME NEW S \in SUBSET Nat, S # {} PROVE \E x \in S : \A y \in S : x <= y
  <1>1. PICK x \in S : \A y \in S : ~(<<y, x>> \in OpToRel(<, Nat))
    BY Zenon, WFMin, NatLessThanWellFounded
  <1>2. \A y \in S : ~(y < x)
    BY Zenon, <1>1 DEF OpToRel
  <1> QED
    BY <1>2

\* ReadDir lists no name twice.
LEMMA ListedOnce == \A m, n : ~(Before(m, n) /\ Before(n, m))
  <1>1. \A a, b \in DOMAIN ReadDirOrder : ReadDirOrder[a] = ReadDirOrder[b] => a = b
    BY Zenon, OrderAssumption
  <1>2. \A a, b \in DOMAIN ReadDirOrder : ~(a < b /\ b < a)
    BY OrderAssumption
  <1> QED
    BY Zenon, <1>1, <1>2 DEF Before

\* Of some files that it lists, ReadDir lists one last.
LEMMA LastListed ==
  ASSUME FileInv, NamesUnique, NEW S \in SUBSET files, S # {}
  PROVE  \E f \in S : \A h \in S : h = f \/ Before(h.name, f.name)
  <1> DEFINE L == Len(ReadDirOrder)
             At == {L - a : a \in {a \in 1..L : \E f \in S : f.name = ReadDirOrder[a]}}
  <1>1. L \in Nat /\ DOMAIN ReadDirOrder = 1..L
    BY OrderAssumption
  <1>2. \A f \in S : \E a \in 1..L : f.name = ReadDirOrder[a]
    BY Zenon, <1>1 DEF FileInv, Range
  <1> HIDE DEF L
  <1>3. At \in SUBSET Nat
    BY <1>1
  <1>4. At # {}
    BY Zenon, <1>2
  <1> HIDE DEF At
  <1>5. PICK x \in At : \A y \in At : x <= y
    BY Zenon, <1>3, <1>4, LeastNumber
  <1>6. PICK a \in 1..L, f \in S : x = L - a /\ f.name = ReadDirOrder[a]
    BY Zenon, <1>5 DEF At
  <1>7. ASSUME NEW h \in S PROVE h = f \/ Before(h.name, f.name)
    <2>1. PICK b \in 1..L : h.name = ReadDirOrder[b]
      BY Zenon, <1>2
    <2>2. L - b \in At
      BY Zenon, <2>1 DEF At
    <2>3. b <= a
      <3>1. L - a <= L - b
        BY Zenon, <1>5, <1>6, <2>2
      <3> QED
        BY <1>1, <3>1
    <2>4. CASE a = b
      BY Zenon, <1>6, <2>1, <2>4 DEF NamesUnique
    <2>5. CASE b < a
      BY Zenon, <1>1, <1>6, <2>1, <2>5 DEF Before
    <2> QED
      BY <2>3, <2>4, <2>5
  <1> QED
    BY Zenon, <1>7

\* What generateReport draws: at most one file in a cell, and one in the cell of
\* every result that was saved.
LEMMA ShownExplained ==
  ASSUME FileInv, NamesUnique
  PROVE  /\ \A f, h \in Shown : SameCell(f.name, h.name) => f = h
         /\ \A n \in reported : HasCell(n) =>
               \E f \in Shown : /\ SameCell(f.name, n)
                                /\ f = [name |-> n, fresh |-> TRUE] \/ Before(n, f.name)
  <1>1. ASSUME NEW f \in Shown, NEW h \in Shown, SameCell(f.name, h.name) PROVE f = h
    <2>1. SameCell(h.name, f.name) /\ f \in files /\ h \in files
      BY Zenon, <1>1 DEF SameCell, Shown
    <2>2. f = h \/ Before(f.name, h.name)
      BY Zenon, <1>1, <2>1 DEF Shown
    <2>3. f = h \/ Before(h.name, f.name)
      BY Zenon, <1>1, <2>1 DEF Shown
    <2> QED
      BY Zenon, <2>2, <2>3, ListedOnce
  <1>2. ASSUME NEW n \in reported, HasCell(n)
        PROVE  \E f \in Shown : /\ SameCell(f.name, n)
                                /\ f = [name |-> n, fresh |-> TRUE] \/ Before(n, f.name)
    <2> DEFINE r == [name |-> n, fresh |-> TRUE]
               S == {f \in files : SameCell(f.name, n)}
    <2>1. r \in files /\ r.name = n
      BY Zenon, <1>2 DEF FileInv
    <2> HIDE DEF r
    <2>2. r \in S
      BY Zenon, <2>1 DEF SameCell
    <2>3. S \in SUBSET files /\ S # {}
      BY Zenon, <2>2
    <2>4. \A f \in files : f \in S <=> SameCell(f.name, n)
      BY Zenon
    <2> HIDE DEF S
    <2>5. PICK f \in S : \A h \in S : h = f \/ Before(h.name, f.name)
      BY Zenon, <2>3, LastListed
    <2>6. f \in files /\ SameCell(f.name, n)
      BY Zenon, <2>3, <2>4
    <2>7. HasCell(f.name)
      BY Zenon, <1>2, <2>6 DEF HasCell, SameCell
    <2>8. \A h \in files : SameCell(h.name, f.name) => h \in S
      BY Zenon, <2>4, <2>6 DEF SameCell
    <2>9. f \in Shown
      BY Zenon, <2>5, <2>6, <2>7, <2>8 DEF Shown
    <2>10. f = r \/ Before(n, f.name)
      BY Zenon, <2>1, <2>2, <2>5
    <2> QED
      BY Zenon, <2>6, <2>9, <2>10 DEF r
  <1> QED
    BY Zenon, <1>1, <1>2

LEMMA HeatmapNext ==
  DriverInv /\ FileInv /\ NamesUnique /\ HeatmapExplained /\ [Next]_vars => HeatmapExplained'
  <1> SUFFICES ASSUME DriverInv, FileInv, NamesUnique, HeatmapExplained, [Next]_vars,
                      dpc' \in {"del", "kill", "wait", "done"}, k' = Total
               PROVE  HeatmapExplained'
    BY Zenon DEF HeatmapExplained
  <1>1. CASE GenerateReport
    <2>1. UNCHANGED reported
      BY Zenon, <1>1, Parts DEF GenerateReport
    <2>2. CASE files = {}
      <3>1. UNCHANGED heatmap /\ dpc = "loop"
        BY Zenon, <1>1, <2>2 DEF GenerateReport
      <3>2. heatmap = {} /\ reported = {}
        BY Zenon, <2>2, <3>1 DEF DriverInv, FileInv
      <3> QED
        BY Zenon, <2>1, <3>1, <3>2 DEF HeatmapExplained
    <2>3. CASE files # {}
      <3>1. heatmap' = Shown
        BY Zenon, <1>1, <2>3 DEF GenerateReport
      <3> QED
        BY Zenon, <2>1, <3>1, ShownExplained DEF HeatmapExplained
    <2> QED
      BY Zenon, <2>2, <2>3
  <1>2. CASE UNCHANGED <<k, heatmap, reported>> /\ dpc \in {"del", "kill", "wait", "done"}
    BY Zenon, <1>2 DEF HeatmapExplained
  <1>3. CASE Inside /\ (MainStep \/ LoadStep \/ SignalStep \/ OtherAdds)
    <2>1. UNCHANGED <<dpc, k, heatmap>>
      BY Zenon, <1>3 DEF Inside
    <2>2. bpc = "none"
      BY Zenon, <2>1 DEF DriverInv
    <2>3. UNCHANGED reported
      BY Zenon, <1>3, <2>2, InsideSteps DEF fileVars
    <2> QED
      BY Zenon, <1>2, <2>1, <2>3
  <1>4. CASE UNCHANGED vars
    BY Zenon, <1>2, <1>4, Parts
  <1>5. CASE DeferredDel \/ KillServer \/ WaitReturns \/ ServerEnds
    <2>1. /\ UNCHANGED <<k, heatmap>> /\ (UNCHANGED fileVars \/ UNCHANGED benchVars)
          /\ dpc \in {"del", "kill", "wait", "done"}
      BY Zenon, <1>5 DEF DeferredDel, KillServer, WaitReturns, ServerEnds
    <2>2. UNCHANGED reported
      BY Zenon, <2>1, Parts DEF fileVars
    <2> QED
      BY Zenon, <1>2, <2>1, <2>2
  <1>6. ~(Build \/ StartServer \/ StartChild \/ ChildEnds \/ UserRuns)
    BY Zenon DEF Build, StartServer, StartChild, ChildEnds, UserRuns
  <1>7. ~(UserReturns \/ UserCleanup)
    <2> SUFFICES ASSUME UserReturns \/ UserCleanup PROVE FALSE
      BY Zenon
    <2>1. dpc \in {"user", "cleanup"} /\ UNCHANGED k
      BY Zenon DEF UserReturns, UserCleanup
    <2>2. Total = 0
      BY Zenon, <2>1 DEF DriverInv
    <2> QED
      BY <2>2, TotalPositive
  <1> QED
    BY Zenon, <1>1, <1>3, <1>4, <1>5, <1>6, <1>7 DEF Next, DriverStep, UserStep, Ended

\* The invariants of the session together.
BenchInv ==
    /\ CmdInv
    /\ DriverInv
    /\ EmulationIsProfile
    /\ SettingTypes
    /\ ReportInv
    /\ FileInv
    /\ NamesUnique
    /\ HeatmapExplained

LEMMA SessionInit == Init => BenchInv
  <1> SUFFICES ASSUME Init PROVE BenchInv
    OBVIOUS
  <1>1. /\ bpc = "none" /\ cmd = NoCommand /\ i = 0 /\ sig = "waiting" /\ qdisc = NoQdisc
        /\ applied = FALSE /\ others = 0 /\ server = FALSE
        /\ dpc \in {"build", "shell"} /\ k = 0 /\ heatmap = {} /\ reported = {}
    BY Zenon DEF Init, BenchInit
  <1>2. \A f \in files : \E n \in StaleFiles : f = [name |-> n, fresh |-> FALSE]
    BY Zenon DEF Init
  <1>3. CmdInv /\ EmulationIsProfile /\ HeatmapExplained /\ ReportInv
    BY Zenon, <1>1 DEF CmdInv, AtProfile, EmulationIsProfile, HeatmapExplained, ReportInv
  <1>4. DriverInv
    BY <1>1, TotalPositive DEF DriverInv
  <1>5. \A f \in files : f.name \in Range(ReadDirOrder)
    <2> SUFFICES ASSUME NEW f \in files PROVE f.name \in Range(ReadDirOrder)
      OBVIOUS
    <2>1. PICK n \in StaleFiles : f = [name |-> n, fresh |-> FALSE]
      BY Zenon, <1>2
    <2>2. f.name = n
      BY Zenon, <2>1
    <2> QED
      BY Zenon, <2>2, OrderAssumption
  <1>6. FileInv
    BY Zenon, <1>1, <1>5 DEF FileInv
  <1>7. NamesUnique
    <2> SUFFICES ASSUME NEW f \in files, NEW h \in files, f.name = h.name PROVE f = h
      BY Zenon DEF NamesUnique
    <2>1. PICK n : f = [name |-> n, fresh |-> FALSE]
      BY Zenon, <1>2
    <2>2. PICK m : h = [name |-> m, fresh |-> FALSE]
      BY Zenon, <1>2
    <2>3. n = m
      BY Zenon, <2>1, <2>2
    <2> QED
      BY Zenon, <2>1, <2>2, <2>3
  <1>8. SettingTypes
    <2>1. 0 \in 0..MaxOthers
      BY OthersAssumption
    <2> QED
      BY Zenon, <1>1, <2>1 DEF SettingTypes, Places, Qdiscs, DriverPlaces
  <1> QED
    BY Zenon, <1>3, <1>4, <1>6, <1>7, <1>8 DEF BenchInv

LEMMA SessionNext == BenchInv /\ [Next]_vars => BenchInv'
  BY Zenon, ProcSteps, CmdNext, DriverNext, EmulationNext, SettingNext, ReportNext, FileSteps, FileNext,
     HeatmapNext DEF BenchInv

\* What is measured is measured under the profile it is named after, whatever
\* tc commands fail and whatever else changes the interface.
THEOREM EmulationRight == Spec => []EmulationIsProfile
  <1>1. BenchInv => EmulationIsProfile
    BY Zenon DEF BenchInv
  <1> QED
    BY SessionInit, SessionNext, <1>1, PTL DEF Spec

\* Every result of the session is in the heatmap, unless a file that ReadDir lists
\* later has taken its cell, for any lists, commands and order.
THEOREM HeatmapIsExplained == Spec => []HeatmapExplained
  <1>1. BenchInv => HeatmapExplained
    BY Zenon DEF BenchInv
  <1> QED
    BY SessionInit, SessionNext, <1>1, PTL DEF Spec

\* Every variable of a session stays in its type: the generators, the attempts
\* and the calls stay below their bounds, the index of the profile is never out
\* of the list, and no two files have the same name.
THEOREM SessionTypes == Spec => []TypeOK
  <1>1. Init => LoadInv
    BY Zenon, LoadInit DEF Init, BenchInit
  <1>2. LoadInv /\ BenchInv => TypeOK
    <2> SUFFICES ASSUME LoadInv, BenchInv PROVE TypeOK
      OBVIOUS
    <2>0. SettingTypes
      BY Zenon DEF BenchInv
    <2>1. i \in 0..(Len(cmd.profiles) + 1)
      <3>1. CASE bpc = "none"
        <4>1. i = 0 /\ cmd = NoCommand
          BY Zenon, <2>0, <3>1 DEF SettingTypes
        <4>2. Len(cmd.profiles) = 0
          BY Zenon, <4>1 DEF NoCommand
        <4> QED
          BY <4>1, <4>2
      <3>2. CASE bpc # "none"
        <4>1. cmd.profiles \in Seq(Profiles) /\ i \in 1..(Len(cmd.profiles) + 1)
          BY Zenon, <3>2 DEF BenchInv, CmdInv
        <4>2. Len(cmd.profiles) \in Nat
          BY <4>1
        <4> QED
          BY <4>1, <4>2
      <3> QED
        BY Zenon, <3>1, <3>2
    <2>2. LoadGenTypeOK
      BY Zenon DEF LoadInv
    <2>3. BenchTypeOK
      BY Zenon, <2>0, <2>1, <2>2 DEF BenchTypeOK, SettingTypes, Places, Qdiscs
    <2>4. k \in 0..Total /\ NamesUnique
      BY Zenon DEF BenchInv, DriverInv
    <2> QED
      BY Zenon, <2>0, <2>3, <2>4 DEF TypeOK, SettingTypes, DriverPlaces, NamesUnique
  <1> QED
    BY LoadNext, SessionInit, SessionNext, <1>1, <1>2, PTL DEF Spec

================================================================================
