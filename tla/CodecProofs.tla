------------------------------- MODULE CodecProofs -----------------------------
(***************************************************************************)
(* Theorems about Codec, for all messages, frames, encoders and buffers.   *)
(*                                                                         *)
(* The argument goes from the bytes to the system.  The recursive          *)
(* definitions of Wire are shown to have solutions (Recursion); SizeVT is  *)
(* exact (SizeExact); a varint, a length and a field are read as they were *)
(* written (VarintReads, Uint32Inverse, ReadsBytes, ReadsVarint); so       *)
(* UnmarshalVT on a message's payload goes from stage to stage and ends    *)
(* with the message (Advance).  encodeMessage leaves the frame of its      *)
(* message in the buffer (EncodedIsFrame), and the stream is the frames    *)
(* that were not read, one after the other (FramedAppend, FramedHead).     *)
(* The inductive invariant IInv says which of these a state is in.         *)
(***************************************************************************)
EXTENDS Codec, WellFoundedInduction, TLAPS

--------------------------------------------------------------------------------
(* Induction over the natural numbers, for a set instead of a predicate.     *)

\* A set of numbers that is not empty has a least element.
LEMMA Least ==
  ASSUME NEW S \in SUBSET Nat, S # {} PROVE \E x \in S : \A y \in S : x <= y
  <1>1. PICK x \in S : \A y \in S : ~(<<y, x>> \in OpToRel(<, Nat))
    BY Zenon, WFMin, NatLessThanWellFounded
  <1>2. \A y \in S : ~(y < x)
    BY Zenon, <1>1 DEF OpToRel
  <1> QED
    BY <1>2

\* Induction, for a set: the numbers that are not in it have no least element.
LEMMA Induction ==
  ASSUME NEW Q \in SUBSET Nat, 0 \in Q, \A n \in Q : n + 1 \in Q PROVE Q = Nat
  <1> SUFFICES ASSUME Nat \ Q # {} PROVE FALSE
    BY Zenon
  <1>1. PICK x \in Nat \ Q : \A y \in Nat \ Q : x <= y
    BY Zenon, Least
  <1>2. x # 0 /\ x - 1 \in Nat
    BY <1>1
  <1>3. x - 1 \in Q
    BY <1>1, <1>2
  <1> QED
    BY <1>1, <1>2, <1>3

\* Min of FiniteSetsExt on a set of numbers.
LEMMA MinIsLeast ==
  ASSUME NEW S \in SUBSET Nat, S # {}
  PROVE  Min(S) \in S /\ \A y \in S : Min(S) <= y
  BY Zenon, Least DEF Min

\* The least element is the minimum.
LEMMA MinIs ==
  ASSUME NEW S \in SUBSET Nat, NEW x \in S, \A y \in S : x <= y PROVE Min(S) = x
  <1>1. Min(S) \in S /\ Min(S) <= x
    BY Zenon, MinIsLeast
  <1>2. Min(S) \in Nat /\ x \in Nat /\ x <= Min(S)
    BY Zenon, <1>1
  <1> HIDE DEF Min
  <1> QED
    BY <1>1, <1>2

--------------------------------------------------------------------------------
(* Sequences.                                                                *)

\* Sequences are equal when their lengths and elements are.
LEMMA SeqSame ==
  ASSUME NEW S, NEW s \in Seq(S), NEW t \in Seq(S), Len(s) = Len(t),
         \A i \in 1..Len(s) : s[i] = t[i]
  PROVE  s = t
  OBVIOUS

\* The elements of a concatenation ...
LEMMA ConcatFacts ==
  ASSUME NEW S, NEW s \in Seq(S), NEW t \in Seq(S)
  PROVE  /\ s \o t \in Seq(S) /\ Len(s \o t) = Len(s) + Len(t)
         /\ \A i \in 1..Len(s) : (s \o t)[i] = s[i]
         /\ \A i \in 1..Len(t) : (s \o t)[Len(s) + i] = t[i]
  OBVIOUS

\* ... and of a part of a sequence.
LEMMA SubSeqFacts ==
  ASSUME NEW S, NEW s \in Seq(S), NEW m \in Nat, NEW n \in Nat,
         1 <= m, m <= n + 1, n <= Len(s)
  PROVE  /\ SubSeq(s, m, n) \in Seq(S) /\ Len(SubSeq(s, m, n)) = n - m + 1
         /\ \A i \in 1..(n - m + 1) : SubSeq(s, m, n)[i] = s[m + i - 1]
  OBVIOUS

\* Concatenation is associative ...
LEMMA ConcatAssoc ==
  ASSUME NEW S, NEW s \in Seq(S), NEW t \in Seq(S), NEW u \in Seq(S)
  PROVE  (s \o t) \o u = s \o (t \o u)
  OBVIOUS

\* ... and the empty sequence is its unit.
LEMMA ConcatEmpty ==
  ASSUME NEW S, NEW s \in Seq(S) PROVE s \o <<>> = s /\ <<>> \o s = s
  OBVIOUS

--------------------------------------------------------------------------------
(* Headers.                                                                  *)

\* The loop of GetHeader looks at the places of the keys.
Hit(headers, key, i) == i % 2 = 1 /\ headers[i] = key

\* GetHeader when the first key that matches is at i ...
LEMMA GetHeaderFinds ==
  ASSUME NEW S, NEW headers \in Seq(S), NEW key, NEW i \in 1..Len(headers),
         Hit(headers, key, i), \A j \in 1..(i - 1) : ~Hit(headers, key, j)
  PROVE  GetHeader(headers, key) =
           IF i = Len(headers) THEN [is |-> "panic", val |-> <<>>]
                               ELSE [is |-> "value", val |-> headers[i + 1]]
  <1> DEFINE hits == {j \in DOMAIN headers : j % 2 = 1 /\ headers[j] = key}
  <1>1. hits \in SUBSET Nat /\ i \in hits /\ \A j \in hits : i <= j
    BY DEF Hit
  <1>2. Min(hits) = i /\ hits # {}
    BY Zenon, <1>1, MinIs
  <1> HIDE DEF hits
  <1>3. GetHeader(headers, key) =
          CASE hits = {} -> [is |-> "default", val |-> <<>>]
            [] hits # {} /\ Min(hits) = Len(headers) -> [is |-> "panic", val |-> <<>>]
            [] OTHER -> [is |-> "value", val |-> headers[Min(hits) + 1]]
    BY Zenon DEF GetHeader, hits
  <1> QED
    BY Zenon, <1>2, <1>3

\* ... and when none matches.
LEMMA GetHeaderMisses ==
  ASSUME NEW S, NEW headers \in Seq(S), NEW key,
         \A j \in 1..Len(headers) : ~Hit(headers, key, j)
  PROVE  GetHeader(headers, key) = [is |-> "default", val |-> <<>>]
  <1>1. {j \in DOMAIN headers : j % 2 = 1 /\ headers[j] = key} = {}
    BY DEF Hit
  <1> QED
    BY Zenon, <1>1 DEF GetHeader

\* Either no key matches or there is a first one that does.
LEMMA FirstHit ==
  ASSUME NEW S, NEW headers \in Seq(S), NEW key
  PROVE  \/ \A j \in 1..Len(headers) : ~Hit(headers, key, j)
         \/ \E i \in 1..Len(headers) :
              Hit(headers, key, i) /\ \A j \in 1..(i - 1) : ~Hit(headers, key, j)
  <1> DEFINE hits == {j \in 1..Len(headers) : Hit(headers, key, j)}
  <1>1. CASE hits = {}
    BY Zenon, <1>1
  <1>2. CASE hits # {}
    <2>1. hits \in SUBSET Nat
      OBVIOUS
    <2>2. PICK i \in hits : \A j \in hits : i <= j
      BY Zenon, <1>2, <2>1, Least
    <2> QED
      BY <2>2
  <1> QED
    BY Zenon, <1>1, <1>2

\* GetHeader finds what the list says.
LEMMA HeadersLookup ==
  ASSUME NEW S, NEW headers \in Seq(S), NEW key PROVE GetHeader(headers, key) = Lookup(headers, key)
  <1> DEFINE L == Len(headers)
             pairs == {n \in 1..(Len(headers) \div 2) : headers[2 * n - 1] = key}
             unpaired == L % 2 = 1 /\ headers[L] = key
  <1>1. L \in Nat
    OBVIOUS
  <1>2. Lookup(headers, key) =
          CASE pairs # {} -> [is |-> "value", val |-> headers[2 * Min(pairs)]]
            [] pairs = {} /\ unpaired -> [is |-> "panic", val |-> <<>>]
            [] OTHER -> [is |-> "default", val |-> <<>>]
    BY Zenon DEF Lookup
  <1>3. ASSUME NEW n \in 1..(L \div 2), headers[2 * n - 1] = key PROVE n \in pairs
    BY Zenon, <1>3
  <1>4. \A n \in pairs : n \in 1..(L \div 2) /\ headers[2 * n - 1] = key
    BY Zenon
  <1>5. pairs \in SUBSET Nat
    OBVIOUS
  <1> HIDE DEF L, pairs
  <1>6. CASE \A j \in 1..L : ~Hit(headers, key, j)
    <2>1. GetHeader(headers, key) = [is |-> "default", val |-> <<>>]
      BY Zenon, <1>6, GetHeaderMisses DEF L
    <2>2. ASSUME NEW n \in pairs PROVE FALSE
      <3>1. n \in 1..(L \div 2)
        BY Zenon, <1>4
      <3>2. 2 * n - 1 \in 1..L /\ (2 * n - 1) % 2 = 1
        BY <1>1, <3>1
      <3> QED
        BY Zenon, <1>4, <1>6, <3>2 DEF Hit
    <2>3. ASSUME unpaired PROVE FALSE
      <3>1. L \in 1..L
        BY <1>1, <2>3
      <3> QED
        BY Zenon, <1>6, <2>3, <3>1 DEF Hit
    <2> HIDE DEF unpaired
    <2> QED
      BY Zenon, <1>2, <2>1, <2>2, <2>3
  <1>7. CASE \E i \in 1..L : Hit(headers, key, i) /\ \A j \in 1..(i - 1) : ~Hit(headers, key, j)
    <2>1. PICK i \in 1..L : Hit(headers, key, i) /\ \A j \in 1..(i - 1) : ~Hit(headers, key, j)
      BY Zenon, <1>7
    <2>2. GetHeader(headers, key) =
            IF i = L THEN [is |-> "panic", val |-> <<>>]
                     ELSE [is |-> "value", val |-> headers[i + 1]]
      BY Zenon, <2>1, GetHeaderFinds DEF L
    <2>3. i \in Nat /\ i % 2 = 1 /\ i <= L /\ headers[i] = key
      BY <1>1, <2>1 DEF Hit
    <2>4. \A n \in pairs : i <= 2 * n - 1
      <3> SUFFICES ASSUME NEW n \in pairs, ~(i <= 2 * n - 1) PROVE FALSE
        BY Zenon
      <3>1. n \in 1..(L \div 2) /\ headers[2 * n - 1] = key
        BY Zenon, <1>4
      <3>2. 2 * n - 1 \in 1..(i - 1) /\ (2 * n - 1) % 2 = 1
        BY <1>1, <2>3, <3>1
      <3> QED
        BY Zenon, <2>1, <3>1, <3>2 DEF Hit
    <2>5. CASE i = L
      <3>1. unpaired
        BY Zenon, <2>3, <2>5
      <3>2. ASSUME NEW n \in pairs PROVE FALSE
        <4>1. n \in 1..(L \div 2) /\ i <= 2 * n - 1
          BY Zenon, <1>4, <2>4
        <4> QED
          BY <1>1, <2>3, <2>5, <4>1
      <3> HIDE DEF unpaired
      <3> QED
        BY Zenon, <1>2, <2>2, <2>5, <3>1, <3>2
    <2>6. CASE i # L
      <3>1. PICK n \in 1..(L \div 2) : i = 2 * n - 1
        <4>1. (i + 1) \div 2 \in 1..(L \div 2) /\ i = 2 * ((i + 1) \div 2) - 1
          BY <1>1, <2>3, <2>6
        <4> QED
          BY Zenon, <4>1
      <3>2. n \in pairs
        BY Zenon, <1>3, <2>3, <3>1
      <3>3. \A m \in pairs : n <= m
        <4> SUFFICES ASSUME NEW m \in pairs PROVE n <= m
          BY Zenon
        <4>1. m \in Nat /\ i <= 2 * m - 1
          BY Zenon, <1>5, <2>4
        <4> QED
          BY <3>1, <4>1
      <3>4. Min(pairs) = n /\ pairs # {}
        BY Zenon, <1>5, <3>2, <3>3, MinIs
      <3>5. i + 1 = 2 * n
        BY <3>1
      <3> QED
        BY Zenon, <1>2, <2>2, <2>6, <3>4, <3>5
    <2> QED
      BY Zenon, <2>5, <2>6
  <1> QED
    BY Zenon, <1>6, <1>7, FirstHit DEF L

--------------------------------------------------------------------------------
(* Functions that are defined by recursion: on the numbers in B the value is *)
(* given by c, on the others it is made by G from the value at a smaller     *)
(* number, which p names.                                                    *)

Scheme(D, V, B, c, p, G) ==
  /\ D \in SUBSET Nat /\ B \in SUBSET D
  /\ c \in [B -> V] /\ G \in [D \X V -> V]
  /\ p \in [D \ B -> D] /\ \A n \in D \ B : p[n] < n

Value(f, n, B, c, p, G) == IF n \in B THEN c[n] ELSE G[<<n, f[p[n]]>>]

Below(D, n) == {d \in D : d < n}

\* Below grows by one number at a time.
LEMMA BelowNext ==
  ASSUME NEW D \in SUBSET Nat, NEW n \in Nat
  PROVE  /\ Below(D, 0) = {}
         /\ n \in D => Below(D, n + 1) = Below(D, n) \cup {n}
         /\ n \notin D => Below(D, n + 1) = Below(D, n)
  <1>1. \A d \in D : ~(d < 0) /\ (d < n + 1 <=> d < n \/ d = n)
    OBVIOUS
  <1> QED
    BY Zenon, <1>1 DEF Below

Solves(f, E, V, B, c, p, G) == f \in [E -> V] /\ \A n \in E : f[n] = Value(f, n, B, c, p, G)

\* Two solutions agree wherever both are defined.
LEMMA SolutionsAgree ==
  ASSUME NEW D, NEW V, NEW B, NEW c, NEW p, NEW G, Scheme(D, V, B, c, p, G),
         NEW E \in SUBSET D, NEW F \in SUBSET D,
         \A n \in E \ B : p[n] \in E, \A n \in F \ B : p[n] \in F,
         NEW f, NEW g, Solves(f, E, V, B, c, p, G), Solves(g, F, V, B, c, p, G)
  PROVE  \A n \in E \cap F : f[n] = g[n]
  <1> DEFINE X == {n \in E \cap F : f[n] # g[n]}
  <1> SUFFICES ASSUME X # {} PROVE FALSE
    BY Zenon
  <1>1. X \in SUBSET Nat
    BY Zenon DEF Scheme
  <1>2. PICK n \in X : \A k \in X : n <= k
    BY Zenon, <1>1, Least
  <1>3. CASE n \in B
    BY Zenon, <1>2, <1>3 DEF Solves, Value
  <1>4. CASE n \notin B
    <2>1. /\ n \in D \ B /\ p[n] \in D /\ D \subseteq Nat /\ p[n] < n
          /\ p[n] \in E \cap F
      BY Zenon, <1>2, <1>4 DEF Scheme
    <2>2. p[n] \notin X
      BY <1>1, <1>2, <2>1
    <2>3. f[p[n]] = g[p[n]]
      BY Zenon, <2>1, <2>2
    <2> QED
      BY Zenon, <1>2, <1>4, <2>3 DEF Solves, Value
  <1> QED
    BY Zenon, <1>3, <1>4

\* There is a solution for the numbers below n.
LEMMA PartialSolution ==
  ASSUME NEW D, NEW V, NEW B, NEW c, NEW p, NEW G, Scheme(D, V, B, c, p, G)
  PROVE  \A n \in Nat : \E f : Solves(f, Below(D, n), V, B, c, p, G)
  <1> DEFINE Q == {n \in Nat : \E f : Solves(f, Below(D, n), V, B, c, p, G)}
  <1>1. ASSUME NEW n \in Nat, n \in D, NEW E, E = Below(D, n),
               NEW f, Solves(f, E, V, B, c, p, G)
        PROVE  \E g : Solves(g, E \cup {n}, V, B, c, p, G)
    <2> DEFINE v == Value(f, n, B, c, p, G)
               g == [k \in E \cup {n} |-> IF k = n THEN v ELSE f[k]]
    <2>1. ASSUME NEW k \in E \cup {n}, k \notin B PROVE p[k] \in E /\ g[p[k]] = f[p[k]]
      <3>1. k \in D \ B /\ p[k] \in D /\ p[k] < k /\ k \in Nat /\ p[k] \in Nat
        BY Zenon, <1>1, <2>1 DEF Scheme, Below
      <3>2. k < n \/ k = n
        BY Zenon, <1>1 DEF Below
      <3>3. p[k] < n /\ p[k] # n
        BY <3>1, <3>2
      <3>4. p[k] \in E
        BY Zenon, <1>1, <3>1, <3>3 DEF Below
      <3> QED
        BY Zenon, <3>3, <3>4
    <2>2. v \in V
      <3>1. CASE n \in B
        BY Zenon, <3>1 DEF Scheme, Value
      <3>2. CASE n \notin B
        <4>1. f[p[n]] \in V
          BY Zenon, <1>1, <2>1, <3>2 DEF Solves
        <4>2. <<n, f[p[n]]>> \in D \X V
          BY Zenon, <1>1, <4>1
        <4> QED
          BY Zenon, <3>2, <4>2 DEF Scheme, Value
      <3> QED
        BY Zenon, <3>1, <3>2
    <2>3. g \in [E \cup {n} -> V]
      <3>1. \A k \in E : f[k] \in V
        BY Zenon, <1>1 DEF Solves
      <3> QED
        BY Zenon, <2>2, <3>1
    <2>4. ASSUME NEW k \in E \cup {n} PROVE g[k] = Value(g, k, B, c, p, G)
      <3>1. Value(g, k, B, c, p, G) = Value(f, k, B, c, p, G)
        BY Zenon, <2>1 DEF Value
      <3>2. CASE k = n
        BY Zenon, <3>1, <3>2
      <3>3. CASE k # n
        BY Zenon, <1>1, <3>1, <3>3 DEF Solves
      <3> QED
        BY Zenon, <3>2, <3>3
    <2> HIDE DEF g
    <2> QED
      BY Zenon, <1>1, <2>3, <2>4 DEF Solves
  <1>2. 0 \in Q
    <2>1. Below(D, 0) = {}
      BY Zenon, BelowNext DEF Scheme
    <2>2. Solves([k \in {} |-> k], {}, V, B, c, p, G)
      BY Zenon DEF Solves
    <2> QED
      BY Zenon, <2>1, <2>2
  <1>3. ASSUME NEW n \in Q PROVE n + 1 \in Q
    <2>1. PICK f : Solves(f, Below(D, n), V, B, c, p, G)
      BY Zenon, <1>3
    <2>2. CASE n \in D
      <3>1. Below(D, n + 1) = Below(D, n) \cup {n}
        BY Zenon, <2>2, BelowNext DEF Scheme
      <3>2. \E g : Solves(g, Below(D, n) \cup {n}, V, B, c, p, G)
        BY Zenon, <1>1, <2>1, <2>2
      <3> QED
        BY <3>1, <3>2
    <2>3. CASE n \notin D
      <3>1. Below(D, n + 1) = Below(D, n)
        BY Zenon, <2>3, BelowNext DEF Scheme
      <3> QED
        BY <2>1, <3>1
    <2> QED
      BY Zenon, <2>2, <2>3
  <1>4. Q = Nat
    BY Zenon, <1>2, <1>3, Induction
  <1> QED
    BY Zenon, <1>4

\* A recursive definition in which every argument refers to a smaller one has a solution.
LEMMA Recursion ==
  ASSUME NEW D, NEW V, NEW B, NEW c, NEW p, NEW G, Scheme(D, V, B, c, p, G)
  PROVE  \E f : Solves(f, D, V, B, c, p, G)
  <1> DEFINE part(n) == CHOOSE f : Solves(f, Below(D, n + 1), V, B, c, p, G)
             f == [n \in D |-> part(n)[n]]
  <1>1. ASSUME NEW n \in D
        PROVE  /\ n \in Nat /\ n \in Below(D, n + 1) /\ Below(D, n + 1) \in SUBSET D
               /\ \A k \in Below(D, n + 1) \ B : p[k] \in Below(D, n + 1)
               /\ Solves(part(n), Below(D, n + 1), V, B, c, p, G)
    <2>1. n \in Nat /\ n + 1 \in Nat
      BY DEF Scheme
    <2>2. \E g : Solves(g, Below(D, n + 1), V, B, c, p, G)
      BY Zenon, <2>1, PartialSolution
    <2>3. n \in Below(D, n + 1) /\ Below(D, n + 1) \in SUBSET D
      BY <2>1 DEF Below
    <2>4. ASSUME NEW k \in Below(D, n + 1) \ B PROVE p[k] \in Below(D, n + 1)
      <3>1. k \in D /\ k \in Nat /\ p[k] \in D /\ p[k] \in Nat /\ p[k] < k /\ k < n + 1
        BY Zenon DEF Scheme, Below
      <3>2. p[k] < n + 1
        BY <2>1, <3>1
      <3> QED
        BY Zenon, <3>1, <3>2 DEF Below
    <2> QED
      BY Zenon, <2>1, <2>2, <2>3, <2>4
  <1> HIDE DEF part
  <1>2. f \in [D -> V]
    <2>1. \A n \in D : part(n)[n] \in V
      BY Zenon, <1>1 DEF Solves
    <2> QED
      BY Zenon, <2>1
  <1>3. ASSUME NEW n \in D PROVE f[n] = Value(f, n, B, c, p, G)
    <2>1. part(n)[n] = Value(part(n), n, B, c, p, G)
      BY Zenon, <1>1 DEF Solves
    <2>2. CASE n \in B
      BY Zenon, <2>1, <2>2 DEF Value
    <2>3. CASE n \notin B
      <3>1. p[n] \in D /\ p[n] \in Below(D, n + 1)
        BY Zenon, <1>1, <2>3 DEF Scheme
      <3>2. p[n] \in Below(D, p[n] + 1)
        BY Zenon, <1>1, <3>1
      <3>3. part(n)[p[n]] = part(p[n])[p[n]]
        <4> DEFINE E == Below(D, n + 1)
                   F == Below(D, p[n] + 1)
                   g == part(n)
                   h == part(p[n])
        <4>1. /\ E \in SUBSET D /\ F \in SUBSET D /\ p[n] \in E \cap F
              /\ \A k \in E \ B : p[k] \in E
              /\ \A k \in F \ B : p[k] \in F
              /\ Solves(g, E, V, B, c, p, G) /\ Solves(h, F, V, B, c, p, G)
          BY Zenon, <1>1, <3>1, <3>2
        <4> HIDE DEF E, F, g, h
        <4>2. \A k \in E \cap F : g[k] = h[k]
          BY <4>1, SolutionsAgree
        <4> QED
          BY Zenon, <4>1, <4>2 DEF g, h
      <3> QED
        BY Zenon, <2>1, <2>3, <3>1, <3>3 DEF Value
    <2> QED
      BY Zenon, <2>2, <2>3
  <1> HIDE DEF f
  <1> QED
    BY Zenon, <1>2, <1>3 DEF Solves

--------------------------------------------------------------------------------
(* Varints.                                                                  *)

\* BitLen refers to a smaller argument ...
LEMMA Halves ==
  ASSUME NEW v \in Nat, v # 0 PROVE v \div 2 \in Nat /\ v \div 2 < v
  OBVIOUS

\* ... and so does EncodeVarint.
LEMMA GroupDown ==
  ASSUME NEW v \in Nat, v >= 128 PROVE v \div 128 \in Nat \ {0} /\ v \div 128 < v
  OBVIOUS

\* BitLen is what its definition says.
LEMMA BitLenDef ==
  /\ BitLen \in [Nat -> Nat]
  /\ \A v \in Nat : BitLen[v] = IF v = 0 THEN 0 ELSE 1 + BitLen[v \div 2]
  <1> DEFINE B == {0}
             c == [n \in B |-> 0]
             p == [n \in Nat \ B |-> n \div 2]
             G == [x \in Nat \X Nat |-> 1 + x[2]]
  <1>1. Scheme(Nat, Nat, B, c, p, G)
    <2>1. p \in [Nat \ B -> Nat] /\ \A n \in Nat \ B : p[n] < n
      BY Zenon, Halves
    <2>2. G \in [Nat \X Nat -> Nat] /\ c \in [B -> Nat] /\ B \in SUBSET Nat
      OBVIOUS
    <2> QED
      BY Zenon, <2>1, <2>2 DEF Scheme
  <1>2. PICK f : Solves(f, Nat, Nat, B, c, p, G)
    BY Zenon, <1>1, Recursion
  <1>3. f \in [Nat -> Nat]
    BY Zenon, <1>2 DEF Solves
  <1>4. ASSUME NEW v \in Nat PROVE f[v] = IF v = 0 THEN 0 ELSE 1 + f[v \div 2]
    <2>1. f[v] = Value(f, v, B, c, p, G)
      BY Zenon, <1>2 DEF Solves
    <2>2. CASE v = 0
      BY Zenon, <2>1, <2>2 DEF Value
    <2>3. CASE v # 0
      <3>1. v \div 2 \in Nat /\ f[v \div 2] \in Nat
        BY Zenon, <1>3, <2>3, Halves
      <3>2. f[v] = G[<<v, f[v \div 2]>>]
        BY Zenon, <2>1, <2>3 DEF Value
      <3>3. G[<<v, f[v \div 2]>>] = 1 + f[v \div 2]
        BY Zenon, <3>1
      <3> QED
        BY Zenon, <2>3, <3>2, <3>3
    <2> QED
      BY Zenon, <2>2, <2>3
  <1>5. f = [v \in Nat |-> IF v = 0 THEN 0 ELSE 1 + f[v \div 2]]
    BY Zenon, <1>3, <1>4
  <1>6. BitLen = [v \in Nat |-> IF v = 0 THEN 0 ELSE 1 + BitLen[v \div 2]]
    BY Zenon, <1>5 DEF BitLen
  <1>7. \A v \in Nat : BitLen[v] = IF v = 0 THEN 0 ELSE 1 + BitLen[v \div 2]
    BY Zenon, <1>6
  <1>8. \A v \in Nat : BitLen[v] = f[v]
    <2> DEFINE X == {v \in Nat : BitLen[v] # f[v]}
    <2> SUFFICES ASSUME X # {} PROVE FALSE
      BY Zenon
    <2>1. PICK v \in X : \A k \in X : v <= k
      BY Zenon, Least
    <2>2. v # 0
      BY Zenon, <1>4, <1>7, <2>1
    <2>3. v \div 2 \in Nat /\ ~(v <= v \div 2)
      BY <2>1, <2>2, Halves
    <2>4. BitLen[v \div 2] = f[v \div 2]
      BY Zenon, <2>1, <2>3
    <2> QED
      BY Zenon, <1>4, <1>7, <2>1, <2>2, <2>4
  <1> QED
    BY Zenon, <1>3, <1>6, <1>7, <1>8

\* EncodeVarint is what its definition says, and makes bytes.
LEMMA EncodeVarintDef ==
  /\ EncodeVarint \in [Nat -> Seq(Byte)]
  /\ \A v \in Nat : EncodeVarint[v] =
       IF v < 128 THEN <<v>> ELSE <<(v % 128) + 128>> \o EncodeVarint[v \div 128]
  <1> DEFINE B == 0..127
             c == [n \in B |-> <<n>>]
             p == [n \in Nat \ B |-> n \div 128]
             G == [x \in Nat \X Seq(Byte) |-> <<(x[1] % 128) + 128>> \o x[2]]
             E(g, v) == IF v < 128 THEN <<v>> ELSE <<(v % 128) + 128>> \o g[v \div 128]
  <1>1. \A v \in Nat : v \in B <=> v < 128
    OBVIOUS
  <1>2. Scheme(Nat, Seq(Byte), B, c, p, G)
    <2>1. p \in [Nat \ B -> Nat] /\ \A n \in Nat \ B : p[n] < n
      <3>1. \A n \in Nat \ B : n >= 128
        OBVIOUS
      <3> QED
        BY <3>1, GroupDown
    <2>2. c \in [B -> Seq(Byte)] /\ B \in SUBSET Nat
      BY DEF Byte
    <2>3. ASSUME NEW n \in Nat, NEW s \in Seq(Byte) PROVE <<(n % 128) + 128>> \o s \in Seq(Byte)
      <3>1. (n % 128) + 128 \in Byte
        BY DEF Byte
      <3>2. <<(n % 128) + 128>> \in Seq(Byte)
        BY <3>1
      <3> QED
        BY ZenonT(40), <3>2, ConcatFacts
    <2>4. G \in [Nat \X Seq(Byte) -> Seq(Byte)]
      BY <2>3
    <2> QED
      BY Zenon, <2>1, <2>2, <2>4 DEF Scheme
  <1>3. PICK f : Solves(f, Nat, Seq(Byte), B, c, p, G)
    <2> HIDE DEF B, c, p, G
    <2> QED
      BY Zenon, <1>2, Recursion
  <1>4. f \in [Nat -> Seq(Byte)]
    BY Zenon, <1>3 DEF Solves
  <1>5. ASSUME NEW v \in Nat
        PROVE  f[v] = E(f, v)
    <2>1. f[v] = Value(f, v, B, c, p, G)
      BY ZenonT(40), <1>3 DEF Solves
    <2>2. CASE v < 128
      BY ZenonT(40), <1>1, <2>1, <2>2 DEF Value
    <2>3. CASE ~(v < 128)
      <3>1. v >= 128
        BY <2>3
      <3>2. v \div 128 \in Nat /\ f[v \div 128] \in Seq(Byte) /\ v \notin B
        BY ZenonT(40), <1>1, <1>4, <2>3, <3>1, GroupDown
      <3>3. f[v] = G[<<v, f[v \div 128]>>]
        BY Zenon, <2>1, <3>2 DEF Value
      <3>4. G[<<v, f[v \div 128]>>] = <<(v % 128) + 128>> \o f[v \div 128]
        BY Zenon, <3>2
      <3> QED
        BY Zenon, <2>3, <3>3, <3>4
    <2> QED
      BY Zenon, <2>2, <2>3
  <1>6. ASSUME NEW g, NEW v \in Nat, ~(v < 128) => g[v \div 128] = f[v \div 128]
        PROVE  E(g, v) = E(f, v)
    BY ZenonT(40), <1>6
  <1>7. EncodeVarint = CHOOSE g : g = [v \in Nat |-> E(g, v)]
    BY Zenon DEF EncodeVarint
  <1> SUFFICES EncodeVarint \in [Nat -> Seq(Byte)] /\ \A v \in Nat : EncodeVarint[v] = E(EncodeVarint, v)
    BY Zenon
  <1> HIDE DEF B, E
  <1>8. f = [v \in Nat |-> E(f, v)]
    BY Zenon, <1>4, <1>5
  <1>9. EncodeVarint = [v \in Nat |-> E(EncodeVarint, v)]
    BY Zenon, <1>7, <1>8
  <1>10. \A v \in Nat : EncodeVarint[v] = E(EncodeVarint, v)
    BY Zenon, <1>9
  <1>11. \A v \in Nat : EncodeVarint[v] = f[v]
    <2> DEFINE X == {v \in Nat : EncodeVarint[v] # f[v]}
    <2> SUFFICES ASSUME X # {} PROVE FALSE
      BY Zenon
    <2>1. PICK v \in X : \A k \in X : v <= k
      BY Zenon, Least
    <2>2. E(EncodeVarint, v) # E(f, v)
      BY Zenon, <1>5, <1>10, <2>1
    <2>3. ~(v < 128) /\ EncodeVarint[v \div 128] # f[v \div 128]
      BY ZenonT(40), <1>6, <2>1, <2>2
    <2>4. v \div 128 \in Nat /\ ~(v <= v \div 128)
      BY <2>1, <2>3, GroupDown
    <2> QED
      BY ZenonT(40), <2>1, <2>3, <2>4
  <1> QED
    BY Zenon, <1>4, <1>9, <1>10, <1>11

\* (bits.Len64(v | 1) + 6) / 7 counts the groups of seven bits.
LEMMA SizeOfVarintStep ==
  ASSUME NEW v \in Nat
  PROVE  /\ SizeOfVarint(v) \in Nat
         /\ v < 128 => SizeOfVarint(v) = 1
         /\ v >= 128 => SizeOfVarint(v) = 1 + SizeOfVarint(v \div 128)
  <1> DEFINE b(n) == BitLen[n]
  <1>1. \A n \in Nat : b(n) \in Nat /\ b(n) = IF n = 0 THEN 0 ELSE 1 + b(n \div 2)
    BY Zenon, BitLenDef
  <1>2. SizeOfVarint(v) = (b(IF v = 0 THEN 1 ELSE v) + 6) \div 7
    BY Zenon DEF SizeOfVarint
  <1> HIDE DEF b
  <1>3. SizeOfVarint(v) \in Nat
    BY <1>1, <1>2
  <1>4. ASSUME v < 128 PROVE SizeOfVarint(v) = 1
    <2> DEFINE n == IF v = 0 THEN 1 ELSE v
    <2>1. n \in 1..127
      BY <1>4
    <2> HIDE DEF n
    <2>2. b(n) = 1 + b(n \div 2) /\ b(0) = 0
      BY <1>1, <2>1
    <2>3. b(n) \in 1..7
      <3>2. ASSUME NEW m \in 0..1 PROVE b(m) \in 0..1
        BY <1>1
      <3>3. ASSUME NEW m \in 0..3 PROVE b(m) \in 0..2
        BY <1>1, <3>2
      <3>4. ASSUME NEW m \in 0..7 PROVE b(m) \in 0..3
        BY <1>1, <3>3
      <3>5. ASSUME NEW m \in 0..15 PROVE b(m) \in 0..4
        BY SMTT(40), <1>1, <3>4
      <3>6. ASSUME NEW m \in 0..31 PROVE b(m) \in 0..5
        BY SMTT(40), <1>1, <3>5
      <3>7. ASSUME NEW m \in 0..63 PROVE b(m) \in 0..6
        BY SMTT(40), <1>1, <3>6
      <3> QED
        BY <2>1, <2>2, <3>7
    <2> QED
      BY <1>2, <2>3 DEF n
  <1>5. ASSUME v >= 128 PROVE SizeOfVarint(v) = 1 + SizeOfVarint(v \div 128)
    <2>1. v \div 128 \in Nat \ {0}
      BY <1>5
    <2>2. SizeOfVarint(v \div 128) = (b(v \div 128) + 6) \div 7
      BY Zenon, <2>1 DEF SizeOfVarint, b
    <2>3. b(v) = 7 + b(v \div 128)
      <3> DEFINE w1 == v \div 2
                 w2 == w1 \div 2
                 w3 == w2 \div 2
                 w4 == w3 \div 2
                 w5 == w4 \div 2
                 w6 == w5 \div 2
      <3>1. /\ w1 \in Nat \ {0} /\ w2 \in Nat \ {0} /\ w3 \in Nat \ {0}
            /\ w4 \in Nat \ {0} /\ w5 \in Nat \ {0} /\ w6 \in Nat \ {0}
            /\ w6 \div 2 = v \div 128 /\ v \in Nat \ {0}
        BY <1>5
      <3>2. \A n \in Nat \ {0} : b(n) = 1 + b(n \div 2)
        BY Zenon, <1>1
      <3>3. /\ b(v) = 1 + b(w1) /\ b(w1) = 1 + b(w2) /\ b(w2) = 1 + b(w3)
            /\ b(w3) = 1 + b(w4) /\ b(w4) = 1 + b(w5) /\ b(w5) = 1 + b(w6)
            /\ b(w6) = 1 + b(v \div 128)
        BY ZenonT(40), <3>1, <3>2
      <3> HIDE DEF w1, w2, w3, w4, w5, w6
      <3> QED
        BY <1>1, <2>1, <3>1, <3>3
    <2> QED
      BY <1>1, <1>2, <1>5, <2>1, <2>2, <2>3
  <1> QED
    BY Zenon, <1>3, <1>4, <1>5

\* A varint is bytes.
LEMMA EncodedType == ASSUME NEW v \in Nat PROVE EncodeVarint[v] \in Seq(Byte)
  BY ZenonT(40), EncodeVarintDef

\* SizeOfVarint is the number of bytes that EncodeVarint writes.
LEMMA VarintSized ==
  ASSUME NEW v \in Nat PROVE Len(EncodeVarint[v]) = SizeOfVarint(v)
  <1> DEFINE X == {w \in Nat : Len(EncodeVarint[w]) # SizeOfVarint(w)}
  <1> SUFFICES ASSUME X # {} PROVE FALSE
    BY Zenon
  <1>1. PICK w \in X : \A k \in X : w <= k
    BY Zenon, Least
  <1>2. CASE w < 128
    <2>1. EncodeVarint[w] = <<w>> /\ SizeOfVarint(w) = 1
      BY ZenonT(40), <1>1, <1>2, EncodeVarintDef, SizeOfVarintStep
    <2> QED
      BY Zenon, <1>1, <2>1
  <1>3. CASE ~(w < 128)
    <2>1. w >= 128 /\ w \div 128 \in Nat /\ ~(w <= w \div 128)
      BY <1>1, <1>3
    <2>2. Len(EncodeVarint[w \div 128]) = SizeOfVarint(w \div 128)
      BY Zenon, <1>1, <2>1
    <2>3. EncodeVarint[w] = <<(w % 128) + 128>> \o EncodeVarint[w \div 128]
      BY ZenonT(40), <1>1, <1>3, EncodeVarintDef
    <2>4. EncodeVarint[w \div 128] \in Seq(Byte)
      BY Zenon, <2>1, EncodedType
    <2>5. Len(EncodeVarint[w]) = 1 + Len(EncodeVarint[w \div 128])
      BY <2>3, <2>4
    <2>6. SizeOfVarint(w) = 1 + SizeOfVarint(w \div 128)
      BY Zenon, <1>1, <2>1, SizeOfVarintStep
    <2> QED
      BY Zenon, <1>1, <2>2, <2>5, <2>6
  <1> QED
    BY Zenon, <1>2, <1>3

--------------------------------------------------------------------------------
(* Headers on the wire.  A loop along a list makes u[n] from u[n - 1].       *)

Follows(u, L, V, b, G) ==
  u \in [0..L -> V] /\ u[0] = b /\ \A n \in 1..L : u[n] = G[<<n, u[n - 1]>>]

\* A definition by recursion along 0..L has a solution.
LEMMA Along ==
  ASSUME NEW L \in Nat, NEW V, NEW b \in V, NEW G \in [(0..L) \X V -> V]
  PROVE  \E u : Follows(u, L, V, b, G)
  <1> DEFINE D == 0..L
             B == {0}
             c == [n \in B |-> b]
             p == [n \in D \ B |-> n - 1]
  <1>1. /\ D \in SUBSET Nat /\ B \in SUBSET D /\ c \in [B -> V]
        /\ p \in [D \ B -> D] /\ \A n \in D \ B : p[n] < n
    OBVIOUS
  <1>2. \A n \in 1..L : n \in D /\ n \notin B /\ p[n] = n - 1
    OBVIOUS
  <1>3. 0 \in D /\ 0 \in B /\ c[0] = b /\ G \in [D \X V -> V]
    OBVIOUS
  <1>4. [0..L -> V] = [D -> V]
    OBVIOUS
  <1> HIDE DEF D, B, c, p
  <1>5. Scheme(D, V, B, c, p, G)
    BY Zenon, <1>1, <1>3 DEF Scheme
  <1>6. PICK u : Solves(u, D, V, B, c, p, G)
    BY Zenon, <1>5, Recursion
  <1>7. u \in [D -> V] /\ \A n \in D : u[n] = Value(u, n, B, c, p, G)
    BY Zenon, <1>6 DEF Solves
  <1>8. u[0] = b
    BY Zenon, <1>3, <1>7 DEF Value
  <1>9. \A n \in 1..L : u[n] = G[<<n, u[n - 1]>>]
    BY Zenon, <1>2, <1>7 DEF Value
  <1> QED
    BY Zenon, <1>4, <1>7, <1>8, <1>9 DEF Follows

Bytes == Seq(Byte)

\* The concatenation of bytes: its length ...
LEMMA Joined ==
  ASSUME NEW a \in Bytes, NEW b \in Bytes
  PROVE  a \o b \in Bytes /\ Len(a \o b) = Len(a) + Len(b) /\ Len(a) \in Nat /\ Len(b) \in Nat
  BY DEF Bytes

\* ... and its elements.
LEMMA JoinedAt ==
  ASSUME NEW a \in Bytes, NEW b \in Bytes
  PROVE  /\ \A i \in 1..Len(a) : (a \o b)[i] = a[i]
         /\ \A i \in 1..Len(b) : (a \o b)[Len(a) + i] = b[i]
  BY DEF Bytes

\* A header on the wire is bytes.
LEMMA HeaderFieldType == ASSUME NEW h \in Bytes PROVE HeaderField(h) \in Bytes /\ Len(h) \in Nat
  <1>1. Len(h) \in Nat
    BY DEF Bytes
  <1>2. EncodeVarint[Len(h)] \in Bytes
    BY ZenonT(40), <1>1, EncodeVarintDef DEF Bytes
  <1>3. <<10>> \in Bytes
    BY DEF Bytes, Byte
  <1> QED
    BY Zenon, <1>1, <1>2, <1>3, ConcatFacts DEF HeaderField, Bytes

FieldStep(headers, u, n) == IF n = 0 THEN <<>> ELSE u[n - 1] \o HeaderField(headers[n])

\* The local function of HeaderFields is what its definition says.
LEMMA HeaderFieldsUpTo ==
  ASSUME NEW headers \in Seq(Bytes)
  PROVE  \E u : /\ u = [n \in 0..Len(headers) |-> FieldStep(headers, u, n)]
                /\ \A n \in 0..Len(headers) : u[n] \in Bytes
                /\ HeaderFields(headers) = u[Len(headers)]
  <1> DEFINE L == Len(headers)
             G == [x \in (0..L) \X Bytes |->
                     IF x[1] = 0 THEN <<>> ELSE x[2] \o HeaderField(headers[x[1]])]
  <1>1. L \in Nat /\ \A n \in 1..L : headers[n] \in Bytes
    OBVIOUS
  <1>2. ASSUME NEW n \in 0..L, NEW s \in Bytes
        PROVE  /\ <<n, s>> \in (0..L) \X Bytes
               /\ G[<<n, s>>] = IF n = 0 THEN <<>> ELSE s \o HeaderField(headers[n])
    BY Zenon
  <1>3. <<>> \in Bytes
    BY DEF Bytes
  <1> HIDE DEF L
  <1>4. G \in [(0..L) \X Bytes -> Bytes]
    <2>1. ASSUME NEW x \in (0..L) \X Bytes, x[1] # 0 PROVE x[2] \o HeaderField(headers[x[1]]) \in Bytes
      <3>1. x[1] \in 1..L /\ x[2] \in Bytes
        BY <1>1, <2>1
      <3>2. HeaderField(headers[x[1]]) \in Bytes
        BY Zenon, <1>1, <3>1, HeaderFieldType
      <3> QED
        BY Zenon, <3>1, <3>2, ConcatFacts DEF Bytes
    <2> QED
      BY Zenon, <1>3, <2>1
  <1> HIDE DEF G
  <1> DEFINE b == <<>>
  <1> HIDE DEF b
  <1>4a. b \in Bytes
    BY Zenon, <1>3 DEF b
  <1>4b. PICK u : Follows(u, L, Bytes, b, G)
    BY Zenon, <1>1, <1>4, <1>4a, Along
  <1>5. u \in [0..L -> Bytes] /\ u[0] = b /\ \A n \in 1..L : u[n] = G[<<n, u[n - 1]>>]
    BY Zenon, <1>4b DEF Follows
  <1>6. ASSUME NEW n \in 0..L PROVE u[n] = FieldStep(headers, u, n)
    <2>1. CASE n = 0
      BY Zenon, <1>5, <2>1 DEF FieldStep, b
    <2>2. CASE n # 0
      <3>1. n \in 1..L /\ n - 1 \in 0..L
        BY <1>1, <2>2
      <3>2. u[n - 1] \in Bytes /\ u[n] = G[<<n, u[n - 1]>>]
        BY Zenon, <1>5, <3>1
      <3> QED
        BY Zenon, <1>2, <2>2, <3>1, <3>2 DEF FieldStep
    <2> QED
      BY Zenon, <2>1, <2>2
  <1>7. u = [n \in 0..L |-> FieldStep(headers, u, n)]
    BY Zenon, <1>5, <1>6
  <1> DEFINE w == CHOOSE g : g = [n \in 0..L |-> FieldStep(headers, g, n)]
  <1>8. w = [n \in 0..L |-> FieldStep(headers, w, n)]
    BY Zenon, <1>7
  <1>9. HeaderFields(headers) = w[L]
    BY Zenon DEF HeaderFields, FieldStep, L
  <1> HIDE DEF w
  <1>10. \A n \in 0..L : w[n] = u[n]
    <2> DEFINE X == {n \in 0..L : w[n] # u[n]}
    <2> SUFFICES ASSUME X # {} PROVE FALSE
      BY Zenon
    <2>1. X \in SUBSET Nat
      BY <1>1
    <2>2. PICK n \in X : \A k \in X : n <= k
      BY Zenon, <2>1, Least
    <2>3. w[n] = FieldStep(headers, w, n)
      BY Zenon, <1>8, <2>2
    <2>4. n # 0 /\ w[n - 1] # u[n - 1]
      BY Zenon, <1>6, <2>2, <2>3 DEF FieldStep
    <2>5. n - 1 \in 0..L /\ ~(n <= n - 1)
      BY <1>1, <2>2, <2>4
    <2> QED
      BY Zenon, <2>2, <2>4, <2>5
  <1>11. L \in 0..L
    BY <1>1
  <1> QED
    BY Zenon, <1>5, <1>8, <1>9, <1>10, <1>11 DEF L

\* The headers on the wire are bytes.
LEMMA HeaderFieldsType ==
  ASSUME NEW headers \in Seq(Bytes) PROVE HeaderFields(headers) \in Bytes
  <1>1. Len(headers) \in 0..Len(headers)
    OBVIOUS
  <1> QED
    BY Zenon, <1>1, HeaderFieldsUpTo

\* No headers, no bytes.
LEMMA HeaderFieldsEmpty == HeaderFields(<<>>) = <<>>
  <1>1. <<>> \in Seq(Bytes) /\ Len(<<>>) = 0 /\ 0 \in 0..0
    OBVIOUS
  <1>2. PICK u : /\ u = [n \in 0..Len(<<>>) |-> FieldStep(<<>>, u, n)]
                 /\ HeaderFields(<<>>) = u[Len(<<>>)]
    BY Zenon, <1>1, HeaderFieldsUpTo
  <1>3. u[0] = FieldStep(<<>>, u, 0)
    BY Zenon, <1>1, <1>2
  <1> QED
    BY Zenon, <1>1, <1>2, <1>3 DEF FieldStep

\* One more header comes after the others.
LEMMA HeaderFieldsAppend ==
  ASSUME NEW headers \in Seq(Bytes), NEW h \in Bytes
  PROVE  HeaderFields(Append(headers, h)) = HeaderFields(headers) \o HeaderField(h)
  <1> DEFINE more == Append(headers, h)
             L == Len(headers)
  <1>1. /\ more \in Seq(Bytes) /\ Len(more) = L + 1 /\ more[L + 1] = h
        /\ \A n \in 1..L : more[n] = headers[n]
    OBVIOUS
  <1>2. /\ L \in Nat /\ L \in 0..L /\ L \in 0..(L + 1) /\ L + 1 \in 0..(L + 1) /\ L + 1 # 0
        /\ (L + 1) - 1 = L
    OBVIOUS
  <1>3. PICK u : /\ u = [n \in 0..L |-> FieldStep(headers, u, n)]
                 /\ HeaderFields(headers) = u[L]
    BY Zenon, HeaderFieldsUpTo
  <1> HIDE DEF more
  <1>4. PICK w : /\ w = [n \in 0..Len(more) |-> FieldStep(more, w, n)]
                 /\ HeaderFields(more) = w[Len(more)]
    BY Zenon, <1>1, HeaderFieldsUpTo
  <1> HIDE DEF L
  <1>5. /\ \A n \in 0..L : u[n] = FieldStep(headers, u, n)
        /\ \A n \in 0..(L + 1) : w[n] = FieldStep(more, w, n)
    BY Zenon, <1>1, <1>3, <1>4
  <1>6. \A n \in 0..L : w[n] = u[n]
    <2> DEFINE X == {n \in 0..L : w[n] # u[n]}
    <2> SUFFICES ASSUME X # {} PROVE FALSE
      BY Zenon
    <2>1. X \in SUBSET Nat
      BY <1>2
    <2>2. PICK n \in X : \A k \in X : n <= k
      BY Zenon, <2>1, Least
    <2>3. n \in 0..L /\ n \in 0..(L + 1) /\ w[n] # u[n]
      BY <1>2, <2>2
    <2>4. n # 0
      BY Zenon, <1>5, <2>3 DEF FieldStep
    <2>5. n \in 1..L /\ n - 1 \in 0..L /\ ~(n <= n - 1)
      BY <1>2, <2>3, <2>4
    <2>6. w[n - 1] = u[n - 1] /\ more[n] = headers[n]
      BY Zenon, <1>1, <2>2, <2>5
    <2> QED
      BY Zenon, <1>5, <2>3, <2>4, <2>6 DEF FieldStep
  <1>7. w[L + 1] = w[L] \o HeaderField(h)
    BY Zenon, <1>1, <1>2, <1>5 DEF FieldStep
  <1> QED
    BY Zenon, <1>1, <1>2, <1>3, <1>4, <1>6, <1>7 DEF more, L

\* SizeVT counts a field as Marshal writes it.
LEMMA SizedBytesExact ==
  ASSUME NEW b \in Bytes, NEW tag \in Byte
  PROVE  /\ <<tag>> \o EncodeVarint[Len(b)] \o b \in Bytes
         /\ Len(<<tag>> \o EncodeVarint[Len(b)] \o b) = SizedBytes(b)
         /\ SizedBytes(b) \in Nat
  <1> DEFINE v == EncodeVarint[Len(b)]
             t == <<tag>>
  <1>1. Len(b) \in Nat /\ t \in Bytes /\ Len(t) = 1
    BY DEF Bytes
  <1>2. v \in Bytes /\ Len(v) = SizeOfVarint(Len(b)) /\ Len(v) \in Nat
    <2>1. v \in Bytes /\ Len(v) = SizeOfVarint(Len(b))
      BY ZenonT(40), <1>1, EncodeVarintDef, VarintSized DEF Bytes
    <2> QED
      BY <2>1 DEF Bytes
  <1> HIDE DEF v, t
  <1>3. t \o v \in Bytes /\ Len(t \o v) = 1 + Len(v)
    BY Zenon, <1>1, <1>2, Joined
  <1>4. (t \o v) \o b \in Bytes /\ Len((t \o v) \o b) = 1 + Len(v) + Len(b)
    BY Zenon, <1>3, Joined
  <1>5. SizedBytes(b) = 1 + Len(b) + Len(v)
    BY Zenon, <1>2 DEF SizedBytes
  <1>6. SizedBytes(b) = 1 + Len(v) + Len(b) /\ SizedBytes(b) \in Nat
    BY <1>1, <1>2, <1>5
  <1> QED
    BY Zenon, <1>4, <1>6 DEF v, t

\* SizedHeaders is exact.
LEMMA HeadersSized ==
  ASSUME NEW headers \in Seq(Bytes) PROVE SizedHeaders(headers) = Len(HeaderFields(headers))
  <1> DEFINE L == Len(headers)
             Step(w, n) == IF n = 0 THEN 0 ELSE w[n - 1] + SizedBytes(headers[n])
             w == CHOOSE g : g = [n \in 0..L |-> Step(g, n)]
  <1>1. L \in Nat /\ L \in 0..L /\ \A n \in 1..L : headers[n] \in Bytes
    OBVIOUS
  <1>2. SizedHeaders(headers) = w[L]
    BY Zenon DEF SizedHeaders
  <1>3. PICK u : /\ u = [n \in 0..L |-> FieldStep(headers, u, n)]
                 /\ \A n \in 0..L : u[n] \in Bytes
                 /\ HeaderFields(headers) = u[L]
    BY Zenon, HeaderFieldsUpTo
  <1> DEFINE v == [n \in 0..L |-> Len(u[n])]
  <1> HIDE DEF L
  <1>4. ASSUME NEW n \in 0..L PROVE v[n] = Step(v, n)
    <2>1. u[n] = FieldStep(headers, u, n) /\ v[n] = Len(u[n])
      BY Zenon, <1>3
    <2>2. CASE n = 0
      <3>1. u[n] = <<>>
        BY Zenon, <2>1, <2>2 DEF FieldStep
      <3> HIDE DEF v
      <3>2. v[n] = 0
        BY Zenon, <2>1, <3>1
      <3> QED
        BY Zenon, <2>2, <3>2
    <2>3. CASE n # 0
      <3>1. n \in 1..L /\ n - 1 \in 0..L
        BY <1>1, <2>3
      <3> DEFINE a == u[n - 1]
                 f == HeaderField(headers[n])
      <3>2. v[n - 1] = Len(a) /\ a \in Bytes
        BY Zenon, <1>3, <3>1
      <3>3. 10 \in Byte
        BY DEF Byte
      <3>4. f \in Bytes /\ Len(f) = SizedBytes(headers[n])
        BY Zenon, <1>1, <3>1, <3>3, SizedBytesExact DEF HeaderField
      <3>5. u[n] = a \o f
        BY Zenon, <2>1, <2>3 DEF FieldStep
      <3> HIDE DEF a, f
      <3>6. Len(a \o f) = Len(a) + Len(f)
        BY Zenon, <3>2, <3>4, Joined
      <3> QED
        BY Zenon, <2>1, <2>3, <3>2, <3>4, <3>5, <3>6
    <2> QED
      BY Zenon, <2>2, <2>3
  <1>5. v = [n \in 0..L |-> Step(v, n)]
    BY Zenon, <1>4
  <1>6. w = [n \in 0..L |-> Step(w, n)]
    BY Zenon, <1>5
  <1> HIDE DEF w, v
  <1>7. \A n \in 0..L : w[n] = v[n]
    <2> DEFINE X == {n \in 0..L : w[n] # v[n]}
    <2> SUFFICES ASSUME X # {} PROVE FALSE
      BY Zenon
    <2>1. X \in SUBSET Nat
      BY <1>1
    <2>2. PICK n \in X : \A k \in X : n <= k
      BY Zenon, <2>1, Least
    <2>3. w[n] = Step(w, n) /\ v[n] = Step(v, n) /\ w[n] # v[n]
      BY Zenon, <1>4, <1>6, <2>2
    <2>4. n # 0 /\ w[n - 1] # v[n - 1]
      BY Zenon, <2>3
    <2>5. n - 1 \in 0..L /\ ~(n <= n - 1)
      BY <1>1, <2>2, <2>4
    <2> QED
      BY Zenon, <2>2, <2>4, <2>5
  <1> QED
    BY Zenon, <1>1, <1>2, <1>3, <1>7 DEF v

\* The size of a method or a body, absent or not ...
LEMMA BytesFieldSized ==
  ASSUME NEW b \in Bytes, NEW tag \in Byte
  PROVE  /\ BytesField(tag, b) \in Bytes
         /\ Len(BytesField(tag, b)) = IF b = <<>> THEN 0 ELSE SizedBytes(b)
  <1>1. CASE b = <<>>
    <2>1. BytesField(tag, b) = <<>>
      BY Zenon, <1>1 DEF BytesField
    <2>2. BytesField(tag, b) \in Bytes /\ Len(BytesField(tag, b)) = 0
      BY <2>1 DEF Bytes
    <2> QED
      BY Zenon, <1>1, <2>2
  <1>2. CASE b # <<>>
    BY Zenon, <1>2, SizedBytesExact DEF BytesField
  <1> QED
    BY Zenon, <1>1, <1>2

\* ... and of an id or a code.
LEMMA VarintFieldSized ==
  ASSUME NEW v \in Nat, NEW tag \in Byte
  PROVE  /\ VarintField(tag, v) \in Bytes
         /\ Len(VarintField(tag, v)) = IF v = 0 THEN 0 ELSE 1 + SizeOfVarint(v)
  <1>1. CASE v = 0
    <2>1. VarintField(tag, v) = <<>>
      BY Zenon, <1>1 DEF VarintField
    <2>2. VarintField(tag, v) \in Bytes /\ Len(VarintField(tag, v)) = 0
      BY <2>1 DEF Bytes
    <2> QED
      BY Zenon, <1>1, <2>2
  <1>2. CASE v # 0
    <2> DEFINE t == <<tag>>
               e == EncodeVarint[v]
    <2>1. t \in Bytes /\ Len(t) = 1
      BY DEF Bytes
    <2>2. e \in Bytes /\ Len(e) = SizeOfVarint(v)
      BY ZenonT(40), EncodeVarintDef, VarintSized DEF Bytes
    <2> HIDE DEF t, e
    <2>3. t \o e \in Bytes /\ Len(t \o e) = 1 + SizeOfVarint(v)
      BY ZenonT(40), <2>1, <2>2, Joined
    <2> QED
      BY Zenon, <1>2, <2>3 DEF VarintField, t, e
  <1> QED
    BY Zenon, <1>1, <1>2

\* The types of a message's fields.
LEMMA MessageFields ==
  ASSUME NEW m \in Message
  PROVE  /\ m.headers \in Seq(Bytes) /\ m.method \in Bytes /\ m.id \in Nat
         /\ m.body \in Bytes /\ m.code \in Nat /\ m.unknown \in Bytes
         /\ m.kind \in {"request", "response", "event"}
  BY Zenon DEF Message, Bytes

\* SizeVT is exact for every message there is, unknown fields included.
LEMMA SizeExact ==
  ASSUME NEW m \in Message
  PROVE  Marshal(m) \in Bytes /\ SizeVT(m) = Len(Marshal(m))
  <1> DEFINE h == HeaderFields(m.headers)
             a == BytesField(18, m.method)
             b == VarintField(24, m.id)
             c == BytesField(34, m.body)
             d == VarintField(40, m.code)
             u == m.unknown
  <1>1. 18 \in Byte /\ 24 \in Byte /\ 34 \in Byte /\ 40 \in Byte
    BY DEF Byte
  <1>2. h \in Bytes /\ a \in Bytes /\ b \in Bytes /\ c \in Bytes /\ d \in Bytes /\ u \in Bytes
    BY Zenon, <1>1, MessageFields, HeaderFieldsType, BytesFieldSized, VarintFieldSized
  <1>3. /\ Len(h) = SizedHeaders(m.headers)
        /\ Len(a) = IF m.method = <<>> THEN 0 ELSE SizedBytes(m.method)
        /\ Len(b) = IF m.id = 0 THEN 0 ELSE 1 + SizeOfVarint(m.id)
        /\ Len(c) = IF m.body = <<>> THEN 0 ELSE SizedBytes(m.body)
        /\ Len(d) = IF m.code = 0 THEN 0 ELSE 1 + SizeOfVarint(m.code)
    BY Zenon, <1>1, MessageFields, HeadersSized, BytesFieldSized, VarintFieldSized
  <1>4. SizeVT(m) = Len(h) + Len(a) + Len(b) + Len(c) + Len(d) + Len(u)
    BY ZenonT(40), <1>3 DEF SizeVT
  <1>5. Marshal(m) = h \o a \o b \o c \o d \o u
    BY Zenon DEF Marshal
  <1> HIDE DEF h, a, b, c, d, u
  <1>6. h \o a \in Bytes /\ Len(h \o a) = Len(h) + Len(a)
    BY Zenon, <1>2, Joined
  <1>7. h \o a \o b \in Bytes /\ Len(h \o a \o b) = Len(h) + Len(a) + Len(b)
    BY Zenon, <1>2, <1>6, Joined
  <1>8. h \o a \o b \o c \in Bytes /\ Len(h \o a \o b \o c) = Len(h) + Len(a) + Len(b) + Len(c)
    BY Zenon, <1>2, <1>7, Joined
  <1>9. /\ h \o a \o b \o c \o d \in Bytes
        /\ Len(h \o a \o b \o c \o d) = Len(h) + Len(a) + Len(b) + Len(c) + Len(d)
    BY Zenon, <1>2, <1>8, Joined
  <1>10. /\ h \o a \o b \o c \o d \o u \in Bytes
         /\ Len(h \o a \o b \o c \o d \o u) = Len(h) + Len(a) + Len(b) + Len(c) + Len(d) + Len(u)
    BY ZenonT(40), <1>2, <1>9, Joined
  <1> QED
    BY Zenon, <1>4, <1>5, <1>10

--------------------------------------------------------------------------------
(* Frames.  Frame(m) is what the encoder should put on the stream for m.     *)

Shrinks(m) ==
  /\ Len(Marshal(m)) > compressionThreshold
  /\ Len(EncodeAll(Marshal(m))) < Len(Marshal(m))
Payload(m) == IF Shrinks(m) THEN EncodeAll(Marshal(m)) ELSE Marshal(m)
FrameFlag(m) == IF Shrinks(m) THEN ZstdFlag(m.kind) ELSE Flag(m.kind)
FrameHead(m) == PutUint32(1 + Len(Payload(m))) \o <<FrameFlag(m)>>
Frame(m) == FrameHead(m) \o Payload(m)
FrameOf(x) == IF x \in Messages THEN Frame(x) ELSE x.raw
Frames == Messages \union RawFrames

\* A number from its four digits to the base 256.
LEMMA FourDigits ==
  ASSUME NEW n \in Int, NEW a \in Int, NEW b \in Int, NEW c \in Int,
         NEW r \in Int, NEW s \in Int, NEW t \in Int,
         n = 256 * a + t, a = 256 * b + s, b = 256 * c + r
  PROVE  c * 16777216 + r * 65536 + s * 256 + t = n
  BY SMT

\* binary.BigEndian reads back the number it wrote.
LEMMA Uint32Inverse ==
  ASSUME NEW n \in Nat, n <= Huge
  PROVE  /\ PutUint32(n) \in Bytes /\ Len(PutUint32(n)) = 4
         /\ Uint32(PutUint32(n)) = n
  <1> DEFINE a == n \div 256
             b == n \div 65536
             c == n \div 16777216
  <1>1. a \in Nat /\ b \in Nat /\ c \in Nat
    BY SMT
  <1>2. n = 256 * a + (n % 256) /\ n % 256 \in Byte
    BY SMT DEF Byte
  <1>3. a = 256 * b + (a % 256) /\ a % 256 \in Byte
    BY SMT DEF Byte
  <1>4. b = 256 * c + (b % 256) /\ b % 256 \in Byte
    BY SMT DEF Byte
  <1>5. c % 256 = c /\ c \in Byte
    BY SMT DEF Huge, Byte
  <1>6. PutUint32(n) = <<c % 256, b % 256, a % 256, n % 256>>
    BY SMT DEF PutUint32
  <1> HIDE DEF a, b, c
  <1>7. PutUint32(n) \in Bytes /\ Len(PutUint32(n)) = 4
    <2>1. c % 256 \in Byte /\ b % 256 \in Byte /\ a % 256 \in Byte /\ n % 256 \in Byte
      BY ZenonT(40), <1>2, <1>3, <1>4, <1>5
    <2> QED
      BY SMTT(40), <1>6, <2>1 DEF Bytes
  <1>8. Uint32(PutUint32(n)) = c * 16777216 + (b % 256) * 65536 + (a % 256) * 256 + (n % 256)
    BY SMT, <1>5, <1>6 DEF Uint32
  <1>9. c * 16777216 + (b % 256) * 65536 + (a % 256) * 256 + (n % 256) = n
    <2> DEFINE r == b % 256
               s == a % 256
               t == n % 256
    <2>1. r \in Int /\ s \in Int /\ t \in Int /\ a \in Int /\ b \in Int /\ c \in Int
      BY SMT, <1>1, <1>2, <1>3, <1>4
    <2>2. n = 256 * a + t /\ a = 256 * b + s /\ b = 256 * c + r
      BY SMT, <1>2, <1>3, <1>4
    <2> HIDE DEF r, s, t
    <2>3. c * 16777216 + r * 65536 + s * 256 + t = n
      BY SMT, <2>1, <2>2, FourDigits
    <2> QED
      BY SMT, <2>3 DEF r, s, t
  <1> QED
    BY SMT, <1>7, <1>8, <1>9

\* The bytes that decide Uint32 are the first four.
LEMMA Uint32Prefix ==
  ASSUME NEW s, NEW t, \A k \in 1..4 : s[k] = t[k] PROVE Uint32(s) = Uint32(t)
  <1>1. s[1] = t[1] /\ s[2] = t[2] /\ s[3] = t[3] /\ s[4] = t[4]
    BY SMT
  <1> QED
    BY SMT, <1>1 DEF Uint32

\* A byte is a number.
LEMMA ByteNat == ASSUME NEW x \in Byte PROVE x \in Nat
  BY DEF Byte

\* Four numbers make one ...
LEMMA FourNat ==
  ASSUME NEW s, NEW a \in Nat, NEW b \in Nat, NEW c \in Nat, NEW e \in Nat,
         a = s[1], b = s[2], c = s[3], e = s[4]
  PROVE  Uint32(s) \in Nat
  <1>1. Uint32(s) = a * 16777216 + b * 65536 + c * 256 + e
    BY SMT DEF Uint32
  <1> QED
    BY SMT, <1>1

\* ... and so does the head of a frame.
LEMMA Uint32Type ==
  ASSUME NEW s \in Bytes, Len(s) >= 4 PROVE Uint32(s) \in Nat
  <1>1. \A k \in 1..4 : k \in 1..Len(s)
    BY DEF Bytes
  <1>2. \A k \in 1..Len(s) : s[k] \in Byte
    BY DEF Bytes
  <1>3. 1 \in 1..4 /\ 2 \in 1..4 /\ 3 \in 1..4 /\ 4 \in 1..4
    OBVIOUS
  <1>4. s[1] \in Nat /\ s[2] \in Nat /\ s[3] \in Nat /\ s[4] \in Nat
    BY Zenon, <1>1, <1>2, <1>3, ByteNat
  <1> QED
    BY Zenon, <1>4, FourNat

\* What the encoder hands on for a message.
LEMMA PayloadFacts ==
  ASSUME NEW m \in Messages
  PROVE  /\ m \in Message /\ Marshal(m) \in Bytes /\ SizeVT(m) = Len(Marshal(m))
         /\ EncodeAll(Marshal(m)) \in Bytes
         /\ Payload(m) \in Bytes /\ Len(Payload(m)) <= Len(Marshal(m))
         /\ Len(Payload(m)) \in Nat /\ Len(Marshal(m)) \in Nat
         /\ 1 + Len(Payload(m)) \in Nat /\ 1 + Len(Payload(m)) <= Huge
         /\ FrameFlag(m) \in 1..6
  <1>1. m \in Message /\ Len(Marshal(m)) < Huge
    BY Zenon, MessagesAssumption
  <1>2. Marshal(m) \in Bytes /\ SizeVT(m) = Len(Marshal(m))
    BY Zenon, <1>1, SizeExact
  <1>3. EncodeAll(Marshal(m)) \in Bytes
    BY Zenon, ZstdAssumption DEF Bytes
  <1>4. Payload(m) \in Bytes
    BY Zenon, <1>2, <1>3 DEF Payload
  <1>5. Len(Payload(m)) \in Nat /\ Len(Marshal(m)) \in Nat
    BY <1>2, <1>4 DEF Bytes
  <1>6. Len(Payload(m)) <= Len(Marshal(m))
    <2>1. CASE Shrinks(m)
      <3>1. Payload(m) = EncodeAll(Marshal(m)) /\ Len(EncodeAll(Marshal(m))) < Len(Marshal(m))
        BY Zenon, <2>1 DEF Payload, Shrinks
      <3>2. Len(Payload(m)) < Len(Marshal(m))
        BY Zenon, <3>1
      <3> QED
        BY <1>5, <3>2
    <2>2. CASE ~Shrinks(m)
      <3>1. Len(Payload(m)) = Len(Marshal(m))
        BY Zenon, <2>2 DEF Payload
      <3> QED
        BY <1>5, <3>1
    <2> QED
      BY Zenon, <2>1, <2>2
  <1>7. 1 + Len(Payload(m)) \in Nat /\ 1 + Len(Payload(m)) <= Huge
    BY SMT, <1>1, <1>5, <1>6 DEF Huge
  <1>8. Flag(m.kind) \in 1..3 /\ ZstdFlag(m.kind) \in 1..6
    <2>1. m.kind \in {"request", "response", "event"}
      BY Zenon, <1>1, MessageFields
    <2> QED
      BY <2>1 DEF Flag, ZstdFlag
  <1>9. Flag(m.kind) \in 1..6
    BY <1>8
  <1>10. FrameFlag(m) \in 1..6
    BY Zenon, <1>8, <1>9 DEF FrameFlag
  <1> QED
    BY Zenon, <1>1, <1>2, <1>3, <1>4, <1>5, <1>6, <1>7, <1>10

\* r is the array with b copied to it from place at on.
IsCopy(r, array, at, b) ==
  /\ r \in Bytes /\ Len(r) = Len(array)
  /\ \A k \in 1..Len(b) : r[at + k] = b[k]
  /\ \A k \in (at + Len(b) + 1)..Len(array) : r[k] = array[k]

\* copy() inside a slice: the bytes land at their place and the rest stays.
LEMMA Copied ==
  ASSUME NEW array \in Bytes, NEW at \in Nat, NEW b \in Bytes, at + Len(b) <= Len(array)
  PROVE  IsCopy(CopyTo(array, at, b), array, at, b)
  <1> DEFINE x == SubSeq(array, 1, at)
             z == SubSeq(array, at + Len(b) + 1, Len(array))
             N == Len(array)
             L == Len(b)
  <1>1. N \in Nat /\ L \in Nat /\ at + L <= N
    BY DEF Bytes
  <1>2. x \in Bytes /\ Len(x) = at
    BY <1>1, SubSeqFacts DEF Bytes
  <1>3. /\ z \in Bytes /\ Len(z) = N - (at + L)
        /\ \A k \in 1..(N - (at + L)) : z[k] = array[at + L + k]
    BY SMTT(40), <1>1 DEF Bytes
  <1> DEFINE y == x \o b
             r == y \o z
  <1> HIDE DEF x, z, N, L
  <1>4. /\ y \in Bytes /\ Len(y) = at + L
        /\ \A k \in 1..L : y[at + k] = b[k]
    BY Zenon, <1>2, Joined, JoinedAt DEF L
  <1> HIDE DEF y
  <1>5. /\ r \in Bytes /\ Len(r) = N
        /\ \A k \in 1..(at + L) : r[k] = y[k]
        /\ \A k \in 1..(N - (at + L)) : r[at + L + k] = z[k]
    <2>1. /\ r \in Bytes /\ Len(r) = Len(y) + Len(z)
          /\ \A k \in 1..Len(y) : r[k] = y[k]
          /\ \A k \in 1..Len(z) : r[Len(y) + k] = z[k]
      BY Zenon, <1>3, <1>4, Joined, JoinedAt
    <2> HIDE DEF r
    <2> QED
      BY <1>1, <1>3, <1>4, <2>1
  <1>6. CopyTo(array, at, b) = r
    BY Zenon DEF CopyTo, r, y, x, z
  <1> HIDE DEF r
  <1>7. \A k \in 1..L : r[at + k] = b[k]
    BY <1>1, <1>4, <1>5
  <1>8. ASSUME NEW k \in (at + L + 1)..N PROVE r[k] = array[k]
    <2>1. PICK i \in 1..(N - (at + L)) : k = at + L + i
      <3>1. k - (at + L) \in 1..(N - (at + L)) /\ k = at + L + (k - (at + L))
        BY <1>1
      <3> QED
        BY <3>1
    <2> QED
      BY Zenon, <1>3, <1>5, <2>1
  <1> QED
    BY Zenon, <1>5, <1>6, <1>7, <1>8 DEF IsCopy, N, L

\* getBuffer gives a slice of the size asked for.
LEMMA BufferFits ==
  ASSUME NEW array \in Bytes, NEW size \in Nat
  PROVE  /\ GetBuffer(array, size).array \in Bytes /\ size <= Len(GetBuffer(array, size).array)
         /\ GetBuffer(array, size).len = size
  <1>1. CASE Len(array) < size
    <2> DEFINE a == [k \in 1..size |-> 0]
    <2>1. a \in Bytes /\ Len(a) = size
      BY DEF Bytes, Byte
    <2> HIDE DEF a
    <2>2. GetBuffer(array, size) = [array |-> a, len |-> size]
      BY Zenon, <1>1 DEF GetBuffer, a
    <2> QED
      BY <2>1, <2>2
  <1>2. CASE ~(Len(array) < size)
    <2>1. GetBuffer(array, size) = [array |-> array, len |-> size]
      BY Zenon, <1>2 DEF GetBuffer
    <2>2. size <= Len(array)
      BY <1>2 DEF Bytes
    <2> QED
      BY <2>1, <2>2
  <1> QED
    BY Zenon, <1>1, <1>2

\* The length, the flag and the payload are where the reader looks for them.
LEMMA FrameFacts ==
  ASSUME NEW m \in Messages
  PROVE  /\ FrameHead(m) \in Bytes /\ Len(FrameHead(m)) = 5
         /\ Frame(m) \in Bytes /\ Len(Frame(m)) = 5 + Len(Payload(m))
         /\ Uint32(Frame(m)) = 1 + Len(Payload(m))
         /\ Frame(m)[5] = FrameFlag(m)
         /\ \A k \in 1..5 : Frame(m)[k] = FrameHead(m)[k]
         /\ \A k \in 1..Len(Payload(m)) : Frame(m)[5 + k] = Payload(m)[k]
  <1> DEFINE n == 1 + Len(Payload(m))
             p == PutUint32(n)
             f == <<FrameFlag(m)>>
             h == p \o f
             y == Payload(m)
             r == h \o y
  <1>1. n \in Nat /\ n <= Huge /\ y \in Bytes /\ FrameFlag(m) \in 1..6
    BY Zenon, PayloadFacts
  <1>2. p \in Bytes /\ Len(p) = 4 /\ Uint32(p) = n
    BY Zenon, <1>1, Uint32Inverse
  <1>3. f \in Bytes /\ Len(f) = 1 /\ f[1] = FrameFlag(m)
    BY <1>1 DEF Bytes, Byte
  <1> HIDE DEF n, p, f, y
  <1>4. h \in Bytes /\ Len(h) = 5 /\ (\A k \in 1..4 : h[k] = p[k]) /\ h[5] = FrameFlag(m)
    <2>1. /\ h \in Bytes /\ Len(h) = Len(p) + Len(f)
          /\ \A k \in 1..Len(p) : h[k] = p[k]
          /\ \A k \in 1..Len(f) : h[Len(p) + k] = f[k]
      BY Zenon, <1>2, <1>3, Joined, JoinedAt
    <2> HIDE DEF h
    <2> QED
      BY <1>2, <1>3, <2>1
  <1> HIDE DEF h
  <1>5. /\ r \in Bytes /\ Len(r) = 5 + Len(y)
        /\ \A k \in 1..5 : r[k] = h[k]
        /\ \A k \in 1..Len(y) : r[5 + k] = y[k]
    <2>1. /\ r \in Bytes /\ Len(r) = Len(h) + Len(y)
          /\ \A k \in 1..Len(h) : r[k] = h[k]
          /\ \A k \in 1..Len(y) : r[Len(h) + k] = y[k]
      BY ZenonT(40), <1>1, <1>4, Joined, JoinedAt
    <2> HIDE DEF r
    <2> QED
      BY <1>4, <2>1
  <1> HIDE DEF r
  <1>6. (\A k \in 1..4 : r[k] = p[k]) /\ r[5] = FrameFlag(m)
    BY <1>4, <1>5
  <1>7. Uint32(r) = n
    BY Zenon, <1>2, <1>6, Uint32Prefix
  <1>8. FrameHead(m) = h /\ Frame(m) = r
    BY Zenon DEF FrameHead, Frame, h, p, f, n, r, y
  <1> QED
    BY Zenon, <1>4, <1>5, <1>6, <1>7, <1>8 DEF n, y

\* Whatever a pooled buffer held, the encoder leaves the frame of m in it.
LEMMA EncodedIsFrame ==
  ASSUME NEW m \in Messages, NEW array \in Bytes
  PROVE  LET enc == Encoded(m, array)
         IN  /\ enc.array \in Bytes
             /\ enc.used = Len(Frame(m)) /\ enc.used <= Len(enc.array)
             /\ SubSeq(enc.array, 1, enc.used) = Frame(m)
  <1> DEFINE M == Marshal(m)
             n == Len(M)
             buf == GetBuffer(array, headerSize + SizeVT(m))
             marshalled == CopyTo(buf.array, buf.len - n, M)
             payload == SubSeq(marshalled, headerSize + 1, headerSize + n)
             compressed == CompressZstd(payload)
             shrinks == n > compressionThreshold /\ Len(compressed) < n
             payloadLen == IF shrinks THEN Len(compressed) ELSE n
             body == IF shrinks THEN CopyTo(marshalled, headerSize, compressed) ELSE marshalled
             flag == IF shrinks THEN ZstdFlag(m.kind) ELSE Flag(m.kind)
             head == PutUint32(1 + payloadLen) \o <<flag>>
             final == CopyTo(body, 0, head)
  <1>1. Encoded(m, array) = [array |-> final, used |-> headerSize + payloadLen]
    BY Zenon DEF Encoded
  <1>2. /\ M \in Bytes /\ SizeVT(m) = n /\ n \in Nat /\ EncodeAll(M) \in Bytes
        /\ Payload(m) \in Bytes /\ Len(Payload(m)) <= n /\ Len(Payload(m)) \in Nat
    BY Zenon, PayloadFacts
  <1>3. headerSize = 5
    BY DEF headerSize
  <1> DEFINE P == Payload(m)
             l == Len(P)
  <1>4. /\ buf.array \in Bytes /\ Len(buf.array) \in Nat /\ 5 + n <= Len(buf.array)
        /\ buf.len - n = 5
    <2>1. 5 + n \in Nat /\ headerSize + SizeVT(m) = 5 + n
      BY <1>2, <1>3
    <2>2. buf.array \in Bytes /\ 5 + n <= Len(buf.array) /\ buf.len = 5 + n
      BY Zenon, <2>1, BufferFits
    <2> HIDE DEF buf
    <2> QED
      BY <1>2, <2>2 DEF Bytes
  <1> HIDE DEF M, n, buf
  <1>5. /\ marshalled \in Bytes /\ Len(marshalled) = Len(buf.array)
        /\ \A k \in 1..n : marshalled[5 + k] = M[k]
    <2> DEFINE A == buf.array
               at == buf.len - n
    <2>1. A \in Bytes /\ at \in Nat /\ M \in Bytes /\ at + Len(M) <= Len(A) /\ at = 5
      BY <1>2, <1>4 DEF n
    <2>2. marshalled = CopyTo(A, at, M)
      OBVIOUS
    <2> HIDE DEF A, at, marshalled
    <2>3. /\ marshalled \in Bytes /\ Len(marshalled) = Len(A)
          /\ \A k \in 1..Len(M) : marshalled[at + k] = M[k]
      <3>1. IsCopy(CopyTo(A, at, M), A, at, M)
        BY Zenon, <2>1, Copied
      <3> QED
        BY Zenon, <2>2, <3>1 DEF IsCopy
    <2> QED
      BY Zenon, <2>1, <2>3 DEF n, A
  <1> HIDE DEF marshalled
  <1>6. payload = M
    <2>1. /\ payload \in Bytes /\ Len(payload) = n
          /\ \A k \in 1..n : payload[k] = marshalled[5 + k]
      BY <1>2, <1>3, <1>4, <1>5 DEF Bytes
    <2> HIDE DEF payload
    <2> QED
      BY Zenon, <1>2, <1>5, <2>1, SeqSame DEF Bytes, n
  <1> HIDE DEF payload
  <1>7. compressed = EncodeAll(M)
    BY Zenon, <1>6 DEF CompressZstd
  <1> HIDE DEF compressed
  <1>8. shrinks <=> Shrinks(m)
    BY Zenon, <1>7 DEF Shrinks, M, n
  <1> HIDE DEF shrinks
  <1>9. payloadLen = l /\ flag = FrameFlag(m)
    BY Zenon, <1>7, <1>8 DEF Payload, FrameFlag, M, n
  <1>10. /\ body \in Bytes /\ Len(body) = Len(buf.array)
         /\ \A k \in 1..l : body[5 + k] = P[k]
    <2>1. CASE shrinks
      <3>1. P = compressed /\ body = CopyTo(marshalled, headerSize, P) /\ P \in Bytes
        BY Zenon, <1>2, <1>7, <1>8, <2>1 DEF Payload, M
      <3>2. headerSize \in Nat /\ headerSize + Len(P) <= Len(marshalled)
        BY <1>2, <1>3, <1>4, <1>5
      <3> HIDE DEF body, P
      <3>3. /\ body \in Bytes /\ Len(body) = Len(marshalled)
            /\ \A k \in 1..Len(P) : body[headerSize + k] = P[k]
        <4>1. IsCopy(CopyTo(marshalled, headerSize, P), marshalled, headerSize, P)
          BY Zenon, <1>5, <3>1, <3>2, Copied
        <4> QED
          BY Zenon, <3>1, <4>1 DEF IsCopy
      <3> QED
        BY Zenon, <1>3, <1>5, <3>3
    <2>2. CASE ~shrinks
      BY Zenon, <1>5, <1>8, <2>2 DEF Payload, M, n
    <2> QED
      BY Zenon, <2>1, <2>2
  <1>11. head = FrameHead(m)
    BY Zenon, <1>9 DEF FrameHead
  <1> DEFINE F == Frame(m)
  <1>12. /\ head \in Bytes /\ Len(head) = 5
         /\ F \in Bytes /\ Len(F) = 5 + l
         /\ \A k \in 1..5 : F[k] = head[k]
         /\ \A k \in 1..l : F[5 + k] = P[k]
    BY ZenonT(40), <1>11, FrameFacts
  <1>13. headerSize + payloadLen = 5 + l
    BY Zenon, <1>3, <1>9
  <1> HIDE DEF payloadLen, flag, body, head, F
  <1>14. /\ final \in Bytes /\ Len(final) = Len(buf.array)
         /\ \A k \in 1..5 : final[k] = head[k]
         /\ \A k \in 6..Len(body) : final[k] = body[k]
    <2> DEFINE z == 0
    <2>1. z \in Nat /\ z + Len(head) <= Len(body) /\ z = 0
      BY <1>2, <1>4, <1>10, <1>12
    <2>2. final = CopyTo(body, z, head)
      OBVIOUS
    <2> HIDE DEF z, final
    <2>3. /\ final \in Bytes /\ Len(final) = Len(body)
          /\ \A k \in 1..Len(head) : final[z + k] = head[k]
          /\ \A k \in (z + Len(head) + 1)..Len(body) : final[k] = body[k]
      <3>1. IsCopy(CopyTo(body, z, head), body, z, head)
        BY Zenon, <1>10, <1>12, <2>1, Copied
      <3> QED
        BY Zenon, <2>2, <3>1 DEF IsCopy
    <2> QED
      BY <1>10, <1>12, <2>1, <2>3
  <1> HIDE DEF final, P, l
  <1>15. l \in Nat /\ l <= n
    BY Zenon, <1>2 DEF l, P
  <1>16. ASSUME NEW k \in 1..(5 + l) PROVE final[k] = F[k]
    <2>1. CASE k <= 5
      BY SMTT(40), <1>12, <1>14, <1>15, <2>1
    <2>2. CASE ~(k <= 5)
      <3>1. k - 5 \in 1..l /\ 5 + (k - 5) = k /\ k \in 6..Len(body)
        BY <1>2, <1>4, <1>10, <1>15, <2>2
      <3>2. PICK j \in 1..l : 5 + j = k
        BY Zenon, <3>1
      <3>3. F[5 + j] = P[j] /\ body[5 + j] = P[j] /\ final[k] = body[k]
        BY Zenon, <1>10, <1>12, <1>14, <3>1, <3>2
      <3> QED
        BY Zenon, <3>2, <3>3
    <2> QED
      BY Zenon, <2>1, <2>2
  <1>17. SubSeq(final, 1, 5 + l) = F
    <2> DEFINE s == SubSeq(final, 1, 5 + l)
    <2>1. s \in Bytes /\ Len(s) = 5 + l /\ \A k \in 1..(5 + l) : s[k] = final[k]
      BY SMTT(40), <1>2, <1>4, <1>14, <1>15 DEF Bytes
    <2> HIDE DEF s
    <2>2. s = F
      BY ZenonT(40), <1>12, <1>16, <2>1, SeqSame DEF Bytes
    <2> QED
      BY Zenon, <2>2 DEF s
  <1>18. 5 + l <= Len(final)
    BY SMTT(40), <1>2, <1>4, <1>14, <1>15
  <1>19. Encoded(m, array).array = final /\ Encoded(m, array).used = 5 + l
    BY <1>1, <1>13
  <1> QED
    BY Zenon, <1>12, <1>14, <1>17, <1>18, <1>19 DEF F

--------------------------------------------------------------------------------
(* The stream holds the frames after the first lo of fs, one after the other *)
(* with nothing between them: frame n ends at byte c[n].                     *)

AtCut(c, n, fs, s) ==
  /\ c[n] = c[n - 1] + Len(FrameOf(fs[n]))
  /\ \A k \in 1..Len(FrameOf(fs[n])) : s[c[n - 1] + k] = FrameOf(fs[n])[k]

IsCut(c, lo, fs, s) ==
  /\ c \in [lo..Len(fs) -> Nat]
  /\ c[lo] = 0 /\ c[Len(fs)] = Len(s)
  /\ \A i, j \in lo..Len(fs) : i <= j => c[i] <= c[j]
  /\ \A n \in (lo + 1)..Len(fs) : AtCut(c, n, fs, s)

Framed(lo, fs, s) == \E c : IsCut(c, lo, fs, s)

\* Every frame says how long it is.
LEMMA FrameLength ==
  ASSUME NEW x \in Frames
  PROVE  /\ FrameOf(x) \in Bytes /\ Len(FrameOf(x)) \in Nat /\ Len(FrameOf(x)) >= 4
         /\ Len(FrameOf(x)) = 4 + Uint32(FrameOf(x))
  <1>1. CASE x \in Messages
    <2>1. FrameOf(x) = Frame(x)
      BY Zenon, <1>1 DEF FrameOf
    <2>2. /\ Frame(x) \in Bytes /\ Len(Frame(x)) = 5 + Len(Payload(x))
          /\ Uint32(Frame(x)) = 1 + Len(Payload(x)) /\ Len(Payload(x)) \in Nat
      BY Zenon, <1>1, FrameFacts, PayloadFacts
    <2> QED
      BY <2>1, <2>2
  <1>2. CASE x \notin Messages
    <2>1. x \in RawFrames
      BY Zenon, <1>2 DEF Frames
    <2>2. FrameOf(x) = x.raw /\ x.raw \in Bytes /\ Len(x.raw) >= 4 /\ Len(x.raw) = 4 + Uint32(x.raw)
      BY Zenon, <1>2, <2>1, RawFramesAssumption DEF FrameOf, Bytes
    <2>3. Len(x.raw) \in Nat
      BY <2>2 DEF Bytes
    <2> QED
      BY Zenon, <2>2, <2>3
  <1> QED
    BY Zenon, <1>1, <1>2

\* In the beginning nothing is on the stream.
LEMMA FramedNothing == Framed(0, <<>>, <<>>)
  <1> DEFINE c == [n \in 0..0 |-> 0]
  <1>1. c \in [0..0 -> Nat] /\ c[0] = 0 /\ Len(<<>>) = 0
    OBVIOUS
  <1>2. \A i, j \in 0..0 : i <= j => c[i] <= c[j]
    OBVIOUS
  <1>3. (0 + 1)..0 = {}
    OBVIOUS
  <1> HIDE DEF c
  <1>4. IsCut(c, 0, <<>>, <<>>)
    BY <1>1, <1>2, <1>3 DEF IsCut
  <1> QED
    BY Zenon, <1>4 DEF Framed

\* A frame is written: it comes after the others.
LEMMA FramedAppend ==
  ASSUME NEW fs \in Seq(Frames), NEW lo \in 0..Len(fs), NEW s \in Bytes, Framed(lo, fs, s),
         NEW x \in Frames
  PROVE  Framed(lo, Append(fs, x), s \o FrameOf(x))
  <1> DEFINE L == Len(fs)
             F == FrameOf(x)
             gs == Append(fs, x)
             t == s \o F
  <1>1. PICK c : IsCut(c, lo, fs, s)
    BY Zenon DEF Framed
  <1>2. /\ c \in [lo..L -> Nat] /\ c[lo] = 0 /\ c[L] = Len(s)
        /\ \A i, j \in lo..L : i <= j => c[i] <= c[j]
        /\ \A n \in (lo + 1)..L : AtCut(c, n, fs, s)
    BY Zenon, <1>1 DEF IsCut
  <1>3. /\ L \in Nat /\ lo \in 0..L /\ gs \in Seq(Frames) /\ Len(gs) = L + 1 /\ gs[L + 1] = x
        /\ \A n \in 1..L : gs[n] = fs[n] /\ fs[n] \in Frames
    OBVIOUS
  <1>4. F \in Bytes /\ Len(F) \in Nat
    BY Zenon, FrameLength
  <1> HIDE DEF F
  <1>5. /\ Len(s) \in Nat /\ Len(t) = Len(s) + Len(F)
        /\ \A k \in 1..Len(s) : t[k] = s[k]
        /\ \A k \in 1..Len(F) : t[Len(s) + k] = F[k]
    BY Zenon, <1>4, Joined, JoinedAt
  <1> DEFINE d == [n \in lo..(L + 1) |-> IF n = L + 1 THEN Len(t) ELSE c[n]]
  <1> HIDE DEF L, gs, t
  <1>6. /\ d[L + 1] = Len(t) /\ (\A n \in lo..L : d[n] = c[n])
        /\ d \in [lo..(L + 1) -> Nat]
    BY SMTT(40), <1>2, <1>3, <1>4, <1>5
  <1> HIDE DEF d
  <1>7. \A n \in lo..L : c[n] \in Nat /\ c[n] <= Len(s)
    BY <1>2, <1>3
  <1>8. ASSUME NEW i \in lo..(L + 1), NEW j \in lo..(L + 1), i <= j PROVE d[i] <= d[j]
    <2>1. CASE j \in lo..L
      <3>1. i \in lo..L
        BY <1>3, <1>8, <2>1
      <3> QED
        BY Zenon, <1>2, <1>6, <1>8, <2>1, <3>1
    <2>2. CASE i \in lo..L /\ j = L + 1
      <3>1. /\ d[i] = c[i] /\ c[i] \in Nat /\ c[i] <= Len(s)
            /\ d[j] = Len(s) + Len(F) /\ Len(s) \in Nat /\ Len(F) \in Nat
        BY Zenon, <1>4, <1>5, <1>6, <1>7, <2>2
      <3> QED
        BY <3>1
    <2>3. CASE i = L + 1 /\ j = L + 1
      BY <1>4, <1>5, <1>6, <2>3
    <2>4. j \in lo..L \/ (i \in lo..L /\ j = L + 1) \/ (i = L + 1 /\ j = L + 1)
      BY <1>3, <1>8
    <2> QED
      BY Zenon, <2>1, <2>2, <2>3, <2>4
  <1>9. ASSUME NEW n \in (lo + 1)..(L + 1) PROVE AtCut(d, n, gs, t)
    <2>1. CASE n = L + 1
      <3>1. L \in lo..L /\ n - 1 = L
        BY <1>3, <2>1
      <3>2. d[n - 1] = Len(s) /\ d[n] = Len(t) /\ FrameOf(gs[n]) = F
        BY Zenon, <1>2, <1>3, <1>6, <2>1, <3>1 DEF F
      <3> QED
        BY Zenon, <1>5, <3>2 DEF AtCut
    <2>2. CASE n # L + 1
      <3>1. n \in (lo + 1)..L /\ n \in lo..L /\ n - 1 \in lo..L /\ n \in 1..L
        BY <1>3, <2>2
      <3> DEFINE G == FrameOf(fs[n])
      <3>2. /\ c[n] = c[n - 1] + Len(G)
            /\ \A k \in 1..Len(G) : s[c[n - 1] + k] = G[k]
        BY Zenon, <1>2, <3>1 DEF AtCut
      <3>3. d[n] = c[n] /\ d[n - 1] = c[n - 1] /\ FrameOf(gs[n]) = G
        BY Zenon, <1>3, <1>6, <3>1
      <3>4. Len(G) \in Nat /\ c[n - 1] \in Nat /\ c[n] <= Len(s)
        BY Zenon, <1>3, <1>7, <3>1, FrameLength
      <3> HIDE DEF G
      <3>5. \A k \in 1..Len(G) : c[n - 1] + k \in 1..Len(s)
        BY SMTT(40), <1>5, <3>2, <3>4
      <3>6. \A k \in 1..Len(G) : t[c[n - 1] + k] = G[k]
        BY Zenon, <1>5, <3>2, <3>5
      <3> QED
        BY Zenon, <3>2, <3>3, <3>6 DEF AtCut
    <2> QED
      BY Zenon, <2>1, <2>2
  <1>10. d[lo] = 0
    <2>1. lo \in lo..L
      BY <1>3
    <2> QED
      BY Zenon, <1>2, <1>6, <2>1
  <1>11. IsCut(d, lo, gs, t)
    BY Zenon, <1>3, <1>6, <1>8, <1>9, <1>10 DEF IsCut
  <1> QED
    BY Zenon, <1>11 DEF Framed, gs, t, F

\* The next frame is F: it is whole, and the others come after it.
HasHead(lo, fs, s, F) ==
  /\ lo + 1 \in 1..Len(fs) /\ fs[lo + 1] \in Frames
  /\ Len(F) <= Len(s) /\ (\A k \in 1..Len(F) : s[k] = F[k])
  /\ Uint32(s) = Uint32(F)
  /\ Framed(lo + 1, fs, SubSeq(s, Len(F) + 1, Len(s)))

\* What the reader finds at the head of the stream is the next frame, whole.
LEMMA FramedHead ==
  ASSUME NEW fs \in Seq(Frames), NEW lo \in 0..Len(fs), NEW s \in Bytes, Framed(lo, fs, s),
         Len(s) >= 4
  PROVE  HasHead(lo, fs, s, FrameOf(fs[lo + 1]))
  <1> DEFINE L == Len(fs)
             F == FrameOf(fs[lo + 1])
             q == Len(F)
             t == SubSeq(s, q + 1, Len(s))
  <1>1. PICK c : IsCut(c, lo, fs, s)
    BY Zenon DEF Framed
  <1>2. /\ c \in [lo..L -> Nat] /\ c[lo] = 0 /\ c[L] = Len(s)
        /\ \A i, j \in lo..L : i <= j => c[i] <= c[j]
        /\ \A n \in (lo + 1)..L : AtCut(c, n, fs, s)
    BY Zenon, <1>1 DEF IsCut
  <1>3. L \in Nat /\ lo \in 0..L /\ (\A n \in 1..L : fs[n] \in Frames) /\ Len(s) \in Nat
    BY DEF Bytes
  <1> HIDE DEF L
  <1>4. lo # L
    BY <1>2, <1>3
  <1>5. /\ lo + 1 \in 1..L /\ lo + 1 \in (lo + 1)..L /\ lo + 1 \in lo..L
        /\ L \in lo..L /\ lo + 1 <= L /\ (lo + 1) - 1 = lo
    BY <1>3, <1>4
  <1>6. fs[lo + 1] \in Frames /\ F \in Bytes /\ q \in Nat /\ q >= 4
    BY Zenon, <1>3, <1>5, FrameLength
  <1>7. c[lo + 1] = c[lo] + q /\ \A k \in 1..q : s[c[lo] + k] = F[k]
    <2>1. AtCut(c, lo + 1, fs, s)
      BY Zenon, <1>2, <1>5
    <2>2. c[(lo + 1) - 1] = c[lo]
      BY Zenon, <1>5
    <2> QED
      BY Zenon, <2>1, <2>2 DEF AtCut
  <1> HIDE DEF F
  <1>8. c[lo + 1] = q /\ \A k \in 1..q : s[k] = F[k]
    <2>1. ASSUME NEW k \in 1..q PROVE s[k] = F[k]
      <3>1. c[lo] + k = k
        BY <1>2, <1>6
      <3> QED
        BY Zenon, <1>7, <3>1
    <2>2. c[lo + 1] = 0 + q
      BY Zenon, <1>2, <1>7
    <2>3. c[lo + 1] = q
      BY <1>6, <2>2
    <2> QED
      BY Zenon, <2>1, <2>3
  <1> HIDE DEF q
  <1>9. q <= Len(s)
    BY Zenon, <1>2, <1>5, <1>8
  <1>10. Uint32(s) = Uint32(F)
    <2>1. \A k \in 1..4 : s[k] = F[k]
      BY <1>6, <1>8
    <2> QED
      BY Zenon, <2>1, Uint32Prefix
  <1>11. Len(t) = Len(s) - q /\ \A k \in 1..(Len(s) - q) : t[k] = s[q + k]
    BY <1>3, <1>6, <1>9 DEF Bytes
  <1> DEFINE d == [n \in (lo + 1)..L |-> c[n] - q]
  <1> HIDE DEF t
  <1>12. \A n \in (lo + 1)..L : n \in lo..L /\ c[n] \in Nat /\ q <= c[n] /\ c[n] <= Len(s)
    <2>1. ASSUME NEW n \in (lo + 1)..L PROVE n \in lo..L /\ lo + 1 <= n /\ n <= L
      BY <1>3
    <2> QED
      BY Zenon, <1>2, <1>5, <1>8, <2>1
  <1>13. d \in [(lo + 1)..L -> Nat] /\ \A n \in (lo + 1)..L : d[n] = c[n] - q
    BY SMTT(40), <1>6, <1>12
  <1> HIDE DEF d
  <1>14. d[lo + 1] = 0 /\ d[L] = Len(t)
    <2>1. d[lo + 1] = q - q /\ d[L] = Len(s) - q
      <3>1. L \in (lo + 1)..L
        BY <1>3, <1>5
      <3> QED
        BY Zenon, <1>2, <1>5, <1>8, <1>13, <3>1
    <2> QED
      BY <1>6, <1>11, <2>1
  <1>15. ASSUME NEW i \in (lo + 1)..L, NEW j \in (lo + 1)..L, i <= j PROVE d[i] <= d[j]
    <2>1. c[i] <= c[j] /\ c[i] \in Nat /\ c[j] \in Nat /\ d[i] = c[i] - q /\ d[j] = c[j] - q
      BY Zenon, <1>2, <1>12, <1>13, <1>15
    <2> QED
      BY SMTT(40), <1>6, <2>1
  <1>16. ASSUME NEW n \in ((lo + 1) + 1)..L PROVE AtCut(d, n, fs, t)
    <2>1. n \in (lo + 1)..L /\ n - 1 \in (lo + 1)..L /\ n \in 1..L
      BY <1>3
    <2> DEFINE G == FrameOf(fs[n])
    <2>2. c[n] = c[n - 1] + Len(G) /\ \A k \in 1..Len(G) : s[c[n - 1] + k] = G[k]
      BY Zenon, <1>2, <2>1 DEF AtCut
    <2>3. /\ d[n] = c[n] - q /\ d[n - 1] = c[n - 1] - q /\ Len(G) \in Nat
          /\ c[n - 1] \in Nat /\ q <= c[n - 1] /\ c[n] \in Nat /\ c[n] <= Len(s)
      BY Zenon, <1>3, <1>12, <1>13, <2>1, FrameLength
    <2> HIDE DEF G
    <2>4. d[n] = d[n - 1] + Len(G)
      BY SMTT(40), <1>6, <2>2, <2>3
    <2>5. ASSUME NEW k \in 1..Len(G) PROVE t[d[n - 1] + k] = G[k]
      <3> DEFINE a == c[n - 1]
                 b == c[n]
                 e == d[n - 1]
                 g == Len(G)
      <3>1. /\ e = a - q /\ b = a + g /\ g \in Nat /\ a \in Nat /\ q <= a /\ b \in Nat
            /\ b <= Len(s) /\ k \in 1..g
        BY Zenon, <2>2, <2>3
      <3> HIDE DEF a, b, e, g
      <3>2. e + k \in 1..(Len(s) - q) /\ q + (e + k) = a + k
        BY <1>3, <1>6, <3>1
      <3> QED
        BY Zenon, <1>11, <2>2, <3>2 DEF a, e
    <2> QED
      BY Zenon, <2>4, <2>5 DEF AtCut, G
  <1>17. IsCut(d, lo + 1, fs, t)
    BY Zenon, <1>13, <1>14, <1>15, <1>16 DEF IsCut, L
  <1>18. Framed(lo + 1, fs, t)
    BY Zenon, <1>17 DEF Framed
  <1> QED
    BY Zenon, <1>5, <1>6, <1>8, <1>9, <1>10, <1>18 DEF F, q, t, L, HasHead

--------------------------------------------------------------------------------
(* A varint is read as it was written.                                       *)

Short(x) == x < 128

\* The encoding e of a number that is short, ...
Last(e, x) == Len(e) = 1 /\ e[1] = x

\* ... and of one that is not: its first group a, then the encoding f of the rest.
First(e, a, f) ==
  /\ Len(e) = 1 + Len(f) /\ Len(f) \in Nat
  /\ e[1] = a + 128
  /\ \A k \in 1..Len(f) : e[1 + k] = f[k]

\* The last group of a varint ...
LEMMA LastGroup ==
  ASSUME NEW x \in Nat, Short(x) PROVE Last(EncodeVarint[x], x)
  <1>1. EncodeVarint[x] = <<x>>
    BY Zenon, EncodeVarintDef DEF Short
  <1> QED
    BY <1>1 DEF Last

\* ... and one that others follow.
LEMMA FirstGroup ==
  ASSUME NEW x \in Nat, ~Short(x), NEW y \in Nat, NEW a \in Nat, y = x \div 128, a = x % 128
  PROVE  First(EncodeVarint[x], a, EncodeVarint[y])
  <1> DEFINE h == <<(x % 128) + 128>>
             e == EncodeVarint[y]
  <1>1. h \in Bytes /\ Len(h) = 1 /\ h[1] = a + 128
    BY DEF Bytes, Byte
  <1>2. EncodeVarint[x] = h \o e /\ e \in Bytes
    BY ZenonT(40), EncodeVarintDef DEF Bytes, Short
  <1> HIDE DEF h, e
  <1> DEFINE r == h \o e
  <1>3. /\ Len(r) = Len(h) + Len(e) /\ Len(e) \in Nat
        /\ \A k \in 1..Len(h) : r[k] = h[k]
        /\ \A k \in 1..Len(e) : r[Len(h) + k] = e[k]
    <2>1. h \in Bytes /\ e \in Bytes
      BY Zenon, <1>1, <1>2
    <2> QED
      BY Zenon, <2>1, Joined, JoinedAt
  <1> HIDE DEF r
  <1>4. First(r, a, e)
    BY <1>1, <1>3 DEF First
  <1> QED
    BY Zenon, <1>2, <1>4 DEF e, r

\* The groups of x, which are at most four.
Digits(g, x) ==
  /\ g \in [1..4 -> 0..127]
  /\ FromGroups(g[1], g[2], g[3], g[4]) = x

\* The n bytes of e are the first n groups of g, the high bit set on all but the last.
Groups(e, g, n) ==
  /\ n \in 1..4 /\ Len(e) = n
  /\ \A k \in 1..(n - 1) : e[k] = g[k] + 128
  /\ e[n] = g[n]
  /\ \A k \in (n + 1)..4 : g[k] = 0

\* A number up to Huge is written in at most four groups.
LEMMA VarintGroups ==
  ASSUME NEW x \in Nat, x <= Huge
  PROVE  \E g, n : Digits(g, x) /\ Groups(EncodeVarint[x], g, n)
  <1> DEFINE y == x \div 128
             z == y \div 128
             w == z \div 128
             a == x % 128
             b == y % 128
             c == z % 128
  <1>1. y \in Nat /\ x = 128 * y + a /\ a \in 0..127 /\ (Short(x) <=> y = 0)
    BY SMT DEF Short
  <1> HIDE DEF y
  <1>2. z \in Nat /\ y = 128 * z + b /\ b \in 0..127 /\ (Short(y) <=> z = 0)
    BY SMT, <1>1 DEF Short
  <1> HIDE DEF z
  <1>3. w \in Nat /\ z = 128 * w + c /\ c \in 0..127 /\ (Short(z) <=> w = 0)
    BY SMT, <1>2 DEF Short
  <1>4. a \in Nat /\ b \in Nat /\ c \in Nat
    BY SMT, <1>1, <1>2, <1>3
  <1> HIDE DEF w, a, b, c
  <1>5. w \in 0..127
    BY SMT, <1>1, <1>2, <1>3 DEF Huge
  <1>6. FromGroups(a, b, c, w) = x
    <2>1. y = 16384 * w + 128 * c + b
      BY SMT, <1>1, <1>2, <1>3, <1>4
    <2>2. x = 2097152 * w + 16384 * c + 128 * b + a
      BY SMT, <1>1, <1>3, <1>4, <2>1
    <2> QED
      BY SMT, <1>3, <1>4, <2>2 DEF FromGroups
  <1> DEFINE g == <<a, b, c, w>>
  <1>7. g \in [1..4 -> 0..127] /\ g[1] = a /\ g[2] = b /\ g[3] = c /\ g[4] = w
    BY <1>1, <1>2, <1>3, <1>5
  <1> HIDE DEF g
  <1>8. Digits(g, x)
    BY Zenon, <1>6, <1>7 DEF Digits
  <1> DEFINE ex == EncodeVarint[x]
             ey == EncodeVarint[y]
             ez == EncodeVarint[z]
             ew == EncodeVarint[w]
  <1>9. /\ Short(x) => Last(ex, x)
        /\ Short(y) => Last(ey, y)
        /\ Short(z) => Last(ez, z)
        /\ Last(ew, w)
    <2>1. Short(w)
      BY <1>5 DEF Short
    <2>2. x \in Nat /\ y \in Nat /\ z \in Nat /\ w \in Nat
      BY SMT, <1>1, <1>2, <1>3
    <2> QED
      BY Zenon, <2>1, <2>2, LastGroup
  <1>10. ~Short(x) => First(ex, a, ey)
    BY Zenon, <1>1, <1>4, FirstGroup DEF y, a
  <1>11. ~Short(y) => First(ey, b, ez)
    BY ZenonT(40), <1>1, <1>2, <1>4, FirstGroup DEF z, b
  <1>12. ~Short(z) => First(ez, c, ew)
    BY ZenonT(40), <1>2, <1>3, <1>4, FirstGroup DEF w, c
  <1> HIDE DEF ex, ey, ez, ew
  <1>13. CASE Short(x)
    <2>1. y = 0 /\ z = 0 /\ w = 0 /\ a = x /\ b = 0 /\ c = 0
      BY <1>1, <1>2, <1>3, <1>13
    <2>2. Groups(ex, g, 1)
      BY <1>7, <1>9, <1>13, <2>1 DEF Groups, Last
    <2> QED
      BY Zenon, <1>8, <2>2 DEF ex
  <1>14. CASE ~Short(x) /\ Short(y)
    <2>1. z = 0 /\ w = 0 /\ b = y /\ c = 0
      BY <1>1, <1>2, <1>3, <1>14
    <2>2. Len(ex) = 2 /\ ex[1] = a + 128 /\ ex[2] = b
      <3>1. First(ex, a, ey) /\ Last(ey, b)
        BY Zenon, <1>9, <1>10, <1>14, <2>1
      <3> QED
        BY <3>1 DEF First, Last
    <2>3. Groups(ex, g, 2)
      BY <1>7, <2>1, <2>2 DEF Groups
    <2> QED
      BY Zenon, <1>8, <2>3 DEF ex
  <1>15. CASE ~Short(x) /\ ~Short(y) /\ Short(z)
    <2>1. w = 0 /\ c = z
      BY <1>2, <1>3, <1>15
    <2>2. Len(ey) = 2 /\ ey[1] = b + 128 /\ ey[2] = c
      <3>1. First(ey, b, ez) /\ Last(ez, c)
        BY Zenon, <1>9, <1>11, <1>15, <2>1
      <3> QED
        BY <3>1 DEF First, Last
    <2>3. Len(ex) = 3 /\ ex[1] = a + 128 /\ ex[2] = b + 128 /\ ex[3] = c
      BY <1>10, <1>15, <2>2 DEF First
    <2>4. Groups(ex, g, 3)
      BY <1>7, <2>1, <2>3 DEF Groups
    <2> QED
      BY Zenon, <1>8, <2>4 DEF ex
  <1>16. CASE ~Short(x) /\ ~Short(y) /\ ~Short(z)
    <2>1. Len(ez) = 2 /\ ez[1] = c + 128 /\ ez[2] = w
      BY <1>9, <1>12, <1>16 DEF First, Last
    <2>2. Len(ey) = 3 /\ ey[1] = b + 128 /\ ey[2] = c + 128 /\ ey[3] = w
      BY <1>11, <1>16, <2>1 DEF First
    <2>3. Len(ex) = 4 /\ ex[1] = a + 128 /\ ex[2] = b + 128 /\ ex[3] = c + 128 /\ ex[4] = w
      BY <1>10, <1>16, <2>2 DEF First
    <2>4. Groups(ex, g, 4)
      BY <1>7, <2>3 DEF Groups
    <2> QED
      BY Zenon, <1>8, <2>4 DEF ex
  <1> QED
    BY Zenon, <1>13, <1>14, <1>15, <1>16

\* The loop over the groups of a varint.
Ends(d, i) == {k \in 1..10 : i + k <= Len(d) /\ d[i + k] < 128}
GroupAt(d, i, last, k) == IF k <= last THEN d[i + k] % 128 ELSE 0
Summed(d, i, last) ==
  IF \E k \in 5..10 : GroupAt(d, i, last, k) # 0
    THEN Huge
    ELSE FromGroups(GroupAt(d, i, last, 1), GroupAt(d, i, last, 2),
                    GroupAt(d, i, last, 3), GroupAt(d, i, last, 4))

\* Varint in terms of where it ends and of its groups.
LEMMA VarintDef ==
  ASSUME NEW d, NEW i
  PROVE  Varint(d, i) = IF Ends(d, i) = {}
                          THEN [ok |-> FALSE, val |-> 0, next |-> i]
                          ELSE [ok |-> TRUE, next |-> i + Min(Ends(d, i)),
                                val |-> Summed(d, i, Min(Ends(d, i)))]
  BY Zenon DEF Varint, Ends, GroupAt, Summed

\* A group of a varint that ends is a number.
LEMMA GroupType ==
  ASSUME NEW d \in Bytes, NEW i \in Nat, NEW last \in Ends(d, i), NEW k \in 1..10
  PROVE  GroupAt(d, i, last, k) \in Nat
  <1>1. CASE k <= last
    <2>1. d[i + k] \in Byte
      BY <1>1 DEF Ends, Bytes
    <2>2. d[i + k] % 128 \in Nat
      BY <2>1 DEF Byte
    <2> QED
      BY Zenon, <1>1, <2>2 DEF GroupAt
  <1>2. CASE ~(k <= last)
    <2>1. GroupAt(d, i, last, k) = 0
      BY Zenon, <1>2 DEF GroupAt
    <2> QED
      BY <2>1
  <1> QED
    BY Zenon, <1>1, <1>2

\* Whatever the payload is, the loop stays inside it.
LEMMA VarintType ==
  ASSUME NEW d \in Bytes, NEW i \in 0..Len(d)
  PROVE  LET v == Varint(d, i)
         IN  v.ok \in BOOLEAN /\ v.val \in Nat /\ v.next \in i..Len(d)
  <1>1. Len(d) \in Nat /\ i \in Nat /\ i \in i..Len(d)
    BY DEF Bytes
  <1>2. CASE Ends(d, i) = {}
    <2>1. Varint(d, i) = [ok |-> FALSE, val |-> 0, next |-> i]
      BY Zenon, <1>2, VarintDef
    <2> QED
      BY <1>1, <2>1
  <1>3. CASE Ends(d, i) # {}
    <2> DEFINE last == Min(Ends(d, i))
    <2>1. Ends(d, i) \in SUBSET Nat
      BY DEF Ends
    <2>2. last \in Ends(d, i)
      BY Zenon, <1>3, <2>1, MinIsLeast
    <2> HIDE DEF last
    <2>3. i + last \in i..Len(d)
      BY <1>1, <2>2 DEF Ends
    <2>4. Summed(d, i, last) \in Nat
      <3>1. Huge \in Nat
        BY SMT DEF Huge
      <3>2. \A k \in 1..4 : GroupAt(d, i, last, k) \in Nat
        <4>1. \A k \in 1..4 : k \in 1..10
          OBVIOUS
        <4> QED
          BY Zenon, <1>1, <2>2, <4>1, GroupType
      <3>3. ASSUME NEW a \in Nat, NEW b \in Nat, NEW c \in Nat, NEW e \in Nat
            PROVE  FromGroups(a, b, c, e) \in Nat
        BY SMT DEF FromGroups
      <3>4. 1 \in 1..4 /\ 2 \in 1..4 /\ 3 \in 1..4 /\ 4 \in 1..4
        OBVIOUS
      <3> QED
        BY Zenon, <3>1, <3>2, <3>3, <3>4 DEF Summed
    <2>5. Varint(d, i) = [ok |-> TRUE, next |-> i + last, val |-> Summed(d, i, last)]
      BY Zenon, <1>3, VarintDef DEF last
    <2> QED
      BY <2>3, <2>4, <2>5
  <1> QED
    BY Zenon, <1>2, <1>3

\* The bytes of e follow the first i bytes of d.
HoldsAt(d, i, e) == i + Len(e) <= Len(d) /\ \A k \in 1..Len(e) : d[i + k] = e[k]

\* What EncodeVarint wrote at index i is read back.
LEMMA VarintReads ==
  ASSUME NEW x \in Nat, x <= Huge, NEW d \in Bytes, NEW i \in Nat,
         HoldsAt(d, i, EncodeVarint[x])
  PROVE  Varint(d, i) = [ok |-> TRUE, next |-> i + Len(EncodeVarint[x]), val |-> x]
  <1> DEFINE e == EncodeVarint[x]
             n == Len(e)
  <1>1. PICK g, N : Digits(g, x) /\ Groups(e, g, N)
    BY Zenon, VarintGroups
  <1>2. i + n <= Len(d) /\ \A k \in 1..n : d[i + k] = e[k]
    BY Zenon DEF HoldsAt
  <1>3. N = n /\ n \in 1..4
    BY Zenon, <1>1 DEF Groups
  <1> HIDE DEF e, n
  <1>4. /\ \A k \in 1..(n - 1) : e[k] = g[k] + 128
        /\ e[n] = g[n]
        /\ \A k \in (n + 1)..4 : g[k] = 0
    BY Zenon, <1>1, <1>3 DEF Groups
  <1>5. /\ g \in [1..4 -> 0..127] /\ FromGroups(g[1], g[2], g[3], g[4]) = x
    BY Zenon, <1>1 DEF Digits
  <1>6. \A k \in 1..4 : g[k] \in 0..127
    BY Zenon, <1>5
  <1>7. d[i + n] = g[n] /\ \A k \in 1..(n - 1) : d[i + k] = g[k] + 128
    <2>1. n \in 1..n /\ \A k \in 1..(n - 1) : k \in 1..n
      BY <1>3
    <2> QED
      BY ZenonT(40), <1>2, <1>4, <2>1
  <1>8. n \in Ends(d, i)
    <2>1. n \in 1..10 /\ n \in 1..4
      BY <1>3
    <2>2. g[n] \in 0..127
      BY Zenon, <1>6, <2>1
    <2>3. d[i + n] < 128
      BY <1>7, <2>2
    <2> QED
      BY Zenon, <1>2, <2>1, <2>3 DEF Ends
  <1>9. ASSUME NEW k \in Ends(d, i) PROVE n <= k
    <2>1. k \in 1..10 /\ d[i + k] < 128
      BY Zenon DEF Ends
    <2>2. ASSUME ~(n <= k) PROVE FALSE
      <3>1. k \in 1..(n - 1) /\ k \in 1..4
        BY <1>3, <2>1, <2>2
      <3>2. d[i + k] = g[k] + 128 /\ g[k] \in 0..127
        BY Zenon, <1>6, <1>7, <3>1
      <3> QED
        BY <2>1, <3>2
    <2> QED
      BY Zenon, <2>2
  <1>10. Min(Ends(d, i)) = n /\ Ends(d, i) # {}
    <2>1. Ends(d, i) \in SUBSET Nat
      BY SMTT(40) DEF Ends
    <2> QED
      BY Zenon, <1>8, <1>9, <2>1, MinIs
  <1>11. ASSUME NEW k \in 1..4 PROVE GroupAt(d, i, n, k) = g[k]
    <2>1. g[k] \in 0..127
      BY Zenon, <1>6
    <2>2. CASE k \in 1..(n - 1)
      <3>1. k <= n
        BY <1>3, <2>2
      <3>2. d[i + k] = g[k] + 128
        BY Zenon, <1>7, <2>2
      <3>3. d[i + k] % 128 = g[k]
        BY <2>1, <3>2
      <3> QED
        BY Zenon, <3>1, <3>3 DEF GroupAt
    <2>3. CASE k = n
      <3>0. k <= n
        BY <1>3, <2>3
      <3>1. k <= n /\ d[i + k] = g[k]
        BY Zenon, <1>7, <2>3, <3>0
      <3>2. d[i + k] % 128 = g[k]
        BY <2>1, <3>1
      <3> QED
        BY Zenon, <3>1, <3>2 DEF GroupAt
    <2>4. CASE k \in (n + 1)..4
      <3>1. ~(k <= n)
        BY <1>3, <2>4
      <3> QED
        BY Zenon, <1>4, <2>4, <3>1 DEF GroupAt
    <2>5. k \in 1..(n - 1) \/ k = n \/ k \in (n + 1)..4
      BY <1>3
    <2> QED
      BY Zenon, <2>2, <2>3, <2>4, <2>5
  <1>12. ASSUME NEW k \in 5..10 PROVE GroupAt(d, i, n, k) = 0
    <2>1. ~(k <= n)
      BY <1>3
    <2> QED
      BY Zenon, <2>1 DEF GroupAt
  <1>13. Summed(d, i, n) = x
    <2>1. 1 \in 1..4 /\ 2 \in 1..4 /\ 3 \in 1..4 /\ 4 \in 1..4
      OBVIOUS
    <2> QED
      BY Zenon, <1>5, <1>11, <1>12, <2>1 DEF Summed
  <1> QED
    BY Zenon, <1>10, <1>13, VarintDef DEF e, n

--------------------------------------------------------------------------------
(* A round of UnmarshalVT, on any payload.                                   *)

\* A part of a payload is bytes.
LEMMA SubSeqType ==
  ASSUME NEW d \in Bytes, NEW i \in Nat, NEW n \in Nat, n <= Len(d)
  PROVE  SubSeq(d, i + 1, n) \in Bytes
  <1>1. CASE i <= n
    BY <1>1 DEF Bytes
  <1>2. CASE ~(i <= n)
    <2>1. SubSeq(d, i + 1, n) = <<>>
      BY <1>2 DEF Bytes
    <2> QED
      BY <2>1 DEF Bytes
  <1> QED
    BY Zenon, <1>1, <1>2

\* The four ways in which a round ends.
Way(f, m, d, i, tag, arg) ==
  LET num == FieldNum(d, i, tag)
      postIndex == arg.next + arg.val
      skip == SkipTo(WireType(d, i), tag, arg)
  IN  \/ f = Bad(m, i)
      \/ /\ num \in {1, 2, 4} /\ postIndex <= Len(d)
         /\ f = Good(PutBytes(m, num, SubSeq(d, arg.next + 1, postIndex)), postIndex)
      \/ f = Good(PutVarint(m, num, arg.val), arg.next)
      \/ /\ skip <= Len(d)
         /\ f = Good([m EXCEPT !.unknown = @ \o SubSeq(d, i + 1, skip)], skip)

\* A round of UnmarshalVT ends in one of four ways.
LEMMA UnmarshalWays ==
  ASSUME NEW m, NEW d, NEW i, NEW tag, NEW arg
  PROVE  Way(UnmarshalField(m, d, i, tag, arg), m, d, i, tag, arg)
  <1> DEFINE num == FieldNum(d, i, tag)
             wireType == WireType(d, i)
             postIndex == arg.next + arg.val
             skip == SkipTo(wireType, tag, arg)
             X == Good(PutBytes(m, num, SubSeq(d, arg.next + 1, postIndex)), postIndex)
             Y == Good(PutVarint(m, num, arg.val), arg.next)
             Z == Good([m EXCEPT !.unknown = @ \o SubSeq(d, i + 1, skip)], skip)
             B == Bad(m, i)
             a == wireType = 2 /\ arg.ok /\ postIndex <= Len(d)
             b == wireType = 0 /\ arg.ok
             c == skip <= Len(d)
             bytes == num \in {1, 2, 4}
             varint == num \in VarintFields(m)
  <1>1. UnmarshalField(m, d, i, tag, arg) =
          IF ~tag.ok \/ wireType = 4 \/ num <= 0 THEN B ELSE
          CASE bytes -> IF a THEN X ELSE B
            [] varint -> IF b THEN Y ELSE B
            [] OTHER -> IF c THEN Z ELSE B
    BY Zenon DEF UnmarshalField
  <1>2. a => postIndex <= Len(d)
    BY Zenon
  <1> HIDE DEF X, Y, Z, B, a, b, c, bytes, varint, wireType
  <1>3. LET f == UnmarshalField(m, d, i, tag, arg)
        IN  f = B \/ (bytes /\ a /\ f = X) \/ f = Y \/ (c /\ f = Z)
    BY SMT, <1>1
  <1> QED
    BY Zenon, <1>2, <1>3 DEF Way, X, Y, Z, B, c, bytes, wireType

\* A message stays one when bytes are put into it ...
LEMMA PutBytesType ==
  ASSUME NEW m \in Message, NEW num \in {1, 2, 4}, NEW b \in Bytes
  PROVE  PutBytes(m, num, b) \in Message
  <1>1. Append(m.headers, b) \in Seq(Seq(Byte)) /\ b \in Seq(Byte)
    BY MessageFields DEF Bytes
  <1>2. /\ [m EXCEPT !.headers = Append(@, b)] \in Message
        /\ [m EXCEPT !.method = b] \in Message
        /\ [m EXCEPT !.body = b] \in Message
    BY Zenon, <1>1 DEF Message
  <1>3. CASE num = 1
    BY Zenon, <1>2, <1>3 DEF PutBytes
  <1>4. CASE num = 2
    BY Zenon, <1>2, <1>4 DEF PutBytes
  <1>5. CASE num = 4
    BY Zenon, <1>2, <1>5 DEF PutBytes
  <1> QED
    BY Zenon, <1>3, <1>4, <1>5

\* ... or a varint ...
LEMMA PutVarintType ==
  ASSUME NEW m \in Message, NEW num, NEW v \in Nat PROVE PutVarint(m, num, v) \in Message
  BY Zenon DEF PutVarint, Message

\* ... or an unknown field.
LEMMA UnknownType ==
  ASSUME NEW m \in Message, NEW b \in Bytes
  PROVE  [m EXCEPT !.unknown = @ \o b] \in Message
  <1>1. m.unknown \o b \in Bytes
    BY Zenon, MessageFields, Joined
  <1> QED
    BY Zenon, <1>1 DEF Message, Bytes

\* A message stays one, and the index stays inside the payload.
LEMMA UnmarshalType ==
  ASSUME NEW m \in Message, NEW d \in Bytes, NEW i \in 0..Len(d)
  PROVE  LET tag == Varint(d, i)
             arg == Varint(d, tag.next)
             f == UnmarshalField(m, d, i, tag, arg)
         IN  f.ok \in BOOLEAN /\ (f.ok => f.msg \in Message /\ f.next \in 0..Len(d))
  <1> DEFINE tag == Varint(d, i)
             arg == Varint(d, tag.next)
             f == UnmarshalField(m, d, i, tag, arg)
             num == FieldNum(d, i, tag)
             postIndex == arg.next + arg.val
             skip == SkipTo(WireType(d, i), tag, arg)
  <1>1. Len(d) \in Nat /\ i \in Nat
    BY DEF Bytes
  <1>2. tag.val \in Nat /\ tag.next \in i..Len(d)
    BY Zenon, VarintType
  <1> HIDE DEF tag
  <1>3. tag.next \in 0..Len(d)
    BY <1>1, <1>2
  <1>4. arg.val \in Nat /\ arg.next \in tag.next..Len(d)
    BY Zenon, <1>3, VarintType
  <1> HIDE DEF arg
  <1>5. arg.next \in 0..Len(d) /\ arg.next \in Nat /\ tag.next \in Nat /\ postIndex \in Nat
    BY <1>1, <1>2, <1>3, <1>4
  <1>6. skip \in Nat
    <2>1. /\ arg.next \in Nat /\ tag.next + 8 \in Nat /\ arg.next + arg.val \in Nat
          /\ tag.next + 4 \in Nat /\ Huge \in Nat
      BY SMTT(40), <1>4, <1>5 DEF Huge
    <2> QED
      BY SMT, <2>1 DEF SkipTo
  <1>7. \/ f = Bad(m, i)
        \/ /\ num \in {1, 2, 4} /\ postIndex <= Len(d)
           /\ f = Good(PutBytes(m, num, SubSeq(d, arg.next + 1, postIndex)), postIndex)
        \/ f = Good(PutVarint(m, num, arg.val), arg.next)
        \/ /\ skip <= Len(d)
           /\ f = Good([m EXCEPT !.unknown = @ \o SubSeq(d, i + 1, skip)], skip)
    <2>1. Way(f, m, d, i, tag, arg)
      BY Zenon, UnmarshalWays
    <2> HIDE DEF f
    <2> QED
      BY Zenon, <2>1 DEF Way
  <1> HIDE DEF f, num, postIndex, skip
  <1>8. CASE f = Bad(m, i)
    <2>1. f.ok = FALSE
      BY <1>8 DEF Bad
    <2> QED
      BY Zenon, <2>1 DEF f, tag, arg
  <1>9. ASSUME NEW x \in Message, NEW n \in 0..Len(d), f = Good(x, n)
        PROVE  f.ok = TRUE /\ f.msg \in Message /\ f.next \in 0..Len(d)
    BY <1>9 DEF Good
  <1>10. CASE /\ num \in {1, 2, 4} /\ postIndex <= Len(d)
              /\ f = Good(PutBytes(m, num, SubSeq(d, arg.next + 1, postIndex)), postIndex)
    <2>1. SubSeq(d, arg.next + 1, postIndex) \in Bytes
      BY Zenon, <1>5, <1>10, SubSeqType
    <2>2. PutBytes(m, num, SubSeq(d, arg.next + 1, postIndex)) \in Message
      BY Zenon, <1>10, <2>1, PutBytesType
    <2>3. postIndex \in 0..Len(d)
      BY <1>1, <1>5, <1>10
    <2> QED
      BY Zenon, <1>9, <1>10, <2>2, <2>3 DEF f, tag, arg
  <1>11. CASE f = Good(PutVarint(m, num, arg.val), arg.next)
    <2>1. PutVarint(m, num, arg.val) \in Message
      BY Zenon, <1>4, PutVarintType
    <2> QED
      BY Zenon, <1>5, <1>9, <1>11, <2>1 DEF f, tag, arg
  <1>12. CASE /\ skip <= Len(d)
              /\ f = Good([m EXCEPT !.unknown = @ \o SubSeq(d, i + 1, skip)], skip)
    <2>1. SubSeq(d, i + 1, skip) \in Bytes
      BY Zenon, <1>1, <1>6, <1>12, SubSeqType
    <2>2. [m EXCEPT !.unknown = @ \o SubSeq(d, i + 1, skip)] \in Message
      BY Zenon, <2>1, UnknownType
    <2>3. skip \in 0..Len(d)
      BY <1>1, <1>6, <1>12
    <2> QED
      BY Zenon, <1>9, <1>12, <2>2, <2>3 DEF f, tag, arg
  <1> QED
    BY Zenon, <1>7, <1>8, <1>10, <1>11, <1>12

--------------------------------------------------------------------------------
(* Rounds on the payload of a message: each reads the field that is next.    *)

\* What is joined to the end is there ...
LEMMA HoldsEnd ==
  ASSUME NEW a \in Bytes, NEW b \in Bytes PROVE HoldsAt(a \o b, Len(a), b)
  <1>1. /\ Len(a \o b) = Len(a) + Len(b) /\ Len(a) \in Nat /\ Len(b) \in Nat
        /\ \A k \in 1..Len(b) : (a \o b)[Len(a) + k] = b[k]
    BY Zenon, Joined, JoinedAt
  <1>2. Len(a) + Len(b) <= Len(a) + Len(b)
    BY <1>1
  <1> QED
    BY Zenon, <1>1, <1>2 DEF HoldsAt

\* ... and stays there when more is joined ...
LEMMA HoldsMore ==
  ASSUME NEW d \in Bytes, NEW i \in Nat, NEW e \in Bytes, HoldsAt(d, i, e), NEW r \in Bytes
  PROVE  HoldsAt(d \o r, i, e)
  <1> DEFINE t == d \o r
  <1>1. /\ Len(t) = Len(d) + Len(r) /\ Len(d) \in Nat /\ Len(r) \in Nat /\ Len(e) \in Nat
        /\ \A k \in 1..Len(d) : t[k] = d[k]
    BY Zenon, Joined, JoinedAt
  <1>2. i + Len(e) <= Len(d) /\ \A k \in 1..Len(e) : d[i + k] = e[k]
    BY Zenon DEF HoldsAt
  <1> HIDE DEF t
  <1>3. i + Len(e) <= Len(t) /\ \A k \in 1..Len(e) : i + k \in 1..Len(d)
    BY <1>1, <1>2
  <1>4. HoldsAt(t, i, e)
    BY Zenon, <1>1, <1>2, <1>3 DEF HoldsAt
  <1> QED
    BY Zenon, <1>4 DEF t

\* ... and what holds two parts holds each ...
LEMMA HoldsBoth ==
  ASSUME NEW d \in Bytes, NEW i \in Nat, NEW a \in Bytes, NEW b \in Bytes, HoldsAt(d, i, a \o b)
  PROVE  HoldsAt(d, i, a) /\ HoldsAt(d, i + Len(a), b)
  <1> DEFINE t == a \o b
             x == Len(a)
             y == Len(b)
  <1>1. /\ Len(t) = x + y /\ x \in Nat /\ y \in Nat
        /\ \A k \in 1..x : t[k] = a[k]
        /\ \A k \in 1..y : t[x + k] = b[k]
    BY Zenon, Joined, JoinedAt
  <1>2. i + Len(t) <= Len(d) /\ (\A k \in 1..Len(t) : d[i + k] = t[k]) /\ Len(d) \in Nat
    <2>1. Len(d) \in Nat
      BY DEF Bytes
    <2> QED
      BY Zenon, <2>1 DEF HoldsAt
  <1> HIDE DEF t, x, y
  <1>3. i + x <= Len(d) /\ (i + x) + y <= Len(d)
    BY <1>1, <1>2
  <1>4. ASSUME NEW k \in 1..x PROVE d[i + k] = a[k]
    <2>1. k \in 1..Len(t)
      BY <1>1
    <2> QED
      BY Zenon, <1>1, <1>2, <2>1
  <1>5. ASSUME NEW k \in 1..y PROVE d[(i + x) + k] = b[k]
    <2>1. x + k \in 1..Len(t) /\ (i + x) + k = i + (x + k)
      BY <1>1
    <2>2. d[i + (x + k)] = t[x + k] /\ t[x + k] = b[k]
      BY Zenon, <1>1, <1>2, <2>1
    <2> QED
      BY Zenon, <2>1, <2>2
  <1> QED
    BY Zenon, <1>3, <1>4, <1>5 DEF HoldsAt, x, y

\* ... and the reader cuts it out.
LEMMA HoldsSub ==
  ASSUME NEW d \in Bytes, NEW i \in Nat, NEW b \in Bytes, HoldsAt(d, i, b)
  PROVE  SubSeq(d, i + 1, i + Len(b)) = b
  <1> DEFINE s == SubSeq(d, i + 1, i + Len(b))
  <1>1. Len(b) \in Nat /\ Len(d) \in Nat
    BY DEF Bytes
  <1>2. i + Len(b) <= Len(d) /\ \A k \in 1..Len(b) : d[i + k] = b[k]
    BY Zenon DEF HoldsAt
  <1>3. s \in Bytes /\ Len(s) = Len(b) /\ \A k \in 1..Len(b) : s[k] = d[i + k]
    BY <1>1, <1>2 DEF Bytes
  <1> HIDE DEF s
  <1>4. s = b
    BY Zenon, <1>2, <1>3, SeqSame DEF Bytes
  <1> QED
    BY Zenon, <1>4 DEF s

\* The tag of a field, and what follows it.
LEMMA TagRead ==
  ASSUME NEW d \in Bytes, NEW i \in Nat, NEW t \in Nat, Short(t), NEW e \in Bytes,
         HoldsAt(d, i, <<t>> \o e)
  PROVE  /\ Varint(d, i) = [ok |-> TRUE, next |-> i + 1, val |-> t]
         /\ FieldNum(d, i, Varint(d, i)) = t \div 8 /\ WireType(d, i) = t % 8
         /\ HoldsAt(d, i + 1, e)
  <1> DEFINE h == <<t>>
  <1>1. EncodeVarint[t] = h
    BY Zenon, EncodeVarintDef DEF Short
  <1>2. h \in Bytes /\ Len(h) = 1 /\ t <= Huge
    BY SMT DEF Bytes, Byte, Short, Huge
  <1> HIDE DEF h
  <1>3. HoldsAt(d, i, h) /\ HoldsAt(d, i + Len(h), e)
    BY Zenon, <1>2, HoldsBoth DEF h
  <1>4. Varint(d, i) = [ok |-> TRUE, next |-> i + Len(h), val |-> t]
    BY Zenon, <1>1, <1>2, <1>3, VarintReads
  <1>5. d[i + 1] = t
    <2>1. 1 \in 1..Len(h) /\ h[1] = t
      BY <1>2 DEF h
    <2> QED
      BY Zenon, <1>3, <2>1 DEF HoldsAt
  <1> DEFINE tag == Varint(d, i)
  <1>6. tag.next = i + 1
    BY <1>2, <1>4
  <1> HIDE DEF tag
  <1>7. FieldNum(d, i, tag) = t \div 8
    BY <1>5, <1>6 DEF FieldNum, FromGroups, Short
  <1> QED
    BY Zenon, <1>2, <1>3, <1>4, <1>5, <1>7 DEF tag, WireType

Round(m, d, i) ==
  LET tag == Varint(d, i)
      arg == Varint(d, tag.next)
  IN  UnmarshalField(m, d, i, tag, arg)

\* What is needed of a concatenation of three.
Join(a, b, c) ==
  /\ Len(b) \in Nat /\ b \o c \in Bytes /\ a \o b \in Bytes /\ Len(a \o b) = Len(a) + Len(b)
  /\ Len((a \o b) \o c) = (Len(a) + Len(b)) + Len(c)
  /\ (a \o b) \o c = a \o (b \o c)

\* A tag, a length and the bytes.
LEMMA JoinedThree ==
  ASSUME NEW a \in Bytes, NEW b \in Bytes, NEW c \in Bytes PROVE Join(a, b, c)
  <1>1. a \o b \in Bytes /\ Len(a \o b) = Len(a) + Len(b)
    BY Zenon, Joined
  <1>1a. Len(b) \in Nat /\ b \o c \in Bytes
    BY Zenon, Joined
  <1>2. Len((a \o b) \o c) = (Len(a) + Len(b)) + Len(c)
    BY Zenon, <1>1, Joined
  <1>3. (a \o b) \o c = a \o (b \o c)
    BY SMTT(40), ConcatAssoc DEF Bytes
  <1> QED
    BY Zenon, <1>1, <1>1a, <1>2, <1>3 DEF Join

\* The round is good: the message is x then, and n bytes have been read.
Gives(m, d, i, x, n) == Round(m, d, i) = Good(x, n)

\* The tags of the fields that hold bytes, and of those that hold a varint.
BytesTag(t) == t \in {10, 18, 34}
VarintTag(t) == t \in {24, 40}

\* A round on a header, a method or a body.
LEMMA ReadsBytes ==
  ASSUME NEW m, NEW d \in Bytes, NEW i \in Nat, NEW t, BytesTag(t),
         NEW b \in Bytes, Len(b) <= Huge,
         HoldsAt(d, i, <<t>> \o EncodeVarint[Len(b)] \o b)
  PROVE  Gives(m, d, i, PutBytes(m, t \div 8, b), i + Len(<<t>> \o EncodeVarint[Len(b)] \o b))
  <1> DEFINE l == Len(b)
             h == <<t>>
             e == EncodeVarint[l]
             tag == Varint(d, i)
             arg == Varint(d, tag.next)
             n == Len(e)
  <1>1. /\ t \in Nat /\ Short(t) /\ t \in Byte /\ t \div 8 \in {1, 2, 4} /\ t % 8 = 2
        /\ ~(t \div 8 <= 0) /\ t % 8 # 4
    BY DEF Short, Byte, BytesTag
  <1>2. l \in Nat /\ h \in Bytes /\ Len(h) = 1
    BY <1>1 DEF Bytes
  <1>3. e \in Bytes
    BY Zenon, <1>2, EncodedType DEF Bytes
  <1>3a. HoldsAt(d, i, (h \o e) \o b) /\ l <= Huge
    BY Zenon
  <1> HIDE DEF h, e, l
  <1>4. /\ n \in Nat /\ e \o b \in Bytes /\ h \o e \in Bytes
        /\ Len((h \o e) \o b) = (1 + n) + l
        /\ (h \o e) \o b = h \o (e \o b)
    <2>1. Join(h, e, b)
      BY Zenon, <1>2, <1>3, JoinedThree
    <2> QED
      BY Zenon, <1>2, <2>1 DEF Join, l
  <1>6. HoldsAt(d, i, h \o (e \o b))
    BY Zenon, <1>3a, <1>4
  <1>7. /\ tag = [ok |-> TRUE, next |-> i + 1, val |-> t] /\ HoldsAt(d, i + 1, e \o b)
        /\ FieldNum(d, i, tag) = t \div 8 /\ WireType(d, i) = t % 8
    BY Zenon, <1>1, <1>4, <1>6, TagRead DEF h
  <1>8. i + 1 \in Nat /\ i + 1 + n \in Nat
    BY <1>4
  <1>9. HoldsAt(d, i + 1, e) /\ HoldsAt(d, (i + 1) + n, b)
    BY Zenon, <1>3, <1>7, <1>8, HoldsBoth
  <1> HIDE DEF tag
  <1>10. tag.ok = TRUE /\ tag.next = i + 1
    BY <1>7
  <1>11. arg = [ok |-> TRUE, next |-> (i + 1) + n, val |-> l]
    <2>1. Varint(d, i + 1) = [ok |-> TRUE, next |-> (i + 1) + n, val |-> l]
      BY Zenon, <1>2, <1>3a, <1>8, <1>9, VarintReads DEF e
    <2> QED
      BY Zenon, <1>10, <2>1
  <1> HIDE DEF arg, n
  <1>12. arg.ok = TRUE /\ arg.next = (i + 1) + n /\ arg.val = l
    BY <1>11
  <1> DEFINE post == arg.next + arg.val
  <1>13. SubSeq(d, arg.next + 1, post) = b /\ post <= Len(d)
    <2>1. SubSeq(d, ((i + 1) + n) + 1, ((i + 1) + n) + l) = b
      BY Zenon, <1>8, <1>9, HoldsSub DEF l
    <2>2. ((i + 1) + n) + l <= Len(d)
      BY Zenon, <1>9 DEF HoldsAt, l
    <2> QED
      BY Zenon, <1>12, <2>1, <2>2
  <1>14. post = i + Len((h \o e) \o b)
    <2>1. ((i + 1) + n) + l = i + ((1 + n) + l)
      BY <1>2, <1>4
    <2> QED
      BY Zenon, <1>4, <1>12, <2>1
  <1>15. UnmarshalField(m, d, i, tag, arg) = Good(PutBytes(m, t \div 8, b), post)
    <2> HIDE DEF post
    <2> DEFINE num == FieldNum(d, i, tag)
               wireType == WireType(d, i)
    <2>1. /\ num = t \div 8 /\ wireType = 2 /\ num \in {1, 2, 4}
          /\ ~(~tag.ok \/ wireType = 4 \/ num <= 0)
      BY Zenon, <1>1, <1>7, <1>10
    <2>2. num \notin VarintFields(m)
      <3> HIDE DEF num
      <3> QED
        BY <2>1 DEF VarintFields
    <2> DEFINE X == Good(PutBytes(m, num, SubSeq(d, arg.next + 1, post)), post)
               V == num \in VarintFields(m)
               Y == IF wireType = 0 /\ arg.ok
                      THEN Good(PutVarint(m, num, arg.val), arg.next) ELSE Bad(m, i)
               skip == SkipTo(wireType, tag, arg)
               Z == IF skip <= Len(d)
                      THEN Good([m EXCEPT !.unknown = @ \o SubSeq(d, i + 1, skip)], skip)
                      ELSE Bad(m, i)
               W == CASE num \in {1, 2, 4} ->
                           IF wireType = 2 /\ arg.ok /\ post <= Len(d) THEN X ELSE Bad(m, i)
                      [] V -> Y
                      [] OTHER -> Z
    <2>3. UnmarshalField(m, d, i, tag, arg) =
            IF ~tag.ok \/ wireType = 4 \/ num <= 0 THEN Bad(m, i) ELSE W
      BY Zenon DEF UnmarshalField, post
    <2>4. ~V
      BY Zenon, <2>2
    <2> HIDE DEF X, Y, Z, V, num, wireType
    <2>5. W = X
      BY SMT, <1>12, <1>13, <2>1, <2>4
    <2> HIDE DEF W
    <2>6. UnmarshalField(m, d, i, tag, arg) = X
      BY Zenon, <2>1, <2>3, <2>5
    <2> QED
      BY Zenon, <1>13, <2>1, <2>6 DEF X
  <1> QED
    BY Zenon, <1>14, <1>15 DEF Gives, Round, tag, arg, h, e, l

\* A round on an id or a code.
LEMMA ReadsVarint ==
  ASSUME NEW m, NEW d \in Bytes, NEW i \in Nat, NEW t, VarintTag(t),
         t \div 8 \in VarintFields(m), NEW v \in Nat, v <= Huge,
         HoldsAt(d, i, <<t>> \o EncodeVarint[v])
  PROVE  Gives(m, d, i, PutVarint(m, t \div 8, v), i + Len(<<t>> \o EncodeVarint[v]))
  <1> DEFINE h == <<t>>
             e == EncodeVarint[v]
             tag == Varint(d, i)
             arg == Varint(d, tag.next)
             n == Len(e)
  <1>1. /\ t \in Nat /\ Short(t) /\ t \in Byte /\ t \div 8 \notin {1, 2, 4} /\ t % 8 = 0
        /\ ~(t \div 8 <= 0) /\ t % 8 # 4
    BY DEF Short, Byte, VarintTag
  <1>2. h \in Bytes /\ Len(h) = 1
    BY <1>1 DEF Bytes
  <1>3. e \in Bytes
    BY Zenon, EncodedType DEF Bytes
  <1>4. n \in Nat /\ Len(h \o e) = 1 + n
    <2> HIDE DEF h, e
    <2> QED
      BY Zenon, <1>2, <1>3, Joined
  <1>5. HoldsAt(d, i, h \o e)
    BY Zenon
  <1> HIDE DEF h, e
  <1>6. /\ tag = [ok |-> TRUE, next |-> i + 1, val |-> t] /\ HoldsAt(d, i + 1, e)
        /\ FieldNum(d, i, tag) = t \div 8 /\ WireType(d, i) = t % 8
    BY Zenon, <1>1, <1>3, <1>5, TagRead DEF h
  <1> HIDE DEF tag
  <1>7. tag.ok = TRUE /\ tag.next = i + 1
    BY <1>6
  <1>8. arg = [ok |-> TRUE, next |-> (i + 1) + n, val |-> v]
    <2>1. i + 1 \in Nat
      OBVIOUS
    <2>2. Varint(d, i + 1) = [ok |-> TRUE, next |-> (i + 1) + n, val |-> v]
      BY Zenon, <1>6, <2>1, VarintReads DEF e
    <2> QED
      BY Zenon, <1>7, <2>2
  <1> HIDE DEF arg, n
  <1>9. arg.ok = TRUE /\ arg.next = (i + 1) + n /\ arg.val = v
    BY <1>8
  <1>10. (i + 1) + n = i + (1 + n)
    BY <1>4
  <1>11. UnmarshalField(m, d, i, tag, arg) = Good(PutVarint(m, t \div 8, v), (i + 1) + n)
    <2> DEFINE num == FieldNum(d, i, tag)
               wireType == WireType(d, i)
               post == arg.next + arg.val
               X == IF wireType = 2 /\ arg.ok /\ post <= Len(d)
                      THEN Good(PutBytes(m, num, SubSeq(d, arg.next + 1, post)), post)
                      ELSE Bad(m, i)
               V == num \in VarintFields(m)
               Y == Good(PutVarint(m, num, arg.val), arg.next)
               skip == SkipTo(wireType, tag, arg)
               Z == IF skip <= Len(d)
                      THEN Good([m EXCEPT !.unknown = @ \o SubSeq(d, i + 1, skip)], skip)
                      ELSE Bad(m, i)
               W == CASE num \in {1, 2, 4} -> X
                      [] V -> IF wireType = 0 /\ arg.ok THEN Y ELSE Bad(m, i)
                      [] OTHER -> Z
    <2>1. UnmarshalField(m, d, i, tag, arg) =
            IF ~tag.ok \/ wireType = 4 \/ num <= 0 THEN Bad(m, i) ELSE W
      BY Zenon DEF UnmarshalField
    <2>2. V /\ num = t \div 8 /\ num \notin {1, 2, 4} /\ wireType = 0 /\ arg.ok = TRUE
      BY Zenon, <1>1, <1>6, <1>9
    <2>3. ~(~tag.ok \/ wireType = 4 \/ num <= 0)
      BY Zenon, <1>1, <1>6, <1>7
    <2> HIDE DEF X, Y, Z, V, num, wireType
    <2>4. W = Y
      BY SMT, <2>2
    <2> HIDE DEF W
    <2>5. UnmarshalField(m, d, i, tag, arg) = Y
      BY Zenon, <2>1, <2>3, <2>4
    <2> QED
      BY Zenon, <1>9, <2>2, <2>5 DEF Y
  <1> QED
    BY Zenon, <1>4, <1>10, <1>11 DEF Gives, Round, tag, arg, h, e

\* The headers from the first on, and where the next one is on the wire.
LEMMA PrefixNext ==
  ASSUME NEW S, NEW h \in Seq(S), NEW j \in Nat, j < Len(h)
  PROVE  /\ SubSeq(h, 1, j) \in Seq(S) /\ h[j + 1] \in S
         /\ SubSeq(h, 1, j + 1) = Append(SubSeq(h, 1, j), h[j + 1])
  <1>1. SubSeq(h, 1, j) \in Seq(S) /\ h[j + 1] \in S
    OBVIOUS
  <1>2. SubSeq(h, 1, j + 1) = Append(SubSeq(h, 1, j), h[j + 1])
    OBVIOUS
  <1> QED
    BY Zenon, <1>1, <1>2

\* The first and the last of the prefixes.
LEMMA WholePrefix ==
  ASSUME NEW S, NEW h \in Seq(S) PROVE SubSeq(h, 1, Len(h)) = h /\ SubSeq(h, 1, 0) = <<>>
  OBVIOUS

\* The headers of a prefix, the next one, and where it is.
LEMMA HeaderNext ==
  ASSUME NEW h \in Seq(Bytes), NEW j \in Nat, j < Len(h)
  PROVE  /\ HeaderFields(SubSeq(h, 1, j)) \in Bytes /\ HeaderField(h[j + 1]) \in Bytes
         /\ HeaderFields(SubSeq(h, 1, j + 1)) = HeaderFields(SubSeq(h, 1, j)) \o HeaderField(h[j + 1])
         /\ HoldsAt(HeaderFields(h), Len(HeaderFields(SubSeq(h, 1, j))), HeaderField(h[j + 1]))
  <1> DEFINE H(n) == HeaderFields(SubSeq(h, 1, n))
             x == HeaderField(h[j + 1])
             i == Len(H(j))
             Q == {n \in Nat : j + 1 + n <= Len(h) => HoldsAt(H(j + 1 + n), i, x)}
  <1>1. Len(h) \in Nat
    OBVIOUS
  <1>2. ASSUME NEW n \in Nat, n < Len(h)
        PROVE  H(n) \in Bytes /\ HeaderField(h[n + 1]) \in Bytes
               /\ H(n + 1) = H(n) \o HeaderField(h[n + 1])
    <2>1. /\ SubSeq(h, 1, n) \in Seq(Bytes) /\ h[n + 1] \in Bytes
          /\ SubSeq(h, 1, n + 1) = Append(SubSeq(h, 1, n), h[n + 1])
      BY Zenon, <1>2, PrefixNext
    <2> QED
      BY Zenon, <2>1, HeaderFieldsType, HeaderFieldsAppend, HeaderFieldType
  <1> HIDE DEF H
  <1>3. H(j) \in Bytes /\ x \in Bytes /\ H(j + 1) = H(j) \o x
    BY Zenon, <1>2
  <1> HIDE DEF x
  <1>4. i \in Nat
    BY <1>3 DEF Bytes
  <1> HIDE DEF i
  <1>5. 0 \in Q
    <2>1. HoldsAt(H(j + 1), i, x)
      BY Zenon, <1>3, HoldsEnd DEF i
    <2>2. j + 1 + 0 = j + 1
      OBVIOUS
    <2> QED
      BY Zenon, <2>1, <2>2
  <1>6. ASSUME NEW n \in Q PROVE n + 1 \in Q
    <2>1. n \in Nat /\ n + 1 \in Nat /\ j + 1 + (n + 1) = (j + 1 + n) + 1 /\ j + 1 + n \in Nat
      OBVIOUS
    <2>2. ASSUME j + 1 + (n + 1) <= Len(h) PROVE HoldsAt(H(j + 1 + (n + 1)), i, x)
      <3>1. j + 1 + n < Len(h) /\ j + 1 + n <= Len(h)
        BY <1>1, <2>1, <2>2
      <3>2. HoldsAt(H(j + 1 + n), i, x)
        BY Zenon, <3>1
      <3> DEFINE k == j + 1 + n
      <3>3. k \in Nat /\ k < Len(h) /\ j + 1 + (n + 1) = k + 1 /\ HoldsAt(H(k), i, x)
        BY Zenon, <2>1, <3>1, <3>2
      <3> HIDE DEF k
      <3>4. /\ H(k) \in Bytes /\ HeaderField(h[k + 1]) \in Bytes
            /\ H(k + 1) = H(k) \o HeaderField(h[k + 1])
        BY Zenon, <1>2, <3>3
      <3>5. HoldsAt(H(k) \o HeaderField(h[k + 1]), i, x)
        BY Zenon, <1>3, <1>4, <3>3, <3>4, HoldsMore
      <3> QED
        BY Zenon, <3>3, <3>4, <3>5
    <2> QED
      BY Zenon, <2>1, <2>2
  <1>7. Q = Nat
    <2>1. Q \in SUBSET Nat
      BY Zenon
    <2> HIDE DEF Q
    <2> QED
      BY Zenon, <1>5, <1>6, <2>1, Induction
  <1>8. HoldsAt(H(Len(h)), i, x)
    <2>1. PICK n \in Nat : j + 1 + n = Len(h)
      <3>1. Len(h) - (j + 1) \in Nat /\ j + 1 + (Len(h) - (j + 1)) = Len(h)
        BY <1>1
      <3> QED
        BY Zenon, <3>1
    <2>2. j + 1 + n <= Len(h)
      BY <1>1, <2>1
    <2> QED
      BY Zenon, <1>7, <2>1, <2>2
  <1>9. SubSeq(h, 1, Len(h)) = h
    BY Zenon, WholePrefix
  <1> QED
    BY Zenon, <1>3, <1>8, <1>9 DEF H, x, i

--------------------------------------------------------------------------------
(* The stages of a message: what UnmarshalVT has read of it so far and where *)
(* it is in the payload.                                                     *)

Stage(m, h, p, n, b, v) ==
  [kind |-> m.kind, headers |-> h, method |-> p, id |-> n, body |-> b, code |-> v,
   unknown |-> <<>>]

\* The payload of m up to the headers, the method, the id, the body and the code.
Upto1(m) == HeaderFields(m.headers)
Upto2(m) == Upto1(m) \o BytesField(18, m.method)
Upto3(m) == Upto2(m) \o VarintField(24, m.id)
Upto4(m) == Upto3(m) \o BytesField(34, m.body)
Upto5(m) == Upto4(m) \o VarintField(40, m.code)

AtHeader(c, i, m, j) ==
  /\ c = Stage(m, SubSeq(m.headers, 1, j), <<>>, 0, <<>>, 0)
  /\ i = Len(HeaderFields(SubSeq(m.headers, 1, j)))
At1(c, i, m) == c = Stage(m, m.headers, <<>>, 0, <<>>, 0) /\ i = Len(Upto1(m))
At2(c, i, m) == c = Stage(m, m.headers, m.method, 0, <<>>, 0) /\ i = Len(Upto2(m))
At3(c, i, m) == c = Stage(m, m.headers, m.method, m.id, <<>>, 0) /\ i = Len(Upto3(m))
At4(c, i, m) == c = Stage(m, m.headers, m.method, m.id, m.body, 0) /\ i = Len(Upto4(m))
At5(c, i, m) == c = m /\ i = Len(Marshal(m))

Reading(c, i, m) ==
  \/ \E j \in 0..Len(m.headers) : AtHeader(c, i, m, j)
  \/ At2(c, i, m) \/ At3(c, i, m) \/ At4(c, i, m) \/ At5(c, i, m)

\* The next round reads a field, and the message is at a later stage then.
Goes(c, i, m) ==
  /\ i < Len(Marshal(m))
  /\ \E x, n : Gives(c, Marshal(m), i, x, n) /\ Reading(x, n, m)

Pieces(m) ==
  /\ Upto1(m) \in Bytes /\ Upto2(m) \in Bytes /\ Upto3(m) \in Bytes /\ Upto4(m) \in Bytes
  /\ Upto5(m) \in Bytes
  /\ BytesField(18, m.method) \in Bytes /\ VarintField(24, m.id) \in Bytes
  /\ BytesField(34, m.body) \in Bytes /\ VarintField(40, m.code) \in Bytes
  /\ Marshal(m) = Upto5(m)

\* A message an encoder sends is put together from its fields.
LEMMA MessagePieces ==
  ASSUME NEW m \in Messages PROVE Pieces(m) /\ m \in Message /\ m.unknown = <<>>
  <1>1. m \in Message /\ m.unknown = <<>>
    BY Zenon, MessagesAssumption
  <1>2. 18 \in Byte /\ 24 \in Byte /\ 34 \in Byte /\ 40 \in Byte
    BY DEF Byte
  <1>3. /\ BytesField(18, m.method) \in Bytes /\ VarintField(24, m.id) \in Bytes
        /\ BytesField(34, m.body) \in Bytes /\ VarintField(40, m.code) \in Bytes
        /\ Upto1(m) \in Bytes
    BY Zenon, <1>1, <1>2, MessageFields, BytesFieldSized, VarintFieldSized, HeaderFieldsType
       DEF Upto1
  <1>4. Upto2(m) \in Bytes
    BY Zenon, <1>3, Joined DEF Upto2
  <1>5. Upto3(m) \in Bytes
    BY Zenon, <1>3, <1>4, Joined DEF Upto3
  <1>6. Upto4(m) \in Bytes
    BY Zenon, <1>3, <1>5, Joined DEF Upto4
  <1>7. Upto5(m) \in Bytes
    BY Zenon, <1>3, <1>6, Joined DEF Upto5
  <1>8. Marshal(m) = Upto5(m) \o <<>>
    BY Zenon, <1>1 DEF Marshal, Upto1, Upto2, Upto3, Upto4, Upto5
  <1>9. Marshal(m) = Upto5(m)
    BY Zenon, <1>7, <1>8, ConcatEmpty DEF Bytes
  <1> QED
    BY Zenon, <1>1, <1>3, <1>4, <1>5, <1>6, <1>7, <1>9 DEF Pieces

\* Where the fields are in the payload.
Places(m) ==
  /\ HoldsAt(Marshal(m), Len(Upto1(m)), BytesField(18, m.method))
  /\ HoldsAt(Marshal(m), Len(Upto2(m)), VarintField(24, m.id))
  /\ HoldsAt(Marshal(m), Len(Upto3(m)), BytesField(34, m.body))
  /\ HoldsAt(Marshal(m), Len(Upto4(m)), VarintField(40, m.code))

\* The fields of a message are at their places.
LEMMA MessagePlaces == ASSUME NEW m \in Messages PROVE Places(m)
  <1> DEFINE u1 == Upto1(m)
             u2 == Upto2(m)
             u3 == Upto3(m)
             u4 == Upto4(m)
             u5 == Upto5(m)
             f2 == BytesField(18, m.method)
             f3 == VarintField(24, m.id)
             f4 == BytesField(34, m.body)
             f5 == VarintField(40, m.code)
  <1>1. u1 \in Bytes /\ f2 \in Bytes /\ Len(u1) \in Nat /\ u2 = u1 \o f2
    BY Zenon, MessagePieces, Joined DEF Pieces, Upto2
  <1>2. u2 \in Bytes /\ f3 \in Bytes /\ Len(u2) \in Nat /\ u3 = u2 \o f3
    BY Zenon, MessagePieces, Joined DEF Pieces, Upto3
  <1>3. u3 \in Bytes /\ f4 \in Bytes /\ Len(u3) \in Nat /\ u4 = u3 \o f4
    BY Zenon, MessagePieces, Joined DEF Pieces, Upto4
  <1>4. u4 \in Bytes /\ f5 \in Bytes /\ Len(u4) \in Nat /\ u5 = u4 \o f5
    BY Zenon, MessagePieces, Joined DEF Pieces, Upto5
  <1>5. Marshal(m) = u5
    BY Zenon, MessagePieces DEF Pieces
  <1> HIDE DEF u1, u2, u3, u4, u5, f2, f3, f4, f5
  <1>6. HoldsAt(u5, Len(u1), f2)
    <2>1. HoldsAt(u2, Len(u1), f2)
      BY Zenon, <1>1, HoldsEnd
    <2>2. HoldsAt(u3, Len(u1), f2)
      BY Zenon, <1>1, <1>2, <2>1, HoldsMore
    <2>3. HoldsAt(u4, Len(u1), f2)
      BY Zenon, <1>1, <1>3, <2>2, HoldsMore
    <2> QED
      BY Zenon, <1>1, <1>4, <2>3, HoldsMore
  <1>7. HoldsAt(u5, Len(u2), f3)
    <2>1. HoldsAt(u3, Len(u2), f3)
      BY Zenon, <1>2, HoldsEnd
    <2>2. HoldsAt(u4, Len(u2), f3)
      BY Zenon, <1>2, <1>3, <2>1, HoldsMore
    <2> QED
      BY Zenon, <1>2, <1>4, <2>2, HoldsMore
  <1>8. HoldsAt(u5, Len(u3), f4)
    <2>1. HoldsAt(u4, Len(u3), f4)
      BY Zenon, <1>3, HoldsEnd
    <2> QED
      BY Zenon, <1>3, <1>4, <2>1, HoldsMore
  <1>9. HoldsAt(u5, Len(u4), f5)
    BY Zenon, <1>4, HoldsEnd
  <1> QED
    BY Zenon, <1>5, <1>6, <1>7, <1>8, <1>9 DEF Places, u1, u2, u3, u4, u5, f2, f3, f4, f5

\* A header of m in its payload.
LEMMA HeaderPlace ==
  ASSUME NEW m \in Messages, NEW j \in Nat, j < Len(m.headers)
  PROVE  HoldsAt(Marshal(m), Len(HeaderFields(SubSeq(m.headers, 1, j))),
                 HeaderField(m.headers[j + 1]))
  <1> DEFINE u1 == Upto1(m)
             u2 == Upto2(m)
             u3 == Upto3(m)
             u4 == Upto4(m)
             u5 == Upto5(m)
             f2 == BytesField(18, m.method)
             f3 == VarintField(24, m.id)
             f4 == BytesField(34, m.body)
             f5 == VarintField(40, m.code)
             p == HeaderFields(SubSeq(m.headers, 1, j))
             i == Len(p)
             x == HeaderField(m.headers[j + 1])
  <1>1. u1 \in Bytes /\ f2 \in Bytes /\ u2 = u1 \o f2
    BY Zenon, MessagePieces DEF Pieces, Upto2
  <1>2. u2 \in Bytes /\ f3 \in Bytes /\ u3 = u2 \o f3
    BY Zenon, MessagePieces DEF Pieces, Upto3
  <1>3. u3 \in Bytes /\ f4 \in Bytes /\ u4 = u3 \o f4
    BY Zenon, MessagePieces DEF Pieces, Upto4
  <1>4. u4 \in Bytes /\ f5 \in Bytes /\ u5 = u4 \o f5
    BY Zenon, MessagePieces DEF Pieces, Upto5
  <1>5. Marshal(m) = u5
    BY Zenon, MessagePieces DEF Pieces
  <1>6. m.headers \in Seq(Bytes)
    BY Zenon, MessagePieces, MessageFields
  <1>7. p \in Bytes /\ x \in Bytes /\ HoldsAt(u1, i, x)
    BY Zenon, <1>6, HeaderNext DEF Upto1
  <1> HIDE DEF p, x, u1, u2, u3, u4, u5, f2, f3, f4, f5
  <1>8. i \in Nat
    BY Zenon, <1>7, Joined
  <1> HIDE DEF i
  <1>9. HoldsAt(u2, i, x)
    BY Zenon, <1>1, <1>7, <1>8, HoldsMore
  <1>10. HoldsAt(u3, i, x)
    BY Zenon, <1>2, <1>7, <1>8, <1>9, HoldsMore
  <1>11. HoldsAt(u4, i, x)
    BY Zenon, <1>3, <1>7, <1>8, <1>10, HoldsMore
  <1>12. HoldsAt(u5, i, x)
    BY Zenon, <1>4, <1>7, <1>8, <1>11, HoldsMore
  <1> QED
    BY Zenon, <1>5, <1>12 DEF p, i, x

\* The length of a field of bytes that is in a payload of less than Huge bytes.
LEMMA LengthFits ==
  ASSUME NEW d \in Bytes, Len(d) < Huge, NEW i \in Nat, NEW t \in Byte, NEW b \in Bytes,
         HoldsAt(d, i, <<t>> \o EncodeVarint[Len(b)] \o b)
  PROVE  /\ Len(b) <= Huge /\ i < Len(d)
         /\ i + Len(<<t>> \o EncodeVarint[Len(b)] \o b) <= Len(d)
  <1> DEFINE f == <<t>> \o EncodeVarint[Len(b)] \o b
             s == SizeOfVarint(Len(b))
  <1>1. i + Len(f) <= Len(d)
    BY Zenon DEF HoldsAt
  <1>2. Len(f) = SizedBytes(b)
    BY Zenon, SizedBytesExact
  <1>3. Len(b) \in Nat /\ Len(d) \in Nat
    BY Zenon, Joined
  <1>4. s \in Nat
    BY Zenon, <1>3, SizeOfVarintStep
  <1>5. SizedBytes(b) = 1 + Len(b) + s
    BY Zenon DEF SizedBytes
  <1> HIDE DEF f, s
  <1>6. Len(b) <= Huge /\ i < Len(d)
    BY SMT, <1>1, <1>2, <1>3, <1>4, <1>5 DEF Huge
  <1> QED
    BY Zenon, <1>1, <1>6 DEF f

\* A varint that is held is not at the end of the payload.
LEMMA VarintFits ==
  ASSUME NEW d \in Bytes, NEW i \in Nat, NEW t \in Byte, NEW v \in Nat,
         HoldsAt(d, i, <<t>> \o EncodeVarint[v])
  PROVE  i < Len(d)
  <1> DEFINE h == <<t>>
             e == EncodeVarint[v]
  <1>1. h \in Bytes /\ Len(h) = 1
    BY DEF Bytes
  <1>2. e \in Bytes
    BY Zenon, EncodedType DEF Bytes
  <1>3. i + Len(h \o e) <= Len(d)
    BY Zenon DEF HoldsAt
  <1> HIDE DEF h, e
  <1>4. Len(h \o e) = 1 + Len(e) /\ Len(e) \in Nat
    BY Zenon, <1>1, <1>2, Joined
  <1>5. Len(d) \in Nat
    BY Zenon, Joined
  <1> QED
    BY <1>3, <1>4, <1>5

\* What the bytes and the varints of a message do to its stages: they add a
\* header ...
LEMMA PutHeader ==
  ASSUME NEW m, NEW h, NEW p, NEW n, NEW b, NEW v, NEW x
  PROVE  PutBytes(Stage(m, h, p, n, b, v), 1, x) = Stage(m, Append(h, x), p, n, b, v)
  <1> DEFINE s == Stage(m, h, p, n, b, v)
  <1>1. s.headers = h
    BY SMT DEF Stage
  <1>2. \A y : [s EXCEPT !.headers = y] = Stage(m, y, p, n, b, v)
    BY SMT DEF Stage
  <1> HIDE DEF s
  <1>3. PutBytes(s, 1, x) = [s EXCEPT !.headers = Append(@, x)]
    BY SMT DEF PutBytes
  <1> QED
    BY Zenon, <1>1, <1>2, <1>3 DEF s

\* ... set the method ...
LEMMA PutMethod ==
  ASSUME NEW m, NEW h, NEW p, NEW n, NEW b, NEW v, NEW x
  PROVE  PutBytes(Stage(m, h, p, n, b, v), 2, x) = Stage(m, h, x, n, b, v)
  <1> DEFINE s == Stage(m, h, p, n, b, v)
  <1>1. [s EXCEPT !.method = x] = Stage(m, h, x, n, b, v)
    BY SMT DEF Stage
  <1> HIDE DEF s
  <1>2. PutBytes(s, 2, x) = [s EXCEPT !.method = x]
    BY SMT DEF PutBytes
  <1> QED
    BY Zenon, <1>1, <1>2 DEF s

\* ... the body ...
LEMMA PutBody ==
  ASSUME NEW m, NEW h, NEW p, NEW n, NEW b, NEW v, NEW x
  PROVE  PutBytes(Stage(m, h, p, n, b, v), 4, x) = Stage(m, h, p, n, x, v)
  <1> DEFINE s == Stage(m, h, p, n, b, v)
  <1>1. [s EXCEPT !.body = x] = Stage(m, h, p, n, x, v)
    BY SMT DEF Stage
  <1> HIDE DEF s
  <1>2. PutBytes(s, 4, x) = [s EXCEPT !.body = x]
    BY SMT DEF PutBytes
  <1> QED
    BY Zenon, <1>1, <1>2 DEF s

\* ... the id ...
LEMMA PutId ==
  ASSUME NEW m, NEW h, NEW p, NEW n, NEW b, NEW v, NEW x
  PROVE  PutVarint(Stage(m, h, p, n, b, v), 3, x) = Stage(m, h, p, x, b, v)
  <1> DEFINE s == Stage(m, h, p, n, b, v)
  <1>1. [s EXCEPT !.id = x] = Stage(m, h, p, x, b, v)
    BY SMT DEF Stage
  <1> HIDE DEF s
  <1>2. PutVarint(s, 3, x) = [s EXCEPT !.id = x]
    BY SMT DEF PutVarint
  <1> QED
    BY Zenon, <1>1, <1>2 DEF s

\* ... and the code.
LEMMA PutCode ==
  ASSUME NEW m, NEW h, NEW p, NEW n, NEW b, NEW v, NEW x
  PROVE  PutVarint(Stage(m, h, p, n, b, v), 5, x) = Stage(m, h, p, n, b, x)
  <1> DEFINE s == Stage(m, h, p, n, b, v)
  <1>1. [s EXCEPT !.code = x] = Stage(m, h, p, n, b, x)
    BY SMT DEF Stage
  <1> HIDE DEF s
  <1>2. PutVarint(s, 5, x) = [s EXCEPT !.code = x]
    BY SMT DEF PutVarint
  <1> QED
    BY Zenon, <1>1, <1>2 DEF s

\* Every stage can take an id, and that of a response a code.
LEMMA StageFields ==
  ASSUME NEW m, NEW h, NEW p, NEW n, NEW b, NEW v
  PROVE  /\ 3 \in VarintFields(Stage(m, h, p, n, b, v))
         /\ m.kind = "response" => 5 \in VarintFields(Stage(m, h, p, n, b, v))
  BY SMT DEF Stage, VarintFields

\* With all its fields, a stage is the message.
LEMMA LastStage ==
  ASSUME NEW m \in Messages PROVE Stage(m, m.headers, m.method, m.id, m.body, m.code) = m
  <1>1. m \in Message /\ m.unknown = <<>>
    BY Zenon, MessagePieces
  <1> QED
    BY SMT, <1>1 DEF Stage, Message

--------------------------------------------------------------------------------
(* From one stage to the next: a field that is on the wire is read in a      *)
(* round, one that is not has the value the stage already has.               *)

\* After some of the headers comes the next one, or the end of the headers ...
LEMMA FromHeader ==
  ASSUME NEW m \in Messages, NEW j \in 0..Len(m.headers), NEW c, NEW i, AtHeader(c, i, m, j)
  PROVE  At1(c, i, m) \/ Goes(c, i, m)
  <1> DEFINE h == SubSeq(m.headers, 1, j)
             b == m.headers[j + 1]
             d == Marshal(m)
             t == 10
             f == <<t>> \o EncodeVarint[Len(b)] \o b
             h2 == SubSeq(m.headers, 1, j + 1)
  <1>1. m \in Message /\ m.headers \in Seq(Bytes) /\ d \in Bytes /\ Len(d) < Huge
    BY Zenon, MessagesAssumption, MessageFields, SizeExact
  <1>2. Len(m.headers) \in Nat /\ j \in Nat
    BY <1>1
  <1>3. CASE j = Len(m.headers)
    <2>1. h = m.headers
      BY Zenon, <1>1, <1>3, WholePrefix
    <2> QED
      BY Zenon, <2>1 DEF At1, AtHeader, Upto1
  <1>4. CASE j < Len(m.headers)
    <2>1. /\ HeaderFields(h) \in Bytes /\ HeaderField(b) \in Bytes
          /\ HeaderFields(h2) = HeaderFields(h) \o HeaderField(b)
      BY Zenon, <1>1, <1>2, <1>4, HeaderNext
    <2>2. b \in Bytes /\ h2 = Append(h, b)
      BY Zenon, <1>1, <1>2, <1>4, PrefixNext
    <2>3. i = Len(HeaderFields(h)) /\ HoldsAt(d, i, f)
      BY Zenon, <1>2, <1>4, HeaderPlace DEF AtHeader, HeaderField
    <2>4. i \in Nat /\ Len(HeaderFields(h2)) = i + Len(f)
      BY Zenon, <2>1, <2>3, Joined DEF HeaderField
    <2>5. t \in Byte /\ BytesTag(t) /\ t \div 8 = 1
      BY DEF Byte, BytesTag
    <2>6. c = Stage(m, h, <<>>, 0, <<>>, 0)
      BY Zenon DEF AtHeader
    <2> HIDE DEF h, b, d, h2, t
    <2>7. Len(b) <= Huge /\ i < Len(d)
      BY Zenon, <1>1, <2>2, <2>3, <2>4, <2>5, LengthFits
    <2>8. Gives(c, d, i, PutBytes(c, t \div 8, b), i + Len(f))
      BY ZenonT(40), <1>1, <2>2, <2>3, <2>4, <2>5, <2>7, ReadsBytes
    <2>9. PutBytes(c, t \div 8, b) = Stage(m, h2, <<>>, 0, <<>>, 0)
      BY SMTT(40), <2>2, <2>5, <2>6, PutHeader
    <2>10. j + 1 \in 0..Len(m.headers)
      BY <1>2, <1>4
    <2>11. AtHeader(PutBytes(c, t \div 8, b), i + Len(f), m, j + 1)
      BY Zenon, <2>4, <2>9 DEF AtHeader, h2
    <2> QED
      BY Zenon, <2>7, <2>8, <2>10, <2>11 DEF Goes, Reading, d
  <1> QED
    BY <1>2, <1>3, <1>4

\* A stage that a field of bytes, if it is on the wire, leads to.
LEMMA OverBytes ==
  ASSUME NEW m \in Messages, NEW c, NEW a \in Bytes, NEW t, BytesTag(t), NEW b \in Bytes,
         HoldsAt(Marshal(m), Len(a), BytesField(t, b)),
         Reading(PutBytes(c, t \div 8, b), Len(a \o BytesField(t, b)), m)
  PROVE  (b = <<>> /\ a \o BytesField(t, b) = a) \/ Goes(c, Len(a), m)
  <1> DEFINE d == Marshal(m)
             f == <<t>> \o EncodeVarint[Len(b)] \o b
             i == Len(a)
  <1>1. d \in Bytes /\ Len(d) < Huge
    BY Zenon, MessagesAssumption, SizeExact
  <1>2. CASE b = <<>>
    BY Zenon, <1>2, ConcatEmpty DEF BytesField, Bytes
  <1>3. CASE b # <<>>
    <2>1. BytesField(t, b) = f
      BY Zenon, <1>3 DEF BytesField
    <2>2. t \in Byte
      BY DEF Byte, BytesTag
    <2>3. f \in Bytes
      BY Zenon, <2>2, SizedBytesExact
    <2>4. i \in Nat /\ Len(a \o f) = i + Len(f)
      <3> HIDE DEF f
      <3> QED
        BY Zenon, <2>3, Joined
    <2>5. HoldsAt(d, i, f) /\ Reading(PutBytes(c, t \div 8, b), i + Len(f), m)
      BY Zenon, <2>1, <2>4
    <2> HIDE DEF d, i
    <2>6. Len(b) <= Huge /\ i < Len(d)
      BY Zenon, <1>1, <2>2, <2>4, <2>5, LengthFits
    <2>7. Gives(c, d, i, PutBytes(c, t \div 8, b), i + Len(f))
      BY Zenon, <1>1, <2>2, <2>4, <2>5, <2>6, ReadsBytes
    <2> QED
      BY Zenon, <2>5, <2>6, <2>7 DEF Goes, d, i
  <1> QED
    BY Zenon, <1>2, <1>3

\* The same for a varint.
LEMMA OverVarint ==
  ASSUME NEW m \in Messages, NEW c, NEW a \in Bytes, NEW t, VarintTag(t), NEW v \in Nat,
         v <= Huge, v # 0 => t \div 8 \in VarintFields(c),
         HoldsAt(Marshal(m), Len(a), VarintField(t, v)),
         Reading(PutVarint(c, t \div 8, v), Len(a \o VarintField(t, v)), m)
  PROVE  (v = 0 /\ a \o VarintField(t, v) = a) \/ Goes(c, Len(a), m)
  <1> DEFINE d == Marshal(m)
             f == <<t>> \o EncodeVarint[v]
             i == Len(a)
  <1>1. d \in Bytes /\ Len(d) < Huge
    BY Zenon, MessagesAssumption, SizeExact
  <1>2. CASE v = 0
    BY Zenon, <1>2, ConcatEmpty DEF VarintField, Bytes
  <1>3. CASE v # 0
    <2>1. VarintField(t, v) = f
      BY Zenon, <1>3 DEF VarintField
    <2>2. t \in Byte
      BY DEF Byte, VarintTag
    <2>3. f \in Bytes
      BY Zenon, <2>1, <2>2, VarintFieldSized
    <2>4. i \in Nat /\ Len(a \o f) = i + Len(f)
      <3> HIDE DEF f
      <3> QED
        BY Zenon, <2>3, Joined
    <2>5. HoldsAt(d, i, f) /\ Reading(PutVarint(c, t \div 8, v), i + Len(f), m)
      BY Zenon, <2>1, <2>4
    <2> HIDE DEF d, i
    <2>6. i < Len(d)
      BY Zenon, <1>1, <2>2, <2>4, <2>5, VarintFits
    <2>7. Gives(c, d, i, PutVarint(c, t \div 8, v), i + Len(f))
      BY Zenon, <1>1, <1>3, <2>4, <2>5, ReadsVarint
    <2> QED
      BY Zenon, <2>5, <2>6, <2>7 DEF Goes, d, i
  <1> QED
    BY Zenon, <1>2, <1>3

\* ... then the method ...
LEMMA From1 ==
  ASSUME NEW m \in Messages, NEW c, NEW i, At1(c, i, m)
  PROVE  At2(c, i, m) \/ Goes(c, i, m)
  <1> DEFINE a == Upto1(m)
             t == 18
             b == m.method
             x == PutBytes(c, t \div 8, b)
  <1>1. /\ a \in Bytes /\ b \in Bytes /\ Upto2(m) = a \o BytesField(t, b)
        /\ HoldsAt(Marshal(m), Len(a), BytesField(t, b))
    BY Zenon, MessagePieces, MessagePlaces, MessageFields DEF Pieces, Places, Upto2
  <1>2. c = Stage(m, m.headers, <<>>, 0, <<>>, 0) /\ i = Len(a)
    BY Zenon DEF At1
  <1>3. BytesTag(t) /\ t \div 8 = 2
    BY DEF BytesTag
  <1> HIDE DEF a, t, b
  <1>4. x = Stage(m, m.headers, b, 0, <<>>, 0)
    BY SMTT(40), <1>2, <1>3, PutMethod
  <1>5. At2(x, Len(a \o BytesField(t, b)), m)
    BY Zenon, <1>1, <1>4 DEF At2, b
  <1>6. Reading(x, Len(a \o BytesField(t, b)), m)
    BY Zenon, <1>5 DEF Reading
  <1>7. (b = <<>> /\ a \o BytesField(t, b) = a) \/ Goes(c, Len(a), m)
    BY Zenon, <1>1, <1>3, <1>6, OverBytes
  <1> QED
    BY Zenon, <1>1, <1>2, <1>7 DEF At2, b

\* ... the id ...
LEMMA From2 ==
  ASSUME NEW m \in Messages, NEW c, NEW i, At2(c, i, m)
  PROVE  At3(c, i, m) \/ Goes(c, i, m)
  <1> DEFINE a == Upto2(m)
             t == 24
             v == m.id
             x == PutVarint(c, t \div 8, v)
  <1>1. /\ a \in Bytes /\ v \in Nat /\ Upto3(m) = a \o VarintField(t, v)
        /\ HoldsAt(Marshal(m), Len(a), VarintField(t, v)) /\ v <= Huge
    BY Zenon, MessagePieces, MessagePlaces, MessageFields, MessagesAssumption
       DEF Pieces, Places, Upto3
  <1>2. c = Stage(m, m.headers, m.method, 0, <<>>, 0) /\ i = Len(a)
    BY Zenon DEF At2
  <1>3. VarintTag(t) /\ t \div 8 = 3
    BY DEF VarintTag
  <1> HIDE DEF a, t, v
  <1>4. x = Stage(m, m.headers, m.method, v, <<>>, 0)
    BY SMTT(40), <1>2, <1>3, PutId
  <1>5. At3(x, Len(a \o VarintField(t, v)), m)
    BY Zenon, <1>1, <1>4 DEF At3, v
  <1>6. Reading(x, Len(a \o VarintField(t, v)), m)
    BY Zenon, <1>5 DEF Reading
  <1>7. t \div 8 \in VarintFields(c)
    BY Zenon, <1>2, <1>3, StageFields
  <1>8. (v = 0 /\ a \o VarintField(t, v) = a) \/ Goes(c, Len(a), m)
    BY Zenon, <1>1, <1>3, <1>6, <1>7, OverVarint
  <1> QED
    BY Zenon, <1>1, <1>2, <1>8 DEF At3, v

\* ... the body ...
LEMMA From3 ==
  ASSUME NEW m \in Messages, NEW c, NEW i, At3(c, i, m)
  PROVE  At4(c, i, m) \/ Goes(c, i, m)
  <1> DEFINE a == Upto3(m)
             t == 34
             b == m.body
             x == PutBytes(c, t \div 8, b)
  <1>1. /\ a \in Bytes /\ b \in Bytes /\ Upto4(m) = a \o BytesField(t, b)
        /\ HoldsAt(Marshal(m), Len(a), BytesField(t, b))
    BY Zenon, MessagePieces, MessagePlaces, MessageFields DEF Pieces, Places, Upto4
  <1>2. c = Stage(m, m.headers, m.method, m.id, <<>>, 0) /\ i = Len(a)
    BY Zenon DEF At3
  <1>3. BytesTag(t) /\ t \div 8 = 4
    BY DEF BytesTag
  <1> HIDE DEF a, t, b
  <1>4. x = Stage(m, m.headers, m.method, m.id, b, 0)
    BY SMTT(40), <1>2, <1>3, PutBody
  <1>5. At4(x, Len(a \o BytesField(t, b)), m)
    BY Zenon, <1>1, <1>4 DEF At4, b
  <1>6. Reading(x, Len(a \o BytesField(t, b)), m)
    BY Zenon, <1>5 DEF Reading
  <1>7. (b = <<>> /\ a \o BytesField(t, b) = a) \/ Goes(c, Len(a), m)
    BY Zenon, <1>1, <1>3, <1>6, OverBytes
  <1> QED
    BY Zenon, <1>1, <1>2, <1>7 DEF At4, b

\* ... and the code.
LEMMA From4 ==
  ASSUME NEW m \in Messages, NEW c, NEW i, At4(c, i, m)
  PROVE  At5(c, i, m) \/ Goes(c, i, m)
  <1> DEFINE a == Upto4(m)
             t == 40
             v == m.code
             x == PutVarint(c, t \div 8, v)
  <1>1. /\ a \in Bytes /\ v \in Nat /\ Marshal(m) = a \o VarintField(t, v)
        /\ HoldsAt(Marshal(m), Len(a), VarintField(t, v)) /\ v <= Huge
    BY Zenon, MessagePieces, MessagePlaces, MessageFields, MessagesAssumption
       DEF Pieces, Places, Upto5
  <1>2. c = Stage(m, m.headers, m.method, m.id, m.body, 0) /\ i = Len(a)
    BY Zenon DEF At4
  <1>3. VarintTag(t) /\ t \div 8 = 5
    BY DEF VarintTag
  <1>4. Stage(m, m.headers, m.method, m.id, m.body, v) = m
    BY Zenon, LastStage
  <1>5. v # 0 => m.kind = "response"
    BY Zenon, MessagesAssumption
  <1> HIDE DEF a, t, v
  <1>6. x = Stage(m, m.headers, m.method, m.id, m.body, v)
    BY SMTT(40), <1>2, <1>3, PutCode
  <1>7. At5(x, Len(a \o VarintField(t, v)), m)
    BY Zenon, <1>1, <1>4, <1>6 DEF At5
  <1>8. Reading(x, Len(a \o VarintField(t, v)), m)
    BY Zenon, <1>7 DEF Reading
  <1>9. v # 0 => t \div 8 \in VarintFields(c)
    BY Zenon, <1>2, <1>3, <1>5, StageFields
  <1>10. (v = 0 /\ a \o VarintField(t, v) = a) \/ Goes(c, Len(a), m)
    BY Zenon, <1>1, <1>3, <1>8, <1>9, OverVarint
  <1> QED
    BY Zenon, <1>1, <1>2, <1>4, <1>10 DEF At5

\* UnmarshalVT on the payload of a message the encoder sent: another round reads
\* another field, or the object is the message and there are no bytes left.
LEMMA Advance ==
  ASSUME NEW m \in Messages, NEW c, NEW i, Reading(c, i, m)
  PROVE  Goes(c, i, m) \/ (c = m /\ i = Len(Marshal(m)))
  <1>1. At5(c, i, m) => c = m /\ i = Len(Marshal(m))
    BY Zenon DEF At5
  <1>2. At4(c, i, m) => At5(c, i, m) \/ Goes(c, i, m)
    BY Zenon, From4
  <1>3. At3(c, i, m) => At4(c, i, m) \/ Goes(c, i, m)
    BY Zenon, From3
  <1>4. At2(c, i, m) => At3(c, i, m) \/ Goes(c, i, m)
    BY Zenon, From2
  <1>5. At1(c, i, m) => At2(c, i, m) \/ Goes(c, i, m)
    BY Zenon, From1
  <1>6. \A j \in 0..Len(m.headers) : AtHeader(c, i, m, j) => At1(c, i, m) \/ Goes(c, i, m)
    BY Zenon, FromHeader
  <1> QED
    BY Zenon, <1>1, <1>2, <1>3, <1>4, <1>5, <1>6 DEF Reading

\* A blank object, with nothing read, is the first stage of every message.
LEMMA ReadingBegins ==
  ASSUME NEW m \in Messages, NEW k PROVE Reading([Blank(k) EXCEPT !.kind = m.kind], 0, m)
  <1> DEFINE c == [Blank(k) EXCEPT !.kind = m.kind]
  <1>1. m.headers \in Seq(Bytes)
    BY Zenon, MessagePieces, MessageFields
  <1>2. 0 \in 0..Len(m.headers) /\ SubSeq(m.headers, 1, 0) = <<>>
    BY <1>1
  <1>3. c = Stage(m, <<>>, <<>>, 0, <<>>, 0)
    BY SMT DEF Blank, Stage
  <1>4. Len(HeaderFields(<<>>)) = 0
    <2>1. Len(<<>>) = 0
      OBVIOUS
    <2> QED
      BY Zenon, <2>1, HeaderFieldsEmpty
  <1>5. AtHeader(c, 0, m, 0)
    BY Zenon, <1>2, <1>3, <1>4 DEF AtHeader
  <1> QED
    BY Zenon, <1>2, <1>5 DEF Reading

--------------------------------------------------------------------------------
(* The inductive invariant.                                                  *)

Slots == [buf : Buffers, used : Nat, msg : Messages]

\* A buffer that an encoder is about to write holds the whole frame of its message.
HoldsFrame(s) ==
  /\ s.buf \notin bufferPool
  /\ s.used = Len(Frame(s.msg)) /\ s.used <= Len(data[s.buf])
  /\ SubSeq(data[s.buf], 1, s.used) = Frame(s.msg)

\* No two encoders have the same buffer, and none has one that is in the pool.
EncInv ==
  /\ data \in [Buffers -> Bytes]
  /\ bufferPool \in SUBSET Buffers
  /\ held \in [Encoders -> {None} \cup Slots]
  /\ \A e \in Encoders : held[e] # None => HoldsFrame(held[e])
  /\ \A e, g \in Encoders : held[e] # None /\ held[g] # None /\ e # g => held[e].buf # held[g].buf

\* The bytes on the stream are the frames that were sent and not read yet.
StreamInv ==
  /\ sent \in Seq(Frames) /\ consumed \in 0..Len(sent) /\ stream \in Bytes
  /\ Framed(consumed, sent, stream)

\* UnmarshalVT is at a stage of the message whose frame was read last.
Working ==
  /\ consumed \in 1..Len(sent)
  /\ cur \in Message /\ dAtA \in Bytes /\ iNdEx \in 0..Len(dAtA)
  /\ sent[consumed] \in Messages =>
       dAtA = Marshal(sent[consumed]) /\ Reading(cur, iNdEx, sent[consumed])

Types == {"request", "response"}

\* Objects in the pools are blank.
ReadInv ==
  /\ phase \in {"read", "unmarshal", "over", "panicked"}
  /\ objects = [t \in Types |-> Blank(t)]
  /\ phase = "unmarshal" => Working
  /\ phase # "unmarshal" => cur = None /\ dAtA = <<>> /\ iNdEx = 0

\* What is delivered came from a frame that has been read, and is what was sent in it.
Right(d) == d \in (1..consumed) \X Message /\ (sent[d[1]] \in Messages => d[2] = sent[d[1]])
DeliveredInv ==
  /\ delivered \in Seq(Nat \X Message)
  /\ \A n \in 1..Len(delivered) : Right(delivered[n])

IInv == EncInv /\ StreamInv /\ ReadInv /\ DeliveredInv

\* The reader's side and its map, and the array it reads payloads into.
SideInv ==
  /\ reader \in {"client", "server"} /\ chansMap \in SUBSET Waiting
  /\ reqBuff \in Bytes

\* A slot is a value of its own.
LEMMA SlotNotNone == ASSUME NEW s \in Slots PROVE s # None
  BY Zenon, NoneAssumption DEF Slots

\* The invariant holds in the beginning.
LEMMA InitInv == Init => IInv
  <1> SUFFICES ASSUME Init PROVE IInv
    OBVIOUS
  <1>1. EncInv
    <2>1. [k \in 1..defaultBufSize |-> 0] \in Bytes
      BY SizesAssumption DEF Bytes, Byte
    <2>2. data \in [Buffers -> Bytes]
      BY Zenon, <2>1 DEF Init
    <2>3. held \in [Encoders -> {None} \cup Slots] /\ \A e \in Encoders : held[e] = None
      BY Zenon DEF Init
    <2>4. bufferPool \in SUBSET Buffers
      BY Zenon DEF Init
    <2> QED
      BY Zenon, <2>2, <2>3, <2>4 DEF EncInv
  <1>2. StreamInv
    <2>1. <<>> \in Seq(Frames) /\ 0 \in 0..Len(<<>>) /\ <<>> \in Bytes
      BY DEF Bytes
    <2> QED
      BY Zenon, <2>1, FramedNothing DEF Init, StreamInv
  <1>3. ReadInv
    BY Zenon DEF Init, ReadInv, Types
  <1>4. DeliveredInv
    <2>1. <<>> \in Seq(Nat \X Message) /\ 1..Len(<<>>) = {}
      OBVIOUS
    <2> QED
      BY Zenon, <2>1 DEF Init, DeliveredInv
  <1> QED
    BY Zenon, <1>1, <1>2, <1>3, <1>4 DEF IInv

\* The encoder takes a buffer that nobody else has and fills it with the frame.
LEMMA EncodeKeeps ==
  ASSUME EncInv, NEW e \in Encoders, NEW m \in Messages, EncodeMessage(e, m)
  PROVE  EncInv'
  <1>1. PICK b \in bufferPool :
             /\ data' = [data EXCEPT ![b] = Encoded(m, data[b]).array]
             /\ held' = [held EXCEPT ![e] = [buf |-> b, used |-> Encoded(m, data[b]).used, msg |-> m]]
             /\ bufferPool' = bufferPool \ {b}
    BY Zenon DEF EncodeMessage
  <1> DEFINE enc == Encoded(m, data[b])
             s == [buf |-> b, used |-> enc.used, msg |-> m]
  <1>2. /\ data \in [Buffers -> Bytes] /\ b \in Buffers /\ data[b] \in Bytes
        /\ held \in [Encoders -> {None} \cup Slots]
    BY Zenon DEF EncInv
  <1>3. /\ enc.array \in Bytes
        /\ enc.used = Len(Frame(m)) /\ enc.used <= Len(enc.array)
        /\ SubSeq(enc.array, 1, enc.used) = Frame(m)
    BY Zenon, <1>2, EncodedIsFrame
  <1>4. data' = [data EXCEPT ![b] = enc.array] /\ held' = [held EXCEPT ![e] = s]
    BY Zenon, <1>1
  <1>5. enc.used \in Nat
    BY Zenon, <1>3, FrameFacts, Joined
  <1> HIDE DEF enc
  <1>6. s \in Slots /\ s.buf = b /\ s.used = enc.used /\ s.msg = m
    BY <1>2, <1>5 DEF Slots
  <1>7. s # None
    BY Zenon, <1>6, SlotNotNone
  <1> HIDE DEF s
  <1>8. data' \in [Buffers -> Bytes] /\ data'[b] = enc.array
        /\ \A x \in Buffers \ {b} : data'[x] = data[x]
    BY Zenon, <1>2, <1>3, <1>4
  <1>9. held' \in [Encoders -> {None} \cup Slots] /\ held'[e] = s
        /\ \A g \in Encoders \ {e} : held'[g] = held[g]
    BY Zenon, <1>2, <1>4, <1>6
  <1>10. bufferPool' \in SUBSET Buffers /\ b \notin bufferPool'
         /\ \A x : x \notin bufferPool => x \notin bufferPool'
    BY Zenon, <1>1 DEF EncInv
  <1>11. ASSUME NEW g \in Encoders \ {e}, held'[g] # None
         PROVE  held[g] \in Slots /\ held'[g] = held[g] /\ held[g].buf # b /\ HoldsFrame(held[g])
    <2>1. held'[g] = held[g] /\ held[g] \in Slots
      BY Zenon, <1>2, <1>9, <1>11
    <2>2. HoldsFrame(held[g])
      BY Zenon, <1>11, <2>1 DEF EncInv
    <2> QED
      BY Zenon, <2>1, <2>2 DEF HoldsFrame
  <1>12. ASSUME NEW g \in Encoders, held'[g] # None PROVE HoldsFrame(held[g])'
    <2>1. CASE g = e
      BY Zenon, <1>3, <1>6, <1>8, <1>9, <1>10, <2>1 DEF HoldsFrame
    <2>2. CASE g # e
      <3>1. /\ held[g] \in Slots /\ held'[g] = held[g] /\ held[g].buf # b
            /\ HoldsFrame(held[g])
        BY Zenon, <1>11, <1>12, <2>2
      <3>2. held[g].buf \in Buffers
        BY <3>1 DEF Slots
      <3>3. data'[held[g].buf] = data[held[g].buf]
        BY Zenon, <1>8, <3>1, <3>2
      <3> QED
        BY Zenon, <1>10, <3>1, <3>3 DEF HoldsFrame
    <2> QED
      BY Zenon, <2>1, <2>2
  <1>13. ASSUME NEW g \in Encoders, NEW h \in Encoders, held'[g] # None, held'[h] # None, g # h
         PROVE  held'[g].buf # held'[h].buf
    <2>1. CASE g = e
      BY Zenon, <1>6, <1>9, <1>11, <1>13, <2>1
    <2>2. CASE h = e
      BY Zenon, <1>6, <1>9, <1>11, <1>13, <2>2
    <2>3. CASE g # e /\ h # e
      BY Zenon, <1>9, <1>11, <1>13, <2>3 DEF EncInv
    <2> QED
      BY Zenon, <2>1, <2>2, <2>3
  <1> QED
    BY Zenon, <1>8, <1>9, <1>10, <1>12, <1>13 DEF EncInv

\* A frame is put at the end of the stream; what was read and delivered stays right.
LEMMA SentGrows ==
  ASSUME StreamInv, ReadInv, DeliveredInv, NEW x \in Frames,
         sent' = Append(sent, x), stream' = stream \o FrameOf(x), UNCHANGED readVars
  PROVE  StreamInv' /\ ReadInv' /\ DeliveredInv'
  <1>1. /\ sent \in Seq(Frames) /\ consumed \in 0..Len(sent) /\ stream \in Bytes
        /\ Framed(consumed, sent, stream)
    BY Zenon DEF StreamInv
  <1>2. /\ UNCHANGED phase /\ UNCHANGED dAtA /\ UNCHANGED iNdEx /\ UNCHANGED cur
        /\ UNCHANGED objects /\ UNCHANGED consumed /\ UNCHANGED delivered
    BY Zenon DEF readVars
  <1>3. /\ sent' \in Seq(Frames) /\ Len(sent') = Len(sent) + 1 /\ Len(sent) \in Nat
        /\ \A n \in 1..Len(sent) : sent'[n] = sent[n]
    BY <1>1
  <1>4. consumed \in 0..Len(sent') /\ 1..consumed \in SUBSET 1..Len(sent)
        /\ 1..Len(sent) \in SUBSET 1..Len(sent')
    BY <1>1, <1>3
  <1>5. StreamInv'
    <2>1. Framed(consumed, sent', stream')
      BY Zenon, <1>1, FramedAppend
    <2>2. stream' \in Bytes
      BY Zenon, <1>1, FrameLength, Joined
    <2> QED
      BY Zenon, <1>2, <1>3, <1>4, <2>1, <2>2 DEF StreamInv
  <1>6. Working => Working'
    BY Zenon, <1>2, <1>3, <1>4 DEF Working
  <1>7. ReadInv'
    BY Zenon, <1>2, <1>6 DEF ReadInv
  <1>8. ASSUME NEW d, Right(d) PROVE Right(d)'
    <2>1. d \in (1..consumed) \X Message
      BY Zenon, <1>8 DEF Right
    <2>2. d[1] \in 1..consumed
      BY Zenon, <2>1
    <2>3. sent'[d[1]] = sent[d[1]]
      BY Zenon, <1>3, <1>4, <2>2
    <2> QED
      BY Zenon, <1>2, <1>8, <2>1, <2>3 DEF Right
  <1>9. DeliveredInv'
    BY Zenon, <1>2, <1>8 DEF DeliveredInv
  <1> QED
    BY Zenon, <1>5, <1>7, <1>9

\* The frame goes on the stream as it was encoded, and its buffer back to the pool.
LEMMA WriteKeeps ==
  ASSUME IInv, NEW e \in Encoders, WriteFrame(e) PROVE IInv'
  <1> DEFINE s == held[e]
  <1>1. EncInv /\ StreamInv /\ ReadInv /\ DeliveredInv
    BY Zenon DEF IInv
  <1>2. /\ s # None /\ stream' = stream \o SubSeq(data[s.buf], 1, s.used)
        /\ sent' = Append(sent, s.msg) /\ bufferPool' = bufferPool \cup {s.buf}
        /\ held' = [held EXCEPT ![e] = None] /\ data' = data /\ UNCHANGED readVars
    BY Zenon DEF WriteFrame
  <1>3. held \in [Encoders -> {None} \cup Slots] /\ s \in Slots /\ HoldsFrame(s)
    BY Zenon, <1>1, <1>2 DEF EncInv
  <1>4. s.buf \in Buffers /\ s.msg \in Messages
    BY <1>3 DEF Slots
  <1>5. SubSeq(data[s.buf], 1, s.used) = FrameOf(s.msg) /\ s.msg \in Frames
    BY Zenon, <1>3, <1>4 DEF HoldsFrame, FrameOf, Frames
  <1>6. StreamInv' /\ ReadInv' /\ DeliveredInv'
    <2>1. stream' = stream \o FrameOf(s.msg)
      BY Zenon, <1>2, <1>5
    <2> HIDE DEF s
    <2> QED
      BY Zenon, <1>1, <1>2, <1>5, <2>1, SentGrows
  <1>7. held' \in [Encoders -> {None} \cup Slots] /\ held'[e] = None
        /\ \A g \in Encoders \ {e} : held'[g] = held[g]
    BY Zenon, <1>2, <1>3
  <1>8. ASSUME NEW g \in Encoders, held'[g] # None
        PROVE  g # e /\ held'[g] = held[g] /\ HoldsFrame(held[g]) /\ held[g].buf # s.buf
    BY Zenon, <1>1, <1>2, <1>7, <1>8 DEF EncInv
  <1>9. ASSUME NEW g \in Encoders, held'[g] # None PROVE HoldsFrame(held[g])'
    <2>1. held'[g] = held[g] /\ HoldsFrame(held[g]) /\ held[g].buf # s.buf
      BY Zenon, <1>8, <1>9
    <2>2. data' = data /\ held[g].buf \notin bufferPool'
      BY Zenon, <1>2, <2>1 DEF HoldsFrame
    <2> QED
      BY Zenon, <2>1, <2>2 DEF HoldsFrame
  <1>10. ASSUME NEW g \in Encoders, NEW h \in Encoders, held'[g] # None, held'[h] # None, g # h
         PROVE  held'[g].buf # held'[h].buf
    BY Zenon, <1>1, <1>8, <1>10 DEF EncInv
  <1>11. data' \in [Buffers -> Bytes] /\ bufferPool' \in SUBSET Buffers
    BY Zenon, <1>1, <1>2, <1>4 DEF EncInv
  <1>12. EncInv'
    BY Zenon, <1>7, <1>9, <1>10, <1>11 DEF EncInv
  <1> QED
    BY Zenon, <1>6, <1>12 DEF IInv

\* The encoders' part stays as it is when others move.
LEMMA EncSame == ASSUME EncInv, UNCHANGED encVars PROVE EncInv'
  BY Zenon DEF EncInv, HoldsFrame, encVars

\* A frame of the peer's own making goes on the stream.
LEMMA PeerKeeps ==
  ASSUME IInv, NEW f \in RawFrames, PeerSends(f) PROVE IInv'
  <1>1. f \in Frames /\ FrameOf(f) = f.raw
    BY Zenon, RawFramesAssumption DEF Frames, FrameOf
  <1>2. /\ sent' = Append(sent, f) /\ stream' = stream \o FrameOf(f)
        /\ UNCHANGED readVars /\ UNCHANGED encVars
    BY Zenon, <1>1 DEF PeerSends
  <1>3. EncInv /\ StreamInv /\ ReadInv /\ DeliveredInv
    BY Zenon DEF IInv
  <1>4. StreamInv' /\ ReadInv' /\ DeliveredInv'
    BY Zenon, <1>1, <1>2, <1>3, SentGrows
  <1>5. EncInv'
    BY Zenon, <1>2, <1>3, EncSame
  <1> QED
    BY Zenon, <1>4, <1>5 DEF IInv

\* A whole frame is taken from the stream.
LEMMA FrameTaken ==
  ASSUME StreamInv, DeliveredInv, Len(stream) >= 4, consumed' = consumed + 1,
         stream' = SubSeq(stream, 5 + Uint32(stream), Len(stream)),
         UNCHANGED sent, UNCHANGED delivered
  PROVE  /\ StreamInv' /\ DeliveredInv'
         /\ consumed' \in 1..Len(sent) /\ sent[consumed'] \in Frames
         /\ Len(FrameOf(sent[consumed'])) <= Len(stream)
         /\ \A k \in 1..Len(FrameOf(sent[consumed'])) : stream[k] = FrameOf(sent[consumed'])[k]
         /\ Uint32(stream) = Uint32(FrameOf(sent[consumed']))
  <1> DEFINE F == FrameOf(sent[consumed + 1])
             n == Uint32(stream)
  <1>1. /\ sent \in Seq(Frames) /\ consumed \in 0..Len(sent) /\ stream \in Bytes
        /\ Framed(consumed, sent, stream)
    BY Zenon DEF StreamInv
  <1>2. /\ consumed + 1 \in 1..Len(sent) /\ sent[consumed + 1] \in Frames
        /\ Len(F) <= Len(stream) /\ \A k \in 1..Len(F) : stream[k] = F[k]
        /\ n = Uint32(F)
        /\ Framed(consumed + 1, sent, SubSeq(stream, Len(F) + 1, Len(stream)))
    <2>1. HasHead(consumed, sent, stream, F)
      BY Zenon, <1>1, FramedHead
    <2> QED
      BY Zenon, <2>1 DEF HasHead
  <1>3. Len(F) \in Nat /\ Len(F) = 4 + Uint32(F)
    BY Zenon, <1>2, FrameLength
  <1>4. Uint32(F) \in Int
    <2>1. F \in Bytes /\ Len(F) >= 4
      BY Zenon, <1>2, FrameLength
    <2>2. Uint32(F) \in Nat
      BY Zenon, <2>1, Uint32Type
    <2> QED
      BY <2>2
  <1> HIDE DEF F, n
  <1>5. 5 + n = Len(F) + 1
    BY <1>2, <1>3, <1>4
  <1>6. Framed(consumed', sent', stream')
    BY Zenon, <1>2, <1>5 DEF n
  <1>7. stream' \in Bytes
    <2>1. SubSeq(stream, Len(F) + 1, Len(stream)) \in Bytes
      <3>1. Len(stream) \in Nat /\ Len(stream) <= Len(stream)
        BY <1>1 DEF Bytes
      <3> QED
        BY Zenon, <1>1, <1>3, <3>1, SubSeqType
    <2> QED
      BY Zenon, <1>5, <2>1 DEF n
  <1>8. consumed + 1 \in 0..Len(sent) /\ 1..consumed \in SUBSET 1..(consumed + 1)
    BY <1>1, <1>2
  <1>9. StreamInv'
    BY Zenon, <1>1, <1>6, <1>7, <1>8 DEF StreamInv
  <1>10. ASSUME NEW d, Right(d) PROVE Right(d)'
    BY Zenon, <1>8, <1>10 DEF Right
  <1>11. DeliveredInv'
    BY Zenon, <1>10 DEF DeliveredInv
  <1> QED
    BY Zenon, <1>2, <1>9, <1>11 DEF F, n

--------------------------------------------------------------------------------
(* The reader's steps.                                                       *)

\* "invalid frame length": the frame ends after its length.
LEMMA InvalidKeeps == ASSUME IInv, ReadInvalidLength PROVE IInv'
  <1>1. EncInv /\ StreamInv /\ ReadInv /\ DeliveredInv
    BY Zenon DEF IInv
  <1>2. /\ phase = "read" /\ Len(stream) >= 4 /\ Uint32(stream) < 1
        /\ stream' = SubSeq(stream, 5, Len(stream)) /\ phase' = "over"
        /\ consumed' = consumed + 1
        /\ UNCHANGED encVars /\ UNCHANGED sent /\ UNCHANGED dAtA /\ UNCHANGED iNdEx
        /\ UNCHANGED cur /\ UNCHANGED objects /\ UNCHANGED delivered
    BY Zenon DEF ReadInvalidLength, Available
  <1>3. 5 + Uint32(stream) = 5
    <2>1. Uint32(stream) \in Nat
      BY Zenon, <1>1, <1>2, Uint32Type DEF StreamInv
    <2> QED
      BY <1>2, <2>1
  <1>4. StreamInv' /\ DeliveredInv'
    BY Zenon, <1>1, <1>2, <1>3, FrameTaken
  <1>5. phase # "unmarshal" /\ phase' # "unmarshal"
    BY <1>2
  <1>6. ReadInv'
    BY Zenon, <1>1, <1>2, <1>5 DEF ReadInv
  <1>7. EncInv'
    BY Zenon, <1>1, <1>2, EncSame
  <1> QED
    BY Zenon, <1>4, <1>6, <1>7 DEF IInv

\* What Takes says, with the frame that the reader has in hand.
HasTaken(F) ==
  /\ StreamInv' /\ DeliveredInv' /\ EncInv'
  /\ consumed' \in 1..Len(sent') /\ sent'[consumed'] \in Frames
  /\ F = FrameOf(sent'[consumed']) /\ Len(F) <= Len(stream)
  /\ (\A k \in 1..Len(F) : stream[k] = F[k])
  /\ Uint32(stream) = Uint32(F) /\ Uint32(F) \in Nat /\ Uint32(F) >= 1
  /\ stream \in Bytes /\ phase = "read"

\* A step with Takes has a whole frame in hand.
LEMMA TakenFrame == ASSUME IInv, NEW ok, Takes(ok) PROVE \E F : HasTaken(F)
  <1> DEFINE F == FrameOf(sent[consumed'])
  <1>1. EncInv /\ StreamInv /\ DeliveredInv /\ stream \in Bytes
    BY Zenon DEF IInv, StreamInv
  <1>2. /\ phase = "read" /\ Len(stream) >= 4 /\ Uint32(stream) >= 1
        /\ stream' = SubSeq(stream, 5 + Uint32(stream), Len(stream))
        /\ consumed' = consumed + 1
        /\ UNCHANGED encVars /\ UNCHANGED sent /\ UNCHANGED delivered
    BY Zenon DEF Takes, Available
  <1>3. Uint32(stream) \in Nat
    BY Zenon, <1>1, <1>2, Uint32Type
  <1>4. /\ StreamInv' /\ DeliveredInv'
        /\ consumed' \in 1..Len(sent) /\ sent[consumed'] \in Frames
        /\ Len(F) <= Len(stream) /\ \A k \in 1..Len(F) : stream[k] = F[k]
        /\ Uint32(stream) = Uint32(F)
    BY Zenon, <1>1, <1>2, FrameTaken
  <1>5. EncInv'
    BY Zenon, <1>1, <1>2, EncSame
  <1>6. HasTaken(F)
    BY Zenon, <1>1, <1>2, <1>3, <1>4, <1>5 DEF HasTaken
  <1> QED
    BY Zenon, <1>6

\* A frame that is ignored leaves the reader as it was.
LEMMA IgnoredKeeps == ASSUME IInv, ReadIgnored PROVE IInv'
  <1>1. PICK F : HasTaken(F)
    BY Zenon, TakenFrame DEF ReadIgnored
  <1>2. /\ UNCHANGED phase /\ UNCHANGED dAtA /\ UNCHANGED iNdEx /\ UNCHANGED cur
        /\ UNCHANGED objects
    BY Zenon DEF ReadIgnored
  <1>3. StreamInv' /\ DeliveredInv' /\ EncInv' /\ phase = "read"
    BY Zenon, <1>1 DEF HasTaken
  <1>4. phase # "unmarshal"
    BY <1>3
  <1>5. ReadInv'
    BY Zenon, <1>2, <1>4 DEF IInv, ReadInv
  <1> QED
    BY Zenon, <1>3, <1>5 DEF IInv

\* The payload that the reader hands on is the one in the frame.
LEMMA PayloadTaken ==
  ASSUME NEW s \in Bytes, NEW F \in Bytes, Len(F) <= Len(s), Len(F) = 4 + Uint32(F),
         Uint32(F) \in Nat, Uint32(F) >= 1, Uint32(s) = Uint32(F),
         \A k \in 1..Len(F) : s[k] = F[k]
  PROVE  /\ SubSeq(s, headerSize + 1, 4 + Uint32(s)) = SubSeq(F, 6, Len(F))
         /\ s[headerSize] = F[5] /\ SubSeq(F, 6, Len(F)) \in Bytes
  <1> DEFINE L == Len(F)
             n == Uint32(F)
             a == SubSeq(s, 6, L)
             b == SubSeq(F, 6, L)
  <1>1. headerSize + 1 = 6 /\ headerSize = 5 /\ 4 + Uint32(s) = L
    BY DEF headerSize
  <1>2. L \in Nat /\ L >= 5 /\ Len(s) \in Nat
    BY DEF Bytes
  <1>3. /\ a \in Bytes /\ Len(a) = L - 5 /\ \A k \in 1..(L - 5) : a[k] = s[5 + k]
        /\ b \in Bytes /\ Len(b) = L - 5 /\ \A k \in 1..(L - 5) : b[k] = F[5 + k]
    BY SMTT(40), <1>2 DEF Bytes
  <1>4. \A k \in 1..(L - 5) : 5 + k \in 1..L
    BY <1>2
  <1> HIDE DEF L, a, b
  <1>5. a = b
    <2>1. \A k \in 1..Len(a) : a[k] = b[k]
      BY Zenon, <1>3, <1>4 DEF L
    <2> QED
      BY Zenon, <1>3, <2>1, SeqSame DEF Bytes
  <1>6. 5 \in 1..L
    BY <1>2
  <1> QED
    BY Zenon, <1>1, <1>3, <1>5, <1>6 DEF a, b, L

\* io.ReadFull leaves the payload at the start of the array, whatever was in it.
LEMMA ReceivedIs ==
  ASSUME NEW a \in Bytes, NEW p \in Bytes
  PROVE  Received(a, p) \in Bytes /\ SubSeq(Received(a, p), 1, Len(p)) = p
  <1> DEFINE x == Received(a, p)
             y == SubSeq(x, 1, Len(p))
  <1>1. Len(a) \in Nat /\ Len(p) \in Nat
    BY Zenon, Joined
  <1>2. x \in Bytes /\ Len(p) <= Len(x) /\ \A k \in 1..Len(p) : x[k] = p[k]
    <2>1. CASE Len(a) < Len(p)
      <3>1. x = p
        BY Zenon, <2>1 DEF Received
      <3>2. Len(p) <= Len(p)
        BY <1>1
      <3> QED
        BY Zenon, <3>1, <3>2
    <2>2. CASE ~(Len(a) < Len(p))
      <3>1. 0 + Len(p) <= Len(a) /\ 0 \in Nat
        BY <1>1, <2>2
      <3>2. x = CopyTo(a, 0, p)
        BY Zenon, <2>2 DEF Received
      <3>3. IsCopy(x, a, 0, p)
        BY Zenon, <3>1, <3>2, Copied
      <3> HIDE DEF x
      <3> QED
        BY <1>1, <3>1, <3>3 DEF IsCopy
    <2> QED
      BY Zenon, <2>1, <2>2
  <1> HIDE DEF x
  <1>3. /\ y \in Bytes /\ Len(y) = Len(p) /\ \A k \in 1..Len(p) : y[k] = x[k]
    BY <1>1, <1>2 DEF Bytes
  <1> HIDE DEF y
  <1>4. y = p
    BY Zenon, <1>2, <1>3, SeqSame DEF Bytes
  <1> QED
    BY Zenon, <1>2, <1>4 DEF x, y

\* What the reader hands on is the payload of the frame it has taken.
LEMMA HandedOn ==
  ASSUME IInv, SideInv, NEW ok, Takes(ok)
  PROVE  handedOn = payloadOf /\ reqBuff' \in Bytes
  <1>1. PICK F : HasTaken(F)
    BY Zenon, TakenFrame
  <1>2. /\ sent'[consumed'] \in Frames /\ F = FrameOf(sent'[consumed'])
        /\ Len(F) <= Len(stream) /\ (\A n \in 1..Len(F) : stream[n] = F[n])
        /\ Uint32(stream) = Uint32(F) /\ Uint32(F) \in Nat /\ Uint32(F) >= 1
        /\ stream \in Bytes
    BY Zenon, <1>1 DEF HasTaken
  <1>3. F \in Bytes /\ Len(F) = 4 + Uint32(F)
    BY Zenon, <1>2, FrameLength
  <1>4. payloadOf \in Bytes
    BY Zenon, <1>2, <1>3, PayloadTaken DEF payloadOf
  <1>5. reqBuff \in Bytes /\ reqBuff' = Received(reqBuff, payloadOf)
    BY Zenon DEF SideInv, Takes
  <1> QED
    BY Zenon, <1>4, <1>5, ReceivedIs DEF handedOn

\* The flags of a frame: of which kind the message is, and whether it is compressed.
LEMMA FlagTells ==
  ASSUME NEW m \in Messages
  PROVE  KindOf(FrameFlag(m)) = m.kind /\ (Plain(FrameFlag(m)) <=> ~Shrinks(m))
  <1>1. m.kind \in {"request", "response", "event"}
    BY Zenon, MessagesAssumption, MessageFields
  <1>2. Shrinks(m) \in BOOLEAN
    BY Zenon DEF Shrinks
  <1>3. CASE m.kind = "request"
    BY <1>2, <1>3 DEF FrameFlag, Flag, ZstdFlag, KindOf, Plain
  <1>4. CASE m.kind = "response"
    BY <1>2, <1>4 DEF FrameFlag, Flag, ZstdFlag, KindOf, Plain
  <1>5. CASE m.kind = "event"
    BY <1>2, <1>5 DEF FrameFlag, Flag, ZstdFlag, KindOf, Plain
  <1> QED
    BY Zenon, <1>1, <1>3, <1>4, <1>5

\* The bytes after the flag of a message's frame are its payload.
LEMMA FrameTail == ASSUME NEW m \in Messages PROVE SubSeq(Frame(m), 6, Len(Frame(m))) = Payload(m)
  <1> DEFINE F == Frame(m)
             p == Payload(m)
             b == SubSeq(F, 6, Len(F))
  <1>1. F \in Bytes /\ Len(F) = 5 + Len(p) /\ \A k \in 1..Len(p) : F[5 + k] = p[k]
    BY Zenon, FrameFacts
  <1>2. p \in Bytes /\ Len(p) \in Nat
    BY Zenon, PayloadFacts
  <1> HIDE DEF F, p
  <1>3. b \in Bytes /\ Len(b) = Len(p) /\ \A k \in 1..Len(p) : b[k] = F[5 + k]
    BY <1>1, <1>2 DEF Bytes
  <1> HIDE DEF b
  <1>4. b = p
    BY Zenon, <1>1, <1>2, <1>3, SeqSame DEF Bytes
  <1> QED
    BY Zenon, <1>4 DEF F, p, b

\* An object from a pool, with its kind, is a message.
LEMMA BlankType ==
  ASSUME NEW t \in Types, NEW k \in {"request", "response", "event"}
  PROVE  [Blank(t) EXCEPT !.kind = k] \in Message
  <1>1. <<>> \in Seq(Byte) /\ <<>> \in Seq(Seq(Byte)) /\ 0 \in Nat
    OBVIOUS
  <1> QED
    BY Zenon, <1>1 DEF Blank, Message, Types

\* UnmarshalVT begins on a payload of bytes, and on a message's own payload if the
\* frame is a message's.
LEMMA ReadKeeps == ASSUME IInv, SideInv, ReadFrame PROVE IInv'
  <1>1. PICK F : HasTaken(F)
    BY Zenon, TakenFrame DEF ReadFrame
  <1> DEFINE x == sent'[consumed']
             z == SubSeq(F, 6, Len(F))
             flag == F[5]
             k == KindOf(flag)
  <1>2. /\ StreamInv' /\ DeliveredInv' /\ EncInv'
        /\ consumed' \in 1..Len(sent') /\ x \in Frames
        /\ F = FrameOf(x) /\ Len(F) <= Len(stream)
        /\ (\A n \in 1..Len(F) : stream[n] = F[n])
        /\ Uint32(stream) = Uint32(F) /\ Uint32(F) \in Nat /\ Uint32(F) >= 1
        /\ stream \in Bytes
    BY Zenon, <1>1 DEF HasTaken
  <1>3. F \in Bytes /\ Len(F) = 4 + Uint32(F)
    BY Zenon, <1>2, FrameLength
  <1> HIDE DEF x
  <1>4. payloadOf = z /\ flagOf = flag /\ z \in Bytes
    BY Zenon, <1>2, <1>3, PayloadTaken DEF payloadOf, flagOf
  <1>4a. handedOn = payloadOf
    BY Zenon, HandedOn DEF ReadFrame
  <1>5. /\ TRUE = (KindOf(flagOf) \in Cases /\ (Plain(flagOf) \/ Decompressible(handedOn)))
        /\ phase' = "unmarshal" /\ iNdEx' = 0 /\ UNCHANGED objects
        /\ dAtA' = IF Plain(flagOf) THEN handedOn ELSE DecompressZstd(handedOn)
        /\ cur' = [objects[Type(KindOf(flagOf))] EXCEPT !.kind = KindOf(flagOf)]
    BY Zenon DEF ReadFrame, Takes
  <1> HIDE DEF z, flag
  <1>6. /\ k \in Cases /\ (Plain(flag) \/ Decompressible(z))
        /\ dAtA' = (IF Plain(flag) THEN z ELSE DecodeAll(z))
        /\ cur' = [objects[Type(k)] EXCEPT !.kind = k]
    BY Zenon, <1>4, <1>4a, <1>5 DEF DecompressZstd
  <1>7. k \in {"request", "response", "event"}
    BY Zenon, <1>6 DEF Cases
  <1> HIDE DEF k
  <1>8. Type(k) \in Types
    BY Zenon DEF Type, Types
  <1>9. objects = [t \in Types |-> Blank(t)]
    BY Zenon DEF IInv, ReadInv
  <1>10. cur' = [Blank(Type(k)) EXCEPT !.kind = k] /\ cur' \in Message
    <2>1. objects[Type(k)] = Blank(Type(k))
      BY Zenon, <1>8, <1>9
    <2> QED
      BY Zenon, <1>6, <1>7, <1>8, <2>1, BlankType
  <1>11. ASSUME x \in Messages PROVE dAtA' \in Bytes /\ dAtA' = Marshal(x) /\ Reading(cur', 0, x)
    <2>1. F = Frame(x)
      BY Zenon, <1>2, <1>11 DEF FrameOf
    <2>2. z = Payload(x)
      BY Zenon, <1>11, <2>1, FrameTail DEF z
    <2>3. flag = FrameFlag(x)
      BY Zenon, <1>11, <2>1, FrameFacts DEF flag
    <2>4. k = x.kind /\ (Plain(flag) <=> ~Shrinks(x))
      BY Zenon, <1>11, <2>3, FlagTells DEF k
    <2>5. DecodeAll(EncodeAll(Marshal(x))) = Marshal(x)
      BY Zenon, <1>11, ZstdAssumption
    <2>6. dAtA' = Marshal(x)
      BY Zenon, <1>6, <2>2, <2>4, <2>5 DEF Payload
    <2>7. Reading(cur', 0, x)
      BY Zenon, <1>10, <1>11, <2>4, ReadingBegins
    <2>8. Marshal(x) \in Bytes
      BY Zenon, <1>11, PayloadFacts
    <2> QED
      BY Zenon, <2>6, <2>7, <2>8
  <1>12. ASSUME x \notin Messages PROVE dAtA' \in Bytes
    <2>1. x \in RawFrames /\ F = x.raw
      BY Zenon, <1>2, <1>12 DEF Frames, FrameOf
    <2>2. Decompressible(z) => DecodeAll(z) \in Bytes
      BY Zenon, <2>1, ZstdAssumption DEF z, Bytes
    <2> QED
      BY Zenon, <1>4, <1>6, <1>12, <2>2
  <1>13. Working'
    <2>1. dAtA' \in Bytes
      BY Zenon, <1>11, <1>12
    <2>2. 0 \in 0..Len(dAtA')
      <3>1. Len(dAtA') \in Nat
        BY Zenon, <2>1, Joined
      <3> QED
        BY <3>1
    <2> QED
      BY Zenon, <1>2, <1>5, <1>10, <1>11, <2>1, <2>2 DEF Working, x
  <1>14. phase' \in {"read", "unmarshal", "over", "panicked"}
    BY Zenon, <1>5
  <1>15. ReadInv'
    BY Zenon, <1>5, <1>9, <1>13, <1>14 DEF ReadInv
  <1> QED
    BY Zenon, <1>2, <1>15 DEF IInv

\* The object goes back to its pool, blank.
LEMMA ReleaseKeeps ==
  ASSUME IInv, phase = "unmarshal", Release,
         UNCHANGED sent, UNCHANGED stream, UNCHANGED consumed
  PROVE  ReadInv' /\ StreamInv'
  <1>1. /\ objects' = [objects EXCEPT ![Type(cur.kind)] = Blank(Type(cur.kind))]
        /\ cur' = None /\ phase' = "read" /\ dAtA' = <<>> /\ iNdEx' = 0
    BY Zenon DEF Release, Released
  <1>2. objects = [t \in Types |-> Blank(t)]
    BY Zenon DEF IInv, ReadInv
  <1>3. objects' = [t \in Types |-> Blank(t)]
    <2> DEFINE t0 == Type(cur.kind)
    <2> HIDE DEF t0
    <2>1. objects' = [objects EXCEPT ![t0] = Blank(t0)]
      BY Zenon, <1>1 DEF t0
    <2> QED
      BY Zenon, <1>2, <2>1
  <1>4. phase' # "unmarshal" /\ phase' \in {"read", "unmarshal", "over", "panicked"}
    BY <1>1
  <1> QED
    BY Zenon, <1>1, <1>3, <1>4 DEF IInv, ReadInv, StreamInv

\* What was delivered stays right when nothing new is.
LEMMA DeliveredSame ==
  ASSUME DeliveredInv, UNCHANGED sent, UNCHANGED consumed, UNCHANGED delivered
  PROVE  DeliveredInv'
  BY Zenon DEF DeliveredInv, Right

\* A round, whether it reads a field or fails.
LEMMA RoundKeeps == ASSUME IInv, UnmarshalRound PROVE IInv'
  <1> DEFINE f == Round(cur, dAtA, iNdEx)
             m == sent[consumed]
  <1>1. /\ phase = "unmarshal" /\ iNdEx < Len(dAtA)
        /\ UNCHANGED encVars /\ UNCHANGED sent /\ UNCHANGED stream /\ UNCHANGED consumed
        /\ UNCHANGED delivered
    BY Zenon DEF UnmarshalRound
  <1>2. \/ f.ok /\ cur' = f.msg /\ iNdEx' = f.next /\ UNCHANGED <<phase, dAtA, objects>>
        \/ ~f.ok /\ Release
    BY Zenon DEF UnmarshalRound, Round
  <1>3. EncInv /\ StreamInv /\ ReadInv /\ DeliveredInv
    BY Zenon DEF IInv
  <1>4. EncInv' /\ DeliveredInv'
    BY Zenon, <1>1, <1>3, EncSame, DeliveredSame
  <1>5. CASE ~f.ok /\ Release
    BY Zenon, <1>1, <1>4, <1>5, ReleaseKeeps DEF IInv
  <1>6. CASE f.ok /\ cur' = f.msg /\ iNdEx' = f.next /\ UNCHANGED <<phase, dAtA, objects>>
    <2>1. Working
      BY Zenon, <1>1, <1>3 DEF ReadInv
    <2>2. cur \in Message /\ dAtA \in Bytes /\ iNdEx \in 0..Len(dAtA)
      BY Zenon, <2>1 DEF Working
    <2>3. f.msg \in Message /\ f.next \in 0..Len(dAtA)
      BY Zenon, <1>6, <2>2, UnmarshalType DEF Round
    <2>4. ASSUME m \in Messages PROVE dAtA = Marshal(m) /\ Reading(cur', iNdEx', m)
      <3>1. dAtA = Marshal(m) /\ Reading(cur, iNdEx, m)
        BY Zenon, <2>1, <2>4 DEF Working
      <3>2. ~(iNdEx = Len(Marshal(m)))
        <4>1. iNdEx # Len(dAtA)
          BY <1>1, <2>2
        <4> QED
          BY Zenon, <3>1, <4>1
      <3>3. Goes(cur, iNdEx, m)
        BY Zenon, <2>4, <3>1, <3>2, Advance
      <3>4. PICK x, n : Gives(cur, Marshal(m), iNdEx, x, n) /\ Reading(x, n, m)
        BY Zenon, <3>3 DEF Goes
      <3>5. f = Good(x, n)
        BY Zenon, <3>1, <3>4 DEF Gives
      <3> HIDE DEF f
      <3>6. f.msg = x /\ f.next = n
        BY <3>5 DEF Good
      <3> QED
        BY Zenon, <1>6, <3>1, <3>4, <3>6
    <2>5. UNCHANGED phase /\ UNCHANGED dAtA /\ UNCHANGED objects
      BY Zenon, <1>6
    <2> HIDE DEF f
    <2>6. Working'
      BY Zenon, <1>1, <1>6, <2>1, <2>3, <2>4, <2>5 DEF Working
    <2>7. ReadInv'
      BY Zenon, <1>1, <1>3, <2>5, <2>6 DEF ReadInv
    <2>8. StreamInv'
      BY Zenon, <1>1, <1>3 DEF StreamInv
    <2> QED
      BY Zenon, <1>4, <2>7, <2>8 DEF IInv
  <1> QED
    BY Zenon, <1>2, <1>5, <1>6

\* The message that is delivered is the one that was sent.
LEMMA ReturnKeeps == ASSUME IInv, UnmarshalReturns PROVE IInv'
  <1> DEFINE m == sent[consumed]
             d == <<consumed, cur>>
  <1>1. /\ phase = "unmarshal" /\ iNdEx >= Len(dAtA) /\ Release
        /\ delivered' = Append(delivered, d)
        /\ UNCHANGED encVars /\ UNCHANGED sent /\ UNCHANGED stream /\ UNCHANGED consumed
    BY Zenon DEF UnmarshalReturns
  <1>2. EncInv /\ StreamInv /\ ReadInv /\ DeliveredInv
    BY Zenon DEF IInv
  <1>3. ReadInv' /\ StreamInv' /\ EncInv'
    BY Zenon, <1>1, <1>2, ReleaseKeeps, EncSame
  <1>4. Working
    BY Zenon, <1>1, <1>2 DEF ReadInv
  <1>5. cur \in Message /\ iNdEx \in 0..Len(dAtA) /\ consumed \in 1..Len(sent) /\ dAtA \in Bytes
    BY Zenon, <1>4 DEF Working
  <1>6. consumed \in Nat /\ consumed \in 1..consumed
    BY <1>5
  <1>7. ASSUME m \in Messages PROVE cur = m
    <2>1. dAtA = Marshal(m) /\ Reading(cur, iNdEx, m)
      BY Zenon, <1>4, <1>7 DEF Working
    <2>2. ~(iNdEx < Len(dAtA))
      <3>1. Len(dAtA) \in Nat
        BY Zenon, <1>5, Joined
      <3> QED
        BY <1>1, <1>5, <3>1
    <2>3. ~Goes(cur, iNdEx, m)
      BY Zenon, <2>1, <2>2 DEF Goes
    <2> QED
      BY Zenon, <1>7, <2>1, <2>3, Advance
  <1>8. d \in Nat \X Message /\ d \in (1..consumed) \X Message /\ d[1] = consumed /\ d[2] = cur
    BY Zenon, <1>5, <1>6
  <1>9. Right(d)
    BY Zenon, <1>7, <1>8 DEF Right
  <1> HIDE DEF d
  <1>10. ASSUME NEW y, Right(y) PROVE Right(y)'
    BY Zenon, <1>1, <1>10 DEF Right
  <1>11. /\ delivered \in Seq(Nat \X Message)
         /\ \A n \in 1..Len(delivered) : Right(delivered[n])
    BY Zenon, <1>2 DEF DeliveredInv
  <1>12. /\ delivered' \in Seq(Nat \X Message)
         /\ \A n \in 1..Len(delivered') :
              delivered'[n] = d \/ (n \in 1..Len(delivered) /\ delivered'[n] = delivered[n])
    <2> DEFINE S == Nat \X Message
    <2>1. d \in S /\ delivered \in Seq(S)
      BY Zenon, <1>8, <1>11
    <2> HIDE DEF S
    <2>2. /\ delivered' \in Seq(S)
          /\ \A n \in 1..Len(delivered') :
               delivered'[n] = d \/ (n \in 1..Len(delivered) /\ delivered'[n] = delivered[n])
      BY <1>1, <2>1
    <2> QED
      BY Zenon, <2>2 DEF S
  <1>13. DeliveredInv'
    BY Zenon, <1>9, <1>10, <1>11, <1>12 DEF DeliveredInv
  <1> QED
    BY Zenon, <1>3, <1>13 DEF IInv

\* A panic leaves nothing of the message behind.
LEMMA PanicKeeps == ASSUME IInv, UnmarshalPanics PROVE IInv'
  <1>1. EncInv /\ StreamInv /\ ReadInv /\ DeliveredInv
    BY Zenon DEF IInv
  <1>2. /\ phase' = "panicked" /\ cur' = None /\ dAtA' = <<>> /\ iNdEx' = 0
        /\ UNCHANGED encVars /\ UNCHANGED sent /\ UNCHANGED stream /\ UNCHANGED consumed
        /\ UNCHANGED objects /\ UNCHANGED delivered
    BY Zenon DEF UnmarshalPanics
  <1>3. EncInv' /\ DeliveredInv' /\ StreamInv'
    BY Zenon, <1>1, <1>2, EncSame, DeliveredSame DEF StreamInv
  <1>4. phase' # "unmarshal" /\ phase' \in {"read", "unmarshal", "over", "panicked"}
    BY <1>2
  <1>5. ReadInv'
    BY Zenon, <1>1, <1>2, <1>4 DEF ReadInv
  <1> QED
    BY Zenon, <1>3, <1>5 DEF IInv

\* The reader stays on its side, and the map only shrinks.
LEMMA SideNext == IInv /\ SideInv /\ [Next]_vars => SideInv'
  <1> SUFFICES ASSUME IInv, SideInv, [Next]_vars PROVE SideInv'
    OBVIOUS
  <1>1. UNCHANGED reader
    BY Zenon DEF Next, EncodeMessage, WriteFrame, PeerSends, Read, ReadInvalidLength, ReadIgnored,
                 ReadFrame, Takes, UnmarshalRound, UnmarshalReturns, UnmarshalPanics, Quiet, vars
  <1>2. UNCHANGED chansMap \/ chansMap' = chansMap \ {cur.id}
    BY Zenon DEF Next, EncodeMessage, WriteFrame, PeerSends, Read, ReadInvalidLength, ReadIgnored,
                 ReadFrame, Takes, UnmarshalRound, UnmarshalReturns, UnmarshalPanics, Quiet, vars,
                 readVars
  <1>3. UNCHANGED reqBuff \/ Takes(TRUE) \/ Takes(FALSE)
    BY Zenon DEF Next, EncodeMessage, WriteFrame, PeerSends, Read, ReadInvalidLength, ReadIgnored,
                 ReadFrame, UnmarshalRound, UnmarshalReturns, UnmarshalPanics, Quiet, vars,
                 readVars
  <1>4. reqBuff' \in Bytes
    BY Zenon, <1>3, HandedOn DEF SideInv
  <1> QED
    BY Zenon, <1>1, <1>2, <1>4 DEF SideInv

\* Every step keeps the invariant.
LEMMA NextInv == IInv /\ SideInv /\ [Next]_vars => IInv'
  <1> SUFFICES ASSUME IInv, SideInv, [Next]_vars PROVE IInv'
    OBVIOUS
  <1>1. ASSUME NEW e \in Encoders, NEW m \in Messages, EncodeMessage(e, m) PROVE IInv'
    <2>1. /\ UNCHANGED sent /\ UNCHANGED stream /\ UNCHANGED phase /\ UNCHANGED dAtA
          /\ UNCHANGED iNdEx /\ UNCHANGED cur /\ UNCHANGED objects /\ UNCHANGED consumed
          /\ UNCHANGED delivered
      BY Zenon, <1>1 DEF EncodeMessage, readVars
    <2>2. EncInv /\ StreamInv /\ ReadInv /\ DeliveredInv
      BY Zenon DEF IInv
    <2>3. EncInv'
      BY Zenon, <1>1, <2>2, EncodeKeeps
    <2>4. StreamInv' /\ DeliveredInv'
      BY Zenon, <2>1, <2>2, DeliveredSame DEF StreamInv
    <2>5. ReadInv'
      BY Zenon, <2>1, <2>2 DEF ReadInv, Working
    <2> QED
      BY Zenon, <2>3, <2>4, <2>5 DEF IInv
  <1>2. ASSUME NEW e \in Encoders, WriteFrame(e) PROVE IInv'
    BY Zenon, <1>2, WriteKeeps
  <1>3. ASSUME NEW f \in RawFrames, PeerSends(f) PROVE IInv'
    BY Zenon, <1>3, PeerKeeps
  <1>4. ASSUME Read PROVE IInv'
    BY Zenon, <1>4, InvalidKeeps, IgnoredKeeps, ReadKeeps, RoundKeeps, ReturnKeeps,
       PanicKeeps
       DEF Read
  <1>5. ASSUME UNCHANGED vars PROVE IInv'
    <2>1. /\ UNCHANGED sent /\ UNCHANGED stream /\ UNCHANGED phase /\ UNCHANGED dAtA
          /\ UNCHANGED iNdEx /\ UNCHANGED cur /\ UNCHANGED objects /\ UNCHANGED consumed
          /\ UNCHANGED delivered /\ UNCHANGED encVars
      BY Zenon, <1>5 DEF vars, readVars
    <2>2. EncInv /\ StreamInv /\ ReadInv /\ DeliveredInv
      BY Zenon DEF IInv
    <2>3. EncInv'
      BY Zenon, <2>1, <2>2, EncSame
    <2>4. StreamInv' /\ DeliveredInv'
      BY Zenon, <2>1, <2>2, DeliveredSame DEF StreamInv
    <2>5. ReadInv'
      BY Zenon, <2>1, <2>2 DEF ReadInv, Working
    <2> QED
      BY Zenon, <2>3, <2>4, <2>5 DEF IInv
  <1> QED
    BY Zenon, <1>1, <1>2, <1>3, <1>4, <1>5 DEF Next, Quiet

\* So it holds in every state of every behaviour.
LEMMA Invariant == Spec => [](IInv /\ SideInv)
  <1>1. Init => SideInv
    <2>1. <<>> \in Bytes
      BY DEF Bytes
    <2> QED
      BY Zenon, <2>1 DEF Init, SideInv
  <1> QED
    BY InitInv, NextInv, SideNext, <1>1, PTL DEF Spec

--------------------------------------------------------------------------------
(* The theorems.                                                             *)

\* What is delivered came from the frames that were sent.
LEMMA DeliveredMessages ==
  ASSUME IInv, NEW d \in Range(delivered)
  PROVE  d \in (1..Len(sent)) \X Message /\ d[2] \in Message /\ Right(d)
  <1>1. PICK n \in DOMAIN delivered : d = delivered[n]
    BY Zenon DEF Range
  <1>2. DeliveredInv /\ consumed \in 0..Len(sent) /\ sent \in Seq(Frames)
    BY Zenon DEF IInv, StreamInv
  <1>3. DOMAIN delivered = 1..Len(delivered)
    <2>1. delivered \in Seq(Nat \X Message)
      BY Zenon, <1>2 DEF DeliveredInv
    <2> DEFINE S == Nat \X Message
    <2>2. delivered \in Seq(S)
      BY Zenon, <2>1
    <2> HIDE DEF S
    <2> QED
      BY <2>2
  <1>4. Right(d)
    BY Zenon, <1>1, <1>2, <1>3 DEF DeliveredInv
  <1>5. d \in (1..consumed) \X Message
    BY Zenon, <1>4 DEF Right
  <1>6. 1..consumed \in SUBSET 1..Len(sent)
    BY <1>2
  <1> QED
    BY Zenon, <1>4, <1>5, <1>6

\* Codec.TypeOK for every set of messages, of frames a peer may send, of encoders and
\* buffers, and every compression library: the buffers, the pool, the stream and the
\* reader keep their types.  In particular UnmarshalVT's index never passes the end
\* of the payload, whatever the peer has put there.
THEOREM CodecTypes == Spec => []TypeOK
  <1>1. IInv /\ SideInv => TypeOK
    <2> SUFFICES ASSUME IInv, SideInv PROVE TypeOK
      OBVIOUS
    <2>1. EncInv /\ StreamInv /\ ReadInv /\ DeliveredInv
      BY Zenon DEF IInv
    <2>2. /\ data \in [Buffers -> Seq(Byte)] /\ bufferPool \subseteq Buffers
          /\ held \in [Encoders -> {None} \cup [buf : Buffers, used : Nat, msg : Messages]]
      BY Zenon, <2>1 DEF EncInv, Slots, Bytes
    <2>3. ASSUME NEW e \in Encoders, held[e] # None
          PROVE  held[e].buf \notin bufferPool /\ held[e].used \in headerSize..Len(data[held[e].buf])
      <3> DEFINE s == held[e]
                 L == Len(data[s.buf])
      <3>1. s \in Slots /\ HoldsFrame(s)
        BY Zenon, <2>1, <2>3 DEF EncInv
      <3>2. s.buf \in Buffers /\ s.msg \in Messages /\ s.used \in Nat
        BY <3>1 DEF Slots
      <3>3. s.used = 5 + Len(Payload(s.msg)) /\ Len(Payload(s.msg)) \in Nat
        BY Zenon, <3>1, <3>2, FrameFacts, PayloadFacts DEF HoldsFrame
      <3>4. s.buf \notin bufferPool /\ s.used <= L
        BY Zenon, <3>1 DEF HoldsFrame
      <3>5. L \in Nat
        BY Zenon, <2>1, <3>2, Joined DEF EncInv
      <3> HIDE DEF s, L
      <3>6. s.used \in headerSize..L
        BY <3>2, <3>3, <3>4, <3>5 DEF headerSize
      <3> QED
        BY Zenon, <3>4, <3>6 DEF s, L
    <2>4. sent \in Seq(Messages \cup RawFrames) /\ stream \in Seq(Byte) /\ consumed \in 0..Len(sent)
      BY Zenon, <2>1 DEF StreamInv, Frames, Bytes
    <2>5. /\ phase \in {"read", "unmarshal", "over", "panicked"} /\ dAtA \in Seq(Byte)
          /\ iNdEx \in 0..Len(dAtA) /\ IF phase = "unmarshal" THEN cur \in Message ELSE cur = None
      <3>1. CASE phase = "unmarshal"
        BY Zenon, <2>1, <3>1 DEF ReadInv, Working, Bytes
      <3>2. CASE phase # "unmarshal"
        <4>1. <<>> \in Seq(Byte) /\ 0 \in 0..Len(<<>>)
          OBVIOUS
        <4> QED
          BY Zenon, <2>1, <3>2, <4>1 DEF ReadInv
      <3> QED
        BY Zenon, <3>1, <3>2
    <2>6. objects \in [{"request", "response"} -> Message]
      <3>1. \A t \in Types : Blank(t) \in Message
        <4>1. <<>> \in Seq(Byte) /\ <<>> \in Seq(Seq(Byte)) /\ 0 \in Nat
          OBVIOUS
        <4> QED
          BY Zenon, <4>1 DEF Blank, Message, Types
      <3> QED
        BY Zenon, <2>1, <3>1 DEF ReadInv, Types
    <2>7. delivered \in Seq((1..Len(sent)) \X Message)
      <3> DEFINE S == Nat \X Message
                 T == (1..Len(sent)) \X Message
      <3>1. delivered \in Seq(S)
        BY Zenon, <2>1 DEF DeliveredInv
      <3>2. \A n \in DOMAIN delivered : delivered[n] \in T
        BY Zenon, DeliveredMessages DEF Range
      <3> HIDE DEF S, T
      <3>3. delivered \in Seq(T)
        BY SMTT(40), <3>1, <3>2
      <3> QED
        BY Zenon, <3>3 DEF T
    <2> QED
      BY Zenon, <2>2, <2>3, <2>4, <2>5, <2>6, <2>7 DEF TypeOK, SideInv, Bytes
  <1> QED
    BY Invariant, <1>1, PTL

\* Codec.DecodedIsEncoded in general: whatever the order in which goroutines encode,
\* write and put back their buffers, whatever else the peer sends in between, and
\* whether or not a payload was compressed, a message is decoded field for field as
\* it was encoded.
THEOREM RoundTrip == Spec => []DecodedIsEncoded
  <1>1. IInv => DecodedIsEncoded
    <2> SUFFICES ASSUME IInv, NEW d \in Range(delivered), sent[d[1]] \in Messages
                 PROVE  d[2] = sent[d[1]]
      BY Zenon DEF DecodedIsEncoded
    <2> QED
      BY Zenon, DeliveredMessages DEF Right
  <1> QED
    BY Invariant, <1>1, PTL

\* Codec.SizeIsExact in general: the size that encodeMessage reserves before it
\* marshals is the number of bytes MarshalToSizedBufferVT writes.
THEOREM SizesExact == Spec => []SizeIsExact
  <1>1. IInv => SizeIsExact
    <2> SUFFICES ASSUME IInv PROVE SizeIsExact
      OBVIOUS
    <2>1. \A d \in Range(delivered) : SizeVT(d[2]) = Len(Marshal(d[2]))
      BY Zenon, DeliveredMessages, SizeExact
    <2>2. ASSUME NEW e \in Encoders, held[e] # None
          PROVE  SizeVT(held[e].msg) = Len(Marshal(held[e].msg))
      <3>1. held[e] \in Slots
        BY Zenon, <2>2 DEF IInv, EncInv
      <3>2. held[e].msg \in Messages
        BY <3>1 DEF Slots
      <3> QED
        BY Zenon, <3>2, PayloadFacts
    <2> QED
      BY Zenon, <2>1, <2>2 DEF SizeIsExact
  <1> QED
    BY Invariant, <1>1, PTL

\* Codec.HeadersArrive in general: for every list of headers a caller sets, of
\* whatever length, GetHeader at the other end returns the first value paired with
\* the key, and panics for just the key that was left without a value.
THEOREM HeadersRead == Spec => []HeadersArrive
  <1>1. IInv => HeadersArrive
    <2> SUFFICES ASSUME IInv, NEW d \in Range(delivered), sent[d[1]] \in Messages,
                        NEW key \in Range(sent[d[1]].headers) \union {<<>>}
                 PROVE  GetHeader(d[2].headers, key) = Lookup(sent[d[1]].headers, key)
      BY Zenon DEF HeadersArrive
    <2>1. d[2].headers \in Seq(Bytes) /\ d[2] = sent[d[1]]
      BY Zenon, DeliveredMessages, MessageFields DEF Right
    <2> QED
      BY Zenon, <2>1, HeadersLookup
  <1> QED
    BY Invariant, <1>1, PTL
================================================================================
