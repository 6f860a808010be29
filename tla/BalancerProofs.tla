----------------------------- MODULE BalancerProofs -----------------------------
(* Theorems about Balancer, for every number of goroutines and streams.      *)
EXTENDS Balancer, TLAPS

\* The types the proofs rest on.
ListTypes ==
    /\ snapshot \in Seq(Streams)
    /\ mutex \in Procs \cup {NoProc}
    /\ pc \in [Procs -> PCs]
    /\ local \in [Procs -> Seq(Streams)]

Locked == {"add", "zeroed", "closing"}

\* Only the holder of the mutex is inside AddStream or Reset.  The list that an
\* AddStream is about to publish has all that is published, and nothing closed;
\* while a Reset closes streams none is published.
LockInv ==
    \A p \in Procs :
        /\ pc[p] \in Locked <=> mutex = p
        /\ pc[p] = "add" => /\ Range(snapshot) \subseteq Range(local[p])
                            /\ Range(local[p]) \subseteq opened \ closed
        /\ pc[p] = "closing" => /\ snapshot = <<>>
                                /\ Range(local[p]) \subseteq opened

\* Where the streams are; every process that is about to publish or close its
\* list counts, LockInv says that there is at most one.
StreamInv ==
    /\ Range(snapshot) \cup closed \subseteq opened
    /\ Range(snapshot) \cap closed = {}
    /\ \A s \in opened :
         \/ s \in Range(snapshot) \cup closed
         \/ \E p \in Procs : pc[p] \in {"add", "closing"} /\ s \in Range(local[p])

BalancerInv == ListTypes /\ LockInv /\ StreamInv

\* The streams of a list that has grown by one, or is shorter by its head.
LEMMA RangeOfAppend ==
  ASSUME NEW q \in Seq(Streams), NEW s \in Streams
  PROVE  Range(Append(q, s)) = Range(q) \cup {s}
  <1>1. DOMAIN Append(q, s) = DOMAIN q \cup {Len(q) + 1}
    OBVIOUS
  <1>2. \A i \in DOMAIN q : Append(q, s)[i] = q[i]
    OBVIOUS
  <1>3. Append(q, s)[Len(q) + 1] = s
    OBVIOUS
  <1> QED
    BY Zenon, <1>1, <1>2, <1>3 DEF Range

LEMMA RangeOfTail ==
  ASSUME NEW q \in Seq(Streams), q # <<>>
  PROVE  /\ Head(q) \in Streams /\ Tail(q) \in Seq(Streams)
         /\ Range(q) = Range(Tail(q)) \cup {Head(q)}
  <1>1. Head(q) \in Streams /\ Tail(q) \in Seq(Streams)
    OBVIOUS
  <1>2. Range(Tail(q)) \cup {Head(q)} \subseteq Range(q)
    BY DEF Range
  <1>3. ASSUME NEW i \in DOMAIN q PROVE q[i] \in Range(Tail(q)) \cup {Head(q)}
    <2>1. CASE i = 1
      BY <2>1
    <2>2. CASE i # 1
      <3>1. i - 1 \in DOMAIN Tail(q) /\ Tail(q)[i - 1] = q[i]
        BY <1>3, <2>2
      <3> QED
        BY Zenon, <3>1 DEF Range
    <2> QED
      BY Zenon, <2>1, <2>2
  <1> QED
    BY Zenon, <1>1, <1>2, <1>3 DEF Range

LEMMA RangeOfEmpty == Range(<<>>) = {}
  BY DEF Range

LEMMA BalancerInit == Init => BalancerInv
  BY NoProcAssumption, RangeOfEmpty
     DEF Init, BalancerInv, ListTypes, LockInv, StreamInv, Locked, PCs

\* Each step keeps the invariant: the accesses of AddStream and Reset because
\* they exclude each other, those of GetStream because they change no list.
LEMMA BalancerNext == BalancerInv /\ [Next]_vars => BalancerInv'
  <1> SUFFICES ASSUME BalancerInv, [Next]_vars PROVE BalancerInv'
    OBVIOUS
  <1> USE NoProcAssumption DEF BalancerInv, ListTypes, Locked, PCs
  <1>1. ASSUME NEW p \in Procs, GetLoad(p) \/ GetPick(p) PROVE BalancerInv'
    <2>1. /\ UNCHANGED <<snapshot, mutex, opened, closed>>
          /\ pc[p] \in {"idle", "get"} /\ pc'[p] \in {"idle", "get"}
          /\ \A q \in Procs \ {p} : pc'[q] = pc[q] /\ local'[q] = local[q]
      BY Zenon, <1>1 DEF GetLoad, GetPick, Goto
    <2>2. ListTypes'
      BY ZenonT(60), <1>1 DEF GetLoad, GetPick, Goto
    <2> QED
      BY Zenon, <2>1, <2>2 DEF LockInv, StreamInv
  <1>2. ASSUME NEW p \in Procs, NEW s \in Streams, AddLoad(p, s) PROVE BalancerInv'
    <2>1. Range(Append(snapshot, s)) = Range(snapshot) \cup {s}
      BY Zenon, RangeOfAppend
    <2>2. ListTypes'
      BY <1>2 DEF AddLoad, Goto
    <2>3. LockInv'
      BY <1>2, <2>1 DEF AddLoad, Goto, LockInv, StreamInv
    <2>4. StreamInv'
      BY <1>2, <2>1 DEF AddLoad, Goto, LockInv, StreamInv
    <2> QED
      BY Zenon, <2>2, <2>3, <2>4
  <1>3. ASSUME NEW p \in Procs, AddStore(p) PROVE BalancerInv'
    <2>1. ListTypes'
      BY <1>3 DEF AddStore, Goto
    <2>2. LockInv'
      BY Zenon, <1>3 DEF AddStore, Goto, LockInv
    <2>3. StreamInv'
      BY Zenon, <1>3 DEF AddStore, Goto, LockInv, StreamInv
    <2> QED
      BY Zenon, <2>1, <2>2, <2>3
  <1>4. ASSUME NEW p \in Procs, ResetCounter(p) PROVE BalancerInv'
    BY Zenon, <1>4 DEF ResetCounter, Goto, LockInv, StreamInv
  <1>5. ASSUME NEW p \in Procs, ResetSwap(p) PROVE BalancerInv'
    <2>1. ListTypes' /\ LockInv'
      BY <1>5, RangeOfEmpty DEF ResetSwap, Goto, LockInv, StreamInv
    <2>2. StreamInv'
      BY Zenon, <1>5, RangeOfEmpty DEF ResetSwap, Goto, LockInv, StreamInv
    <2> QED
      BY Zenon, <2>1, <2>2
  <1>6. ASSUME NEW p \in Procs, ResetClose(p) PROVE BalancerInv'
    <2>1. /\ Head(local[p]) \in Streams /\ Tail(local[p]) \in Seq(Streams)
          /\ Range(local[p]) = Range(Tail(local[p])) \cup {Head(local[p])}
      BY Zenon, <1>6, RangeOfTail DEF ResetClose
    <2>2. ListTypes' /\ LockInv'
      BY Zenon, <1>6, <2>1 DEF ResetClose, LockInv
    <2>3. StreamInv'
      BY Zenon, <1>6, <2>1, RangeOfEmpty DEF ResetClose, LockInv, StreamInv
    <2> QED
      BY Zenon, <2>2, <2>3
  <1>7. ASSUME NEW p \in Procs, ResetDone(p) PROVE BalancerInv'
    BY Zenon, <1>7, RangeOfEmpty DEF ResetDone, Goto, LockInv, StreamInv
  <1>8. CASE UNCHANGED vars
    BY Zenon, <1>8 DEF vars, LockInv, StreamInv
  <1> QED
    BY Zenon, <1>1, <1>2, <1>3, <1>4, <1>5, <1>6, <1>7, <1>8 DEF Next

\* No stream is lost or leaked, however many AddStreams and Resets overlap.
THEOREM StreamsKept == Spec => []NoStreamLost
  <1>1. BalancerInv => NoStreamLost
    BY Zenon, NoProcAssumption DEF BalancerInv, LockInv, StreamInv, Locked, NoStreamLost
  <1> QED
    BY BalancerInit, BalancerNext, <1>1, PTL DEF Spec

\* The published list never has a closed stream in it.
THEOREM ClosedUnpublished == Spec => []NoClosedStreamPublished
  <1>1. BalancerInv => NoClosedStreamPublished
    BY Zenon DEF BalancerInv, StreamInv, NoClosedStreamPublished
  <1> QED
    BY BalancerInit, BalancerNext, <1>1, PTL DEF Spec

--------------------------------------------------------------------------------
(* Round robin.  The lists have no repetitions, and the tickets since the    *)
(* last Reset are consecutive, up to the counter's overflows.                *)

ListInv ==
    /\ IsInjective(snapshot)
    /\ \A p \in Procs : IsInjective(local[p]) /\ (pc[p] = "get" => local[p] # <<>>)

\* The stream of a pick is the one its ticket says.
RightPick(x) ==
    /\ x.from # <<>> /\ IsInjective(x.from)
    /\ x.stream = x.from[(x.ticket % Len(x.from)) + 1]

\* How far a ticket is behind the counter, w overflows of it included.
Behind(i, w) == picks[i].ticket + (Len(picks) - i) + 1 = counter + w * CounterMod

TicketInv ==
    /\ counter \in 0..(CounterMod - 1)
    /\ picks \in Seq(Pick)
    /\ \A i \in DOMAIN picks : RightPick(picks[i]) /\ \E w \in Nat : Behind(i, w)

LEMMA InjectiveAppend ==
  ASSUME NEW q \in Seq(Streams), NEW s \in Streams, IsInjective(q), s \notin Range(q)
  PROVE  IsInjective(Append(q, s))
  <1>1. /\ DOMAIN Append(q, s) = DOMAIN q \cup {Len(q) + 1}
        /\ \A i \in DOMAIN q : Append(q, s)[i] = q[i] /\ q[i] # s
        /\ Append(q, s)[Len(q) + 1] = s
    BY DEF Range
  <1> QED
    BY Zenon, <1>1 DEF IsInjective

LEMMA InjectiveTail ==
  ASSUME NEW q \in Seq(Streams), IsInjective(q), q # <<>>
  PROVE  IsInjective(Tail(q))
  <1>1. \A i \in DOMAIN Tail(q) : i + 1 \in DOMAIN q /\ Tail(q)[i] = q[i + 1] /\ i \in Nat
    OBVIOUS
  <1> QED
    BY <1>1 DEF IsInjective

LEMMA InjectiveEmpty == IsInjective(<<>>)
  BY DEF IsInjective

\* The lists stay without repetitions because a stream is added once.
LEMMA ListNext == BalancerInv /\ ListInv /\ [Next]_vars => ListInv'
  <1> SUFFICES ASSUME BalancerInv, ListInv, [Next]_vars PROVE ListInv'
    OBVIOUS
  <1> USE DEF BalancerInv, ListTypes, ListInv
  <1>1. ASSUME NEW p \in Procs, GetLoad(p) \/ GetPick(p) PROVE ListInv'
    BY Zenon, <1>1 DEF GetLoad, GetPick, Goto
  <1>2. ASSUME NEW p \in Procs, NEW s \in Streams, AddLoad(p, s) PROVE ListInv'
    <2>1. IsInjective(Append(snapshot, s))
      BY Zenon, <1>2, InjectiveAppend DEF AddLoad, StreamInv
    <2> QED
      BY Zenon, <1>2, <2>1 DEF AddLoad, Goto
  <1>3. ASSUME NEW p \in Procs, AddStore(p) PROVE ListInv'
    BY Zenon, <1>3, InjectiveEmpty DEF AddStore, Goto
  <1>4. ASSUME NEW p \in Procs, ResetCounter(p) \/ ResetSwap(p) \/ ResetDone(p) PROVE ListInv'
    BY Zenon, <1>4, InjectiveEmpty DEF ResetCounter, ResetSwap, ResetDone, Goto
  <1>5. ASSUME NEW p \in Procs, ResetClose(p) PROVE ListInv'
    <2>1. IsInjective(Tail(local[p]))
      BY Zenon, <1>5, InjectiveTail DEF ResetClose
    <2> QED
      BY Zenon, <1>5, <2>1 DEF ResetClose
  <1>6. CASE UNCHANGED vars
    BY Zenon, <1>6 DEF vars
  <1> QED
    BY Zenon, <1>1, <1>2, <1>3, <1>4, <1>5, <1>6 DEF Next

\* Quotient and remainder, as the provers need them.
LEMMA DivMod ==
  ASSUME NEW a \in Nat, NEW n \in Nat \ {0}
  PROVE  /\ a \div n \in Nat /\ a % n \in 0..(n - 1)
         /\ a = n * (a \div n) + (a % n)
  OBVIOUS

\* A multiple of n is not strictly between 0 and n.
LEMMA SmallMultiple ==
  ASSUME NEW n \in Nat \ {0}, NEW m \in Int, NEW d \in 1..(n - 1)
  PROVE  n * m # d
  <1>1. CASE m <= 0
    <2>1. n * m <= 0
      BY <1>1
    <2> QED
      BY <2>1
  <1>2. CASE m >= 1
    <2>1. n * m >= n
      BY <1>2
    <2> QED
      BY <2>1
  <1> QED
    BY <1>1, <1>2

\* Tickets less than n apart, multiples of n aside, index different places of a
\* list of n.
LEMMA ModDiffers ==
  ASSUME NEW n \in Nat \ {0}, NEW a \in Nat, NEW b \in Nat, NEW d \in 1..(n - 1),
         NEW m \in Int, b = a + d + n * m
  PROVE  a % n # b % n
  <1> DEFINE q == a \div n
             r == b \div n
  <1>1. /\ q \in Nat /\ r \in Nat
        /\ a = n * q + (a % n)
        /\ b = n * r + (b % n)
        /\ a % n \in Nat /\ b % n \in Nat
    BY DivMod
  <1>2. n * (r - q - m) = n * r - n * q - n * m
    BY <1>1
  <1>3. r - q - m \in Int
    BY <1>1
  <1> HIDE DEF q, r
  <1>4. SUFFICES ASSUME a % n = b % n PROVE FALSE
    OBVIOUS
  <1>5. n * (r - q - m) = d
    BY <1>1, <1>2, <1>4
  <1> QED
    BY Zenon, <1>3, <1>5, SmallMultiple

\* So do tickets t and u drawn d draws apart, k overflows of the counter between
\* them, if they did not wrap or if n divides the number of the counter's values.
LEMMA TicketsDiffer ==
  ASSUME NEW M \in Nat \ {0}, NEW n \in Nat \ {0}, NEW t \in 0..(M - 1),
         NEW u \in 0..(M - 1), NEW d \in 1..(n - 1), NEW k \in Int,
         u - t = d + k * M, t < u \/ M % n = 0
  PROVE  t % n # u % n
  <1>1. CASE t < u
    <2>1. CASE k >= 1
      <3>1. k * M >= M
        BY <2>1
      <3> QED
        BY <3>1
    <2>2. CASE k <= 0
      <3>1. k * M <= 0
        BY <2>2
      <3> DEFINE e == u - t
                 z == 0
      <3>2. /\ e \in 1..(n - 1) /\ z \in Int /\ u = t + e + n * z
            /\ t \in Nat /\ u \in Nat
        BY <1>1, <3>1
      <3> HIDE DEF e, z
      <3> QED
        BY <3>2, ModDiffers, Zenon
    <2> QED
      BY <2>1, <2>2
  <1>2. CASE M % n = 0
    <2> DEFINE m == M \div n
    <2>1. M = n * m /\ m \in Nat
      BY <1>2, DivMod
    <2> HIDE DEF m
    <2> DEFINE j == k * m
               e == k * M
    <2>2. e = n * j /\ j \in Int /\ e \in Int
      BY <2>1
    <2>3. u - t = d + e
      OBVIOUS
    <2> HIDE DEF j, e
    <2>4. u = t + d + n * j /\ t \in Nat /\ u \in Nat
      BY <2>2, <2>3
    <2> QED
      BY <2>2, <2>4, ModDiffers, Zenon
  <1> QED
    BY Zenon, <1>1, <1>2

\* What is w overflows ahead of the counter stays so, or is one more, when the
\* counter is incremented.
LEMMA Increment ==
  ASSUME counter \in 0..(CounterMod - 1), counter' = (counter + 1) % CounterMod,
         NEW t \in Nat, NEW w \in Nat, t = counter + w * CounterMod
  PROVE  \E v \in Nat : t + 1 = counter' + v * CounterMod
  <1>1. CASE counter + 1 < CounterMod
    <2>1. counter' = counter + 1
      BY <1>1, CounterModAssumption
    <2>2. t + 1 = counter' + w * CounterMod
      BY <2>1, CounterModAssumption
    <2> QED
      BY Zenon, <2>2
  <1>2. CASE counter + 1 = CounterMod
    <2>1. counter' = 0
      BY <1>2, CounterModAssumption
    <2>2. t + 1 = counter' + (w + 1) * CounterMod
      BY <1>2, <2>1, CounterModAssumption
    <2> QED
      BY <2>2
  <1> QED
    BY <1>1, <1>2, CounterModAssumption

\* Drawing a ticket: the new pick is the latest, and every other one is one more
\* ticket behind the counter.
LEMMA TicketDrawn ==
  ASSUME TicketInv, NEW x \in Pick, RightPick(x), x.ticket = counter,
         counter' = (counter + 1) % CounterMod, Remember(x)
  PROVE  TicketInv'
  <1> USE CounterModAssumption, WindowAssumption
  <1> DEFINE L == Len(picks)
             drop == IF L < Window THEN 0 ELSE 1
  <1>1. picks \in Seq(Pick) /\ L \in Nat /\ drop \in {0, 1} /\ drop <= L
    BY DEF TicketInv
  <1>2. /\ picks' \in Seq(Pick) /\ Len(picks') = L + 1 - drop
        /\ picks'[L + 1 - drop] = x
        /\ \A j \in 1..(L - drop) : picks'[j] = picks[j + drop]
    <2> HIDE DEF Pick
    <2>1. CASE L < Window
      BY <1>1, <2>1 DEF Remember
    <2>2. CASE ~(L < Window)
      <3>1. picks # <<>> /\ picks' = Append(Tail(picks), x)
        BY <1>1, <2>2 DEF Remember
      <3>2. Tail(picks) \in Seq(Pick) /\ Len(Tail(picks)) = L - 1
        BY <1>1, <3>1
      <3>3. \A j \in 1..(L - 1) : Tail(picks)[j] = picks[j + 1]
        BY <1>1, <3>1
      <3> QED
        BY <1>1, <2>2, <3>1, <3>2, <3>3
    <2> QED
      BY Zenon, <2>1, <2>2
  <1> HIDE DEF drop
  <1>3. counter' \in 0..(CounterMod - 1)
    BY DEF TicketInv
  <1>4. ASSUME NEW j \in DOMAIN picks'
        PROVE  RightPick(picks'[j]) /\ \E w \in Nat : Behind(j, w)'
    <2>1. j \in 1..(L + 1 - drop)
      BY SMTT(40), <1>1, <1>2, <1>4
    <2>2. CASE j = L + 1 - drop
      <3>1. x.ticket + 1 = counter + 1 /\ counter \in Nat
        BY DEF TicketInv
      <3>2. counter = counter + 0 * CounterMod
        BY <3>1
      <3>3. PICK v \in Nat : counter + 1 = counter' + v * CounterMod
        BY Zenon, <3>1, <3>2, Increment DEF TicketInv
      <3>4. Behind(j, v)'
        <4>1. picks'[j].ticket = counter
          BY Zenon, <1>2, <2>2
        <4>2. Len(picks') = j /\ j \in Nat
          BY <1>1, <1>2, <2>1, <2>2
        <4>3. counter' + v * CounterMod = counter + 1
          BY Zenon, <3>3
        <4> QED
          BY <3>1, <4>1, <4>2, <4>3 DEF Behind
      <3> QED
        BY Zenon, <1>2, <2>2, <3>4
    <2>3. CASE j # L + 1 - drop
      <3>1. j \in 1..(L - drop) /\ j + drop \in DOMAIN picks /\ picks'[j] = picks[j + drop]
        BY SMTT(40), <1>1, <1>2, <2>1, <2>3
      <3>2. PICK w \in Nat : Behind(j + drop, w)
        BY Zenon, <3>1 DEF TicketInv
      <3> DEFINE u == picks[j + drop].ticket
                 back == L - (j + drop)
                 t == u + back + 1
      <3>3. u \in Nat /\ back \in Nat
        <4>1. picks[j + drop] \in Pick
          BY <1>1, <3>1
        <4>2. u \in 0..(CounterMod - 1)
          BY Zenon, <4>1 DEF Pick
        <4>3. back \in Nat
          BY <1>1, <3>1
        <4> QED
          BY <4>2, <4>3
      <3>4. t \in Nat /\ t = counter + w * CounterMod
        BY SMTT(40), <3>2, <3>3 DEF Behind
      <3>5. PICK v \in Nat : t + 1 = counter' + v * CounterMod
        BY Zenon, <3>4, Increment DEF TicketInv
      <3>6. picks'[j].ticket = u /\ Len(picks') - j = back + 1
        BY SMTT(40), <1>1, <1>2, <3>1
      <3> HIDE DEF u, back
      <3>7. Behind(j, v)'
        BY <3>3, <3>5, <3>6 DEF Behind
      <3> QED
        BY Zenon, <3>1, <3>7 DEF TicketInv
    <2> QED
      BY Zenon, <2>2, <2>3
  <1>5. \A j \in DOMAIN picks' : RightPick(picks'[j]) /\ \E w \in Nat : Behind(j, w)'
    BY Zenon, <1>4
  <1> QED
    BY Zenon, <1>2, <1>3, <1>5 DEF TicketInv

\* Only a Reset and a draw change the counter or the picks.
LEMMA TicketNext == BalancerInv /\ ListInv /\ TicketInv /\ [Next]_vars => TicketInv'
  <1> SUFFICES ASSUME BalancerInv, ListInv, TicketInv, [Next]_vars PROVE TicketInv'
    OBVIOUS
  <1>1. ASSUME NEW p \in Procs, GetPick(p) PROVE TicketInv'
    <2> DEFINE n == Len(local[p])
               x == [from |-> local[p], ticket |-> counter,
                     stream |-> local[p][(counter % n) + 1]]
    <2>1. /\ local[p] \in Seq(Streams) /\ local[p] # <<>> /\ IsInjective(local[p])
          /\ n \in Nat \ {0} /\ counter \in 0..(CounterMod - 1) /\ counter \in Nat
      BY <1>1, CounterModAssumption
         DEF GetPick, Goto, BalancerInv, ListTypes, ListInv, TicketInv
    <2>2. (counter % n) + 1 \in DOMAIN local[p]
      <3>1. DOMAIN local[p] = 1..n
        BY <2>1
      <3> HIDE DEF n
      <3> QED
        BY <2>1, <3>1, DivMod
    <2>3. local[p][(counter % n) + 1] \in Streams
      BY <2>1, <2>2
    <2>4. x \in Pick /\ RightPick(x) /\ x.ticket = counter
      BY Zenon, <2>1, <2>3 DEF Pick, RightPick
    <2>5. Remember(x) /\ counter' = (counter + 1) % CounterMod
      BY Zenon, <1>1 DEF GetPick
    <2> HIDE DEF x
    <2> QED
      BY Zenon, <2>4, <2>5, TicketDrawn
  <1>2. ASSUME NEW p \in Procs, ResetCounter(p) PROVE TicketInv'
    BY <1>2, CounterModAssumption DEF ResetCounter, TicketInv
  <1>3. ASSUME UNCHANGED <<counter, picks>> PROVE TicketInv'
    BY Zenon, <1>3 DEF TicketInv, Behind
  <1> QED
    BY Zenon, <1>1, <1>2, <1>3 DEF Next, GetLoad, AddLoad, AddStore, ResetSwap, ResetClose,
       ResetDone, vars

\* Any n consecutive tickets spent on the same n streams hand out each of them
\* once, for lists, counters and windows of every size.
THEOREM RoundRobins == Spec => []RoundRobin
  <1>1. Init => ListInv /\ TicketInv
    BY InjectiveEmpty, CounterModAssumption DEF Init, ListInv, TicketInv
  <1>2. TicketInv => RoundRobin
    <2>0. SUFFICES ASSUME TicketInv, NEW a \in Nat, NEW b \in Nat,
                          a \in DOMAIN picks, b \in DOMAIN picks, a < b, b - a < Len(picks[a].from),
                          picks[a].from = picks[b].from,
                          \/ picks[a].ticket < picks[b].ticket
                          \/ CounterMod % Len(picks[a].from) = 0
                   PROVE  picks[a].stream # picks[b].stream
      <3>1. TicketInv => \A a \in DOMAIN picks : a \in Nat
        BY DEF TicketInv
      <3> QED
        BY Zenon, <3>1 DEF RoundRobin
    <2> DEFINE n == Len(picks[a].from)
               t == picks[a].ticket
               u == picks[b].ticket
               d == b - a
    <2>1. /\ picks[a] \in Pick /\ picks[b] \in Pick
          /\ RightPick(picks[a]) /\ RightPick(picks[b])
          /\ a \in Nat /\ b \in Nat /\ Len(picks) \in Nat
      BY <2>0 DEF TicketInv
    <2>2. /\ picks[a].from \in Seq(Streams) /\ n \in Nat \ {0}
          /\ t \in 0..(CounterMod - 1) /\ u \in 0..(CounterMod - 1)
          /\ t \in Nat /\ u \in Nat
      BY <2>0, <2>1, CounterModAssumption DEF Pick, RightPick
    <2>3. d \in 1..(n - 1)
      BY <2>0, <2>1, <2>2
    <2>4. PICK v \in Nat, w \in Nat : Behind(a, v) /\ Behind(b, w)
      BY Zenon, <2>0 DEF TicketInv
    <2>5. /\ t + (Len(picks) - a) + 1 = counter + v * CounterMod
          /\ u + (Len(picks) - b) + 1 = counter + w * CounterMod
          /\ counter \in Nat
      BY <2>0, <2>4, CounterModAssumption DEF Behind, TicketInv
    <2>6. t < u \/ CounterMod % n = 0
      BY Zenon, <2>0
    <2> HIDE DEF n, t, u
    <2> DEFINE k == w - v
    <2>7. k \in Int /\ u - t = d + k * CounterMod
      <3> DEFINE vM == v * CounterMod
                 wM == w * CounterMod
                 kM == k * CounterMod
                 L == Len(picks)
      <3>1. kM = wM - vM /\ vM \in Nat /\ wM \in Nat /\ k \in Int
        BY CounterModAssumption
      <3>2. /\ t + (L - a) + 1 = counter + vM
            /\ u + (L - b) + 1 = counter + wM
            /\ counter \in Nat /\ L \in Nat /\ a \in Nat /\ b \in Nat
            /\ t \in Nat /\ u \in Nat
        BY Zenon, <2>1, <2>2, <2>5
      <3> HIDE DEF vM, wM, kM, k, L
      <3>3. u - t = d + kM
        BY <3>1, <3>2
      <3> QED
        BY Zenon, <3>1, <3>3 DEF kM
    <2> HIDE DEF d, k
    <2>8. t % n # u % n
      BY <2>2, <2>3, <2>6, <2>7, TicketsDiffer, CounterModAssumption, Zenon
    <2>9. t % n \in 0..(n - 1) /\ u % n \in 0..(n - 1)
      BY Zenon, <2>2, DivMod, CounterModAssumption
    <2>10. (t % n) + 1 \in 1..n /\ (u % n) + 1 \in 1..n /\ (t % n) + 1 # (u % n) + 1
      BY <2>2, <2>8, <2>9
    <2>11. /\ DOMAIN picks[a].from = 1..n
           /\ picks[a].stream = picks[a].from[(t % n) + 1]
           /\ picks[b].stream = picks[a].from[(u % n) + 1]
      BY <2>0, <2>1, <2>2 DEF RightPick, n, t, u
    <2> QED
      BY Zenon, <2>1, <2>10, <2>11 DEF RightPick, IsInjective
  <1> QED
    BY BalancerInit, BalancerNext, ListNext, TicketNext, <1>1, <1>2, PTL DEF Spec

\* The types of the balancer, of the counter in particular.
THEOREM BalancerTypes == Spec => []TypeOK
  <1> DEFINE Opened == opened \subseteq Streams
  <1>1. Init => Opened /\ TicketInv /\ ListInv
    BY InjectiveEmpty, CounterModAssumption DEF Init, ListInv, TicketInv
  <1>2. Opened /\ [Next]_vars => Opened'
    BY Zenon DEF Next, GetLoad, GetPick, AddLoad, AddStore, ResetCounter, ResetSwap,
       ResetClose, ResetDone, vars
  <1>3. BalancerInv /\ TicketInv /\ Opened => TypeOK
    BY Zenon DEF BalancerInv, ListTypes, StreamInv, TicketInv, TypeOK
  <1> HIDE DEF Opened
  <1> QED
    BY BalancerInit, BalancerNext, ListNext, TicketNext, <1>1, <1>2, <1>3, PTL DEF Spec
================================================================================
