------------------------- MODULE Evaluation_proofs -------------------------
(* Lemmas about the operators of Evaluation: sums of a flow, the time of a    *)
(* packet and the packets before a time.  A property of all places of a flow  *)
(* is proved as the equality of a set with Nat (Induction).                   *)
EXTENDS Evaluation, SequenceTheorems, WellFoundedInduction, TLAPS

\* Every set of natural numbers that is not empty has a least element.
LEMMA LeastNat ==
  ASSUME NEW T \in SUBSET Nat, T # {}
  PROVE  \E x \in T : \A y \in T : x <= y
<1> DEFINE R == {ss \in Nat \X Nat : ss[1] < ss[2]}
<1>1. PICK x \in T : \A y \in T : <<y, x>> \notin R
  <2>1. IsWellFoundedOn(R, Nat)
    BY NatLessThanWellFounded, Zenon DEF OpToRel
  <2> HIDE DEF R
  <2> QED
    BY <2>1, WFMin
<1>2. \A y \in T : ~(y < x)
  BY <1>1
<1> QED
  BY <1>2

\* Induction over the natural numbers, for a set instead of a predicate.
LEMMA Induction ==
  ASSUME NEW S \in SUBSET Nat, 0 \in S, \A n \in S : n + 1 \in S
  PROVE  S = Nat
<1>1. SUFFICES ASSUME Nat \ S # {} PROVE FALSE
  OBVIOUS
<1>2. PICK x \in Nat \ S : \A y \in Nat \ S : x <= y
  <2> DEFINE T == Nat \ S
  <2>1. T \in SUBSET Nat /\ T # {}
    BY <1>1
  <2> HIDE DEF T
  <2>2. \E x \in T : \A y \in T : x <= y
    BY <2>1, LeastNat
  <2> QED
    BY <2>2 DEF T
<1>3. x - 1 \in Nat
  BY <1>2
<1>4. x - 1 \in S
  BY <1>2, <1>3
<1> QED
  BY <1>2, <1>3, <1>4

LEMMA DivModUnique ==
  ASSUME NEW L \in Nat \ {0}, NEW q \in Nat, NEW r \in 0..(L - 1)
  PROVE  (L * q + r) \div L = q /\ (L * q + r) % L = r
BY SMTT(20)

\* Division with remainder, over any divisor.
LEMMA DivMod ==
  ASSUME NEW L \in Nat \ {0}, NEW n \in Nat
  PROVE  \E q \in Nat, r \in 0..(L - 1) :
           n = L * q + r /\ n \div L = q /\ n % L = r
<1> DEFINE T == {m \in Nat : \A q \in Nat, r \in 0..(L - 1) : m # L * q + r}
<1>1. SUFFICES ASSUME T # {} PROVE FALSE
  <2>1. CASE n \in T
    BY <1>1, <2>1
  <2>2. CASE n \notin T
    <3>1. PICK q \in Nat, r \in 0..(L - 1) : n = L * q + r
      BY <2>2
    <3> QED
      BY <3>1, DivModUnique
  <2> QED
    BY <2>1, <2>2
<1>2. PICK x \in T : \A y \in T : x <= y
  <2>1. T \in SUBSET Nat
    OBVIOUS
  <2> HIDE DEF T
  <2> QED
    BY <1>1, <2>1, LeastNat
<1>3. x \in Nat /\ x >= L
  <2>1. L * 0 = 0 /\ 0 \in Nat
    OBVIOUS
  <2> QED
    BY <2>1
<1>4. x - L \in Nat /\ x - L \notin T
  BY <1>2, <1>3
<1>5. PICK q \in Nat, r \in 0..(L - 1) : x - L = L * q + r
  BY <1>4
<1>6. L * (q + 1) = L * q + L /\ q + 1 \in Nat /\ L * q \in Nat
  OBVIOUS
<1>7. x = L * (q + 1) + r
  BY <1>3, <1>5, <1>6
<1> QED
  BY <1>6, <1>7

-----------------------------------------------------------------------------
(* The sums of a flow.                                                       *)

\* What the local function of Sums is, for its argument u and what it is before.
Upto(flow, f, u) ==
  IF u = 0 THEN <<0>> ELSE Append(f[u - 1], f[u - 1][u] + flow[u])

\* The recursive function of Sums is defined: there is one that is as it says.
LEMMA UptoExists ==
  ASSUME NEW flow \in Seq(Nat)
  PROVE  \E f : f = [u \in 0..Len(flow) |-> Upto(flow, f, u)]
<1> DEFINE Good(f, n) ==
             /\ f = [u \in 0..n |-> Upto(flow, f, u)]
           S == {n \in Nat : \E f : Good(f, n)}
<1>1. 0 \in S
  <2> DEFINE f == [u \in 0..0 |-> <<0>>]
  <2>1. \A u \in 0..0 : Upto(flow, f, u) = <<0>>
    BY DEF Upto
  <2>2. f = [u \in 0..0 |-> Upto(flow, f, u)]
    BY <2>1
  <2>3. Good(f, 0)
    BY <2>2
  <2> QED
    BY <2>3
<1>2. ASSUME NEW n \in S
      PROVE  n + 1 \in S
  <2>1. PICK f : Good(f, n)
    OBVIOUS
  <2> DEFINE g == [u \in 0..(n + 1) |->
                     IF u = n + 1 THEN Append(f[n], f[n][n + 1] + flow[n + 1]) ELSE f[u]]
  <2>2. ASSUME NEW u \in 0..(n + 1)
        PROVE  g[u] = Upto(flow, g, u)
    <3>1. CASE u = n + 1
      <4>1. g[u] = Append(f[n], f[n][n + 1] + flow[n + 1]) /\ g[n] = f[n] /\ u - 1 = n /\ u # 0
        BY <3>1
      <4> HIDE DEF g
      <4> QED
        BY <3>1, <4>1 DEF Upto
    <3>2. CASE u # n + 1
      <4>1. u \in 0..n /\ (u # 0 => u - 1 \in 0..n)
        BY <3>2
      <4>2. g[u] = f[u] /\ (u # 0 => g[u - 1] = f[u - 1])
        BY <4>1
      <4>3. f[u] = Upto(flow, f, u)
        BY <2>1, <4>1
      <4> HIDE DEF g
      <4> QED
        BY <4>2, <4>3 DEF Upto
    <3> QED
      BY <3>1, <3>2
  <2>3. Good(g, n + 1)
    <3>1. g = [u \in 0..(n + 1) |-> g[u]]
      OBVIOUS
    <3> HIDE DEF g
    <3> QED
      BY <2>2, <3>1
  <2>4. n + 1 \in Nat
    OBVIOUS
  <2> HIDE DEF g
  <2> QED
    BY <2>3, <2>4
<1>3. Len(flow) \in S
  <2>1. S \in SUBSET Nat
    OBVIOUS
  <2> HIDE DEF S
  <2>2. S = Nat
    BY <1>1, <1>2, <2>1, Induction
  <2> QED
    BY <2>2
<1> QED
  BY <1>3

\* The sums of a flow, one after the other.
LEMMA SumsFacts ==
  ASSUME NEW flow \in Seq(Nat)
  PROVE  /\ Len(flow) \in Nat
         /\ \A u \in 1..Len(flow) + 1 : Sums(flow)[u] \in Nat
         /\ Sums(flow)[1] = 0
         /\ \A u \in 1..Len(flow) : Sums(flow)[u + 1] = Sums(flow)[u] + flow[u]
<1>1. PICK f : f = [u \in 0..Len(flow) |-> Upto(flow, f, u)] /\ Sums(flow) = f[Len(flow)]
  BY UptoExists DEF Sums, Upto
<1> DEFINE Good(u) == /\ f[u] \in Seq(Nat) /\ Len(f[u]) = u + 1 /\ f[u][1] = 0
                      /\ \A v \in 1..u : f[u][v + 1] = f[u][v] + flow[v]
           S == {u \in Nat : u <= Len(flow) => Good(u)}
<1>2. Len(flow) \in Nat /\ \A u \in 1..Len(flow) : flow[u] \in Nat
  OBVIOUS
<1>3. /\ f[0] = <<0>>
      /\ \A u \in 1..Len(flow) : f[u] = Append(f[u - 1], f[u - 1][u] + flow[u])
  <2>1. \A u \in 0..Len(flow) : f[u] = Upto(flow, f, u)
    <3>1. \A u \in 0..Len(flow) : [w \in 0..Len(flow) |-> Upto(flow, f, w)][u] = Upto(flow, f, u)
      OBVIOUS
    <3> QED
      BY <1>1, <3>1, Zenon
  <2>2. f[0] = <<0>>
    BY <1>2, <2>1 DEF Upto
  <2>3. ASSUME NEW u \in 1..Len(flow)
        PROVE  f[u] = Append(f[u - 1], f[u - 1][u] + flow[u])
    <3>1. u \in 0..Len(flow) /\ u # 0
      BY <1>2
    <3> QED
      BY <2>1, <3>1 DEF Upto
  <2> QED
    BY <2>2, <2>3
<1>4. Good(0)
  <2>1. <<0>> \in Seq(Nat) /\ Len(<<0>>) = 1 /\ <<0>>[1] = 0
    OBVIOUS
  <2>2. \A v \in 1..0 : FALSE
    OBVIOUS
  <2> QED
    BY <1>3, <2>1, <2>2
<1>5. ASSUME NEW n \in Nat, Good(n), n + 1 <= Len(flow)
      PROVE  Good(n + 1)
  <2> DEFINE x == f[n][n + 1] + flow[n + 1]
  <2>1. n + 1 \in 1..Len(flow) /\ (n + 1) - 1 = n
    BY <1>2, <1>5
  <2>2. f[n + 1] = Append(f[n], x)
    <3>1. f[n + 1] = Append(f[(n + 1) - 1], f[(n + 1) - 1][n + 1] + flow[n + 1])
      BY <1>3, <2>1
    <3> QED
      BY <2>1, <3>1
  <2>3. x \in Nat
    <3>1. f[n][n + 1] \in Nat /\ flow[n + 1] \in Nat
      BY <1>2, <1>5, <2>1
    <3> QED
      BY <3>1
  <2>4. /\ f[n + 1] \in Seq(Nat) /\ Len(f[n + 1]) = n + 2 /\ f[n + 1][n + 2] = x
        /\ \A v \in 1..(n + 1) : f[n + 1][v] = f[n][v]
    <3>1. f[n] \in Seq(Nat) /\ Len(f[n]) = n + 1
      BY <1>5
    <3> HIDE DEF x
    <3> QED
      BY <2>2, <2>3, <3>1, AppendProperties
  <2>5. ASSUME NEW v \in 1..(n + 1)
        PROVE  f[n + 1][v + 1] = f[n + 1][v] + flow[v]
    <3>1. CASE v = n + 1
      BY <2>4, <3>1
    <3>2. CASE v # n + 1
      <4>1. v \in 1..n /\ v + 1 \in 1..(n + 1)
        BY <3>2
      <4> QED
        BY <1>5, <2>4, <4>1
    <3> QED
      BY <3>1, <3>2
  <2>6. f[n + 1][1] = 0
    <3>1. 1 \in 1..(n + 1)
      OBVIOUS
    <3> QED
      BY <1>5, <2>4, <3>1
  <2> QED
    BY <2>4, <2>5, <2>6
<1>6. Good(Len(flow))
  <2> HIDE DEF Good
  <2>1. 0 \in S /\ S \in SUBSET Nat
    BY <1>4
  <2>2. ASSUME NEW n \in S
        PROVE  n + 1 \in S
    BY <1>2, <1>5
  <2> HIDE DEF S
  <2>3. S = Nat
    BY <2>1, <2>2, Induction
  <2> QED
    BY <1>2, <2>3 DEF S
<1> QED
  BY <1>1, <1>2, <1>6

\* The sums never decrease.
LEMMA SumsGrow ==
  ASSUME NEW flow \in Seq(Nat), NEW u \in 1..Len(flow) + 1, NEW v \in u..Len(flow) + 1
  PROVE  Sums(flow)[u] <= Sums(flow)[v]
<1> DEFINE S == {d \in Nat : u + d <= Len(flow) + 1 => Sums(flow)[u] <= Sums(flow)[u + d]}
<1>1. /\ Len(flow) \in Nat /\ \A w \in 1..Len(flow) : flow[w] \in Nat
      /\ \A w \in 1..Len(flow) + 1 : Sums(flow)[w] \in Nat
      /\ \A w \in 1..Len(flow) : Sums(flow)[w + 1] = Sums(flow)[w] + flow[w]
  BY SumsFacts
<1>2. 0 \in S /\ S \in SUBSET Nat
  BY <1>1
<1>3. ASSUME NEW d \in S
      PROVE  d + 1 \in S
  <2>1. SUFFICES ASSUME u + d + 1 <= Len(flow) + 1
                 PROVE  Sums(flow)[u] <= Sums(flow)[u + d + 1]
    BY <1>1
  <2>2. u + d \in 1..Len(flow) /\ Sums(flow)[u] <= Sums(flow)[u + d]
    BY <1>1, <2>1
  <2>3. Sums(flow)[u + d + 1] = Sums(flow)[u + d] + flow[u + d]
    BY <1>1, <2>2
  <2>4. Sums(flow)[u] \in Nat /\ Sums(flow)[u + d] \in Nat /\ flow[u + d] \in Nat
    BY <1>1, <2>2
  <2> QED
    BY <2>2, <2>3, <2>4
<1>4. v - u \in S
  <2> HIDE DEF S
  <2>1. S = Nat
    BY <1>2, <1>3, Induction
  <2> QED
    BY <1>1, <2>1
<1> QED
  BY <1>1, <1>4

\* Where a flow is steady, or silent, its sums grow evenly.
Span(flow, a, b, x) == \A u \in a..b : flow[u] = x

\* The sums over a span of one value.
LEMMA SumsOfSpan ==
  ASSUME NEW flow \in Seq(Nat), NEW x \in Nat, NEW a \in 1..Len(flow) + 1, NEW b \in Nat,
         b <= Len(flow), Span(flow, a, b, x), NEW u \in a..(b + 1)
  PROVE  Sums(flow)[u] = Sums(flow)[a] + x * (u - a)
<1> DEFINE S == {d \in Nat : a + d <= b + 1 => Sums(flow)[a + d] = Sums(flow)[a] + x * d}
<1>1. /\ Len(flow) \in Nat
      /\ \A w \in 1..Len(flow) + 1 : Sums(flow)[w] \in Nat
      /\ \A w \in 1..Len(flow) : Sums(flow)[w + 1] = Sums(flow)[w] + flow[w]
  BY SumsFacts
<1>2. 0 \in S /\ S \in SUBSET Nat
  <2>1. x * 0 = 0
    OBVIOUS
  <2> QED
    BY <1>1, <2>1
<1>3. ASSUME NEW d \in S
      PROVE  d + 1 \in S
  <2>1. SUFFICES ASSUME a + d + 1 <= b + 1
                 PROVE  Sums(flow)[a + d + 1] = Sums(flow)[a] + x * (d + 1)
    BY <1>1
  <2>2. a + d \in 1..Len(flow) /\ a + d \in a..b /\ Sums(flow)[a + d] = Sums(flow)[a] + x * d
    BY <1>1, <2>1
  <2>3. Sums(flow)[a + d + 1] = Sums(flow)[a + d] + x
    BY <1>1, <2>2 DEF Span
  <2>4. x * (d + 1) = x * d + x /\ x * d \in Nat
    OBVIOUS
  <2> QED
    BY <1>1, <2>2, <2>3, <2>4, SMTT(20)
<1>4. u - a \in S
  <2> HIDE DEF S
  <2>1. S = Nat
    BY <1>2, <1>3, Induction
  <2> QED
    BY <1>1, <2>1
<1>5. a + (u - a) = u
  BY <1>1
<1> QED
  BY <1>1, <1>4, <1>5

\* The time of a packet.
Flows == Seq(0..25)

\* The flows of a run, which send at most a packet a tick.
LEMMA FlowFacts ==
  ASSUME NEW flow \in Flows
  PROVE  /\ flow \in Seq(Nat) /\ Len(flow) \in Nat /\ DOMAIN flow = 1..Len(flow)
         /\ \A u \in 1..Len(flow) : flow[u] \in 0..25
         /\ \A u \in 1..Len(flow) + 1 : Sums(flow)[u] \in Nat
         /\ Sums(flow)[1] = 0
         /\ \A u \in 1..Len(flow) : Sums(flow)[u + 1] = Sums(flow)[u] + flow[u]
         /\ Size(flow) = Sums(flow)[Len(flow) + 1] /\ Size(flow) \in Nat
         /\ \A u \in 1..Len(flow) + 1 : Sums(flow)[u] <= Size(flow)
<1>1. flow \in Seq(Nat) /\ Len(flow) \in Nat /\ DOMAIN flow = 1..Len(flow) /\ \A u \in 1..Len(flow) : flow[u] \in 0..25
  <2>1. Len(flow) \in Nat /\ DOMAIN flow = 1..Len(flow) /\ \A u \in 1..Len(flow) : flow[u] \in 0..25
    BY LenProperties, ElementOfSeq DEF Flows
  <2>2. flow = [u \in 1..Len(flow) |-> flow[u]]
    BY <2>1 DEF Flows
  <2>3. flow \in [1..Len(flow) -> Nat]
    <3>1. ASSUME NEW u \in 1..Len(flow)
          PROVE  flow[u] \in Nat
      <4>1. flow[u] \in 0..25
        BY <2>1
      <4> QED
        BY <4>1, SMTT(20)
    <3> QED
      BY <2>2, <3>1
  <2>4. Seq(Nat) = UNION {[1..n -> Nat] : n \in Nat}
    BY SeqDef
  <2> QED
    BY <2>1, <2>3, <2>4
<1>2. /\ \A u \in 1..Len(flow) + 1 : Sums(flow)[u] \in Nat
      /\ Sums(flow)[1] = 0
      /\ \A u \in 1..Len(flow) : Sums(flow)[u + 1] = Sums(flow)[u] + flow[u]
  BY <1>1, SumsFacts
<1>3. Size(flow) = Sums(flow)[Len(flow) + 1] /\ Size(flow) \in Nat
  BY <1>1, <1>2 DEF Size
<1>4. ASSUME NEW u \in 1..Len(flow) + 1
      PROVE  Sums(flow)[u] <= Size(flow)
  <2>1. Len(flow) + 1 \in u..Len(flow) + 1
    BY <1>1
  <2> QED
    BY <1>1, <1>3, <2>1, SumsGrow
<1> QED
  BY <1>1, <1>2, <1>3, <1>4

\* The time of a packet, from the interval it is in.
LEMMA IndexIs ==
  ASSUME NEW flow \in Flows, NEW n \in Nat, NEW v \in 1..Len(flow),
         Sums(flow)[v] <= n, n < Sums(flow)[v + 1]
  PROVE  Index(flow, n) = 25 * (v - 1) + n - Sums(flow)[v]
<1> DEFINE P(w) == Sums(flow)[w] <= n /\ n < Sums(flow)[w + 1]
           u == CHOOSE w \in 1..Len(flow) : P(w)
<1>1. u \in 1..Len(flow) /\ P(u)
  OBVIOUS
<1>2. ASSUME NEW w \in 1..Len(flow), P(w), NEW z \in 1..Len(flow), P(z), w < z
      PROVE  FALSE
  <2>1. flow \in Seq(Nat) /\ Len(flow) \in Nat
    BY FlowFacts
  <2>2. Sums(flow)[w + 1] <= Sums(flow)[z]
    <3>1. w + 1 \in 1..Len(flow) + 1 /\ z \in (w + 1)..Len(flow) + 1
      BY <1>2, <2>1
    <3> QED
      BY <2>1, <3>1, SumsGrow
  <2>3. Sums(flow)[w + 1] \in Nat /\ Sums(flow)[z] \in Nat
    BY <2>1, FlowFacts, SMTT(20)
  <2> QED
    BY <1>2, <2>2, <2>3
<1>3. u = v
  <2> HIDE DEF u
  <2>1. Len(flow) \in Nat
    BY FlowFacts
  <2> QED
    BY <1>1, <1>2, <2>1
<1> QED
  <2>1. Index(flow, n) = 25 * (u - 1) + n - Sums(flow)[u]
    BY DEF Index, TicksPerInterval
  <2> HIDE DEF u
  <2> QED
    BY <1>3, <2>1

\* Every packet is in an interval, in which the flow sends.
LEMMA IndexExists ==
  ASSUME NEW flow \in Flows, NEW n \in Nat, n < Size(flow)
  PROVE  \E v \in 1..Len(flow) :
           /\ Sums(flow)[v] <= n /\ n < Sums(flow)[v + 1]
           /\ Index(flow, n) = 25 * (v - 1) + n - Sums(flow)[v]
           /\ Index(flow, n) \in Nat /\ Index(flow, n) < 25 * v
           /\ flow[v] > 0
<1> DEFINE T == {v \in 1..Len(flow) + 1 : n < Sums(flow)[v]}
<1>1. Len(flow) + 1 \in T /\ T \in SUBSET Nat
  BY FlowFacts
<1>2. PICK x \in T : \A y \in T : x <= y
  <2> HIDE DEF T
  <2> QED
    BY <1>1, LeastNat
<1>3. x # 1 /\ x - 1 \in 1..Len(flow) /\ x - 1 \notin T
  BY <1>2, FlowFacts
<1>4. Sums(flow)[x - 1] <= n /\ n < Sums(flow)[(x - 1) + 1]
  <2>1. x - 1 \in 1..Len(flow) + 1 /\ (x - 1) + 1 = x
    BY <1>2, <1>3, FlowFacts
  <2>2. Sums(flow)[x - 1] \in Nat
    BY <2>1, FlowFacts
  <2>3. ~(n < Sums(flow)[x - 1])
    BY <1>3, <2>1
  <2> QED
    BY <1>2, <2>1, <2>2, <2>3
<1> DEFINE v == x - 1
<1>5. v \in 1..Len(flow) /\ Sums(flow)[v] <= n /\ n < Sums(flow)[v + 1]
  BY <1>3, <1>4
<1> HIDE DEF v
<1>6. Index(flow, n) = 25 * (v - 1) + n - Sums(flow)[v]
  BY <1>5, IndexIs
<1>7. Sums(flow)[v + 1] = Sums(flow)[v] + flow[v] /\ flow[v] \in 0..25 /\ Sums(flow)[v] \in Nat /\ v \in Nat
  <2>1. v \in 1..Len(flow) + 1
    BY <1>5, FlowFacts
  <2> QED
    BY <1>5, <2>1, FlowFacts
<1>8. Index(flow, n) \in Nat /\ Index(flow, n) < 25 * v /\ flow[v] > 0
  <2> DEFINE a == Sums(flow)[v]
             b == flow[v]
             i == Index(flow, n)
  <2>1. a \in Nat /\ b \in 0..25 /\ v \in Nat /\ v >= 1 /\ a <= n /\ n < a + b
    BY <1>5, <1>7
  <2>2. i = 25 * (v - 1) + n - a
    BY <1>6
  <2> HIDE DEF a, b, i
  <2>3. i \in Nat /\ i < 25 * v /\ b > 0
    BY <2>1, <2>2
  <2> QED
    BY <2>3 DEF b, i
<1> QED
  BY <1>5, <1>6, <1>8

\* The packets before a time are those before its interval, and some of it.
LEMMA BeforeFacts ==
  ASSUME NEW flow \in Flows, NEW tick \in Nat
  PROVE  /\ Before(flow, tick) \in Nat /\ Before(flow, tick) <= Size(flow)
         /\ \A v \in 1..Len(flow), part \in 0..24 :
              tick = 25 * (v - 1) + part =>
                Before(flow, tick) = Sums(flow)[v] + (IF flow[v] < part THEN flow[v] ELSE part)
<1> DEFINE u == tick \div 25
           part == tick % 25
<1>1. u \in Nat /\ part \in 0..24 /\ tick = 25 * u + part
  OBVIOUS
<1>2. Before(flow, tick) =
        IF u >= Len(flow) THEN Size(flow)
        ELSE Sums(flow)[u + 1] + (IF flow[u + 1] < part THEN flow[u + 1] ELSE part)
  BY DEF Before, TicksPerInterval
<1> HIDE DEF u, part
<1>3. CASE u >= Len(flow)
  <2>1. Before(flow, tick) = Size(flow)
    BY <1>2, <1>3
  <2>2. ASSUME NEW v \in 1..Len(flow), NEW p \in 0..24, tick = 25 * (v - 1) + p
        PROVE  FALSE
    <3>1. Len(flow) \in Nat
      BY FlowFacts
    <3> QED
      BY <1>1, <1>3, <2>2, <3>1
  <2> QED
    BY <2>1, <2>2, FlowFacts
<1>4. CASE ~(u >= Len(flow))
  <2>1. u + 1 \in 1..Len(flow)
    BY <1>1, <1>4, FlowFacts
  <2>2. /\ Sums(flow)[u + 1] \in Nat /\ flow[u + 1] \in 0..25
        /\ Sums(flow)[(u + 1) + 1] = Sums(flow)[u + 1] + flow[u + 1]
        /\ Sums(flow)[(u + 1) + 1] <= Size(flow)
    <3>1. (u + 1) + 1 \in 1..Len(flow) + 1 /\ u + 1 \in 1..Len(flow) + 1
      BY <2>1, FlowFacts
    <3> QED
      BY <2>1, <3>1, FlowFacts
  <2>3. Before(flow, tick) = Sums(flow)[u + 1] + (IF flow[u + 1] < part THEN flow[u + 1] ELSE part)
    BY <1>2, <1>4
  <2>4. Before(flow, tick) \in Nat /\ Before(flow, tick) <= Size(flow)
    <3> DEFINE a == Sums(flow)[u + 1]
               b == flow[u + 1]
               n == Before(flow, tick)
               z == Size(flow)
    <3>1. a \in Nat /\ b \in 0..25 /\ part \in 0..24 /\ z \in Nat /\ a + b <= z
      BY <1>1, <2>2, FlowFacts
    <3>2. n = a + (IF b < part THEN b ELSE part)
      BY <2>3
    <3> HIDE DEF a, b, n, z
    <3>3. n \in Nat /\ n <= z
      BY <3>1, <3>2
    <3> QED
      BY <3>3 DEF n, z
  <2>5. ASSUME NEW v \in 1..Len(flow), NEW p \in 0..24, tick = 25 * (v - 1) + p
        PROVE  v = u + 1 /\ p = part
    BY <1>1, <2>5, FlowFacts, SMTT(20)
  <2> QED
    BY <2>3, <2>4, <2>5
<1> QED
  BY <1>3, <1>4


\* Packets that come earlier have smaller numbers, and the other way round.
LEMMA IndexBelow ==
  ASSUME NEW flow \in Flows, NEW n \in Nat, NEW v \in 1..Len(flow), NEW p \in Nat,
         p <= flow[v], n < Sums(flow)[v] + p
  PROVE  n < Size(flow) /\ Index(flow, n) \in Nat /\ Index(flow, n) < 25 * (v - 1) + p
<1>1. /\ Len(flow) \in Nat /\ v \in 1..Len(flow) + 1 /\ v + 1 \in 1..Len(flow) + 1
      /\ Sums(flow)[v] \in Nat /\ flow[v] \in 0..25
      /\ Sums(flow)[v + 1] = Sums(flow)[v] + flow[v] /\ Sums(flow)[v + 1] <= Size(flow)
      /\ Size(flow) \in Nat
  <2>1. Len(flow) \in Nat /\ v \in 1..Len(flow) + 1 /\ v + 1 \in 1..Len(flow) + 1
    BY FlowFacts
  <2> QED
    BY <2>1, FlowFacts
<1>2. n < Size(flow) /\ n < Sums(flow)[v + 1]
  <2> DEFINE x == Sums(flow)[v]
             y == flow[v]
             next == Sums(flow)[v + 1]
             size == Size(flow)
  <2>1. /\ x \in Nat /\ y \in 0..25 /\ next = x + y /\ next <= size /\ size \in Nat
        /\ p <= y /\ n < x + p
    BY <1>1
  <2> HIDE DEF x, y, next, size
  <2>2. n < size /\ n < next
    BY <2>1
  <2> QED
    BY <2>2 DEF next, size
<1>3. PICK w \in 1..Len(flow) :
         /\ Sums(flow)[w] <= n /\ n < Sums(flow)[w + 1]
         /\ Index(flow, n) = 25 * (w - 1) + n - Sums(flow)[w]
         /\ Index(flow, n) \in Nat /\ Index(flow, n) < 25 * w
  BY <1>2, IndexExists
<1>4. CASE w < v
  BY <1>1, <1>2, <1>3, <1>4
<1>5. CASE w = v
  BY <1>1, <1>2, <1>3, <1>5, SMTT(20)
<1>6. CASE v < w
  <2>1. v + 1 \in 1..Len(flow) + 1 /\ w \in (v + 1)..Len(flow) + 1 /\ flow \in Seq(Nat)
    BY <1>1, <1>6, FlowFacts
  <2>2. Sums(flow)[v + 1] <= Sums(flow)[w]
    BY <2>1, SumsGrow
  <2>3. Sums(flow)[w] \in Nat /\ Sums(flow)[v + 1] \in Nat
    <3>1. w \in 1..Len(flow) + 1
      BY <1>1
    <3> QED
      BY <2>1, <3>1, FlowFacts
  <2> DEFINE x == Sums(flow)[w]
             next == Sums(flow)[v + 1]
  <2>4. x \in Nat /\ next \in Nat /\ next <= x /\ x <= n /\ n < next
    BY <1>2, <1>3, <2>2, <2>3
  <2> HIDE DEF x, next
  <2> QED
    BY <2>4
<1> QED
  BY <1>1, <1>3, <1>4, <1>5, <1>6

\* The packets that do not come before an interval.
LEMMA IndexAbove ==
  ASSUME NEW flow \in Flows, NEW n \in Nat, NEW v \in 1..Len(flow) + 1,
         n < Size(flow), Sums(flow)[v] <= n
  PROVE  Index(flow, n) \in Nat /\ 25 * (v - 1) <= Index(flow, n)
<1>1. PICK w \in 1..Len(flow) :
         /\ Sums(flow)[w] <= n /\ n < Sums(flow)[w + 1]
         /\ Index(flow, n) = 25 * (w - 1) + n - Sums(flow)[w]
         /\ Index(flow, n) \in Nat
  BY IndexExists
<1>2. Len(flow) \in Nat /\ flow \in Seq(Nat)
  BY FlowFacts
<1>3. w >= v
  <2>1. SUFFICES ASSUME w < v PROVE FALSE
    BY <1>1, <1>2
  <2>2. w + 1 \in 1..Len(flow) + 1 /\ v \in (w + 1)..Len(flow) + 1
    BY <1>1, <1>2, <2>1
  <2>3. Sums(flow)[w + 1] <= Sums(flow)[v] /\ Sums(flow)[w + 1] \in Nat /\ Sums(flow)[v] \in Nat
    BY <1>2, <2>2, SumsGrow, FlowFacts
  <2> QED
    BY <1>1, <2>3
<1>4. Sums(flow)[w] \in Nat /\ w \in 1..Len(flow) + 1
  BY <1>1, <1>2, FlowFacts
<1> QED
  BY <1>1, <1>2, <1>3, <1>4, SMTT(20)

\* Later times have no fewer packets before them.
LEMMA BeforeGrows ==
  ASSUME NEW flow \in Flows, NEW s \in Nat, NEW t \in Nat, s <= t
  PROVE  Before(flow, s) <= Before(flow, t)
<1> DEFINE a == s \div 25
           p == s % 25
           b == t \div 25
           q == t % 25
<1>1. /\ a \in Nat /\ p \in 0..24 /\ s = 25 * a + p
      /\ b \in Nat /\ q \in 0..24 /\ t = 25 * b + q
  OBVIOUS
<1>2. /\ Before(flow, s) =
           IF a >= Len(flow) THEN Size(flow)
           ELSE Sums(flow)[a + 1] + (IF flow[a + 1] < p THEN flow[a + 1] ELSE p)
      /\ Before(flow, t) =
           IF b >= Len(flow) THEN Size(flow)
           ELSE Sums(flow)[b + 1] + (IF flow[b + 1] < q THEN flow[b + 1] ELSE q)
  BY DEF Before, TicksPerInterval
<1> HIDE DEF a, b, p, q
<1>3. a <= b /\ (a = b => p <= q)
  BY <1>1
<1>4. /\ Before(flow, s) \in Nat /\ Before(flow, s) <= Size(flow)
      /\ Before(flow, t) \in Nat /\ Len(flow) \in Nat
  BY BeforeFacts, FlowFacts
<1>5. CASE b >= Len(flow)
  BY <1>2, <1>4, <1>5
<1>6. CASE ~(b >= Len(flow))
  <2>1. /\ a + 1 \in 1..Len(flow) /\ b + 1 \in 1..Len(flow)
        /\ ~(a >= Len(flow))
    BY <1>1, <1>3, <1>4, <1>6
  <2>2. /\ Sums(flow)[a + 1] \in Nat /\ flow[a + 1] \in 0..25
        /\ Sums(flow)[b + 1] \in Nat /\ flow[b + 1] \in 0..25
        /\ Sums(flow)[(a + 1) + 1] = Sums(flow)[a + 1] + flow[a + 1]
    <3>1. a + 1 \in 1..Len(flow) + 1 /\ b + 1 \in 1..Len(flow) + 1
      BY <1>4, <2>1
    <3> QED
      BY <2>1, <3>1, FlowFacts
  <2> DEFINE x == Before(flow, s)
             y == Before(flow, t)
             m == Sums(flow)[a + 1]
             f == flow[a + 1]
             o == Sums(flow)[b + 1]
             g == flow[b + 1]
             next == Sums(flow)[(a + 1) + 1]
  <2>6. /\ x = m + (IF f < p THEN f ELSE p) /\ y = o + (IF g < q THEN g ELSE q)
        /\ m \in Nat /\ f \in 0..25 /\ o \in Nat /\ g \in 0..25 /\ next = m + f
    BY <1>2, <1>6, <2>1, <2>2
  <2>3. CASE a = b
    <3>1. m = o /\ f = g
      BY <2>3
    <3> HIDE DEF x, y, m, f, o, g, next
    <3>2. x <= y
      BY <1>1, <1>3, <2>3, <2>6, <3>1
    <3> QED
      BY <3>2 DEF x, y
  <2>4. CASE a < b
    <3>1. (a + 1) + 1 \in 1..Len(flow) + 1 /\ b + 1 \in ((a + 1) + 1)..Len(flow) + 1
      BY <1>1, <1>4, <2>1, <2>4
    <3>2. Sums(flow)[(a + 1) + 1] <= Sums(flow)[b + 1]
      BY <3>1, SumsGrow, FlowFacts
    <3>3. next <= o
      BY <3>2
    <3> HIDE DEF x, y, m, f, o, g, next
    <3>4. x <= y
      BY <1>1, <2>6, <3>3
    <3> QED
      BY <3>4 DEF x, y
  <2> QED
    BY <1>1, <1>3, <2>3, <2>4
<1> QED
  BY <1>5, <1>6

\* Where a flow has a packet in every tick, the number of a packet tells its time.
LEMMA SteadyIndex ==
  ASSUME NEW flow \in Flows, NEW a \in 1..Len(flow), NEW b \in a..Len(flow),
         Span(flow, a, b, 25), NEW n \in Nat,
         Sums(flow)[a] <= n, n < Sums(flow)[a] + 25 * (b + 1 - a)
  PROVE  n < Size(flow) /\ Index(flow, n) = 25 * (a - 1) + n - Sums(flow)[a]
<1>1. /\ Len(flow) \in Nat /\ flow \in Seq(Nat) /\ a \in 1..Len(flow) + 1
      /\ b + 1 \in 1..Len(flow) + 1 /\ b + 1 \in a..(b + 1) /\ b \in Nat /\ b <= Len(flow)
  BY FlowFacts
<1>2. ASSUME NEW u \in a..(b + 1)
      PROVE  Sums(flow)[u] = Sums(flow)[a] + 25 * (u - a) /\ Sums(flow)[u] \in Nat
  <2>1. u \in 1..Len(flow) + 1
    BY <1>1
  <2> QED
    BY <1>1, <2>1, SumsOfSpan, FlowFacts, SMTT(20)
<1>3. n < Size(flow)
  <2> DEFINE x == Sums(flow)[a]
             y == Sums(flow)[b + 1]
             size == Size(flow)
  <2>1. y = x + 25 * (b + 1 - a) /\ x \in Nat /\ y \in Nat
    BY <1>1, <1>2, SMTT(20)
  <2>2. y <= size /\ size \in Nat /\ x <= n /\ n < x + 25 * (b + 1 - a)
    BY <1>1, FlowFacts
  <2> HIDE DEF x, y, size
  <2>3. n < size
    BY <1>1, <2>1, <2>2
  <2> QED
    BY <2>3 DEF size
<1>4. PICK w \in 1..Len(flow) :
         /\ Sums(flow)[w] <= n /\ n < Sums(flow)[w + 1]
         /\ Index(flow, n) = 25 * (w - 1) + n - Sums(flow)[w]
  BY <1>3, IndexExists
<1>5. /\ w \in 1..Len(flow) + 1 /\ w + 1 \in 1..Len(flow) + 1
      /\ Sums(flow)[w] \in Nat /\ Sums(flow)[w + 1] \in Nat /\ Sums(flow)[a] \in Nat
  <2>1. w \in 1..Len(flow) + 1 /\ w + 1 \in 1..Len(flow) + 1
    BY <1>1
  <2> QED
    BY <1>1, <2>1, FlowFacts
<1>6. w >= a
  <2>1. SUFFICES ASSUME w < a PROVE FALSE
    BY <1>1
  <2>2. a \in (w + 1)..Len(flow) + 1
    BY <1>1, <2>1
  <2>3. Sums(flow)[w + 1] <= Sums(flow)[a]
    BY <1>1, <1>5, <2>2, SumsGrow
  <2> QED
    BY <1>4, <1>5, <2>3
<1>7. w <= b
  <2>1. SUFFICES ASSUME w > b PROVE FALSE
    BY <1>1
  <2>2. w \in (b + 1)..Len(flow) + 1
    BY <1>1, <2>1
  <2>3. Sums(flow)[b + 1] <= Sums(flow)[w]
    BY <1>1, <1>5, <2>2, SumsGrow
  <2> DEFINE x == Sums(flow)[a]
             y == Sums(flow)[b + 1]
             z == Sums(flow)[w]
  <2>4. y = x + 25 * (b + 1 - a) /\ x \in Nat /\ y \in Nat
    BY <1>1, <1>2, SMTT(20)
  <2>5. z \in Nat /\ y <= z /\ z <= n /\ n < x + 25 * (b + 1 - a)
    BY <1>4, <1>5, <2>3
  <2> HIDE DEF x, y, z
  <2> QED
    BY <2>4, <2>5
<1>8. Sums(flow)[w] = Sums(flow)[a] + 25 * (w - a)
  BY <1>2, <1>6, <1>7
<1>9. Index(flow, n) = 25 * (a - 1) + n - Sums(flow)[a]
  <2> DEFINE x == Sums(flow)[a]
             z == Sums(flow)[w]
             i == Index(flow, n)
  <2>1. i = 25 * (w - 1) + n - z /\ z = x + 25 * (w - a) /\ x \in Nat /\ z \in Nat
    BY <1>4, <1>5, <1>8
  <2> HIDE DEF x, z, i
  <2>2. i = 25 * (a - 1) + n - x
    BY <2>1
  <2> QED
    BY <2>2 DEF i, x
<1> QED
  BY <1>3, <1>9

\* The number of packets before a time in a steady span.
LEMMA SteadyBefore ==
  ASSUME NEW flow \in Flows, NEW a \in 1..Len(flow), NEW b \in a..Len(flow),
         Span(flow, a, b, 25), NEW tick \in 25 * (a - 1)..25 * b
  PROVE  Before(flow, tick) = Sums(flow)[a] + tick - 25 * (a - 1)
<1> DEFINE u == tick \div 25
           p == tick % 25
<1>1. /\ Len(flow) \in Nat /\ flow \in Seq(Nat) /\ a \in 1..Len(flow) + 1 /\ b \in Nat /\ b <= Len(flow)
      /\ Sums(flow)[a] \in Nat
  <2>1. Len(flow) \in Nat /\ a \in 1..Len(flow) + 1
    BY FlowFacts
  <2> QED
    BY <2>1, FlowFacts
<1>2. ASSUME NEW v \in a..(b + 1)
      PROVE  Sums(flow)[v] = Sums(flow)[a] + 25 * (v - a)
  BY <1>1, SumsOfSpan
<1>3. tick \in Nat /\ u \in Nat /\ p \in 0..24 /\ tick = 25 * u + p
  BY <1>1
<1>4. Before(flow, tick) =
        IF u >= Len(flow) THEN Size(flow)
        ELSE Sums(flow)[u + 1] + (IF flow[u + 1] < p THEN flow[u + 1] ELSE p)
  BY DEF Before, TicksPerInterval
<1> HIDE DEF u, p
<1>5. u + 1 \in a..(b + 1) /\ (u + 1 = b + 1 => p = 0)
  BY <1>1, <1>3
<1>6. Sums(flow)[u + 1] = Sums(flow)[a] + 25 * (u + 1 - a)
  <2> DEFINE v == u + 1
  <2>1. v \in a..(b + 1) /\ v = u + 1
    BY <1>5
  <2> HIDE DEF v
  <2>2. Sums(flow)[v] = Sums(flow)[a] + 25 * (v - a)
    BY <1>2, <2>1
  <2> QED
    BY <1>1, <1>3, <2>1, <2>2
<1>7. CASE u >= Len(flow)
  <2>1. u = Len(flow) /\ u = b /\ p = 0
    BY <1>1, <1>3, <1>5, <1>7
  <2>2. Before(flow, tick) = Sums(flow)[u + 1]
    <3>1. Before(flow, tick) = Size(flow)
      BY <1>4, <1>7
    <3>2. Size(flow) = Sums(flow)[Len(flow) + 1]
      BY FlowFacts
    <3> QED
      BY <2>1, <3>1, <3>2
  <2> QED
    BY <1>1, <1>3, <1>6, <2>1, <2>2
<1>8. CASE ~(u >= Len(flow))
  <2>1. flow[u + 1] \in 0..25
    BY <1>1, <1>3, <1>8, FlowFacts
  <2>2. CASE u + 1 = b + 1
    BY <1>1, <1>3, <1>4, <1>5, <1>6, <1>8, <2>1, <2>2, SMTT(20)
  <2>3. CASE u + 1 # b + 1
    <3>1. flow[u + 1] = 25
      BY <1>1, <1>3, <1>5, <2>3 DEF Span
    <3> QED
      BY <1>1, <1>3, <1>4, <1>6, <1>8, <3>1, SMTT(20)
  <2> QED
    BY <2>2, <2>3
<1> QED
  BY <1>7, <1>8


\* Where two flows are equal, their sums grow alike.
LEMMA SumsFollow ==
  ASSUME NEW flow \in Flows, NEW other \in Flows, Len(flow) = Len(other), NEW a \in 1..Len(flow) + 1,
         \A u \in a..Len(flow) : flow[u] = other[u], NEW u \in a..Len(flow) + 1
  PROVE  Sums(flow)[u] - Sums(flow)[a] = Sums(other)[u] - Sums(other)[a]
<1> DEFINE S == {d \in Nat : a + d <= Len(flow) + 1 =>
                   Sums(flow)[a + d] - Sums(flow)[a] = Sums(other)[a + d] - Sums(other)[a]}
<1>1. /\ Len(flow) \in Nat
      /\ \A w \in 1..Len(flow) + 1 : Sums(flow)[w] \in Nat /\ Sums(other)[w] \in Nat
      /\ \A w \in 1..Len(flow) : Sums(flow)[w + 1] = Sums(flow)[w] + flow[w]
      /\ \A w \in 1..Len(flow) : Sums(other)[w + 1] = Sums(other)[w] + other[w]
  BY FlowFacts
<1>2. 0 \in S /\ S \in SUBSET Nat
  BY <1>1
<1>3. ASSUME NEW d \in S
      PROVE  d + 1 \in S
  <2>1. SUFFICES ASSUME a + d + 1 <= Len(flow) + 1
                 PROVE  Sums(flow)[a + d + 1] - Sums(flow)[a] = Sums(other)[a + d + 1] - Sums(other)[a]
    BY <1>1
  <2>2. /\ a + d \in 1..Len(flow) /\ a + d \in a..Len(flow)
        /\ Sums(flow)[a + d] - Sums(flow)[a] = Sums(other)[a + d] - Sums(other)[a]
    BY <1>1, <2>1
  <2>3. /\ Sums(flow)[a + d + 1] = Sums(flow)[a + d] + flow[a + d]
        /\ Sums(other)[a + d + 1] = Sums(other)[a + d] + flow[a + d]
    BY <1>1, <2>2
  <2>4. /\ Sums(flow)[a + d] \in Nat /\ Sums(other)[a + d] \in Nat /\ flow[a + d] \in Nat
        /\ Sums(flow)[a] \in Nat /\ Sums(other)[a] \in Nat
    <3>1. a + d \in 1..Len(flow) + 1
      BY <1>1, <2>2
    <3>2. flow[a + d] \in 0..25
      BY <2>2, FlowFacts
    <3>3. \A y \in 0..25 : y \in Nat
      OBVIOUS
    <3>4. a \in 1..Len(flow) + 1
      OBVIOUS
    <3> QED
      BY <1>1, <3>1, <3>2, <3>3, <3>4
  <2> DEFINE p == Sums(flow)[a + d]
             q == Sums(other)[a + d]
             x == flow[a + d]
             m == Sums(flow)[a]
             n == Sums(other)[a]
             p1 == Sums(flow)[a + d + 1]
             q1 == Sums(other)[a + d + 1]
  <2>5. p \in Nat /\ q \in Nat /\ x \in Nat /\ m \in Nat /\ n \in Nat /\ p - m = q - n
    BY <2>2, <2>4
  <2>6. p1 = p + x /\ q1 = q + x
    BY <2>3
  <2> HIDE DEF p, q, x, m, n, p1, q1
  <2>7. p1 - m = q1 - n
    BY <2>5, <2>6
  <2> QED
    BY <2>7 DEF m, n, p1, q1
<1>4. u - a \in S
  <2> HIDE DEF S
  <2>1. S = Nat
    BY <1>2, <1>3, Induction
  <2> QED
    BY <1>1, <2>1
<1>5. a + (u - a) = u /\ u - a \in Nat
  BY <1>1
<1> QED
  BY <1>1, <1>4, <1>5

\* A flow that begins in the interval g, and goes on steadily after the interval s,
\* until e: of the first intervals of its two parts, a queue may have dropped most.
Called(flow, g, s, e) ==
  /\ flow \in Flows /\ g \in 1..s /\ s < e /\ e <= Len(flow)
  /\ Span(flow, 1, g - 1, 0) /\ flow[g] \in {5, 25} /\ flow[s] \in {5, 25}
  /\ g < s => flow[s] = 25
  /\ Span(flow, s + 1, e, 25)

\* The sums of such a flow, and the time of its eleventh packet.
LEMMA CalledFacts ==
  ASSUME NEW flow, NEW g \in Nat, NEW s \in Nat, NEW e \in Nat, Called(flow, g, s, e)
  PROVE  /\ Sums(flow)[g] = 0 /\ Sums(flow)[s + 1] \in Nat /\ 5 <= Sums(flow)[s + 1]
         /\ Size(flow) \in Nat /\ Sums(flow)[s + 1] + 25 * (e - s) <= Size(flow)
         /\ Sums(flow)[e + 1] = Sums(flow)[s + 1] + 25 * (e - s)
         /\ Index(flow, 11) \in Nat
         /\ 25 * (g - 1) <= Index(flow, 11) /\ Index(flow, 11) <= 25 * s + 6
         /\ g < s => Index(flow, 11) <= 25 * (s - 1) + 6
<1>1. /\ flow \in Flows /\ g \in 1..s /\ s < e /\ e <= Len(flow) /\ Len(flow) \in Nat
      /\ Span(flow, 1, g - 1, 0) /\ flow[g] \in {5, 25} /\ flow[s] \in {5, 25}
      /\ g < s => flow[s] = 25
      /\ Span(flow, s + 1, e, 25) /\ flow \in Seq(Nat)
  BY FlowFacts DEF Called
<1>2. /\ g \in 1..Len(flow) /\ s \in 1..Len(flow) /\ s + 1 \in 1..Len(flow) /\ e + 1 \in 1..Len(flow) + 1
      /\ g \in 1..Len(flow) + 1 /\ s \in 1..Len(flow) + 1 /\ s + 1 \in 1..Len(flow) + 1
      /\ g + 1 \in 1..Len(flow) + 1
  BY <1>1, SMTT(20)
<1>3. Sums(flow)[g] = 0
  <2> DEFINE b == g - 1
  <2>1. g \in 1..(b + 1) /\ b \in Nat /\ b <= Len(flow) /\ 1 \in 1..Len(flow) + 1
        /\ Span(flow, 1, b, 0)
    BY <1>1, <1>2
  <2> HIDE DEF b
  <2>2. Sums(flow)[g] = Sums(flow)[1] + 0 * (g - 1)
    BY ONLY <1>1, <2>1, SumsOfSpan
  <2>3. 0 * (g - 1) = 0
    OBVIOUS
  <2> QED
    BY <1>1, <2>2, <2>3, FlowFacts
<1>4. Sums(flow)[g + 1] = flow[g] /\ Sums(flow)[s + 1] = Sums(flow)[s] + flow[s]
  <2>1. /\ Sums(flow)[g + 1] = Sums(flow)[g] + flow[g]
        /\ Sums(flow)[s + 1] = Sums(flow)[s] + flow[s]
    BY <1>1, <1>2, FlowFacts
  <2> QED
    BY <1>1, <1>3, <2>1
<1>5. /\ Sums(flow)[s] \in Nat /\ Sums(flow)[s + 1] \in Nat /\ Sums(flow)[e + 1] \in Nat
      /\ Size(flow) \in Nat /\ Sums(flow)[e + 1] <= Size(flow)
  BY <1>1, <1>2, FlowFacts
<1>6. Sums(flow)[e + 1] = Sums(flow)[s + 1] + 25 * (e - s)
  <2> DEFINE a == s + 1
             u == e + 1
  <2>1. u \in a..(e + 1) /\ a \in 1..Len(flow) + 1 /\ Span(flow, a, e, 25) /\ u - a = e - s
    BY <1>1, <1>2
  <2> HIDE DEF a, u
  <2>2. Sums(flow)[u] = Sums(flow)[a] + 25 * (u - a)
    BY <1>1, <2>1, SumsOfSpan
  <2> QED
    BY <2>1, <2>2 DEF a, u
<1>7. g < s => 5 <= Sums(flow)[s]
  <2> SUFFICES ASSUME g < s PROVE 5 <= Sums(flow)[s]
    OBVIOUS
  <2>1. s \in (g + 1)..Len(flow) + 1
    BY <1>1, <1>2
  <2>2. Sums(flow)[g + 1] <= Sums(flow)[s]
    BY <1>1, <1>2, <2>1, SumsGrow
  <2>3. 5 <= Sums(flow)[g + 1] /\ Sums(flow)[g + 1] \in Nat
    BY <1>1, <1>4, SMTT(20)
  <2> QED
    BY <1>5, <2>2, <2>3
<1>8. 5 <= Sums(flow)[s + 1]
  <2> DEFINE x == Sums(flow)[s]
             y == flow[s]
             z == Sums(flow)[s + 1]
  <2>1. x \in Nat /\ y \in {5, 25} /\ z = x + y
    BY <1>1, <1>4, <1>5
  <2> HIDE DEF x, y, z
  <2>2. 5 <= z
    BY <2>1
  <2> QED
    BY <2>2 DEF z
<1>9. 11 < Sums(flow)[s + 1] + 7 /\ flow[s + 1] = 25
  <2>1. s + 1 \in (s + 1)..e
    BY <1>1
  <2>2. flow[s + 1] = 25
    BY <1>1, <2>1 DEF Span
  <2> QED
    BY <1>5, <1>8, <2>2
<1>10. 11 < Size(flow) /\ Index(flow, 11) \in Nat /\ Index(flow, 11) <= 25 * s + 6
  <2> DEFINE v == s + 1
  <2>1. v \in 1..Len(flow) /\ 7 <= flow[v] /\ 11 < Sums(flow)[v] + 7 /\ v - 1 = s
    BY <1>2, <1>9
  <2> HIDE DEF v
  <2>2. 11 < Size(flow) /\ Index(flow, 11) \in Nat /\ Index(flow, 11) < 25 * (v - 1) + 7
    BY <1>1, <2>1, IndexBelow
  <2> QED
    BY <2>1, <2>2
<1>11. 25 * (g - 1) <= Index(flow, 11)
  <2>1. Sums(flow)[g] <= 11
    BY <1>3
  <2> QED
    BY <1>1, <1>2, <1>10, <2>1, IndexAbove
<1>12. g < s => Index(flow, 11) <= 25 * (s - 1) + 6
  <2> SUFFICES ASSUME g < s PROVE Index(flow, 11) <= 25 * (s - 1) + 6
    OBVIOUS
  <2>1. 11 < Sums(flow)[s] + 7 /\ 7 <= flow[s]
    <3>1. flow[s] = 25 /\ 5 <= Sums(flow)[s] /\ Sums(flow)[s] \in Nat
      BY <1>1, <1>5, <1>7
    <3> QED
      BY <3>1
  <2>2. Index(flow, 11) < 25 * (s - 1) + 7
    BY <1>1, <1>2, <2>1, IndexBelow
  <2> QED
    BY <1>10, <2>2
<1>13. Sums(flow)[s + 1] + 25 * (e - s) <= Size(flow)
  BY <1>5, <1>6
<1> QED
  BY <1>3, <1>5, <1>6, <1>8, <1>10, <1>11, <1>12, <1>13

\* The numbers and times of the packets from s on.
LEMMA CalledSteady ==
  ASSUME NEW flow, NEW g \in Nat, NEW s \in Nat, NEW e \in Nat, Called(flow, g, s, e)
  PROVE  /\ \A tick \in (25 * s)..(25 * e) : Before(flow, tick) = Sums(flow)[s + 1] + tick - 25 * s
         /\ \A n \in Nat : Sums(flow)[s + 1] <= n /\ n < Sums(flow)[s + 1] + 25 * (e - s) =>
              Index(flow, n) = 25 * s + n - Sums(flow)[s + 1]
<1>1. /\ flow \in Flows /\ s + 1 \in 1..Len(flow) /\ e \in (s + 1)..Len(flow)
      /\ Span(flow, s + 1, e, 25) /\ (s + 1) - 1 = s /\ e + 1 - (s + 1) = e - s
  BY FlowFacts DEF Called
<1>2. ASSUME NEW tick \in (25 * s)..(25 * e)
      PROVE  Before(flow, tick) = Sums(flow)[s + 1] + tick - 25 * s
  <2>1. tick \in (25 * ((s + 1) - 1))..(25 * e)
    BY <1>1
  <2>2. Before(flow, tick) = Sums(flow)[s + 1] + tick - 25 * ((s + 1) - 1)
    BY <1>1, <2>1, SteadyBefore
  <2> QED
    BY <1>1, <2>2
<1>3. ASSUME NEW n \in Nat, Sums(flow)[s + 1] <= n, n < Sums(flow)[s + 1] + 25 * (e - s)
      PROVE  Index(flow, n) = 25 * s + n - Sums(flow)[s + 1]
  <2>1. n < Sums(flow)[s + 1] + 25 * (e + 1 - (s + 1))
    BY <1>1, <1>3
  <2>2. Index(flow, n) = 25 * ((s + 1) - 1) + n - Sums(flow)[s + 1]
    BY <1>1, <1>3, <2>1, SteadyIndex
  <2> QED
    BY <1>1, <2>2
<1> QED
  BY <1>2, <1>3

=============================================================================
