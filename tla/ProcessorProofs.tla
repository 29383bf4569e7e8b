-------------------------- MODULE ProcessorProofs ---------------------------
(***************************************************************************)
(* Theorems about the engines of the processor, for any markets, tokens,   *)
(* trades, feeds, partitions and bounds.                                   *)
(***************************************************************************)
EXTENDS Processor, SequenceTheorems, FiniteSetTheorems, WellFoundedInduction, TLAPS

-----------------------------------------------------------------------------
(***************************************************************************)
(* Induction, with a set in place of a predicate, and sums of sequences.   *)
(***************************************************************************)

LEMMA Least == ASSUME NEW T \in SUBSET Nat, T # {} PROVE \E m \in T : \A n \in T : m <= n
<1> DEFINE R == {p \in Nat \X Nat : p[1] < p[2]}
<1>1. IsWellFoundedOn(R, Nat)
  BY NatLessThanWellFounded DEF OpToRel
<1>2. PICK m \in T : \A n \in T : <<n, m>> \notin R
  BY <1>1, WFMin
<1>3. ASSUME NEW n \in T, n < m PROVE <<n, m>> \in R
  <2>1. n \in Nat /\ m \in Nat
    OBVIOUS
  <2>2. <<n, m>> \in Nat \X Nat
    BY <2>1
  <2>3. QED
    BY <1>3, <2>2
<1>4. \A n \in T : ~(n < m)
  <2> HIDE DEF R
  <2>1. QED
    BY <1>2, <1>3
<1>5. T \subseteq Nat
  OBVIOUS
<1>6. QED
  BY <1>4, <1>5

LEMMA Induct ==
    ASSUME NEW T, 0 \in T, \A n \in Nat : n \in T => n + 1 \in T
    PROVE  Nat \subseteq T
<1> SUFFICES ASSUME Nat \ T # {} PROVE FALSE
  OBVIOUS
<1>1. PICK m \in Nat \ T : \A n \in Nat \ T : m <= n
  BY Least
<1>2. m - 1 \in Nat \ T
  BY <1>1
<1>3. QED
  BY <1>1, <1>2

\* f holds the sums of the first n elements of v.
IsSums(f, v) ==
    /\ f \in [0 .. Len(v) -> Nat]
    /\ f[0] = 0
    /\ \A n \in 1 .. Len(v) : f[n] = f[n - 1] + v[n]

LEMMA SumsExist == ASSUME NEW v \in Seq(Nat) PROVE \E f : IsSums(f, v)
<1> DEFINE Upto(m) == \E f \in [0 .. m -> Nat] :
                         f[0] = 0 /\ \A n \in 1 .. m : f[n] = f[n - 1] + v[n]
           T == {m \in Nat : m <= Len(v) => Upto(m)}
<1>1. 0 \in T
  <2> DEFINE f == [n \in 0 .. 0 |-> 0]
  <2>1. f \in [0 .. 0 -> Nat] /\ f[0] = 0 /\ 1 .. 0 = {}
    OBVIOUS
  <2>2. QED
    BY <2>1
<1>2. ASSUME NEW m \in Nat, m \in T PROVE m + 1 \in T
  <2> HIDE DEF Upto
  <2> SUFFICES ASSUME m + 1 <= Len(v) PROVE Upto(m + 1)
    OBVIOUS
  <2>0. Upto(m)
    BY <1>2
  <2>1. PICK f \in [0 .. m -> Nat] :
           f[0] = 0 /\ \A n \in 1 .. m : f[n] = f[n - 1] + v[n]
    BY <2>0 DEF Upto
  <2> DEFINE g == [n \in 0 .. m + 1 |-> IF n = m + 1 THEN f[m] + v[m + 1] ELSE f[n]]
  <2>2. v[m + 1] \in Nat /\ f[m] \in Nat
    OBVIOUS
  <2>3. g \in [0 .. m + 1 -> Nat] /\ g[0] = 0
    BY <2>1, <2>2
  <2>4. ASSUME NEW n \in 1 .. m + 1 PROVE g[n] = g[n - 1] + v[n]
    <3>1. /\ n \in 0 .. m + 1 /\ n - 1 \in 0 .. m + 1 /\ n - 1 # m + 1
          /\ n # m + 1 => n \in 1 .. m
          /\ (m + 1) - 1 = m
      OBVIOUS
    <3>2. g[n - 1] = f[n - 1]
      BY <3>1
    <3>3. n = m + 1 => g[n] = f[m] + v[m + 1]
      BY <3>1
    <3>4. n # m + 1 => g[n] = f[n] /\ f[n] = f[n - 1] + v[n]
      BY <2>1, <3>1
    <3> HIDE DEF g
    <3>5. QED
      BY <3>1, <3>2, <3>3, <3>4
  <2>5. QED
    BY <2>3, <2>4 DEF Upto
<1>3. Len(v) \in T
  <2> HIDE DEF T
  <2>1. Nat \subseteq T
    BY <1>1, <1>2, Induct
  <2>2. QED
    BY <2>1
<1>4. QED
  BY <1>3 DEF IsSums

\* Two functions that start alike and step alike are alike.
LEMMA SumsUnique ==
    ASSUME NEW v \in Seq(Nat), NEW f, NEW g, IsSums(f, v),
           g[0] = 0, \A n \in 1 .. Len(v) : g[n] = g[n - 1] + v[n]
    PROVE  \A n \in 0 .. Len(v) : f[n] = g[n]
<1> DEFINE T == {n \in Nat : n <= Len(v) => f[n] = g[n]}
<1>1. 0 \in T
  BY DEF IsSums
<1>2. ASSUME NEW n \in Nat, n \in T PROVE n + 1 \in T
  BY <1>2 DEF IsSums
<1>3. Nat \subseteq T
  <2> HIDE DEF T
  <2>1. QED
    BY <1>1, <1>2, Induct
<1>4. QED
  BY <1>3

LEMMA SumOfIs ==
    ASSUME NEW v \in Seq(Nat), NEW f, IsSums(f, v)
    PROVE  SumOf(v) = f[Len(v)]
<1> DEFINE step(g) == [n \in 0 .. Len(v) |-> IF n = 0 THEN 0 ELSE g[n - 1] + v[n]]
           sum == CHOOSE g : g = step(g)
<1>1. f = step(f)
  BY DEF IsSums
<1>2. sum = step(sum)
  BY <1>1
<1>3. sum[0] = 0 /\ \A n \in 1 .. Len(v) : sum[n] = sum[n - 1] + v[n]
  <2> HIDE DEF sum
  <2>1. QED
    BY <1>2
<1>4. SumOf(v) = sum[Len(v)]
  BY DEF SumOf
<1>5. QED
  BY <1>3, <1>4, SumsUnique

LEMMA SumType == ASSUME NEW v \in Seq(Nat) PROVE SumOf(v) \in Nat
<1>1. PICK f : IsSums(f, v)
  BY SumsExist
<1>2. SumOf(v) = f[Len(v)] /\ Len(v) \in 0 .. Len(v)
  BY <1>1, SumOfIs
<1>3. QED
  BY <1>1, <1>2 DEF IsSums

\* The sum of a sequence is that of any front of it and that of the rest.
LEMMA SumSplit ==
    ASSUME NEW v \in Seq(Nat), NEW m \in 0 .. Len(v)
    PROVE  SumOf(v) = SumOf(SubSeq(v, 1, m)) + SumOf(SubSeq(v, m + 1, Len(v)))
<1> DEFINE a == SubSeq(v, 1, m)
           b == SubSeq(v, m + 1, Len(v))
           n == Len(v)
<1>1. /\ a \in Seq(Nat) /\ Len(a) = m
      /\ \A k \in 1 .. m : a[k] = v[k]
  OBVIOUS
<1>2. /\ b \in Seq(Nat) /\ Len(b) = n - m
      /\ \A k \in 1 .. n - m : b[k] = v[m + k]
  <2>1. CASE m = n
    BY <2>1
  <2>2. CASE m < n
    BY <2>2
  <2>3. m = n \/ m < n
    OBVIOUS
  <2> HIDE DEF a, b, n
  <2>4. QED
    BY <2>1, <2>2, <2>3
<1> HIDE DEF a, b
<1>3. PICK f : IsSums(f, a)
  BY <1>1, SumsExist
<1>4. PICK h : IsSums(h, b)
  BY <1>2, SumsExist
<1> DEFINE F == [k \in 0 .. n |-> IF k <= m THEN f[k] ELSE f[m] + h[k - m]]
<1>5. f \in [0 .. m -> Nat] /\ h \in [0 .. n - m -> Nat]
  BY <1>1, <1>2, <1>3, <1>4 DEF IsSums
<1>6. F \in [0 .. n -> Nat]
  <2> SUFFICES ASSUME NEW k \in 0 .. n PROVE F[k] \in Nat
    OBVIOUS
  <2>1. CASE k <= m
    BY <1>5, <2>1
  <2>2. CASE k > m
    <3>1. k - m \in 0 .. n - m /\ m \in 0 .. m
      BY <2>2
    <3>2. f[m] \in Nat /\ h[k - m] \in Nat
      BY <1>5, <3>1
    <3>3. F[k] = f[m] + h[k - m]
      BY <2>2
    <3>4. QED
      BY <3>2, <3>3
  <2>3. QED
    BY <2>1, <2>2
<1>7. ASSUME NEW k \in 1 .. n PROVE F[k] = F[k - 1] + v[k]
  <2>1. CASE k <= m
    <3>1. k \in 1 .. m /\ k - 1 <= m /\ k \in 0 .. n /\ k - 1 \in 0 .. n
      BY <2>1
    <3>2. f[k] = f[k - 1] + a[k] /\ a[k] = v[k]
      BY <1>1, <1>3, <3>1 DEF IsSums
    <3>3. F[k] = f[k] /\ F[k - 1] = f[k - 1]
      BY <2>1, <3>1
    <3>4. QED
      BY <3>2, <3>3
  <2>2. CASE k > m
    <3>1. /\ k - m \in 1 .. n - m /\ b[k - m] = v[k]
          /\ h[k - m] = h[(k - m) - 1] + b[k - m]
      <4>1. k - m \in 1 .. n - m /\ m + (k - m) = k
        BY <2>2
      <4>2. QED
        BY <1>2, <1>4, <4>1 DEF IsSums
    <3>2. v[k] \in Nat /\ f[m] \in Nat /\ h[k - m] \in Nat
          /\ h[(k - m) - 1] \in Nat
      <4>1. /\ k - m \in 0 .. n - m /\ (k - m) - 1 \in 0 .. n - m
            /\ m \in 0 .. m
        BY <3>1
      <4>2. v[k] \in Nat
        OBVIOUS
      <4>3. f[m] \in Nat /\ h[k - m] \in Nat /\ h[(k - m) - 1] \in Nat
        BY <1>5, <4>1
      <4>4. QED
        BY <4>2, <4>3
    <3>3. F[k] = f[m] + h[k - m]
      BY <2>2
    <3>4. F[k - 1] = f[m] + h[(k - m) - 1]
      <4>1. CASE k - 1 = m
        <5>1. F[k - 1] = f[m] /\ (k - m) - 1 = 0
          BY <4>1
        <5>2. h[(k - m) - 1] = 0
          BY <1>4, <5>1 DEF IsSums
        <5>3. QED
          BY <3>2, <5>1, <5>2
      <4>2. CASE k - 1 > m
        <5>1. (k - 1) - m = (k - m) - 1
          OBVIOUS
        <5>2. QED
          BY <4>2, <5>1
      <4>3. QED
        BY <2>2, <4>1, <4>2
    <3>5. F[k] = f[m] + (h[(k - m) - 1] + v[k])
      BY <3>1, <3>3
    <3>6. QED
      <4> HIDE DEF F
      <4>1. QED
        BY <3>2, <3>4, <3>5
  <2>3. QED
    BY <2>1, <2>2
<1>8. F[0] = 0
  BY <1>3 DEF IsSums
<1>9. IsSums(F, v)
  BY <1>6, <1>7, <1>8 DEF IsSums
<1>10. F[n] = f[m] + h[n - m]
  <2>1. CASE n = m
    <3>1. F[n] = f[m] /\ h[n - m] = 0
      BY <1>4, <2>1 DEF IsSums
    <3>2. QED
      BY <1>5, <3>1
  <2>2. CASE n > m
    BY <2>2
  <2>3. QED
    BY <2>1, <2>2
<1>11. SumOf(a) = f[m] /\ SumOf(b) = h[n - m] /\ SumOf(v) = F[n]
  <2> HIDE DEF F
  <2>1. QED
    BY <1>1, <1>2, <1>3, <1>4, <1>9, SumOfIs
<1>12. QED
  BY <1>10, <1>11 DEF a, b

LEMMA SumZero ==
    ASSUME NEW v \in Seq(Nat), \A k \in 1 .. Len(v) : v[k] = 0
    PROVE  SumOf(v) = 0
<1> DEFINE z == [n \in 0 .. Len(v) |-> 0]
<1>1. IsSums(z, v)
  BY DEF IsSums
<1>2. SumOf(v) = z[Len(v)] /\ Len(v) \in 0 .. Len(v)
  BY <1>1, SumOfIs
<1>3. QED
  BY <1>2

LEMMA SumSingle == ASSUME NEW x \in Nat PROVE SumOf(<<x>>) = x
<1> DEFINE z == [n \in 0 .. 1 |-> IF n = 0 THEN 0 ELSE x]
<1>1. /\ <<x>> \in Seq(Nat) /\ Len(<<x>>) = 1 /\ <<x>>[1] = x
  OBVIOUS
<1>2. z \in [0 .. 1 -> Nat] /\ z[0] = 0 /\ z[1] = x /\ 1 .. 1 = {1}
  OBVIOUS
<1>3. IsSums(z, <<x>>)
  BY <1>1, <1>2 DEF IsSums
<1>4. SumOf(<<x>>) = z[1]
  BY <1>1, <1>3, SumOfIs
<1>5. QED
  BY <1>2, <1>4

LEMMA SumLast ==
    ASSUME NEW v \in Seq(Nat), Len(v) > 0
    PROVE  SumOf(v) = SumOf(SubSeq(v, 1, Len(v) - 1)) + v[Len(v)]
<1> DEFINE n == Len(v)
<1>1. n - 1 \in 0 .. n /\ (n - 1) + 1 = n /\ v[n] \in Nat
  OBVIOUS
<1>2. SumOf(v) = SumOf(SubSeq(v, 1, n - 1)) + SumOf(SubSeq(v, n, n))
  <2>1. SumOf(v) = SumOf(SubSeq(v, 1, n - 1)) + SumOf(SubSeq(v, (n - 1) + 1, n))
    BY <1>1, SumSplit
  <2>2. QED
    BY <1>1, <2>1
<1>3. SubSeq(v, n, n) = <<v[n]>>
  <2>1. /\ SubSeq(v, n, n) \in Seq(Nat) /\ Len(SubSeq(v, n, n)) = 1
        /\ SubSeq(v, n, n)[1] = v[n]
    BY <1>1
  <2>2. <<v[n]>> \in Seq(Nat) /\ Len(<<v[n]>>) = 1 /\ <<v[n]>>[1] = v[n]
    BY <1>1
  <2>3. \A k \in 1 .. 1 : SubSeq(v, n, n)[k] = <<v[n]>>[k]
    BY <2>1, <2>2
  <2>4. QED
    BY <2>1, <2>2, <2>3, SeqEqual
<1>4. SumOf(<<v[n]>>) = v[n]
  BY <1>1, SumSingle
<1>5. QED
  BY <1>2, <1>3, <1>4

-----------------------------------------------------------------------------
(***************************************************************************)
(* The window of trades.                                                   *)
(***************************************************************************)

LEMMA ValType ==
    ASSUME NEW points \in Seq(Point)
    PROVE  /\ Val(points) \in Seq(Nat) /\ Len(Val(points)) = Len(points)
           /\ \A k \in 1 .. Len(points) : Val(points)[k] = points[k].val
<1>1. \A k \in 1 .. Len(points) : points[k].val \in Nat
  <2>1. \A k \in 1 .. Len(points) : points[k] \in Point
    OBVIOUS
  <2>2. QED
    BY <2>1 DEF Point
<1>2. Val(points) = [k \in 1 .. Len(points) |-> points[k].val]
  BY DEF Val
<1>3. Len(points) \in Nat
  OBVIOUS
<1>4. QED
  BY <1>1, <1>2, <1>3

\* The values of a part are that part of the values.
LEMMA ValPart ==
    ASSUME NEW points \in Seq(Point), NEW m \in 0 .. Len(points)
    PROVE  /\ SubSeq(points, 1, m) \in Seq(Point)
           /\ SubSeq(points, m + 1, Len(points)) \in Seq(Point)
           /\ Val(SubSeq(points, 1, m)) = SubSeq(Val(points), 1, m)
           /\ Val(SubSeq(points, m + 1, Len(points))) =
                 SubSeq(Val(points), m + 1, Len(points))
<1> DEFINE v == Val(points)
           n == Len(points)
           a == SubSeq(points, 1, m)
           b == SubSeq(points, m + 1, n)
<1>1. v \in Seq(Nat) /\ Len(v) = n /\ \A k \in 1 .. n : v[k] = points[k].val
  BY ValType
<1> HIDE DEF v
<1>2. /\ a \in Seq(Point) /\ Len(a) = m /\ \A k \in 1 .. m : a[k] = points[k]
      /\ SubSeq(v, 1, m) \in Seq(Nat) /\ Len(SubSeq(v, 1, m)) = m
      /\ \A k \in 1 .. m : SubSeq(v, 1, m)[k] = v[k]
  BY <1>1
<1>3. /\ b \in Seq(Point) /\ Len(b) = n - m
      /\ \A k \in 1 .. n - m : b[k] = points[m + k]
      /\ SubSeq(v, m + 1, n) \in Seq(Nat) /\ Len(SubSeq(v, m + 1, n)) = n - m
      /\ \A k \in 1 .. n - m : SubSeq(v, m + 1, n)[k] = v[m + k]
  <2>1. CASE m = n
    BY <1>1, <2>1
  <2>2. CASE m < n
    BY <1>1, <2>2
  <2>3. QED
    BY <2>1, <2>2
<1> HIDE DEF a, b
<1>4. Val(a) = SubSeq(v, 1, m)
  <2>1. Val(a) \in Seq(Nat) /\ Len(Val(a)) = m /\ \A k \in 1 .. m : Val(a)[k] = a[k].val
    BY <1>2, ValType
  <2>2. \A k \in 1 .. m : Val(a)[k] = SubSeq(v, 1, m)[k]
    BY <1>1, <1>2, <2>1
  <2>3. QED
    BY <1>2, <2>1, <2>2, SeqEqual
<1>5. Val(b) = SubSeq(v, m + 1, n)
  <2>1. /\ Val(b) \in Seq(Nat) /\ Len(Val(b)) = n - m
        /\ \A k \in 1 .. n - m : Val(b)[k] = b[k].val
    BY <1>3, ValType
  <2>2. \A k \in 1 .. n - m : m + k \in 1 .. n
    OBVIOUS
  <2>3. \A k \in 1 .. n - m : Val(b)[k] = SubSeq(v, m + 1, n)[k]
    BY <1>1, <1>3, <2>1, <2>2
  <2>4. QED
    BY <1>3, <2>1, <2>3, SeqEqual
<1>6. QED
  BY <1>2, <1>3, <1>4, <1>5 DEF a, b, v

\* The first points expire, up to the first one that is recent; the last one,
\* which was just added, always is.
LEMMA ExpiredPoints ==
    ASSUME now \in Nat, Window \in Nat, NEW points \in Seq(Point),
           Len(points) > 0, points[Len(points)].ts = now
    PROVE  /\ Expired(points) \in 0 .. Len(points) - 1
           /\ \A k \in 1 .. Expired(points) : points[k].ts + Window < now
           /\ points[Expired(points) + 1].ts + Window >= now
<1> DEFINE Is(n) == /\ \A k \in 1 .. n : points[k].ts + Window < now
                    /\ n < Len(points) => points[n + 1].ts + Window >= now
           T == {k \in 1 .. Len(points) : points[k].ts + Window >= now}
<1>1. \A k \in 1 .. Len(points) : points[k].ts \in Nat
  <2>1. \A k \in 1 .. Len(points) : points[k] \in Point
    OBVIOUS
  <2>2. QED
    BY <2>1, EngineAssumption DEF Point
<1>2. Len(points) \in T
  OBVIOUS
<1>3. PICK m \in T : \A k \in T : m <= k
  <2>1. T \in SUBSET Nat /\ T # {}
    BY <1>2
  <2> HIDE DEF T
  <2>2. QED
    BY <2>1, Least
<1>4. \E n \in 0 .. Len(points) : Is(n)
  <2>1. m - 1 \in 0 .. Len(points) /\ (m - 1) + 1 = m
    BY <1>3
  <2>2. ASSUME NEW k \in 1 .. m - 1 PROVE points[k].ts + Window < now
    <3>1. k \in 1 .. Len(points) /\ ~(m <= k)
      BY <1>3
    <3>2. ~(points[k].ts + Window >= now)
      BY <1>3, <3>1
    <3>3. points[k].ts + Window \in Nat
      BY <1>1, <3>1
    <3>4. QED
      BY <3>2, <3>3
  <2>3. points[(m - 1) + 1].ts + Window >= now
    BY <1>3, <2>1
  <2>4. Is(m - 1)
    BY <2>2, <2>3
  <2>5. QED
    BY <2>1, <2>4
<1>5. Expired(points) \in 0 .. Len(points) /\ Is(Expired(points))
  <2>1. Expired(points) = CHOOSE n \in 0 .. Len(points) : Is(n)
    BY DEF Expired
  <2> HIDE DEF Is
  <2>2. QED
    BY <1>4, <2>1
<1>6. Expired(points) # Len(points)
  <2> SUFFICES ASSUME Expired(points) = Len(points) PROVE FALSE
    OBVIOUS
  <2>1. points[Len(points)].ts + Window < now
    BY <1>5
  <2>2. QED
    BY <2>1
<1>7. QED
  BY <1>5, <1>6

\* What a trade makes of a state whose volume is the sum of its points.
LEMMA TradedState ==
    ASSUME now \in 0 .. MaxTime, NEW s \in State, NEW t \in Trade,
           s.volume = SumOf(Val(s.points)),
           NEW all, all = Append(s.points, [ts |-> now, val |-> t.price * t.size])
    PROVE  /\ all \in Seq(Point) /\ Len(all) = Len(s.points) + 1
           /\ all[Len(all)] = [ts |-> now, val |-> t.price * t.size]
           /\ \A k \in 1 .. Len(s.points) : all[k] = s.points[k]
           /\ Traded(s, t) \in State
           /\ Traded(s, t).volume = SumOf(Val(Traded(s, t).points))
           /\ \E n \in 0 .. Len(all) - 1 :
                 /\ Traded(s, t).points = SubSeq(all, n + 1, Len(all))
                 /\ \A k \in 1 .. n : all[k].ts + Window < now
                 /\ all[n + 1].ts + Window >= now
<1> DEFINE val == t.price * t.size
           L == Len(s.points)
           n == Expired(all)
           kept == SubSeq(all, n + 1, Len(all))
           gone == SubSeq(all, 1, n)
<1>1. /\ s.points \in Seq(Point) /\ L \in Nat /\ s.bid \in Nat /\ s.ask \in Nat
      /\ s = [bid |-> s.bid, ask |-> s.ask, last |-> s.last,
              volume |-> s.volume, points |-> s.points]
  BY DEF State
<1>2. val \in Nat /\ t.price \in Nat
  <2>1. t.price \in Nat /\ t.size \in Nat
    BY DEF Trade
  <2>2. QED
    BY <2>1
<1>3. [ts |-> now, val |-> val] \in Point
  BY <1>2 DEF Point
<1>4. /\ all \in Seq(Point) /\ Len(all) = L + 1
      /\ all[L + 1] = [ts |-> now, val |-> val]
      /\ \A k \in 1 .. L : all[k] = s.points[k]
  BY <1>1, <1>3
<1>5. now \in Nat /\ Window \in Nat
  BY EngineAssumption
<1>6. /\ n \in 0 .. L
      /\ \A k \in 1 .. n : all[k].ts + Window < now
      /\ all[n + 1].ts + Window >= now
  <2>1. Len(all) > 0 /\ all[Len(all)].ts = now
    BY <1>1, <1>4
  <2>2. /\ n \in 0 .. Len(all) - 1
        /\ \A k \in 1 .. n : all[k].ts + Window < now
        /\ all[n + 1].ts + Window >= now
    BY <1>4, <1>5, <2>1, ExpiredPoints
  <2> HIDE DEF n
  <2>3. QED
    BY <1>1, <1>4, <2>2
<1>7. SumOf(Val(all)) = s.volume + val
  <2> DEFINE v == Val(all)
             u == Val(s.points)
  <2>1. /\ v \in Seq(Nat) /\ Len(v) = L + 1
        /\ \A k \in 1 .. L + 1 : v[k] = all[k].val
    BY <1>4, ValType
  <2>2. /\ u \in Seq(Nat) /\ Len(u) = L
        /\ \A k \in 1 .. L : u[k] = s.points[k].val
    BY <1>1, ValType
  <2>3. v[L + 1] = val
    <3>1. L + 1 \in 1 .. L + 1
      BY <1>1
    <3>2. v[L + 1] = all[L + 1].val /\ all[L + 1] = [ts |-> now, val |-> val]
      BY <1>4, <2>1, <3>1
    <3>3. QED
      BY <3>2
  <2>4. \A k \in 1 .. L : v[k] = u[k]
    BY <1>1, <1>4, <2>1, <2>2
  <2> HIDE DEF u, v, val, L
  <2>5. SubSeq(v, 1, L) = u
    <3>1. L \in Nat /\ \A k \in 1 .. L : v[k] \in Nat
      BY <1>1, <2>1
    <3>2. /\ SubSeq(v, 1, L) \in Seq(Nat) /\ Len(SubSeq(v, 1, L)) = L
          /\ \A k \in 1 .. L : SubSeq(v, 1, L)[k] = v[k]
      BY <3>1
    <3>3. QED
      BY <2>2, <2>4, <3>2, SeqEqual
  <2>6. SumOf(v) = SumOf(SubSeq(v, 1, L)) + v[L + 1]
    <3>1. Len(v) > 0 /\ Len(v) - 1 = L
      BY <1>1, <2>1
    <3>2. QED
      BY <2>1, <3>1, SumLast
  <2>7. QED
    BY <2>3, <2>5, <2>6 DEF u, v
<1>8. /\ kept \in Seq(Point) /\ gone \in Seq(Point)
      /\ SumOf(Val(all)) = SumOf(Val(gone)) + SumOf(Val(kept))
      /\ SumOf(Val(gone)) \in Nat /\ SumOf(Val(kept)) \in Nat
  <2>1. Val(all) \in Seq(Nat) /\ Len(Val(all)) = Len(all)
    BY <1>4, ValType
  <2>2. n \in 0 .. Len(all)
    <3> HIDE DEF n
    <3>1. QED
      BY <1>1, <1>4, <1>6
  <2> HIDE DEF n
  <2>3. /\ kept \in Seq(Point) /\ gone \in Seq(Point)
        /\ Val(gone) = SubSeq(Val(all), 1, n)
        /\ Val(kept) = SubSeq(Val(all), n + 1, Len(all))
    BY <1>4, <2>2, ValPart
  <2> HIDE DEF kept, gone
  <2>4. SumOf(Val(all)) = SumOf(Val(gone)) + SumOf(Val(kept))
    BY <2>1, <2>2, <2>3, SumSplit
  <2>5. SumOf(Val(gone)) \in Nat /\ SumOf(Val(kept)) \in Nat
    BY <2>3, ValType, SumType
  <2>6. QED
    BY <2>3, <2>4, <2>5
<1>9. Traded(s, t) = [bid |-> s.bid, ask |-> s.ask, last |-> t.price,
                      volume |-> s.volume + val - SumOf(Val(gone)),
                      points |-> kept]
  <2>1. Traded(s, t) = [s EXCEPT !.last = t.price, !.points = kept,
                          !.volume = s.volume + val - SumOf(Val(gone))]
    BY DEF Traded
  <2> HIDE DEF kept, gone, val
  <2>2. QED
    BY <1>1, <2>1
<1>10. s.volume + val - SumOf(Val(gone)) = SumOf(Val(kept))
  <2>1. s.volume \in Nat
    BY DEF State
  <2>2. ASSUME NEW x \in Nat, NEW y \in Nat, NEW g \in Nat, NEW k \in Nat,
               x + y = g + k
        PROVE  x + y - g = k
    BY <2>2
  <2> HIDE DEF kept, gone, val
  <2>3. QED
    BY <1>2, <1>7, <1>8, <2>1, <2>2
<1>11. Traded(s, t) \in State /\ Traded(s, t).points = kept
       /\ Traded(s, t).volume = SumOf(Val(kept))
  <2> HIDE DEF kept, gone, val
  <2>1. QED
    BY <1>1, <1>2, <1>8, <1>9, <1>10 DEF State
<1>12. n \in 0 .. Len(all) - 1
  BY <1>1, <1>4, <1>6
<1>13. QED
  <2> HIDE DEF n
  <2>1. QED
    BY <1>4, <1>6, <1>11, <1>12

\* Adding a point to the kept points is adding it to all of them.
LEMMA KeptGrows ==
    ASSUME NEW h \in Seq(Point), NEW p \in Point, NEW m \in 0 .. Len(h)
    PROVE  LET all == Append(SubSeq(h, m + 1, Len(h)), p)
               g == Append(h, p)
           IN /\ g \in Seq(Point) /\ Len(g) = Len(h) + 1 /\ g[Len(h) + 1] = p
              /\ \A k \in 1 .. Len(h) : g[k] = h[k]
              /\ all \in Seq(Point) /\ Len(all) = Len(g) - m
              /\ \A k \in 1 .. Len(all) : all[k] = g[m + k]
<1> DEFINE kept == SubSeq(h, m + 1, Len(h))
           l == Len(h)
           all == Append(kept, p)
           g == Append(h, p)
<1>1. /\ l \in Nat /\ g \in Seq(Point) /\ Len(g) = l + 1 /\ g[l + 1] = p
      /\ \A k \in 1 .. l : g[k] = h[k]
  OBVIOUS
<1>2. /\ kept \in Seq(Point) /\ Len(kept) = l - m
      /\ \A k \in 1 .. l - m : kept[k] = h[m + k]
  <2>1. CASE m = l
    BY <2>1
  <2>2. CASE m < l
    BY <2>2
  <2>3. QED
    BY <2>1, <2>2
<1> HIDE DEF kept, g
<1>3. /\ all \in Seq(Point) /\ Len(all) = (l - m) + 1
      /\ all[(l - m) + 1] = p
      /\ \A k \in 1 .. l - m : all[k] = kept[k]
  BY <1>2
<1> HIDE DEF all, l
<1>4. m \in 0 .. l
  BY DEF l
<1>5. ASSUME NEW k \in 1 .. (l - m) + 1 PROVE all[k] = g[m + k]
  <2>1. CASE k = (l - m) + 1
    BY <1>1, <1>3, <1>4, <2>1
  <2>2. CASE k # (l - m) + 1
    <3>1. k \in 1 .. l - m /\ m + k \in 1 .. l
      BY <1>1, <1>4, <2>2
    <3>2. QED
      BY <1>1, <1>2, <1>3, <3>1
  <2>3. QED
    BY <2>1, <2>2
<1>6. (l - m) + 1 = Len(g) - m
  BY <1>1, <1>4
<1>7. QED
  BY <1>1, <1>3, <1>5, <1>6 DEF all, g, kept, l

\* The points that are kept stay the latest trades: g are the trades, the last
\* of them just now, all but the first m of them are kept, and q more expire.
NewTrade(g, n, m) ==
    /\ g \in Seq(Point) /\ n \in Nat \ {0} /\ n = Len(g)
    /\ now \in Nat /\ g[n].ts = now
    /\ \A k \in 1 .. n : g[k].ts <= now
    /\ \A k \in 1 .. n - 1 : \A j \in 1 .. k : g[j].ts <= g[k].ts
    /\ m \in 0 .. n - 1
    /\ \A k \in 1 .. m : ~(g[n - 1].ts <= g[k].ts + Window)

Expiry(g, m, all, q) ==
    /\ all \in Seq(Point) /\ Len(all) = Len(g) - m
    /\ \A k \in 1 .. Len(all) : all[k] = g[m + k]
    /\ q \in 0 .. Len(all) - 1
    /\ \A k \in 1 .. q : all[k].ts + Window < now
    /\ all[q + 1].ts + Window >= now

\* h are the trades of a market in the order of the clock, and points those of
\* the window, all but the first m.
IsWindow(h, points, m) ==
    LET n == Len(h)
    IN /\ \A k \in 1 .. n : h[k].ts <= now
       /\ \A k \in 1 .. n : \A j \in 1 .. k : h[j].ts <= h[k].ts
       /\ m \in 0 .. n
       /\ points = SubSeq(h, m + 1, n)
       /\ \A k \in 1 .. m : ~(h[n].ts <= h[k].ts + Window)
       /\ \A k \in m + 1 .. n : h[n].ts <= h[k].ts + Window

LEMMA WindowGrows ==
    ASSUME NEW g, NEW n, NEW m, NewTrade(g, n, m),
           NEW all, NEW q, Expiry(g, m, all, q)
    PROVE  IsWindow(g, SubSeq(all, q + 1, Len(all)), m + q)
<1>0. USE DEF NewTrade, Expiry
<1>1. Window \in Nat /\ \A k \in 1 .. n : g[k].ts \in Nat
  <2>1. \A k \in 1 .. n : g[k] \in Point
    OBVIOUS
  <2>2. QED
    BY <2>1, EngineAssumption DEF Point
<1>2. m + q \in 0 .. n - 1 /\ q + 1 \in 1 .. n - m /\ m + (q + 1) = m + q + 1
  OBVIOUS
<1>3. ASSUME NEW k \in 1 .. n, NEW j \in 1 .. k PROVE g[j].ts <= g[k].ts
  <2>1. CASE k = n
    BY <2>1
  <2>2. CASE k # n
    <3>1. k \in 1 .. n - 1
      BY <2>2
    <3>2. QED
      BY <3>1
  <2>3. QED
    BY <2>1, <2>2
<1>4. SubSeq(all, q + 1, Len(all)) = SubSeq(g, m + q + 1, n)
  <2>1. /\ SubSeq(all, q + 1, n - m) \in Seq(Point)
        /\ Len(SubSeq(all, q + 1, n - m)) = n - m - q
        /\ \A k \in 1 .. n - m - q : SubSeq(all, q + 1, n - m)[k] = all[q + k]
    BY <1>2
  <2>2. /\ SubSeq(g, m + q + 1, n) \in Seq(Point)
        /\ Len(SubSeq(g, m + q + 1, n)) = n - m - q
        /\ \A k \in 1 .. n - m - q : SubSeq(g, m + q + 1, n)[k] = g[m + q + k]
    BY <1>2
  <2>3. \A k \in 1 .. n - m - q : q + k \in 1 .. n - m /\ m + (q + k) = m + q + k
    BY <1>2
  <2>4. \A k \in 1 .. n - m - q :
           SubSeq(all, q + 1, n - m)[k] = SubSeq(g, m + q + 1, n)[k]
    BY <2>1, <2>2, <2>3
  <2>5. SubSeq(all, q + 1, n - m) = SubSeq(g, m + q + 1, n)
    <3> DEFINE a == SubSeq(all, q + 1, n - m)
               b == SubSeq(g, m + q + 1, n)
    <3>1. /\ a \in Seq(Point) /\ b \in Seq(Point) /\ Len(a) = Len(b)
          /\ \A k \in 1 .. Len(a) : a[k] = b[k]
      BY <2>1, <2>2, <2>4
    <3> HIDE DEF a, b
    <3>2. a = b
      BY <3>1, SeqEqual
    <3>3. QED
      BY <3>2 DEF a, b
  <2>6. QED
    BY <2>5
<1>5. ASSUME NEW k \in 1 .. m + q PROVE ~(g[n].ts <= g[k].ts + Window)
  <2>1. k \in 1 .. n /\ g[k].ts \in Nat
    BY <1>1, <1>2
  <2>2. CASE k <= m
    <3>1. k \in 1 .. m /\ n - 1 \in 1 .. n
      BY <2>2
    <3>2. ~(g[n - 1].ts <= g[k].ts + Window) /\ g[n - 1].ts <= now
      BY <3>1
    <3>3. g[n - 1].ts \in Nat /\ g[n].ts = now
      BY <1>1, <3>1
    <3>4. ASSUME NEW x \in Nat, NEW y \in Nat, NEW z \in Nat, ~(y <= x), y <= z
          PROVE  ~(z <= x)
      BY <3>4
    <3>5. g[k].ts + Window \in Nat
      BY <1>1, <2>1
    <3>6. ~(now <= g[k].ts + Window)
      BY <3>2, <3>3, <3>4, <3>5
    <3>7. QED
      BY <3>3, <3>6
  <2>3. CASE k > m
    <3>1. k - m \in 1 .. q /\ k - m \in 1 .. n - m /\ m + (k - m) = k
      BY <1>2, <2>3
    <3>2. g[k].ts + Window < now
      BY <3>1
    <3>3. QED
      BY <1>1, <2>1, <3>2
  <2>4. QED
    BY <2>2, <2>3
<1>6. ASSUME NEW k \in m + q + 1 .. n PROVE g[n].ts <= g[k].ts + Window
  <2>1. m + (q + 1) \in 1 .. k /\ m + (q + 1) \in 1 .. n /\ k \in 1 .. n
    BY <1>2
  <2>2. g[m + (q + 1)].ts + Window >= now
    BY <1>2
  <2>3. g[m + (q + 1)].ts <= g[k].ts
    BY <1>3, <2>1
  <2>4. g[m + (q + 1)].ts \in Nat /\ g[k].ts \in Nat
    BY <1>1, <2>1
  <2>5. QED
    BY <1>1, <2>2, <2>3, <2>4
<1>7. QED
  BY <1>2, <1>3, <1>4, <1>5, <1>6 DEF IsWindow

\* A step that leaves trades, points and volumes alone.
LEMMA WindowFrame ==
    ASSUME WindowInv, now \in Nat, now' \in Nat, now <= now', UNCHANGED traded,
           \A i \in Ids : /\ states'[i].volume = states[i].volume
                          /\ states'[i].points = states[i].points,
           traded \in [Ids -> Seq(Point)]
    PROVE  WindowInv'
<1> SUFFICES ASSUME NEW i \in Ids
             PROVE  LET n == Len(traded[i])
                    IN \A k \in 1 .. n : traded[i][k].ts <= now'
  BY DEF WindowInv, Recent
<1> DEFINE n == Len(traded[i])
<1>1. \A k \in 1 .. n : traded[i][k].ts <= now
  BY DEF WindowInv
<1>2. ASSUME NEW k \in 1 .. n PROVE traded[i][k].ts <= now'
  <2>1. traded[i][k] \in Point
    OBVIOUS
  <2>2. traded[i][k].ts \in Nat
    BY <2>1, EngineAssumption DEF Point
  <2>3. QED
    BY <1>1, <2>2
<1>3. QED
  BY <1>2

\* A trade keeps the volume of its market the sum of the window.
LEMMA WindowTrade ==
    ASSUME TypeOK, WindowInv, NEW i \in Ids, NEW t \in Trades, OnTrade(i, t)
    PROVE  Traded(states[i], t) \in State /\ WindowInv'
<1> DEFINE s == states[i]
           h == traded[i]
           p == [ts |-> now, val |-> t.price * t.size]
           all == Append(s.points, p)
           g == Append(h, p)
<1>1. /\ s \in State /\ t \in Trade /\ now \in 0 .. MaxTime /\ now \in Nat
      /\ h \in Seq(Point) /\ p \in Point
  <2>1. t \in Trade /\ now \in 0 .. MaxTime /\ now \in Nat
    BY EngineAssumption DEF TypeOK
  <2>2. t.price * t.size \in Nat
    <3>1. t.price \in Nat /\ t.size \in Nat
      BY <2>1 DEF Trade
    <3>2. QED
      BY <3>1
  <2>3. QED
    BY <2>1, <2>2 DEF TypeOK, Point
<1>2. /\ s.volume = SumOf(Val(s.points))
      /\ \A k \in 1 .. Len(h) : h[k].ts <= now
      /\ \A k \in 1 .. Len(h) : \A j \in 1 .. k : h[j].ts <= h[k].ts
  BY DEF WindowInv
<1>3. PICK m \in 0 .. Len(h) :
         /\ s.points = SubSeq(h, m + 1, Len(h))
         /\ \A k \in 1 .. m : ~(h[Len(h)].ts <= h[k].ts + Window)
  BY DEF WindowInv, Recent
<1>4. PICK x : x = Traded(s, t)
  OBVIOUS
<1>5. PICK q \in 0 .. Len(all) - 1 :
         /\ x.points = SubSeq(all, q + 1, Len(all))
         /\ \A k \in 1 .. q : all[k].ts + Window < now
         /\ all[q + 1].ts + Window >= now
  BY <1>1, <1>2, <1>4, TradedState
<1>6. x \in State /\ x.volume = SumOf(Val(x.points))
  BY <1>1, <1>2, <1>4, TradedState
<1>7. /\ states' = [states EXCEPT ![i] = x] /\ traded' = [traded EXCEPT ![i] = g]
      /\ now' = now
  BY <1>4 DEF OnTrade, ChangeState, runVars
<1>8. /\ g \in Seq(Point) /\ Len(g) = Len(h) + 1 /\ g[Len(h) + 1] = p
      /\ \A k \in 1 .. Len(h) : g[k] = h[k]
      /\ all \in Seq(Point) /\ Len(all) = Len(g) - m
      /\ \A k \in 1 .. Len(all) : all[k] = g[m + k]
  <2>1. all = Append(SubSeq(h, m + 1, Len(h)), p)
    BY <1>3
  <2> HIDE DEF h, s, p, all
  <2>2. QED
    BY <1>1, <2>1, KeptGrows
<1> DEFINE n == Len(h) + 1
<1>9. NewTrade(g, n, m)
  <2> HIDE DEF g, all, h, s, p
  <2>1. Len(h) \in Nat /\ p.ts = now /\ n \in Nat \ {0} /\ m \in 0 .. n - 1
    BY <1>1 DEF p
  <2>2. ASSUME NEW k \in 1 .. n PROVE g[k].ts <= now
    <3>1. CASE k = n
      BY <1>1, <1>8, <2>1, <3>1
    <3>2. CASE k # n
      <4>1. k \in 1 .. Len(h)
        BY <2>1, <3>2
      <4>2. QED
        BY <1>2, <1>8, <4>1
    <3>3. QED
      BY <3>1, <3>2
  <2>3. ASSUME NEW k \in 1 .. n - 1, NEW j \in 1 .. k PROVE g[j].ts <= g[k].ts
    <3>1. k \in 1 .. Len(h) /\ j \in 1 .. Len(h)
      BY <2>1
    <3>2. QED
      BY <1>2, <1>8, <3>1
  <2>4. ASSUME NEW k \in 1 .. m PROVE ~(g[n - 1].ts <= g[k].ts + Window)
    <3>1. k \in 1 .. Len(h) /\ n - 1 \in 1 .. Len(h) /\ n - 1 = Len(h)
      BY <2>1
    <3>2. QED
      BY <1>3, <1>8, <3>1
  <2>5. g[n].ts = now
    BY <1>8, <2>1
  <2>6. QED
    BY <1>1, <1>8, <2>1, <2>2, <2>3, <2>4, <2>5 DEF NewTrade
<1>10. Expiry(g, m, all, q)
  <2> HIDE DEF g, all, h, s, p
  <2>1. QED
    BY <1>5, <1>8 DEF Expiry
<1>11. IsWindow(g, x.points, m + q)
  <2> HIDE DEF g, all, h, s, p, n
  <2>1. QED
    BY <1>5, <1>9, <1>10, WindowGrows
<1>12. /\ states'[i] = x /\ traded'[i] = g
       /\ \A j \in Ids \ {i} : states'[j] = states[j] /\ traded'[j] = traded[j]
  BY <1>7 DEF TypeOK
<1>13. ASSUME NEW j \in Ids
       PROVE  /\ states'[j].volume = SumOf(Val(states'[j].points))
              /\ \E b : IsWindow(traded'[j], states'[j].points, b)
  <2>1. CASE j = i
    <3> HIDE DEF g, h, s, p, all
    <3>1. QED
      BY <1>6, <1>11, <1>12, <2>1
  <2>2. CASE j # i
    <3>1. states'[j] = states[j] /\ traded'[j] = traded[j]
      BY <1>12, <2>2
    <3>2. \E b : IsWindow(traded[j], states[j].points, b)
      BY DEF WindowInv, Recent, IsWindow
    <3>3. states[j].volume = SumOf(Val(states[j].points))
      BY DEF WindowInv
    <3>4. QED
      BY <3>1, <3>2, <3>3
  <2>3. QED
    BY <2>1, <2>2
<1>14. WindowInv'
  <2> SUFFICES ASSUME NEW j \in Ids
               PROVE  LET l == Len(traded'[j])
                      IN /\ states'[j].volume = SumOf(Val(states'[j].points))
                         /\ \A k \in 1 .. l : traded'[j][k].ts <= now'
                         /\ \A k \in 1 .. l : \A b \in 1 .. k : traded'[j][b].ts <= traded'[j][k].ts
                         /\ \E b \in 0 .. l :
                               /\ states'[j].points = SubSeq(traded'[j], b + 1, l)
                               /\ \A k \in 1 .. b : ~(traded'[j][l].ts <= traded'[j][k].ts + Window)
                               /\ \A k \in b + 1 .. l : traded'[j][l].ts <= traded'[j][k].ts + Window
    BY DEF WindowInv, Recent
  <2>1. PICK b : IsWindow(traded'[j], states'[j].points, b)
    BY <1>13
  <2>2. QED
    BY <1>7, <1>13, <2>1 DEF IsWindow
<1>15. QED
  BY <1>4, <1>6, <1>14

-----------------------------------------------------------------------------
(***************************************************************************)
(* The price engine alone, fed with any updates in any order.              *)
(***************************************************************************)

LEMMA NoStateType == NoState \in State /\ NoState.volume = SumOf(Val(NoState.points))
<1>1. <<>> \in Seq(Point) /\ <<>> \in Seq(Nat) /\ Len(<<>>) = 0
  BY EmptySeq
<1>2. Val(<<>>) \in Seq(Nat) /\ Len(Val(<<>>)) = 0
  BY <1>1, ValType
<1>3. SumOf(Val(<<>>)) = 0
  BY <1>2, SumZero
<1>4. QED
  BY <1>1, <1>3 DEF NoState, State

\* Before the first trade the window is empty.
LEMMA NoWindow ==
    /\ Len(<<>>) = 0 /\ 0 \in 0 .. 0 /\ 0 + 1 = 1
    /\ NoState.points = SubSeq(<<>>, 1, 0)
    /\ 1 .. 0 = {}
<1>1. NoState.points = <<>>
  BY DEF NoState
<1>2. SubSeq(<<>>, 1, 0) = <<>>
  OBVIOUS
<1>3. QED
  BY <1>1, <1>2

LEMMA EngineInit == Init => TypeOK /\ WindowInv /\ StoreInv /\ PricesAreSnapshots
<1> SUFFICES ASSUME Init PROVE TypeOK /\ WindowInv /\ StoreInv /\ PricesAreSnapshots
  OBVIOUS
<1>1. TypeOK
  <2>1. <<>> \in Seq(Point)
    OBVIOUS
  <2>2. QED
    BY <2>1, NoStateType, EngineAssumption
       DEF Init, TypeOK, NoStates, Idle, Nobody
<1>2. WindowInv
  <2>1. \A i \in Ids : states[i] = NoState /\ traded[i] = <<>>
    BY DEF Init, NoStates
  <2>2. QED
    BY <2>1, NoStateType, NoWindow DEF WindowInv
<1>3. StoreInv /\ PricesAreSnapshots
  BY DEF Init, StoreInv, PricesAreSnapshots, Idle, Nobody
<1>4. QED
  BY <1>1, <1>2, <1>3

\* A goroutine changes a state to one of the right type.
LEMMA ChangeType ==
    ASSUME TypeOK, NEW g \in Goroutine, NEW i \in Ids, NEW t \in Tokens,
           NEW s \in State, ChangeState(g, i, t, s)
    PROVE  /\ states' \in [Ids -> State]
           /\ job' \in [Goroutine -> PriceUpdate \union {None}]
           /\ past' \in [Ids -> SUBSET QuoteType]
           /\ changer' \in [Ids -> Goroutine \union {None}]
<1>1. Quote(s) \in QuoteType
  BY DEF Quote, QuoteType, State
<1>2. Copy(i, t, s) \in PriceUpdate
  BY <1>1 DEF Copy, PriceUpdate
<1>3. QED
  BY <1>1, <1>2 DEF ChangeState, TypeOK

LEMMA TypeStep == TypeOK /\ WindowInv /\ [Next]_vars => TypeOK' /\ WindowInv'
<1> SUFFICES ASSUME TypeOK, WindowInv, [Next]_vars PROVE TypeOK' /\ WindowInv'
  OBVIOUS
<1>0. /\ now \in Nat /\ now \in 0 .. MaxTime /\ MaxTime \in Nat /\ MaxStarts \in Nat
      /\ MaxUpdates \in Nat /\ MaxTrades \in Nat
      /\ traded \in [Ids -> Seq(Point)]
  BY EngineAssumption DEF TypeOK
<1>1. ASSUME NEW i \in Ids, NEW t \in Trades, OnTrade(i, t)
      PROVE  TypeOK' /\ WindowInv'
  <2>1. Traded(states[i], t) \in State /\ WindowInv'
    BY <1>1, WindowTrade
  <2>2. t \in Trade /\ t.token \in Tokens
    BY EngineAssumption DEF Trade
  <2>3. /\ states' \in [Ids -> State]
        /\ job' \in [Goroutine -> PriceUpdate \union {None}]
        /\ past' \in [Ids -> SUBSET QuoteType]
        /\ changer' \in [Ids -> Goroutine \union {None}]
    BY <1>1, <2>1, <2>2, ChangeType DEF OnTrade, Goroutine
  <2>4. traded' \in [Ids -> Seq(Point)]
    <3>1. t.price * t.size \in Nat
      <4>1. t.price \in Nat /\ t.size \in Nat
        BY <2>2 DEF Trade
      <4>2. QED
        BY <4>1
    <3>2. [ts |-> now, val |-> t.price * t.size] \in Point
      BY <1>0, <3>1 DEF Point
    <3>3. Append(traded[i], [ts |-> now, val |-> t.price * t.size]) \in Seq(Point)
      BY <1>0, <3>2
    <3>4. QED
      BY <1>0, <1>1, <3>3 DEF OnTrade
  <2>5. /\ trades' \in 0 .. MaxTrades
        /\ UNCHANGED <<priceKey, books, now, starts, writer>>
    BY <1>0, <1>1 DEF OnTrade, TypeOK, runVars
  <2>6. QED
    BY <2>1, <2>3, <2>4, <2>5 DEF TypeOK
<1>2. ASSUME NEW i \in Ids, NEW u \in Updates, OnBook(i, u)
      PROVE  TypeOK' /\ WindowInv'
  <2> DEFINE s == [states[i] EXCEPT !.bid = u.bid, !.ask = u.ask]
  <2>1. u \in OrderbookUpdate /\ states[i] \in State
    BY EngineAssumption DEF TypeOK
  <2>2. s \in State /\ s.volume = states[i].volume /\ s.points = states[i].points
    BY <2>1 DEF State, OrderbookUpdate
  <2>3. /\ books' \in 0 .. MaxUpdates
        /\ UNCHANGED <<priceKey, trades, now, starts, traded, writer>>
    BY <1>0, <1>2 DEF OnBook, TypeOK, runVars
  <2>4. CASE ChangeState("books", i, u.token, s)
    <3>1. /\ states' \in [Ids -> State]
          /\ job' \in [Goroutine -> PriceUpdate \union {None}]
          /\ past' \in [Ids -> SUBSET QuoteType]
          /\ changer' \in [Ids -> Goroutine \union {None}]
      BY <2>1, <2>2, <2>4, ChangeType DEF OrderbookUpdate, Goroutine
    <3>2. \A j \in Ids : /\ states'[j].volume = states[j].volume
                         /\ states'[j].points = states[j].points
      BY <2>2, <2>4 DEF ChangeState, TypeOK
    <3>3. WindowInv'
      BY <1>0, <2>3, <3>2, WindowFrame
    <3>4. QED
      BY <2>3, <3>1, <3>3 DEF TypeOK
  <2>5. CASE UNCHANGED <<states, job, past, changer>>
    <3>1. WindowInv'
      BY <1>0, <2>3, <2>5, WindowFrame
    <3>2. QED
      BY <2>3, <2>5, <3>1 DEF TypeOK
  <2>6. QED
    BY <1>2, <2>4, <2>5 DEF OnBook
<1>3. ASSUME NEW g \in Goroutine, Store(g) PROVE TypeOK' /\ WindowInv'
  <2>1. job[g] \in PriceUpdate /\ job[g].id \in Ids
    BY <1>3 DEF Store, TypeOK, PriceUpdate
  <2>2. UNCHANGED <<states, books, trades, now, starts, traded, past, changer>>
    BY <1>3 DEF Store, runVars
  <2>3. WindowInv'
    BY <1>0, <2>2, WindowFrame
  <2>4. QED
    BY <1>3, <2>1, <2>2, <2>3 DEF Store, TypeOK
<1>4. CASE Tick
  <2>1. /\ now' = now + 1 /\ now' \in 0 .. MaxTime
        /\ UNCHANGED <<states, job, books, trades, starts, traded, past, changer,
                       writer>>
    BY <1>0, <1>4 DEF Tick
  <2>2. WindowInv'
    BY <1>0, <2>1, WindowFrame
  <2>3. priceKey' \in [Ids -> PriceUpdate \union {None}]
    BY <1>4 DEF Tick, TypeOK
  <2>4. QED
    BY <2>1, <2>2, <2>3 DEF TypeOK
<1>5. CASE Restart
  <2>1. TypeOK'
    <3>1. <<>> \in Seq(Point)
      OBVIOUS
    <3>2. QED
      BY <1>0, <1>5, <3>1, NoStateType DEF Restart, TypeOK, NoStates, Idle, Nobody
  <2>2. WindowInv'
    <3>1. \A i \in Ids : states'[i] = NoState /\ traded'[i] = <<>>
      BY <1>5 DEF Restart, NoStates
    <3>2. QED
      BY <3>1, NoStateType, NoWindow DEF WindowInv
  <2>3. QED
    BY <2>1, <2>2
<1>6. CASE UNCHANGED vars
  BY <1>0, <1>6, WindowFrame DEF vars, TypeOK
<1>7. QED
  BY <1>1, <1>2, <1>3, <1>4, <1>5, <1>6 DEF Next

\* Every state in the price engine has its type; in particular the running
\* volume never becomes negative while expired trades are subtracted
\* (main.go 291-294).
THEOREM EngineTypes == Spec => []TypeOK
<1>1. Init => TypeOK /\ WindowInv
  BY EngineInit
<1>2. QED
  BY <1>1, TypeStep, PTL DEF Spec

\* The volume of a market is that of its trades of the last Window before the
\* latest one: none counted twice, kept too long or lost when several expire at
\* one trade (main.go 284-295).
THEOREM VolumeOfWindow == Spec => []VolumeIsWindow
<1>1. Init => TypeOK /\ WindowInv
  BY EngineInit
<1>2. TypeOK /\ WindowInv => VolumeIsWindow
  <2> SUFFICES ASSUME TypeOK, WindowInv, NEW i \in Ids, Len(traded[i]) > 0
               PROVE  states[i].volume =
                         SumOf([k \in 1 .. Len(traded[i]) |->
                                  IF Recent(i, k) THEN traded[i][k].val ELSE 0])
    BY DEF VolumeIsWindow
  <2> DEFINE h == traded[i]
             n == Len(h)
             w == [k \in 1 .. n |-> IF Recent(i, k) THEN h[k].val ELSE 0]
             v == Val(h)
  <2>1. h \in Seq(Point) /\ n \in Nat
    BY DEF TypeOK
  <2>2. PICK m \in 0 .. n :
           /\ states[i].points = SubSeq(h, m + 1, n)
           /\ \A k \in 1 .. m : ~Recent(i, k)
           /\ \A k \in m + 1 .. n : Recent(i, k)
    BY DEF WindowInv
  <2>3. states[i].volume = SumOf(SubSeq(v, m + 1, n))
    <3> HIDE DEF h
    <3>1. Val(SubSeq(h, m + 1, n)) = SubSeq(v, m + 1, n)
      BY <2>1, ValPart
    <3>2. states[i].volume = SumOf(Val(states[i].points))
      BY DEF WindowInv
    <3>3. QED
      BY <2>2, <3>1, <3>2
  <2>4. v \in Seq(Nat) /\ Len(v) = n /\ \A k \in 1 .. n : v[k] = h[k].val
    BY <2>1, ValType
  <2>5. w \in Seq(Nat) /\ Len(w) = n
    <3>1. \A k \in 1 .. n : (IF Recent(i, k) THEN h[k].val ELSE 0) \in Nat
      BY <2>4
    <3>2. QED
      BY <2>1, <3>1
  <2>6. /\ \A k \in 1 .. m : w[k] = 0
        /\ \A k \in m + 1 .. n : w[k] = v[k]
    BY <2>1, <2>2, <2>4
  <2> HIDE DEF h, w, v, n
  <2>7. SumOf(w) = SumOf(SubSeq(w, 1, m)) + SumOf(SubSeq(w, m + 1, n))
    BY <2>5, SumSplit
  <2>8. SumOf(SubSeq(w, 1, m)) = 0
    <3>1. /\ SubSeq(w, 1, m) \in Seq(Nat) /\ Len(SubSeq(w, 1, m)) = m
          /\ \A k \in 1 .. m : SubSeq(w, 1, m)[k] = w[k]
      BY <2>1, <2>5
    <3>2. QED
      BY <2>6, <3>1, SumZero
  <2>9. SubSeq(w, m + 1, n) = SubSeq(v, m + 1, n)
    <3> DEFINE a == SubSeq(w, m + 1, n)
               b == SubSeq(v, m + 1, n)
    <3>1. /\ a \in Seq(Nat) /\ Len(a) = n - m
          /\ \A k \in 1 .. n - m : a[k] = w[m + k]
      <4>1. CASE m = n
        BY <2>1, <2>5, <4>1
      <4>2. CASE m < n
        BY <2>1, <2>5, <4>2
      <4>3. QED
        BY <2>1, <4>1, <4>2
    <3>2. /\ b \in Seq(Nat) /\ Len(b) = n - m
          /\ \A k \in 1 .. n - m : b[k] = v[m + k]
      <4>1. CASE m = n
        BY <2>1, <2>4, <4>1
      <4>2. CASE m < n
        BY <2>1, <2>4, <4>2
      <4>3. QED
        BY <2>1, <4>1, <4>2
    <3> HIDE DEF a, b
    <3>3. \A k \in 1 .. n - m : a[k] = b[k]
      BY <2>1, <2>6, <3>1, <3>2
    <3>4. a = b
      BY <3>1, <3>2, <3>3, SeqEqual
    <3>5. QED
      BY <3>4 DEF a, b
  <2>10. SumOf(SubSeq(w, m + 1, n)) \in Nat
    <3>1. SubSeq(w, m + 1, n) \in Seq(Nat)
      BY <2>1, <2>5
    <3>2. QED
      BY <3>1, SumType
  <2>11. SumOf(w) = states[i].volume
    <3>1. SumOf(w) = SumOf(SubSeq(w, m + 1, n))
      BY <2>7, <2>8, <2>10
    <3>2. QED
      BY <2>3, <2>9, <3>1
  <2>12. QED
    BY <2>11 DEF w, h, n
<1>3. QED
  BY <1>1, <1>2, TypeStep, PTL DEF Spec

LEMMA SnapshotStep == TypeOK /\ PricesAreSnapshots /\ [Next]_vars => PricesAreSnapshots'
<1> SUFFICES ASSUME TypeOK, PricesAreSnapshots, [Next]_vars PROVE PricesAreSnapshots'
  OBVIOUS
<1>1. ASSUME /\ \A i \in Ids : past[i] \subseteq past'[i]
             /\ \A u \in {job'[g] : g \in Goroutine} \union {priceKey'[i] : i \in Ids} :
                   \/ u \in {job[g] : g \in Goroutine} \union {priceKey[i] : i \in Ids} \union {None}
                   \/ u.quote \in past'[u.id]
      PROVE  PricesAreSnapshots'
  <2> SUFFICES ASSUME NEW u \in {job'[g] : g \in Goroutine} \union {priceKey'[i] : i \in Ids},
                      u # None
               PROVE  u.quote \in past'[u.id]
    BY DEF PricesAreSnapshots
  <2>1. CASE u \in {job[g] : g \in Goroutine} \union {priceKey[i] : i \in Ids}
    <3>1. u.quote \in past[u.id] /\ u.id \in Ids
      BY <2>1 DEF PricesAreSnapshots, TypeOK, PriceUpdate
    <3>2. QED
      BY <1>1, <3>1
  <2>2. QED
    BY <1>1, <2>1
<1>2. ASSUME NEW g \in Goroutine, NEW i \in Ids, NEW t, NEW s,
             ChangeState(g, i, t, s), priceKey' = priceKey
      PROVE  PricesAreSnapshots'
  <2>1. /\ job' = [job EXCEPT ![g] = Copy(i, t, s)]
        /\ past' = [past EXCEPT ![i] = @ \union {Quote(s)}]
    BY <1>2 DEF ChangeState
  <2>2. Copy(i, t, s).quote = Quote(s) /\ Copy(i, t, s).id = i
    BY DEF Copy
  <2>3. \A j \in Ids : past[j] \subseteq past'[j]
    BY <2>1 DEF TypeOK
  <2>4. Quote(s) \in past'[i]
    BY <2>1 DEF TypeOK
  <2>5. \A f \in Goroutine : job'[f] \in {job[f], Copy(i, t, s)}
    BY <2>1 DEF TypeOK
  <2>6. QED
    BY <1>1, <1>2, <2>2, <2>3, <2>4, <2>5
<1>3. ASSUME NEW i \in Ids, NEW t \in Trades, OnTrade(i, t)
      PROVE  PricesAreSnapshots'
  BY <1>2, <1>3 DEF OnTrade, Goroutine
<1>4. ASSUME NEW i \in Ids, NEW u \in Updates, OnBook(i, u)
      PROVE  PricesAreSnapshots'
  <2>1. CASE UNCHANGED <<job, past>>
    BY <1>1, <1>4, <2>1 DEF OnBook
  <2>2. QED
    BY <1>2, <1>4, <2>1 DEF OnBook, Goroutine
<1>5. ASSUME NEW g \in Goroutine, Store(g) PROVE PricesAreSnapshots'
  <2>1. /\ past' = past
        /\ \A f \in Goroutine : job'[f] \in {job[f], None}
        /\ \A i \in Ids : priceKey'[i] \in {priceKey[i], job[g]}
    BY <1>5 DEF Store, TypeOK
  <2>2. QED
    BY <1>1, <2>1
<1>6. CASE Tick \/ Restart
  <2>1. /\ past' = past
        /\ \A f \in Goroutine : job'[f] \in {job[f], None}
        /\ \A i \in Ids : priceKey'[i] \in {priceKey[i], None}
    BY <1>6 DEF Tick, Restart, Idle
  <2>2. QED
    BY <1>1, <2>1
<1>7. CASE UNCHANGED vars
  BY <1>1, <1>7 DEF vars
<1>8. QED
  BY <1>3, <1>4, <1>5, <1>6, <1>7 DEF Next

\* What is published or stored is what the state was at one moment, never the
\* bid of one book with the ask of another (main.go 283-298, 344-353).
THEOREM Snapshots == Spec => []PricesAreSnapshots
<1>1. QED
  BY EngineInit, EngineTypes, SnapshotStep, PTL DEF Spec

LEMMA StoreStep == TypeOK /\ WindowInv /\ StoreInv /\ [Next]_vars => StoreInv'
<1> SUFFICES ASSUME TypeOK, WindowInv, StoreInv, [Next]_vars PROVE StoreInv'
  OBVIOUS
<1> USE NoneAssumption
<1>1. ASSUME NEW g \in Goroutine, NEW i \in Ids, NEW t \in Tokens, NEW s \in State,
             ChangeState(g, i, t, s), job[g] = None, UNCHANGED <<priceKey, writer>>
      PROVE  StoreInv'
  <2> DEFINE c == Copy(i, t, s)
  <2>1. c # None /\ c.id = i /\ c.quote = Quote(s)
    <3>1. Quote(s) \in QuoteType
      BY DEF Quote, QuoteType, State
    <3>2. c \in PriceUpdate /\ c.id = i /\ c.quote = Quote(s)
      BY <3>1 DEF Copy, PriceUpdate
    <3>3. QED
      BY <3>2
  <2> HIDE DEF c
  <2>2. /\ states'[i] = s /\ \A j \in Ids \ {i} : states'[j] = states[j]
        /\ job'[g] = c /\ \A f \in Goroutine \ {g} : job'[f] = job[f]
        /\ changer'[i] = g /\ \A j \in Ids \ {i} : changer'[j] = changer[j]
    BY <1>1 DEF ChangeState, TypeOK, c
  <2> SUFFICES ASSUME NEW j \in Ids, changer'[j] # None
               PROVE  LET f == changer'[j]
                          Holds == job'[f] # None /\ job'[f].id = j
                      IN /\ Holds => job'[f].quote = Quote(states'[j])
                         /\ ~Holds /\ writer'[j] = f /\ priceKey'[j] # None =>
                               priceKey'[j].quote = Quote(states'[j])
    BY DEF StoreInv, Quote
  <2>3. CASE j = i
    BY <2>1, <2>2, <2>3
  <2>4. CASE j # i
    <3>1. changer'[j] = changer[j] /\ states'[j] = states[j] /\ changer[j] \in Goroutine
      BY <2>2, <2>4 DEF TypeOK
    <3>2. CASE changer[j] = g
      BY <1>1, <2>1, <2>2, <2>4, <3>1, <3>2 DEF StoreInv
    <3>3. CASE changer[j] # g
      BY <1>1, <2>2, <2>4, <3>1, <3>3 DEF StoreInv
    <3>4. QED
      BY <3>2, <3>3
  <2>5. QED
    BY <2>3, <2>4
<1>2. ASSUME NEW i \in Ids, NEW t \in Trades, OnTrade(i, t)
      PROVE  StoreInv'
  <2>1. Traded(states[i], t) \in State
    BY <1>2, WindowTrade
  <2>2. QED
    BY <1>1, <1>2, <2>1, EngineAssumption DEF OnTrade, Goroutine, Trade
<1>3. ASSUME NEW i \in Ids, NEW u \in Updates, OnBook(i, u)
      PROVE  StoreInv'
  <2>1. [states[i] EXCEPT !.bid = u.bid, !.ask = u.ask] \in State /\ u.token \in Tokens
    BY EngineAssumption DEF TypeOK, State, OrderbookUpdate
  <2>2. CASE UNCHANGED <<states, job, past, changer>>
    BY <1>3, <2>2 DEF OnBook, StoreInv, Quote
  <2>3. QED
    BY <1>1, <1>3, <2>1, <2>2 DEF OnBook, Goroutine
<1>4. ASSUME NEW g \in Goroutine, Store(g) PROVE StoreInv'
  <2> DEFINE k == job[g].id
  <2>1. /\ k \in Ids /\ job[g] # None /\ job'[g] = None
        /\ \A f \in Goroutine \ {g} : job'[f] = job[f]
        /\ UNCHANGED <<states, changer>>
    BY <1>4 DEF Store, TypeOK, PriceUpdate
  <2>2. \/ priceKey'[k] = job[g] /\ writer'[k] = g
        \/ writer'[k] = None
    BY <1>4, <2>1 DEF Store, TypeOK
  <2>3. \A j \in Ids \ {k} : priceKey'[j] = priceKey[j] /\ writer'[j] = writer[j]
    BY <1>4, <2>1 DEF Store, TypeOK
  <2> SUFFICES ASSUME NEW j \in Ids, changer[j] # None
               PROVE  LET f == changer[j]
                          Holds == job'[f] # None /\ job'[f].id = j
                      IN /\ Holds => job'[f].quote = Quote(states[j])
                         /\ ~Holds /\ writer'[j] = f /\ priceKey'[j] # None =>
                               priceKey'[j].quote = Quote(states[j])
    BY <2>1 DEF StoreInv, Quote
  <2>4. changer[j] \in Goroutine
    BY DEF TypeOK
  <2>5. CASE j = k
    <3>1. CASE changer[j] = g
      BY <2>1, <2>2, <2>5, <3>1 DEF StoreInv
    <3>2. CASE changer[j] # g
      BY <2>1, <2>2, <2>4, <2>5, <3>2 DEF StoreInv
    <3>3. QED
      BY <3>1, <3>2
  <2>6. CASE j # k
    <3>1. CASE changer[j] = g
      BY <2>1, <2>3, <2>6, <3>1 DEF StoreInv
    <3>2. CASE changer[j] # g
      BY <2>1, <2>3, <2>4, <2>6, <3>2 DEF StoreInv
    <3>3. QED
      BY <3>1, <3>2
  <2>7. QED
    BY <2>5, <2>6
<1>5. CASE Tick
  <2>1. /\ UNCHANGED <<states, job, changer, writer>>
        /\ \A i \in Ids : priceKey'[i] \in {priceKey[i], None}
    BY <1>5 DEF Tick
  <2>2. QED
    BY <2>1 DEF StoreInv, Quote
<1>6. CASE Restart
  BY <1>6 DEF Restart, Nobody, StoreInv
<1>7. CASE UNCHANGED vars
  BY <1>7 DEF vars, StoreInv, Quote
<1>8. QED
  BY <1>2, <1>3, <1>4, <1>5, <1>6, <1>7 DEF Next

\* A price in Redis is stale only if it was overtaken between the unlock and
\* the store: the one kind of staleness the two goroutines can cause
\* (main.go 298-320, 353-369).
THEOREM StaleIsOvertaken == Spec => []StaleOnlyIfOvertaken
<1>1. Init => TypeOK /\ WindowInv /\ StoreInv
  BY EngineInit
<1>2. TypeOK /\ StoreInv => StaleOnlyIfOvertaken
  BY DEF TypeOK, StoreInv, StaleOnlyIfOvertaken
<1>3. QED
  BY <1>1, <1>2, TypeStep, StoreStep, PTL DEF Spec

-----------------------------------------------------------------------------
(***************************************************************************)
(* The sides of a book.                                                    *)
(***************************************************************************)

\* Sets are counted in the instance as they are here.
LEMMA SameCount ==
    ASSUME NEW S
    PROVE  /\ Book!IsFiniteSet(S) <=> IsFiniteSet(S)
           /\ Book!Cardinality(S) = Cardinality(S)
BY Zenon DEF Book!IsFiniteSet, IsFiniteSet, Book!Cardinality, Cardinality

\* r is side s with level l.
IsWith(s, l, r) == Book!IsSide(s) /\ l \in Book!Level /\ r = Book!WithLevel(s, l)

\* What that makes of it.
HasLevel(s, l, r) ==
    /\ Book!IsSide(r)
    /\ l.size = 0 => DOMAIN r = DOMAIN s \ {l.price}
    /\ l.size # 0 => DOMAIN r = DOMAIN s \union {l.price} /\ r[l.price] = l.size
    /\ \A p \in DOMAIN s \ {l.price} : r[p] = s[p]

LEMMA WithLevelIs ==
    ASSUME NEW s, NEW l, NEW r, IsWith(s, l, r) PROVE HasLevel(s, l, r)
<1> DEFINE D == IF l.size = 0 THEN DOMAIN s \ {l.price} ELSE DOMAIN s \union {l.price}
<1>1. r = [p \in D |-> IF p = l.price THEN l.size ELSE s[p]]
  BY DEF IsWith, Book!WithLevel
<1>2. l.price \in Book!Price /\ l.size \in Nat
  BY DEF IsWith, Book!Level
<1>3. IsFiniteSet(DOMAIN s) /\ DOMAIN s \subseteq Book!Price /\ s \in [DOMAIN s -> Nat \ {0}]
  BY SameCount DEF IsWith, Book!IsSide
<1>4. IsFiniteSet(D)
  BY <1>3, FS_AddElement, FS_RemoveElement
<1>5. Book!IsSide(r)
  BY <1>1, <1>2, <1>3, <1>4, SameCount DEF Book!IsSide
<1>6. QED
  BY <1>1, <1>5 DEF HasLevel

\* f solves the recursion of Applied for the first m levels.
IsStages(f, s, lv, m) ==
    f = [n \in 0 .. m |-> IF n = 0 THEN s ELSE Book!WithLevel(f[n - 1], lv[n])]

LEMMA StagesExist ==
    ASSUME NEW s, NEW lv \in Seq(Book!Level)
    PROVE  \E f : IsStages(f, s, lv, Len(lv))
<1> DEFINE T == {m \in Nat : \E f : IsStages(f, s, lv, m)}
<1>1. 0 \in T
  <2> DEFINE f == [n \in 0 .. 0 |-> s]
  <2>1. IsStages(f, s, lv, 0)
    BY DEF IsStages
  <2>2. QED
    BY <2>1
<1>2. ASSUME NEW m \in Nat, m \in T PROVE m + 1 \in T
  <2>1. PICK f : IsStages(f, s, lv, m)
    BY <1>2
  <2> DEFINE g == [n \in 0 .. m + 1 |->
                     IF n = m + 1 THEN Book!WithLevel(f[m], lv[m + 1]) ELSE f[n]]
  <2>2. ASSUME NEW n \in 0 .. m + 1
        PROVE  g[n] = IF n = 0 THEN s ELSE Book!WithLevel(g[n - 1], lv[n])
    <3>1. CASE n = m + 1
      <4>1. g[n] = Book!WithLevel(f[m], lv[m + 1]) /\ g[n - 1] = f[m]
        BY <3>1
      <4>2. QED
        BY <3>1, <4>1
    <3>2. CASE n \in 1 .. m
      <4>1. g[n] = f[n] /\ g[n - 1] = f[n - 1]
        BY <3>2
      <4>2. f[n] = Book!WithLevel(f[n - 1], lv[n])
        BY <2>1, <3>2 DEF IsStages
      <4>3. QED
        BY <3>2, <4>1, <4>2
    <3>3. CASE n = 0
      BY <2>1, <3>3 DEF IsStages
    <3>4. QED
      BY <3>1, <3>2, <3>3
  <2>3. IsStages(g, s, lv, m + 1)
    <3>1. g = [n \in 0 .. m + 1 |-> g[n]]
      OBVIOUS
    <3> HIDE DEF g
    <3>2. QED
      BY <2>2, <3>1 DEF IsStages
  <2>4. QED
    <3> HIDE DEF g
    <3>1. QED
      BY <2>3
<1>3. Len(lv) \in T
  <2> HIDE DEF T
  <2>1. Nat \subseteq T
    BY <1>1, <1>2, Induct
  <2>2. QED
    BY <2>1
<1>4. QED
  BY <1>3

\* r is s with the first n levels applied: each price has the size it was last
\* given, zero for absent.
IsApplied(s, lv, n, r) ==
    LET Last(j) == \A k \in j + 1 .. n : lv[k].price # lv[j].price
        Untold(p) == \A j \in 1 .. n : lv[j].price # p
    IN /\ Book!IsSide(r)
       /\ \A p \in DOMAIN r :
             \/ \E j \in 1 .. n : lv[j].price = p /\ lv[j].size = r[p] /\ Last(j)
             \/ p \in DOMAIN s /\ r[p] = s[p] /\ Untold(p)
       /\ \A j \in 1 .. n : lv[j].size > 0 /\ Last(j) => lv[j].price \in DOMAIN r
       /\ \A p \in DOMAIN s : Untold(p) => p \in DOMAIN r

LEMMA AppliedStep ==
    ASSUME NEW s, NEW lv \in Seq(Book!Level), NEW n \in Nat, n < Len(lv),
           NEW r, IsApplied(s, lv, n, r)
    PROVE  IsApplied(s, lv, n + 1, Book!WithLevel(r, lv[n + 1]))
<1> DEFINE l == lv[n + 1]
           q == Book!WithLevel(r, l)
<1>1. l \in Book!Level /\ Book!IsSide(r)
  BY DEF IsApplied
<1>2. /\ Book!IsSide(q)
      /\ l.size = 0 => DOMAIN q = DOMAIN r \ {l.price}
      /\ l.size # 0 => DOMAIN q = DOMAIN r \union {l.price} /\ q[l.price] = l.size
      /\ \A p \in DOMAIN r \ {l.price} : q[p] = r[p]
  <2>1. IsWith(r, l, q)
    BY <1>1 DEF IsWith
  <2>2. HasLevel(r, l, q)
    BY <2>1, WithLevelIs
  <2>3. QED
    BY <2>2 DEF HasLevel
<1>3. l.size \in Nat
  BY <1>1 DEF Book!Level
<1>4. ASSUME NEW p \in DOMAIN q
      PROVE  \/ \E j \in 1 .. n + 1 : /\ lv[j].price = p /\ lv[j].size = q[p]
                                      /\ \A k \in j + 1 .. n + 1 : lv[k].price # lv[j].price
             \/ p \in DOMAIN s /\ q[p] = s[p] /\ \A j \in 1 .. n + 1 : lv[j].price # p
  <2>1. CASE p = l.price
    <3>1. n + 1 \in 1 .. n + 1 /\ (n + 1) + 1 .. n + 1 = {}
      OBVIOUS
    <3>2. q[p] = l.size
      BY <1>2, <2>1
    <3>3. QED
      BY <2>1, <3>1, <3>2
  <2>2. CASE p # l.price
    <3>1. p \in DOMAIN r /\ q[p] = r[p]
      BY <1>2, <2>2
    <3>2. CASE \E j \in 1 .. n : /\ lv[j].price = p /\ lv[j].size = r[p]
                                 /\ \A k \in j + 1 .. n : lv[k].price # lv[j].price
      <4>1. PICK j \in 1 .. n : /\ lv[j].price = p /\ lv[j].size = r[p]
                                /\ \A k \in j + 1 .. n : lv[k].price # lv[j].price
        BY <3>2
      <4>2. \A k \in j + 1 .. n + 1 : k \in j + 1 .. n \/ k = n + 1
        OBVIOUS
      <4>3. \A k \in j + 1 .. n + 1 : lv[k].price # lv[j].price
        BY <2>2, <4>1, <4>2
      <4>4. QED
        BY <3>1, <4>1, <4>3
    <3>3. CASE p \in DOMAIN s /\ r[p] = s[p] /\ \A j \in 1 .. n : lv[j].price # p
      <4>1. \A j \in 1 .. n + 1 : j \in 1 .. n \/ j = n + 1
        OBVIOUS
      <4>2. QED
        BY <2>2, <3>1, <3>3, <4>1
    <3>4. QED
      BY <3>1, <3>2, <3>3 DEF IsApplied
  <2>3. QED
    BY <2>1, <2>2
<1>5. ASSUME NEW j \in 1 .. n + 1, lv[j].size > 0,
             \A k \in j + 1 .. n + 1 : lv[k].price # lv[j].price
      PROVE  lv[j].price \in DOMAIN q
  <2>1. CASE j = n + 1
    BY <1>2, <1>3, <1>5, <2>1
  <2>2. CASE j \in 1 .. n
    <3>1. n + 1 \in j + 1 .. n + 1 /\ \A k \in j + 1 .. n : k \in j + 1 .. n + 1
      BY <2>2
    <3>2. lv[j].price # l.price /\ \A k \in j + 1 .. n : lv[k].price # lv[j].price
      BY <1>5, <3>1
    <3>3. lv[j].price \in DOMAIN r
      BY <1>5, <2>2, <3>2 DEF IsApplied
    <3>4. QED
      BY <1>2, <3>2, <3>3
  <2>3. QED
    BY <2>1, <2>2
<1>6. ASSUME NEW p \in DOMAIN s, \A j \in 1 .. n + 1 : lv[j].price # p
      PROVE  p \in DOMAIN q
  <2>1. n + 1 \in 1 .. n + 1 /\ \A j \in 1 .. n : j \in 1 .. n + 1
    OBVIOUS
  <2>2. p # l.price /\ \A j \in 1 .. n : lv[j].price # p
    BY <1>6, <2>1
  <2>3. p \in DOMAIN r
    BY <2>2 DEF IsApplied
  <2>4. QED
    BY <1>2, <2>2, <2>3
<1>7. QED
  <2> HIDE DEF q
  <2>1. IsApplied(s, lv, n + 1, q)
    BY <1>2, <1>4, <1>5, <1>6 DEF IsApplied
  <2>2. QED
    BY <2>1 DEF q

LEMMA AppliedIs ==
    ASSUME NEW s, Book!IsSide(s), NEW lv \in Seq(Book!Level)
    PROVE  IsApplied(s, lv, Len(lv), Book!Applied(s, lv))
<1> DEFINE after == CHOOSE g : g = [n \in 0 .. Len(lv) |->
                                   IF n = 0 THEN s ELSE Book!WithLevel(g[n - 1], lv[n])]
<1>1. after = CHOOSE g : IsStages(g, s, lv, Len(lv))
  BY DEF IsStages
<1>2. IsStages(after, s, lv, Len(lv))
  <2> HIDE DEF after
  <2>1. QED
    BY <1>1, StagesExist
<1>3. after[0] = s /\ \A n \in 1 .. Len(lv) : after[n] = Book!WithLevel(after[n - 1], lv[n])
  <2> HIDE DEF after
  <2>1. QED
    BY <1>2 DEF IsStages
<1>4. Book!Applied(s, lv) = after[Len(lv)]
  BY DEF Book!Applied
<1> HIDE DEF after
<1> DEFINE T == {n \in Nat : n <= Len(lv) => IsApplied(s, lv, n, after[n])}
<1>5. 0 \in T
  BY <1>3 DEF IsApplied
<1>6. ASSUME NEW n \in Nat, n \in T PROVE n + 1 \in T
  <2> SUFFICES ASSUME n + 1 <= Len(lv) PROVE IsApplied(s, lv, n + 1, after[n + 1])
    OBVIOUS
  <2>1. IsApplied(s, lv, n, after[n]) /\ n < Len(lv)
    BY <1>6
  <2>2. after[n + 1] = Book!WithLevel(after[n], lv[n + 1])
    BY <1>3
  <2>3. QED
    BY <2>1, <2>2, AppliedStep
<1>7. Len(lv) \in T
  <2> HIDE DEF T
  <2>1. Nat \subseteq T
    BY <1>5, <1>6, Induct
  <2>2. QED
    BY <2>1
<1>8. QED
  BY <1>4, <1>7

-----------------------------------------------------------------------------
(***************************************************************************)
(* Books and the events they come from.                                    *)
(***************************************************************************)

\* Event k names a level in its place j, and no whole book came later.
Names(h, side, k, j) ==
    /\ k \in 1 .. Len(h) /\ j \in 1 .. Len(h[k][side])
    /\ h[k].kind # "change"
    /\ \A m \in k + 1 .. Len(h) : h[m].kind # "book"

\* It is the last one of its price.
NamesLast(h, side, k, j) ==
    /\ Names(h, side, k, j)
    /\ \A m \in Nat, n \in Nat :
          Names(h, side, m, n) /\ h[m][side][n].price = h[k][side][j].price =>
             m < k \/ (m = k /\ n <= j)

\* Replay, without a choice: s has the prices named last with a size.
IsReplay(s, h, side) ==
    /\ Book!IsSide(s)
    /\ \A p \in DOMAIN s : \E k \in Nat, j \in Nat :
          /\ NamesLast(h, side, k, j)
          /\ h[k][side][j].price = p /\ h[k][side][j].size = s[p]
    /\ \A k \in Nat, j \in Nat :
          NamesLast(h, side, k, j) /\ h[k][side][j].size > 0 =>
             h[k][side][j].price \in DOMAIN s

LEMMA SideLevels ==
    ASSUME NEW e \in Book!Event, NEW side \in {"bids", "asks"}
    PROVE  e[side] \in Seq(Book!Level)
<1>1. e.bids \in Seq(Book!Level) /\ e.asks \in Seq(Book!Level)
  BY DEF Book!Event
<1>2. CASE side = "bids"
  BY <1>1, <1>2
<1>3. CASE side = "asks"
  BY <1>1, <1>3
<1>4. QED
  BY <1>2, <1>3

LEMMA NamedIs ==
    ASSUME NEW h \in Seq(Book!Event), NEW side \in {"bids", "asks"}, NEW a
    PROVE  a \in Book!Named(h, side) <=>
             \E k \in Nat, j \in Nat : a = <<k, j>> /\ Names(h, side, k, j)
<1>1. ASSUME NEW k \in 1 .. Len(h) PROVE h[k][side] \in Seq(Book!Level)
  BY SideLevels
<1>2. ASSUME a \in Book!Named(h, side)
      PROVE  \E k \in Nat, j \in Nat : a = <<k, j>> /\ Names(h, side, k, j)
  <2>1. PICK k \in 1 .. Len(h) : a \in {k} \X (1 .. Len(h[k][side]))
    BY <1>2 DEF Book!Named
  <2>2. PICK j \in 1 .. Len(h[k][side]) : a = <<k, j>>
    BY <2>1
  <2>3. a[1] = k
    BY <2>2
  <2>4. h[k].kind # "change" /\ \A m \in k + 1 .. Len(h) : h[m].kind # "book"
    BY <1>2, <2>3 DEF Book!Named
  <2>5. j \in Nat
    BY <1>1, <2>2
  <2>6. QED
    BY <2>2, <2>4, <2>5 DEF Names
<1>3. ASSUME NEW k \in Nat, NEW j \in Nat, a = <<k, j>>, Names(h, side, k, j)
      PROVE  a \in Book!Named(h, side)
  <2>1. a \in {k} \X (1 .. Len(h[k][side])) /\ k \in 1 .. Len(h) /\ a[1] = k
    BY <1>3 DEF Names
  <2>2. a \in UNION {{m} \X (1 .. Len(h[m][side])) : m \in 1 .. Len(h)}
    BY <2>1
  <2>3. QED
    BY <1>3, <2>1, <2>2 DEF Book!Named, Names
<1>4. QED
  BY <1>2, <1>3

LEMMA ReplayIs ==
    ASSUME NEW h \in Seq(Book!Event), NEW side \in {"bids", "asks"},
           NEW s, IsReplay(s, h, side)
    PROVE  s = Book!Replay(h, side)
<1> DEFINE last == {a \in Book!Named(h, side) : Book!IsLast(h, side, a)}
           there == {a \in last : Book!LevelAt(h, side, a).size > 0}
           prices == {Book!LevelAt(h, side, a).price : a \in there}
           Of(p) == CHOOSE a \in last : Book!LevelAt(h, side, a).price = p
<1>1. ASSUME NEW k \in Nat, NEW j \in Nat
      PROVE  /\ Book!LevelAt(h, side, <<k, j>>) = h[k][side][j]
             /\ <<k, j>> \in last <=> NamesLast(h, side, k, j)
  <2>1. \A m \in Nat, n \in Nat : Book!LevelAt(h, side, <<m, n>>) = h[m][side][n]
    BY DEF Book!LevelAt
  <2>2. <<k, j>> \in Book!Named(h, side) <=> Names(h, side, k, j)
    BY NamedIs
  <2>3. ASSUME Book!IsLast(h, side, <<k, j>>), Names(h, side, k, j)
        PROVE  NamesLast(h, side, k, j)
    <3> SUFFICES ASSUME NEW m \in Nat, NEW n \in Nat, Names(h, side, m, n),
                        h[m][side][n].price = h[k][side][j].price
                 PROVE  m < k \/ (m = k /\ n <= j)
      BY <2>3 DEF NamesLast
    <3>1. <<m, n>> \in Book!Named(h, side)
      BY NamedIs
    <3>2. Book!LevelAt(h, side, <<m, n>>).price = Book!LevelAt(h, side, <<k, j>>).price
      BY <2>1
    <3>3. LET b == <<m, n>> a == <<k, j>>
          IN  b[1] < a[1] \/ (b[1] = a[1] /\ b[2] <= a[2])
      BY <2>3, <3>1, <3>2 DEF Book!IsLast
    <3>4. QED
      BY <3>3
  <2>4. ASSUME NamesLast(h, side, k, j)
        PROVE  Book!IsLast(h, side, <<k, j>>)
    <3> SUFFICES ASSUME NEW b \in Book!Named(h, side),
                        Book!LevelAt(h, side, b).price = Book!LevelAt(h, side, <<k, j>>).price
                 PROVE  b[1] < <<k, j>>[1] \/ (b[1] = <<k, j>>[1] /\ b[2] <= <<k, j>>[2])
      BY DEF Book!IsLast
    <3>1. PICK m \in Nat, n \in Nat : b = <<m, n>> /\ Names(h, side, m, n)
      BY NamedIs
    <3>2. h[m][side][n].price = h[k][side][j].price
      BY <2>1, <3>1
    <3>3. m < k \/ (m = k /\ n <= j)
      BY <2>4, <3>1, <3>2 DEF NamesLast
    <3>4. QED
      BY <3>1, <3>3
  <2>5. QED
    BY <2>1, <2>2, <2>3, <2>4 DEF NamesLast
<1>2. ASSUME NEW a \in last PROVE \E k \in Nat, j \in Nat : a = <<k, j>>
  BY NamedIs
<1>3. DOMAIN s = prices
  <2>1. ASSUME NEW p \in DOMAIN s PROVE p \in prices
    <3>1. PICK k \in Nat, j \in Nat :
             /\ NamesLast(h, side, k, j)
             /\ h[k][side][j].price = p /\ h[k][side][j].size = s[p]
      BY DEF IsReplay
    <3>2. s[p] > 0
      BY DEF IsReplay, Book!IsSide
    <3>3. <<k, j>> \in last /\ Book!LevelAt(h, side, <<k, j>>) = h[k][side][j]
      BY <1>1, <3>1
    <3> HIDE DEF last
    <3>4. QED
      BY <3>1, <3>2, <3>3
  <2>2. ASSUME NEW p \in prices PROVE p \in DOMAIN s
    <3>1. PICK a \in last : /\ Book!LevelAt(h, side, a).size > 0
                            /\ p = Book!LevelAt(h, side, a).price
      OBVIOUS
    <3>2. PICK k \in Nat, j \in Nat : a = <<k, j>>
      BY <1>2
    <3> HIDE DEF last
    <3>3. NamesLast(h, side, k, j) /\ Book!LevelAt(h, side, a) = h[k][side][j]
      BY <1>1, <3>1, <3>2
    <3>4. QED
      BY <3>1, <3>3 DEF IsReplay
  <2>3. QED
    BY <2>1, <2>2
<1>4. ASSUME NEW p \in DOMAIN s
      PROVE  s[p] = Book!LevelAt(h, side, Of(p)).size
  <2>1. PICK k \in Nat, j \in Nat :
           /\ NamesLast(h, side, k, j)
           /\ h[k][side][j].price = p /\ h[k][side][j].size = s[p]
    BY DEF IsReplay
  <2>2. <<k, j>> \in last /\ Book!LevelAt(h, side, <<k, j>>) = h[k][side][j]
    BY <1>1, <2>1
  <2>3. Of(p) \in last /\ Book!LevelAt(h, side, Of(p)).price = p
    <3> HIDE DEF last
    <3>1. QED
      BY <2>1, <2>2
  <2>4. PICK m \in Nat, n \in Nat : Of(p) = <<m, n>>
    <3> HIDE DEF last, Of
    <3>1. QED
      BY <1>2, <2>3
  <2> HIDE DEF last, Of
  <2>5. /\ NamesLast(h, side, m, n) /\ h[m][side][n].price = p
        /\ Book!LevelAt(h, side, Of(p)) = h[m][side][n]
    BY <1>1, <2>3, <2>4
  <2>6. Names(h, side, m, n) /\ Names(h, side, k, j)
    BY <2>1, <2>5 DEF NamesLast
  <2>7. (m < k \/ (m = k /\ n <= j)) /\ (k < m \/ (k = m /\ j <= n))
    BY <2>1, <2>5, <2>6 DEF NamesLast
  <2>8. m = k /\ n = j
    BY <2>7
  <2>9. QED
    BY <2>1, <2>5, <2>8
<1>5. Book!Replay(h, side) = [p \in prices |-> Book!LevelAt(h, side, Of(p)).size]
  BY DEF Book!Replay
<1>6. s = [p \in DOMAIN s |-> s[p]]
  BY DEF IsReplay, Book!IsSide
<1>7. QED
  <2> HIDE DEF last, prices, Of
  <2>1. QED
    BY <1>3, <1>4, <1>5, <1>6

\* g are the events h and one more.
IsMore(h, e, side, g) ==
    /\ h \in Seq(Book!Event) /\ e \in Book!Event /\ side \in {"bids", "asks"}
    /\ g = Append(h, e)

\* What they name in place j of event k.
NamesMore(h, e, side, g, k, j) ==
    /\ \A m \in 1 .. Len(h) : g[m] = h[m]
    /\ Names(g, side, k, j) <=>
          \/ k = Len(h) + 1 /\ e.kind # "change" /\ j \in 1 .. Len(e[side])
          \/ e.kind # "book" /\ Names(h, side, k, j)

LEMMA NamesNext ==
    ASSUME NEW h, NEW e, NEW side, NEW g, IsMore(h, e, side, g),
           NEW k \in Nat, NEW j \in Nat
    PROVE  NamesMore(h, e, side, g, k, j)
<1> DEFINE n == Len(h)
<1>1. /\ g \in Seq(Book!Event) /\ Len(g) = n + 1 /\ g[n + 1] = e /\ n \in Nat
      /\ \A m \in 1 .. n : g[m] = h[m]
  BY DEF IsMore
<1> HIDE DEF n
<1>2. CASE k \in 1 .. n
  <2>1. g[k] = h[k] /\ k # n + 1 /\ k \in 1 .. n + 1
    BY <1>1, <1>2
  <2>2. (\A m \in k + 1 .. n + 1 : g[m].kind # "book") <=>
           e.kind # "book" /\ \A m \in k + 1 .. n : h[m].kind # "book"
    <3>1. /\ n + 1 \in k + 1 .. n + 1
          /\ \A m \in k + 1 .. n : m \in k + 1 .. n + 1 /\ m \in 1 .. n
          /\ \A m \in k + 1 .. n + 1 : m \in k + 1 .. n \/ m = n + 1
      BY <1>1, <1>2
    <3>2. QED
      BY <1>1, <3>1
  <2>3. Names(g, side, k, j) <=> e.kind # "book" /\ Names(h, side, k, j)
    BY <1>1, <1>2, <2>1, <2>2 DEF Names, n
  <2>4. QED
    BY <1>1, <2>1, <2>3 DEF n, NamesMore
<1>3. CASE k = n + 1
  <2>1. g[k] = e /\ k \in 1 .. n + 1 /\ k \notin 1 .. n /\ k + 1 .. n + 1 = {}
    BY <1>1, <1>3
  <2>2. ~Names(h, side, k, j)
    BY <2>1 DEF Names, n
  <2>3. Names(g, side, k, j) <=> e.kind # "change" /\ j \in 1 .. Len(e[side])
    BY <1>1, <2>1 DEF Names
  <2>4. QED
    BY <1>1, <1>3, <2>2, <2>3 DEF n, NamesMore
<1>4. CASE k \notin 1 .. n + 1
  <2>1. k \notin 1 .. n /\ k # n + 1
    BY <1>1, <1>4
  <2>2. QED
    BY <1>1, <1>4, <2>1 DEF Names, n, NamesMore
<1>5. QED
  BY <1>1, <1>2, <1>3, <1>4 DEF NamesMore

LEMMA ReplayChange ==
    ASSUME NEW h \in Seq(Book!Event), NEW e \in Book!Event, e.kind = "change",
           NEW side \in {"bids", "asks"}, NEW s, IsReplay(s, h, side)
    PROVE  IsReplay(s, Append(h, e), side)
<1> DEFINE g == Append(h, e)
<1>1. ASSUME NEW k \in Nat, NEW j \in Nat
      PROVE  /\ Names(g, side, k, j) <=> Names(h, side, k, j)
             /\ Names(h, side, k, j) => g[k] = h[k]
  <2>1. /\ \A m \in 1 .. Len(h) : g[m] = h[m]
        /\ Names(g, side, k, j) <=>
              \/ k = Len(h) + 1 /\ e.kind # "change" /\ j \in 1 .. Len(e[side])
              \/ e.kind # "book" /\ Names(h, side, k, j)
    <3> HIDE DEF g
    <3>1. IsMore(h, e, side, g)
      BY DEF g, IsMore
    <3>2. NamesMore(h, e, side, g, k, j)
      BY <3>1, NamesNext
    <3>3. QED
      BY <3>2 DEF NamesMore
  <2>2. QED
    BY <2>1 DEF Names
<1> HIDE DEF g
<1>2. ASSUME NEW k \in Nat, NEW j \in Nat
      PROVE  /\ NamesLast(g, side, k, j) <=> NamesLast(h, side, k, j)
             /\ NamesLast(h, side, k, j) => g[k] = h[k]
  BY <1>1 DEF NamesLast
<1>3. ASSUME NEW p \in DOMAIN s
      PROVE  \E k \in Nat, j \in Nat : /\ NamesLast(g, side, k, j)
                                       /\ g[k][side][j].price = p
                                       /\ g[k][side][j].size = s[p]
  <2>1. PICK k \in Nat, j \in Nat : /\ NamesLast(h, side, k, j)
                                    /\ h[k][side][j].price = p
                                    /\ h[k][side][j].size = s[p]
    BY DEF IsReplay
  <2>2. NamesLast(g, side, k, j) /\ g[k] = h[k]
    BY <1>2, <2>1
  <2>3. QED
    BY <2>1, <2>2
<1>4. ASSUME NEW k \in Nat, NEW j \in Nat, NamesLast(g, side, k, j),
             g[k][side][j].size > 0
      PROVE  g[k][side][j].price \in DOMAIN s
  <2>1. NamesLast(h, side, k, j) /\ g[k] = h[k]
    BY <1>2, <1>4
  <2>2. QED
    BY <1>4, <2>1 DEF IsReplay
<1>5. IsReplay(s, g, side)
  BY <1>3, <1>4 DEF IsReplay
<1>6. QED
  BY <1>5 DEF g

\* A whole book is applied to an empty side, a change of levels to the side
\* there is.
LEMMA ReplayLevels ==
    ASSUME NEW h \in Seq(Book!Event), NEW e \in Book!Event,
           NEW side \in {"bids", "asks"}, NEW s, NEW q,
           \/ e.kind = "book" /\ DOMAIN s = {}
           \/ e.kind = "delta" /\ IsReplay(s, h, side),
           IsApplied(s, e[side], Len(e[side]), q)
    PROVE  IsReplay(q, Append(h, e), side)
<1> DEFINE g == Append(h, e)
           lv == e[side]
           n == Len(h)
           Delta == e.kind = "delta"
<1>1. /\ lv \in Seq(Book!Level) /\ Len(lv) \in Nat /\ n \in Nat
      /\ g[n + 1] = e /\ \A m \in 1 .. n : g[m] = h[m]
  BY SideLevels
<1>2. ASSUME NEW k \in Nat, NEW j \in Nat
      PROVE  /\ Names(g, side, k, j) <=>
                   (k = n + 1 /\ j \in 1 .. Len(lv)) \/ (Delta /\ Names(h, side, k, j))
             /\ Names(h, side, k, j) => k \in 1 .. n /\ g[k] = h[k] /\ k < n + 1
  <2>1. e.kind # "change" /\ (e.kind # "book" <=> Delta)
    BY DEF Book!Event
  <2>2. Names(h, side, k, j) => k \in 1 .. n
    BY DEF Names
  <2>3. Names(g, side, k, j) <=>
           \/ k = n + 1 /\ e.kind # "change" /\ j \in 1 .. Len(lv)
           \/ e.kind # "book" /\ Names(h, side, k, j)
    <3> HIDE DEF g
    <3>1. IsMore(h, e, side, g)
      BY DEF g, IsMore
    <3>2. NamesMore(h, e, side, g, k, j)
      BY <3>1, NamesNext
    <3>3. QED
      BY <3>2 DEF NamesMore
  <2> HIDE DEF g, n
  <2>4. \A m \in 1 .. n : m < n + 1
    BY <1>1
  <2>5. QED
    BY <1>1, <2>1, <2>2, <2>3, <2>4 DEF n
<1> HIDE DEF g, n
<1>3. ASSUME NEW j \in 1 .. Len(lv)
      PROVE  NamesLast(g, side, n + 1, j) <=>
                \A i \in j + 1 .. Len(lv) : lv[i].price # lv[j].price
  <2>1. Names(g, side, n + 1, j) /\ g[n + 1][side] = lv
    BY <1>1, <1>2
  <2>2. ASSUME NamesLast(g, side, n + 1, j), NEW i \in j + 1 .. Len(lv),
               lv[i].price = lv[j].price
        PROVE  FALSE
    <3>1. i \in 1 .. Len(lv) /\ i > j /\ i \in Nat /\ n + 1 \in Nat
      BY <1>1
    <3>2. Names(g, side, n + 1, i)
      BY <1>2, <3>1
    <3>3. n + 1 < n + 1 \/ (n + 1 = n + 1 /\ i <= j)
      BY <2>1, <2>2, <3>1, <3>2 DEF NamesLast
    <3>4. QED
      BY <1>1, <3>1, <3>3
  <2>3. ASSUME \A i \in j + 1 .. Len(lv) : lv[i].price # lv[j].price,
               NEW m \in Nat, NEW i \in Nat, Names(g, side, m, i),
               g[m][side][i].price = lv[j].price
        PROVE  m < n + 1 \/ (m = n + 1 /\ i <= j)
    <3>1. CASE m = n + 1 /\ i \in 1 .. Len(lv)
      <4>1. i \notin j + 1 .. Len(lv)
        BY <2>1, <2>3, <3>1
      <4>2. QED
        BY <1>1, <3>1, <4>1
    <3>2. CASE Names(h, side, m, i)
      BY <1>2, <3>2
    <3>3. QED
      BY <1>2, <2>3, <3>1, <3>2
  <2>4. QED
    BY <2>1, <2>2, <2>3 DEF NamesLast
<1>4. ASSUME NEW k \in Nat, NEW j \in Nat, Names(h, side, k, j), Delta
      PROVE  NamesLast(g, side, k, j) <=>
                /\ NamesLast(h, side, k, j)
                /\ \A i \in 1 .. Len(lv) : lv[i].price # h[k][side][j].price
  <2>1. Names(g, side, k, j) /\ g[k] = h[k] /\ k < n + 1 /\ k \in 1 .. n
    BY <1>2, <1>4
  <2>2. ASSUME NamesLast(g, side, k, j)
        PROVE  NamesLast(h, side, k, j)
    BY <1>2, <1>4, <2>1, <2>2 DEF NamesLast
  <2>3. ASSUME NamesLast(g, side, k, j), NEW i \in 1 .. Len(lv),
               lv[i].price = h[k][side][j].price
        PROVE  FALSE
    <3>1. i \in Nat /\ n + 1 \in Nat
      BY <1>1
    <3>2. Names(g, side, n + 1, i) /\ g[n + 1][side][i].price = g[k][side][j].price
      BY <1>1, <1>2, <2>1, <2>3, <3>1
    <3>3. n + 1 < k \/ (n + 1 = k /\ i <= j)
      BY <2>3, <3>1, <3>2 DEF NamesLast
    <3>4. QED
      BY <1>1, <2>1, <3>3
  <2>4. ASSUME NamesLast(h, side, k, j),
               \A i \in 1 .. Len(lv) : lv[i].price # h[k][side][j].price,
               NEW m \in Nat, NEW i \in Nat, Names(g, side, m, i),
               g[m][side][i].price = h[k][side][j].price
        PROVE  m < k \/ (m = k /\ i <= j)
    <3>1. CASE m = n + 1 /\ i \in 1 .. Len(lv)
      BY <1>1, <2>4, <3>1
    <3>2. CASE Names(h, side, m, i)
      BY <1>2, <2>4, <3>2 DEF NamesLast
    <3>3. QED
      BY <1>2, <2>4, <3>1, <3>2
  <2>5. QED
    BY <2>1, <2>2, <2>3, <2>4 DEF NamesLast
<1>5. ASSUME NEW p \in DOMAIN q
      PROVE  \E k \in Nat, j \in Nat : /\ NamesLast(g, side, k, j)
                                       /\ g[k][side][j].price = p
                                       /\ g[k][side][j].size = q[p]
  <2>1. CASE \E j \in 1 .. Len(lv) : /\ lv[j].price = p /\ lv[j].size = q[p]
                                     /\ \A i \in j + 1 .. Len(lv) : lv[i].price # lv[j].price
    <3>1. PICK j \in 1 .. Len(lv) : /\ lv[j].price = p /\ lv[j].size = q[p]
                                    /\ \A i \in j + 1 .. Len(lv) : lv[i].price # lv[j].price
      BY <2>1
    <3>2. NamesLast(g, side, n + 1, j) /\ g[n + 1][side] = lv
      BY <1>1, <1>3, <3>1
    <3>3. n + 1 \in Nat /\ j \in Nat
      BY <1>1
    <3>4. QED
      BY <3>1, <3>2, <3>3
  <2>2. CASE p \in DOMAIN s /\ q[p] = s[p] /\ \A i \in 1 .. Len(lv) : lv[i].price # p
    <3>1. Delta /\ IsReplay(s, h, side)
      BY <2>2
    <3>2. PICK k \in Nat, j \in Nat : /\ NamesLast(h, side, k, j)
                                      /\ h[k][side][j].price = p
                                      /\ h[k][side][j].size = s[p]
      BY <2>2, <3>1 DEF IsReplay
    <3>3. Names(h, side, k, j) /\ g[k] = h[k]
      BY <1>2, <3>2 DEF NamesLast
    <3>4. NamesLast(g, side, k, j)
      BY <1>4, <2>2, <3>1, <3>2, <3>3
    <3>5. QED
      BY <2>2, <3>2, <3>3, <3>4
  <2>3. QED
    BY <2>1, <2>2 DEF IsApplied
<1>6. ASSUME NEW k \in Nat, NEW j \in Nat, NamesLast(g, side, k, j),
             g[k][side][j].size > 0
      PROVE  g[k][side][j].price \in DOMAIN q
  <2>1. Names(g, side, k, j)
    BY <1>6 DEF NamesLast
  <2>2. CASE k = n + 1 /\ j \in 1 .. Len(lv)
    <3>1. g[k][side] = lv /\ \A i \in j + 1 .. Len(lv) : lv[i].price # lv[j].price
      BY <1>1, <1>3, <1>6, <2>2
    <3>2. QED
      BY <1>6, <2>2, <3>1 DEF IsApplied
  <2>3. CASE Delta /\ Names(h, side, k, j)
    <3>1. /\ NamesLast(h, side, k, j) /\ g[k] = h[k]
          /\ \A i \in 1 .. Len(lv) : lv[i].price # h[k][side][j].price
      BY <1>2, <1>4, <1>6, <2>3
    <3>2. h[k][side][j].price \in DOMAIN s
      BY <1>6, <2>3, <3>1 DEF IsReplay
    <3>3. QED
      BY <3>1, <3>2 DEF IsApplied
  <2>4. QED
    BY <1>2, <2>1, <2>2, <2>3
<1>7. IsReplay(q, g, side)
  BY <1>5, <1>6 DEF IsReplay, IsApplied
<1>8. QED
  BY <1>7 DEF g

-----------------------------------------------------------------------------
(***************************************************************************)
(* The best levels of a side.                                              *)
(***************************************************************************)

\* A sorted list of the prices has each of them once.
LEMMA SortedIs ==
    ASSUME NEW s, Book!IsSide(s), NEW desc \in BOOLEAN, NEW o \in Book!Sorted(s, desc)
    PROVE  /\ o \in Seq(DOMAIN s)
           /\ \A k \in 1 .. Len(o) : \A n \in 1 .. k - 1 :
                 o[n] # o[k] /\ ~Book!Better(desc, o[k], o[n])
           /\ \A p \in DOMAIN s : \E k \in 1 .. Len(o) : o[k] = p
<1> DEFINE D == DOMAIN s
           n == Cardinality(D)
<1>1. IsFiniteSet(D)
  BY SameCount DEF Book!IsSide
<1>2. n \in Nat
  BY <1>1, FS_CardinalityType
<1>3. /\ o \in [1 .. n -> D]
      /\ \A k \in DOMAIN o : \A m \in 1 .. k - 1 :
            o[m] # o[k] /\ ~Book!Better(desc, o[k], o[m])
  BY SameCount DEF Book!Sorted
<1> HIDE DEF n, D
<1>4. o \in Seq(D) /\ Len(o) = n /\ DOMAIN o = 1 .. n
  BY <1>2, <1>3
<1>5. ASSUME NEW k \in 1 .. n, NEW m \in 1 .. n, k # m PROVE o[k] # o[m]
  <2>1. CASE k < m
    <3>1. k \in 1 .. m - 1 /\ m \in DOMAIN o
      BY <1>2, <1>4, <2>1
    <3>2. QED
      BY <1>3, <3>1
  <2>2. CASE m < k
    <3>1. m \in 1 .. k - 1 /\ k \in DOMAIN o
      BY <1>2, <1>4, <2>2
    <3>2. QED
      BY <1>3, <3>1
  <2>3. QED
    BY <1>2, <1>5, <2>1, <2>2
<1>6. o \in Injection(1 .. n, D)
  BY <1>3, <1>5 DEF Injection, IsInjective
<1>7. IsFiniteSet(1 .. n) /\ Cardinality(1 .. n) = n
  BY <1>2, FS_Interval
<1>8. o \in Surjection(1 .. n, D)
  BY <1>1, <1>6, <1>7, FS_Injection DEF n
<1>9. \A p \in D : \E k \in 1 .. n : o[k] = p
  BY <1>8 DEF Surjection
<1>10. QED
  BY <1>3, <1>4, <1>9 DEF D

LEMMA TopLevelsIs ==
    ASSUME Depth \in Nat \ {0}, NEW s, Book!IsSide(s), NEW desc \in BOOLEAN,
           NEW o \in Book!Sorted(s, desc), NEW ls, ls = Book!TopLevels(s, o)
    PROVE  /\ ls \in Seq(Book!Level) /\ Len(ls) <= Depth
           /\ Book!IsTop(ls, s, desc)
<1> DEFINE D == DOMAIN s
           N == IF Len(o) > Depth THEN Depth ELSE Len(o)
<1>1. D \subseteq Book!Price /\ \A p \in D : s[p] \in Nat \ {0}
  BY DEF Book!IsSide
<1>2. ls = [k \in 1 .. N |-> [price |-> o[k], size |-> s[o[k]]]]
  BY DEF Book!TopLevels
<1>3. /\ o \in Seq(D)
      /\ \A k \in 1 .. Len(o) : \A n \in 1 .. k - 1 :
            o[n] # o[k] /\ ~Book!Better(desc, o[k], o[n])
      /\ \A p \in D : \E k \in 1 .. Len(o) : o[k] = p
  BY SortedIs
<1> HIDE DEF D
<1>4. /\ Len(o) \in Nat /\ N \in Nat /\ N <= Len(o) /\ N <= Depth
      /\ N < Len(o) => N = Depth
  BY <1>3
<1> HIDE DEF N
<1>5. ASSUME NEW k \in 1 .. N
      PROVE  /\ k \in 1 .. Len(o) /\ o[k] \in D
             /\ ls[k].price = o[k] /\ ls[k].size = s[o[k]] /\ ls[k] \in Book!Level
  <2>1. k \in 1 .. Len(o)
    BY <1>4
  <2>2. ls[k] = [price |-> o[k], size |-> s[o[k]]] /\ o[k] \in D
    BY <1>2, <1>3, <2>1
  <2>3. o[k] \in Book!Price /\ s[o[k]] \in Nat
    BY <1>1, <2>2
  <2>4. QED
    BY <2>1, <2>2, <2>3 DEF Book!Level
<1>6. ls \in Seq(Book!Level) /\ Len(ls) = N
  BY <1>2, <1>4, <1>5
<1>7. ASSUME NEW k \in 1 .. N, NEW n \in 1 .. k - 1
      PROVE  ls[n].price # ls[k].price /\ ~Book!Better(desc, ls[k].price, ls[n].price)
  <2>1. n \in 1 .. N /\ k \in 1 .. Len(o)
    BY <1>4
  <2>2. ls[n].price = o[n] /\ ls[k].price = o[k]
    BY <1>5, <2>1
  <2>3. o[n] # o[k] /\ ~Book!Better(desc, o[k], o[n])
    BY <1>3, <2>1
  <2>4. QED
    BY <2>2, <2>3
<1>8. ASSUME NEW p \in D
      PROVE  \/ \E k \in 1 .. N : ls[k].price = p
             \/ N = Depth /\ ~Book!Better(desc, p, ls[Depth].price)
  <2>1. PICK k \in 1 .. Len(o) : o[k] = p
    BY <1>3
  <2>2. CASE k <= N
    <3>1. k \in 1 .. N
      BY <1>4, <2>2
    <3>2. QED
      BY <1>5, <2>1, <3>1
  <2>3. CASE k > N
    <3>1. N = Depth /\ Depth \in 1 .. N /\ Depth \in 1 .. k - 1
      BY <1>4, <2>3
    <3>2. ls[Depth].price = o[Depth] /\ ~Book!Better(desc, o[k], o[Depth])
      BY <1>3, <1>5, <3>1
    <3>3. QED
      BY <2>1, <3>1, <3>2
  <2>4. QED
    BY <1>4, <2>2, <2>3
<1>9. Book!IsTop(ls, s, desc)
  BY <1>5, <1>6, <1>7, <1>8 DEF Book!IsTop, D
<1>10. QED
  BY <1>4, <1>6, <1>9

-----------------------------------------------------------------------------
(***************************************************************************)
(* The order book engine.                                                  *)
(***************************************************************************)

LEMMA FeedEvents ==
    ASSUME NEW e \in Feed
    PROVE  /\ Depth \in Nat \ {0} /\ MaxRaw \in Nat
           /\ e \in Book!Event /\ e.token \in Tokens
           /\ e.bids \in Seq(Book!Level) /\ e.asks \in Seq(Book!Level)
           /\ e.kind = "change" => Len(e.bids) <= Depth /\ Len(e.asks) <= Depth
           /\ \A k \in 1 .. Len(e.bids) : e.bids[k].price.value \in Prices("bids")
           /\ \A k \in 1 .. Len(e.asks) : e.asks[k].price.value \in Prices("asks")
<1>1. /\ Depth \in Nat \ {0} /\ MaxRaw \in Nat /\ e \in Book!Event
      /\ e.kind = "change" => Len(e.bids) < 2 /\ Len(e.asks) < 2
  BY ProcessorAssumption DEF Book!IsFeed
<1>2. /\ e.token \in Tokens
      /\ e.bids \in Seq(Book!Level) /\ e.asks \in Seq(Book!Level)
  BY <1>1 DEF Book!Event
<1>3. /\ \A k \in 1 .. Len(e.bids) : e.bids[k].price.value \in Prices("bids")
      /\ \A k \in 1 .. Len(e.asks) : e.asks[k].price.value \in Prices("asks")
  BY DEF Prices
<1>4. e.kind = "change" => Len(e.bids) <= Depth /\ Len(e.asks) <= Depth
  BY <1>1, <1>2
<1>5. QED
  BY <1>1, <1>2, <1>3, <1>4

LEMMA FeedHistory == ASSUME NEW h \in Seq(Feed) PROVE h \in Seq(Book!Event)
<1>1. Feed \subseteq Book!Event
  BY ProcessorAssumption DEF Book!IsFeed
<1>2. QED
  BY <1>1

\* An update is a view whose best prices are prices of the feed.
LEMMA UpdateIs ==
    ASSUME NEW t \in Tokens, NEW b \in Seq(Book!Level), NEW a \in Seq(Book!Level),
           Len(b) <= Depth, Len(a) <= Depth,
           \A k \in 1 .. Len(b) : b[k].price.value \in Prices("bids"),
           \A k \in 1 .. Len(a) : a[k].price.value \in Prices("asks"),
           NEW u, u = Book!Update(t, b, a)
    PROVE  /\ u \in Book!View /\ u.token = t /\ u.bids = b /\ u.asks = a
           /\ u.bestBid \in Prices("bids") /\ u.bestAsk \in Prices("asks")
<1> DEFINE bid == IF Len(b) = 0 THEN 0 ELSE b[1].price.value
           ask == IF Len(a) = 0 THEN 0 ELSE a[1].price.value
<1>1. u = [token |-> t, bids |-> b, asks |-> a, bestBid |-> bid, bestAsk |-> ask]
  BY DEF Book!Update
<1>2. 0 \in Prices("bids") /\ 0 \in Prices("asks")
  BY DEF Prices
<1>3. bid \in Nat /\ bid \in Prices("bids")
  <2>1. CASE Len(b) = 0
    BY <1>2, <2>1
  <2>2. CASE Len(b) # 0
    <3>1. 1 \in 1 .. Len(b) /\ b[1] \in Book!Level
      BY <2>2
    <3>2. QED
      BY <2>2, <3>1 DEF Book!Level, Book!Price
  <2>3. QED
    BY <2>1, <2>2
<1>4. ask \in Nat /\ ask \in Prices("asks")
  <2>1. CASE Len(a) = 0
    BY <1>2, <2>1
  <2>2. CASE Len(a) # 0
    <3>1. 1 \in 1 .. Len(a) /\ a[1] \in Book!Level
      BY <2>2
    <3>2. QED
      BY <2>2, <3>1 DEF Book!Level, Book!Price
  <2>3. QED
    BY <2>1, <2>2
<1> HIDE DEF bid, ask
<1>5. QED
  BY <1>1, <1>3, <1>4 DEF Book!View

\* v is what Redis shows of the events h.
Shows(v, h) ==
    LET e == h[Len(h)]
    IN /\ v.token = e.token
       /\ IF e.kind = "change"
          THEN v.bids = e.bids /\ v.asks = e.asks
          ELSE /\ Book!IsTop(v.bids, Book!Replay(h, "bids"), TRUE)
               /\ Book!IsTop(v.asks, Book!Replay(h, "asks"), FALSE)

\* What an event leaves behind, apart from the books.
LEMMA EmitStep ==
    ASSUME Book!TypeOK, BookInv, Book!RedisBookIsTop,
           NEW e \in Feed, NEW i \in Ids, Book!Fetched(e, i),
           NEW u \in Book!View, u.token = e.token, Book!Emit(i, u),
           u.bestBid \in Prices("bids"), u.bestAsk \in Prices("asks"),
           Shows(u, Append(seen[i][e.token], e))
    PROVE  /\ orderbookKey' \in [Ids -> Book!View \union {None}]
           /\ topic' \in Seq([id : Ids, update : Book!View])
           /\ seen' \in [Ids -> [Tokens -> Seq(Feed)]]
           /\ seen'[i][e.token] = Append(seen[i][e.token], e)
           /\ \A j \in Ids, t \in Tokens : j # i \/ t # e.token => seen'[j][t] = seen[j][t]
           /\ shown' \in [Ids -> Seq(Feed)]
           /\ raws' \in 0 .. MaxRaw /\ starts' \in 1 .. MaxStarts
           /\ \A j \in Ids : orderbookKey'[j] # None => Len(shown'[j]) > 0
           /\ \A n \in DOMAIN topic' : /\ topic'[n].update.bestBid \in Prices("bids")
                                       /\ topic'[n].update.bestAsk \in Prices("asks")
           /\ Book!RedisBookIsTop'
<1> DEFINE h == Append(seen[i][e.token], e)
<1>0. e.token \in Tokens /\ MaxRaw \in Nat
  BY FeedEvents
<1>1. /\ orderbookKey \in [Ids -> Book!View \union {None}]
      /\ topic \in Seq([id : Ids, update : Book!View])
      /\ seen \in [Ids -> [Tokens -> Seq(Feed)]] /\ shown \in [Ids -> Seq(Feed)]
      /\ raws \in 0 .. MaxRaw /\ starts \in 1 .. MaxStarts
  BY DEF Book!TypeOK
<1>2. h \in Seq(Feed) /\ Len(h) > 0
  BY <1>0, <1>1
<1>3. /\ seen' \in [Ids -> [Tokens -> Seq(Feed)]] /\ seen'[i][e.token] = h
      /\ \A j \in Ids, t \in Tokens : j # i \/ t # e.token => seen'[j][t] = seen[j][t]
  <2>1. seen' = [seen EXCEPT ![i][e.token] = h]
    BY DEF Book!Fetched
  <2> HIDE DEF h
  <2>2. QED
    BY <1>0, <1>1, <1>2, <2>1
<1>4. raws' \in 0 .. MaxRaw /\ starts' \in 1 .. MaxStarts
  BY <1>0, <1>1 DEF Book!Fetched
<1>5. /\ topic' \in Seq([id : Ids, update : Book!View])
      /\ \A n \in DOMAIN topic' : topic'[n].update = u \/ (n \in DOMAIN topic /\ topic'[n] = topic[n])
  <2>1. CASE topic' = topic
    BY <1>1, <2>1
  <2>2. CASE topic' = Append(topic, [id |-> i, update |-> u])
    BY <1>1, <2>2
  <2>3. QED
    BY <2>1, <2>2 DEF Book!Emit
<1> HIDE DEF h
<1>6. \/ /\ orderbookKey' = [orderbookKey EXCEPT ![i] = u]
         /\ shown' = [shown EXCEPT ![i] = h]
      \/ UNCHANGED <<orderbookKey, shown>>
  BY <1>3 DEF Book!Emit
<1>7. /\ orderbookKey' \in [Ids -> Book!View \union {None}] /\ shown' \in [Ids -> Seq(Feed)]
      /\ \A j \in Ids : \/ orderbookKey'[j] = orderbookKey[j] /\ shown'[j] = shown[j]
                        \/ orderbookKey'[j] = u /\ shown'[j] = h
  BY <1>1, <1>2, <1>6
<1>8. \A j \in Ids : orderbookKey'[j] # None => Len(shown'[j]) > 0
  BY <1>2, <1>7 DEF BookInv
<1>9. \A n \in DOMAIN topic' : /\ topic'[n].update.bestBid \in Prices("bids")
                               /\ topic'[n].update.bestAsk \in Prices("asks")
  BY <1>5 DEF BookInv
<1>10. Book!RedisBookIsTop'
  <2>1. \A j \in Ids : orderbookKey[j] # None => Shows(orderbookKey[j], shown[j])
    BY DEF Book!RedisBookIsTop, Shows
  <2>2. Shows(u, h)
    BY DEF h
  <2>3. \A j \in Ids : orderbookKey'[j] # None => Shows(orderbookKey'[j], shown'[j])
    BY <1>7, <2>1, <2>2
  <2>4. QED
    BY <2>3 DEF Book!RedisBookIsTop, Shows
<1>11. QED
  BY <1>3, <1>4, <1>5, <1>7, <1>8, <1>9, <1>10 DEF h

\* Each side of each book has the sizes that were named last.
Describes ==
    \A i \in Ids, t \in Tokens :
       /\ IsReplay(obs[i][t].bids, seen[i][t], "bids")
       /\ IsReplay(obs[i][t].asks, seen[i][t], "asks")
       /\ obs[i][t] = [bids |-> obs[i][t].bids, asks |-> obs[i][t].asks]

LEMMA DescribesReplay ==
    seen \in [Ids -> [Tokens -> Seq(Feed)]] /\ Describes => Book!BookIsReplay
<1> SUFFICES ASSUME seen \in [Ids -> [Tokens -> Seq(Feed)]], Describes,
                    NEW i \in Ids, NEW t \in Tokens
             PROVE  obs[i][t] = [bids |-> Book!Replay(seen[i][t], "bids"),
                                 asks |-> Book!Replay(seen[i][t], "asks")]
  BY DEF Book!BookIsReplay
<1>1. seen[i][t] \in Seq(Book!Event)
  BY FeedHistory
<1>2. /\ IsReplay(obs[i][t].bids, seen[i][t], "bids")
      /\ IsReplay(obs[i][t].asks, seen[i][t], "asks")
      /\ obs[i][t] = [bids |-> obs[i][t].bids, asks |-> obs[i][t].asks]
  BY DEF Describes
<1>3. /\ obs[i][t].bids = Book!Replay(seen[i][t], "bids")
      /\ obs[i][t].asks = Book!Replay(seen[i][t], "asks")
  BY <1>1, <1>2, ReplayIs
<1>4. QED
  BY <1>2, <1>3

\* The invariant of the order book engine.
EngineInv == Book!TypeOK /\ BookInv /\ Describes /\ Book!RedisBookIsTop

LEMMA EmptySide == Book!IsSide(<<>>) /\ DOMAIN <<>> = {}
<1>1. IsFiniteSet({})
  BY FS_EmptySet
<1>2. DOMAIN <<>> = {}
  OBVIOUS
<1>3. QED
  BY <1>1, <1>2, SameCount DEF Book!IsSide

\* One side of a book after an event with levels; s is the side there was, or
\* nothing before a whole book.
LEMMA SideStep ==
    ASSUME NEW side \in {"bids", "asks"}, NEW e \in Feed, NEW h \in Seq(Feed),
           NEW old, IsReplay(old, h, side), FromFeed(old, side),
           e.kind \in {"book", "delta"},
           NEW s, s = IF e.kind = "book" THEN <<>> ELSE old,
           NEW q, q = Book!Applied(s, e[side])
    PROVE  /\ Book!IsSide(q) /\ FromFeed(q, side)
           /\ IsReplay(q, Append(h, e), side)
<1>1. e \in Book!Event /\ h \in Seq(Book!Event) /\ e[side] \in Seq(Book!Level)
  BY FeedEvents, FeedHistory, SideLevels
<1>2. /\ Book!IsSide(s)
      /\ \/ e.kind = "book" /\ DOMAIN s = {}
         \/ e.kind = "delta" /\ IsReplay(s, h, side)
  BY EmptySide DEF IsReplay
<1>3. IsApplied(s, e[side], Len(e[side]), q)
  BY <1>1, <1>2, AppliedIs
<1>4. IsReplay(q, Append(h, e), side)
  BY <1>1, <1>2, <1>3, ReplayLevels
<1>5. FromFeed(q, side)
  <2>1. \A j \in 1 .. Len(e[side]) : e[side][j].price.value \in Prices(side)
    BY DEF Prices
  <2>2. FromFeed(s, side)
    BY <1>2 DEF FromFeed
  <2>3. QED
    BY <1>3, <2>1, <2>2 DEF IsApplied, FromFeed
<1>6. QED
  BY <1>3, <1>4, <1>5 DEF IsApplied

LEMMA LevelsStep ==
    ASSUME EngineInv, NEW e \in Feed, NEW i \in Ids, Book!HandleLevels(e, i)
    PROVE  EngineInv'
<1> DEFINE t == e.token
           whole == e.kind = "book"
           bids == Book!Applied(IF whole THEN <<>> ELSE obs[i][t].bids, e["bids"])
           asks == Book!Applied(IF whole THEN <<>> ELSE obs[i][t].asks, e["asks"])
           h == Append(seen[i][t], e)
<1>1. /\ e \in Book!Event /\ t \in Tokens /\ Depth \in Nat \ {0}
      /\ e.kind \in {"book", "delta"}
  BY FeedEvents DEF Book!HandleLevels
<1>2. /\ DOMAIN obs = Ids /\ \A j \in Ids : DOMAIN obs[j] = Tokens
      /\ seen \in [Ids -> [Tokens -> Seq(Feed)]]
      /\ seen[i][t] \in Seq(Feed)
  BY <1>1 DEF EngineInv, Book!TypeOK
<1>3. /\ IsReplay(obs[i][t].bids, seen[i][t], "bids") /\ FromFeed(obs[i][t].bids, "bids")
      /\ IsReplay(obs[i][t].asks, seen[i][t], "asks") /\ FromFeed(obs[i][t].asks, "asks")
  BY <1>1 DEF EngineInv, Describes, BookInv
<1>4. /\ Book!IsSide(bids) /\ FromFeed(bids, "bids")
      /\ IsReplay(bids, h, "bids")
  <2> HIDE DEF t
  <2>1. QED
    BY <1>1, <1>2, <1>3, SideStep
<1>5. /\ Book!IsSide(asks) /\ FromFeed(asks, "asks")
      /\ IsReplay(asks, h, "asks")
  <2> HIDE DEF t
  <2>1. QED
    BY <1>1, <1>2, <1>3, SideStep
<1>6. /\ obs' = [obs EXCEPT ![i][t] = [bids |-> bids, asks |-> asks]]
      /\ Book!Fetched(e, i)
      /\ \E b \in Book!Sorted(bids, TRUE), a \in Book!Sorted(asks, FALSE) :
            Book!Emit(i, Book!Update(t, Book!TopLevels(bids, b), Book!TopLevels(asks, a)))
  <2>1. /\ (IF whole THEN Book!NoBook ELSE obs[i][t]).bids = IF whole THEN <<>> ELSE obs[i][t].bids
        /\ (IF whole THEN Book!NoBook ELSE obs[i][t]).asks = IF whole THEN <<>> ELSE obs[i][t].asks
    BY DEF Book!NoBook
  <2>2. e.bids = e["bids"] /\ e.asks = e["asks"]
    OBVIOUS
  <2>3. QED
    BY <2>1, <2>2 DEF Book!HandleLevels
<1> HIDE DEF bids, asks
<1>20. PICK b \in Book!Sorted(bids, TRUE), a \in Book!Sorted(asks, FALSE) :
            Book!Emit(i, Book!Update(t, Book!TopLevels(bids, b), Book!TopLevels(asks, a)))
  BY <1>6
<1> DEFINE tb == Book!TopLevels(bids, b)
           ta == Book!TopLevels(asks, a)
           u == Book!Update(t, tb, ta)
<1>21. Book!Emit(i, u)
  BY <1>20
<1>7. /\ tb \in Seq(Book!Level) /\ Len(tb) <= Depth /\ Book!IsTop(tb, bids, TRUE)
      /\ ta \in Seq(Book!Level) /\ Len(ta) <= Depth /\ Book!IsTop(ta, asks, FALSE)
  BY <1>1, <1>4, <1>5, TopLevelsIs
<1> HIDE DEF tb, ta
<1>8. /\ u \in Book!View /\ u.token = t /\ u.bids = tb /\ u.asks = ta
      /\ u.bestBid \in Prices("bids") /\ u.bestAsk \in Prices("asks")
  <2>1. \A k \in 1 .. Len(tb) : tb[k].price.value \in Prices("bids")
    BY <1>4, <1>7 DEF Book!IsTop, FromFeed
  <2>2. \A k \in 1 .. Len(ta) : ta[k].price.value \in Prices("asks")
    BY <1>5, <1>7 DEF Book!IsTop, FromFeed
  <2>3. QED
    BY <1>1, <1>7, <2>1, <2>2, UpdateIs
<1> HIDE DEF u
<1>9. Shows(u, h)
  <2>1. h \in Seq(Book!Event) /\ h[Len(h)] = e
    <3>1. seen[i][t] \in Seq(Book!Event)
      BY <1>2, FeedHistory
    <3>2. QED
      BY <1>1, <3>1
  <2>2. bids = Book!Replay(h, "bids") /\ asks = Book!Replay(h, "asks")
    BY <1>4, <1>5, <2>1, ReplayIs
  <2> HIDE DEF h
  <2>3. QED
    BY <1>1, <1>7, <1>8, <2>1, <2>2 DEF Shows
<1>10. /\ orderbookKey' \in [Ids -> Book!View \union {None}]
       /\ topic' \in Seq([id : Ids, update : Book!View])
       /\ seen' \in [Ids -> [Tokens -> Seq(Feed)]]
       /\ seen'[i][t] = h
       /\ \A j \in Ids, r \in Tokens : j # i \/ r # t => seen'[j][r] = seen[j][r]
       /\ shown' \in [Ids -> Seq(Feed)]
       /\ raws' \in 0 .. MaxRaw /\ starts' \in 1 .. MaxStarts
       /\ \A j \in Ids : orderbookKey'[j] # None => Len(shown'[j]) > 0
       /\ \A n \in DOMAIN topic' : /\ topic'[n].update.bestBid \in Prices("bids")
                                   /\ topic'[n].update.bestAsk \in Prices("asks")
       /\ Book!RedisBookIsTop'
  BY <1>6, <1>8, <1>9, <1>21, EmitStep DEF EngineInv
<1> HIDE DEF h
<1>11. /\ DOMAIN obs' = Ids /\ \A j \in Ids : DOMAIN obs'[j] = Tokens
       /\ obs'[i][t] = [bids |-> bids, asks |-> asks]
       /\ \A j \in Ids, r \in Tokens : j # i \/ r # t => obs'[j][r] = obs[j][r]
  BY <1>1, <1>2, <1>6
<1>12. ASSUME NEW j \in Ids, NEW r \in Tokens
       PROVE  /\ Book!IsSide(obs'[j][r].bids) /\ Book!IsSide(obs'[j][r].asks)
              /\ FromFeed(obs'[j][r].bids, "bids")
              /\ FromFeed(obs'[j][r].asks, "asks")
              /\ IsReplay(obs'[j][r].bids, seen'[j][r], "bids")
              /\ IsReplay(obs'[j][r].asks, seen'[j][r], "asks")
              /\ obs'[j][r] = [bids |-> obs'[j][r].bids, asks |-> obs'[j][r].asks]
  <2>1. CASE j = i /\ r = t
    BY <1>4, <1>5, <1>10, <1>11, <2>1
  <2>2. CASE j # i \/ r # t
    <3>1. obs'[j][r] = obs[j][r] /\ seen'[j][r] = seen[j][r]
      BY <1>10, <1>11, <2>2
    <3>2. QED
      BY <3>1 DEF EngineInv, Book!TypeOK, BookInv, Describes
  <2>3. QED
    BY <2>1, <2>2
<1>13. Describes'
  BY <1>12 DEF Describes
<1>14. Book!BookIsReplay'
  <2>1. (seen \in [Ids -> [Tokens -> Seq(Feed)]])'
    BY <1>10
  <2>2. QED
    BY <1>13, <2>1, DescribesReplay, PTL
<1>15. QED
  BY <1>10, <1>11, <1>12, <1>13, <1>14 DEF EngineInv, Book!TypeOK, BookInv

LEMMA BestChangeStep ==
    ASSUME EngineInv, NEW e \in Feed, NEW i \in Ids, Book!HandleChange(e, i)
    PROVE  EngineInv'
<1> DEFINE t == e.token
           h == Append(seen[i][t], e)
           u == Book!Update(t, e.bids, e.asks)
<1>1. /\ e \in Book!Event /\ t \in Tokens /\ e.kind = "change"
      /\ Book!Emit(i, u) /\ Book!Fetched(e, i) /\ obs' = obs
  BY FeedEvents DEF Book!HandleChange
<1>2. seen \in [Ids -> [Tokens -> Seq(Feed)]] /\ seen[i][t] \in Seq(Feed)
  BY <1>1 DEF EngineInv, Book!TypeOK
<1>3. /\ u \in Book!View /\ u.token = t /\ u.bids = e.bids /\ u.asks = e.asks
      /\ u.bestBid \in Prices("bids") /\ u.bestAsk \in Prices("asks")
  <2>1. /\ e.bids \in Seq(Book!Level) /\ e.asks \in Seq(Book!Level)
        /\ Len(e.bids) <= Depth /\ Len(e.asks) <= Depth
        /\ \A k \in 1 .. Len(e.bids) : e.bids[k].price.value \in Prices("bids")
        /\ \A k \in 1 .. Len(e.asks) : e.asks[k].price.value \in Prices("asks")
    BY <1>1, FeedEvents
  <2> DEFINE b == e.bids
             a == e.asks
  <2>2. /\ b \in Seq(Book!Level) /\ a \in Seq(Book!Level)
        /\ Len(b) <= Depth /\ Len(a) <= Depth
        /\ \A k \in 1 .. Len(b) : b[k].price.value \in Prices("bids")
        /\ \A k \in 1 .. Len(a) : a[k].price.value \in Prices("asks")
    BY <2>1
  <2>3. u = Book!Update(t, b, a)
    OBVIOUS
  <2> HIDE DEF b, a, u, t
  <2>4. /\ u \in Book!View /\ u.token = t /\ u.bids = b /\ u.asks = a
        /\ u.bestBid \in Prices("bids") /\ u.bestAsk \in Prices("asks")
    BY <1>1, <2>2, <2>3, UpdateIs
  <2>5. QED
    BY <2>4 DEF b, a
<1> HIDE DEF u
<1>4. Shows(u, h)
  <2>1. h[Len(h)] = e
    BY <1>2
  <2> HIDE DEF h
  <2>2. QED
    BY <1>1, <1>3, <2>1 DEF Shows
<1>5. /\ orderbookKey' \in [Ids -> Book!View \union {None}]
      /\ topic' \in Seq([id : Ids, update : Book!View])
      /\ seen' \in [Ids -> [Tokens -> Seq(Feed)]]
      /\ seen'[i][t] = h
      /\ \A j \in Ids, r \in Tokens : j # i \/ r # t => seen'[j][r] = seen[j][r]
      /\ shown' \in [Ids -> Seq(Feed)]
      /\ raws' \in 0 .. MaxRaw /\ starts' \in 1 .. MaxStarts
      /\ \A j \in Ids : orderbookKey'[j] # None => Len(shown'[j]) > 0
      /\ \A n \in DOMAIN topic' : /\ topic'[n].update.bestBid \in Prices("bids")
                                  /\ topic'[n].update.bestAsk \in Prices("asks")
      /\ Book!RedisBookIsTop'
  BY <1>1, <1>3, <1>4, EmitStep DEF EngineInv
<1>6. ASSUME NEW j \in Ids, NEW r \in Tokens
      PROVE  /\ IsReplay(obs[j][r].bids, seen'[j][r], "bids")
             /\ IsReplay(obs[j][r].asks, seen'[j][r], "asks")
  <2>1. /\ IsReplay(obs[j][r].bids, seen[j][r], "bids")
        /\ IsReplay(obs[j][r].asks, seen[j][r], "asks")
    BY DEF EngineInv, Describes
  <2>2. CASE j = i /\ r = t
    <3>1. seen[i][t] \in Seq(Book!Event)
      BY <1>2, FeedHistory
    <3>2. IsReplay(obs[i][t].bids, h, "bids") /\ IsReplay(obs[i][t].asks, h, "asks")
      BY <1>1, <2>1, <2>2, <3>1, ReplayChange
    <3>3. QED
      BY <1>5, <2>2, <3>2
  <2>3. CASE j # i \/ r # t
    BY <1>5, <2>1, <2>3
  <2>4. QED
    BY <2>2, <2>3
<1>7. Describes'
  BY <1>1, <1>6 DEF EngineInv, Describes
<1>8. Book!BookIsReplay'
  <2>1. (seen \in [Ids -> [Tokens -> Seq(Feed)]])'
    BY <1>5
  <2>2. QED
    BY <1>7, <2>1, DescribesReplay, PTL
<1>9. QED
  <2> HIDE DEF h, t
  <2>1. QED
    BY <1>1, <1>5, <1>7, <1>8 DEF EngineInv, Book!TypeOK, BookInv

\* No books, nothing seen.
LEMMA NothingYet ==
    /\ Book!IsSide(Book!NoBook.bids) /\ Book!IsSide(Book!NoBook.asks)
    /\ DOMAIN Book!NoBook.bids = {} /\ DOMAIN Book!NoBook.asks = {}
    /\ \A side \in {"bids", "asks"} : IsReplay(<<>>, <<>>, side)
    /\ Book!NoBook = [bids |-> <<>>, asks |-> <<>>]
<1>1. Book!NoBook = [bids |-> <<>>, asks |-> <<>>]
  BY DEF Book!NoBook
<1>2. ASSUME NEW side \in {"bids", "asks"} PROVE IsReplay(<<>>, <<>>, side)
  <2>1. \A k \in Nat, j \in Nat : ~Names(<<>>, side, k, j)
    BY DEF Names
  <2>2. QED
    BY <2>1, EmptySide DEF IsReplay, NamesLast
<1>3. QED
  BY <1>1, <1>2, EmptySide

LEMMA BookInit == ProcInit => EngineInv
<1> SUFFICES ASSUME ProcInit PROVE EngineInv
  OBVIOUS
<1>1. /\ obs = [i \in Ids |-> [t \in Tokens |-> Book!NoBook]]
      /\ seen = [i \in Ids |-> [t \in Tokens |-> <<>>]]
      /\ orderbookKey = [i \in Ids |-> None] /\ shown = [i \in Ids |-> <<>>]
      /\ topic = <<>> /\ raws = 0 /\ starts = 1
  BY DEF ProcInit, Book!Init, Book!NoBooks, Book!NothingSeen
<1>2. <<>> \in Seq(Feed) /\ <<>> \in Seq([id : Ids, update : Book!View])
  OBVIOUS
<1>3. raws \in 0 .. MaxRaw /\ starts \in 1 .. MaxStarts
  BY <1>1, ProcessorAssumption, EngineAssumption DEF Book!IsFeed
<1>4. Book!TypeOK
  BY <1>1, <1>2, <1>3, NothingYet DEF Book!TypeOK
<1>5. Describes
  BY <1>1, NothingYet DEF Describes
<1>6. BookInv
  BY <1>1, <1>2, <1>4, <1>5, NothingYet, DescribesReplay DEF BookInv, FromFeed, Book!TypeOK
<1>7. Book!RedisBookIsTop
  BY <1>1 DEF Book!RedisBookIsTop
<1>8. QED
  BY <1>4, <1>5, <1>6, <1>7 DEF EngineInv

LEMMA ExpireStep ==
    ASSUME EngineInv, NEW gone \in SUBSET Ids, Book!Expire(gone)
    PROVE  EngineInv'
<1>1. /\ orderbookKey' = [i \in Ids |-> IF i \in gone THEN None ELSE orderbookKey[i]]
      /\ UNCHANGED <<obs, topic, raws, starts, seen, shown>>
  BY DEF Book!Expire
<1>2. /\ orderbookKey' \in [Ids -> Book!View \union {None}]
      /\ \A i \in Ids : orderbookKey'[i] # None => orderbookKey'[i] = orderbookKey[i]
  BY <1>1 DEF EngineInv, Book!TypeOK
<1>3. Book!TypeOK' /\ Describes'
  BY <1>1, <1>2 DEF EngineInv, Book!TypeOK, Describes
<1>4. BookInv'
  BY <1>1, <1>2 DEF EngineInv, BookInv, Book!BookIsReplay
<1>5. Book!RedisBookIsTop'
  BY <1>1, <1>2 DEF EngineInv, Book!RedisBookIsTop
<1>6. QED
  BY <1>3, <1>4, <1>5 DEF EngineInv

LEMMA BookRestart == ASSUME EngineInv, Book!Restart PROVE EngineInv'
<1>1. /\ obs' = [i \in Ids |-> [t \in Tokens |-> Book!NoBook]]
      /\ seen' = [i \in Ids |-> [t \in Tokens |-> <<>>]]
      /\ starts < MaxStarts /\ starts' = starts + 1
      /\ UNCHANGED <<orderbookKey, topic, raws, shown>>
  BY DEF Book!Restart, Book!NoBooks, Book!NothingSeen
<1>2. <<>> \in Seq(Feed) /\ MaxStarts \in Nat
  BY EngineAssumption
<1>3. Book!TypeOK'
  BY <1>1, <1>2, NothingYet DEF EngineInv, Book!TypeOK
<1>4. Describes'
  BY <1>1, NothingYet DEF Describes
<1>5. Book!BookIsReplay'
  <2>1. (seen \in [Ids -> [Tokens -> Seq(Feed)]])'
    BY <1>3 DEF Book!TypeOK
  <2>2. QED
    BY <1>4, <2>1, DescribesReplay, PTL
<1>6. BookInv' /\ Book!RedisBookIsTop'
  BY <1>1, <1>5, NothingYet DEF EngineInv, BookInv, FromFeed, Book!RedisBookIsTop
<1>7. QED
  BY <1>3, <1>4, <1>6 DEF EngineInv

LEMMA BookFrame ==
    ASSUME EngineInv, UNCHANGED <<bookVars, starts>> PROVE EngineInv'
<1>1. UNCHANGED <<obs, orderbookKey, topic, raws, seen, shown, starts>>
  BY DEF bookVars
<1>2. QED
  BY <1>1 DEF EngineInv, Book!TypeOK, BookInv, Describes, Book!BookIsReplay,
              Book!RedisBookIsTop

LEMMA BookStep == EngineInv /\ [ProcNext]_procVars => EngineInv'
<1> SUFFICES ASSUME EngineInv, [ProcNext]_procVars PROVE EngineInv'
  OBVIOUS
<1>1. CASE ReadRaw
  BY <1>1, LevelsStep, BestChangeStep DEF ReadRaw
<1>2. CASE ReadTrade
  BY <1>2, BookFrame DEF ReadTrade, OnTrade, runVars
<1>3. CASE ReadBook
  BY <1>3, BookFrame DEF ReadBook, OnBook, runVars
<1>4. CASE StorePrice
  BY <1>4, BookFrame DEF StorePrice, Store, runVars
<1>5. CASE Later
  BY <1>5, ExpireStep DEF Later
<1>6. CASE RestartAll
  BY <1>6, BookRestart DEF RestartAll
<1>7. CASE UNCHANGED procVars
  BY <1>7, BookFrame DEF procVars, vars
<1>8. QED
  BY <1>1, <1>2, <1>3, <1>4, <1>5, <1>6, <1>7 DEF ProcNext

-----------------------------------------------------------------------------
(***************************************************************************)
(* The topic between the engines.                                          *)
(***************************************************************************)

\* The invariant of the topic and its consumer.
TopicInv ==
    /\ partition \in Seq(Partitions) /\ Len(partition) = Len(topic)
    /\ handled \subseteq read /\ read \subseteq DOMAIN topic
    /\ ReadInOrder

LEMMA MessageIs ==
    ASSUME EngineInv, NEW n \in DOMAIN topic
    PROVE  topic[n].id \in Ids /\ topic[n].update \in Book!View
<1>1. topic \in Seq([id : Ids, update : Book!View])
  BY DEF EngineInv, Book!TypeOK
<1>2. n \in 1 .. Len(topic)
  BY <1>1
<1>3. topic[n] \in [id : Ids, update : Book!View]
  BY <1>1, <1>2, ElementOfSeq
<1>4. QED
  BY <1>3

\* What was published stays in its place.
LEMMA TopicGrows ==
    ASSUME EngineInv, TopicInv, ReadRaw
    PROVE  /\ partition' \in Seq(Partitions) /\ Len(partition') = Len(topic')
           /\ DOMAIN topic \subseteq DOMAIN topic'
           /\ \A n \in DOMAIN topic : topic'[n] = topic[n] /\ partition'[n] = partition[n]
           /\ UNCHANGED <<states, read, handled>>
<1>1. PICK i \in Ids : \E u : topic' \in {topic, Append(topic, [id |-> i, update |-> u])}
  <2>1. PICK e \in Feed, i \in Ids : Book!HandleLevels(e, i) \/ Book!HandleChange(e, i)
    BY DEF ReadRaw
  <2>2. \E u : Book!Emit(i, u)
    BY <2>1 DEF Book!HandleLevels, Book!HandleChange
  <2>3. QED
    BY <2>2 DEF Book!Emit
<1>2. /\ topic \in Seq([id : Ids, update : Book!View])
      /\ partition \in Seq(Partitions) /\ Len(partition) = Len(topic)
      /\ UNCHANGED <<states, read, handled>>
  BY DEF EngineInv, Book!TypeOK, TopicInv, ReadRaw
<1>3. \/ topic' = topic /\ UNCHANGED partition
      \/ topic' # topic /\ \E p \in Partitions : partition' = Append(partition, p)
  BY DEF ReadRaw, Publish
<1>4. CASE topic' = topic
  BY <1>2, <1>3, <1>4
<1>5. CASE topic' # topic
  <2>1. PICK u : topic' = Append(topic, [id |-> i, update |-> u])
    BY <1>1, <1>5
  <2>2. /\ Len(topic') = Len(topic) + 1 /\ DOMAIN topic = 1 .. Len(topic)
        /\ DOMAIN topic' = 1 .. Len(topic) + 1
        /\ \A n \in DOMAIN topic : topic'[n] = topic[n]
    BY <1>2, <2>1
  <2>3. PICK p \in Partitions : partition' = Append(partition, p)
    BY <1>3, <1>5
  <2>4. /\ partition' \in Seq(Partitions) /\ Len(partition') = Len(topic) + 1
        /\ \A n \in 1 .. Len(topic) : partition'[n] = partition[n]
    BY <1>2, <2>3
  <2>5. Len(topic) \in Nat
    BY <1>2
  <2>6. QED
    BY <1>2, <2>2, <2>4, <2>5
<1>6. QED
  BY <1>4, <1>5

LEMMA TopicStep == EngineInv /\ TopicInv /\ [ProcNext]_procVars => TopicInv'
<1> SUFFICES ASSUME EngineInv, TopicInv, [ProcNext]_procVars PROVE TopicInv'
  OBVIOUS
<1>0. DOMAIN topic = 1 .. Len(topic) /\ Len(topic) \in Nat
  BY DEF EngineInv, Book!TypeOK
<1>1. CASE ReadRaw
  <2>1. /\ partition' \in Seq(Partitions) /\ Len(partition') = Len(topic')
        /\ DOMAIN topic \subseteq DOMAIN topic'
        /\ \A n \in DOMAIN topic : partition'[n] = partition[n]
        /\ UNCHANGED <<read, handled>>
    BY <1>1, TopicGrows
  <2>2. ReadInOrder'
    <3> SUFFICES ASSUME NEW n \in read, NEW k \in 1 .. n - 1, partition'[k] = partition'[n]
                 PROVE  k \in read
      BY <2>1 DEF ReadInOrder
    <3>1. n \in DOMAIN topic
      BY DEF TopicInv
    <3>2. k \in DOMAIN topic
      BY <1>0, <3>1
    <3>3. partition[k] = partition[n]
      BY <2>1, <3>1, <3>2
    <3>4. QED
      BY <3>3 DEF TopicInv, ReadInOrder
  <2>3. QED
    BY <2>1, <2>2 DEF TopicInv
<1>2. ASSUME UNCHANGED <<topic, partition>>, handled' \subseteq read',
             read \subseteq read',
             \A n \in read' \ read : n \in DOMAIN topic /\ IsNext(n)
      PROVE  TopicInv'
  <2>1. ReadInOrder'
    BY <1>2 DEF TopicInv, ReadInOrder, IsNext
  <2>2. QED
    BY <1>2, <2>1 DEF TopicInv
<1>3. CASE ReadBook
  <2>1. PICK n \in DOMAIN topic : /\ IsNext(n) /\ read' = read \union {n}
                                  /\ handled' = handled \union {n}
                                  /\ UNCHANGED <<topic, partition>>
    BY <1>3 DEF ReadBook, bookVars
  <2>2. handled' \subseteq read'
    BY <2>1 DEF TopicInv
  <2>3. read \subseteq read' /\ \A m \in read' \ read : m \in DOMAIN topic /\ IsNext(m)
    BY <2>1
  <2>4. QED
    BY <1>2, <2>1, <2>2, <2>3
<1>4. CASE RestartAll
  <2>1. /\ handled' = {} /\ UNCHANGED <<topic, partition>>
        /\ \E lost \in SUBSET {n \in DOMAIN topic : IsNext(n)} : read' = read \union lost
    BY <1>4 DEF RestartAll, Book!Restart
  <2>2. PICK lost \in SUBSET {n \in DOMAIN topic : IsNext(n)} : read' = read \union lost
    BY <2>1
  <2>3. /\ handled' \subseteq read' /\ read \subseteq read'
        /\ \A n \in read' \ read : n \in DOMAIN topic /\ IsNext(n)
    BY <2>1, <2>2
  <2>4. QED
    BY <1>2, <2>1, <2>2, <2>3
<1>5. CASE ReadTrade \/ StorePrice \/ Later \/ UNCHANGED procVars
  <2>1. UNCHANGED <<topic, partition, read, handled>>
    BY <1>5 DEF ReadTrade, StorePrice, Later, Book!Expire, procVars, bookVars, topicVars
  <2>2. QED
    BY <2>1 DEF TopicInv, ReadInOrder
<1>6. QED
  BY <1>1, <1>3, <1>4, <1>5 DEF ProcNext

\* A step of the processor is a step of the price engine or does not change it.
LEMMA PriceStep == EngineInv /\ [ProcNext]_procVars => [Next]_vars
<1> SUFFICES ASSUME EngineInv, [ProcNext]_procVars PROVE [Next]_vars
  OBVIOUS
<1>1. CASE ReadRaw
  <2>1. UNCHANGED starts
    BY <1>1 DEF ReadRaw, Book!HandleLevels, Book!HandleChange, Book!Fetched
  <2>2. QED
    BY <1>1, <2>1 DEF ReadRaw, vars
<1>2. CASE ReadTrade
  BY <1>2 DEF ReadTrade, Next
<1>3. CASE ReadBook
  <2>1. PICK n \in DOMAIN topic : OnBook(topic[n].id, Quoted(topic[n].update))
    BY <1>3 DEF ReadBook
  <2>2. topic[n].id \in Ids /\ topic[n].update \in Book!View
    BY MessageIs
  <2>3. /\ topic[n].update.token \in Tokens
        /\ topic[n].update.bestBid \in Prices("bids")
        /\ topic[n].update.bestAsk \in Prices("asks")
    BY <2>2 DEF EngineInv, BookInv, Book!View
  <2>4. Quoted(topic[n].update) \in Updates
    BY <2>3, ProcessorAssumption DEF Quoted
  <2>5. QED
    BY <2>1, <2>2, <2>4 DEF Next
<1>4. CASE StorePrice
  BY <1>4 DEF StorePrice, Next
<1>5. CASE Later
  BY <1>5 DEF Later, Next
<1>6. CASE RestartAll
  BY <1>6 DEF RestartAll, Next
<1>7. CASE UNCHANGED procVars
  BY <1>7 DEF procVars
<1>8. QED
  BY <1>1, <1>2, <1>3, <1>4, <1>5, <1>6, <1>7 DEF ProcNext

\* The largest of a bounded set of numbers.
LEMMA MaxIs ==
    ASSUME NEW S \in SUBSET Nat, NEW m \in S, \A n \in S : n <= m
    PROVE  Max(S) = m
<1>1. \A x \in S : (\A y \in S : x >= y) => x = m
  OBVIOUS
<1>2. \A y \in S : m >= y
  OBVIOUS
<1>3. QED
  BY <1>1, <1>2 DEF Max

\* The price of a market is that of the newest of the updates it heard.
LEMMA FollowStep ==
    TypeOK /\ WindowInv /\ EngineInv /\ TopicInv /\ PriceFollowsBook /\ [ProcNext]_procVars
       => PriceFollowsBook'
<1> SUFFICES ASSUME TypeOK, WindowInv, EngineInv, TopicInv, PriceFollowsBook,
                    [ProcNext]_procVars
             PROVE  PriceFollowsBook'
  OBVIOUS
<1>0. /\ DOMAIN topic = 1 .. Len(topic) /\ Len(topic) \in Nat
      /\ handled \subseteq read /\ read \subseteq DOMAIN topic
  BY DEF EngineInv, Book!TypeOK, TopicInv
<1>1. ASSUME handled' = handled,
             \A n \in handled : topic'[n] = topic[n] /\ partition'[n] = partition[n],
             \A i \in Ids : states'[i].bid = states[i].bid /\ states'[i].ask = states[i].ask
      PROVE  PriceFollowsBook'
  <2> SUFFICES ASSUME NEW i \in Ids, Heard(i)' # {},
                      \A n, k \in Heard(i)' : partition'[n] = partition'[k]
               PROVE  /\ states'[i].bid = topic'[Max(Heard(i)')].update.bestBid
                      /\ states'[i].ask = topic'[Max(Heard(i)')].update.bestAsk
    BY DEF PriceFollowsBook
  <2>1. Heard(i)' = Heard(i) /\ Heard(i) \subseteq handled
    BY <1>1 DEF Heard
  <2>2. \A n, k \in Heard(i) : partition[n] = partition[k]
    BY <1>1, <2>1
  <2>3. Max(Heard(i)) \in handled
    <3>1. PICK m \in Heard(i) : \A n \in Heard(i) : n <= m
      <4> DEFINE T == {b \in Nat : \A n \in Heard(i) : n <= b}
      <4>1. \A n \in Heard(i) : n \in Nat /\ n <= Len(topic)
        BY <1>0, <2>1
      <4>2. Len(topic) \in T
        BY <1>0, <4>1
      <4>3. PICK b \in T : \A c \in T : b <= c
        <5>1. T \in SUBSET Nat /\ T # {}
          BY <4>2
        <5> HIDE DEF T
        <5>2. QED
          BY <5>1, Least
      <4>4. b \in Heard(i)
        <5> SUFFICES ASSUME b \notin Heard(i) PROVE FALSE
          OBVIOUS
        <5>1. \A n \in Heard(i) : n <= b - 1
          BY <4>1, <4>3
        <5>2. b - 1 \in Nat
          BY <2>1, <4>1, <4>3, <5>1
        <5>3. b - 1 \in T
          BY <5>1, <5>2
        <5>4. QED
          BY <4>3, <5>3
      <4>5. QED
        BY <4>3, <4>4
    <3>2. Heard(i) \in SUBSET Nat
      BY <1>0, <2>1
    <3>3. QED
      BY <2>1, <3>1, <3>2, MaxIs
  <2>4. /\ states[i].bid = topic[Max(Heard(i))].update.bestBid
        /\ states[i].ask = topic[Max(Heard(i))].update.bestAsk
    BY <2>1, <2>2 DEF PriceFollowsBook
  <2>5. QED
    BY <1>1, <2>1, <2>3, <2>4
<1>2. CASE ReadRaw
  BY <1>0, <1>1, <1>2, TopicGrows
<1>3. CASE ReadTrade
  <2>1. PICK i \in Ids, t \in Trades : OnTrade(i, t)
    BY <1>3 DEF ReadTrade
  <2>2. states' = [states EXCEPT ![i] = Traded(states[i], t)]
    BY <2>1 DEF OnTrade, ChangeState
  <2>3. /\ Traded(states[i], t).bid = states[i].bid
        /\ Traded(states[i], t).ask = states[i].ask
    BY DEF Traded, TypeOK, State
  <2>4. \A j \in Ids : states'[j].bid = states[j].bid /\ states'[j].ask = states[j].ask
    BY <2>2, <2>3 DEF TypeOK
  <2>5. UNCHANGED <<topic, partition, handled>>
    BY <1>3 DEF ReadTrade, bookVars, topicVars
  <2>6. QED
    BY <1>1, <2>4, <2>5
<1>4. CASE StorePrice \/ Later \/ UNCHANGED procVars
  <2>1. UNCHANGED <<topic, partition, handled, states>>
    BY <1>4 DEF StorePrice, Store, Later, Tick, Book!Expire, procVars, vars, bookVars,
                topicVars
  <2>2. QED
    BY <1>1, <2>1
<1>5. CASE RestartAll
  <2>1. \A i \in Ids : Heard(i)' = {}
    BY <1>5 DEF RestartAll, Heard
  <2>2. QED
    BY <2>1 DEF PriceFollowsBook
<1>6. CASE ReadBook
  <2>1. PICK n \in DOMAIN topic :
           /\ IsNext(n) /\ OnBook(topic[n].id, Quoted(topic[n].update))
           /\ handled' = handled \union {n} /\ UNCHANGED <<topic, partition>>
    BY <1>6 DEF ReadBook, bookVars
  <2> DEFINE u == topic[n].update
  <2>2. PICK i \in Ids : i = topic[n].id
    BY MessageIs
  <2>3. CASE u.bestBid > 0 /\ u.bestAsk > 0
    <3>1. states' = [states EXCEPT ![i] = [states[i] EXCEPT !.bid = u.bestBid, !.ask = u.bestAsk]]
      BY <2>1, <2>2, <2>3 DEF OnBook, Quoted, ChangeState
    <3>2. /\ states'[i].bid = u.bestBid /\ states'[i].ask = u.bestAsk
          /\ \A j \in Ids \ {i} : states'[j] = states[j]
      BY <2>2, <3>1 DEF TypeOK, State
    <3>3. Heard(i)' = Heard(i) \union {n}
      BY <2>1, <2>2, <2>3 DEF Heard
    <3>4. ASSUME \A m, k \in Heard(i)' : partition[m] = partition[k]
          PROVE  Max(Heard(i)') = n
      <4>1. ASSUME NEW m \in Heard(i), m > n PROVE FALSE
        <5>1. m \in read /\ partition[n] = partition[m] /\ m \in Nat
          BY <1>0, <3>3, <3>4 DEF Heard
        <5>2. n \in 1 .. m - 1
          BY <1>0, <4>1, <5>1
        <5>3. n \in read
          BY <5>1, <5>2 DEF TopicInv, ReadInOrder
        <5>4. QED
          BY <2>1, <5>3 DEF IsNext
      <4>2. Heard(i)' \in SUBSET Nat /\ n \in Heard(i)'
        BY <1>0, <3>3 DEF Heard
      <4>3. \A m \in Heard(i)' : m <= n
        BY <3>3, <4>1, <4>2
      <4>4. QED
        BY <4>2, <4>3, MaxIs
    <3> SUFFICES ASSUME NEW j \in Ids, Heard(j)' # {},
                        \A m, k \in Heard(j)' : partition[m] = partition[k]
                 PROVE  /\ states'[j].bid = topic[Max(Heard(j)')].update.bestBid
                        /\ states'[j].ask = topic[Max(Heard(j)')].update.bestAsk
      BY <2>1 DEF PriceFollowsBook
    <3>5. CASE j = i
      <4>1. Max(Heard(i)') = n
        BY <3>4, <3>5
      <4>2. QED
        BY <3>2, <3>5, <4>1
    <3>6. CASE j # i
      <4>1. Heard(j)' = Heard(j)
        BY <2>1, <2>2, <3>6 DEF Heard
      <4>2. QED
        BY <3>2, <3>6, <4>1 DEF PriceFollowsBook
    <3>7. QED
      BY <3>5, <3>6
  <2>4. CASE ~(u.bestBid > 0 /\ u.bestAsk > 0)
    <3>1. states' = states
      BY <2>1, <2>4 DEF OnBook, Quoted
    <3>2. \A j \in Ids : Heard(j)' = Heard(j)
      BY <2>1, <2>4 DEF Heard
    <3>3. QED
      BY <2>1, <3>1, <3>2 DEF PriceFollowsBook
  <2>5. QED
    BY <2>3, <2>4
<1>7. QED
  BY <1>2, <1>3, <1>4, <1>5, <1>6 DEF ProcNext

LEMMA ProcStart ==
    ProcInit => Init /\ TypeOK /\ WindowInv /\ EngineInv /\ TopicInv /\ PriceFollowsBook
<1> SUFFICES ASSUME ProcInit
             PROVE  Init /\ TypeOK /\ WindowInv /\ EngineInv /\ TopicInv /\ PriceFollowsBook
  OBVIOUS
<1>1. Init /\ TypeOK /\ WindowInv /\ EngineInv
  BY EngineInit, BookInit DEF ProcInit
<1>2. partition = <<>> /\ topic = <<>> /\ read = {} /\ handled = {}
  BY DEF ProcInit, Book!Init
<1>3. TopicInv
  BY <1>2 DEF TopicInv, ReadInOrder
<1>4. PriceFollowsBook
  BY <1>2 DEF PriceFollowsBook, Heard
<1>5. QED
  BY <1>1, <1>3, <1>4

\* The price engine's variables in the processor behave as its specification,
\* fed with any updates, says.
LEMMA PriceEngineAlone == ProcSpec => Spec
<1>1. QED
  BY ProcStart, BookStep, PriceStep, PTL DEF ProcSpec, Spec

\* So what is shown of the price engine holds in the processor.
THEOREM ProcessorPrices ==
    ProcSpec => [](PricesAreSnapshots /\ VolumeIsWindow /\ StaleOnlyIfOvertaken)
<1>1. QED
  BY PriceEngineAlone, Snapshots, VolumeOfWindow, StaleIsOvertaken, PTL

\* Types in the processor; a message has a partition, and nothing is handled
\* that was not read.
THEOREM ProcessorTypes == ProcSpec => []ProcTypeOK
<1>1. EngineInv /\ TopicInv /\ TypeOK => ProcTypeOK
  BY DEF EngineInv, TopicInv, ProcTypeOK
<1>2. ProcSpec => [](EngineInv /\ TopicInv)
  BY ProcStart, BookStep, TopicStep, PTL DEF ProcSpec
<1>3. ProcSpec => []TypeOK
  BY PriceEngineAlone, EngineTypes, PTL
<1>4. QED
  BY <1>1, <1>2, <1>3, PTL

\* Each book in memory is the last whole book with the level changes since
\* then, and Redis shows the top of one, with no better level left out
\* (main.go 198-239, 500-541).
THEOREM BooksReplayed == ProcSpec => []BooksAreReplayed
<1>1. EngineInv => BooksAreReplayed
  BY DEF EngineInv, BookInv, BooksAreReplayed
<1>2. QED
  BY <1>1, ProcStart, BookStep, PTL DEF ProcSpec

\* The price of a market is that of the newest book that was read, as long as
\* its updates came through one partition (main.go 323-361, kafka.go 48-57).
THEOREM PriceFollows == ProcSpec => []PriceFollowsBook
<1>1. TypeOK /\ WindowInv /\ EngineInv /\ [ProcNext]_procVars => (TypeOK /\ WindowInv)'
  BY PriceStep, TypeStep
<1>2. QED
  BY <1>1, ProcStart, BookStep, TopicStep, FollowStep, PTL DEF ProcSpec
=============================================================================
