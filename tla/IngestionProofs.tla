-------------------------- MODULE IngestionProofs ---------------------------
(***************************************************************************)
(* Theorems about two parts of the ingestion service that share no state:  *)
(* the candle table its aggregator writes (Candles), and the on-chain      *)
(* indexer (Indexer), for any pool of endpoints and any limits.  The names *)
(* of Candles carry its own, so that both can be extended here.            *)
(***************************************************************************)
EXTENDS Indexer, Candles, FiniteSetTheorems, WellFoundedInduction, TLAPS

-----------------------------------------------------------------------------
(***************************************************************************)
(* Sums over finite sets.  IsTotals(g, f, S): g[T] is the sum of f[x] over *)
(* x in T, for every part T of S.                                          *)
(***************************************************************************)
IsTotals(g, f, S) ==
    /\ g \in [SUBSET S -> Nat]
    /\ g[{}] = 0
    /\ \A T \in SUBSET S : \A x \in T : g[T] = f[x] + g[T \ {x}]

NatOn(f, S) == IsFiniteSet(S) /\ \A x \in S : f[x] \in Nat

\* The least of some natural numbers.
LEMMA Least == ASSUME NEW T \in SUBSET Nat, T # {} PROVE \E m \in T : \A n \in T : m <= n
<1> DEFINE R == {p \in Nat \X Nat : p[1] < p[2]}
<1>1. IsWellFoundedOn(R, Nat)
  BY NatLessThanWellFounded DEF OpToRel
<1>2. PICK m \in T : \A n \in T : <<n, m>> \notin R
  BY <1>1, WFMin
<1>3. ASSUME NEW n \in T, n < m PROVE <<n, m>> \in R
  <2>1. n \in Nat /\ m \in Nat
    OBVIOUS
  <2>2. <<n, m>> \in Nat \X Nat
    BY <2>1
  <2>3. QED
    BY <1>3, <2>2
<1>4. \A n \in T : ~(n < m)
  <2> HIDE DEF R
  <2>1. QED
    BY <1>2, <1>3
<1>5. T \subseteq Nat
  OBVIOUS
<1>6. QED
  BY <1>4, <1>5

LEMMA Induct ==
    ASSUME NEW T, 0 \in T, \A n \in Nat : n \in T => n + 1 \in T
    PROVE  Nat \subseteq T
<1> SUFFICES ASSUME Nat \ T # {} PROVE FALSE
  OBVIOUS
<1>1. PICK m \in Nat \ T : \A n \in Nat \ T : m <= n
  BY Least
<1>2. m - 1 \in Nat \ T
  BY <1>1
<1>3. QED
  BY <1>1, <1>2

\* Adding an element to a set for which there are totals.
LEMMA TotalsGrow ==
    ASSUME NEW S, NEW y \in S, NEW f, NEW g0, IsTotals(g0, f, S \ {y}),
           \A x \in S : f[x] \in Nat
    PROVE  \E g : IsTotals(g, f, S)
<1> DEFINE g == [U \in SUBSET S |-> IF y \in U THEN f[y] + g0[U \ {y}] ELSE g0[U]]
<1>1. \A U \in SUBSET S : y \notin U => U \in SUBSET (S \ {y})
  OBVIOUS
<1>2. \A U \in SUBSET S : U \ {y} \in SUBSET (S \ {y})
  OBVIOUS
<1>3. g \in [SUBSET S -> Nat]
  <2>1. ASSUME NEW U \in SUBSET S
        PROVE (IF y \in U THEN f[y] + g0[U \ {y}] ELSE g0[U]) \in Nat
    <3>1. g0[U \ {y}] \in Nat
      BY <1>2 DEF IsTotals
    <3>2. y \notin U => g0[U] \in Nat
      BY <1>1 DEF IsTotals
    <3>3. QED
      BY <3>1, <3>2
  <2>2. QED
    BY <2>1
<1>4. g[{}] = 0
  BY DEF IsTotals
<1>5. ASSUME NEW T \in SUBSET S, NEW x \in T PROVE g[T] = f[x] + g[T \ {x}]
  <2>0. T \ {x} \in SUBSET S
    OBVIOUS
  <2>1. CASE y \notin T
    <3>1. T \in SUBSET (S \ {y})
      BY <2>1
    <3>2. g0[T] = f[x] + g0[T \ {x}]
      BY <3>1 DEF IsTotals
    <3>3. g[T] = g0[T] /\ g[T \ {x}] = g0[T \ {x}]
      BY <2>0, <2>1
    <3>4. QED
      BY <3>2, <3>3
  <2>2. CASE x = y
    <3>1. g[T] = f[y] + g0[T \ {y}]
      BY <2>2
    <3>2. g[T \ {y}] = g0[T \ {y}]
      BY <2>0, <2>2
    <3>3. QED
      BY <2>2, <3>1, <3>2
  <2>3. CASE y \in T /\ x # y
    <3>1. g[T] = f[y] + g0[T \ {y}] /\ g[T \ {x}] = f[y] + g0[(T \ {x}) \ {y}]
      BY <2>0, <2>3
    <3>2. x \in T \ {y} /\ T \ {y} \in SUBSET (S \ {y})
      BY <2>3
    <3>3. g0[T \ {y}] = f[x] + g0[(T \ {y}) \ {x}]
      BY <3>2 DEF IsTotals
    <3>4. (T \ {y}) \ {x} = (T \ {x}) \ {y}
      OBVIOUS
    <3>5. g0[(T \ {x}) \ {y}] \in Nat /\ g0[T \ {y}] \in Nat
      BY <1>2, <2>0 DEF IsTotals
    <3> DEFINE a == g0[T \ {y}]
               b == g0[(T \ {x}) \ {y}]
    <3>6. a = f[x] + b
      BY <3>3, <3>4
    <3>7. g[T] = f[y] + a /\ g[T \ {x}] = f[y] + b
      BY <3>1
    <3>8. a \in Nat /\ b \in Nat /\ f[x] \in Nat /\ f[y] \in Nat
      BY <3>5
    <3> HIDE DEF a, b, g
    <3>9. QED
      BY <3>6, <3>7, <3>8
  <2>4. QED
    BY <2>1, <2>2, <2>3
<1> HIDE DEF g
<1>6. QED
  BY <1>3, <1>4, <1>5 DEF IsTotals

LEMMA TotalsExist ==
    ASSUME NEW S, NEW f, NatOn(f, S)
    PROVE  \E g : IsTotals(g, f, S)
<1> DEFINE Small(n) == \A T \in SUBSET S : Cardinality(T) = n => \E g : IsTotals(g, f, T)
           Sizes == {n \in Nat : Small(n)}
<1>0. \A T \in SUBSET S : IsFiniteSet(T) /\ Cardinality(T) \in Nat
  BY FS_Subset, FS_CardinalityType DEF NatOn
<1>1. 0 \in Sizes
  <2> DEFINE g == [T \in SUBSET {} |-> 0]
  <2>1. IsTotals(g, f, {})
    BY DEF IsTotals
  <2>2. \A T \in SUBSET S : Cardinality(T) = 0 => T = {}
    BY <1>0, FS_EmptySet
  <2>3. QED
    BY <2>1, <2>2
<1>2. ASSUME NEW n \in Nat, n \in Sizes PROVE n + 1 \in Sizes
  <2> SUFFICES ASSUME NEW T \in SUBSET S, Cardinality(T) = n + 1
               PROVE  \E g : IsTotals(g, f, T)
    OBVIOUS
  <2>1. IsFiniteSet(T) /\ T # {}
    BY <1>0, FS_EmptySet
  <2>2. PICK y \in T : TRUE
    BY <2>1
  <2>3. Cardinality(T \ {y}) = n
    BY <2>1, <2>2, FS_RemoveElement
  <2>4. PICK g0 : IsTotals(g0, f, T \ {y})
    BY <1>2, <2>3
  <2>5. \A x \in T : f[x] \in Nat
    BY DEF NatOn
  <2>6. QED
    BY <2>2, <2>4, <2>5, TotalsGrow
<1>3. Nat \subseteq Sizes
  <2> HIDE DEF Sizes
  <2>1. QED
    BY <1>1, <1>2, Induct
<1>4. Cardinality(S) \in Sizes
  BY <1>0, <1>3
<1>5. QED
  BY <1>4

\* Totals are determined by any order in which elements are taken out.
TakesOut(h, f, S) ==
    /\ h[{}] = 0
    /\ \A T \in SUBSET S : T # {} => \E x \in T : h[T] = f[x] + h[T \ {x}]

LEMMA TotalsUnique ==
    ASSUME NEW S, IsFiniteSet(S), NEW f, NEW g, IsTotals(g, f, S),
           NEW h, TakesOut(h, f, S)
    PROVE  h[S] = g[S]
<1> DEFINE Sizes == {n \in Nat : \A T \in SUBSET S : Cardinality(T) = n => h[T] = g[T]}
<1>0. \A T \in SUBSET S : IsFiniteSet(T) /\ Cardinality(T) \in Nat
  BY FS_Subset, FS_CardinalityType
<1>1. 0 \in Sizes
  <2>1. \A T \in SUBSET S : Cardinality(T) = 0 => T = {}
    BY <1>0, FS_EmptySet
  <2>2. QED
    BY <2>1 DEF IsTotals, TakesOut
<1>2. ASSUME NEW n \in Nat, n \in Sizes PROVE n + 1 \in Sizes
  <2> SUFFICES ASSUME NEW T \in SUBSET S, Cardinality(T) = n + 1 PROVE h[T] = g[T]
    OBVIOUS
  <2>1. IsFiniteSet(T) /\ T # {}
    BY <1>0, FS_EmptySet
  <2>2. PICK x \in T : h[T] = f[x] + h[T \ {x}]
    BY <2>1 DEF TakesOut
  <2> DEFINE U == T \ {x}
  <2>3. Cardinality(U) = n
    <3>1. Cardinality(U) = Cardinality(T) - 1
      BY <2>1, FS_RemoveElement
    <3>2. QED
      BY <3>1
  <2>4. h[U] = g[U]
    BY <1>2, <2>3
  <2>5. g[T] = f[x] + g[T \ {x}]
    BY DEF IsTotals
  <2>6. QED
    BY <2>2, <2>4, <2>5
<1>3. Nat \subseteq Sizes
  <2> HIDE DEF Sizes
  <2>1. QED
    BY <1>1, <1>2, Induct
<1>4. Cardinality(S) \in Sizes
  BY <1>0, <1>3
<1>5. QED
  BY <1>4

-----------------------------------------------------------------------------
(***************************************************************************)
(* Trades counted by a bag of rows.                                        *)
(***************************************************************************)
OfWindow(B, w) == {r \in BagToSet(B) : r.window = w}

CountedIn(B, w) == MapThenSumSet(LAMBDA r : r.candle.count * B[r], OfWindow(B, w))

Weights(B, w) == [r \in OfWindow(B, w) |-> r.candle.count * B[r]]

\* A bag that has finitely many rows of w.
Countable(B, w) ==
    /\ IsABag(B) /\ IsFiniteSet(OfWindow(B, w))
    /\ \A r \in OfWindow(B, w) : r.candle.count \in Nat

LEMMA WeightsType ==
    ASSUME NEW B, NEW w, Countable(B, w)
    PROVE  NatOn(Weights(B, w), OfWindow(B, w))
<1>1. ASSUME NEW r \in OfWindow(B, w) PROVE Weights(B, w)[r] \in Nat
  <2>1. B[r] \in Nat /\ r.candle.count \in Nat
    BY DEF Countable, IsABag, OfWindow, BagToSet
  <2>2. \A m, n \in Nat : m * n \in Nat
    OBVIOUS
  <2>3. QED
    BY <2>1, <2>2 DEF Weights
<1>2. QED
  BY <1>1 DEF NatOn, Countable

LEMMA CountedIs ==
    ASSUME NEW B, NEW w, Countable(B, w), NEW g,
           IsTotals(g, Weights(B, w), OfWindow(B, w))
    PROVE  CountedIn(B, w) = g[OfWindow(B, w)]
<1> DEFINE S == OfWindow(B, w)
           f == Weights(B, w)
           Pick(s) == CHOOSE x \in s : TRUE
           step(i) == [s \in SUBSET S |->
                         IF s = {} THEN 0
                         ELSE Pick(s).candle.count * B[Pick(s)] + i[s \ {Pick(s)}]]
           iter == CHOOSE i : i = step(i)
<1>1. CountedIn(B, w) = iter[S]
  BY DEF CountedIn, MapThenSumSet, MapThenFoldSet
<1>2. \A s \in SUBSET S : s # {} => Pick(s) \in s
  OBVIOUS
<1> HIDE DEF Pick
<1>3. ASSUME NEW s \in SUBSET S, NEW x \in s
      PROVE  x.candle.count * B[x] = f[x] /\ g[s] = f[x] + g[s \ {x}]
  BY DEF Weights, IsTotals
<1>4. \A s \in SUBSET S : s # {} =>
         g[s] = Pick(s).candle.count * B[Pick(s)] + g[s \ {Pick(s)}]
  <2> HIDE DEF S, f
  <2>1. QED
    BY <1>2, <1>3
<1>5. g = [s \in SUBSET S |-> g[s]] /\ g[{}] = 0
  BY DEF IsTotals
<1>6. g = step(g)
  BY <1>4, <1>5
<1>7. iter = step(iter)
  <2> HIDE DEF step
  <2>1. QED
    BY <1>6
<1> HIDE DEF iter
<1>8. \A s \in SUBSET S :
         iter[s] = IF s = {} THEN 0
                   ELSE Pick(s).candle.count * B[Pick(s)] + iter[s \ {Pick(s)}]
  BY <1>7
<1>9. iter[{}] = 0
  BY <1>8
<1>10. IsFiniteSet(S) /\ IsTotals(g, f, S)
  BY DEF Countable
<1> HIDE DEF S, f
<1>11. ASSUME NEW s \in SUBSET S, s # {}
       PROVE  \E x \in s : iter[s] = f[x] + iter[s \ {x}]
  <2>1. Pick(s) \in s
    BY <1>2, <1>11
  <2>2. iter[s] = f[Pick(s)] + iter[s \ {Pick(s)}]
    BY <1>3, <1>8, <1>11, <2>1
  <2>3. QED
    BY <2>1, <2>2
<1>12. iter[S] = g[S]
  <2>1. TakesOut(iter, f, S)
    BY <1>9, <1>11 DEF TakesOut
  <2>2. QED
    BY <1>10, <2>1, TotalsUnique
<1>13. QED
  BY <1>1, <1>12 DEF S

LEMMA CountedType ==
    ASSUME NEW B, NEW w, Countable(B, w) PROVE CountedIn(B, w) \in Nat
<1>1. PICK g : IsTotals(g, Weights(B, w), OfWindow(B, w))
  BY WeightsType, TotalsExist
<1>2. CountedIn(B, w) = g[OfWindow(B, w)]
  BY <1>1, CountedIs
<1>3. QED
  BY <1>1, <1>2 DEF IsTotals

\* Totals of a part count for the whole when the rest weighs nothing.
Extended(g, S, U) == [T \in SUBSET U |-> g[T \cap S]]

IsZeroOutside(h, f, S, U) ==
    /\ S \subseteq U
    /\ \A x \in S : h[x] = f[x]
    /\ \A x \in U \ S : h[x] = 0

LEMMA TotalsOfPart ==
    ASSUME NEW U, NEW S, NEW f, NEW h, NEW g, IsTotals(g, f, S), IsZeroOutside(h, f, S, U)
    PROVE  IsTotals(Extended(g, S, U), h, U)
<1> DEFINE k == [T \in SUBSET U |-> g[T \cap S]]
<1>0. S \subseteq U /\ (\A x \in S : h[x] = f[x]) /\ \A x \in U \ S : h[x] = 0
  BY DEF IsZeroOutside
<1>1. \A T \in SUBSET U : T \cap S \in SUBSET S /\ g[T \cap S] \in Nat
  BY DEF IsTotals
<1>2. k \in [SUBSET U -> Nat]
  BY <1>1
<1>3. k[{}] = 0
  <2>1. {} \cap S = {} /\ {} \in SUBSET U
    OBVIOUS
  <2>2. QED
    BY <2>1 DEF IsTotals
<1>4. ASSUME NEW T \in SUBSET U, NEW x \in T PROVE k[T] = h[x] + k[T \ {x}]
  <2>1. k[T] = g[T \cap S] /\ k[T \ {x}] = g[(T \ {x}) \cap S]
    OBVIOUS
  <2>2. CASE x \in S
    <3>1. (T \ {x}) \cap S = (T \cap S) \ {x} /\ x \in T \cap S
      BY <2>2
    <3>2. g[T \cap S] = f[x] + g[(T \cap S) \ {x}]
      BY <1>1, <3>1 DEF IsTotals
    <3>3. QED
      BY <1>0, <2>1, <2>2, <3>1, <3>2
  <2>3. CASE x \notin S
    <3>1. (T \ {x}) \cap S = T \cap S
      BY <2>3
    <3>2. h[x] = 0
      BY <1>0, <2>3
    <3>3. k[T] = k[T \ {x}] /\ k[T] \in Nat
      BY <1>1, <2>1, <3>1
    <3> HIDE DEF k
    <3>4. QED
      BY <3>2, <3>3
  <2>4. QED
    BY <2>2, <2>3
<1> HIDE DEF k
<1>5. IsTotals(k, h, U)
  BY <1>2, <1>3, <1>4 DEF IsTotals
<1>6. QED
  BY <1>5 DEF k, Extended

\* Totals of a sum.
LEMMA TotalsOfSum ==
    ASSUME NEW U, NEW f, NEW h, NEW k, NatOn(f, U), NatOn(h, U),
           \A x \in U : k[x] = f[x] + h[x],
           NEW a, IsTotals(a, f, U), NEW b, IsTotals(b, h, U)
    PROVE  IsTotals([T \in SUBSET U |-> a[T] + b[T]], k, U)
<1> DEFINE c == [T \in SUBSET U |-> a[T] + b[T]]
<1>1. c \in [SUBSET U -> Nat] /\ c[{}] = 0
  BY DEF IsTotals
<1>2. ASSUME NEW T \in SUBSET U, NEW x \in T PROVE c[T] = k[x] + c[T \ {x}]
  <2> DEFINE V == T \ {x}
  <2>1. V \in SUBSET U
    OBVIOUS
  <2>2. a[T] = f[x] + a[V] /\ b[T] = h[x] + b[V] /\ a[V] \in Nat /\ b[V] \in Nat
    BY <2>1 DEF IsTotals
  <2>3. f[x] \in Nat /\ h[x] \in Nat /\ k[x] = f[x] + h[x]
    BY DEF NatOn
  <2>4. c[T] = a[T] + b[T] /\ c[V] = a[V] + b[V]
    BY <2>1
  <2> HIDE DEF V, c
  <2>5. c[T] = k[x] + c[V]
    BY <2>2, <2>3, <2>4
  <2>6. QED
    BY <2>5 DEF V
<1> HIDE DEF c
<1>3. IsTotals(c, k, U)
  BY <1>1, <1>2 DEF IsTotals
<1>4. QED
  BY <1>3 DEF c

LEMMA SumIsBag ==
    ASSUME NEW A, NEW B, IsABag(A), IsABag(B)
    PROVE  IsABag(A (+) B) /\ DOMAIN (A (+) B) = DOMAIN A \cup DOMAIN B
<1> DEFINE C == A (+) B
<1>1. /\ DOMAIN C = DOMAIN A \cup DOMAIN B /\ C = [r \in DOMAIN C |-> C[r]]
      /\ \A r \in DOMAIN C : C[r] = (IF r \in DOMAIN A THEN A[r] ELSE 0)
                                    + (IF r \in DOMAIN B THEN B[r] ELSE 0)
  BY DEF (+)
<1>2. /\ \A r \in DOMAIN A : A[r] \in Nat /\ A[r] > 0
      /\ \A r \in DOMAIN B : B[r] \in Nat /\ B[r] > 0
  BY DEF IsABag
<1> HIDE DEF C
<1>3. \A r \in DOMAIN C : C[r] \in Nat /\ C[r] > 0
  BY <1>1, <1>2
<1>4. QED
  BY <1>1, <1>3 DEF IsABag, C

\* The bag counts what both parts count.
LEMMA CountedSum ==
    ASSUME NEW A, NEW B, NEW w, Countable(A, w), Countable(B, w)
    PROVE  /\ Countable(A (+) B, w)
           /\ CountedIn(A (+) B, w) = CountedIn(A, w) + CountedIn(B, w)
<1> DEFINE C == A (+) B
           S == OfWindow(A, w)
           T == OfWindow(B, w)
           U == OfWindow(C, w)
           f == [r \in U |-> IF r \in S THEN Weights(A, w)[r] ELSE 0]
           h == [r \in U |-> IF r \in T THEN Weights(B, w)[r] ELSE 0]
           k == Weights(C, w)
<1>1. DOMAIN C = DOMAIN A \cup DOMAIN B
  BY DEF (+)
<1>2. U = S \cup T
  BY <1>1 DEF OfWindow, BagToSet
<1>3. \A r \in DOMAIN C : C[r] = (IF r \in DOMAIN A THEN A[r] ELSE 0)
                                  + (IF r \in DOMAIN B THEN B[r] ELSE 0)
  BY <1>1 DEF (+)
<1>4. /\ \A r \in DOMAIN A : A[r] \in Nat /\ A[r] > 0
      /\ \A r \in DOMAIN B : B[r] \in Nat /\ B[r] > 0
  BY DEF Countable, IsABag
<1>5. IsABag(C)
  BY SumIsBag DEF Countable
<1>6. IsFiniteSet(U) /\ \A r \in U : r.candle.count \in Nat
  BY <1>2, FS_Union DEF Countable
<1>7. Countable(C, w)
  BY <1>5, <1>6 DEF Countable
<1>8. NatOn(Weights(A, w), S) /\ NatOn(Weights(B, w), T)
  BY WeightsType
<1>9. PICK a : IsTotals(a, Weights(A, w), S)
  BY <1>8, TotalsExist
<1>10. PICK b : IsTotals(b, Weights(B, w), T)
  BY <1>8, TotalsExist
<1> DEFINE a2 == Extended(a, S, U)
           b2 == Extended(b, T, U)
           c == [V \in SUBSET U |-> a2[V] + b2[V]]
<1>11. IsTotals(a2, f, U)
  <2>1. IsZeroOutside(f, Weights(A, w), S, U)
    BY <1>2 DEF IsZeroOutside
  <2> HIDE DEF S, U, f
  <2>2. QED
    BY <1>9, <2>1, TotalsOfPart
<1>12. IsTotals(b2, h, U)
  <2>1. IsZeroOutside(h, Weights(B, w), T, U)
    BY <1>2 DEF IsZeroOutside
  <2> HIDE DEF T, U, h
  <2>2. QED
    BY <1>10, <2>1, TotalsOfPart
<1>13. NatOn(f, U) /\ NatOn(h, U)
  BY <1>6, <1>8 DEF NatOn
<1>14. ASSUME NEW r \in U PROVE k[r] = f[r] + h[r]
  <2> DEFINE n == r.candle.count
             i == IF r \in S THEN A[r] ELSE 0
             j == IF r \in T THEN B[r] ELSE 0
  <2>1. n \in Nat /\ i \in Nat /\ j \in Nat
    BY <1>4, <1>6 DEF OfWindow, BagToSet
  <2>2. C[r] = i + j
    BY <1>3 DEF OfWindow, BagToSet
  <2>3. k[r] = n * C[r]
    BY DEF Weights
  <2>4. f[r] = n * i /\ h[r] = n * j
    BY <2>1 DEF Weights
  <2> HIDE DEF n, i, j, C, f, h, k
  <2>5. n * (i + j) = n * i + n * j
    BY <2>1
  <2>6. QED
    BY <2>2, <2>3, <2>4, <2>5
<1>15. IsTotals(c, k, U)
  <2> HIDE DEF U, f, h, k, a2, b2
  <2>1. QED
    BY <1>11, <1>12, <1>13, <1>14, TotalsOfSum
<1>16. CountedIn(C, w) = c[U] /\ CountedIn(A, w) = a[S] /\ CountedIn(B, w) = b[T]
  <2> HIDE DEF C, c
  <2>1. QED
    BY <1>7, <1>9, <1>10, <1>15, CountedIs
<1>17. c[U] = a[S] + b[T]
  <2>1. U \cap S = S /\ U \cap T = T
    BY <1>2
  <2> HIDE DEF U, S, T
  <2>2. QED
    BY <2>1 DEF Extended
<1>18. QED
  BY <1>7, <1>16, <1>17

Left(A, B) == [r \in DOMAIN A |-> IF r \in DOMAIN B THEN A[r] - B[r] ELSE A[r]]

LEMMA RestIsBag ==
    ASSUME NEW A, NEW B, IsABag(A), IsABag(B), B \sqsubseteq A
    PROVE  /\ IsABag(A (-) B) /\ DOMAIN (A (-) B) \subseteq DOMAIN A
           /\ \A r \in DOMAIN A :
                 /\ Left(A, B)[r] \in Nat
                 /\ r \in DOMAIN (A (-) B) <=> Left(A, B)[r] > 0
                 /\ r \in DOMAIN (A (-) B) => (A (-) B)[r] = Left(A, B)[r]
<1> DEFINE C == A (-) B
           left == Left(A, B)
<1>1. \A r \in DOMAIN A : left[r] \in Nat
  BY DEF Left, IsABag, \sqsubseteq
<1>2. C = [r \in {d \in DOMAIN A : left[d] > 0} |-> left[r]]
  BY DEF (-), Left
<1> HIDE DEF left
<1>3. DOMAIN C = {d \in DOMAIN A : left[d] > 0} /\ \A r \in DOMAIN C : C[r] = left[r]
  BY <1>2
<1>4. C = [r \in DOMAIN C |-> C[r]]
  BY <1>2, <1>3
<1> HIDE DEF C
<1>5. IsABag(C)
  BY <1>1, <1>3, <1>4 DEF IsABag
<1>6. QED
  BY <1>1, <1>3, <1>5 DEF C, left

\* Rows that are taken out are no longer counted.
LEMMA CountedRest ==
    ASSUME NEW A, NEW B, NEW w, Countable(A, w), Countable(B, w), B \sqsubseteq A
    PROVE  /\ Countable(A (-) B, w)
           /\ CountedIn(A, w) = CountedIn(A (-) B, w) + CountedIn(B, w)
<1> DEFINE C == A (-) B
           left == Left(A, B)
<1>1. DOMAIN B \subseteq DOMAIN A
  BY DEF \sqsubseteq
<1>2. /\ A = [r \in DOMAIN A |-> A[r]]
      /\ \A r \in DOMAIN A : A[r] \in Nat /\ A[r] > 0
      /\ \A r \in DOMAIN B : B[r] \in Nat /\ B[r] > 0
  BY DEF Countable, IsABag
<1>3. /\ IsABag(C) /\ DOMAIN C \subseteq DOMAIN A
      /\ \A r \in DOMAIN A : /\ left[r] \in Nat
                             /\ r \in DOMAIN C <=> left[r] > 0
                             /\ r \in DOMAIN C => C[r] = left[r]
  BY RestIsBag DEF Countable
<1>4. \A r \in DOMAIN A : left[r] = IF r \in DOMAIN B THEN A[r] - B[r] ELSE A[r]
  BY DEF Left
<1> HIDE DEF left, C
<1>5. DOMAIN C \subseteq DOMAIN A /\ IsABag(C)
  BY <1>3
<1>6. Countable(C, w)
  <2>1. OfWindow(C, w) \in SUBSET OfWindow(A, w)
    BY <1>5 DEF OfWindow, BagToSet
  <2>2. QED
    BY <1>5, <2>1, FS_Subset DEF Countable
<1>7. A = C (+) B
  <2>1. \A r \in DOMAIN A : A[r] = (IF r \in DOMAIN C THEN C[r] ELSE 0)
                                   + (IF r \in DOMAIN B THEN B[r] ELSE 0)
    <3> SUFFICES ASSUME NEW r \in DOMAIN A
                 PROVE  A[r] = (IF r \in DOMAIN C THEN C[r] ELSE 0)
                                + (IF r \in DOMAIN B THEN B[r] ELSE 0)
      OBVIOUS
    <3>1. (IF r \in DOMAIN C THEN C[r] ELSE 0) = left[r]
      BY <1>3
    <3>2. left[r] = IF r \in DOMAIN B THEN A[r] - B[r] ELSE A[r]
      BY <1>4
    <3>3. A[r] \in Nat /\ (r \in DOMAIN B => B[r] \in Nat)
      BY <1>2
    <3>4. QED
      BY <3>1, <3>2, <3>3
  <2>2. DOMAIN A = DOMAIN C \cup DOMAIN B
    <3>1. ASSUME NEW r \in DOMAIN A, r \notin DOMAIN C, r \notin DOMAIN B PROVE FALSE
      BY <1>2, <2>1, <3>1
    <3>2. QED
      BY <1>1, <1>5, <3>1
  <2>3. QED
    BY <1>2, <2>1, <2>2 DEF (+)
<1>8. CountedIn(A, w) = CountedIn(C, w) + CountedIn(B, w)
  BY <1>6, <1>7, CountedSum
<1>9. QED
  BY <1>6, <1>8 DEF C

\* One copy of each of some rows.
LEMMA OnceIs ==
    ASSUME NEW R, NEW w
    PROVE  /\ OfWindow(SetToBag(R), w) = {r \in R : r.window = w}
           /\ IsABag(SetToBag(R))
           /\ \A r \in R : SetToBag(R)[r] = 1
BY DEF OfWindow, SetToBag, BagToSet, IsABag

LEMMA CountedNone ==
    ASSUME NEW R, NEW w, {r \in R : r.window = w} = {}
    PROVE  Countable(SetToBag(R), w) /\ CountedIn(SetToBag(R), w) = 0
<1> DEFINE B == SetToBag(R)
<1>1. IsABag(B) /\ OfWindow(B, w) = {}
  BY OnceIs
<1> HIDE DEF B
<1>2. Countable(B, w)
  BY <1>1, FS_EmptySet DEF Countable
<1>3. PICK g : IsTotals(g, Weights(B, w), OfWindow(B, w))
  BY <1>2, WeightsType, TotalsExist
<1>4. CountedIn(B, w) = g[{}]
  BY <1>1, <1>2, <1>3, CountedIs
<1>5. QED
  BY <1>2, <1>3, <1>4 DEF IsTotals, B

LEMMA CountedOnce ==
    ASSUME NEW R, NEW w, NEW s, {r \in R : r.window = w} = {s}, s.candle.count \in Nat
    PROVE  Countable(SetToBag(R), w) /\ CountedIn(SetToBag(R), w) = s.candle.count
<1> DEFINE B == SetToBag(R)
<1>1. IsABag(B) /\ OfWindow(B, w) = {s} /\ B[s] = 1
  BY OnceIs
<1> HIDE DEF B
<1>2. Countable(B, w)
  BY <1>1, FS_Singleton DEF Countable
<1>3. PICK g : IsTotals(g, Weights(B, w), OfWindow(B, w))
  BY <1>2, WeightsType, TotalsExist
<1>4. CountedIn(B, w) = g[{s}]
  BY <1>1, <1>2, <1>3, CountedIs
<1>5. Weights(B, w)[s] = s.candle.count * 1
  BY <1>1 DEF Weights
<1>6. g[{s}] = Weights(B, w)[s] + g[{s} \ {s}] /\ g[{}] = 0
  BY <1>1, <1>3 DEF IsTotals
<1>7. {s} \ {s} = {}
  OBVIOUS
<1>8. g[{s}] = s.candle.count
  <2> DEFINE n == s.candle.count
  <2>1. g[{s}] = n * 1 + 0
    BY <1>5, <1>6, <1>7
  <2> HIDE DEF n
  <2>2. n \in Nat => n * 1 + 0 = n
    OBVIOUS
  <2>3. QED
    BY <2>1, <2>2 DEF n
<1>9. QED
  BY <1>2, <1>4, <1>8 DEF B

-----------------------------------------------------------------------------
(***************************************************************************)
(* The writers of the candle table.                                        *)
(***************************************************************************)
LEMMA CandleType ==
    ASSUME NEW o \in Nat, NEW h \in Nat, NEW l \in Nat, NEW c \in Nat, NEW n \in Nat
    PROVE  Candle(o, h, l, c, n) \in Candles /\ Candle(o, h, l, c, n).count = n
BY DEF Candle, Candles

LEMMA NoBucketsType ==
    /\ Empty \in Candles /\ Empty.count = 0
    /\ NoBuckets \in [Windows -> Candles]
    /\ \A w \in Windows : NoBuckets[w] = Empty
<1>1. Empty \in Candles /\ Empty.count = 0
  BY CandleType DEF Empty
<1>2. QED
  BY <1>1 DEF NoBuckets

\* A trade makes a bucket count one more.
LEMMA FoldedIs ==
    ASSUME NEW b \in Candles, NEW p \in Prices
    PROVE  Folded(b, p) \in Candles /\ Folded(b, p).count = b.count + 1 /\ Folded(b, p) # Empty
<1>1. p \in Nat
  BY CandlesAssumption
<1>2. b.open \in Nat /\ b.high \in Nat /\ b.low \in Nat /\ b.close \in Nat /\ b.count \in Nat
  BY DEF Candles
<1>3. Folded(b, p) \in Candles /\ Folded(b, p).count = b.count + 1
  <2>1. CASE b = Empty
    BY <1>1, <2>1, NoBucketsType, CandleType DEF Folded
  <2>2. CASE b # Empty
    <3> DEFINE h == IF p > b.high THEN p ELSE b.high
               l == IF p < b.low THEN p ELSE b.low
    <3>1. h \in Nat /\ l \in Nat /\ b.count + 1 \in Nat
      BY <1>1, <1>2
    <3> HIDE DEF h, l
    <3>2. Candle(b.open, h, l, p, b.count + 1) \in Candles
          /\ Candle(b.open, h, l, p, b.count + 1).count = b.count + 1
      BY <1>1, <1>2, <3>1 DEF Candle, Candles
    <3>3. Folded(b, p) = Candle(b.open, h, l, p, b.count + 1)
      BY <2>2 DEF Folded, h, l
    <3>4. QED
      BY <3>2, <3>3
  <2>3. QED
    BY <2>1, <2>2
<1>4. Folded(b, p).count # Empty.count
  BY <1>2, <1>3, NoBucketsType
<1>5. QED
  BY <1>3, <1>4

\* The rows R count n trades of window w.
Adds(R, w, n) ==
    /\ n \in Nat
    /\ \/ {r \in R : r.window = w} = {} /\ n = 0
       \/ \E s : {r \in R : r.window = w} = {s} /\ s.candle.count = n

LEMMA AddsCount ==
    ASSUME NEW R, NEW w, NEW n, Adds(R, w, n)
    PROVE  Countable(SetToBag(R), w) /\ CountedIn(SetToBag(R), w) = n
<1>1. CASE {r \in R : r.window = w} = {} /\ n = 0
  BY <1>1, CountedNone
<1>2. CASE \E s : {r \in R : r.window = w} = {s} /\ s.candle.count = n
  <2>1. PICK s : {r \in R : r.window = w} = {s} /\ s.candle.count = n
    BY <1>2
  <2>2. s.candle.count \in Nat
    BY <2>1 DEF Adds
  <2>3. /\ Countable(SetToBag(R), w)
        /\ CountedIn(SetToBag(R), w) = s.candle.count
    BY <2>1, <2>2, CountedOnce
  <2>4. QED
    BY <2>1, <2>3
<1>3. QED
  BY <1>1, <1>2 DEF Adds

\* Inserted rows add what they count.
LEMMA InsertedCount ==
    ASSUME NEW B, NEW R, NEW w, NEW n, Countable(B, w), Adds(R, w, n)
    PROVE  /\ Countable(B (+) SetToBag(R), w)
           /\ CountedIn(B (+) SetToBag(R), w) = CountedIn(B, w) + n
BY AddsCount, CountedSum

LEMMA RowAdds ==
    ASSUME NEW v \in Windows, NEW w \in Windows, NEW c, c.count \in Nat
    PROVE  Adds({Row(v, c)}, w, IF w = v THEN c.count ELSE 0)
<1>1. Row(v, c).window = v /\ Row(v, c).candle = c
  BY DEF Row
<1>2. CASE w = v
  <2>1. {r \in {Row(v, c)} : r.window = w} = {Row(v, c)}
    BY <1>1, <1>2
  <2>2. QED
    BY <1>1, <1>2, <2>1 DEF Adds
<1>3. CASE w # v
  <2>1. {r \in {Row(v, c)} : r.window = w} = {}
    BY <1>1, <1>3
  <2>2. QED
    BY <1>3, <2>1 DEF Adds
<1>4. QED
  BY <1>2, <1>3

\* A flush counts the trades of its buckets.
LEMMA FlushedAdds ==
    ASSUME current \in [Windows -> Candles], NEW w \in Windows
    PROVE  Adds(Flushed, w, current[w].count)
<1>1. \A v \in Windows : Row(v, current[v]).window = v /\ Row(v, current[v]).candle = current[v]
  BY DEF Row
<1>2. current[w].count \in Nat
  BY DEF Candles
<1>3. CASE current[w] = Empty
  <2>1. {r \in Flushed : r.window = w} = {}
    BY <1>1, <1>3 DEF Flushed
  <2>2. QED
    BY <1>2, <1>3, <2>1, NoBucketsType DEF Adds
<1>4. CASE current[w] # Empty
  <2>1. {r \in Flushed : r.window = w} = {Row(w, current[w])}
    BY <1>1, <1>4 DEF Flushed
  <2>2. QED
    BY <1>1, <1>2, <2>1 DEF Adds
<1>5. QED
  BY <1>3, <1>4

RowType == [window : Windows, candle : Candles]

\* Merging two rows of one window changes no count.
LEMMA MergeKeeps ==
    ASSUME IsABag(rows), BagToSet(rows) \subseteq RowType, Merge
    PROVE  /\ IsABag(rows') /\ BagToSet(rows') \subseteq RowType
           /\ \A w \in Windows : Countable(rows, w) =>
                 Countable(rows', w) /\ CountedIn(rows', w) = CountedIn(rows, w)
<1>1. PICK r \in BagToSet(rows), s \in BagToSet(rows) :
         /\ r.window = s.window
         /\ SetToBag({r}) (+) SetToBag({s}) \sqsubseteq rows
         /\ LET a == r.candle
                b == s.candle
                sum == Candle(a.open + b.open, a.high + b.high, a.low + b.low,
                              a.close + b.close, a.count + b.count)
            IN rows' = (rows (-) (SetToBag({r}) (+) SetToBag({s})))
                         (+) SetToBag({Row(r.window, sum)})
  BY DEF Merge
<1> DEFINE D == SetToBag({r}) (+) SetToBag({s})
           a == r.candle
           b == s.candle
           sum == Candle(a.open + b.open, a.high + b.high, a.low + b.low,
                         a.close + b.close, a.count + b.count)
           new == Row(r.window, sum)
           E == rows (-) D
<1>2. r \in RowType /\ s \in RowType /\ a \in Candles /\ b \in Candles /\ r.window \in Windows
  BY <1>1 DEF RowType
<1>3. a.count \in Nat /\ b.count \in Nat
  BY <1>2 DEF Candles
<1>4. sum \in Candles /\ sum.count = a.count + b.count
  BY <1>2 DEF Candles, Candle
<1>5. new \in RowType /\ r = Row(r.window, a) /\ s = Row(r.window, b)
  BY <1>1, <1>2, <1>4 DEF RowType, Row
<1>6. rows' = E (+) SetToBag({new}) /\ D \sqsubseteq rows
  BY <1>1
<1> HIDE DEF sum, a, b, new
<1>7. ASSUME NEW w \in Windows, Countable(rows, w)
      PROVE  Countable(rows', w) /\ CountedIn(rows', w) = CountedIn(rows, w)
  <2> DEFINE n == IF w = r.window THEN a.count ELSE 0
             m == IF w = r.window THEN b.count ELSE 0
             k == IF w = r.window THEN sum.count ELSE 0
  <2>1. Adds({r}, w, n) /\ Adds({s}, w, m) /\ Adds({new}, w, k)
    <3>1. sum.count \in Nat
      BY <1>3, <1>4
    <3>2. Adds({Row(r.window, a)}, w, n) /\ Adds({Row(r.window, b)}, w, m)
          /\ Adds({Row(r.window, sum)}, w, k)
      BY <1>2, <1>3, <3>1, RowAdds
    <3>3. QED
      BY <1>5, <3>2 DEF new
  <2>2. n \in Nat /\ m \in Nat /\ k = n + m
    BY <1>3, <1>4
  <2> HIDE DEF n, m, k
  <2>3. Countable(D, w) /\ CountedIn(D, w) = n + m
    BY <2>1, AddsCount, CountedSum
  <2> HIDE DEF D
  <2>4. Countable(E, w) /\ CountedIn(rows, w) = CountedIn(E, w) + CountedIn(D, w)
    BY <1>6, <1>7, <2>3, CountedRest
  <2> HIDE DEF E
  <2>5. Countable(rows', w) /\ CountedIn(rows', w) = CountedIn(E, w) + k
    BY <1>6, <2>1, <2>4, InsertedCount
  <2>6. CountedIn(E, w) \in Nat
    BY <2>4, CountedType
  <2>7. QED
    BY <2>2, <2>3, <2>4, <2>5, <2>6
<1>8. IsABag(rows') /\ BagToSet(rows') \subseteq RowType
  <2>1. IsABag(SetToBag({new})) /\ DOMAIN SetToBag({new}) = {new}
    BY DEF IsABag, SetToBag
  <2>2. IsABag(D)
    <3>1. IsABag(SetToBag({r})) /\ IsABag(SetToBag({s}))
      BY DEF IsABag, SetToBag
    <3>2. QED
      BY <3>1, SumIsBag
  <2> HIDE DEF D
  <2>3. IsABag(E) /\ DOMAIN E \subseteq DOMAIN rows
    BY <1>6, <2>2, RestIsBag
  <2> HIDE DEF E
  <2>4. IsABag(rows') /\ DOMAIN rows' = DOMAIN E \cup {new}
    BY <1>6, <2>1, <2>3, SumIsBag
  <2>5. QED
    BY <1>5, <2>3, <2>4 DEF BagToSet
<1>9. QED
  BY <1>7, <1>8

\* Inserting rows of the table's type.
LEMMA InsertedType ==
    ASSUME NEW B, IsABag(B), BagToSet(B) \subseteq RowType, NEW R, R \subseteq RowType
    PROVE  /\ IsABag(B (+) SetToBag(R))
           /\ BagToSet(B (+) SetToBag(R)) \subseteq RowType
<1>1. IsABag(SetToBag(R)) /\ DOMAIN SetToBag(R) = R
  BY DEF SetToBag, IsABag
<1>2. QED
  BY <1>1, SumIsBag DEF BagToSet

(***************************************************************************)
(* The ledger: what was taken for a window, and what was lost of it.       *)
(***************************************************************************)
Taken(e) == e.inserted + e.fetched + e.again

\* Entry f is e with k more taken and l more lost.
More(e, f, k, l) == f \in Ledger /\ Taken(f) = Taken(e) + k /\ f.lost = e.lost + l

\* l grows by taken[w] and lost[w] for each window w.
Posted(l, taken, lost) ==
    /\ l \in [Windows -> Ledger]
    /\ \A w \in Windows : More(ledger[w], l[w], taken[w], lost[w])

One(w) == [v \in Windows |-> IF v = w THEN 1 ELSE 0]
Zero == [v \in Windows |-> 0]
Counts(c) == [v \in Windows |-> c[v].count]

LEMMA EntryType ==
    ASSUME NEW e \in Ledger
    PROVE  /\ e.inserted \in Nat /\ e.fetched \in Nat /\ e.again \in Nat /\ e.lost \in Nat
           /\ Taken(e) \in Nat
BY DEF Ledger, Taken

LEMMA EntryIs ==
    ASSUME NEW e \in Ledger, NEW n \in Nat
    PROVE  /\ More(e, [e EXCEPT !.inserted = @ + n], n, 0)
           /\ More(e, [e EXCEPT !.fetched = @ + n], n, 0)
           /\ More(e, [e EXCEPT !.again = @ + n], n, 0)
           /\ More(e, [e EXCEPT !.lost = @ + n], 0, n)
           /\ More(e, e, 0, 0)
BY DEF Ledger, Taken, More

LEMMA PostedOne ==
    ASSUME ledger \in [Windows -> Ledger], NEW w \in Windows
    PROVE  Posted([ledger EXCEPT ![w].fetched = @ + 1], One(w), Zero)
<1> DEFINE f == [ledger[w] EXCEPT !.fetched = @ + 1]
<1>1. [ledger EXCEPT ![w].fetched = @ + 1] = [ledger EXCEPT ![w] = f]
  OBVIOUS
<1>2. More(ledger[w], f, 1, 0)
  BY EntryIs
<1>3. \A v \in Windows : More(ledger[v], ledger[v], 0, 0)
  BY EntryIs
<1>4. f \in Ledger
  BY <1>2 DEF More
<1> HIDE DEF f
<1>5. Posted([ledger EXCEPT ![w] = f], One(w), Zero)
  BY <1>2, <1>3, <1>4 DEF Posted, One, Zero
<1>6. QED
  BY <1>1, <1>5

LEMMA MadeIs ==
    ASSUME NEW e \in Ledger, NEW b \in BOOLEAN
    PROVE  More(e, Made(e, b), IF b THEN 1 ELSE 0, 0)
<1> DEFINE n == IF b THEN e.inserted + 1 ELSE e.inserted
           m == e.made + 1
<1>1. n \in Nat /\ m \in Nat /\ n = e.inserted + (IF b THEN 1 ELSE 0)
  BY DEF Ledger
<1>2. Made(e, b) = [e EXCEPT !.made = m, !.inserted = n]
  BY DEF Made
<1> HIDE DEF n, m
<1>3. /\ Made(e, b) \in Ledger /\ Made(e, b).inserted = n
      /\ Made(e, b).fetched = e.fetched /\ Made(e, b).again = e.again
      /\ Made(e, b).lost = e.lost
  BY <1>1, <1>2 DEF Ledger
<1>4. QED
  BY <1>1, <1>3, EntryType DEF More, Taken

LEMMA PostedTrade ==
    ASSUME ledger \in [Windows -> Ledger], NEW w \in Windows, NEW b \in BOOLEAN
    PROVE  Posted([ledger EXCEPT ![w] = Made(ledger[w], b)],
                  IF b THEN One(w) ELSE Zero, Zero)
<1> DEFINE e == Made(ledger[w], b)
<1>1. More(ledger[w], e, IF b THEN 1 ELSE 0, 0)
  BY MadeIs
<1>2. \A v \in Windows : More(ledger[v], ledger[v], 0, 0)
  BY EntryIs
<1>3. e \in Ledger
  BY <1>1 DEF More
<1> HIDE DEF e
<1>4. Posted([ledger EXCEPT ![w] = e], IF b THEN One(w) ELSE Zero, Zero)
  <2> DEFINE l == [ledger EXCEPT ![w] = e]
             k == IF b THEN One(w) ELSE Zero
  <2>1. l[w] = e /\ k[w] = IF b THEN 1 ELSE 0
    BY DEF One, Zero
  <2>2. ASSUME NEW v \in Windows, v # w
        PROVE  l[v] = ledger[v] /\ k[v] = 0
    BY <2>2 DEF One, Zero
  <2>3. l \in [Windows -> Ledger]
    BY <1>3
  <2> HIDE DEF l, k
  <2>4. \A v \in Windows : Zero[v] = 0
    BY DEF Zero
  <2>5. ASSUME NEW v \in Windows PROVE More(ledger[v], l[v], k[v], Zero[v])
    <3>1. CASE v = w
      BY <1>1, <2>1, <2>4, <3>1
    <3>2. CASE v # w
      BY <1>2, <2>2, <2>4, <3>2
    <3>3. QED
      BY <3>1, <3>2
  <2>6. Posted(l, k, Zero)
    BY <2>3, <2>5 DEF Posted
  <2>7. QED
    BY <2>6 DEF l, k
<1>5. QED
  BY <1>4 DEF e

LEMMA PostedAll ==
    ASSUME ledger \in [Windows -> Ledger], NEW n \in [Windows -> Nat]
    PROVE  /\ Posted([w \in Windows |-> [ledger[w] EXCEPT !.lost = @ + n[w]]], Zero, n)
           /\ Posted([w \in Windows |-> [ledger[w] EXCEPT !.again = @ + n[w]]], n, Zero)
<1> DEFINE l(w) == [ledger[w] EXCEPT !.lost = @ + n[w]]
           a(w) == [ledger[w] EXCEPT !.again = @ + n[w]]
<1>1. ASSUME NEW w \in Windows
      PROVE  /\ More(ledger[w], l(w), 0, n[w]) /\ l(w) \in Ledger
             /\ More(ledger[w], a(w), n[w], 0) /\ a(w) \in Ledger
  <2>1. ledger[w] \in Ledger /\ n[w] \in Nat
    OBVIOUS
  <2>2. More(ledger[w], l(w), 0, n[w]) /\ More(ledger[w], a(w), n[w], 0)
    BY <2>1, EntryIs
  <2>3. QED
    BY <2>2 DEF More
<1> HIDE DEF l, a
<1>2. Posted([w \in Windows |-> l(w)], Zero, n)
  BY <1>1 DEF Posted, Zero
<1>3. Posted([w \in Windows |-> a(w)], n, Zero)
  BY <1>1 DEF Posted, Zero
<1>4. QED
  BY <1>2, <1>3 DEF l, a

LEMMA CandlesStart == CandlesInit => CandlesOK /\ CountInv
<1> SUFFICES ASSUME CandlesInit PROVE CandlesOK /\ CountInv
  OBVIOUS
<1>1. rows = SetToBag({}) /\ IsABag(rows) /\ BagToSet(rows) = {}
  BY DEF CandlesInit, EmptyBag, SetToBag, IsABag, BagToSet
<1>2. CandlesOK
  BY <1>1, NoBucketsType, CandlesAssumption DEF CandlesInit, CandlesOK, Ledger
<1>3. ASSUME NEW w \in Windows
      PROVE  /\ Counted(w) = 0 /\ buckets[w].count = 0 /\ current[w].count = 0
             /\ ledger[w] = [made |-> 0, inserted |-> 0, fetched |-> 0, lost |-> 0, again |-> 0]
  <2>1. {r \in {} : r.window = w} = {}
    OBVIOUS
  <2>2. CountedIn(rows, w) = 0
    BY <1>1, <2>1, CountedNone
  <2>3. Counted(w) = 0
    BY <2>2 DEF Counted, CountedIn, OfWindow
  <2>4. QED
    BY <2>3, NoBucketsType DEF CandlesInit
<1>4. CountInv
  <2>1. EachWriterCountsOnce
    <3>1. \A w \in Windows : {i \in DOMAIN live : live[i].window = w} = {}
      BY DEF CandlesInit
    <3>2. \A w \in Windows : Waiting(w) = 0
      BY <3>1, FS_EmptySet DEF Waiting
    <3>3. QED
      BY <1>3, <3>2 DEF EachWriterCountsOnce
  <2>2. \A w \in Windows : {r \in BagToSet(rows) : r.window = w} = {}
    BY <1>1
  <2>3. QED
    BY <2>1, <2>2, FS_EmptySet DEF CountInv
<1>5. QED
  BY <1>2, <1>4

LEMMA CandlesStep == CandlesOK /\ [CandlesNext]_candlesVars => CandlesOK'
<1> SUFFICES ASSUME CandlesOK, [CandlesNext]_candlesVars PROVE CandlesOK'
  OBVIOUS
<1> USE CandlesAssumption DEF CandlesOK, flushVars, runVars
<1>1. CASE NewTrade
  <2>1. PICK t \in Trade, published \in BOOLEAN, inserted \in BOOLEAN :
           /\ traded' = Append(traded, t)
           /\ live' = IF published THEN Append(live, t) ELSE live
           /\ rows' = IF inserted
                      THEN Insert(Row(t.window, Candle(t.price, t.price, t.price, t.price, 1)))
                      ELSE rows
           /\ ledger' = [ledger EXCEPT ![t.window] = Made(ledger[t.window], inserted)]
    BY <1>1 DEF NewTrade
  <2>2. t.window \in Windows /\ t.price \in Nat
    BY DEF Trade
  <2>3. traded' \in Seq(Trade) /\ live' \in Seq(Trade)
    BY <2>1
  <2> DEFINE r == Row(t.window, Candle(t.price, t.price, t.price, t.price, 1))
  <2>4. r \in RowType
    BY <2>2 DEF RowType, Row, Candle, Candles
  <2> HIDE DEF r
  <2>5. IsABag(Insert(r)) /\ BagToSet(Insert(r)) \subseteq RowType
    <3>1. {r} \subseteq RowType
      BY <2>4
    <3>2. QED
      BY <3>1, InsertedType DEF Insert, RowType
  <2>6. IsABag(rows') /\ BagToSet(rows') \subseteq RowType
    BY <2>1, <2>5 DEF r, RowType
  <2>7. ledger' \in [Windows -> Ledger]
    <3>1. [ledger EXCEPT ![t.window] = Made(ledger[t.window], inserted)]
            \in [Windows -> Ledger]
      BY <2>2, PostedTrade DEF Posted
    <3>2. QED
      BY <2>1, <3>1
  <2>8. QED
    BY <1>1, <2>3, <2>6, <2>7 DEF NewTrade, RowType, Ledger
<1>2. CASE Merge
  BY <1>2, MergeKeeps DEF Merge, RowType
<1>3. CASE Consume
  <2>1. live \in Seq(Trade) /\ live # <<>>
    BY <1>3 DEF Consume
  <2>2. Head(live) \in Trade /\ live' \in Seq(Trade)
    BY <1>3, <2>1 DEF Consume
  <2> DEFINE t == Head(live)
             w == t.window
  <2>3. w \in Windows /\ t.price \in Prices
    BY <2>2 DEF Trade
  <2>4. buckets' = [buckets EXCEPT ![w] = Folded(buckets[w], t.price)]
        /\ ledger' = [ledger EXCEPT ![w].fetched = @ + 1]
    BY <1>3 DEF Consume
  <2> HIDE DEF w, t
  <2>5. buckets' \in [Windows -> Candles]
    BY <2>3, <2>4, FoldedIs
  <2>6. ledger' \in [Windows -> Ledger]
    BY <2>3, <2>4, PostedOne DEF Posted
  <2>7. QED
    BY <1>3, <2>2, <2>5, <2>6 DEF Consume, Ledger
<1>4. CASE ConsumeFails
  BY <1>4 DEF ConsumeFails
<1>5. CASE Minute
  <2>1. \A w \in Windows : buckets[w].count \in Nat
    BY DEF Candles
  <2>2. ledger' \in [Windows -> Ledger]
    <3>1. Counts(buckets) \in [Windows -> Nat]
      BY <2>1 DEF Counts
    <3>2. Lose(buckets) => ledger' \in [Windows -> Ledger]
      BY <3>1, PostedAll DEF Lose, Posted, Counts
    <3>3. QED
      BY <1>5, <3>2 DEF Minute
  <2>3. buckets' \in [Windows -> Candles]
    BY <1>5, NoBucketsType DEF Minute, Swap
  <2>4. /\ current' \in [Windows -> Candles]
        /\ flusher' \in {"tick", "attempt", "wait"}
        /\ flusher' = "tick" <=> current' = NoBuckets
        /\ attempt' \in 0 .. MaxAttempts
    BY <1>5 DEF Minute
  <2>5. QED
    BY <1>5, <2>2, <2>3, <2>4 DEF Minute, Ledger
<1>6. ASSUME rows' = rows \/ rows' = rows (+) SetToBag(Flushed)
      PROVE  IsABag(rows') /\ BagToSet(rows') \subseteq RowType
  <2>1. Flushed \subseteq RowType
    BY DEF Flushed, Row, RowType
  <2>2. IsABag(rows) /\ BagToSet(rows) \subseteq RowType
    BY DEF RowType
  <2>3. QED
    BY <1>6, <2>1, <2>2, InsertedType
<1>7. \A w \in Windows : current[w].count \in Nat /\ buckets[w].count \in Nat
  BY DEF Candles
<1>8. CASE FlushSucceeds
  BY <1>6, <1>8, NoBucketsType DEF FlushSucceeds, FlushEnds, RowType
<1>9. CASE FlushFails
  <2>1. ledger' \in [Windows -> Ledger]
    <3>1. Counts(current) \in [Windows -> Nat]
      BY <1>7 DEF Counts
    <3>2. [w \in Windows |-> [ledger[w] EXCEPT !.again = @ + Counts(current)[w]]]
            \in [Windows -> Ledger]
      BY <3>1, PostedAll DEF Posted
    <3>3. QED
      BY <1>9, <3>2 DEF FlushFails, Counts
  <2>2. IsABag(rows') /\ BagToSet(rows') \subseteq RowType
    BY <1>6, <1>9 DEF FlushFails
  <2>3. QED
    BY <1>9, <2>1, <2>2 DEF FlushFails, Ledger, RowType
<1>10. CASE Retry
  BY <1>10 DEF Retry
<1>11. CASE FlushGivesUp
  <2>1. ledger' \in [Windows -> Ledger]
    <3>1. Counts(current) \in [Windows -> Nat]
      BY <1>7 DEF Counts
    <3>2. [w \in Windows |-> [ledger[w] EXCEPT !.lost = @ + Counts(current)[w]]]
            \in [Windows -> Ledger]
      BY <3>1, PostedAll DEF Posted
    <3>3. QED
      BY <1>11, <3>2 DEF FlushGivesUp, Lose, Counts
  <2>2. QED
    BY <1>11, <2>1, NoBucketsType DEF FlushGivesUp, FlushEnds, Ledger
<1>12. CASE Restart
  <2>1. ledger' \in [Windows -> Ledger]
    <3> DEFINE n == [w \in Windows |-> buckets[w].count + current[w].count]
    <3>1. n \in [Windows -> Nat]
      BY <1>7
    <3>2. ledger' = [w \in Windows |-> [ledger[w] EXCEPT !.lost = @ + n[w]]]
      <4>1. \A w \in Windows : ledger[w].lost + buckets[w].count + current[w].count
                               = ledger[w].lost + n[w]
        BY <1>7, EntryType
      <4>2. QED
        BY <1>12, <4>1 DEF Restart
    <3> HIDE DEF n
    <3>3. QED
      BY <3>1, <3>2, PostedAll DEF Posted
  <2>2. QED
    BY <1>12, <2>1, NoBucketsType DEF Restart, FlushEnds, Swap
<1>13. CASE UNCHANGED candlesVars
  BY <1>13 DEF candlesVars
<1>14. QED
  BY <1>1, <1>2, <1>3, <1>4, <1>5, <1>8, <1>9, <1>10, <1>11, <1>12, <1>13 DEF CandlesNext

(***************************************************************************)
(* A step that is accounted for: the rows count n more trades of w, k more *)
(* are taken and l more lost.                                              *)
(***************************************************************************)
Change(w, n, k, l) ==
    /\ n \in Nat /\ k \in Nat /\ l \in Nat
    /\ Countable(rows', w) /\ CountedIn(rows', w) = CountedIn(rows, w) + n
    /\ More(ledger[w], ledger'[w], k, l)
    /\ buckets'[w].count + current'[w].count + n + l
         = buckets[w].count + current[w].count + k

LEMMA RowsCount ==
    ASSUME CandlesOK, CountInv, NEW w \in Windows
    PROVE  /\ Countable(rows, w) /\ CountedIn(rows, w) \in Nat
           /\ CountedIn(rows, w) + buckets[w].count + current[w].count + ledger[w].lost
                = Taken(ledger[w])
<1>1. \A r \in BagToSet(rows) : r.candle.count \in Nat
  BY DEF CandlesOK, Candles
<1>2. Countable(rows, w)
  BY <1>1 DEF CandlesOK, CountInv, Countable, OfWindow
<1>3. Counted(w) = CountedIn(rows, w)
  BY DEF Counted, CountedIn, OfWindow
<1>4. QED
  BY <1>2, <1>3, CountedType DEF CountInv, EachWriterCountsOnce, Taken

\* EachWriterCountsOnce, said of the sums of a bag.
Balanced ==
    \A w \in Windows :
        CountedIn(rows, w) + buckets[w].count + current[w].count + ledger[w].lost
          = Taken(ledger[w])

\* Neither writer takes a trade more than once.
TakenOnce(e, waiting) == e.inserted <= e.made /\ e.fetched + waiting <= e.made

LEMMA BalancedSays ==
    Balanced /\ (\A w \in Windows : TakenOnce(ledger[w], Waiting(w)))
        => EachWriterCountsOnce
  BY DEF Balanced, TakenOnce, EachWriterCountsOnce, Counted, CountedIn, OfWindow, Taken

\* How many trades of w a queue holds.
Of(s, w) == {i \in DOMAIN s : s[i].window = w}
NumberOf(s, w) == Cardinality(Of(s, w))

LEMMA NumberType ==
    ASSUME NEW s \in Seq(Trade), NEW w
    PROVE  IsFiniteSet(Of(s, w)) /\ NumberOf(s, w) \in Nat
<1>1. IsFiniteSet(1 .. Len(s))
  BY FS_Interval
<1>2. Of(s, w) \subseteq 1 .. Len(s)
  BY DEF Of
<1>3. QED
  BY <1>1, <1>2, FS_Subset, FS_CardinalityType DEF NumberOf

LEMMA NumberOfAppend ==
    ASSUME NEW s \in Seq(Trade), NEW t \in Trade, NEW w
    PROVE  NumberOf(Append(s, t), w)
             = NumberOf(s, w) + (IF t.window = w THEN 1 ELSE 0)
<1> DEFINE n == Len(s) + 1
<1>1. /\ DOMAIN Append(s, t) = DOMAIN s \cup {n} /\ n \notin DOMAIN s
      /\ \A i \in DOMAIN s : Append(s, t)[i] = s[i]
      /\ Append(s, t)[n] = t
  OBVIOUS
<1> HIDE DEF n
<1>2. IsFiniteSet(Of(s, w)) /\ NumberOf(s, w) \in Nat
  BY NumberType
<1>3. CASE t.window = w
  <2>1. Of(Append(s, t), w) = Of(s, w) \cup {n} /\ n \notin Of(s, w)
    BY <1>1, <1>3 DEF Of
  <2>2. QED
    BY <1>2, <1>3, <2>1, FS_AddElement DEF NumberOf
<1>4. CASE t.window # w
  <2>1. Of(Append(s, t), w) = Of(s, w)
    BY <1>1, <1>4 DEF Of
  <2>2. QED
    BY <1>2, <1>4, <2>1 DEF NumberOf
<1>5. QED
  BY <1>3, <1>4

LEMMA NumberOfTail ==
    ASSUME NEW s \in Seq(Trade), s # <<>>, NEW w
    PROVE  NumberOf(s, w)
             = NumberOf(Tail(s), w) + (IF Head(s).window = w THEN 1 ELSE 0)
<1> DEFINE later == Of(s, w) \ {1}
           f == [i \in Of(Tail(s), w) |-> i + 1]
<1>1. /\ Tail(s) \in Seq(Trade) /\ Len(s) \in Nat \ {0}
      /\ DOMAIN Tail(s) = 1 .. Len(s) - 1 /\ DOMAIN s = 1 .. Len(s)
      /\ \A i \in 1 .. Len(s) - 1 : Tail(s)[i] = s[i + 1]
      /\ Head(s) = s[1]
  OBVIOUS
<1>2. IsFiniteSet(Of(s, w)) /\ NumberOf(s, w) \in Nat
  BY NumberType
<1>3. IsFiniteSet(Of(Tail(s), w)) /\ NumberOf(Tail(s), w) \in Nat
  BY <1>1, NumberType
<1>4. f \in Bijection(Of(Tail(s), w), later)
  <2>1. ASSUME NEW i \in Of(Tail(s), w) PROVE i \in Nat /\ i + 1 \in later
    BY <1>1 DEF Of
  <2>2. ASSUME NEW k \in later PROVE k - 1 \in Of(Tail(s), w) /\ k = (k - 1) + 1
    <3>1. k \in 1 .. Len(s) /\ k # 1 /\ s[k].window = w
      BY <1>1 DEF Of
    <3>2. k - 1 \in 1 .. Len(s) - 1 /\ k = (k - 1) + 1
      BY <1>1, <3>1
    <3>3. QED
      BY <1>1, <3>1, <3>2 DEF Of
  <2> HIDE DEF later
  <2>3. f \in [Of(Tail(s), w) -> later]
    BY <2>1
  <2>4. \A i, k \in Of(Tail(s), w) : f[i] = f[k] => i = k
    BY <2>1
  <2>5. \A k \in later : \E i \in Of(Tail(s), w) : f[i] = k
    BY <2>2
  <2> HIDE DEF f
  <2>6. QED
    BY <2>3, <2>4, <2>5 DEF Bijection, Injection, Surjection, IsInjective
<1> HIDE DEF f
<1>5. Cardinality(later) = NumberOf(Tail(s), w)
  BY <1>3, <1>4, FS_Bijection DEF ExistsBijection, NumberOf
<1>6. 1 \in Of(s, w) <=> Head(s).window = w
  BY <1>1 DEF Of
<1>7. Cardinality(later) = NumberOf(s, w) - (IF 1 \in Of(s, w) THEN 1 ELSE 0)
  <2>1. Cardinality(Of(s, w) \ {1})
          = IF 1 \in Of(s, w) THEN Cardinality(Of(s, w)) - 1 ELSE Cardinality(Of(s, w))
    BY <1>2, FS_RemoveElement
  <2>2. QED
    BY <1>2, <2>1 DEF NumberOf
<1> HIDE DEF later
<1>8. QED
  BY <1>2, <1>3, <1>5, <1>6, <1>7

\* Entry f counts the takings of e.
SameTakings(e, f) ==
    f.made = e.made /\ f.inserted = e.inserted /\ f.fetched = e.fetched

LEMMA OnceKept ==
    ASSUME EachWriterCountsOnce, live' = live,
           \A w \in Windows : SameTakings(ledger[w], ledger'[w])
    PROVE  \A w \in Windows : TakenOnce(ledger'[w], Waiting(w)')
BY DEF EachWriterCountsOnce, TakenOnce, SameTakings, Waiting

LEMMA OnceStep ==
    ASSUME CandlesOK, EachWriterCountsOnce, [CandlesNext]_candlesVars
    PROVE  \A w \in Windows : TakenOnce(ledger'[w], Waiting(w)')
<1>1. live \in Seq(Trade) /\ ledger \in [Windows -> Ledger]
  BY DEF CandlesOK
<1>2. \A w \in Windows :
         /\ ledger[w].made \in Nat /\ ledger[w].inserted \in Nat
         /\ ledger[w].fetched \in Nat /\ NumberOf(live, w) \in Nat
  BY <1>1, NumberType DEF Ledger
<1>3. \A w \in Windows : /\ ledger[w].inserted <= ledger[w].made
                         /\ ledger[w].fetched + NumberOf(live, w) <= ledger[w].made
  BY DEF EachWriterCountsOnce, Waiting, NumberOf, Of
<1>4. \A w \in Windows : Waiting(w)' = NumberOf(live', w)
  BY DEF Waiting, NumberOf, Of
<1>5. CASE NewTrade
  <2>1. PICK t \in Trade, published \in BOOLEAN, inserted \in BOOLEAN :
           /\ live' = IF published THEN Append(live, t) ELSE live
           /\ ledger' = [ledger EXCEPT ![t.window] = Made(ledger[t.window], inserted)]
    BY <1>5 DEF NewTrade
  <2>2. t.window \in Windows
    BY DEF Trade
  <2>3. ASSUME NEW w \in Windows PROVE TakenOnce(ledger'[w], NumberOf(live', w))
    <3>1. /\ NumberOf(live', w) \in Nat
          /\ NumberOf(live', w) <= NumberOf(live, w) + (IF t.window = w THEN 1 ELSE 0)
      BY <1>1, <1>2, <2>1, NumberOfAppend
    <3>2. CASE t.window = w
      <4>1. ledger'[w] = Made(ledger[w], inserted)
        BY <1>1, <2>1, <2>2, <3>2
      <4>2. /\ ledger'[w].made = ledger[w].made + 1
            /\ ledger'[w].inserted \in {ledger[w].inserted, ledger[w].inserted + 1}
            /\ ledger'[w].fetched = ledger[w].fetched
        BY <1>1, <4>1 DEF Made, Ledger
      <4>3. QED
        BY <1>2, <1>3, <3>1, <3>2, <4>2 DEF TakenOnce
    <3>3. CASE t.window # w
      <4>1. ledger'[w] = ledger[w]
        BY <1>1, <2>1, <2>2, <3>3
      <4>2. QED
        BY <1>2, <1>3, <3>1, <3>3, <4>1 DEF TakenOnce
    <3>4. QED
      BY <3>2, <3>3
  <2>4. QED
    BY <1>4, <2>3
<1>6. CASE Consume
  <2> DEFINE t == Head(live)
  <2>1. /\ live # <<>> /\ live' = Tail(live)
        /\ ledger' = [ledger EXCEPT ![t.window].fetched = @ + 1]
    BY <1>6 DEF Consume
  <2>2. t \in Trade /\ live' \in Seq(Trade)
    BY <1>1, <2>1
  <2>3. t.window \in Windows
    BY <2>2 DEF Trade
  <2>4. ASSUME NEW w \in Windows PROVE TakenOnce(ledger'[w], NumberOf(live', w))
    <3>1. /\ NumberOf(live', w) \in Nat
          /\ NumberOf(live, w) = NumberOf(live', w) + (IF t.window = w THEN 1 ELSE 0)
      <4>1. NumberOf(live', w) \in Nat
        BY <2>2, NumberType
      <4>2. NumberOf(live, w)
              = NumberOf(Tail(live), w) + (IF Head(live).window = w THEN 1 ELSE 0)
        BY <1>1, <2>1, NumberOfTail
      <4>3. QED
        BY <2>1, <4>1, <4>2
    <3> HIDE DEF t
    <3>2. /\ ledger'[w].made = ledger[w].made
          /\ ledger'[w].inserted = ledger[w].inserted
          /\ ledger'[w].fetched = ledger[w].fetched + (IF t.window = w THEN 1 ELSE 0)
      BY <1>1, <1>2, <2>1, <2>3 DEF Ledger
    <3>3. QED
      BY <1>2, <1>3, <3>1, <3>2 DEF TakenOnce
  <2>5. QED
    BY <1>4, <2>4
<1>7. CASE ConsumeFails
  <2>1. live # <<>> /\ live' = Tail(live) /\ ledger' = ledger
    BY <1>7 DEF ConsumeFails
  <2>2. ASSUME NEW w \in Windows PROVE TakenOnce(ledger'[w], NumberOf(live', w))
    <3>1. /\ NumberOf(live', w) \in Nat
          /\ NumberOf(live', w) <= NumberOf(live, w)
      <4>1. NumberOf(live', w) \in Nat
        <5>1. live' \in Seq(Trade)
          BY <1>1, <2>1
        <5>2. QED
          BY <5>1, NumberType
      <4>2. NumberOf(live, w)
              = NumberOf(Tail(live), w) + (IF Head(live).window = w THEN 1 ELSE 0)
        BY <1>1, <2>1, NumberOfTail
      <4>3. QED
        BY <1>2, <2>1, <4>1, <4>2
    <3>2. QED
      BY <1>2, <1>3, <2>1, <3>1 DEF TakenOnce
  <2>3. QED
    BY <1>4, <2>2
<1>8. CASE ~(NewTrade \/ Consume \/ ConsumeFails)
  <2>1. live' = live
    BY <1>8 DEF CandlesNext, candlesVars, Merge, Minute, FlushSucceeds, FlushFails,
       Retry, FlushGivesUp, Restart
  <2>2. \A w \in Windows : SameTakings(ledger[w], ledger'[w])
    <3>1. \/ ledger' = ledger
          \/ \E n : ledger' = [w \in Windows |-> [ledger[w] EXCEPT !.lost = n[w]]]
          \/ \E n : ledger' = [w \in Windows |-> [ledger[w] EXCEPT !.again = n[w]]]
      <4>1. CASE Merge \/ FlushSucceeds \/ Retry \/ UNCHANGED candlesVars
        BY <4>1 DEF Merge, FlushSucceeds, Retry, candlesVars
      <4>2. ASSUME NEW c, Lose(c)
            PROVE  \E n : ledger' = [w \in Windows |-> [ledger[w] EXCEPT !.lost = n[w]]]
        <5> DEFINE n == [w \in Windows |-> ledger[w].lost + c[w].count]
        <5>1. ledger' = [w \in Windows |-> [ledger[w] EXCEPT !.lost = n[w]]]
          BY <4>2 DEF Lose
        <5> HIDE DEF n
        <5>2. QED
          BY <5>1
      <4>3. CASE Minute \/ FlushGivesUp
        BY <4>2, <4>3 DEF Minute, FlushGivesUp
      <4>4. CASE Restart
        <5> DEFINE n == [w \in Windows |-> ledger[w].lost + buckets[w].count
                                             + current[w].count]
        <5>1. ledger' = [w \in Windows |-> [ledger[w] EXCEPT !.lost = n[w]]]
          BY <4>4 DEF Restart
        <5> HIDE DEF n
        <5>2. QED
          BY <5>1
      <4>5. CASE FlushFails
        <5> DEFINE n == [w \in Windows |-> ledger[w].again + current[w].count]
        <5>1. \/ ledger' = ledger
              \/ ledger' = [w \in Windows |-> [ledger[w] EXCEPT !.again = n[w]]]
          BY <4>5 DEF FlushFails
        <5> HIDE DEF n
        <5>2. QED
          BY <5>1
      <4>6. QED
        BY <1>8, <4>1, <4>3, <4>4, <4>5 DEF CandlesNext
    <3>2. QED
      BY <1>1, <3>1 DEF SameTakings, Ledger
  <2>3. QED
    BY <2>1, <2>2, OnceKept
<1>9. QED
  BY <1>5, <1>6, <1>7, <1>8

LEMMA ChangeKeeps ==
    ASSUME CandlesOK, CountInv, CandlesOK', [CandlesNext]_candlesVars,
           \A w \in Windows : \E n, k, l : Change(w, n, k, l)
    PROVE  CountInv'
<1>1. ASSUME NEW w \in Windows
      PROVE  /\ Countable(rows', w)
             /\ CountedIn(rows', w) + buckets'[w].count + current'[w].count + ledger'[w].lost
                  = Taken(ledger'[w])
  <2>1. PICK n, k, l : Change(w, n, k, l)
    OBVIOUS
  <2> DEFINE c == CountedIn(rows, w)   c1 == CountedIn(rows', w)
             b == buckets[w].count     b1 == buckets'[w].count
             u == current[w].count     u1 == current'[w].count
             t == ledger[w].lost       t1 == ledger'[w].lost
             x == Taken(ledger[w])     x1 == Taken(ledger'[w])
  <2>2. b \in Nat /\ u \in Nat /\ b1 \in Nat /\ u1 \in Nat
    BY DEF CandlesOK, Candles
  <2>3. t \in Nat /\ x \in Nat
    BY EntryType DEF CandlesOK
  <2>4. c \in Nat /\ c + b + u + t = x
    BY RowsCount
  <2>5. /\ n \in Nat /\ k \in Nat /\ l \in Nat
        /\ c1 = c + n /\ x1 = x + k /\ t1 = t + l
        /\ b1 + u1 + n + l = b + u + k
    BY <2>1 DEF Change, More
  <2>6. Countable(rows', w)
    BY <2>1 DEF Change
  <2> HIDE DEF c, b, u, t, x, c1, b1, u1, t1, x1
  <2>7. c1 + b1 + u1 + t1 = x1
    BY <2>2, <2>3, <2>4, <2>5
  <2>8. QED
    BY <2>6, <2>7 DEF c1, b1, u1, t1, x1
<1>2. Balanced'
  BY <1>1 DEF Balanced
<1>3. EachWriterCountsOnce'
  <2>1. \A w \in Windows : TakenOnce(ledger'[w], Waiting(w)')
    BY OnceStep DEF CountInv
  <2>2. (\A w \in Windows : TakenOnce(ledger[w], Waiting(w)))'
    BY <2>1
  <2>3. QED
    BY <1>2, <2>2, BalancedSays, PTL
<1>4. \A w \in Windows : IsFiniteSet({r \in BagToSet(rows') : r.window = w})
  BY <1>1 DEF Countable, OfWindow
<1>5. QED
  BY <1>3, <1>4 DEF CountInv

LEMMA CountStep == CandlesOK /\ CountInv /\ [CandlesNext]_candlesVars => CountInv'
<1> SUFFICES ASSUME CandlesOK, CountInv, [CandlesNext]_candlesVars PROVE CountInv'
  OBVIOUS
<1>0. CandlesOK'
  BY CandlesStep
<1>1. /\ rows = rows /\ IsABag(rows) /\ BagToSet(rows) \subseteq RowType
      /\ ledger \in [Windows -> Ledger] /\ ledger' \in [Windows -> Ledger]
      /\ buckets \in [Windows -> Candles] /\ current \in [Windows -> Candles]
  BY <1>0 DEF CandlesOK, RowType
<1>2. \A w \in Windows : /\ Countable(rows, w) /\ CountedIn(rows, w) \in Nat
                         /\ buckets[w].count \in Nat /\ current[w].count \in Nat
                         /\ More(ledger[w], ledger[w], 0, 0)
  BY <1>1, RowsCount, EntryIs DEF Candles
<1>3. Counts(buckets) \in [Windows -> Nat] /\ Counts(current) \in [Windows -> Nat]
  BY <1>2 DEF Counts
<1>4. ASSUME rows' = rows, buckets' = buckets, current' = current, ledger' = ledger
      PROVE  CountInv'
  <2>1. \A w \in Windows : Change(w, 0, 0, 0)
    BY <1>2, <1>4 DEF Change
  <2>2. QED
    BY <1>0, <2>1, ChangeKeeps
<1>5. CASE NewTrade
  <2>1. PICK t \in Trade, inserted \in BOOLEAN :
           /\ rows' = IF inserted
                      THEN Insert(Row(t.window, Candle(t.price, t.price, t.price, t.price, 1)))
                      ELSE rows
           /\ ledger' = [ledger EXCEPT ![t.window] = Made(ledger[t.window], inserted)]
    BY <1>5 DEF NewTrade
  <2>2. buckets' = buckets /\ current' = current
    BY <1>5 DEF NewTrade, flushVars
  <2> DEFINE c == Candle(t.price, t.price, t.price, t.price, 1)
  <2>3. t.window \in Windows /\ c.count = 1
    BY DEF Trade, Candle
  <2>4. rows' = IF inserted THEN rows (+) SetToBag({Row(t.window, c)}) ELSE rows
    BY <2>1 DEF Insert
  <2> HIDE DEF c
  <2>5. Posted(ledger', IF inserted THEN One(t.window) ELSE Zero, Zero)
    BY <1>1, <2>1, <2>3, PostedTrade
  <2>6. CASE inserted
    <3>1. ASSUME NEW w \in Windows PROVE Change(w, One(t.window)[w], One(t.window)[w], 0)
      <4> DEFINE n == IF w = t.window THEN 1 ELSE 0
      <4>1. One(t.window)[w] = n /\ n \in Nat
        BY DEF One
      <4>2. Adds({Row(t.window, c)}, w, n)
        <5>1. t.window \in Windows /\ c.count \in Nat
          BY <2>3
        <5>2. Adds({Row(t.window, c)}, w, IF w = t.window THEN c.count ELSE 0)
          BY <5>1, RowAdds
        <5>3. QED
          BY <2>3, <5>2
      <4>3. More(ledger[w], ledger'[w], n, 0)
        BY <2>5, <2>6, <4>1 DEF Posted, Zero
      <4> HIDE DEF n
      <4>4. Countable(rows', w) /\ CountedIn(rows', w) = CountedIn(rows, w) + n
        BY <1>2, <2>4, <2>6, <4>2, InsertedCount
      <4>5. QED
        BY <1>2, <2>2, <4>1, <4>3, <4>4 DEF Change
    <3>2. QED
      BY <1>0, <3>1, ChangeKeeps
  <2>7. CASE ~inserted
    <3>1. ASSUME NEW w \in Windows PROVE Change(w, 0, 0, 0)
      <4>1. More(ledger[w], ledger'[w], 0, 0)
        BY <2>5, <2>7 DEF Posted, Zero
      <4>2. QED
        BY <1>2, <2>2, <2>4, <2>7, <4>1 DEF Change
    <3>2. QED
      BY <1>0, <3>1, ChangeKeeps
  <2>8. QED
    BY <2>6, <2>7
<1>6. CASE Merge
  <2>1. buckets' = buckets /\ current' = current /\ ledger' = ledger
    BY <1>6 DEF Merge, flushVars
  <2>2. \A w \in Windows : Change(w, 0, 0, 0)
    BY <1>1, <1>2, <1>6, <2>1, MergeKeeps DEF Change
  <2>3. QED
    BY <1>0, <2>2, ChangeKeeps
<1>7. CASE Consume
  <2> DEFINE t == Head(live)
  <2>1. t \in Trade
    BY <1>7 DEF Consume, CandlesOK
  <2>2. /\ buckets' = [buckets EXCEPT ![t.window] = Folded(buckets[t.window], t.price)]
        /\ ledger' = [ledger EXCEPT ![t.window].fetched = @ + 1]
        /\ rows' = rows /\ current' = current
    BY <1>7 DEF Consume, flushVars
  <2> HIDE DEF t
  <2>3. t.window \in Windows /\ t.price \in Prices
    BY <2>1 DEF Trade
  <2>4. Posted(ledger', One(t.window), Zero)
    BY <1>1, <2>2, <2>3, PostedOne
  <2>5. Folded(buckets[t.window], t.price).count = buckets[t.window].count + 1
    BY <1>1, <2>3, FoldedIs
  <2>6. ASSUME NEW w \in Windows PROVE Change(w, 0, One(t.window)[w], 0)
    <3> DEFINE n == IF w = t.window THEN 1 ELSE 0
    <3>1. One(t.window)[w] = n /\ n \in Nat
      BY DEF One
    <3>2. buckets'[w].count = buckets[w].count + n
      BY <1>1, <1>2, <2>2, <2>3, <2>5
    <3>3. More(ledger[w], ledger'[w], n, 0)
      BY <2>4, <3>1 DEF Posted, Zero
    <3> HIDE DEF n
    <3>4. QED
      BY <1>2, <2>2, <3>1, <3>2, <3>3 DEF Change
  <2>7. QED
    BY <1>0, <2>6, ChangeKeeps
<1>8. CASE ConsumeFails
  BY <1>4, <1>8 DEF ConsumeFails, flushVars
<1>9. CASE Minute
  <2>1. /\ rows' = rows /\ buckets' = NoBuckets /\ current = NoBuckets
        /\ \/ current' = buckets /\ ledger' = ledger
           \/ current' = current /\ Lose(buckets)
    BY <1>9 DEF Minute, Swap, flushVars, CandlesOK
  <2>2. CASE current' = buckets /\ ledger' = ledger
    <3>1. \A w \in Windows : Change(w, 0, 0, 0)
      BY <1>2, <2>1, <2>2, NoBucketsType DEF Change
    <3>2. QED
      BY <1>0, <3>1, ChangeKeeps
  <2>3. CASE current' = current /\ Lose(buckets)
    <3>1. Posted(ledger', Zero, Counts(buckets))
      BY <1>1, <1>3, <2>3, PostedAll DEF Lose, Counts
    <3>2. ASSUME NEW w \in Windows PROVE Change(w, 0, 0, buckets[w].count)
      <4>1. More(ledger[w], ledger'[w], 0, buckets[w].count)
        BY <3>1 DEF Posted, Zero, Counts
      <4>2. QED
        BY <1>2, <2>1, <2>3, <4>1, NoBucketsType DEF Change
    <3>3. QED
      BY <1>0, <3>2, ChangeKeeps
  <2>4. QED
    BY <2>1, <2>2, <2>3
<1>10. CASE FlushSucceeds
  <2>1. /\ rows' = rows (+) SetToBag(Flushed) /\ buckets' = buckets
        /\ current' = NoBuckets /\ ledger' = ledger
    BY <1>10 DEF FlushSucceeds, FlushEnds
  <2>2. ASSUME NEW w \in Windows PROVE Change(w, current[w].count, 0, 0)
    <3>1. Countable(rows', w) /\ CountedIn(rows', w) = CountedIn(rows, w) + current[w].count
      BY <1>1, <1>2, <2>1, FlushedAdds, InsertedCount
    <3>2. QED
      BY <1>2, <2>1, <3>1, NoBucketsType DEF Change
  <2>3. QED
    BY <1>0, <2>2, ChangeKeeps
<1>11. CASE FlushFails
  <2>1. /\ buckets' = buckets /\ current' = current
        /\ \/ UNCHANGED <<rows, ledger>>
           \/ /\ rows' = rows (+) SetToBag(Flushed)
              /\ ledger' = [w \in Windows |-> [ledger[w] EXCEPT !.again = @ + current[w].count]]
    BY <1>11 DEF FlushFails
  <2>2. CASE /\ rows' = rows (+) SetToBag(Flushed)
             /\ ledger' = [w \in Windows |-> [ledger[w] EXCEPT !.again = @ + current[w].count]]
    <3>1. Posted(ledger', Counts(current), Zero)
      BY <1>1, <1>3, <2>2, PostedAll DEF Counts
    <3>2. ASSUME NEW w \in Windows PROVE Change(w, current[w].count, current[w].count, 0)
      <4>1. More(ledger[w], ledger'[w], current[w].count, 0)
        BY <3>1 DEF Posted, Zero, Counts
      <4>2. Countable(rows', w) /\ CountedIn(rows', w) = CountedIn(rows, w) + current[w].count
        BY <1>1, <1>2, <2>2, FlushedAdds, InsertedCount
      <4>3. QED
        BY <1>2, <2>1, <4>1, <4>2 DEF Change
    <3>3. QED
      BY <1>0, <3>2, ChangeKeeps
  <2>3. QED
    BY <1>4, <2>1, <2>2
<1>12. CASE Retry
  BY <1>4, <1>12 DEF Retry
<1>13. CASE FlushGivesUp
  <2>1. rows' = rows /\ buckets' = buckets /\ current' = NoBuckets /\ Lose(current)
    BY <1>13 DEF FlushGivesUp, FlushEnds
  <2>2. Posted(ledger', Zero, Counts(current))
    BY <1>1, <1>3, <2>1, PostedAll DEF Lose, Counts
  <2>3. ASSUME NEW w \in Windows PROVE Change(w, 0, 0, current[w].count)
    <3>1. More(ledger[w], ledger'[w], 0, current[w].count)
      BY <2>2 DEF Posted, Zero, Counts
    <3>2. QED
      BY <1>2, <2>1, <3>1, NoBucketsType DEF Change
  <2>4. QED
    BY <1>0, <2>3, ChangeKeeps
<1>14. CASE Restart
  <2> DEFINE n == [w \in Windows |-> buckets[w].count + current[w].count]
  <2>1. rows' = rows /\ buckets' = NoBuckets /\ current' = NoBuckets
    BY <1>14 DEF Restart, FlushEnds, Swap
  <2>2. n \in [Windows -> Nat]
    BY <1>2
  <2>3. ledger' = [w \in Windows |-> [ledger[w] EXCEPT !.lost = @ + n[w]]]
    <3>1. \A w \in Windows : ledger[w].lost \in Nat
      BY <1>1, EntryType
    <3>2. \A w \in Windows : ledger[w].lost + buckets[w].count + current[w].count
                             = ledger[w].lost + n[w]
      BY <1>2, <3>1
    <3>3. QED
      BY <1>14, <3>2 DEF Restart
  <2>4. \A w \in Windows : n[w] = buckets[w].count + current[w].count
    OBVIOUS
  <2> HIDE DEF n
  <2>5. Posted(ledger', Zero, n)
    BY <1>1, <2>2, <2>3, PostedAll
  <2>6. ASSUME NEW w \in Windows PROVE Change(w, 0, 0, n[w])
    <3>1. More(ledger[w], ledger'[w], 0, n[w])
      BY <2>5 DEF Posted, Zero
    <3>2. QED
      BY <1>2, <2>1, <2>4, <3>1, NoBucketsType DEF Change
  <2>7. QED
    BY <1>0, <2>6, ChangeKeeps
<1>15. CASE UNCHANGED candlesVars
  BY <1>4, <1>15 DEF candlesVars
<1>16. QED
  BY <1>5, <1>6, <1>7, <1>8, <1>9, <1>10, <1>11, <1>12, <1>13, <1>14, <1>15 DEF CandlesNext

\* The count of a minute is what the view inserted plus what the aggregator
\* fetched, each writer's trades once: in the table, a bucket or a flush under
\* way, or in a flush that was given up or lost; only a retried insert counts
\* more, and neither writer takes a trade more than once.  So a trade that both
\* take stands twice, without any failure (main.go 597-685).
THEOREM TradesCounted == CandlesSpec => []EachWriterCountsOnce
<1>1. CandlesOK /\ CountInv => EachWriterCountsOnce
  BY DEF CountInv
<1>2. QED
  BY <1>1, CandlesStart, CandlesStep, CountStep, PTL DEF CandlesSpec

-----------------------------------------------------------------------------
(***************************************************************************)
(* The on-chain indexer.                                                   *)
(***************************************************************************)
USE PoolAssumption, LimitsAssumption

\* Unsigned subtraction of the offset stays a word.
LEMMA MinusIsWord ==
    ASSUME NEW h \in 0 .. MaxHead
    PROVE  Minus(h, Back) \in 0 .. Word - 1
BY DEF Minus

\* Positions of the pool wrap around.
LEMMA LineIsEndpoint ==
    ASSUME NEW i \in Endpoints, NEW k \in Endpoints
    PROVE  (i + k) % N \in Endpoints /\ (i + k + 1) % N \in Endpoints
BY DEF Endpoints

LEMMA TickedType ==
    ASSUME NEW c \in [Endpoints -> 0 .. Cooldown]
    PROVE  Ticked(c) \in [Endpoints -> 0 .. Cooldown]
BY DEF Ticked

\* Benching keeps the type of the bench times.
LEMMA BenchType ==
    ASSUME NEW c \in [Endpoints -> 0 .. Cooldown], NEW e \in 0 .. N
    PROVE  Ticked([c EXCEPT ![e] = Cooldown]) \in [Endpoints -> 0 .. Cooldown]
<1> DEFINE d == [c EXCEPT ![e] = Cooldown]
<1>1. d \in [Endpoints -> 0 .. Cooldown]
  <2>1. Cooldown \in 0 .. Cooldown
    OBVIOUS
  <2>2. QED
    BY <2>1
<1>2. QED
  BY <1>1, TickedType

TypeInv == TypeOK /\ CycleInv

(***************************************************************************)
(* Type correctness, with the facts it rests on: a running cycle is below  *)
(* its error limits and asks only for blocks that were reported to it.     *)
(***************************************************************************)
LEMMA TypeStep == TypeInv /\ [Next]_vars => TypeInv'
<1> SUFFICES ASSUME TypeInv, [Next]_vars PROVE TypeInv'
  OBVIOUS
<1> USE DEF TypeInv, TypeOK, CycleInv, rotator
<1>1. CASE PickFree
  <2>1. PICK k \in Endpoints : url' = InLine(k) /\ idx' = Advance(k)
    BY <1>1 DEF PickFree
  <2>2. url' \in Endpoints /\ idx' \in Endpoints
    BY <2>1, LineIsEndpoint DEF InLine, Advance
  <2>3. QED
    BY <1>1, <2>2 DEF PickFree, Endpoints
<1>2. CASE PickBenched
  BY <1>2 DEF PickBenched, Endpoints
<1>3. ASSUME EndCycle
      PROVE  /\ cool' \in [Endpoints -> 0 .. Cooldown]
             /\ mode' = "pick"
             /\ UNCHANGED <<url, idx, last, cur, head, start, handed>>
  BY <1>3, BenchType DEF EndCycle
<1>4. CASE DialFails
  BY <1>3, <1>4 DEF DialFails
<1>5. CASE StartPolling
  BY <1>5 DEF StartPolling
<1>6. CASE Subscribe
  BY <1>6 DEF Subscribe
<1>7. CASE StreamBlock
  BY <1>7 DEF StreamBlock
<1>8. CASE SubscriptionFails
  BY <1>3, <1>8 DEF SubscriptionFails
<1>9. CASE HeaderFails
  <2>1. Ticked(cool) \in [Endpoints -> 0 .. Cooldown]
    BY TickedType
  <2>2. headerErrors' \in 0 .. MaxErrors /\ streak' \in Nat /\ UNCHANGED logErrors
    BY <1>9 DEF HeaderFails
  <2>3. CASE EndCycle
    BY <1>3, <2>2, <2>3
  <2>4. CASE /\ headerErrors' < MaxErrors
             /\ cool' = Ticked(cool)
             /\ UNCHANGED <<mode, url, idx, last, cur, head, start, handed>>
    BY <1>9, <2>1, <2>2, <2>4 DEF HeaderFails
  <2>5. QED
    BY <1>9, <2>3, <2>4 DEF HeaderFails
<1>10. CASE HeaderArrives
  <2>1. PICK h \in Reports(url) :
          /\ cur' = h
          /\ last' = IF last = 0 THEN Minus(h, Back) ELSE last
          /\ start' = IF last = 0 THEN Minus(h, Back) ELSE start
          /\ \/ h <= last' /\ mode' = "poll" /\ streak' = 0
             \/ h > last' /\ mode' = "logs" /\ UNCHANGED streak
    BY <1>10 DEF HeaderArrives
  <2>2. h \in 0 .. MaxHead /\ h <= head
    BY DEF Reports
  <2>3. Minus(h, Back) \in 0 .. Word - 1
    BY <2>2, MinusIsWord
  <2>4. cool' \in [Endpoints -> 0 .. Cooldown]
    BY <1>10, TickedType DEF HeaderArrives
  <2>5. QED
    BY <1>10, <2>1, <2>2, <2>3, <2>4 DEF HeaderArrives, LogErrorsAfterHeader
<1>11. CASE LogsFail
  <2>1. logErrors' \in 0 .. MaxErrors /\ streak' \in Nat /\ UNCHANGED headerErrors
    BY <1>11 DEF LogsFail
  <2>2. CASE EndCycle
    BY <1>3, <2>1, <2>2
  <2>3. CASE /\ logErrors' < MaxErrors
             /\ mode' = "poll"
             /\ UNCHANGED <<rotator, last, cur, head, start, handed>>
    BY <1>11, <2>1, <2>3 DEF LogsFail
  <2>4. QED
    BY <1>11, <2>2, <2>3 DEF LogsFail
<1>12. CASE LogsArrive
  <2>1. Upto \in From .. cur
    BY <1>12 DEF LogsArrive, Upto, From
  <2>2. QED
    BY <1>12, <2>1 DEF LogsArrive, Reached, From
<1>13. CASE ChainGrows
  BY <1>13 DEF ChainGrows
<1>14. CASE Stop \/ Hangs
  BY <1>14 DEF Stop, Hangs
<1>15. CASE UNCHANGED vars
  BY <1>15 DEF vars
<1>16. QED
  BY <1>1, <1>2, <1>4, <1>5, <1>6, <1>7, <1>8, <1>9, <1>10, <1>11, <1>12,
     <1>13, <1>14, <1>15 DEF Next, Step

LEMMA TypeInvariant == Spec => []TypeInv
<1>1. Init => TypeInv
  BY DEF Init, TypeInv, TypeOK, CycleInv, Endpoints
<1>2. QED
  BY <1>1, TypeStep, PTL DEF Spec

\* Every variable keeps its type: heights stay words, counters their limits.
THEOREM TypeCorrect == Spec => []TypeOK
<1>1. TypeInv => TypeOK
  BY DEF TypeInv
<1>2. QED
  BY <1>1, TypeInvariant, PTL

-----------------------------------------------------------------------------
\* A range that ends before it starts.
LEMMA EmptyRange == \A i \in Int : (i + 1) .. i = {}
OBVIOUS

\* A cycle that has just fixed its start has read nothing.
LEMMA NothingRead ==
    ASSUME start' \in Int, last' = start', handed' = {}
    PROVE  ReadInv'
<1>1. (start' + 1) .. start' = {}
  BY EmptyRange
<1>2. start' <= start'
  OBVIOUS
<1>3. QED
  BY <1>1, <1>2 DEF ReadInv, NoGapInCycle

(***************************************************************************)
(* A cycle reads the blocks after its start without a gap: failures,       *)
(* retries, chunks and heights that go backwards included.                 *)
(***************************************************************************)
LEMMA ReadStep == TypeInv /\ ReadInv /\ [Next]_vars => ReadInv'
<1> SUFFICES ASSUME TypeInv, ReadInv, [Next]_vars PROVE ReadInv'
  OBVIOUS
<1> USE DEF TypeInv, TypeOK, CycleInv, ReadInv, NoGapInCycle, rotator
<1>1. CASE PickFree \/ PickBenched
  BY <1>1 DEF PickFree, PickBenched
<1>2. CASE DialFails \/ SubscriptionFails
  BY <1>2 DEF DialFails, SubscriptionFails, EndCycle
<1>3. CASE StartPolling \/ Subscribe
  <2>1. start' = last' /\ last' \in Int /\ handed' = {}
    BY <1>3 DEF StartPolling, Subscribe
  <2>2. QED
    BY <2>1, NothingRead
<1>4. CASE StreamBlock
  <2>1. handed' = ((start + 1) .. last) \cup {last + 1}
    BY <1>4 DEF StreamBlock
  <2>2. handed' = (start + 1) .. (last + 1)
    BY <1>4, <2>1 DEF StreamBlock
  <2>3. QED
    BY <1>4, <2>2 DEF StreamBlock
<1>5. CASE HeaderFails
  BY <1>5 DEF HeaderFails, EndCycle
<1>6. CASE HeaderArrives
  <2>1. CASE last = 0
    <3>1. handed' = {} /\ last' = start'
      BY <1>6, <2>1 DEF HeaderArrives
    <3>2. last' \in 0 .. Word - 1
      BY TypeStep
    <3>3. QED
      <4>1. start' \in Int
        BY <3>1, <3>2
      <4>2. QED
        BY <3>1, <4>1, NothingRead
  <2>2. CASE last # 0
    BY <1>6, <2>2 DEF HeaderArrives
  <2>3. QED
    BY <2>1, <2>2
<1>7. CASE LogsFail
  BY <1>7 DEF LogsFail, EndCycle
<1>8. CASE LogsArrive
  <2>1. Upto \in From .. cur
    BY <1>8 DEF LogsArrive, Upto, From
  <2>2. handed' = ((start + 1) .. last) \cup (From .. Upto) /\ last' = Upto
    BY <1>8 DEF LogsArrive, Reached
  <2>3. handed' = (start + 1) .. Upto
    BY <1>8, <2>1, <2>2 DEF From, LogsArrive
  <2>4. QED
    BY <1>8, <2>1, <2>2, <2>3 DEF From, LogsArrive
<1>9. CASE ChainGrows \/ Stop \/ Hangs \/ UNCHANGED vars
  BY <1>9 DEF ChainGrows, Stop, Hangs, vars
<1>10. QED
  BY <1>1, <1>2, <1>3, <1>4, <1>5, <1>6, <1>7, <1>8, <1>9 DEF Next, Step

THEOREM ReadsWithoutGap == Spec => []NoGapInCycle
<1>1. Init => ReadInv
  BY DEF Init, ReadInv, NoGapInCycle
<1>2. ReadInv => NoGapInCycle
  BY DEF ReadInv
<1>3. QED
  BY <1>1, <1>2, TypeInvariant, ReadStep, PTL DEF Spec

-----------------------------------------------------------------------------
(***************************************************************************)
(* lastBlock never gets ahead of the chain, provided no endpoint reports a *)
(* height below the offset a cycle starts with.                            *)
(***************************************************************************)
THEOREM StaysBehind ==
    ASSUME Back <= MinReport
    PROVE  Spec => []NeverAhead
<1>1. Init => NeverAhead
  BY DEF Init, NeverAhead
<1>2. TypeInv /\ NeverAhead /\ [Next]_vars => NeverAhead'
  <2> SUFFICES ASSUME TypeInv, NeverAhead, [Next]_vars PROVE NeverAhead'
    OBVIOUS
  <2> USE DEF TypeInv, TypeOK, CycleInv, NeverAhead, rotator
  <2>1. CASE HeaderArrives
    <3>1. PICK h \in Reports(url) :
            last' = IF last = 0 THEN Minus(h, Back) ELSE last
      BY <2>1 DEF HeaderArrives
    <3>2. CASE url \in Lagging
      <4>1. h \in Nat /\ h >= Back /\ h <= head
        BY <3>2 DEF Reports
      <4>2. QED
        BY <2>1, <3>1, <4>1 DEF Minus, HeaderArrives
    <3>3. CASE url \notin Lagging
      <4>1. h = head
        BY <3>3 DEF Reports
      <4>2. head >= Back
        OBVIOUS
      <4>3. QED
        BY <2>1, <3>1, <4>1, <4>2 DEF Minus, HeaderArrives
    <3>4. QED
      BY <3>2, <3>3
  <2>2. CASE LogsArrive
    BY <2>2 DEF LogsArrive, Reached, Upto, From
  <2>3. CASE Subscribe \/ StreamBlock \/ StartPolling
    BY <2>3 DEF Subscribe, StreamBlock, StartPolling
  <2>4. CASE ChainGrows
    BY <2>4 DEF ChainGrows
  <2>5. QED
    BY <2>1, <2>2, <2>3, <2>4 DEF Next, Step, vars, PickFree, PickBenched,
       DialFails, SubscriptionFails, HeaderFails, LogsFail, EndCycle, Stop, Hangs
<1>3. QED
  BY <1>1, <1>2, TypeInvariant, PTL DEF Spec

-----------------------------------------------------------------------------
(***************************************************************************)
(* An endpoint whose polls keep failing is benched before MaxErrors^2 of   *)
(* them: the counter of log errors survives the header errors between.     *)
(***************************************************************************)

\* The products that the two counters give rise to.
LEMMA Products ==
    ASSUME NEW l \in 0 .. MaxErrors - 1
    PROVE  /\ l * MaxErrors \in Nat
           /\ (l + 1) * MaxErrors = l * MaxErrors + MaxErrors
           /\ l * MaxErrors + MaxErrors <= MaxErrors * MaxErrors
<1>1. l * MaxErrors \in Nat /\ (l + 1) * MaxErrors = l * MaxErrors + MaxErrors
  OBVIOUS
<1>2. (l + 1) * MaxErrors <= MaxErrors * MaxErrors
  OBVIOUS
<1>3. QED
  BY <1>1, <1>2

LEMMA StreakStep == TypeInv /\ StreakInv /\ [Next]_vars => StreakInv'
<1> SUFFICES ASSUME TypeInv, StreakInv, [Next]_vars PROVE StreakInv'
  OBVIOUS
<1> DEFINE weight == logErrors * MaxErrors
<1>0. /\ headerErrors \in Nat /\ logErrors \in Nat /\ streak \in Nat
      /\ weight \in Nat
      /\ mode \in {"poll", "logs"} =>
            headerErrors < MaxErrors /\ logErrors < MaxErrors
      /\ mode = "poll" => streak <= weight + headerErrors
      /\ mode = "logs" => streak <= weight + (MaxErrors - 1)
  BY DEF TypeInv, TypeOK, CycleInv, StreakInv
<1>1. CASE HeaderFails
  <2>1. /\ mode = "poll" /\ logErrors' = logErrors
        /\ headerErrors' = headerErrors + 1 /\ streak' = streak + 1
        /\ mode' \in {"pick", "poll"}
    BY <1>1 DEF HeaderFails, EndCycle
  <2>2. streak' <= weight + headerErrors'
    BY <1>0, <2>1
  <2>3. QED
    BY <2>1, <2>2 DEF StreakInv
<1>2. CASE HeaderArrives
  <2>1. /\ mode = "poll" /\ logErrors' = logErrors /\ headerErrors' = 0
        /\ \/ mode' = "poll" /\ streak' = 0
           \/ mode' = "logs" /\ streak' = streak
    BY <1>2 DEF HeaderArrives, LogErrorsAfterHeader
  <2>2. CASE mode' = "poll" /\ streak' = 0
    <3>1. streak' <= weight + headerErrors'
      BY <1>0, <2>1, <2>2
    <3>2. QED
      BY <2>1, <2>2, <3>1 DEF StreakInv
  <2>3. CASE mode' = "logs" /\ streak' = streak
    <3>1. streak' <= weight + (MaxErrors - 1)
      BY <1>0, <2>1, <2>3
    <3>2. QED
      BY <2>1, <2>3, <3>1 DEF StreakInv
  <2>4. QED
    BY <2>1, <2>2, <2>3
<1>3. CASE LogsFail
  <2>1. /\ mode = "logs" /\ headerErrors' = headerErrors
        /\ logErrors' = logErrors + 1 /\ streak' = streak + 1
        /\ mode' \in {"pick", "poll"}
    BY <1>3 DEF LogsFail, EndCycle
  <2>2. logErrors \in 0 .. MaxErrors - 1
    BY <1>0, <2>1
  <2>3. logErrors' * MaxErrors = weight + MaxErrors
    BY <2>1, <2>2, Products
  <2>4. streak' <= logErrors' * MaxErrors + headerErrors'
    BY <1>0, <2>1, <2>3
  <2>5. QED
    BY <2>1, <2>4 DEF StreakInv
<1>4. CASE LogsArrive
  <2>1. /\ mode' = "poll" /\ streak' = 0 /\ logErrors' = 0
        /\ headerErrors' = headerErrors
    BY <1>4 DEF LogsArrive
  <2>2. 0 * MaxErrors = 0
    OBVIOUS
  <2>3. streak' <= logErrors' * MaxErrors + headerErrors'
    BY <1>0, <2>1, <2>2
  <2>4. QED
    BY <2>1, <2>3 DEF StreakInv
<1>5. CASE StartPolling
  <2>1. 0 * MaxErrors = 0
    OBVIOUS
  <2>2. QED
    BY <1>5, <2>1 DEF StartPolling, StreakInv
<1>6. CASE mode' \notin {"poll", "logs"}
  BY <1>6 DEF StreakInv
<1>7. CASE UNCHANGED <<mode, streak, logErrors, headerErrors>>
  BY <1>7 DEF StreakInv
<1>8. QED
  BY <1>1, <1>2, <1>3, <1>4, <1>5, <1>6, <1>7 DEF Next, Step, PickFree,
     PickBenched, DialFails, EndCycle, Subscribe, StreamBlock,
     SubscriptionFails, ChainGrows, Stop, Hangs, vars

THEOREM BadEndpointLeaves == Spec => []BadEndpointIsBenched
<1>1. Init => StreakInv
  BY DEF Init, StreakInv
<1>2. TypeInv /\ StreakInv => BadEndpointIsBenched
  <2> SUFFICES ASSUME TypeInv, StreakInv, mode \in {"poll", "logs"}
               PROVE  streak < MaxErrors * MaxErrors
    BY DEF BadEndpointIsBenched
  <2> DEFINE weight == logErrors * MaxErrors
  <2>1. /\ logErrors \in 0 .. MaxErrors - 1
        /\ headerErrors \in 0 .. MaxErrors - 1
        /\ streak \in Nat
        /\ streak <= weight + headerErrors \/ streak <= weight + (MaxErrors - 1)
    BY DEF TypeInv, TypeOK, CycleInv, StreakInv
  <2>2. weight \in Nat /\ weight + MaxErrors <= MaxErrors * MaxErrors
    BY <2>1, Products
  <2>3. MaxErrors * MaxErrors \in Nat
    OBVIOUS
  <2> HIDE DEF weight
  <2>4. QED
    BY <2>1, <2>2, <2>3
<1>3. QED
  BY <1>1, <1>2, TypeInvariant, StreakStep, PTL DEF Spec

=============================================================================
