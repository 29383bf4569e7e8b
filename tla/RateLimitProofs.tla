-------------------------- MODULE RateLimitProofs ---------------------------
(***************************************************************************)
(* Theorems about the rate limiter, for any number of addresses, proxies   *)
(* and goroutines, any limit and any length of the window.                 *)
(***************************************************************************)
EXTENDS RateLimit, WellFoundedInduction, TLAPS

\* Which address a request counts for.
LEMMA ClientIPType ==
    ASSUME NEW peer \in Addresses, NEW forwarded \in Header, NEW real \in Header
    PROVE  ClientIP(peer, forwarded, real) \in Addresses
BY DEF ClientIP, Header

\* The parts of Next, with the address of a request in place of its headers.
LEMMA NextCases ==
    ASSUME [Next]_vars
    PROVE  \/ \E w \in Workers, a \in Addresses : Incr(w, a) \/ IncrFails(w, a)
           \/ \E w \in Workers : Expire(w) \/ ExpireFails(w)
           \/ Tick
           \/ \E a \in Addresses : Evict(a)
           \/ UNCHANGED vars
BY ClientIPType DEF Next

\* Histories of a minute.
Counts == [0 .. Minute - 1 -> Nat]

LEMMA LaterType == \A p \in Counts : Later(p) \in Counts
<1> USE LimitAssumption
<1>1. ASSUME NEW p \in Counts, NEW n \in 0 .. Minute - 1
      PROVE  (IF n = 0 THEN 0 ELSE p[n - 1]) \in Nat
  <2>1. n # 0 => n - 1 \in 0 .. Minute - 1
    OBVIOUS
  <2>2. QED
    BY <2>1 DEF Counts
<1>2. QED
  BY <1>1 DEF Later, Counts

(***************************************************************************)
(* No counter exceeds the limit by more than one, an expiry is a number of *)
(* ticks up to a minute, and only a counter that is there has one.         *)
(***************************************************************************)
THEOREM TypeCorrect == Spec => []TypeOK
<1> USE LimitAssumption
<1>1. Init => TypeOK
  BY DEF Init, TypeOK, Never
<1>2. TypeOK /\ [Next]_vars => TypeOK'
  <2> SUFFICES ASSUME TypeOK, [Next]_vars PROVE TypeOK'
    OBVIOUS
  <2> USE DEF TypeOK
  <2>1. ASSUME NEW w \in Workers, NEW a \in Addresses, Incr(w, a)
        PROVE  TypeOK'
    <3> DEFINE n == count[a] + 1
    <3>1. n \in Nat /\ n > 0 /\ passed[a][0] \in Nat
      OBVIOUS
    <3>2. /\ count' = [count EXCEPT ![a] = IF n > Limit THEN Limit + 1 ELSE n]
          /\ expiring' = [expiring EXCEPT ![w] = IF SetsExpiry(n) THEN a ELSE None]
          /\ lost' \subseteq lost
          /\ ttl' = ttl /\ evicted' = evicted
      BY <2>1 DEF Incr, Counted
    <3>3. passed' = [passed EXCEPT ![a] = [passed[a] EXCEPT ![0] =
                        IF Admits(n) THEN passed[a][0] + 1 ELSE passed[a][0]]]
      BY <2>1 DEF Incr
    <3>4. (IF n > Limit THEN Limit + 1 ELSE n) \in 1 .. Limit + 1
      BY <3>1
    <3>5. count' \in [Addresses -> 0 .. Limit + 1] /\ count'[a] # 0
          /\ \A b \in Addresses : b # a => count'[b] = count[b]
      BY <3>2, <3>4
    <3>6. expiring' \in [Workers -> Addresses \cup {None}]
      BY <3>2
    <3>7. [passed[a] EXCEPT ![0] =
              IF Admits(n) THEN passed[a][0] + 1 ELSE passed[a][0]]
            \in [0 .. Minute - 1 -> Nat]
      BY <3>1
    <3>8. passed' \in [Addresses -> [0 .. Minute - 1 -> Nat]]
      BY <3>3, <3>7
    <3>9. QED
      BY <3>2, <3>5, <3>6, <3>8
  <2>i. ASSUME NEW w \in Workers, NEW a \in Addresses, IncrFails(w, a)
        PROVE  TypeOK'
    <3>1. Counted(count[a] + 1) \in 1 .. Limit + 1
      BY DEF Counted
    <3>2. QED
      BY <2>i, <3>1 DEF IncrFails
  <2>2. ASSUME NEW w \in Workers, Expire(w) PROVE TypeOK'
    BY <2>2 DEF Expire
  <2>3. ASSUME NEW w \in Workers, ExpireFails(w) PROVE TypeOK'
    BY <2>3 DEF ExpireFails
  <2>4. CASE Tick
    <3>1. count' \in [Addresses -> 0 .. Limit + 1]
      BY <2>4 DEF Tick
    <3>2. ASSUME NEW a \in Addresses
          PROVE  ttl'[a] \in (1 .. Minute) \cup {None}
      BY <2>4 DEF Tick
    <3>3. ttl' \in [Addresses -> (1 .. Minute) \cup {None}]
      BY <2>4, <3>2 DEF Tick
    <3>4. \A a \in Addresses : count'[a] = 0 => ttl'[a] = None
      BY <2>4 DEF Tick
    <3>5. \A a \in Addresses : Later(passed[a]) \in [0 .. Minute - 1 -> Nat]
                              /\ Later(evicted[a]) \in [0 .. Minute - 1 -> Nat]
      BY LaterType DEF Counts
    <3>6. /\ passed' \in [Addresses -> [0 .. Minute - 1 -> Nat]]
          /\ evicted' \in [Addresses -> [0 .. Minute - 1 -> Nat]]
      BY <2>4, <3>5 DEF Tick
    <3>7. expiring' = expiring /\ lost' = lost
      BY <2>4 DEF Tick
    <3>8. QED
      BY <3>1, <3>3, <3>4, <3>6, <3>7
  <2>5. ASSUME NEW a \in Addresses, Evict(a) PROVE TypeOK'
    <3>0. evicted[a][0] \in Nat
      OBVIOUS
    <3>1. [evicted[a] EXCEPT ![0] = evicted[a][0] + 1] \in [0 .. Minute - 1 -> Nat]
      BY <3>0
    <3>2. evicted' \in [Addresses -> [0 .. Minute - 1 -> Nat]]
      BY <2>5, <3>1 DEF Evict
    <3>3. QED
      BY <2>5, <3>2 DEF Evict
  <2>6. CASE UNCHANGED vars
    BY <2>6 DEF vars
  <2>7. QED
    BY <2>1, <2>i, <2>2, <2>3, <2>4, <2>5, <2>6, NextCases
<1>3. QED
  BY <1>1, <1>2, PTL DEF Spec

(***************************************************************************)
(* A counter without expiry is about to get one, or the call to set it     *)
(* failed, or the Incr that made the counter did after Redis had counted,  *)
(* in whatever order requests, expiries and evictions come.                *)
(***************************************************************************)
THEOREM CountersExpire == Spec => []NoExpiryIsExplained
<1> USE LimitAssumption
<1>1. Init => NoExpiryIsExplained
  BY DEF Init, NoExpiryIsExplained
<1>2. TypeOK /\ NoExpiryIsExplained /\ [Next]_vars => NoExpiryIsExplained'
  <2> SUFFICES ASSUME TypeOK, NoExpiryIsExplained, [Next]_vars,
                      NEW b \in Addresses, count'[b] > 0, ttl'[b] = None
               PROVE  b \in lost' \/ \E w \in Workers : expiring'[w] = b
    BY DEF NoExpiryIsExplained
  <2> USE DEF TypeOK, NoExpiryIsExplained
  <2>1. ASSUME NEW w \in Workers, NEW a \in Addresses, Incr(w, a)
        PROVE  b \in lost' \/ \E v \in Workers : expiring'[v] = b
    <3> DEFINE n == count[a] + 1
    <3>1. /\ expiring' = [expiring EXCEPT ![w] = IF SetsExpiry(n) THEN a ELSE None]
          /\ lost' = IF n = 1 THEN lost \ {a} ELSE lost
          /\ ttl' = ttl /\ expiring[w] = None
          /\ \A c \in Addresses : c # a => count'[c] = count[c]
      BY <2>1 DEF Incr
    <3>2. CASE n = 1 /\ a = b
      BY <3>1, <3>2 DEF SetsExpiry
    <3>3. CASE n # 1 \/ a # b
      <4>1. count[b] > 0
        BY <3>1, <3>3
      <4>2. CASE b \in lost
        BY <3>1, <3>3, <4>2
      <4>3. CASE \E v \in Workers : expiring[v] = b
        BY <3>1, <4>3
      <4>4. QED
        BY <3>1, <4>1, <4>2, <4>3
    <3>4. QED
      BY <3>2, <3>3
  <2>i. ASSUME NEW w \in Workers, NEW a \in Addresses, IncrFails(w, a)
        PROVE  b \in lost' \/ \E v \in Workers : expiring'[v] = b
    <3>1. /\ ttl' = ttl /\ expiring' = expiring
          /\ lost' = IF count[a] = 0 THEN lost \cup {a} ELSE lost
          /\ \A c \in Addresses : c # a => count'[c] = count[c]
      BY <2>i DEF IncrFails
    <3>2. CASE a = b /\ count[a] = 0
      BY <3>1, <3>2
    <3>3. CASE ~(a = b /\ count[a] = 0)
      <4>1. count[b] > 0 /\ ttl[b] = None
        BY <3>1, <3>3
      <4>2. QED
        BY <3>1, <4>1
    <3>4. QED
      BY <3>2, <3>3
  <2>2. ASSUME NEW w \in Workers, Expire(w)
        PROVE  b \in lost' \/ \E v \in Workers : expiring'[v] = b
    <3>1. expiring[w] # b /\ ttl[b] = None /\ count[b] > 0
      BY <2>2 DEF Expire
    <3>2. QED
      BY <2>2, <3>1 DEF Expire
  <2>3. ASSUME NEW w \in Workers, ExpireFails(w)
        PROVE  b \in lost' \/ \E v \in Workers : expiring'[v] = b
    BY <2>3 DEF ExpireFails
  <2>4. CASE Tick
    <3>1. count[b] > 0 /\ ttl[b] = None
      BY <2>4 DEF Tick
    <3>2. QED
      BY <2>4, <3>1 DEF Tick
  <2>5. ASSUME NEW a \in Addresses, Evict(a)
        PROVE  b \in lost' \/ \E v \in Workers : expiring'[v] = b
    BY <2>5 DEF Evict
  <2>6. CASE UNCHANGED vars
    BY <2>6 DEF vars
  <2>7. QED
    BY <2>1, <2>i, <2>2, <2>3, <2>4, <2>5, <2>6, NextCases
<1>3. QED
  BY <1>1, <1>2, TypeCorrect, PTL DEF Spec

-----------------------------------------------------------------------------
(* Induction, with a set in place of a predicate, and sums.                  *)

LEMMA Least == ASSUME NEW T \in SUBSET Nat, T # {} PROVE \E m \in T : \A n \in T : m <= n
<1> DEFINE R == {p \in Nat \X Nat : p[1] < p[2]}
<1>1. IsWellFoundedOn(R, Nat)
  BY NatLessThanWellFounded DEF OpToRel
<1>2. PICK m \in T : \A n \in T : <<n, m>> \notin R
  BY <1>1, WFMin
<1>3. ASSUME NEW n \in T, n < m PROVE <<n, m>> \in R
  <2>1. <<n, m>> \in Nat \X Nat
    OBVIOUS
  <2>2. QED
    BY <1>3, <2>1
<1>4. \A n \in T : ~(n < m)
  <2> HIDE DEF R
  <2>1. QED
    BY <1>2, <1>3
<1>5. T \subseteq Nat
  OBVIOUS
<1>6. QED
  BY <1>4, <1>5

LEMMA Induct ==
    ASSUME NEW T, 0 \in T, \A n \in Nat : n \in T => n + 1 \in T
    PROVE  Nat \subseteq T
<1> SUFFICES ASSUME Nat \ T # {} PROVE FALSE
  OBVIOUS
<1>1. PICK m \in Nat \ T : \A n \in Nat \ T : m <= n
  BY Least
<1>2. m - 1 \in Nat \ T
  BY <1>1
<1>3. QED
  BY <1>1, <1>2

\* f holds the sums of the first n numbers of p.
IsSums(f, p) ==
    /\ f \in [0 .. Minute -> Nat]
    /\ f[0] = 0
    /\ \A n \in 1 .. Minute : f[n] = f[n - 1] + p[n - 1]

LEMMA SumsExist == ASSUME NEW p \in Counts PROVE \E f : IsSums(f, p)
<1> USE LimitAssumption DEF Counts
<1> DEFINE Upto(m) == \E f \in [0 .. m -> Nat] :
                         f[0] = 0 /\ \A n \in 1 .. m : f[n] = f[n - 1] + p[n - 1]
           T == {m \in Nat : m <= Minute => Upto(m)}
<1>1. 0 \in T
  <2> DEFINE f == [n \in 0 .. 0 |-> 0]
  <2>1. f \in [0 .. 0 -> Nat] /\ f[0] = 0 /\ 1 .. 0 = {}
    OBVIOUS
  <2>2. QED
    BY <2>1
<1>2. ASSUME NEW m \in Nat, m \in T PROVE m + 1 \in T
  <2> HIDE DEF Upto
  <2> SUFFICES ASSUME m + 1 <= Minute PROVE Upto(m + 1)
    OBVIOUS
  <2>0. Upto(m)
    BY <1>2
  <2>1. PICK f \in [0 .. m -> Nat] :
           f[0] = 0 /\ \A n \in 1 .. m : f[n] = f[n - 1] + p[n - 1]
    BY <2>0 DEF Upto
  <2> DEFINE g == [n \in 0 .. m + 1 |-> IF n = m + 1 THEN f[m] + p[m] ELSE f[n]]
  <2>2. p[m] \in Nat /\ f[m] \in Nat
    OBVIOUS
  <2>3. g \in [0 .. m + 1 -> Nat] /\ g[0] = 0
    BY <2>1, <2>2
  <2>4. ASSUME NEW n \in 1 .. m + 1 PROVE g[n] = g[n - 1] + p[n - 1]
    BY <2>1, <2>2
  <2> HIDE DEF g
  <2>5. QED
    BY <2>3, <2>4 DEF Upto
<1> HIDE DEF T, Upto
<1>3. Nat \subseteq T
  BY <1>1, <1>2, Induct
<1>4. Upto(Minute)
  BY <1>3 DEF T
<1> USE DEF Upto
<1>5. QED
  BY <1>4 DEF IsSums

LEMMA SumsIs == ASSUME NEW p \in Counts PROVE IsSums(Sums(p), p)
<1> USE LimitAssumption
<1> DEFINE step(g) == [n \in 0 .. Minute |-> IF n = 0 THEN 0 ELSE g[n - 1] + p[n - 1]]
           sum == CHOOSE g : g = step(g)
<1>1. PICK f : IsSums(f, p)
  BY SumsExist
<1>2. f = step(f)
  BY <1>1 DEF IsSums
<1>3. sum = step(sum)
  BY <1>2
<1>4. sum[0] = 0 /\ \A n \in 1 .. Minute : sum[n] = sum[n - 1] + p[n - 1]
  <2> HIDE DEF sum
  <2>1. QED
    BY <1>3
<1>5. Sums(p) = sum
  BY DEF Sums
<1>6. sum = [n \in 0 .. Minute |-> sum[n]]
  <2> HIDE DEF sum
  <2>1. QED
    BY <1>3
<1> HIDE DEF sum
<1> DEFINE T == {n \in Nat : n <= Minute => f[n] = sum[n]}
<1>7. 0 \in T
  BY <1>1, <1>4 DEF IsSums
<1>8. ASSUME NEW n \in Nat, n \in T PROVE n + 1 \in T
  BY <1>8, <1>1, <1>4 DEF IsSums
<1>9. Nat \subseteq T
  <2> HIDE DEF T
  <2>1. QED
    BY <1>7, <1>8, Induct
<1>10. \A n \in 0 .. Minute : f[n] = sum[n]
  BY <1>9
<1>11. f = sum
  BY <1>1, <1>6, <1>10 DEF IsSums
<1>12. QED
  BY <1>1, <1>5, <1>11

\* A tick moves the sums on by one.
Shifted(p, q) == q[0] = 0 /\ \A n \in 1 .. Minute - 1 : q[n] = p[n - 1]

LEMMA SumsShift ==
    ASSUME NEW p \in Counts, NEW q \in Counts, Shifted(p, q)
    PROVE  \A n \in 0 .. Minute - 1 : Sums(q)[n + 1] = Sums(p)[n]
<1> USE LimitAssumption DEF Counts, Shifted
<1> DEFINE f == Sums(p)
           g == Sums(q)
           T == {n \in Nat : n + 1 <= Minute => g[n + 1] = f[n]}
<1>1. IsSums(f, p) /\ IsSums(g, q)
  BY SumsIs
<1> HIDE DEF f, g
<1>2. 0 \in T
  BY <1>1 DEF IsSums
<1>3. ASSUME NEW n \in Nat, n \in T PROVE n + 1 \in T
  <2>1. SUFFICES ASSUME n + 2 <= Minute PROVE g[n + 2] = f[n + 1]
    OBVIOUS
  <2>2. g[n + 2] = g[n + 1] + q[n + 1] /\ f[n + 1] = f[n] + p[n]
    <3>1. /\ n + 2 \in 1 .. Minute /\ (n + 2) - 1 = n + 1
          /\ n + 1 \in 1 .. Minute /\ (n + 1) - 1 = n
      BY <2>1
    <3>2. /\ \A m \in 1 .. Minute : g[m] = g[m - 1] + q[m - 1]
          /\ \A m \in 1 .. Minute : f[m] = f[m - 1] + p[m - 1]
      BY <1>1 DEF IsSums
    <3> HIDE DEF Counts, Shifted
    <3>3. QED
      BY <3>1, <3>2
  <2>3. q[n + 1] = p[n] /\ g[n + 1] = f[n]
    BY <1>3, <2>1
  <2>4. QED
    BY <2>2, <2>3
<1>4. Nat \subseteq T
  <2> HIDE DEF T
  <2>1. QED
    BY <1>2, <1>3, Induct
<1>5. QED
  BY <1>4 DEF f, g

\* One more request in the youngest tick.
LEMMA SumsBump ==
    ASSUME NEW p \in Counts, NEW q \in Counts, q[0] = p[0] + 1,
           \A n \in 1 .. Minute - 1 : q[n] = p[n]
    PROVE  \A n \in 1 .. Minute : Sums(q)[n] = Sums(p)[n] + 1
<1> USE LimitAssumption DEF Counts
<1> DEFINE f == Sums(p)
           g == Sums(q)
           T == {n \in Nat : n + 1 <= Minute => g[n + 1] = f[n + 1] + 1}
<1>1. IsSums(f, p) /\ IsSums(g, q)
  BY SumsIs
<1> HIDE DEF f, g
<1>2. 0 \in T
  <2>1. /\ g[1] = g[0] + q[0] /\ f[1] = f[0] + p[0]
        /\ g[0] = 0 /\ f[0] = 0 /\ p[0] \in Nat
    BY <1>1 DEF IsSums
  <2>2. QED
    BY <2>1
<1>3. ASSUME NEW n \in Nat, n \in T PROVE n + 1 \in T
  <2>1. SUFFICES ASSUME n + 2 <= Minute PROVE g[n + 2] = f[n + 2] + 1
    OBVIOUS
  <2>0. n + 2 \in 1 .. Minute /\ (n + 2) - 1 = n + 1
    BY <2>1
  <2>2. g[n + 2] = g[n + 1] + q[n + 1] /\ f[n + 2] = f[n + 1] + p[n + 1]
    BY <1>1, <2>0 DEF IsSums
  <2>3. /\ q[n + 1] = p[n + 1] /\ g[n + 1] = f[n + 1] + 1
    BY <1>3, <2>1
  <2>4. p[n + 1] \in Nat /\ f[n + 1] \in Nat
    <3>1. n + 1 \in 0 .. Minute - 1 /\ n + 1 \in 0 .. Minute
      BY <2>1
    <3>2. p \in [0 .. Minute - 1 -> Nat] /\ f \in [0 .. Minute -> Nat]
      BY <1>1 DEF IsSums
    <3> HIDE DEF Counts
    <3>3. QED
      BY <3>1, <3>2
  <2> DEFINE x == f[n + 1]
             y == p[n + 1]
  <2>5. g[n + 2] = (x + 1) + y /\ f[n + 2] = x + y /\ x \in Nat /\ y \in Nat
    BY <2>2, <2>3, <2>4
  <2> HIDE DEF x, y
  <2>6. QED
    BY <2>5
<1>4. Nat \subseteq T
  <2> HIDE DEF T
  <2>1. QED
    BY <1>2, <1>3, Induct
<1>5. ASSUME NEW n \in 1 .. Minute PROVE g[n] = f[n] + 1
  <2>1. n - 1 \in T
    <3> HIDE DEF T
    <3>1. QED
      BY <1>4
  <2>2. QED
    BY <2>1
<1>6. QED
  BY <1>5 DEF f, g

LEMMA NoneSums == \A n \in 0 .. Minute : Sums(Never)[n] = 0
<1> USE LimitAssumption
<1> DEFINE f == Sums(Never)
           T == {n \in Nat : n <= Minute => f[n] = 0}
<1>1. Never \in Counts
  BY DEF Never, Counts
<1>2. IsSums(f, Never)
  BY <1>1, SumsIs
<1> HIDE DEF f
<1>3. 0 \in T
  BY <1>2 DEF IsSums
<1>4. ASSUME NEW n \in Nat, n \in T PROVE n + 1 \in T
  BY <1>2, <1>4 DEF IsSums, Never
<1>5. Nat \subseteq T
  <2> HIDE DEF T
  <2>1. QED
    BY <1>3, <1>4, Induct
<1>6. QED
  BY <1>5 DEF f

-----------------------------------------------------------------------------
\* What the counter of now, at n, has let pass at most, and what those before
\* it have when there were m of them.
Bound(n, m) == (IF n > Limit THEN Limit ELSE n) + Limit * m

LEMMA BoundType == \A n, m \in Nat : Bound(n, m) \in Nat
BY LimitAssumption DEF Bound

LEMMA BoundGrows ==
    ASSUME NEW n \in Nat, NEW m \in Nat
    PROVE  /\ Bound(n, m) <= Bound(n + 1, m)
           /\ n < Limit => Bound(n + 1, m) = Bound(n, m) + 1
           /\ Bound(Counted(n + 1), m) = Bound(n + 1, m)
           /\ Bound(n, m) \in Nat /\ Bound(n + 1, m) \in Nat
<1> DEFINE l == Limit
           x == l * m
<1>1. x \in Nat /\ l \in Nat
  BY LimitAssumption
<1>2. /\ Bound(n, m) = (IF n > l THEN l ELSE n) + x
      /\ Bound(n + 1, m) = (IF n + 1 > l THEN l ELSE n + 1) + x
      /\ Bound(Counted(n + 1), m) = (IF Counted(n + 1) > l THEN l ELSE Counted(n + 1)) + x
      /\ Counted(n + 1) = IF n + 1 > l THEN l + 1 ELSE n + 1
  BY DEF Bound, Counted
<1> HIDE DEF x, l
<1>3. QED
  BY <1>1, <1>2 DEF l

\* A counter that goes is one more before: it let at most Limit pass.
LEMMA BoundMoves ==
    ASSUME NEW n \in Nat, NEW m \in Nat
    PROVE  /\ Bound(n, m) <= Bound(0, m + 1)
           /\ Bound(n, m) \in Nat /\ Bound(0, m + 1) \in Nat
<1> DEFINE l == Limit
           x == l * m
           y == l * (m + 1)
<1>1. l \in Nat /\ x \in Nat /\ y = x + l
  BY LimitAssumption
<1>2. /\ Bound(n, m) = (IF n > l THEN l ELSE n) + x
      /\ Bound(0, m + 1) = (IF 0 > l THEN l ELSE 0) + y
  BY DEF Bound
<1> HIDE DEF x, y, l
<1>3. QED
  BY <1>1, <1>2

\* The counters before the counter of now in the last n ticks: those evicted,
\* and the one that expired d ticks ago.
Before(e, n, d) == e[n] + (IF n > d THEN 1 ELSE 0)

\* TwoWindows for one address: passed and evicted summed up, count and expiry.
Windows(f, e, n, t, d) ==
    /\ t # None => d + t >= Minute
    /\ \A i \in 1 .. Minute : f[i] <= Bound(n, Before(e, i, d))

LEMMA TwoWindowsIs ==
    TwoWindows <=> \A a \in Addresses : \E d \in 1 .. Minute :
                      Windows(Sums(passed[a]), Sums(evicted[a]), count[a], ttl[a], d)
BY DEF TwoWindows, Windows, Before, Bound

LEMMA SumsType == \A p \in Counts : Sums(p) \in [0 .. Minute -> Nat]
BY SumsIs DEF IsSums

LEMMA BeforeType ==
    \A e \in [0 .. Minute -> Nat], d \in 1 .. Minute, i \in 0 .. Minute :
        Before(e, i, d) \in Nat
BY LimitAssumption DEF Before

LEMMA WindowsInit == Windows(Sums(Never), Sums(Never), 0, None, Minute)
<1> USE LimitAssumption
<1> DEFINE f == Sums(Never)
<1>1. \A i \in 0 .. Minute : f[i] = 0
  BY NoneSums
<1> HIDE DEF f
<1>2. \A i \in 1 .. Minute : Before(f, i, Minute) = 0
  BY <1>1 DEF Before
<1>3. Bound(0, 0) \in Nat
  BY BoundType
<1>4. Windows(f, f, 0, None, Minute)
  BY <1>1, <1>2, <1>3 DEF Windows
<1>5. QED
  BY <1>4 DEF f

Same(f, g) == \A i \in 1 .. Minute : g[i] = f[i]
OneMore(f, g) == \A i \in 1 .. Minute : g[i] = f[i] + 1
Moved(f, g) == \A i \in 2 .. Minute : g[i] = f[i - 1]

\* The counter goes up, by a request that passes or by one that is not counted
\* in f.
LEMMA WindowsIncr ==
    ASSUME NEW f \in [0 .. Minute -> Nat], NEW g \in [0 .. Minute -> Nat],
           NEW e \in [0 .. Minute -> Nat], NEW n \in Nat, NEW t,
           NEW d \in 1 .. Minute, Windows(f, e, n, t, d),
           Same(f, g) \/ (n < Limit /\ OneMore(f, g))
    PROVE  Windows(g, e, Counted(n + 1), t, d)
<1> SUFFICES ASSUME NEW i \in 1 .. Minute
             PROVE  g[i] <= Bound(Counted(n + 1), Before(e, i, d))
  BY DEF Windows
<1>0. i \in 0 .. Minute
  BY LimitAssumption
<1> DEFINE m == Before(e, i, d)
           x == f[i]
           y == g[i]
           b == Bound(n, m)
           c == Bound(n + 1, m)
<1>1. m \in Nat
  BY <1>0, BeforeType
<1>a. x \in Nat /\ y \in Nat
  BY <1>0
<1>2. x <= b
  BY DEF Windows
<1>3. y = x \/ (n < Limit /\ y = x + 1)
  BY DEF Same, OneMore
<1> HIDE DEF m, x, y
<1>4. /\ b \in Nat /\ c \in Nat /\ b <= c /\ (n < Limit => c = b + 1)
      /\ Bound(Counted(n + 1), m) = c
  BY <1>1, BoundGrows
<1> HIDE DEF b, c
<1>5. y <= c
  BY <1>a, <1>2, <1>3, <1>4
<1>6. QED
  BY <1>4, <1>5 DEF m, y

\* The counter of now is evicted.
LEMMA WindowsEvict ==
    ASSUME NEW f \in [0 .. Minute -> Nat], NEW e \in [0 .. Minute -> Nat],
           NEW h \in [0 .. Minute -> Nat], NEW n \in Nat, NEW t,
           NEW d \in 1 .. Minute, Windows(f, e, n, t, d), OneMore(e, h)
    PROVE  Windows(f, h, 0, None, d)
<1> SUFFICES ASSUME NEW i \in 1 .. Minute PROVE f[i] <= Bound(0, Before(h, i, d))
  BY DEF Windows
<1>0. i \in 0 .. Minute
  BY LimitAssumption
<1> DEFINE m == Before(e, i, d)
           x == f[i]
<1>1. m \in Nat
  BY <1>0, BeforeType
<1>a. x \in Nat
  BY <1>0
<1>b. Before(h, i, d) = m + 1
  <2>1. h[i] = e[i] + 1 /\ e[i] \in Nat
    BY <1>0 DEF OneMore
  <2>2. QED
    BY <2>1 DEF Before
<1>2. x <= Bound(n, m)
  BY DEF Windows
<1> HIDE DEF m, x
<1>3. /\ Bound(n, m) <= Bound(0, m + 1)
      /\ Bound(n, m) \in Nat /\ Bound(0, m + 1) \in Nat
  BY <1>1, BoundMoves
<1>4. x <= Bound(0, m + 1)
  BY <1>a, <1>2, <1>3
<1>5. QED
  BY <1>b, <1>4 DEF x

\* A tick, in which the counter of now expires or does not.
LEMMA WindowsTick ==
    ASSUME NEW f \in [0 .. Minute -> Nat], NEW g \in [0 .. Minute -> Nat],
           NEW e \in [0 .. Minute -> Nat], NEW h \in [0 .. Minute -> Nat],
           g[1] = 0, Moved(f, g), Moved(e, h),
           NEW n \in Nat, NEW t \in (1 .. Minute) \cup {None}, NEW d \in 1 .. Minute,
           Windows(f, e, n, t, d)
    PROVE  \E c \in 1 .. Minute :
              Windows(g, h, IF t = 1 THEN 0 ELSE n,
                      IF t = None \/ t = 1 THEN None ELSE t - 1, c)
<1> USE LimitAssumption
\* In the first tick nothing passed yet.
<1>1. ASSUME NEW c \in 1 .. Minute, NEW k \in Nat PROVE g[1] <= Bound(k, Before(h, 1, c))
  <2> DEFINE m == Before(h, 1, c)
  <2>1. m \in Nat
    <3>1. 1 \in 0 .. Minute
      OBVIOUS
    <3>2. QED
      BY <3>1, BeforeType
  <2> HIDE DEF m
  <2>2. Bound(k, m) \in Nat
    BY <2>1, BoundType
  <2>3. QED
    BY <2>2 DEF m
\* What is known of the others.
<1>2. ASSUME NEW i \in 2 .. Minute
      PROVE  /\ g[i] = f[i - 1] /\ h[i] = e[i - 1] /\ g[i] \in Nat /\ e[i - 1] \in Nat
             /\ i - 1 \in 0 .. Minute /\ g[i] <= Bound(n, Before(e, i - 1, d))
  <2> DEFINE j == i - 1
  <2>1. j \in 1 .. Minute /\ j \in 0 .. Minute /\ i \in 0 .. Minute
    OBVIOUS
  <2>2. g[i] = f[j] /\ h[i] = e[j]
    BY DEF Moved
  <2> HIDE DEF j
  <2>3. g[i] \in Nat /\ e[j] \in Nat
    BY <2>1
  <2>4. f[j] <= Bound(n, Before(e, j, d))
    BY <2>1 DEF Windows
  <2>5. QED
    BY <2>1, <2>2, <2>3, <2>4 DEF j
<1>c. t # None => d + t >= Minute
  BY DEF Windows
<1>b. \A i \in 1 .. Minute : i = 1 \/ i \in 2 .. Minute
  OBVIOUS
<1>3. CASE t = 1
  <2>1. ASSUME NEW i \in 2 .. Minute PROVE g[i] <= Bound(0, Before(h, i, 1))
    <3> DEFINE m == Before(e, i - 1, d)
               x == g[i]
    <3>1. m \in Nat
      BY <1>2, BeforeType
    <3>2. d >= Minute - 1
      BY <1>3, <1>c
    <3>3. h[i] = e[i - 1] /\ e[i - 1] \in Nat
      BY <1>2
    <3>b. ~(i - 1 > d) /\ i > 1
      BY <3>2
    <3>a. m = e[i - 1] /\ Before(h, i, 1) = h[i] + 1
      <4>1. m = e[i - 1] + 0
        BY <3>b DEF Before
      <4>2. QED
        BY <3>3, <3>b, <4>1 DEF Before
    <3>4. x \in Nat /\ x <= Bound(n, m)
      BY <1>2
    <3> HIDE DEF m, x
    <3>5. /\ Bound(n, m) <= Bound(0, m + 1)
          /\ Bound(n, m) \in Nat /\ Bound(0, m + 1) \in Nat
      BY <3>1, BoundMoves
    <3>6. x <= Bound(0, m + 1)
      BY <3>4, <3>5
    <3>7. QED
      BY <3>3, <3>a, <3>6 DEF x
  <2>2. ASSUME NEW i \in 1 .. Minute PROVE g[i] <= Bound(0, Before(h, i, 1))
    <3>1. 1 \in 1 .. Minute
      OBVIOUS
    <3>2. QED
      BY <1>1, <1>b, <2>1, <3>1
  <2>3. Windows(g, h, 0, None, 1)
    BY <2>2 DEF Windows
  <2>4. QED
    BY <1>3, <2>3
<1>4. CASE t # 1
  <2> DEFINE c == IF d < Minute THEN d + 1 ELSE Minute
             u == IF t = None \/ t = 1 THEN None ELSE t - 1
  <2>a. c \in 1 .. Minute /\ c >= d /\ (c = Minute \/ c = d + 1)
    OBVIOUS
  <2>b. u # None => t # None /\ u = t - 1 /\ t \in Nat /\ u \in Nat
    BY <1>4
  <2>c. ASSUME NEW i \in 2 .. Minute PROVE i > c <=> i - 1 > d
    <3>1. CASE d < Minute
      <4>1. c = d + 1
        BY <3>1
      <4> HIDE DEF c
      <4>2. QED
        BY <4>1
    <3>2. CASE d = Minute
      BY <3>2
    <3>3. QED
      BY <3>1, <3>2
  <2> HIDE DEF c, u
  <2>1. c \in 1 .. Minute /\ (u # None => c + u >= Minute)
    <3>1. SUFFICES ASSUME u # None PROVE c + u >= Minute
      BY <2>a
    <3>2. t \in Nat /\ u \in Nat /\ u = t - 1 /\ d + t >= Minute
      BY <1>c, <2>b, <3>1
    <3>3. c \in Nat /\ d \in Nat /\ (c = Minute \/ c = d + 1)
      BY <2>a
    <3>4. QED
      BY <3>2, <3>3
  <2>2. ASSUME NEW i \in 2 .. Minute PROVE g[i] <= Bound(n, Before(h, i, c))
    <3>1. i > c <=> i - 1 > d
      BY <2>c
    <3>2. h[i] = e[i - 1]
      BY <1>2
    <3>3. Before(h, i, c) = Before(e, i - 1, d)
      BY <3>1, <3>2 DEF Before
    <3>4. QED
      BY <1>2, <3>3
  <2>3. ASSUME NEW i \in 1 .. Minute PROVE g[i] <= Bound(n, Before(h, i, c))
    BY <1>1, <1>b, <2>1, <2>2
  <2>4. Windows(g, h, n, u, c)
    BY <2>1, <2>3 DEF Windows
  <2>5. QED
    BY <1>4, <2>1, <2>4 DEF u
<1>5. QED
  BY <1>3, <1>4

\* One more in the youngest tick.
LEMMA SumsNow ==
    ASSUME NEW p \in Counts, NEW q, q = [p EXCEPT ![0] = p[0] + 1]
    PROVE  /\ q \in Counts
           /\ OneMore(Sums(p), Sums(q))
<1> USE LimitAssumption
<1>1. q \in Counts /\ q[0] = p[0] + 1 /\ \A i \in 1 .. Minute - 1 : q[i] = p[i]
  BY DEF Counts
<1>2. QED
  BY <1>1, SumsBump DEF OneMore

LEMMA SumsLater ==
    ASSUME NEW p \in Counts
    PROVE  /\ Sums(Later(p))[1] = 0
           /\ Moved(Sums(p), Sums(Later(p)))
<1> USE LimitAssumption
<1> DEFINE q == Later(p)
<1>1. q \in Counts
  BY LaterType
<1>2. Shifted(p, q)
  BY DEF Shifted, Later
<1> HIDE DEF q
<1>3. \A n \in 0 .. Minute - 1 : Sums(q)[n + 1] = Sums(p)[n]
  BY <1>1, <1>2, SumsShift
<1>4. Sums(p)[0] = 0
  BY SumsIs DEF IsSums
<1>5. Sums(q)[0 + 1] = Sums(p)[0]
  BY <1>3
<1> DEFINE f == Sums(p)
           g == Sums(q)
<1> HIDE DEF f, g
<1>6. ASSUME NEW i \in 2 .. Minute PROVE g[i] = f[i - 1]
  <2>1. i - 1 \in 0 .. Minute - 1 /\ (i - 1) + 1 = i
    OBVIOUS
  <2>2. g[(i - 1) + 1] = f[i - 1]
    BY <1>3, <2>1 DEF f, g
  <2>3. QED
    BY <2>1, <2>2
<1>7. Moved(f, g)
  BY <1>6 DEF Moved
<1>8. QED
  BY <1>4, <1>5, <1>7 DEF q, f, g

(***************************************************************************)
(* No minute lets more than twice the limit pass, and the limit once more  *)
(* for each eviction in it: it meets the windows of two counters, and a    *)
(* third only after an eviction.                                           *)
(***************************************************************************)
THEOREM TwiceTheLimit == Spec => []AtMostTwiceTheLimit
<1> USE LimitAssumption
<1>1. Init => TwoWindows
  <2> SUFFICES ASSUME Init, NEW a \in Addresses
               PROVE  \E d \in 1 .. Minute :
                         Windows(Sums(passed[a]), Sums(evicted[a]), count[a], ttl[a], d)
    BY TwoWindowsIs
  <2>1. passed[a] = Never /\ evicted[a] = Never /\ count[a] = 0 /\ ttl[a] = None
    BY DEF Init
  <2>2. QED
    BY <2>1, WindowsInit
<1>2. TypeOK /\ TwoWindows /\ [Next]_vars => TwoWindows'
  <2> SUFFICES ASSUME TypeOK, TwoWindows, [Next]_vars, NEW b \in Addresses
               PROVE  \E d \in 1 .. Minute :
                         Windows(Sums(passed'[b]), Sums(evicted'[b]), count'[b],
                                 ttl'[b], d)
    BY DEF TwoWindows, Windows, Before, Bound
  <2> DEFINE Goal == \E d \in 1 .. Minute :
                        Windows(Sums(passed'[b]), Sums(evicted'[b]), count'[b],
                                ttl'[b], d)
             f == Sums(passed[b])
             e == Sums(evicted[b])
  <2>0. PICK d \in 1 .. Minute : Windows(f, e, count[b], ttl[b], d)
    BY TwoWindowsIs
  <2>a. /\ passed[b] \in Counts /\ evicted[b] \in Counts /\ count[b] \in Nat
        /\ ttl[b] \in (1 .. Minute) \cup {None}
    BY DEF TypeOK, Counts
  <2>b. f \in [0 .. Minute -> Nat] /\ e \in [0 .. Minute -> Nat]
    BY <2>a, SumsType
  <2>s. ASSUME passed'[b] = passed[b], evicted'[b] = evicted[b],
               count'[b] = count[b], ttl'[b] = ttl[b]
        PROVE  Goal
    BY <2>0, <2>s
  <2>1. ASSUME NEW w \in Workers, NEW a \in Addresses, Incr(w, a) PROVE Goal
    <3> DEFINE n == count[a] + 1
               g == Sums(passed'[b])
    <3>1. /\ count' = [count EXCEPT ![a] = Counted(n)]
          /\ passed' = [passed EXCEPT ![a] = [passed[a] EXCEPT ![0] =
                          IF Admits(n) THEN passed[a][0] + 1 ELSE passed[a][0]]]
          /\ ttl' = ttl /\ evicted' = evicted
      BY <2>1 DEF Incr
    <3>2. CASE a # b
      BY <3>1, <3>2, <2>s DEF TypeOK
    <3>3. CASE a = b
      <4>1. /\ count'[b] = Counted(count[b] + 1) /\ ttl'[b] = ttl[b]
            /\ evicted'[b] = evicted[b]
            /\ passed'[b] = [passed[b] EXCEPT ![0] =
                   IF Admits(n) THEN passed[b][0] + 1 ELSE passed[b][0]]
        BY <3>1, <3>3 DEF TypeOK
      <4>2. /\ g \in [0 .. Minute -> Nat]
            /\ Same(f, g) \/ (count[b] < Limit /\ OneMore(f, g))
        <5>1. CASE Admits(n)
          <6>1. passed'[b] = [passed[b] EXCEPT ![0] = passed[b][0] + 1]
            BY <4>1, <5>1
          <6>2. /\ passed'[b] \in Counts
                /\ OneMore(f, g)
            BY <2>a, <6>1, SumsNow
          <6>3. count[b] < Limit
            BY <2>a, <3>3, <5>1 DEF Admits
          <6>4. QED
            BY <6>2, <6>3, SumsType
        <5>2. CASE ~Admits(n)
          <6>1. passed'[b] = passed[b]
            BY <4>1, <5>2, <2>a DEF Counts
          <6>2. QED
            BY <2>b, <6>1 DEF Same
        <5>3. QED
          BY <5>1, <5>2
      <4> HIDE DEF f, e, g
      <4>3. Windows(g, e, Counted(count[b] + 1), ttl[b], d)
        BY <2>0, <2>a, <2>b, <4>2, WindowsIncr
      <4>4. QED
        BY <4>1, <4>3 DEF g, e
    <3>4. QED
      BY <3>2, <3>3
  <2>i. ASSUME NEW w \in Workers, NEW a \in Addresses, IncrFails(w, a) PROVE Goal
    <3>1. /\ passed'[b] = passed[b] /\ evicted'[b] = evicted[b] /\ ttl'[b] = ttl[b]
          /\ count'[b] = IF a = b THEN Counted(count[b] + 1) ELSE count[b]
      BY <2>i DEF IncrFails, TypeOK
    <3>2. CASE a # b
      BY <3>1, <3>2, <2>s
    <3>3. CASE a = b
      <4> HIDE DEF f, e
      <4>0. Same(f, f)
        BY DEF Same
      <4>1. Windows(f, e, Counted(count[b] + 1), ttl[b], d)
        BY <2>0, <2>a, <2>b, <4>0, WindowsIncr
      <4>2. QED
        BY <3>1, <3>3, <4>1 DEF f, e
    <3>4. QED
      BY <3>2, <3>3
  <2>2. ASSUME NEW w \in Workers, Expire(w) PROVE Goal
    <3>1. passed'[b] = passed[b] /\ evicted'[b] = evicted[b] /\ count'[b] = count[b]
      BY <2>2 DEF Expire
    <3>2. ttl'[b] \in {ttl[b], None, Minute}
      BY <2>2 DEF Expire, TypeOK
    <3>3. Windows(f, e, count[b], ttl'[b], d)
      BY <2>0, <3>2 DEF Windows
    <3>4. QED
      BY <3>1, <3>3
  <2>3. ASSUME NEW w \in Workers, ExpireFails(w) PROVE Goal
    BY <2>3, <2>s DEF ExpireFails
  <2>4. CASE Tick
    <3> DEFINE g == Sums(Later(passed[b]))
               h == Sums(Later(evicted[b]))
               n == count[b]
               t == ttl[b]
    <3>1. /\ count'[b] = IF t = 1 THEN 0 ELSE n
          /\ ttl'[b] = IF t = None \/ t = 1 THEN None ELSE t - 1
          /\ passed'[b] = Later(passed[b]) /\ evicted'[b] = Later(evicted[b])
      BY <2>4 DEF Tick
    <3>2. g \in [0 .. Minute -> Nat] /\ h \in [0 .. Minute -> Nat]
      BY <2>a, LaterType, SumsType
    <3>3. g[1] = 0 /\ Moved(f, g) /\ Moved(e, h)
      BY <2>a, SumsLater
    <3>4. n \in Nat /\ t \in (1 .. Minute) \cup {None} /\ Windows(f, e, n, t, d)
      BY <2>0, <2>a
    <3> HIDE DEF f, e, g, h, n, t
    <3>5. \E c \in 1 .. Minute :
             Windows(g, h, IF t = 1 THEN 0 ELSE n,
                     IF t = None \/ t = 1 THEN None ELSE t - 1, c)
      BY <2>b, <3>2, <3>3, <3>4, WindowsTick
    <3>6. QED
      BY <3>1, <3>5 DEF g, h
  <2>5. ASSUME NEW a \in Addresses, Evict(a) PROVE Goal
    <3>1. CASE a = b
      <4> DEFINE h == Sums(evicted'[b])
      <4>1. /\ passed'[b] = passed[b] /\ count'[b] = 0 /\ ttl'[b] = None
            /\ evicted'[b] = [evicted[b] EXCEPT ![0] = evicted[b][0] + 1]
        BY <2>5, <3>1 DEF Evict, TypeOK
      <4>2. /\ evicted'[b] \in Counts
            /\ OneMore(e, h)
        BY <2>a, <4>1, SumsNow
      <4>3. h \in [0 .. Minute -> Nat]
        BY <4>2, SumsType
      <4> HIDE DEF f, e, h
      <4>4. Windows(f, h, 0, None, d)
        BY <2>0, <2>a, <2>b, <4>2, <4>3, WindowsEvict
      <4>5. QED
        BY <4>1, <4>4 DEF f, h
    <3>2. CASE a # b
      BY <2>5, <3>2, <2>s DEF Evict, TypeOK
    <3>3. QED
      BY <3>1, <3>2
  <2>6. CASE UNCHANGED vars
    BY <2>6, <2>s DEF vars
  <2>7. QED
    BY <2>1, <2>i, <2>2, <2>3, <2>4, <2>5, <2>6, NextCases
<1>3. TypeOK /\ TwoWindows => AtMostTwiceTheLimit
  <2> SUFFICES ASSUME TypeOK, TwoWindows, NEW a \in Addresses
               PROVE  Sums(passed[a])[Minute] <= (2 + Sums(evicted[a])[Minute]) * Limit
    BY DEF AtMostTwiceTheLimit
  <2> DEFINE x == Sums(passed[a])[Minute]
             y == Sums(evicted[a])[Minute]
             l == Limit
             z == l * y
  <2>1. PICK d \in 1 .. Minute :
           Windows(Sums(passed[a]), Sums(evicted[a]), count[a], ttl[a], d)
    BY TwoWindowsIs
  <2>2. /\ Sums(passed[a]) \in [0 .. Minute -> Nat]
        /\ Sums(evicted[a]) \in [0 .. Minute -> Nat]
    BY SumsType DEF TypeOK, Counts
  <2>3. x \in Nat /\ y \in Nat /\ l \in Nat /\ count[a] \in Nat
    BY <2>2 DEF TypeOK
  <2>4. x <= (IF count[a] > l THEN l ELSE count[a]) + l * (y + (IF Minute > d THEN 1 ELSE 0))
    <3>1. Minute \in 1 .. Minute
      OBVIOUS
    <3>2. QED
      BY <2>1, <3>1 DEF Windows, Bound, Before
  <2> HIDE DEF x, y, l
  <2>5. /\ l * (y + 1) = z + l /\ l * (y + 0) = z /\ (2 + y) * l = l + l + z
        /\ z \in Nat
    BY <2>3
  <2>6. l * (y + (IF Minute > d THEN 1 ELSE 0)) <= z + l
    BY <2>3, <2>5
  <2> HIDE DEF z
  <2>7. x <= l + (z + l)
    <3> DEFINE k == l * (y + (IF Minute > d THEN 1 ELSE 0))
    <3>1. k \in Nat
      BY <2>3
    <3>2. x <= (IF count[a] > l THEN l ELSE count[a]) + k /\ k <= z + l
      BY <2>4, <2>6
    <3> HIDE DEF k
    <3>3. QED
      BY <2>3, <2>5, <3>1, <3>2
  <2>8. x <= (2 + y) * l
    BY <2>3, <2>5, <2>7
  <2>9. QED
    BY <2>8 DEF x, y, l
<1>4. QED
  BY <1>1, <1>2, <1>3, TypeCorrect, PTL DEF Spec
=============================================================================
