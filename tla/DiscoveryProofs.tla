-------------------------- MODULE DiscoveryProofs ---------------------------
(***************************************************************************)
(* Theorems about discovery, and about the way of a market from there to   *)
(* the API, for any catalogue, page size, length of the topic and number   *)
(* of failures and crashes.                                                *)
(***************************************************************************)
EXTENDS Catalogue, FiniteSetTheorems, WellFoundedInduction, TLAPS

USE DEF catalogue, crawl, outside, history, table

-----------------------------------------------------------------------------
(* Induction, with a set in place of a predicate, and sequences.             *)

LEMMA Least == ASSUME NEW T \in SUBSET Nat, T # {} PROVE \E m \in T : \A n \in T : m <= n
<1> DEFINE R == {p \in Nat \X Nat : p[1] < p[2]}
<1>1. IsWellFoundedOn(R, Nat)
  BY NatLessThanWellFounded DEF OpToRel
<1>2. PICK m \in T : \A n \in T : <<n, m>> \notin R
  BY <1>1, WFMin
<1>3. ASSUME NEW n \in T, n < m PROVE <<n, m>> \in R
  <2>1. <<n, m>> \in Nat \X Nat
    OBVIOUS
  <2>2. QED
    BY <1>3, <2>1
<1>4. \A n \in T : ~(n < m)
  <2> HIDE DEF R
  <2>1. QED
    BY <1>2, <1>3
<1>5. T \subseteq Nat
  OBVIOUS
<1>6. QED
  BY <1>4, <1>5

LEMMA Induct ==
    ASSUME NEW T, 0 \in T, \A n \in Nat : n \in T => n + 1 \in T
    PROVE  Nat \subseteq T
<1> SUFFICES ASSUME Nat \ T # {} PROVE FALSE
  OBVIOUS
<1>1. PICK m \in Nat \ T : \A n \in Nat \ T : m <= n
  BY Least
<1>2. m - 1 \in Nat \ T
  BY <1>1
<1>3. QED
  BY <1>1, <1>2

\* Part of a sequence, and two sequences joined.
LEMMA PartIs ==
    ASSUME NEW S, NEW s \in Seq(S), NEW a \in 1 .. Len(s) + 1, NEW b \in a - 1 .. Len(s)
    PROVE  /\ SubSeq(s, a, b) \in Seq(S)
           /\ Len(SubSeq(s, a, b)) = b - a + 1
           /\ \A j \in 1 .. b - a + 1 : SubSeq(s, a, b)[j] = s[a + j - 1]
OBVIOUS

LEMMA JoinIs ==
    ASSUME NEW S, NEW s \in Seq(S), NEW t \in Seq(S)
    PROVE  /\ s \o t \in Seq(S)
           /\ Len(s \o t) = Len(s) + Len(t)
           /\ \A j \in 1 .. Len(s) + Len(t) : (s \o t)[j] = IF j <= Len(s) THEN s[j] ELSE t[j - Len(s)]
OBVIOUS

\* An item leaves the list.
LEMMA RemoveIs ==
    ASSUME NEW S, NEW s \in Seq(S), NEW i \in 1 .. Len(s)
    PROVE  /\ RemoveAt(s, i) \in Seq(S)
           /\ Len(RemoveAt(s, i)) = Len(s) - 1
           /\ \A j \in 1 .. Len(s) - 1 :
                 RemoveAt(s, i)[j] = IF j < i THEN s[j] ELSE s[j + 1]
<1> DEFINE a == SubSeq(s, 1, i - 1)
           b == SubSeq(s, i + 1, Len(s))
<1>1. /\ a \in Seq(S) /\ Len(a) = i - 1 /\ \A j \in 1 .. i - 1 : a[j] = s[j]
      /\ b \in Seq(S) /\ Len(b) = Len(s) - i /\ \A j \in 1 .. Len(s) - i : b[j] = s[i + j]
  <2>1. 1 \in 1 .. Len(s) + 1 /\ i - 1 \in 0 .. Len(s) /\ i + 1 \in 1 .. Len(s) + 1
        /\ Len(s) \in (i + 1) - 1 .. Len(s)
    OBVIOUS
  <2>2. /\ a \in Seq(S) /\ Len(a) = i - 1 /\ \A j \in 1 .. i - 1 : a[j] = s[j]
    BY <2>1, PartIs
  <2>3. /\ b \in Seq(S) /\ Len(b) = Len(s) - i /\ \A j \in 1 .. Len(s) - i : b[j] = s[i + j]
    BY <2>1, PartIs
  <2>4. QED
    BY <2>2, <2>3
<1>2. RemoveAt(s, i) = a \o b
  BY DEF RemoveAt
<1> HIDE DEF a, b
<1>3. /\ a \o b \in Seq(S) /\ Len(a \o b) = Len(s) - 1
      /\ \A j \in 1 .. Len(s) - 1 : (a \o b)[j] = IF j <= i - 1 THEN a[j] ELSE b[j - (i - 1)]
  <2>1. /\ a \o b \in Seq(S) /\ Len(a \o b) = Len(a) + Len(b)
        /\ \A j \in 1 .. Len(a) + Len(b) :
              (a \o b)[j] = IF j <= Len(a) THEN a[j] ELSE b[j - Len(a)]
    BY <1>1, JoinIs
  <2>2. Len(a) + Len(b) = Len(s) - 1 /\ Len(a) = i - 1
    BY <1>1
  <2> DEFINE t == a \o b
             n == Len(a) + Len(b)
             h == Len(a)
  <2>a. n = Len(s) - 1 /\ h = i - 1
    BY <2>2
  <2>b. /\ t \in Seq(S) /\ Len(t) = n
        /\ \A j \in 1 .. n : t[j] = IF j <= h THEN a[j] ELSE b[j - h]
    BY <2>1, Zenon
  <2> HIDE DEF t, n, h
  <2>4. /\ t \in Seq(S) /\ Len(t) = Len(s) - 1
        /\ \A j \in 1 .. Len(s) - 1 : t[j] = IF j <= i - 1 THEN a[j] ELSE b[j - (i - 1)]
    BY <2>a, <2>b
  <2>5. QED
    BY <2>4 DEF t
<1>4. \A j \in 1 .. Len(s) - 1 : (a \o b)[j] = IF j < i THEN s[j] ELSE s[j + 1]
  BY <1>1, <1>3
<1>5. QED
  BY <1>2, <1>3, <1>4

\* An item enters the list.
Inserted(S, s, i, x, l) ==
    /\ l \in Seq(S) /\ Len(l) = Len(s) + 1
    /\ \A j \in 1 .. Len(s) + 1 :
          l[j] = IF j < i THEN s[j] ELSE IF j = i THEN x ELSE s[j - 1]

LEMMA InsertIs ==
    ASSUME NEW S, NEW s \in Seq(S), NEW i \in 1 .. Len(s) + 1, NEW x \in S
    PROVE  Inserted(S, s, i, x, InsertAt(s, i, x))
<1> DEFINE a == SubSeq(s, 1, i - 1)
           b == SubSeq(s, i, Len(s))
           c == a \o <<x>>
<1>1. a \in Seq(S) /\ Len(a) = i - 1 /\ \A j \in 1 .. i - 1 : a[j] = s[j]
  <2>1. 1 \in 1 .. Len(s) + 1 /\ i - 1 \in 0 .. Len(s)
    OBVIOUS
  <2>2. QED
    BY <2>1, PartIs
<1>2. /\ b \in Seq(S) /\ Len(b) = Len(s) - i + 1
      /\ \A j \in 1 .. Len(s) - i + 1 : b[j] = s[i + j - 1]
  <2>1. Len(s) \in i - 1 .. Len(s)
    OBVIOUS
  <2>2. QED
    BY <2>1, PartIs
<1>3. InsertAt(s, i, x) = c \o b
  BY DEF InsertAt
<1> HIDE DEF a, b
<1>4. /\ c \in Seq(S) /\ Len(c) = i /\ c[i] = x
      /\ \A j \in 1 .. i - 1 : c[j] = s[j]
  <2> DEFINE t == <<x>>
  <2>1. t \in Seq(S) /\ Len(t) = 1 /\ t[1] = x
    OBVIOUS
  <2> HIDE DEF t
  <2>2. /\ a \o t \in Seq(S) /\ Len(a \o t) = i
        /\ \A j \in 1 .. i : (a \o t)[j] = IF j <= i - 1 THEN a[j] ELSE t[j - (i - 1)]
    <3> DEFINE l == a \o t
               n == Len(a) + Len(t)
               h == Len(a)
    <3>1. n = i /\ h = i - 1
      BY <1>1, <2>1
    <3>2. /\ l \in Seq(S) /\ Len(l) = n
          /\ \A j \in 1 .. n : l[j] = IF j <= h THEN a[j] ELSE t[j - h]
      BY <1>1, <2>1, JoinIs
    <3> HIDE DEF l, n, h
    <3>3. /\ l \in Seq(S) /\ Len(l) = i
          /\ \A j \in 1 .. i : l[j] = IF j <= i - 1 THEN a[j] ELSE t[j - (i - 1)]
      BY <3>1, <3>2
    <3>4. QED
      BY <3>3 DEF l
  <2>3. c = a \o t
    BY DEF t
  <2> HIDE DEF c
  <2>4. i - (i - 1) = 1 /\ i \in 1 .. i /\ ~(i <= i - 1)
    OBVIOUS
  <2>5. c[i] = x
    BY <2>1, <2>2, <2>3, <2>4
  <2>6. \A j \in 1 .. i - 1 : c[j] = s[j]
    BY <1>1, <2>2, <2>3
  <2>7. QED
    BY <2>2, <2>3, <2>5, <2>6
<1> HIDE DEF c
<1>5. /\ c \o b \in Seq(S) /\ Len(c \o b) = Len(s) + 1
      /\ \A j \in 1 .. Len(s) + 1 : (c \o b)[j] = IF j <= i THEN c[j] ELSE b[j - i]
  BY <1>2, <1>4, JoinIs
<1>6. \A j \in 1 .. Len(s) + 1 :
         (c \o b)[j] = IF j < i THEN s[j] ELSE IF j = i THEN x ELSE s[j - 1]
  BY <1>2, <1>4, <1>5
<1>7. QED
  BY <1>3, <1>5, <1>6 DEF Inserted

\* A finite set, listed.
LEMMA SeqOfIs ==
    ASSUME NEW S, IsFiniteSet(S)
    PROVE  SetToSeq(S) \in Seq(S) /\ ToSet(SetToSeq(S)) = S
<1> DEFINE n == Cardinality(S)
           f == SetToSeq(S)
<1>1. n \in Nat /\ ExistsBijection(1 .. n, S)
  BY FS_CardinalityType
<1>2. \E g \in [1 .. n -> S] : IsInjective(g)
  BY <1>1 DEF ExistsBijection, Bijection, Injection
<1>3. f \in [1 .. n -> S] /\ IsInjective(f)
  BY <1>2 DEF SetToSeq
<1> HIDE DEF f
<1>4. f \in Injection(1 .. n, S)
  BY <1>3 DEF Injection
<1>5. IsFiniteSet(1 .. n) /\ Cardinality(1 .. n) = n
  BY <1>1, FS_Interval
<1>6. f \in Surjection(1 .. n, S)
  BY <1>4, <1>5, FS_Injection
<1>7. f \in Seq(S) /\ DOMAIN f = 1 .. n
  BY <1>1, <1>3
<1>8. \A x \in S : \E i \in 1 .. n : f[i] = x
  BY <1>6 DEF Surjection
<1>9. ToSet(f) = S
  BY <1>3, <1>7, <1>8 DEF ToSet
<1>10. QED
  BY <1>7, <1>9 DEF f

\* Sequences of sequences, flattened.
LEMMA FlatIs ==
    ASSUME NEW S, NEW ss \in Seq(Seq(S))
    PROVE  FlattenSeq(ss) \in Seq(S)
<1> DEFINE flatten(g, m) == [i \in 1 .. m |-> IF i = 1 THEN ss[i] ELSE g[i - 1] \o ss[i]]
           flat == CHOOSE g : g = flatten(g, Len(ss))
           Upto(m) == \E f \in [1 .. m -> Seq(S)] : f = flatten(f, m)
           T == {m \in Nat : m <= Len(ss) => Upto(m)}
<1>0. Len(ss) \in Nat /\ \A i \in 1 .. Len(ss) : ss[i] \in Seq(S)
  OBVIOUS
<1>1. 0 \in T
  <2> DEFINE f == [i \in 1 .. 0 |-> <<>>]
  <2>1. f \in [1 .. 0 -> Seq(S)] /\ f = flatten(f, 0)
    OBVIOUS
  <2>2. QED
    BY <2>1
<1>2. ASSUME NEW m \in Nat, m \in T PROVE m + 1 \in T
  <2> HIDE DEF Upto
  <2> SUFFICES ASSUME m + 1 <= Len(ss) PROVE Upto(m + 1)
    OBVIOUS
  <2>0. Upto(m)
    BY <1>0, <1>2
  <2>1. PICK f \in [1 .. m -> Seq(S)] : f = flatten(f, m)
    BY <2>0 DEF Upto
  <2> DEFINE new == IF m = 0 THEN ss[1] ELSE f[m] \o ss[m + 1]
             g == [i \in 1 .. m + 1 |-> IF i = m + 1 THEN new ELSE f[i]]
  <2>2. new \in Seq(S)
    <3>1. m # 0 => f[m] \in Seq(S)
      OBVIOUS
    <3>2. ss[m + 1] \in Seq(S) /\ (m = 0 => ss[1] \in Seq(S))
      BY <1>0
    <3>3. QED
      BY <3>1, <3>2
  <2>3. \A i \in 1 .. m : f[i] = IF i = 1 THEN ss[i] ELSE f[i - 1] \o ss[i]
    BY <2>1
  <2>4. ASSUME NEW i \in 1 .. m + 1
        PROVE  g[i] = IF i = 1 THEN ss[i] ELSE g[i - 1] \o ss[i]
    <3>1. CASE i = m + 1
      <4>1. g[i] = new
        BY <3>1
      <4>2. i # 1 => g[i - 1] = f[m] /\ m # 0
        BY <3>1
      <4>3. QED
        BY <3>1, <4>1, <4>2
    <3>2. CASE i # m + 1
      <4>1. i \in 1 .. m /\ g[i] = f[i] /\ (i # 1 => g[i - 1] = f[i - 1])
        BY <3>2
      <4> HIDE DEF g
      <4>2. QED
        BY <2>3, <4>1
    <3>3. QED
      BY <3>1, <3>2
  <2>5. g \in [1 .. m + 1 -> Seq(S)]
    <3> HIDE DEF new
    <3>1. QED
      BY <2>2
  <2>6. g = [i \in 1 .. m + 1 |-> g[i]]
    OBVIOUS
  <2> HIDE DEF g
  <2>7. g = flatten(g, m + 1)
    BY <2>4, <2>6
  <2>8. QED
    BY <2>5, <2>7 DEF Upto
<1>3. Nat \subseteq T
  <2> HIDE DEF T
  <2>1. QED
    BY <1>1, <1>2, Induct
<1>4. \E f : f = flatten(f, Len(ss))
  <2> HIDE DEF Upto
  <2>1. Upto(Len(ss))
    BY <1>0, <1>3
  <2>2. QED
    BY <2>1 DEF Upto
<1>5. flat = flatten(flat, Len(ss))
  <2> HIDE DEF flatten
  <2>1. QED
    BY <1>4
<1> HIDE DEF flat
<1>6. \A i \in 1 .. Len(ss) : flat[i] = IF i = 1 THEN ss[i] ELSE flat[i - 1] \o ss[i]
  BY <1>5
<1> DEFINE U == {n \in Nat : n + 1 <= Len(ss) => flat[n + 1] \in Seq(S)}
<1>7. 0 \in U
  BY <1>0, <1>6
<1>8. ASSUME NEW n \in Nat, n \in U PROVE n + 1 \in U
  <2> SUFFICES ASSUME n + 2 <= Len(ss) PROVE flat[n + 2] \in Seq(S)
    OBVIOUS
  <2>1. n + 2 \in 1 .. Len(ss) /\ n + 2 # 1 /\ (n + 2) - 1 = n + 1
    BY <1>0
  <2>2. flat[n + 2] = flat[n + 1] \o ss[n + 2]
    BY <1>6, <2>1
  <2>3. flat[n + 1] \in Seq(S) /\ ss[n + 2] \in Seq(S)
    BY <1>0, <1>8, <2>1
  <2>4. QED
    BY <2>2, <2>3
<1>9. Nat \subseteq U
  <2> HIDE DEF U
  <2>1. QED
    BY <1>7, <1>8, Induct
<1>10. CASE Len(ss) = 0
  <2>1. FlattenSeq(ss) = ss
    BY <1>10 DEF FlattenSeq
  <2>2. ss = <<>> /\ <<>> \in Seq(S)
    BY <1>10
  <2>3. QED
    BY <2>1, <2>2
<1>11. CASE Len(ss) # 0
  <2>1. FlattenSeq(ss) = flat[Len(ss)]
    BY <1>11 DEF FlattenSeq, flat
  <2>2. PICK l \in Nat : l + 1 = Len(ss)
    <3>1. Len(ss) - 1 \in Nat /\ (Len(ss) - 1) + 1 = Len(ss)
      BY <1>0, <1>11
    <3>2. QED
      BY <3>1
  <2>3. flat[Len(ss)] \in Seq(S)
    BY <1>0, <1>9, <2>2
  <2>4. QED
    BY <2>1, <2>3
<1>12. QED
  BY <1>10, <1>11

-----------------------------------------------------------------------------
(* Types.                                                                    *)

ListOK ==
    /\ \A k \in Crawls :
          /\ listing[k] \in Seq(Listed(k))
          /\ steady[k] \subseteq ToSet(listing[k])
          /\ seen[k] \subseteq Listed(k)
    /\ listing \in [Crawls -> Seq(Markets \cup Events)]
    /\ steady \in [Crawls -> SUBSET (Markets \cup Events)]
    /\ seen \in [Crawls -> SUBSET (Markets \cup Events)]
    /\ changes \in 0 .. MaxChanges
    /\ closings \in [Crawls -> Nat]
    /\ complete \in [Crawls -> BOOLEAN]

CrawlOK ==
    /\ \A k \in Crawls :
          /\ k = "markets" => Len(todo[k]) <= Limit
          /\ (phase[k] = "market") = (todo[k] # <<>>)
    /\ todo \in [Crawls -> Seq(Markets)]
    /\ phase \in [Crawls -> {"fetch", "market", "done"}]
    /\ offset \in [Crawls -> Nat]
    /\ step \in [Crawls -> {"publish", "map", "extract", "store"}]
    /\ StepInv

OutsideOK ==
    /\ extracted \subseteq Tradable
    /\ redis \subseteq Keys \X Markets
    /\ refused \subseteq Keys \X Markets
    /\ crashes \in 0 .. MaxCrashes

LEMMA TypeParts == TypeOK /\ StepInv <=> ListOK /\ CrawlOK /\ OutsideOK
BY DEF TypeOK, ListOK, CrawlOK, OutsideOK

LEMMA ListedIs ==
    \A k \in Crawls : Listed(k) \subseteq Markets \cup Events /\ IsFiniteSet(Listed(k))
BY CatalogueAssumption DEF Listed

LEMMA ToSetIs ==
    ASSUME NEW S, NEW s \in Seq(S)
    PROVE  ToSet(s) = {s[i] : i \in 1 .. Len(s)} /\ ToSet(s) \subseteq S
BY DEF ToSet

\* A list of one kind is a list of items.
LEMMA ItemsIs ==
    ASSUME NEW k \in Crawls, NEW s \in Seq(Listed(k))
    PROVE  s \in Seq(Markets \cup Events)
BY ListedIs

\* A page has at most Limit items, those behind the offset, and is empty only
\* at the end of the list.
LEMMA PageIs ==
    ASSUME NEW k \in Crawls, ListOK, CrawlOK
    PROVE  /\ Page(k) \in Seq(Listed(k))
           /\ Len(Page(k)) <= Limit
           /\ \A i \in 1 .. Len(listing[k]) : i > offset[k] /\ i <= offset[k] + Limit =>
                 listing[k][i] \in ToSet(Page(k))
           /\ Page(k) = <<>> => Len(listing[k]) <= offset[k]
<1> DEFINE l == listing[k]
           o == offset[k]
           b == IF o + Limit < Len(l) THEN o + Limit ELSE Len(l)
           page == SubSeq(l, o + 1, b)
<1>1. l \in Seq(Listed(k)) /\ o \in Nat /\ Limit \in Nat \ {0} /\ Len(l) \in Nat
  BY BoundsAssumption DEF ListOK, CrawlOK
<1>2. Page(k) = page
  BY DEF Page
<1> HIDE DEF l, o
<1>3. CASE o >= Len(l)
  <2>1. b = Len(l) /\ b < o + 1
    BY <1>1, <1>3
  <2>2. page = <<>>
    BY <1>1, <2>1
  <2>3. page \in Seq(Listed(k)) /\ Len(page) <= Limit
    BY <1>1, <2>2
  <2>4. QED
    BY <1>1, <1>2, <1>3, <2>3 DEF l, o
<1>4. CASE o < Len(l)
  <2>1. o + 1 \in 1 .. Len(l) + 1 /\ b \in (o + 1) - 1 .. Len(l) /\ b > o /\ b <= o + Limit
    BY <1>1, <1>4
  <2> HIDE DEF b
  <2>2. /\ page \in Seq(Listed(k)) /\ Len(page) = b - (o + 1) + 1
        /\ \A j \in 1 .. b - (o + 1) + 1 : page[j] = l[o + 1 + j - 1]
    BY <1>1, <2>1, PartIs
  <2> HIDE DEF page
  <2>3. /\ Len(page) = b - o /\ b \in Nat
        /\ \A j \in 1 .. b - o : page[j] = l[o + j]
    BY <1>1, <2>1, <2>2
  <2>4. ASSUME NEW i \in 1 .. Len(l), i > o, i <= o + Limit
        PROVE  l[i] \in ToSet(page)
    <3>1. i - o \in 1 .. b - o /\ o + (i - o) = i
      BY <1>1, <2>1, <2>4 DEF b
    <3>2. page[i - o] = l[i]
      BY <2>3, <3>1
    <3>3. QED
      BY <2>2, <2>3, <3>1, <3>2, ToSetIs
  <2>5. Len(page) <= Limit /\ Len(page) # 0
    BY <1>1, <2>1, <2>3
  <2>6. page # <<>>
    BY <2>5
  <2>7. QED
    BY <1>2, <2>2, <2>4, <2>5, <2>6 DEF l, o
<1>5. QED
  BY <1>1, <1>3, <1>4

LEMMA MarketsOnIs ==
    ASSUME NEW k \in Crawls, NEW page \in Seq(Listed(k))
    PROVE  /\ MarketsOn(k, page) \in Seq(Markets)
           /\ k = "markets" => MarketsOn(k, page) = page
<1>1. CASE k = "markets"
  BY <1>1 DEF MarketsOn, Listed
<1>2. CASE k # "markets"
  <2> DEFINE lists == [i \in 1 .. Len(page) |-> Members[page[i]]]
  <2>1. page \in Seq(Events)
    BY <1>2 DEF Listed
  <2>2. \A i \in 1 .. Len(page) : Members[page[i]] \in Seq(Markets)
    BY <2>1, CatalogueAssumption
  <2>3. lists \in Seq(Seq(Markets))
    BY <2>1, <2>2
  <2>4. MarketsOn(k, page) = FlattenSeq(lists)
    BY <1>2 DEF MarketsOn
  <2> HIDE DEF lists
  <2>5. QED
    BY <1>2, <2>3, <2>4, FlatIs
<1>3. QED
  BY <1>1, <1>2

\* Batches of writes are about keys of markets.
LEMMA WriteTypes ==
    ASSUME OutsideOK, NEW keys \in SUBSET Keys, NEW m \in Markets, Write(keys, m)
    PROVE  redis' \subseteq Keys \X Markets /\ refused' \subseteq Keys \X Markets
<1>1. PICK failed \in SUBSET keys :
        /\ refused' = refused \cup {<<x, m>> : x \in failed}
        /\ redis' = redis \cup {<<x, m>> : x \in keys \ failed}
  BY DEF Write
<1>2. QED
  BY <1>1 DEF OutsideOK

LEMMA TypesInit == Init => ListOK /\ CrawlOK /\ OutsideOK
<1> SUFFICES ASSUME Init PROVE ListOK /\ CrawlOK /\ OutsideOK
  OBVIOUS
<1>1. CrawlOK
  <2>1. <<>> \in Seq(Markets) /\ Len(<<>>) <= Limit
    BY BoundsAssumption
  <2>2. QED
    BY <2>1 DEF Init, CrawlOK, StepInv
<1>2. OutsideOK
  BY BoundsAssumption DEF Init, OutsideOK
<1>3. \A k \in Crawls :
         /\ listing[k] \in Seq(Listed(k)) /\ listing[k] \in Seq(Markets \cup Events)
         /\ ToSet(listing[k]) = Listed(k)
  BY ListedIs, SeqOfIs, ItemsIs DEF Init
<1>4. /\ listing \in [Crawls -> Seq(Markets \cup Events)]
      /\ steady \in [Crawls -> SUBSET (Markets \cup Events)]
      /\ seen \in [Crawls -> SUBSET (Markets \cup Events)]
  BY <1>3, ListedIs DEF Init
<1>5. ListOK
  BY <1>3, <1>4, BoundsAssumption DEF Init, ListOK
<1>6. QED
  BY <1>1, <1>2, <1>5

\* The list of one endpoint changes.
LEMMA ListChanges ==
    ASSUME ListOK, NEW k \in Crawls, NEW l \in Seq(Listed(k)),
           listing' = [listing EXCEPT ![k] = l],
           NEW st \in SUBSET ToSet(l), steady' = [steady EXCEPT ![k] = st],
           changes' = changes + 1, changes < MaxChanges,
           closings' \in [Crawls -> Nat], UNCHANGED <<seen, complete>>
    PROVE  ListOK'
<1>1. l \in Seq(Markets \cup Events) /\ ToSet(l) \subseteq Markets \cup Events
  BY ItemsIs, ToSetIs
<1>2. /\ listing' \in [Crawls -> Seq(Markets \cup Events)]
      /\ steady' \in [Crawls -> SUBSET (Markets \cup Events)]
  BY <1>1 DEF ListOK
<1>3. \A j \in Crawls : /\ listing'[j] \in Seq(Listed(j))
                        /\ steady'[j] \subseteq ToSet(listing'[j])
  BY DEF ListOK
<1>4. changes' \in 0 .. MaxChanges
  BY BoundsAssumption DEF ListOK
<1>5. QED
  BY <1>2, <1>3, <1>4 DEF ListOK

LEMMA CloseIs ==
    ASSUME ListOK, NEW k \in Crawls, NEW x \in Listed(k), Close(k, x)
    PROVE  /\ ListOK'
           /\ \E i \in 1 .. Len(listing[k]) :
                 listing[k][i] = x /\ listing'[k] = RemoveAt(listing[k], i)
<1>1. PICK i \in 1 .. Len(listing[k]) :
        /\ listing[k][i] = x
        /\ listing' = [listing EXCEPT ![k] = RemoveAt(listing[k], i)]
  BY DEF Close
<1> DEFINE s == listing[k]
           l == RemoveAt(s, i)
           st == steady[k] \ {x}
<1>2. s \in Seq(Listed(k)) /\ i \in 1 .. Len(s) /\ s[i] = x
  BY <1>1 DEF ListOK
<1>3. /\ l \in Seq(Listed(k)) /\ Len(l) = Len(s) - 1
      /\ \A j \in 1 .. Len(s) - 1 : l[j] = IF j < i THEN s[j] ELSE s[j + 1]
  BY <1>2, RemoveIs
<1> HIDE DEF l, s
<1>4. ASSUME NEW j \in 1 .. Len(s), s[j] # x
      PROVE  \E n \in 1 .. Len(l) : l[n] = s[j]
  <2>1. CASE j < i
    <3>1. j \in 1 .. Len(l) /\ l[j] = s[j]
      BY <1>2, <1>3, <2>1
    <3>2. QED
      BY <3>1
  <2>2. CASE j > i
    <3>1. j - 1 \in 1 .. Len(s) - 1 /\ ~(j - 1 < i) /\ (j - 1) + 1 = j
      BY <1>2, <2>2
    <3>2. j - 1 \in 1 .. Len(l) /\ l[j - 1] = s[j]
      BY <1>3, <3>1
    <3>3. QED
      BY <3>2
  <2>3. j # i
    BY <1>2, <1>4
  <2>4. QED
    BY <1>2, <2>1, <2>2, <2>3
<1>5. st \in SUBSET ToSet(l)
  <2>1. steady[k] \subseteq {s[j] : j \in 1 .. Len(s)}
    BY <1>2, ToSetIs DEF ListOK, s
  <2>2. ToSet(l) = {l[j] : j \in 1 .. Len(l)}
    BY <1>3, ToSetIs
  <2>3. QED
    BY <1>4, <2>1, <2>2
<1>6. /\ listing' = [listing EXCEPT ![k] = l]
      /\ steady' = [steady EXCEPT ![k] = st]
      /\ changes' = changes + 1 /\ changes < MaxChanges
      /\ UNCHANGED <<seen, complete>>
  BY <1>1 DEF Close, l, s
<1>7. closings' \in [Crawls -> Nat]
  BY DEF Close, ListOK
<1> HIDE DEF st
<1>8. ListOK'
  BY <1>3, <1>5, <1>6, <1>7, ListChanges
<1>9. listing'[k] = l
  BY <1>6 DEF ListOK
<1>10. QED
  BY <1>2, <1>8, <1>9 DEF l, s

LEMMA OpenIs ==
    ASSUME ListOK, NEW k \in Crawls, NEW x \in Listed(k), Open(k, x)
    PROVE  /\ ListOK' /\ x \notin steady[k]
           /\ \E i \in 1 .. Len(listing[k]) + 1 :
                 listing'[k] = InsertAt(listing[k], i, x)
<1>1. PICK i \in 1 .. Len(listing[k]) + 1 :
        listing' = [listing EXCEPT ![k] = InsertAt(listing[k], i, x)]
  BY DEF Open
<1> DEFINE s == listing[k]
           l == InsertAt(s, i, x)
           st == steady[k]
<1>2. s \in Seq(Listed(k)) /\ i \in 1 .. Len(s) + 1
  BY <1>1 DEF ListOK
<1>3. /\ l \in Seq(Listed(k)) /\ Len(l) = Len(s) + 1
      /\ \A j \in 1 .. Len(s) + 1 :
            l[j] = IF j < i THEN s[j] ELSE IF j = i THEN x ELSE s[j - 1]
  <2>1. Inserted(Listed(k), s, i, x, l)
    BY <1>2, InsertIs
  <2> HIDE DEF s, l
  <2>2. QED
    BY <2>1 DEF Inserted
<1> HIDE DEF l, s
<1>4. ASSUME NEW j \in 1 .. Len(s)
      PROVE  \E n \in 1 .. Len(l) : l[n] = s[j]
  <2>1. CASE j < i
    <3>1. j \in 1 .. Len(l) /\ l[j] = s[j]
      BY <1>2, <1>3, <2>1
    <3>2. QED
      BY <3>1
  <2>2. CASE j >= i
    <3>1. j + 1 \in 1 .. Len(s) + 1 /\ ~(j + 1 < i) /\ j + 1 # i /\ (j + 1) - 1 = j
      BY <1>2, <2>2
    <3>2. j + 1 \in 1 .. Len(l) /\ l[j + 1] = s[j]
      BY <1>3, <3>1
    <3>3. QED
      BY <3>2
  <2>3. QED
    BY <1>2, <2>1, <2>2
<1>5. st \in SUBSET ToSet(l) /\ x \notin steady[k]
  <2>1. steady[k] \subseteq {s[j] : j \in 1 .. Len(s)} /\ steady[k] \subseteq ToSet(s)
    BY <1>2, ToSetIs DEF ListOK, s
  <2>2. ToSet(l) = {l[j] : j \in 1 .. Len(l)}
    BY <1>3, ToSetIs
  <2>3. x \notin ToSet(s)
    BY DEF Open, s
  <2>4. QED
    BY <1>4, <2>1, <2>2, <2>3
<1>6. /\ listing' = [listing EXCEPT ![k] = l]
      /\ changes' = changes + 1 /\ changes < MaxChanges
      /\ UNCHANGED <<seen, complete>>
  BY <1>1 DEF Open, l, s
<1>7. steady' = [steady EXCEPT ![k] = st] /\ closings' \in [Crawls -> Nat]
  BY DEF Open, ListOK
<1> HIDE DEF st
<1>8. ListOK'
  BY <1>3, <1>5, <1>6, <1>7, ListChanges
<1>9. listing'[k] = l
  BY <1>6 DEF ListOK
<1>10. QED
  BY <1>2, <1>5, <1>8, <1>9 DEF l, s

LEMMA FetchIs ==
    ASSUME ListOK, CrawlOK, NEW k \in Crawls, FetchPage(k)
    PROVE  ListOK' /\ CrawlOK'
<1> DEFINE page == Page(k)
           new == MarketsOn(k, page)
<1>1. page \in Seq(Listed(k)) /\ Len(page) <= Limit
  BY PageIs
<1>2. new \in Seq(Markets) /\ (k = "markets" => Len(new) <= Limit)
  BY <1>1, MarketsOnIs
<1>3. /\ todo' = [todo EXCEPT ![k] = new]
      /\ offset' = [offset EXCEPT ![k] = offset[k] + Limit]
      /\ seen' = [seen EXCEPT ![k] = seen[k] \cup ToSet(page)]
      /\ phase[k] = "fetch"
      /\ UNCHANGED <<listing, changes, step, steady, closings, complete>>
  BY DEF FetchPage, NextOffset
<1>4. phase' = [phase EXCEPT ![k] = IF todo'[k] = <<>> THEN "fetch" ELSE "market"]
  BY DEF FetchPage
<1>5. ToSet(page) \subseteq Listed(k)
  BY <1>1, ToSetIs
<1> HIDE DEF new, page
<1>6. ListOK'
  <2>1. seen' \in [Crawls -> SUBSET (Markets \cup Events)]
    BY <1>3, <1>5, ListedIs DEF ListOK
  <2>2. \A j \in Crawls : seen'[j] \subseteq Listed(j)
    BY <1>3, <1>5 DEF ListOK
  <2>3. QED
    BY <1>3, <2>1, <2>2 DEF ListOK
<1>7. CrawlOK'
  <2>1. todo' \in [Crawls -> Seq(Markets)] /\ todo'[k] = new
    BY <1>2, <1>3 DEF CrawlOK
  <2>2. offset' \in [Crawls -> Nat]
    BY <1>3, BoundsAssumption DEF CrawlOK
  <2>3. phase' \in [Crawls -> {"fetch", "market", "done"}]
    BY <1>4 DEF CrawlOK
  <2>4. \A j \in Crawls :
           /\ j = "markets" => Len(todo'[j]) <= Limit
           /\ (phase'[j] = "market") = (todo'[j] # <<>>)
    BY <1>2, <1>3, <1>4, <2>1 DEF CrawlOK
  <2>5. StepInv'
    <3>1. step[k] = "publish"
      BY <1>3 DEF CrawlOK, StepInv
    <3>2. QED
      BY <1>3, <1>4, <3>1 DEF CrawlOK, StepInv
  <2>6. QED
    BY <1>3, <2>1, <2>2, <2>3, <2>4, <2>5 DEF CrawlOK
<1>8. QED
  BY <1>6, <1>7

\* A step of a market: the next one is for the same market, and a market that
\* is not tradable has no tokens to map or to extract.
LEMMA ProceedIs ==
    ASSUME CrawlOK, NEW k \in Crawls, NEW s \in {"publish", "map", "extract"},
           Handling(k, s), Proceed(k)
    PROVE  CrawlOK' /\ UNCHANGED <<listing, changes, crashes, steady, seen, closings, complete>>
<1> DEFINE new == After(s, Head(todo[k]))
<1>1. /\ step[k] = s /\ phase[k] = "market"
      /\ step' = [step EXCEPT ![k] = new]
      /\ UNCHANGED <<phase, offset, todo, listing, changes, crashes, steady, seen, closings, complete>>
  BY DEF Proceed, Handling
<1>2. new \in {"map", "extract", "store"}
  BY DEF After
<1>3. new \in {"map", "extract"} => Head(todo[k]) \in Tradable
  <2>1. CASE s = "publish"
    BY <2>1 DEF After
  <2>2. CASE s \in {"map", "extract"}
    BY <1>1, <2>2 DEF CrawlOK, StepInv
  <2>3. QED
    BY <2>1, <2>2
<1> HIDE DEF new
<1>4. StepInv'
  BY <1>1, <1>2, <1>3 DEF CrawlOK, StepInv
<1>5. step' \in [Crawls -> {"publish", "map", "extract", "store"}]
  BY <1>1, <1>2 DEF CrawlOK
<1>6. QED
  BY <1>1, <1>4, <1>5 DEF CrawlOK

LEMMA StoreIs ==
    ASSUME CrawlOK, NEW k \in Crawls, StoreMetadata(k)
    PROVE  CrawlOK'
<1>1. /\ phase[k] = "market"
      /\ step' = [step EXCEPT ![k] = "publish"]
      /\ todo' = [todo EXCEPT ![k] = Tail(todo[k])]
      /\ phase' = [phase EXCEPT ![k] = IF todo'[k] = <<>> THEN "fetch" ELSE phase[k]]
      /\ offset' = offset
  BY DEF StoreMetadata, Handling
<1>2. todo[k] \in Seq(Markets) /\ todo[k] # <<>>
  BY <1>1 DEF CrawlOK
<1> DEFINE rest == Tail(todo[k])
<1>3. rest \in Seq(Markets) /\ Len(rest) <= Len(todo[k]) /\ Len(rest) \in Nat /\ Len(todo[k]) \in Nat
  BY <1>2
<1> HIDE DEF rest
<1>4. todo' = [todo EXCEPT ![k] = rest] /\ todo'[k] = rest
  BY <1>1 DEF rest, CrawlOK
<1>5. todo' \in [Crawls -> Seq(Markets)]
  BY <1>3, <1>4 DEF CrawlOK
<1>6. \A j \in Crawls :
         /\ j = "markets" => Len(todo'[j]) <= Limit
         /\ (phase'[j] = "market") = (todo'[j] # <<>>)
  <2>1. k = "markets" => Len(rest) <= Limit
    BY <1>3, BoundsAssumption DEF CrawlOK
  <2>2. QED
    BY <1>1, <1>4, <2>1 DEF CrawlOK
<1>7. StepInv'
  BY <1>1, <1>4 DEF CrawlOK, StepInv
<1>8. QED
  BY <1>1, <1>5, <1>6, <1>7 DEF CrawlOK

LEMMA BeginIs ==
    ASSUME ListOK, Begin, offset' = [k \in Crawls |-> 0]
    PROVE  ListOK' /\ CrawlOK'
<1>1. CrawlOK'
  <2>1. <<>> \in Seq(Markets) /\ Len(<<>>) <= Limit
    BY BoundsAssumption
  <2>2. QED
    BY <2>1 DEF Begin, CrawlOK, StepInv
<1>2. \A k \in Crawls : ToSet(listing[k]) \subseteq Markets \cup Events
  BY ToSetIs DEF ListOK
<1>3. ListOK'
  BY <1>2 DEF Begin, ListOK
<1>4. QED
  BY <1>1, <1>3

LEMMA TypesStep ==
    ListOK /\ CrawlOK /\ OutsideOK /\ [Next]_vars => ListOK' /\ CrawlOK' /\ OutsideOK'
<1> SUFFICES ASSUME ListOK, CrawlOK, OutsideOK, [Next]_vars
             PROVE  ListOK' /\ CrawlOK' /\ OutsideOK'
  OBVIOUS
<1>l. ASSUME UNCHANGED <<listing, changes, steady, seen, closings, complete>>
      PROVE  ListOK'
  BY <1>l DEF ListOK
<1>c. ASSUME UNCHANGED <<phase, offset, todo, step>> PROVE CrawlOK'
  BY <1>c DEF CrawlOK, StepInv
<1>o. ASSUME UNCHANGED <<extracted, redis, refused, crashes>> PROVE OutsideOK'
  BY <1>o DEF OutsideOK
<1>m. ASSUME NEW k \in Crawls, NEW s, Handling(k, s) PROVE Head(todo[k]) \in Markets
  <2>1. todo[k] \in Seq(Markets) /\ todo[k] # <<>>
    BY <1>m DEF Handling, CrawlOK
  <2>2. QED
    BY <2>1
<1>1. CASE UNCHANGED vars
  BY <1>1, <1>l, <1>c, <1>o DEF vars
<1>2. CASE NextRound
  <2>1. Begin /\ offset' = [k \in Crawls |-> 0] /\ crashes' = crashes
    BY <1>2 DEF NextRound, FirstOffset
  <2>2. QED
    BY <2>1, <1>o, BeginIs DEF Begin
<1>3. CASE Crash
  <2>1. Begin /\ offset' = [k \in Crawls |-> 0] /\ crashes < MaxCrashes /\ crashes' = crashes + 1
    BY <1>3 DEF Crash
  <2>2. OutsideOK'
    BY <2>1, BoundsAssumption DEF OutsideOK, Begin
  <2>3. QED
    BY <2>1, <2>2, BeginIs
<1>4. ASSUME NEW k \in Crawls, NEW x \in Listed(k), Open(k, x)
      PROVE  ListOK' /\ CrawlOK' /\ OutsideOK'
  BY <1>4, <1>c, <1>o, OpenIs DEF Open
<1>5. ASSUME NEW k \in Crawls, NEW x \in Listed(k), Close(k, x)
      PROVE  ListOK' /\ CrawlOK' /\ OutsideOK'
  BY <1>5, <1>c, <1>o, CloseIs DEF Close
<1>6. ASSUME NEW k \in Crawls, FetchPage(k) PROVE ListOK' /\ CrawlOK' /\ OutsideOK'
  BY <1>6, <1>o, FetchIs DEF FetchPage
<1>7. ASSUME NEW k \in Crawls, FetchEmptyPage(k) \/ FetchGivesUp(k)
      PROVE  ListOK' /\ CrawlOK' /\ OutsideOK'
  <2>1. /\ phase[k] = "fetch" /\ phase' = [phase EXCEPT ![k] = "done"]
        /\ UNCHANGED <<offset, todo, step, extracted, redis, refused, crashes>>
        /\ UNCHANGED <<listing, changes, steady, seen, closings>>
        /\ complete' \in [Crawls -> BOOLEAN]
    BY <1>7 DEF FetchEmptyPage, FetchGivesUp, ListOK
  <2>2. ListOK'
    BY <2>1 DEF ListOK
  <2>3. CrawlOK'
    BY <2>1 DEF CrawlOK, StepInv
  <2>4. QED
    BY <2>1, <2>2, <2>3, <1>o
<1>8. ASSUME NEW k \in Crawls, PublishMarket(k) PROVE ListOK' /\ CrawlOK' /\ OutsideOK'
  <2>1. Handling(k, "publish") /\ Proceed(k) /\ UNCHANGED <<extracted, redis, refused>>
    BY <1>8 DEF PublishMarket
  <2>2. QED
    BY <2>1, <1>l, <1>o, ProceedIs
<1>9. ASSUME NEW k \in Crawls, MapTokens(k) PROVE ListOK' /\ CrawlOK' /\ OutsideOK'
  <2>1. /\ Handling(k, "map") /\ Proceed(k) /\ extracted' = extracted
        /\ Write(TokenKeys, Head(todo[k])) /\ TokenKeys \subseteq Keys
    BY <1>9 DEF MapTokens, Keys
  <2>2. CrawlOK' /\ UNCHANGED <<listing, changes, crashes, steady, seen, closings, complete>>
    BY <2>1, ProceedIs
  <2>3. redis' \subseteq Keys \X Markets /\ refused' \subseteq Keys \X Markets
    BY <2>1, <1>m, WriteTypes
  <2>4. OutsideOK'
    BY <2>1, <2>2, <2>3 DEF OutsideOK
  <2>5. QED
    BY <2>2, <2>4, <1>l
<1>10. ASSUME NEW k \in Crawls, ExtractTokens(k) PROVE ListOK' /\ CrawlOK' /\ OutsideOK'
  <2>1. /\ Handling(k, "extract") /\ Proceed(k) /\ UNCHANGED <<redis, refused>>
        /\ extracted' \subseteq extracted \cup {Head(todo[k])}
    BY <1>10 DEF ExtractTokens
  <2>2. CrawlOK' /\ UNCHANGED <<listing, changes, crashes, steady, seen, closings, complete>>
    BY <2>1, ProceedIs
  <2>3. Head(todo[k]) \in Tradable
    BY <2>1 DEF Handling, CrawlOK, StepInv
  <2>4. OutsideOK'
    BY <2>1, <2>2, <2>3 DEF OutsideOK
  <2>5. QED
    BY <2>2, <2>4, <1>l
<1>11. ASSUME NEW k \in Crawls, StoreMetadata(k) PROVE ListOK' /\ CrawlOK' /\ OutsideOK'
  <2>1. /\ Handling(k, "store") /\ Write(MetadataKeys, Head(todo[k]))
        /\ MetadataKeys \subseteq Keys
        /\ UNCHANGED <<listing, changes, steady, seen, closings, complete, extracted, crashes>>
    BY <1>11 DEF StoreMetadata, Keys
  <2>2. redis' \subseteq Keys \X Markets /\ refused' \subseteq Keys \X Markets
    BY <2>1, <1>m, WriteTypes
  <2>3. OutsideOK'
    BY <2>1, <2>2 DEF OutsideOK
  <2>4. QED
    BY <1>11, <2>1, <2>3, <1>l, StoreIs
<1>12. CASE Evict
  <2>1. PICK x \in redis : redis' = redis \ {x} /\ refused' = refused \cup {x}
    BY <1>12 DEF Evict
  <2>2. /\ UNCHANGED <<listing, changes, steady, seen, closings, complete>>
        /\ UNCHANGED <<phase, offset, todo, step, extracted, crashes>>
    BY <1>12 DEF Evict
  <2>3. OutsideOK'
    BY <2>1, <2>2 DEF OutsideOK
  <2>4. QED
    BY <2>2, <2>3, <1>l, <1>c
<1>13. QED
  BY <1>1, <1>2, <1>3, <1>4, <1>5, <1>6, <1>7, <1>8, <1>9, <1>10, <1>11, <1>12
     DEF Next, Handle

LEMMA TypesHold == Spec => [](ListOK /\ CrawlOK /\ OutsideOK)
BY TypesInit, TypesStep, PTL DEF Spec

(***************************************************************************)
(* Lists, pages, steps and Redis are well typed; a page of markets is no   *)
(* longer than the limit; only markets with two tokens are extracted, and  *)
(* what a crawl counts as open is still listed.                            *)
(***************************************************************************)
THEOREM DiscoveryTypes == Spec => []TypeOK
<1>1. ListOK /\ CrawlOK /\ OutsideOK => TypeOK
  BY TypeParts
<1>2. QED
  BY <1>1, TypesHold, PTL

-----------------------------------------------------------------------------
(* What an offset crawl misses.                                              *)

\* The items of m that list l has before offset o.
Before(l, o, m) == {x \in m : \E i \in 1 .. Len(l) : i <= o /\ l[i] = x}

\* Of the items m that are open and not seen, no more are before the offset
\* than were closed, and none is behind it when the crawl is complete.
Within(l, o, m, c, done) ==
    /\ done => Cardinality(m) <= c
    /\ Cardinality(Before(l, o, m)) <= c

LEMMA MissedIs ==
    MissedInv <=> \A k \in Crawls : Within(listing[k], offset[k], steady[k] \ seen[k],
                                           closings[k], complete[k])
BY DEF MissedInv, EachClosingHidesOne, Missed, Within, Before

LEMMA Fewer ==
    ASSUME NEW S, NEW T, IsFiniteSet(S), T \subseteq S, NEW c \in Nat, Cardinality(S) <= c
    PROVE  Cardinality(T) <= c
<1>1. IsFiniteSet(T) /\ Cardinality(T) <= Cardinality(S)
  BY FS_Subset
<1>2. Cardinality(T) \in Nat /\ Cardinality(S) \in Nat
  BY <1>1, FS_CardinalityType
<1>3. QED
  BY <1>1, <1>2

LEMMA BeforeIsFinite ==
    ASSUME NEW l, NEW o, NEW m, IsFiniteSet(m) PROVE IsFiniteSet(Before(l, o, m))
<1>1. Before(l, o, m) \in SUBSET m
  BY DEF Before
<1>2. QED
  BY <1>1, FS_Subset

LEMMA WithinClose ==
    ASSUME NEW S, NEW l \in Seq(S), NEW i \in 1 .. Len(l), NEW o \in Nat, NEW m,
           IsFiniteSet(m), NEW c \in Nat, NEW done, Within(l, o, m, c, done)
    PROVE  Within(RemoveAt(l, i), o, m \ {l[i]}, c + 1, done)
<1> DEFINE r == RemoveAt(l, i)
           old == Before(l, o, m)
           new == Before(r, o, m \ {l[i]})
<1>1. /\ Len(r) = Len(l) - 1 /\ Len(l) \in Nat
      /\ \A j \in 1 .. Len(l) - 1 : r[j] = IF j < i THEN l[j] ELSE l[j + 1]
  BY RemoveIs
<1> HIDE DEF r
<1>2. ASSUME NEW x \in new PROVE x \in old \cup {l[o + 1]}
  <2>1. PICK j \in 1 .. Len(r) : j <= o /\ r[j] = x
    BY <1>2 DEF Before
  <2>2. x \in m
    BY <1>2 DEF Before
  <2>3. CASE j < i
    <3>1. l[j] = x /\ j \in 1 .. Len(l)
      BY <1>1, <2>1, <2>3
    <3>2. QED
      BY <2>1, <2>2, <3>1 DEF Before
  <2>4. CASE ~(j < i) /\ j < o
    <3>1. l[j + 1] = x /\ j + 1 \in 1 .. Len(l) /\ j + 1 <= o
      BY <1>1, <2>1, <2>4
    <3>2. QED
      BY <2>2, <3>1 DEF Before
  <2>5. CASE ~(j < i) /\ j = o
    BY <1>1, <2>1, <2>5
  <2>6. QED
    BY <2>1, <2>3, <2>4, <2>5
<1>3. IsFiniteSet(old) /\ Cardinality(old) <= c /\ Cardinality(old) \in Nat
  BY BeforeIsFinite, FS_CardinalityType DEF Within
<1> HIDE DEF old, new
<1>4. IsFiniteSet(old \cup {l[o + 1]}) /\ Cardinality(old \cup {l[o + 1]}) <= c + 1
  <2> DEFINE y == l[o + 1]
  <2> HIDE DEF y
  <2>1. /\ IsFiniteSet(old \cup {y})
        /\ Cardinality(old \cup {y}) = IF y \in old THEN Cardinality(old) ELSE Cardinality(old) + 1
    BY <1>3, FS_AddElement
  <2>2. Cardinality(old \cup {y}) <= c + 1
    BY <1>3, <2>1
  <2>3. QED
    BY <2>1, <2>2 DEF y
<1>5. Cardinality(new) <= c + 1
  BY <1>2, <1>4, Fewer
<1>6. done => Cardinality(m \ {l[i]}) <= c + 1
  <2>1. ASSUME done PROVE Cardinality(m \ {l[i]}) <= c
    BY <2>1, Fewer DEF Within
  <2>2. IsFiniteSet(m \ {l[i]})
    BY FS_Subset
  <2>3. Cardinality(m \ {l[i]}) \in Nat
    BY <2>2, FS_CardinalityType
  <2>4. QED
    BY <2>1, <2>3
<1>7. QED
  BY <1>5, <1>6 DEF Within, new, r

LEMMA WithinOpen ==
    ASSUME NEW S, NEW l \in Seq(S), NEW i \in 1 .. Len(l) + 1, NEW x \in S, NEW o \in Nat,
           NEW m, x \notin m, IsFiniteSet(m), NEW c \in Nat, NEW done,
           Within(l, o, m, c, done)
    PROVE  Within(InsertAt(l, i, x), o, m, c, done)
<1> DEFINE r == InsertAt(l, i, x)
           old == Before(l, o, m)
           new == Before(r, o, m)
<1>0. Len(l) \in Nat
  OBVIOUS
<1>1. /\ Len(r) = Len(l) + 1
      /\ \A j \in 1 .. Len(l) + 1 :
            r[j] = IF j < i THEN l[j] ELSE IF j = i THEN x ELSE l[j - 1]
  <2>1. Inserted(S, l, i, x, r)
    BY InsertIs
  <2> HIDE DEF r
  <2>2. QED
    BY <2>1 DEF Inserted
<1> HIDE DEF r
<1>2. ASSUME NEW y \in new PROVE y \in old
  <2>1. PICK j \in 1 .. Len(r) : j <= o /\ r[j] = y
    BY <1>2 DEF Before
  <2>2. y \in m
    BY <1>2 DEF Before
  <2>3. CASE j < i
    <3>1. l[j] = y /\ j \in 1 .. Len(l)
      BY <1>0, <1>1, <2>1, <2>3
    <3>2. QED
      BY <2>1, <2>2, <3>1 DEF Before
  <2>4. CASE j = i
    BY <1>1, <2>1, <2>2, <2>4
  <2>5. CASE j > i
    <3>1. l[j - 1] = y /\ j - 1 \in 1 .. Len(l) /\ j - 1 <= o
      BY <1>0, <1>1, <2>1, <2>5
    <3>2. QED
      BY <2>2, <3>1 DEF Before
  <2>6. QED
    BY <1>0, <1>1, <2>1, <2>3, <2>4, <2>5
<1>3. IsFiniteSet(old) /\ Cardinality(old) <= c
  BY BeforeIsFinite DEF Within
<1> HIDE DEF old, new
<1>4. Cardinality(new) <= c
  BY <1>2, <1>3, Fewer
<1>5. QED
  BY <1>4 DEF Within, new, r

\* The offset moves on over items that are seen with the page.
LEMMA WithinPage ==
    ASSUME NEW l, NEW o, NEW p, NEW m, IsFiniteSet(m), NEW c \in Nat, NEW done,
           NEW items, \A i \in 1 .. Len(l) : i <= p => i <= o \/ l[i] \in items,
           Within(l, o, m, c, done)
    PROVE  Within(l, p, m \ items, c, done)
<1>1. Before(l, p, m \ items) \subseteq Before(l, o, m)
  BY DEF Before
<1>2. IsFiniteSet(Before(l, o, m)) /\ Cardinality(Before(l, o, m)) <= c
  BY BeforeIsFinite DEF Within
<1>3. Cardinality(Before(l, p, m \ items)) <= c
  BY <1>1, <1>2, Fewer
<1>4. done => Cardinality(m \ items) <= c
  BY Fewer DEF Within
<1>5. QED
  BY <1>3, <1>4 DEF Within

LEMMA WithinEmpty ==
    ASSUME NEW S, NEW l \in Seq(S), NEW o \in Nat, Len(l) <= o, NEW m \in SUBSET ToSet(l),
           NEW c, NEW done, Within(l, o, m, c, done)
    PROVE  Within(l, o, m, c, TRUE)
<1>1. ASSUME NEW x \in m PROVE x \in Before(l, o, m)
  <2>1. PICK i \in 1 .. Len(l) : l[i] = x
    BY ToSetIs
  <2>2. i <= o
    <3>1. Len(l) \in Nat
      OBVIOUS
    <3>2. QED
      BY <3>1
  <2>3. QED
    BY <2>1, <2>2 DEF Before
<1>2. Before(l, o, m) = m
  BY <1>1 DEF Before
<1>3. QED
  BY <1>2 DEF Within

LEMMA WithinBegin ==
    ASSUME NEW l, NEW m PROVE Within(l, 0, m, 0, FALSE)
<1>1. Before(l, 0, m) = {}
  BY DEF Before
<1>2. QED
  BY <1>1, FS_EmptySet DEF Within

(***************************************************************************)
(* A crawl skips at most one open item per item that is closed meanwhile.  *)
(***************************************************************************)
THEOREM ClosingsHideFew == Spec => []EachClosingHidesOne
<1>1. Init => MissedInv
  <2> SUFFICES ASSUME Init, NEW k \in Crawls
               PROVE  Within(listing[k], offset[k], steady[k] \ seen[k], closings[k], complete[k])
    BY MissedIs
  <2>1. offset[k] = 0 /\ closings[k] = 0 /\ complete[k] = FALSE
    BY DEF Init
  <2>2. QED
    BY <2>1, WithinBegin
<1>2. ListOK /\ CrawlOK /\ MissedInv /\ [Next]_vars => MissedInv'
  <2> SUFFICES ASSUME ListOK, CrawlOK, MissedInv, [Next]_vars, NEW j \in Crawls
               PROVE  Within(listing'[j], offset'[j], steady'[j] \ seen'[j],
                             closings'[j], complete'[j])
    BY DEF MissedInv, EachClosingHidesOne, Missed, Within, Before
  <2> DEFINE l == listing[j]
             o == offset[j]
             m == steady[j] \ seen[j]
             c == closings[j]
             done == complete[j]
             Goal == Within(listing'[j], offset'[j], steady'[j] \ seen'[j],
                            closings'[j], complete'[j])
  <2>0. Within(l, o, m, c, done)
    BY MissedIs
  <2>a. /\ l \in Seq(Listed(j)) /\ o \in Nat /\ c \in Nat /\ m \in SUBSET ToSet(l)
        /\ IsFiniteSet(m)
    <3>1. l \in Seq(Listed(j)) /\ o \in Nat /\ c \in Nat /\ m \in SUBSET ToSet(l)
      BY DEF ListOK, CrawlOK
    <3>2. m \in SUBSET Listed(j)
      BY <3>1, ToSetIs
    <3>3. QED
      BY <3>1, <3>2, ListedIs, FS_Subset
  <2>s. ASSUME listing'[j] = l, offset'[j] = o, steady'[j] = steady[j], seen'[j] = seen[j],
               closings'[j] = c, complete'[j] = done
        PROVE  Goal
    BY <2>0, <2>s
  <2>1. CASE UNCHANGED <<listing, offset, steady, seen, closings, complete>>
    BY <2>1, <2>s
  <2>2. CASE NextRound \/ Crash
    <3>1. offset'[j] = 0 /\ closings'[j] = 0 /\ complete'[j] = FALSE
      BY <2>2 DEF NextRound, Crash, Begin, FirstOffset
    <3>2. QED
      BY <3>1, WithinBegin
  <2>3. ASSUME NEW k \in Crawls, NEW x \in Listed(k), Open(k, x) PROVE Goal
    <3>1. UNCHANGED <<offset, steady, seen, closings, complete>>
      BY <2>3 DEF Open
    <3>2. CASE k # j
      <4>1. listing'[j] = l
        BY <2>3, <3>2 DEF Open
      <4>2. QED
        BY <3>1, <4>1, <2>s
    <3>3. CASE k = j
      <4>1. x \notin m /\ x \in Listed(j)
        BY <2>3, <3>3, OpenIs
      <4>2. PICK i \in 1 .. Len(l) + 1 : listing'[j] = InsertAt(l, i, x)
        BY <2>3, <3>3, OpenIs
      <4> HIDE DEF l, o, m, c, done
      <4>3. Within(InsertAt(l, i, x), o, m, c, done)
        BY <2>0, <2>a, <4>1, WithinOpen
      <4>4. QED
        BY <3>1, <4>2, <4>3 DEF l, o, m, c, done
    <3>4. QED
      BY <3>2, <3>3
  <2>4. ASSUME NEW k \in Crawls, NEW x \in Listed(k), Close(k, x) PROVE Goal
    <3>1. /\ UNCHANGED <<offset, seen, complete>>
          /\ steady' = [steady EXCEPT ![k] = steady[k] \ {x}]
          /\ closings' = [closings EXCEPT ![k] = closings[k] + 1]
      BY <2>4 DEF Close
    <3>2. CASE k # j
      <4>1. listing'[j] = l /\ steady'[j] = steady[j] /\ closings'[j] = c
        BY <2>4, <3>1, <3>2 DEF Close
      <4>2. QED
        BY <3>1, <4>1, <2>s
    <3>3. CASE k = j
      <4>1. PICK i \in 1 .. Len(l) : l[i] = x /\ listing'[j] = RemoveAt(l, i)
        BY <2>4, <3>3, CloseIs
      <4>2. steady'[j] \ seen'[j] = m \ {x} /\ closings'[j] = c + 1
        BY <3>1, <3>3 DEF ListOK
      <4> HIDE DEF l, o, m, c, done
      <4>3. Within(RemoveAt(l, i), o, m \ {l[i]}, c + 1, done)
        BY <2>0, <2>a, WithinClose
      <4>4. QED
        BY <3>1, <4>1, <4>2, <4>3 DEF o, done
    <3>4. QED
      BY <3>2, <3>3
  <2>5. ASSUME NEW k \in Crawls, FetchPage(k) PROVE Goal
    <3>1. /\ UNCHANGED <<listing, steady, closings, complete>>
          /\ offset' = [offset EXCEPT ![k] = offset[k] + Limit]
          /\ seen' = [seen EXCEPT ![k] = seen[k] \cup ToSet(Page(k))]
      BY <2>5 DEF FetchPage, NextOffset
    <3>2. CASE k # j
      <4>1. offset'[j] = o /\ seen'[j] = seen[j]
        BY <3>1, <3>2
      <4>2. QED
        BY <3>1, <4>1, <2>s
    <3>3. CASE k = j
      <4> DEFINE items == ToSet(Page(j))
                 p == offset[j] + Limit
      <4>1. offset'[j] = p /\ steady'[j] \ seen'[j] = m \ items
        BY <3>1, <3>3 DEF ListOK, CrawlOK
      <4>2. \A i \in 1 .. Len(l) : i <= p => i <= o \/ l[i] \in items
        <5>1. \A i \in 1 .. Len(listing[j]) : i > offset[j] /\ i <= offset[j] + Limit =>
                 listing[j][i] \in ToSet(Page(j))
          BY PageIs
        <5>2. QED
          BY <2>a, <5>1
      <4> HIDE DEF l, o, m, c, done, items, p
      <4>3. Within(l, p, m \ items, c, done)
        BY <2>0, <2>a, <4>2, WithinPage
      <4>4. QED
        BY <3>1, <4>1, <4>3 DEF l, c, done
    <3>4. QED
      BY <3>2, <3>3
  <2>6. ASSUME NEW k \in Crawls, FetchEmptyPage(k) PROVE Goal
    <3>1. /\ UNCHANGED <<listing, offset, steady, seen, closings>>
          /\ complete' = [complete EXCEPT ![k] = TRUE] /\ Page(k) = <<>>
      BY <2>6 DEF FetchEmptyPage
    <3>2. CASE k # j
      <4>1. complete'[j] = done
        BY <3>1, <3>2 DEF ListOK
      <4>2. QED
        BY <3>1, <4>1, <2>s
    <3>3. CASE k = j
      <4>1. Len(l) <= o /\ complete'[j] = TRUE
        BY <3>1, <3>3, PageIs DEF ListOK
      <4> HIDE DEF l, o, m, c, done
      <4>2. Within(l, o, m, c, TRUE)
        BY <2>0, <2>a, <4>1, WithinEmpty
      <4>3. QED
        BY <3>1, <4>1, <4>2 DEF l, o, m, c
    <3>4. QED
      BY <3>2, <3>3
  <2>7. ASSUME NEW k \in Crawls, FetchGivesUp(k) \/ Handle(k) PROVE Goal
    BY <2>1, <2>7 DEF FetchGivesUp, Handle, PublishMarket, MapTokens, ExtractTokens,
                      StoreMetadata, Proceed
  <2>8. CASE Evict
    BY <2>1, <2>8 DEF Evict
  <2>9. CASE UNCHANGED vars
    BY <2>1, <2>9 DEF vars
  <2>10. QED
    BY <2>2, <2>3, <2>4, <2>5, <2>6, <2>7, <2>8, <2>9 DEF Next
<1>3. MissedInv => EachClosingHidesOne
  BY DEF MissedInv
<1>4. QED
  BY <1>1, <1>2, <1>3, TypesHold, PTL DEF Spec

-----------------------------------------------------------------------------
(* What is written before it is used.                                        *)

\* What a batch of writes leaves: each key is written or refused, what was
\* there is still there, and other markets are left alone.
LEMMA WriteKeeps ==
    ASSUME NEW keys, NEW m, Write(keys, m)
    PROVE  /\ keys \X {m} \subseteq redis' \cup refused'
           /\ redis \subseteq redis' /\ refused \subseteq refused'
           /\ \A x, n : <<x, n>> \in redis' =>
                 <<x, n>> \in redis \/ (x \in keys /\ n = m)
<1>1. PICK failed \in SUBSET keys :
        /\ refused' = refused \cup {<<x, m>> : x \in failed}
        /\ redis' = redis \cup {<<x, m>> : x \in keys \ failed}
  BY DEF Write
<1>2. keys \X {m} \subseteq redis' \cup refused'
  BY <1>1
<1>3. QED
  BY <1>1, <1>2

(***************************************************************************)
(* Nobody learns of a token that cannot be resolved, and no market is      *)
(* listed without metadata, unless Redis refused that write or dropped it. *)
(***************************************************************************)
THEOREM ResolvableWhenPublished == Spec => []WrittenBeforeUsed
<1>1. Init => MappedInv
  BY DEF Init, MappedInv, WrittenBeforeUsed, Handling
<1>2. CrawlOK /\ MappedInv /\ [Next]_vars => MappedInv'
  <2> SUFFICES ASSUME CrawlOK, MappedInv, [Next]_vars PROVE MappedInv'
    OBVIOUS
  <2> USE DEF MappedInv, WrittenBeforeUsed, Handling, CrawlOK, StepInv
  <2>1. CASE UNCHANGED <<redis, refused, extracted, step, phase, todo>>
    BY <2>1
  <2>2. CASE NextRound \/ Crash
    BY <2>2 DEF NextRound, Crash, Begin
  <2>3. ASSUME NEW k \in Crawls, NEW x \in Listed(k), Open(k, x) \/ Close(k, x)
        PROVE  MappedInv'
    BY <2>1, <2>3 DEF Open, Close
  <2>4. ASSUME NEW k \in Crawls,
               FetchPage(k) \/ FetchEmptyPage(k) \/ FetchGivesUp(k)
        PROVE  MappedInv'
    <3>1. /\ step[k] = "publish"
          /\ UNCHANGED <<redis, refused, extracted, step>>
          /\ \A j \in Crawls : j # k => phase'[j] = phase[j] /\ todo'[j] = todo[j]
      BY <2>4 DEF FetchPage, FetchEmptyPage, FetchGivesUp
    <3>2. QED
      BY <3>1
  <2>5. ASSUME NEW k \in Crawls, Proceed(k), phase[k] = "market",
               step'[k] = "extract" =>
                  TokenKeys \X {Head(todo[k])} \subseteq redis' \cup refused',
               redis \cup refused \subseteq redis' \cup refused'
        PROVE  \A j \in Crawls :
                  /\ Handling(j, "extract")' =>
                        TokenKeys \X {Head(todo'[j])} \subseteq redis' \cup refused'
                  /\ phase'[j] # "market" => step'[j] = "publish"
    <3>1. /\ phase' = phase /\ todo' = todo
          /\ \A j \in Crawls : j # k => step'[j] = step[j]
      BY <2>5 DEF Proceed
    <3>2. QED
      BY <2>5, <3>1
  <2>6. ASSUME NEW k \in Crawls, PublishMarket(k) PROVE MappedInv'
    <3>1. /\ Proceed(k) /\ phase[k] = "market"
          /\ UNCHANGED <<redis, refused, extracted>>
          /\ step'[k] # "extract"
      BY <2>6 DEF PublishMarket, Proceed, After
    <3>2. QED
      BY <2>5, <3>1
  <2>7. ASSUME NEW k \in Crawls, MapTokens(k) PROVE MappedInv'
    <3>1. /\ Proceed(k) /\ phase[k] = "market" /\ extracted' = extracted
          /\ Write(TokenKeys, Head(todo[k]))
      BY <2>7 DEF MapTokens
    <3>2. /\ TokenKeys \X {Head(todo[k])} \subseteq redis' \cup refused'
          /\ redis \subseteq redis' /\ refused \subseteq refused'
          /\ \A m : <<"member", m>> \in redis' => <<"member", m>> \in redis
      BY <3>1, WriteKeeps DEF TokenKeys
    <3>3. WrittenBeforeUsed'
      BY <3>1, <3>2
    <3>4. QED
      BY <2>5, <3>1, <3>2, <3>3
  <2>8. ASSUME NEW k \in Crawls, ExtractTokens(k) PROVE MappedInv'
    <3>1. /\ Proceed(k) /\ phase[k] = "market"
          /\ UNCHANGED <<redis, refused>>
          /\ extracted' \subseteq extracted \cup {Head(todo[k])}
          /\ Handling(k, "extract")
          /\ step'[k] # "extract"
      BY <2>8 DEF ExtractTokens, Proceed, After
    <3>2. WrittenBeforeUsed'
      BY <3>1
    <3>3. QED
      BY <2>5, <3>1, <3>2
  <2>9. ASSUME NEW k \in Crawls, StoreMetadata(k) PROVE MappedInv'
    <3>1. /\ Write(MetadataKeys, Head(todo[k])) /\ extracted' = extracted
          /\ step'[k] = "publish"
          /\ \A j \in Crawls : j # k => /\ phase'[j] = phase[j]
                                        /\ todo'[j] = todo[j]
                                        /\ step'[j] = step[j]
      BY <2>9 DEF StoreMetadata
    <3>2. /\ MetadataKeys \X {Head(todo[k])} \subseteq redis' \cup refused'
          /\ redis \subseteq redis' /\ refused \subseteq refused'
          /\ \A m : <<"member", m>> \in redis' =>
                <<"member", m>> \in redis \/ m = Head(todo[k])
      BY <3>1, WriteKeeps
    <3>3. <<"metadata", Head(todo[k])>> \in redis' \cup refused'
      BY <3>2 DEF MetadataKeys
    <3>4. WrittenBeforeUsed'
      BY <3>1, <3>2, <3>3
    <3>5. QED
      BY <3>1, <3>2, <3>4
  <2>10. CASE Evict
    <3>1. /\ UNCHANGED <<extracted, step, phase, todo>>
          /\ redis' \subseteq redis /\ refused \subseteq refused'
          /\ redis \cup refused \subseteq redis' \cup refused'
      BY <2>10 DEF Evict
    <3>2. QED
      BY <3>1
  <2>11. QED
    BY <2>1, <2>2, <2>3, <2>4, <2>6, <2>7, <2>8, <2>9, <2>10 DEF Next, Handle, vars
<1>3. MappedInv => WrittenBeforeUsed
  BY DEF MappedInv
<1>4. QED
  BY <1>1, <1>2, <1>3, TypesHold, PTL DEF Spec

-----------------------------------------------------------------------------
(* The way to the API.                                                       *)

Known(m) == Detail(m) # NoRow \/ Waiting(m) \/ m \in lost

\* Functions and sequences are what they should be; what a message says can
\* be told from no row.
ShapeInv ==
    /\ phase = [k \in Crawls |-> phase[k]]
    /\ step = [k \in Crawls |-> step[k]]
    /\ todo = [k \in Crawls |-> todo[k]]
    /\ newest = [m \in Markets |-> newest[m]]
    /\ \E S : discovered \in Seq(S)
    /\ \A i \in 1 .. Len(discovered) :
          discovered[i].market \in Markets => discovered[i].event # NoRow

\* A crawl that is past publishing a market has made it known, and begins
\* the next market, page or round with publishing.
KnownInv ==
    /\ MemberHasRow
    /\ \A k \in Crawls :
          /\ phase[k] = "market" /\ step[k] # "publish" =>
                \A m \in Markets : m = Head(todo[k]) => Known(m)
          /\ phase[k] # "market" => step[k] = "publish"

LEMMA EventIdIsNoRow ==
    ASSUME NEW k, NEW m \in Markets
    PROVE  EventId(k, m) # NoRow
<1>1. EventOf(m) \in Events \cup {NoEvent}
  BY DEF EventOf
<1>2. QED
  BY <1>1, EventsAssumption DEF EventId

\* What a batch of writes adds to predsx:markets.
LEMMA WriteAdds ==
    ASSUME NEW keys, NEW m, Write(keys, m)
    PROVE  \A n : <<"member", n>> \in redis' =>
              <<"member", n>> \in redis \/ ("member" \in keys /\ n = m)
<1>1. PICK failed \in SUBSET keys :
        redis' = redis \cup {<<x, m>> : x \in keys \ failed}
  BY DEF Write
<1>2. QED
  BY <1>1

\* A message at the end makes its market known, and keeps what is known.
LEMMA AppendKnown ==
    ASSUME ShapeInv, NEW msg, discovered' = Append(discovered, msg),
           newest' = newest, lost' = lost,
           msg.market \in Markets => msg.event # NoRow
    PROVE  /\ \E S : discovered' \in Seq(S)
           /\ \A i \in 1 .. Len(discovered') :
                 discovered'[i].market \in Markets => discovered'[i].event # NoRow
           /\ \A m \in Markets : Known(m) \/ m = msg.market => Known(m)'
<1>1. PICK S : discovered \in Seq(S)
  BY DEF ShapeInv
<1>2. discovered \in Seq(S \cup {msg})
  BY <1>1
<1>3. /\ discovered' \in Seq(S \cup {msg})
      /\ Len(discovered') = Len(discovered) + 1 /\ Len(discovered) \in Nat
      /\ \A i \in 1 .. Len(discovered) : discovered'[i] = discovered[i]
      /\ discovered'[Len(discovered) + 1] = msg
  BY <1>2
<1>4. \A i \in 1 .. Len(discovered') :
         discovered'[i].market \in Markets => discovered'[i].event # NoRow
  BY <1>3 DEF ShapeInv
<1>5. \A m \in Markets : Waiting(m) \/ m = msg.market => Waiting(m)'
  BY <1>3 DEF Waiting
<1>6. QED
  BY <1>3, <1>4, <1>5 DEF Known, Detail

\* A message that is taken leaves its market known, by its row or as lost.
LEMMA TakeKnown ==
    ASSUME ShapeInv, discovered # <<>>, discovered' = Tail(discovered),
           \/ /\ newest' = [newest EXCEPT ![Head(discovered).market]
                                            = Head(discovered).event]
              /\ lost' = lost
           \/ /\ newest' = newest
              /\ lost' = lost \cup {Head(discovered).market}
    PROVE  /\ \E S : discovered' \in Seq(S)
           /\ \A i \in 1 .. Len(discovered') :
                 discovered'[i].market \in Markets => discovered'[i].event # NoRow
           /\ newest' = [m \in Markets |-> newest'[m]]
           /\ \A m \in Markets : Known(m) => Known(m)'
<1>1. PICK S : discovered \in Seq(S)
  BY DEF ShapeInv
<1>2. /\ discovered' \in Seq(S)
      /\ Len(discovered') = Len(discovered) - 1 /\ Len(discovered) \in Nat \ {0}
      /\ \A i \in 1 .. Len(discovered') : discovered'[i] = discovered[i + 1]
      /\ Head(discovered) = discovered[1]
  BY <1>1
<1>3. \A i \in 1 .. Len(discovered') :
         discovered'[i].market \in Markets => discovered'[i].event # NoRow
  BY <1>2 DEF ShapeInv
<1>4. Head(discovered).market \in Markets => Head(discovered).event # NoRow
  BY <1>2 DEF ShapeInv
<1>5. ASSUME NEW m \in Markets, Waiting(m)
      PROVE  Waiting(m)' \/ m = Head(discovered).market
  <2>1. PICK i \in 1 .. Len(discovered) : discovered[i].market = m
    BY <1>5 DEF Waiting
  <2>2. CASE i = 1
    BY <2>1, <2>2, <1>2
  <2>3. CASE i # 1
    <3>1. i - 1 \in 1 .. Len(discovered') /\ discovered'[i - 1] = discovered[i]
      BY <2>3, <1>2
    <3>2. QED
      BY <2>1, <3>1 DEF Waiting
  <2>4. QED
    BY <2>2, <2>3
<1>6. newest' = [m \in Markets |-> newest'[m]]
  BY DEF ShapeInv
<1>7. ASSUME NEW m \in Markets, Known(m) PROVE Known(m)'
  <2>1. CASE m = Head(discovered).market
    BY <2>1, <1>4 DEF Known, Detail, ShapeInv
  <2>2. CASE m # Head(discovered).market
    BY <2>2, <1>5, <1>7 DEF Known, Detail, ShapeInv
  <2>3. QED
    BY <2>1, <2>2
<1>8. QED
  BY <1>2, <1>3, <1>6, <1>7

LEMMA ShapeHolds == CatSpec => []ShapeInv
<1>1. CatInit => ShapeInv
  <2> SUFFICES ASSUME CatInit PROVE ShapeInv
    OBVIOUS
  <2>1. discovered \in Seq({}) /\ Len(discovered) = 0
    BY DEF CatInit
  <2>2. QED
    BY <2>1 DEF CatInit, Init, ShapeInv
<1>2. ShapeInv /\ [CatNext]_catVars => ShapeInv'
  <2> SUFFICES ASSUME ShapeInv, [CatNext]_catVars PROVE ShapeInv'
    OBVIOUS
  <2>1. CASE UNCHANGED catVars
    BY <2>1 DEF catVars, vars, ShapeInv
  <2>2. ASSUME NEW k \in Crawls, Announce(k) PROVE ShapeInv'
    <3> DEFINE msg == [market |-> Head(todo[k]), event |-> EventId(k, Head(todo[k]))]
    <3>1. /\ discovered' = Append(discovered, msg)
          /\ UNCHANGED <<newest, lost, phase, todo>>
          /\ step' = [step EXCEPT ![k] = After(step[k], Head(todo[k]))]
      BY <2>2 DEF Announce, PublishMarket, Proceed
    <3>2. msg.market \in Markets => msg.event # NoRow
      BY EventIdIsNoRow
    <3> HIDE DEF msg
    <3>3. QED
      BY <3>1, <3>2, AppendKnown DEF ShapeInv
  <2>3. CASE Persist \/ PersistFails
    <3>1. UNCHANGED <<phase, step, todo>>
      BY <2>3 DEF Persist, PersistFails, vars
    <3>2. /\ \E S : discovered' \in Seq(S)
          /\ \A i \in 1 .. Len(discovered') :
                discovered'[i].market \in Markets => discovered'[i].event # NoRow
          /\ newest' = [m \in Markets |-> newest'[m]]
      BY <2>3, TakeKnown DEF Persist, PersistFails, AddRow
    <3>3. QED
      BY <3>1, <3>2 DEF ShapeInv
  <2>4. ASSUME NEW k \in Crawls,
               \/ AnnounceFails(k)
               \/ /\ MapTokens(k) \/ ExtractTokens(k) \/ StoreMetadata(k)
                  /\ UNCHANGED <<discovered, table, lost>>
        PROVE  ShapeInv'
    <3>1. UNCHANGED <<discovered, newest>>
      BY <2>4 DEF AnnounceFails
    <3>2. /\ phase' = [j \in Crawls |-> phase'[j]]
          /\ step' = [j \in Crawls |-> step'[j]]
          /\ todo' = [j \in Crawls |-> todo'[j]]
      BY <2>4 DEF AnnounceFails, PublishMarket, MapTokens, ExtractTokens,
                  StoreMetadata, Proceed, ShapeInv
    <3>3. QED
      BY <3>1, <3>2 DEF ShapeInv
  <2>5. ASSUME UNCHANGED <<discovered, table, lost>>,
               \/ \E k \in Crawls :
                     \/ FetchPage(k) \/ FetchEmptyPage(k) \/ FetchGivesUp(k)
                     \/ \E x \in Listed(k) : Open(k, x) \/ Close(k, x)
               \/ Evict \/ NextRound \/ Crash
        PROVE  ShapeInv'
    <3>1. /\ phase' = [j \in Crawls |-> phase'[j]]
          /\ step' = [j \in Crawls |-> step'[j]]
          /\ todo' = [j \in Crawls |-> todo'[j]]
      BY <2>5 DEF FetchPage, FetchEmptyPage, FetchGivesUp, Open, Close, Evict,
                  NextRound, Crash, Begin, ShapeInv
    <3>2. QED
      BY <2>5, <3>1 DEF ShapeInv
  <2>6. QED
    BY <2>1, <2>2, <2>3, <2>4, <2>5 DEF CatNext, CatHandle
<1>3. QED
  BY <1>1, <1>2, PTL DEF CatSpec

(***************************************************************************)
(* A market that the API finds has a row, one on its way, or lost one.     *)
(***************************************************************************)
THEOREM FoundIsDescribed == CatSpec => []MemberHasRow
<1>1. CatInit => KnownInv
  BY DEF CatInit, Init, KnownInv, MemberHasRow, Found
<1>2. ShapeInv /\ KnownInv /\ [CatNext]_catVars => KnownInv'
  <2> SUFFICES ASSUME ShapeInv, KnownInv, [CatNext]_catVars PROVE KnownInv'
    OBVIOUS
  <2> USE DEF KnownInv
  <2>0. \A m \in Markets : Found(m) => Known(m)
    BY DEF MemberHasRow, Known
  <2>1. ASSUME \A m \in Markets : Found(m)' => Known(m)'
        PROVE  MemberHasRow'
    BY <2>1 DEF MemberHasRow, Known
  <2>2. CASE UNCHANGED catVars
    BY <2>2 DEF catVars, vars, MemberHasRow, Found, Known, Detail, Waiting
  <2>3. ASSUME NEW k \in Crawls, PublishMarket(k), redis' = redis,
               \A m \in Markets : Known(m) \/ m = Head(todo[k]) => Known(m)'
        PROVE  KnownInv'
    <3>1. /\ UNCHANGED <<phase, todo>> /\ phase[k] = "market"
          /\ \A j \in Crawls : j # k => step'[j] = step[j]
      BY <2>3 DEF PublishMarket, Proceed, Handling, ShapeInv
    <3>2. \A m \in Markets : Found(m)' => Known(m)'
      BY <2>0, <2>3 DEF Found
    <3>3. QED
      BY <2>1, <2>3, <3>1, <3>2
  <2>4. ASSUME NEW k \in Crawls, Announce(k) PROVE KnownInv'
    <3> DEFINE msg == [market |-> Head(todo[k]), event |-> EventId(k, Head(todo[k]))]
    <3>1. /\ discovered' = Append(discovered, msg)
          /\ newest' = newest /\ lost' = lost /\ redis' = redis
          /\ PublishMarket(k)
      BY <2>4 DEF Announce, PublishMarket
    <3>2. msg.market \in Markets => msg.event # NoRow
      BY EventIdIsNoRow
    <3>3. msg.market = Head(todo[k])
      OBVIOUS
    <3> HIDE DEF msg
    <3>4. \A m \in Markets : Known(m) \/ m = Head(todo[k]) => Known(m)'
      BY <3>1, <3>2, <3>3, AppendKnown
    <3>5. QED
      BY <2>3, <3>1, <3>4
  <2>5. ASSUME NEW k \in Crawls, AnnounceFails(k) PROVE KnownInv'
    <3>1. /\ PublishMarket(k) /\ redis' = redis
          /\ \A m \in Markets : Known(m) \/ m = Head(todo[k]) => Known(m)'
      BY <2>5 DEF AnnounceFails, PublishMarket, Known, Detail, Waiting
    <3>2. QED
      BY <2>3, <3>1
  <2>6. ASSUME NEW k \in Crawls, MapTokens(k) \/ ExtractTokens(k),
               UNCHANGED <<discovered, table, lost>>
        PROVE  KnownInv'
    <3>1. /\ UNCHANGED <<phase, todo>> /\ phase[k] = "market" /\ step[k] # "publish"
          /\ \A j \in Crawls : j # k => step'[j] = step[j]
      BY <2>6 DEF MapTokens, ExtractTokens, Proceed, Handling, ShapeInv
    <3>2. \A m \in Markets : Found(m)' => Found(m)
      <4>1. CASE MapTokens(k)
        <5>1. Write(TokenKeys, Head(todo[k]))
          BY <4>1 DEF MapTokens
        <5>2. QED
          BY <5>1, WriteAdds DEF Found, TokenKeys
      <4>2. CASE ExtractTokens(k)
        BY <4>2 DEF ExtractTokens, Found
      <4>3. QED
        BY <2>6, <4>1, <4>2
    <3>3. \A m \in Markets : Known(m) => Known(m)'
      BY <2>6 DEF Known, Detail, Waiting
    <3>4. QED
      BY <2>0, <2>1, <3>1, <3>2, <3>3
  <2>7. ASSUME NEW k \in Crawls, StoreMetadata(k),
               UNCHANGED <<discovered, table, lost>>
        PROVE  KnownInv'
    <3>1. /\ Write(MetadataKeys, Head(todo[k])) /\ phase[k] = "market"
          /\ step[k] # "publish" /\ step'[k] = "publish"
          /\ \A j \in Crawls : j # k => /\ phase'[j] = phase[j]
                                        /\ todo'[j] = todo[j]
                                        /\ step'[j] = step[j]
      BY <2>7 DEF StoreMetadata, Handling, ShapeInv
    <3>2. \A m \in Markets : Known(m) => Known(m)'
      BY <2>7 DEF Known, Detail, Waiting
    <3>3. \A m \in Markets : Found(m)' => Found(m) \/ m = Head(todo[k])
      BY <3>1, WriteAdds DEF Found
    <3>4. \A m \in Markets : Found(m)' => Known(m)'
      BY <2>0, <3>1, <3>2, <3>3
    <3>5. QED
      BY <2>1, <3>1, <3>2, <3>4
  <2>8. CASE Persist \/ PersistFails
    <3>1. UNCHANGED <<phase, step, todo, redis>>
      BY <2>8 DEF Persist, PersistFails, vars
    <3>2. \A m \in Markets : Known(m) => Known(m)'
      BY <2>8, TakeKnown DEF Persist, PersistFails, AddRow
    <3>3. \A m \in Markets : Found(m)' => Known(m)'
      BY <2>0, <3>1, <3>2 DEF Found
    <3>4. QED
      BY <2>1, <3>1, <3>2, <3>3
  <2>9. ASSUME UNCHANGED <<discovered, table, lost>>,
               \/ \E k \in Crawls :
                     \/ FetchPage(k) \/ FetchEmptyPage(k) \/ FetchGivesUp(k)
                     \/ \E x \in Listed(k) : Open(k, x) \/ Close(k, x)
               \/ Evict \/ NextRound \/ Crash
        PROVE  KnownInv'
    <3>1. redis' \subseteq redis
      BY <2>9 DEF FetchPage, FetchEmptyPage, FetchGivesUp, Open, Close, Evict,
                  NextRound, Crash, Begin
    <3>2. \A k \in Crawls :
             \/ phase'[k] = phase[k] /\ todo'[k] = todo[k] /\ step'[k] = step[k]
             \/ step'[k] = "publish"
      BY <2>9 DEF FetchPage, FetchEmptyPage, FetchGivesUp, Open, Close, Evict,
                  NextRound, Crash, Begin, ShapeInv
    <3>3. \A m \in Markets : Known(m) => Known(m)'
      BY <2>9 DEF Known, Detail, Waiting
    <3>4. \A m \in Markets : Found(m)' => Known(m)'
      BY <2>0, <3>1, <3>3 DEF Found
    <3>5. QED
      BY <2>1, <3>2, <3>3, <3>4
  <2>10. QED
    BY <2>2, <2>4, <2>5, <2>6, <2>7, <2>8, <2>9 DEF CatNext, CatHandle
<1>3. KnownInv => MemberHasRow
  BY DEF KnownInv
<1>4. QED
  BY <1>1, <1>2, <1>3, ShapeHolds, PTL DEF CatSpec
=============================================================================
