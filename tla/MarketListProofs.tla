-------------------------- MODULE MarketListProofs --------------------------
(***************************************************************************)
(* Theorems about the list of markets, for any tables, page size, number   *)
(* of requests in progress and number of pages.                            *)
(***************************************************************************)
EXTENDS MarketList, TLAPS

USE MarketsAssumption, BoundsAssumption

(* Sequences *)

LEMMA FirstType ==
    ASSUME NEW S, NEW s \in Seq(S), NEW n \in Nat
    PROVE  First(n, s) \in Seq(S)
BY DEF First

LEMMA SubSeqFacts ==
    ASSUME NEW S, NEW s \in Seq(S), NEW a \in Nat \ {0}, NEW b \in Nat,
           b <= Len(s)
    PROVE  /\ SubSeq(s, a, b) \in Seq(S)
           /\ Len(SubSeq(s, a, b)) = IF a <= b THEN b - a + 1 ELSE 0
OBVIOUS

LEMMA RangeOfAppend ==
    ASSUME NEW S, NEW s \in Seq(S), NEW x \in S
    PROVE  ToSet(Append(s, x)) = ToSet(s) \cup {x}
<1>1. /\ Len(Append(s, x)) = Len(s) + 1
      /\ \A i \in 1 .. Len(s) : Append(s, x)[i] = s[i]
      /\ Append(s, x)[Len(s) + 1] = x
      /\ DOMAIN s = 1 .. Len(s) /\ DOMAIN Append(s, x) = 1 .. Len(s) + 1
  OBVIOUS
<1>2. ToSet(s) \cup {x} \subseteq ToSet(Append(s, x))
  BY <1>1, Len(s) \in Nat DEF ToSet
<1>3. ToSet(Append(s, x)) \subseteq ToSet(s) \cup {x}
  BY <1>1, Len(s) \in Nat DEF ToSet
<1>4. QED
  BY <1>2, <1>3

LEMMA RangeOfTail ==
    ASSUME NEW S, NEW s \in Seq(S), Len(s) > 0
    PROVE  ToSet(s) \subseteq {Head(s)} \cup ToSet(Tail(s))
<1> SUFFICES ASSUME NEW i \in DOMAIN s
             PROVE  s[i] \in {Head(s)} \cup ToSet(Tail(s))
  BY DEF ToSet
<1>1. CASE i = 1
  BY <1>1
<1>2. CASE i # 1
  <2>1. i - 1 \in DOMAIN Tail(s) /\ Tail(s)[i - 1] = s[i]
    BY <1>2
  <2>2. QED
    BY <2>1 DEF ToSet
<1>3. QED
  BY <1>1, <1>2

LEMMA RangeType ==
    ASSUME NEW S, NEW s \in Seq(S)
    PROVE  ToSet(s) \subseteq S
BY DEF ToSet

LEMMA AppendDistinct ==
    ASSUME NEW S, NEW s \in Seq(S), NEW x \in S, Distinct(s), x \notin ToSet(s)
    PROVE  Distinct(Append(s, x))
<1> DEFINE t == Append(s, x)
<1>1. /\ Len(t) = Len(s) + 1
      /\ \A i \in 1 .. Len(s) : t[i] = s[i] /\ s[i] # x
      /\ t[Len(s) + 1] = x
  BY DEF ToSet
<1> HIDE DEF t
<1> SUFFICES ASSUME NEW i \in 1 .. Len(t), NEW j \in 1 .. Len(t), t[i] = t[j]
             PROVE  i = j
  BY DEF Distinct, t
<1>2. CASE i \in 1 .. Len(s) /\ j \in 1 .. Len(s)
  BY <1>1, <1>2 DEF Distinct
<1>3. CASE ~(i \in 1 .. Len(s) /\ j \in 1 .. Len(s))
  BY <1>1, <1>3, Len(s) \in Nat
<1>4. QED
  BY <1>2, <1>3

LEMMA SubSeqDistinct ==
    ASSUME NEW S, NEW s \in Seq(S), NEW a \in Nat \ {0}, NEW b \in Nat,
           b <= Len(s), Distinct(s)
    PROVE  Distinct(SubSeq(s, a, b))
<1> DEFINE t == SubSeq(s, a, b)
<1>1. \A i \in 1 .. Len(t) : t[i] = s[a + i - 1] /\ a + i - 1 \in 1 .. Len(s)
  OBVIOUS
<1> HIDE DEF t
<1> SUFFICES ASSUME NEW i \in 1 .. Len(t), NEW j \in 1 .. Len(t), t[i] = t[j]
             PROVE  i = j
  BY DEF Distinct, t
<1>2. s[a + i - 1] = s[a + j - 1]
  BY <1>1
<1>3. a + i - 1 \in 1 .. Len(s) /\ a + j - 1 \in 1 .. Len(s)
  BY <1>1
<1>4. a + i - 1 = a + j - 1
  BY <1>2, <1>3 DEF Distinct
<1>5. i \in Int /\ j \in Int
  OBVIOUS
<1>6. QED
  BY <1>4, <1>5

LEMMA EmptyDistinct == Distinct(<<>>)
BY DEF Distinct

LEMMA OffsetsAreNat == Offsets \subseteq Nat
<1> SUFFICES ASSUME NEW r \in Requests, NEW p \in 0 .. Pages[r] - 1
             PROVE  p * Limit \in Nat
  BY DEF Offsets, OffsetsOf
<1>1. p \in Nat /\ Limit \in Nat
  OBVIOUS
<1>2. QED
  BY <1>1

LEMMA OffsetsOfRequest ==
    ASSUME NEW r \in Requests
    PROVE  OffsetsOf(r) \subseteq Offsets /\ 0 \in OffsetsOf(r)
<1>1. OffsetsOf(r) \subseteq Offsets
  BY DEF Offsets
<1>2. 0 \in 0 .. Pages[r] - 1 /\ 0 * Limit = 0
  OBVIOUS
<1>3. QED
  BY <1>1, <1>2 DEF OffsetsOf

LEMMA NewestFacts ==
    ASSUME metadata \in Seq(Markets)
    PROVE  Newest \in Seq(Markets) /\ ToSet(Newest) \subseteq Markets
<1>1. Newest \in Seq(Markets)
  BY FirstType, RecentRows \in Nat DEF Newest
<1>2. QED
  BY <1>1, RangeType

-----------------------------------------------------------------------------
(* The steps of a request *)

LEMMA RequestFacts ==
    ASSUME NEW q \in Request
    PROVE  /\ q.offset \in Nat /\ Limit \in Nat /\ Target(q) \in Nat
           /\ q.found \in Seq(Markets) /\ Len(q.found) \in Nat
           /\ q.page \in Seq(Markets) /\ Len(q.page) \in Nat
           /\ q.rows \in Seq(Ids) /\ Len(q.rows) \in Nat
<1>1. /\ q.offset \in Offsets /\ q.found \in Seq(Markets)
      /\ q.page \in Seq(Markets) /\ q.rows \in Seq(Ids)
  BY DEF Request
<1>2. Limit \in Nat
  OBVIOUS
<1>3. q.offset \in Nat
  BY <1>1, OffsetsAreNat
<1>4. Target(q) \in Nat
  BY <1>2, <1>3 DEF Target
<1>5. QED
  BY <1>1, <1>2, <1>3, <1>4

\* What is left for the page, and whether it is full.
LEMMA CutKeeps ==
    ASSUME NEW q \in Request, Distinct(q.found), metadata \in Seq(Markets)
    PROVE  Cut(q) \in Request /\ Typed(Cut(q)) /\ Good(Cut(q))
<1> DEFINE end == IF Len(q.found) < Target(q) THEN Len(q.found) ELSE Target(q)
           page == SubSeq(q.found, q.offset + 1, end)
           at == IF Short(page) THEN "fill" ELSE "store"
           visible == IF HasMore(page) THEN {} ELSE ToSet(Newest)
<1>1. /\ q.offset \in Nat /\ Limit \in Nat
      /\ q.found \in Seq(Markets) /\ Len(q.found) \in Nat
  BY RequestFacts
<1>2. end \in Nat /\ end <= Len(q.found) /\ end <= q.offset + Limit
  <2>1. Target(q) \in Nat /\ Target(q) = q.offset + Limit
    BY <1>1 DEF Target
  <2>2. QED
    BY <1>1, <2>1
<1> HIDE DEF end
<1>3. q.offset + 1 \in Nat \ {0}
  BY <1>1
<1>4. page \in Seq(Markets) /\ Len(page) \in Nat /\ Len(page) <= Limit
  <2>1. /\ page \in Seq(Markets)
        /\ Len(page) = IF q.offset + 1 <= end THEN end - (q.offset + 1) + 1 ELSE 0
    BY <1>1, <1>2, <1>3, SubSeqFacts
  <2> HIDE DEF page
  <2>2. QED
    BY <1>1, <1>2, <2>1
<1>5. Distinct(page)
  BY <1>1, <1>2, <1>3, SubSeqDistinct
<1>6. at \in {"fill", "store"} /\ <<>> \in Seq(Ids) /\ <<>> \in Seq(Markets)
  OBVIOUS
<1> HIDE DEF page, at
<1>6a. visible \in SUBSET Markets
  BY NewestFacts
<1>7. Cut(q) = [q EXCEPT !.page = page, !.rows = <<>>, !.found = <<>>, !.at = at,
                         !.visible = visible]
  BY DEF Cut, page, end, at
<1> HIDE DEF visible
<1>8. /\ Cut(q) \in Request
      /\ Cut(q).page = page /\ Cut(q).found = <<>> /\ Cut(q).at = at
  BY <1>4, <1>6, <1>6a, <1>7 DEF Request
<1>9. /\ at = "fill" => Len(page) < Limit
      /\ at = "store" => HasMore(page)
  BY <1>1, <1>4 DEF at, Short, HasMore
<1>10. QED
  BY <1>4, <1>5, <1>6, <1>8, <1>9, EmptyDistinct DEF Typed, Good

LEMMA RankedOnKeeps ==
    ASSUME NEW q \in Request, q.at = "ranked", Distinct(q.found), Distinct(q.page),
           Len(q.page) <= Limit, metadata \in Seq(Markets)
    PROVE  RankedOn(q) \in Request /\ Typed(RankedOn(q)) /\ Good(RankedOn(q))
<1>1. CASE q.rows = <<>> \/ Len(q.found) >= Target(q)
  BY <1>1, CutKeeps DEF RankedOn
<1>2. CASE ~(q.rows = <<>> \/ Len(q.found) >= Target(q))
  <2>1. RankedOn(q) = q
    BY <1>2 DEF RankedOn
  <2>2. /\ q.offset \in Nat /\ q.found \in Seq(Markets) /\ q.rows \in Seq(Ids)
        /\ Len(q.found) \in Nat
    BY RequestFacts
  <2>3. Target(q) \in Nat
    BY RequestFacts
  <2>4. Len(q.found) < Target(q)
    BY <1>2, <2>2, <2>3
  <2>5. Len(q.rows) > 0
    BY <1>2, <2>2
  <2>6. QED
    BY <2>1, <2>4, <2>5 DEF Typed, Good
<1>3. QED
  BY <1>1, <1>2

LEMMA FilledOnKeeps ==
    ASSUME NEW q \in Request, q.at = "recent", q.rows \in Seq(Markets),
           Distinct(q.found), Distinct(q.page), Len(q.page) <= Limit,
           q.visible \subseteq ToSet(q.page) \cup ToSet(q.rows)
    PROVE  FilledOn(q) \in Request /\ Typed(FilledOn(q)) /\ Good(FilledOn(q))
<1>1. q.page \in Seq(Markets) /\ Len(q.page) \in Nat
  BY RequestFacts
<1>2. <<>> \in Seq(Ids) /\ {} \in SUBSET Markets
  OBVIOUS
<1>3. CASE Full(q)
  <2>1. FilledOn(q) = [q EXCEPT !.rows = <<>>, !.at = "store", !.visible = {}]
    BY <1>3 DEF FilledOn
  <2>2. /\ FilledOn(q) \in Request
        /\ FilledOn(q).at = "store" /\ FilledOn(q).page = q.page
        /\ FilledOn(q).found = q.found /\ FilledOn(q).visible = {}
    BY <1>2, <2>1 DEF Request
  <2>3. QED
    BY <2>2 DEF Typed, Good
<1>4. CASE ~Full(q) /\ q.rows = <<>>
  <2>1. FilledOn(q) = [q EXCEPT !.at = "store"]
    BY <1>4 DEF FilledOn
  <2>2. /\ FilledOn(q) \in Request
        /\ FilledOn(q).at = "store" /\ FilledOn(q).page = q.page
        /\ FilledOn(q).found = q.found /\ FilledOn(q).visible = q.visible
    BY <2>1 DEF Request
  <2>3. q.visible \subseteq ToSet(q.page)
    BY <1>4 DEF ToSet
  <2>4. QED
    BY <2>2, <2>3 DEF Typed, Good
<1>5. CASE ~Full(q) /\ q.rows # <<>>
  <2>1. FilledOn(q) = q /\ Len(q.page) < Limit
    BY <1>1, <1>5 DEF FilledOn, Full
  <2>2. Len(q.rows) > 0
    BY <1>5
  <2>3. QED
    BY <2>1, <2>2 DEF Typed, Good
<1>6. QED
  BY <1>3, <1>4, <1>5

\* A request whose list ends where it is.
LEMMA EndShortKeeps ==
    ASSUME NEW q \in Request, Distinct(q.found), Distinct(q.page),
           Len(q.page) <= Limit
    PROVE  EndShort(q) \in Request /\ Typed(EndShort(q)) /\ Good(EndShort(q))
<1>1. <<>> \in Seq(Ids) /\ {} \in SUBSET Markets
  OBVIOUS
<1>2. /\ EndShort(q) \in Request
      /\ EndShort(q).at = "store" /\ EndShort(q).page = q.page
      /\ EndShort(q).found = q.found /\ EndShort(q).visible = {}
  BY <1>1 DEF EndShort, Request
<1>3. QED
  BY <1>2 DEF Typed, Good

-----------------------------------------------------------------------------
(* The invariant *)

IInv == TypeOK /\ ListInv

\* A step of one request that leaves it well formed.
LEMMA RequestStep ==
    ASSUME IInv, NEW r \in Requests, NEW q \in Request, Typed(q), Good(q),
           req' = [req EXCEPT ![r] = q], UNCHANGED tables,
           cache' \in [Offsets -> [page : Seq(Markets), age : 0 .. TTL]],
           \A o \in Offsets : /\ Len(cache'[o].page) <= Limit
                             /\ Distinct(cache'[o].page)
    PROVE  IInv'
<1>1. req' \in [Requests -> Request]
  BY DEF IInv, TypeOK
<1>2. \A s \in Requests : Typed(req'[s]) /\ Good(req'[s])
  BY DEF IInv, TypeOK, ListInv
<1>3. TypeOK'
  BY <1>1, <1>2 DEF IInv, TypeOK, tables, Typed, Target
<1>4. ListInv'
  BY <1>2 DEF ListInv, Good, HasMore
<1>5. QED
  BY <1>3, <1>4 DEF IInv

LEMMA Initially == Init => IInv
<1> SUFFICES ASSUME Init PROVE IInv
  OBVIOUS
<1>1. /\ \A r \in Requests : Idle(0, <<>>) \in Request
      /\ Idle(0, <<>>).at = "idle"
      /\ Idle(0, <<>>).page = <<>> /\ Idle(0, <<>>).found = <<>>
  BY OffsetsOfRequest DEF Idle, Request
<1>2. Typed(Idle(0, <<>>)) /\ Good(Idle(0, <<>>))
  BY <1>1, EmptyDistinct DEF Typed, Good
<1>3. NoPage \in [page : Seq(Markets), age : 0 .. TTL] /\ NoPage.page = <<>>
  BY DEF NoPage
<1>4. activity \in Seq(Ids) /\ metadata \in Seq(Markets) /\ Len(metadata) <= MaxRows
  BY DEF Init
<1>5. /\ cache \in [Offsets -> [page : Seq(Markets), age : 0 .. TTL]]
      /\ \A o \in Offsets : cache[o].page = <<>>
  BY <1>3 DEF Init
<1>6. /\ req \in [Requests -> Request]
      /\ \A r \in Requests : Typed(req[r]) /\ Good(req[r])
  BY <1>1, <1>2 DEF Init
<1>7. TypeOK
  BY <1>4, <1>5, <1>6, Len(<<>>) = 0 DEF TypeOK, Init
<1>8. ListInv
  BY <1>5, <1>6, EmptyDistinct DEF ListInv
<1>9. QED
  BY <1>7, <1>8 DEF IInv

LEMMA MetadataInv == ASSUME IInv PROVE metadata \in Seq(Markets)
BY DEF IInv, TypeOK

\* What the invariant says of one request.
LEMMA RequestInv ==
    ASSUME IInv, NEW r \in Requests
    PROVE  req[r] \in Request /\ Typed(req[r]) /\ Good(req[r])
BY DEF IInv, TypeOK, ListInv

LEMMA CacheInv ==
    ASSUME IInv
    PROVE  /\ cache \in [Offsets -> [page : Seq(Markets), age : 0 .. TTL]]
           /\ \A o \in Offsets : /\ Len(cache[o].page) <= Limit
                                /\ Distinct(cache[o].page)
BY DEF IInv, TypeOK, ListInv

LEMMA TablesStep ==
    ASSUME IInv,
           \/ \E id \in Ids : Trade(id)
           \/ \E m \in Markets : Persist(m)
           \/ \E c \in Conditions : MapCondition(c)
    PROVE  IInv'
<1>1. UNCHANGED <<cache, req>>
  BY DEF Trade, Persist, MapCondition
<1>2. /\ activity \in Seq(Ids) /\ known \subseteq Conditions
      /\ metadata \in Seq(Markets) /\ Len(metadata) <= MaxRows
  BY DEF IInv, TypeOK
<1>3. activity' \in Seq(Ids)
  <2>1. ASSUME NEW id \in Ids, Trade(id) PROVE activity' \in Seq(Ids)
    <3>1. CASE activity' = <<id>> \o activity
      BY <1>2, <3>1
    <3>2. ASSUME NEW i \in 1 .. Len(activity),
                 activity' = <<id>> \o RemoveAt(activity, i)
          PROVE  activity' \in Seq(Ids)
      <4>1. /\ SubSeq(activity, 1, i - 1) \in Seq(Ids)
            /\ SubSeq(activity, i + 1, Len(activity)) \in Seq(Ids)
        BY <1>2
      <4>2. QED
        BY <3>2, <4>1 DEF RemoveAt
    <3>3. QED
      BY <2>1, <3>1, <3>2 DEF Trade
  <2>2. QED
    BY <1>2, <2>1 DEF Persist, MapCondition
<1>4. metadata' \in Seq(Markets) /\ Len(metadata') <= MaxRows
  <2>1. ASSUME NEW m \in Markets, Persist(m)
        PROVE  metadata' \in Seq(Markets) /\ Len(metadata') <= MaxRows
    <3>1. /\ <<m>> \o metadata \in Seq(Markets)
          /\ Len(<<m>> \o metadata) = 1 + Len(metadata)
      BY <1>2
    <3>2. QED
      BY <1>2, <2>1, <3>1 DEF Persist
  <2>2. QED
    BY <1>2, <2>1 DEF Trade, MapCondition
<1>5. known' \subseteq Conditions
  <2>1. ASSUME NEW c \in Conditions, MapCondition(c)
        PROVE  known' \subseteq Conditions
    BY <2>1, <1>2 DEF MapCondition
  <2>2. QED
    BY <1>2, <2>1 DEF Trade, Persist
<1>6. TypeOK'
  BY <1>1, <1>3, <1>4, <1>5 DEF IInv, TypeOK, Typed, Target
<1>7. ListInv'
  BY <1>1 DEF IInv, ListInv, Good, HasMore
<1>8. QED
  BY <1>6, <1>7 DEF IInv

LEMMA TickStep == ASSUME IInv, Tick PROVE IInv'
<1>1. NoPage \in [page : Seq(Markets), age : 0 .. TTL] /\ NoPage.page = <<>>
  BY DEF NoPage
<1>2. ASSUME NEW o \in Offsets
      PROVE  /\ cache'[o] \in [page : Seq(Markets), age : 0 .. TTL]
             /\ cache'[o].page \in {cache[o].page, <<>>}
  <2>1. cache[o] \in [page : Seq(Markets), age : 0 .. TTL]
    BY CacheInv
  <2>2. CASE cache[o].age + 1 < TTL
    <3>1. cache'[o] = [cache[o] EXCEPT !.age = @ + 1]
      BY <2>2 DEF Tick, Aged
    <3>2. cache[o].age + 1 \in 0 .. TTL
      BY <2>1, <2>2
    <3>3. QED
      BY <2>1, <3>1, <3>2
  <2>3. CASE ~(cache[o].age + 1 < TTL)
    BY <1>1, <2>3 DEF Tick, Aged
  <2>4. QED
    BY <2>2, <2>3
<1>3. cache' \in [Offsets -> [page : Seq(Markets), age : 0 .. TTL]]
  BY <1>2 DEF Tick
<1>4. \A o \in Offsets : Len(cache'[o].page) <= Limit /\ Distinct(cache'[o].page)
  BY <1>2, CacheInv, EmptyDistinct, Len(<<>>) = 0
<1>5. UNCHANGED <<tables, req>>
  BY DEF Tick
<1>6. TypeOK'
  BY <1>3, <1>4, <1>5 DEF IInv, TypeOK, tables, Typed, Target
<1>7. ListInv'
  BY <1>4, <1>5 DEF IInv, ListInv, Good, HasMore
<1>8. QED
  BY <1>6, <1>7 DEF IInv

LEMMA AskStep ==
    ASSUME IInv, NEW r \in Requests, NEW o \in Offsets, Hit(r, o) \/ Miss(r, o)
    PROVE  IInv'
<1>1. CASE Hit(r, o)
  <2> DEFINE q == Idle(o, cache[o].page)
  <2>1. /\ q \in Request /\ q.at = "idle"
        /\ q.page = cache[o].page /\ q.found = <<>>
    BY CacheInv DEF Idle, Request
  <2>2. Typed(q) /\ Good(q)
    BY <2>1, CacheInv, EmptyDistinct DEF Typed, Good
  <2>3. cache' = cache /\ req' = [req EXCEPT ![r] = q] /\ UNCHANGED tables
    BY <1>1 DEF Hit
  <2> HIDE DEF q
  <2>4. QED
    BY <2>1, <2>2, <2>3, CacheInv, RequestStep
<1>2. CASE Miss(r, o)
  <2> DEFINE q == [Idle(o, <<>>) EXCEPT !.at = "rank"]
  <2>1. /\ q \in Request /\ q.at = "rank"
        /\ q.page = <<>> /\ q.found = <<>>
    <3>1. /\ Idle(o, <<>>) \in Request
          /\ Idle(o, <<>>).page = <<>> /\ Idle(o, <<>>).found = <<>>
      BY DEF Idle, Request
    <3>2. QED
      BY <3>1 DEF Request
  <2>2. cache' = cache /\ req' = [req EXCEPT ![r] = q] /\ UNCHANGED tables
    BY <1>2 DEF Miss
  <2> HIDE DEF q
  <2>3. Typed(q) /\ Good(q)
    BY <2>1, EmptyDistinct DEF Typed, Good
  <2>4. QED
    BY <2>1, <2>2, <2>3, CacheInv, RequestStep
<1>3. QED
  BY <1>1, <1>2

LEMMA RankStep ==
    ASSUME IInv, NEW r \in Requests, Rank(r) \/ RankFails(r) \/ RankedBreaks(r)
    PROVE  IInv'
<1>1. CASE Rank(r)
  <2> DEFINE q == [req[r] EXCEPT !.at = "ranked", !.rows = First(RankRows, activity)]
  <2>1. First(RankRows, activity) \in Seq(Ids)
    <3>1. activity \in Seq(Ids) /\ RankRows \in Nat
      BY DEF IInv, TypeOK
    <3>2. QED
      BY <3>1, FirstType
  <2>2. /\ q \in Request /\ q.at = "ranked"
        /\ q.page = req[r].page /\ q.found = req[r].found
    BY <2>1, RequestInv DEF Request
  <2>3. req' = [req EXCEPT ![r] = RankedOn(q)] /\ UNCHANGED <<tables, cache>>
    BY <1>1 DEF Rank
  <2> HIDE DEF q
  <2>4. Distinct(q.found) /\ Distinct(q.page) /\ Len(q.page) <= Limit
    BY <2>2, RequestInv DEF Typed, Good
  <2>5. RankedOn(q) \in Request /\ Typed(RankedOn(q)) /\ Good(RankedOn(q))
    BY <2>2, <2>4, MetadataInv, RankedOnKeeps
  <2>6. QED
    BY <2>3, <2>5, CacheInv, RequestStep
<1>2. CASE RankFails(r) \/ RankedBreaks(r)
  <2>1. req' = [req EXCEPT ![r] = Cut(req[r])] /\ UNCHANGED <<tables, cache>>
    BY <1>2 DEF RankFails, RankedBreaks
  <2>2. Cut(req[r]) \in Request /\ Typed(Cut(req[r])) /\ Good(Cut(req[r]))
    BY RequestInv, MetadataInv, CutKeeps DEF Good
  <2>3. QED
    BY <2>1, <2>2, CacheInv, RequestStep
<1>3. QED
  BY <1>1, <1>2

LEMMA RankedStep ==
    ASSUME IInv, NEW r \in Requests, TakeRanked(r) \/ SkipRanked(r)
    PROVE  IInv'
<1>1. /\ req[r].at = "ranked" /\ UNCHANGED <<tables, cache>>
  BY DEF TakeRanked, SkipRanked
<1>2. /\ req[r] \in Request /\ Len(req[r].rows) > 0 /\ Len(req[r].page) <= Limit
      /\ Distinct(req[r].found) /\ Distinct(req[r].page)
  BY <1>1, RequestInv DEF Typed, Good
<1>3. Tail(req[r].rows) \in Seq(Ids) /\ Head(req[r].rows) \in Ids
  BY <1>2, RequestFacts
<1>4. CASE TakeRanked(r)
  <2> DEFINE id == Head(req[r].rows)
             found == Append(req[r].found, Canonical(id))
             q == [req[r] EXCEPT !.rows = Tail(@), !.found = found]
  <2>0. req' = [req EXCEPT ![r] = RankedOn(q)]
    BY <1>4 DEF TakeRanked
  <2>1. /\ Canonical(id) \in ToSet(metadata)
        /\ Canonical(id) \notin ToSet(req[r].found)
    BY <1>4 DEF TakeRanked, Seen
  <2>2. Canonical(id) \in Markets
    BY <2>1, RangeType DEF IInv, TypeOK
  <2>3. found \in Seq(Markets) /\ Distinct(found)
    BY <1>2, <2>1, <2>2, AppendDistinct, RequestFacts
  <2> HIDE DEF found
  <2>4. /\ q \in Request /\ q.at = "ranked"
        /\ q.page = req[r].page /\ q.found = found
    BY <1>1, <1>2, <1>3, <2>3 DEF Request
  <2> HIDE DEF q
  <2>5. RankedOn(q) \in Request /\ Typed(RankedOn(q)) /\ Good(RankedOn(q))
    BY <1>2, <2>3, <2>4, MetadataInv, RankedOnKeeps
  <2>6. QED
    BY <1>1, <2>0, <2>5, CacheInv, RequestStep
<1>5. CASE SkipRanked(r)
  <2> DEFINE q == [req[r] EXCEPT !.rows = Tail(@)]
  <2>1. req' = [req EXCEPT ![r] = RankedOn(q)]
    BY <1>5 DEF SkipRanked
  <2>2. /\ q \in Request /\ q.at = "ranked"
        /\ q.page = req[r].page /\ q.found = req[r].found
    BY <1>1, <1>2, <1>3 DEF Request
  <2> HIDE DEF q
  <2>3. RankedOn(q) \in Request /\ Typed(RankedOn(q)) /\ Good(RankedOn(q))
    BY <1>2, <2>2, MetadataInv, RankedOnKeeps
  <2>4. QED
    BY <1>1, <2>1, <2>3, CacheInv, RequestStep
<1>6. QED
  BY <1>4, <1>5

LEMMA FillStep ==
    ASSUME IInv, NEW r \in Requests, Fill(r) \/ FillFails(r)
    PROVE  IInv'
<1>1. /\ req[r] \in Request /\ req[r].at = "fill" /\ Len(req[r].page) < Limit
      /\ Distinct(req[r].found) /\ Distinct(req[r].page)
      /\ UNCHANGED <<tables, cache>>
  BY RequestInv DEF Fill, FillFails, Typed, Good
<1>2. CASE Fill(r)
  <2> DEFINE q == [req[r] EXCEPT !.at = "recent", !.rows = Newest,
                                 !.visible = @ \cap ToSet(Newest)]
  <2>1. Newest \in Seq(Markets)
    BY MetadataInv, NewestFacts
  <2>2. Newest \in Seq(Ids)
    BY <2>1 DEF Ids
  <2>3. req' = [req EXCEPT ![r] = FilledOn(q)]
    BY <1>2 DEF Fill
  <2>4. /\ q \in Request /\ q.at = "recent" /\ q.rows = Newest
        /\ q.page = req[r].page /\ q.found = req[r].found
        /\ q.visible \subseteq ToSet(Newest)
    BY <1>1, <2>2 DEF Request
  <2> HIDE DEF q
  <2>5. q.visible \subseteq ToSet(q.page) \cup ToSet(q.rows)
    BY <2>4
  <2>6. Len(q.page) <= Limit
    BY <1>1, <2>4, RequestFacts
  <2>7. FilledOn(q) \in Request /\ Typed(FilledOn(q)) /\ Good(FilledOn(q))
    BY <1>1, <2>1, <2>4, <2>5, <2>6, FilledOnKeeps
  <2>8. QED
    BY <1>1, <2>3, <2>7, CacheInv, RequestStep
<1>3. CASE FillFails(r)
  <2>1. req' = [req EXCEPT ![r] = EndShort(req[r])]
    BY <1>3 DEF FillFails
  <2>2. Len(req[r].page) <= Limit
    BY <1>1, RequestFacts
  <2>3. QED
    BY <1>1, <2>1, <2>2, EndShortKeeps, CacheInv, RequestStep
<1>4. QED
  BY <1>2, <1>3

LEMMA TakeStep ==
    ASSUME IInv, NEW r \in Requests, TakeRecent(r)
    PROVE  IInv'
<1> DEFINE m == Head(req[r].rows)
           page == IF m \in ToSet(req[r].page) THEN req[r].page
                   ELSE Append(req[r].page, m)
           q == [req[r] EXCEPT !.rows = Tail(@), !.page = page]
<1>1. req' = [req EXCEPT ![r] = FilledOn(q)]
  BY DEF TakeRecent
<1>2. /\ req[r] \in Request /\ req[r].at = "recent" /\ Len(req[r].page) < Limit
      /\ req[r].rows \in Seq(Markets) /\ Len(req[r].rows) > 0
      /\ Distinct(req[r].found) /\ Distinct(req[r].page)
      /\ req[r].visible \subseteq ToSet(req[r].page) \cup ToSet(req[r].rows)
      /\ UNCHANGED <<tables, cache>>
  BY RequestInv DEF TakeRecent, Typed, Good
<1>3. /\ m \in Markets /\ Tail(req[r].rows) \in Seq(Markets)
      /\ Tail(req[r].rows) \in Seq(Ids)
  BY <1>2, RequestFacts
<1>4. /\ page \in Seq(Markets) /\ Distinct(page) /\ Len(page) <= Limit
      /\ ToSet(page) = ToSet(req[r].page) \cup {m}
  <2>1. req[r].page \in Seq(Markets) /\ Len(req[r].page) \in Nat /\ Limit \in Nat
    BY <1>2, RequestFacts
  <2>2. CASE m \in ToSet(req[r].page)
    BY <1>2, <2>1, <2>2
  <2>3. CASE m \notin ToSet(req[r].page)
    <3>1. /\ page = Append(req[r].page, m)
          /\ Append(req[r].page, m) \in Seq(Markets)
          /\ Len(Append(req[r].page, m)) = Len(req[r].page) + 1
      BY <1>3, <2>1, <2>3
    <3>2. Distinct(Append(req[r].page, m))
      BY <1>2, <1>3, <2>1, <2>3, AppendDistinct
    <3>3. ToSet(Append(req[r].page, m)) = ToSet(req[r].page) \cup {m}
      BY <1>3, <2>1, RangeOfAppend
    <3> HIDE DEF page
    <3>4. Len(page) <= Limit
      BY <1>2, <2>1, <3>1
    <3>5. QED
      BY <3>1, <3>2, <3>3, <3>4
  <2>4. QED
    BY <2>2, <2>3
<1>5. req[r].visible \subseteq ToSet(page) \cup ToSet(Tail(req[r].rows))
  <2>1. ToSet(req[r].rows) \subseteq {m} \cup ToSet(Tail(req[r].rows))
    BY <1>2, RangeOfTail
  <2> HIDE DEF page
  <2>2. QED
    BY <1>2, <1>4, <2>1
<1> HIDE DEF page
<1>6. /\ q \in Request /\ q.at = "recent" /\ q.rows = Tail(req[r].rows)
      /\ q.page = page /\ q.found = req[r].found /\ q.visible = req[r].visible
  BY <1>2, <1>3, <1>4 DEF Request
<1> HIDE DEF q
<1>7. FilledOn(q) \in Request /\ Typed(FilledOn(q)) /\ Good(FilledOn(q))
  BY <1>2, <1>3, <1>4, <1>5, <1>6, FilledOnKeeps
<1>8. QED
  BY <1>1, <1>2, <1>7, CacheInv, RequestStep

LEMMA SkipStep ==
    ASSUME IInv, NEW r \in Requests, SkipRecent(r)
    PROVE  IInv'
<1> DEFINE m == Head(req[r].rows)
           rest == Tail(req[r].rows)
           visible == IF m \in ToSet(rest) THEN req[r].visible
                      ELSE req[r].visible \ {m}
           q == [req[r] EXCEPT !.rows = Tail(@), !.visible = visible]
<1>1. req' = [req EXCEPT ![r] = FilledOn(q)]
  BY DEF SkipRecent
<1>2. /\ req[r] \in Request /\ req[r].at = "recent" /\ Len(req[r].page) < Limit
      /\ req[r].rows \in Seq(Markets) /\ Len(req[r].rows) > 0
      /\ Distinct(req[r].found) /\ Distinct(req[r].page)
      /\ req[r].visible \subseteq ToSet(req[r].page) \cup ToSet(req[r].rows)
      /\ UNCHANGED <<tables, cache>>
  BY RequestInv DEF SkipRecent, Typed, Good
<1>3. rest \in Seq(Markets) /\ rest \in Seq(Ids)
  BY <1>2, RequestFacts
<1>4. visible \in SUBSET Markets
  BY <1>2 DEF Request
<1>5. visible \subseteq ToSet(req[r].page) \cup ToSet(rest)
  <2>1. ToSet(req[r].rows) \subseteq {m} \cup ToSet(rest)
    BY <1>2, RangeOfTail
  <2> HIDE DEF m, rest
  <2>2. QED
    BY <1>2, <2>1
<1>6. Len(req[r].page) <= Limit
  BY <1>2, RequestFacts
<1>7. q = [req[r] EXCEPT !.rows = rest, !.visible = visible]
  OBVIOUS
<1> HIDE DEF q, visible, rest
<1>8. /\ q \in Request /\ q.at = "recent" /\ q.rows = rest
      /\ q.page = req[r].page /\ q.found = req[r].found /\ q.visible = visible
  BY <1>2, <1>3, <1>4, <1>7 DEF Request
<1>9. FilledOn(q) \in Request /\ Typed(FilledOn(q)) /\ Good(FilledOn(q))
  BY <1>2, <1>3, <1>5, <1>6, <1>8, FilledOnKeeps
<1>10. QED
  BY <1>1, <1>2, <1>9, CacheInv, RequestStep

LEMMA BreakStep ==
    ASSUME IInv, NEW r \in Requests, RecentBreaks(r)
    PROVE  IInv'
<1>1. /\ req' = [req EXCEPT ![r] = EndShort(req[r])]
      /\ UNCHANGED <<tables, cache>>
  BY DEF RecentBreaks
<1>2. /\ req[r] \in Request /\ Len(req[r].page) <= Limit
      /\ Distinct(req[r].found) /\ Distinct(req[r].page)
  BY RequestInv DEF Typed, Good
<1>3. QED
  BY <1>1, <1>2, EndShortKeeps, CacheInv, RequestStep

LEMMA StoreStep ==
    ASSUME IInv, NEW r \in Requests, Store(r)
    PROVE  IInv'
<1> DEFINE q == Idle(req[r].offset, req[r].page)
           entry == [page |-> req[r].page, age |-> 0]
<1>1. /\ req' = [req EXCEPT ![r] = q] /\ UNCHANGED tables
      /\ cache' \in {cache, [cache EXCEPT ![req[r].offset] = entry]}
  BY DEF Store
<1>2. /\ req[r] \in Request /\ Len(req[r].page) <= Limit
      /\ Distinct(req[r].page)
      /\ req[r].offset \in Offsets /\ req[r].page \in Seq(Markets)
  BY RequestInv DEF Typed, Good, Request
<1>3. /\ q \in Request /\ q.at = "idle"
      /\ q.page = req[r].page /\ q.found = <<>>
  BY <1>2 DEF Idle, Request
<1>4. Typed(q) /\ Good(q)
  <2> HIDE DEF q
  <2>1. QED
    BY <1>2, <1>3, EmptyDistinct DEF Typed, Good
<1>5. /\ entry \in [page : Seq(Markets), age : 0 .. TTL]
      /\ entry.page = req[r].page
  BY <1>2
<1> HIDE DEF q, entry
<1>6. /\ cache' \in [Offsets -> [page : Seq(Markets), age : 0 .. TTL]]
      /\ \A o \in Offsets : /\ Len(cache'[o].page) <= Limit
                           /\ Distinct(cache'[o].page)
  BY <1>1, <1>2, <1>5, CacheInv
<1>7. QED
  BY <1>1, <1>3, <1>4, <1>6, RequestStep

LEMMA Stutter == ASSUME IInv, UNCHANGED vars PROVE IInv'
BY DEF IInv, TypeOK, ListInv, Typed, Good, Target, HasMore, vars, tables

LEMMA Invariant == Spec => []IInv
<1>1. ASSUME IInv, [Next]_vars PROVE IInv'
  <2>1. CASE UNCHANGED vars
    BY <1>1, <2>1, Stutter
  <2>2. CASE Tick
    BY <1>1, <2>2, TickStep
  <2>3. ASSUME NEW r \in Requests, Ask(r) \/ Handle(r) PROVE IInv'
    <3>1. ASSUME NEW o \in OffsetsOf(r), Hit(r, o) \/ Miss(r, o) PROVE IInv'
      BY <1>1, <3>1, AskStep, OffsetsOfRequest
    <3>2. QED
      BY <1>1, <2>3, <3>1, RankStep, RankedStep, FillStep, TakeStep, SkipStep,
         BreakStep, StoreStep DEF Ask, Handle
  <2>4. QED
    BY <1>1, <2>1, <2>2, <2>3, TablesStep DEF Next
<1>2. QED
  BY <1>1, Initially, PTL DEF Spec

(***************************************************************************)
(* Types: no page is longer than asked for, no loop runs past its rows.    *)
(***************************************************************************)
THEOREM TypeCorrect == Spec => []TypeOK
<1>1. IInv => TypeOK
  BY DEF IInv
<1>2. QED
  BY <1>1, Invariant, PTL

(***************************************************************************)
(* No page that is sent, cached or under way names a market twice.         *)
(***************************************************************************)
THEOREM NoMarketTwice == Spec => []NoTwiceOnPage
<1>1. IInv => NoTwiceOnPage
  BY DEF IInv, ListInv, Good, NoTwiceOnPage
<1>2. QED
  BY <1>1, Invariant, PTL

(***************************************************************************)
(* A page that ends the list holds every market that the metadata query    *)
(* could see from the end of the first query on; unless the metadata query *)
(* failed or its rows broke off, and but for a market none of whose rows   *)
(* could be read.  Nothing that fails before that query leaves one out.    *)
(***************************************************************************)
THEOREM LastPageIsComplete == Spec => []EndMeansAll
<1>1. IInv => EndMeansAll
  BY DEF IInv, ListInv, Good, EndMeansAll
<1>2. QED
  BY <1>1, Invariant, PTL
=============================================================================
