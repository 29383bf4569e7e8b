--------------------------- MODULE OrderbookEngine ---------------------------
(***************************************************************************)
(* The order book engine of the processor, for one market with its tokens  *)
(* (the YES and the NO side).  One goroutine reads raw exchange events and *)
(* keeps a book per (market id, token) in memory.  It publishes each       *)
(* change and stores it in Redis, under the market id alone.               *)
(*                                                                         *)
(* A market has one id, but when Redis does not answer the lookup of       *)
(* resolveCanonicalMarketID the condition id of the event is used instead. *)
(* Errors of Publish and Set are ignored by the code.  A message with      *)
(* several price changes is a sequence of events of kind "change", for     *)
(* nothing is kept from one to the next.  A book keeps the levels by the   *)
(* price as it is spelled and sorts them by its value.  Values and sizes   *)
(* are integers; 0 is the absent best price, and the size "0" or "0.0"     *)
(* (any other spelling of zero is a size like others).                     *)
(***************************************************************************)
EXTENDS Naturals, Sequences, FiniteSets

CONSTANTS
    Ids,            \* ids a market goes by: its own, its condition id
    Tokens,
    Feed,           \* set of raw exchange events
    Depth,          \* levels in an update (10)
    None,           \* no view
    MaxRaw,         \* bound: raw events
    MaxStarts       \* bound: starts of the service

\* A price as it is spelled: "0.5" and "0.50" are of one value.
Price == [value : Nat \ {0}, zeros : Nat]
Level == [price : Price, size : Nat]
Event == [kind : {"book", "delta", "change"}, token : Tokens,
          bids : Seq(Level), asks : Seq(Level)]

\* What a feed is: a change names a best bid, a best ask, or both.  Assumed
\* where the engine is put together with its readers (Processor).
IsFeed ==
    /\ Feed \subseteq Event
    /\ \A e \in Feed : e.kind = "change" =>
          Len(e.bids) < 2 /\ Len(e.asks) < 2 /\ Len(e.bids \o e.asks) > 0
    /\ Depth \in Nat \ {0} /\ MaxRaw \in Nat

VARIABLES
    obs,            \* id, token -> book in memory
    orderbookKey,   \* Redis predsx:orderbook:<id>
    topic,          \* orderbook.updates: what was published, in that order
    raws, starts,   \* counters for the bounds
    seen,           \* history: id, token -> events handled since the start
    shown           \* history: id -> those events when its key was stored

vars == <<obs, orderbookKey, topic, raws, starts, seen, shown>>

NoBook == [bids |-> <<>>, asks |-> <<>>]
NoBooks == [i \in Ids |-> [t \in Tokens |-> NoBook]]
NothingSeen == [i \in Ids |-> [t \in Tokens |-> <<>>]]

Init ==
    /\ obs = NoBooks /\ seen = NothingSeen
    /\ orderbookKey = [i \in Ids |-> None]
    /\ shown = [i \in Ids |-> <<>>]
    /\ topic = <<>>
    /\ raws = 0 /\ starts = 1

-----------------------------------------------------------------------------
(* The engine.  A name ending in Faulty is a mistake the code does not make, *)
(* checked to break a property below.                                        *)

\* A side of a book is a function from prices, as they are spelled, to sizes.

\* A level of size zero at a price that is not in the book is added.
WithLevelFaulty(side, l) ==
    LET prices == IF l.size = 0 /\ l.price \in DOMAIN side
                  THEN DOMAIN side \ {l.price} ELSE DOMAIN side \cup {l.price}
    IN [p \in prices |-> IF p = l.price THEN l.size ELSE side[p]]

\* A level of size "0" removes its price; any other sets it.
WithLevel(side, l) ==
    LET prices == IF l.size = 0 THEN DOMAIN side \ {l.price}
                                ELSE DOMAIN side \cup {l.price}
    IN [p \in prices |-> IF p = l.price THEN l.size ELSE side[p]]

Applied(side, levels) ==
    LET after[n \in 0 .. Len(levels)] ==
          IF n = 0 THEN side ELSE WithLevel(after[n - 1], levels[n])
    IN after[Len(levels)]

\* Bids are best when high, asks when low.
Better(desc, p, q) == IF desc THEN p.value > q.value ELSE p.value < q.value

\* What sort.Slice may make of the prices of a side, which come out of a map:
\* none comes before a better one, and spellings of one value in any order.
Sorted(side, desc) ==
    {o \in [1 .. Cardinality(DOMAIN side) -> DOMAIN side] :
        \A k \in DOMAIN o : \A n \in 1 .. k - 1 :
           o[n] # o[k] /\ ~Better(desc, o[k], o[n])}

\* getTopLevels: the first Depth levels in that order.
TopLevels(side, order) ==
    [k \in 1 .. (IF Len(order) > Depth THEN Depth ELSE Len(order)) |->
       [price |-> order[k], size |-> side[order[k]]]]

\* OrderbookUpdate; of the best prices their readers take the value.
Update(t, bids, asks) ==
    [token |-> t, bids |-> bids, asks |-> asks,
     bestBid |-> IF Len(bids) = 0 THEN 0 ELSE bids[1].price.value,
     bestAsk |-> IF Len(asks) = 0 THEN 0 ELSE asks[1].price.value]

\* An update for market id i is published and stored; either may fail.
Emit(i, u) ==
    /\ topic' \in {topic, Append(topic, [id |-> i, update |-> u])}
    /\ \/ /\ orderbookKey' = [orderbookKey EXCEPT ![i] = u]
          /\ shown' = [shown EXCEPT ![i] = seen'[i][u.token]]
       \/ UNCHANGED <<orderbookKey, shown>>

\* A raw event is fetched; resolveCanonicalMarketID gives market id i.
Fetched(e, i) ==
    /\ raws < MaxRaw /\ raws' = raws + 1
    /\ seen' = [seen EXCEPT ![i][e.token] = Append(@, e)]
    /\ UNCHANGED starts

\* A whole book does not clear the old one.
HandleLevelsFaulty(e, i) ==
    /\ e.kind \in {"book", "delta"}
    /\ Fetched(e, i)
    /\ LET old == obs[i][e.token]
           ob == [bids |-> Applied(old.bids, e.bids),
                  asks |-> Applied(old.asks, e.asks)]
       IN /\ obs' = [obs EXCEPT ![i][e.token] = ob]
          /\ \E b \in Sorted(ob.bids, TRUE), a \in Sorted(ob.asks, FALSE) :
                Emit(i, Update(e.token, TopLevels(ob.bids, b), TopLevels(ob.asks, a)))

\* An event with bids and asks: a whole book, or changes of its levels.
HandleLevels(e, i) ==
    /\ e.kind \in {"book", "delta"}
    /\ Fetched(e, i)
    /\ LET old == IF e.kind = "book" THEN NoBook ELSE obs[i][e.token]
           ob == [bids |-> Applied(old.bids, e.bids),
                  asks |-> Applied(old.asks, e.asks)]
       IN /\ obs' = [obs EXCEPT ![i][e.token] = ob]
          /\ \E b \in Sorted(ob.bids, TRUE), a \in Sorted(ob.asks, FALSE) :
                Emit(i, Update(e.token, TopLevels(ob.bids, b), TopLevels(ob.asks, a)))

\* An item of price_changes: the new best prices with the size of the level
\* that changed.  The book in memory is not touched.
HandleChange(e, i) ==
    /\ e.kind = "change"
    /\ Fetched(e, i)
    /\ Emit(i, Update(e.token, e.bids, e.asks))
    /\ UNCHANGED obs

\* Time passes; keys that were not stored for two hours expire.
Expire(gone) ==
    /\ orderbookKey' = [i \in Ids |-> IF i \in gone THEN None ELSE orderbookKey[i]]
    /\ UNCHANGED <<obs, topic, raws, starts, seen, shown>>

\* The service stops, or crashes, and starts again; Redis and Kafka stay.
Restart ==
    /\ starts < MaxStarts /\ starts' = starts + 1
    /\ obs' = NoBooks /\ seen' = NothingSeen
    /\ UNCHANGED <<orderbookKey, topic, raws, shown>>

Next ==
    \/ \E e \in Feed, i \in Ids : HandleLevels(e, i) \/ HandleChange(e, i)
    \/ \E gone \in SUBSET Ids : Expire(gone)
    \/ Restart

Spec == Init /\ [][Next]_vars

-----------------------------------------------------------------------------
(* Properties *)

IsSide(s) ==
    /\ IsFiniteSet(DOMAIN s) /\ DOMAIN s \subseteq Price
    /\ s \in [DOMAIN s -> Nat \ {0}]

\* No view shows more than Depth levels of a side.
View == {v \in [token : Tokens, bids : Seq(Level), asks : Seq(Level),
                bestBid : Nat, bestAsk : Nat] :
            Len(v.bids) <= Depth /\ Len(v.asks) <= Depth}

\* Types; among them, no price is in a book with size zero.
TypeOK ==
    /\ DOMAIN obs = Ids /\ \A i \in Ids : DOMAIN obs[i] = Tokens
    /\ \A i \in Ids, t \in Tokens : IsSide(obs[i][t].bids) /\ IsSide(obs[i][t].asks)
    /\ orderbookKey \in [Ids -> View \cup {None}]
    /\ topic \in Seq([id : Ids, update : View])
    /\ seen \in [Ids -> [Tokens -> Seq(Feed)]] /\ shown \in [Ids -> Seq(Feed)]
    /\ raws \in 0..MaxRaw /\ starts \in 1..MaxStarts

\* The levels of a side that the events h name since the last whole book: the
\* event and the place in it.
Named(h, side) ==
    {a \in UNION {{k} \X (1 .. Len(h[k][side])) : k \in 1 .. Len(h)} :
        /\ h[a[1]].kind # "change"
        /\ \A k \in a[1] + 1 .. Len(h) : h[k].kind # "book"}

LevelAt(h, side, a) == h[a[1]][side][a[2]]

\* No level named after a is of the same price, in the same spelling.
IsLast(h, side, a) ==
    \A b \in Named(h, side) :
       LevelAt(h, side, b).price = LevelAt(h, side, a).price =>
          b[1] < a[1] \/ (b[1] = a[1] /\ b[2] <= a[2])

\* A side of the book that the events h describe, told from the end: the size
\* of a price is the one it was last given since the last whole book.
Replay(h, side) ==
    LET last == {a \in Named(h, side) : IsLast(h, side, a)}
        there == {a \in last : LevelAt(h, side, a).size > 0}
        Of(p) == CHOOSE a \in last : LevelAt(h, side, a).price = p
    IN [p \in {LevelAt(h, side, a).price : a \in there} |->
          LevelAt(h, side, Of(p)).size]

\* The book in memory of a token is the last whole book with the level changes
\* since then, of the events handled under one id, whatever was handled for
\* other tokens or under the other id.
BookIsReplay ==
    \A i \in Ids, t \in Tokens :
       obs[i][t] = [bids |-> Replay(seen[i][t], "bids"),
                    asks |-> Replay(seen[i][t], "asks")]

\* The levels ls are the best Depth ones of side, best first, each once.
IsTop(ls, side, desc) ==
    /\ \A k \in 1..Len(ls) : ls[k].price \in DOMAIN side
                             /\ ls[k].size = side[ls[k].price]
    /\ \A k \in 1..Len(ls) : \A n \in 1..(k - 1) : 
          ls[n].price # ls[k].price /\ ~Better(desc, ls[k].price, ls[n].price)
    /\ \A p \in DOMAIN side :
          \/ \E k \in 1..Len(ls) : ls[k].price = p
          \/ Len(ls) = Depth /\ ~Better(desc, p, ls[Depth].price)

\* What Redis shows as the order book of a market comes from one token.  It is
\* the top of that token's book after some event, with no better level left
\* out, or exactly the last change of its best prices.
RedisBookIsTop ==
    \A i \in Ids :
       orderbookKey[i] # None =>
          LET v == orderbookKey[i]
              h == shown[i]
              e == h[Len(h)]
          IN /\ v.token = e.token
             /\ IF e.kind = "change"
                THEN v.bids = e.bids /\ v.asks = e.asks
                ELSE /\ IsTop(v.bids, Replay(h, "bids"), TRUE)
                     /\ IsTop(v.asks, Replay(h, "asks"), FALSE)
=============================================================================
