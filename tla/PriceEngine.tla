----------------------------- MODULE PriceEngine -----------------------------
(***************************************************************************)
(* The price engine of the processor: two goroutines that share a state    *)
(* per market.  One reads trades; the other reads what the order book      *)
(* engine published.  Each changes the state under its mutex, copies it,   *)
(* and only after the unlock publishes the copy and stores it in Redis,    *)
(* where the API reads it.                                                 *)
(*                                                                         *)
(* The topic of updates has several partitions that are filled without     *)
(* regard to keys, so updates arrive in any order: each is any member of a *)
(* set.  Offsets are committed when a message is fetched.  Errors of       *)
(* Publish and Set are ignored by the code.  Prices are positive integers  *)
(* and 0 is no price; mid, spread and price of an update are functions of  *)
(* the fields kept here.                                                   *)
(***************************************************************************)
EXTENDS Naturals, Sequences

CONSTANTS
    Ids,            \* market ids
    Tokens,
    Yes,            \* the token whose price the API shows as yes_price
    Updates,        \* set of order book updates: token, best bid, best ask
    Trades,         \* set of trades
    Window,         \* length of the volume window (24 h)
    None,           \* no view, no update at hand, no goroutine
    MaxUpdates,     \* bound: order book updates
    MaxTrades,      \* bound: trades
    MaxTime,        \* bound: clock
    MaxStarts       \* bound: starts of the service

Trade == [token : Tokens, price : Nat \ {0}, size : Nat]
OrderbookUpdate == [token : Tokens, bid : Nat, ask : Nat]

Goroutine == {"trades", "books"}
Point == [ts : 0 .. MaxTime, val : Nat]
State == [bid : Nat, ask : Nat, last : Nat, volume : Nat, points : Seq(Point)]
QuoteType == [bid : Nat, ask : Nat, last : Nat, volume : Nat]
PriceUpdate == [id : Ids, token : Tokens, quote : QuoteType]

ASSUME EngineAssumption ==
    /\ Yes \in Tokens
    /\ Updates \subseteq OrderbookUpdate
    /\ Trades \subseteq Trade
    /\ Window \in Nat /\ MaxUpdates \in Nat /\ MaxTrades \in Nat
    /\ MaxTime \in Nat /\ MaxStarts \in Nat \ {0}
ASSUME NoneAssumption == None \notin PriceUpdate /\ None \notin Goroutine

VARIABLES
    states,         \* id -> MarketPriceState; points: trades in the window
    job,            \* goroutine -> the update it holds after its unlock
    priceKey,       \* Redis live:price:<id>
    now,
    books, trades, starts,     \* counters for the bounds
    traded,         \* history: id -> trades handled since the start
    past,           \* history: id -> what its state has been
    changer,        \* history: id -> goroutine that last changed its state
    writer          \* history: id -> goroutine whose update its key holds

runVars == <<now, starts>>
vars == <<states, job, priceKey, now, books, trades, starts, traded,
          past, changer, writer>>

NoState == [bid |-> 0, ask |-> 0, last |-> 0, volume |-> 0, points |-> <<>>]
NoStates == [i \in Ids |-> NoState]
Nobody == [i \in Ids |-> None]
Idle == [g \in Goroutine |-> None]

Init ==
    /\ states = NoStates /\ job = Idle
    /\ priceKey = [i \in Ids |-> None]
    /\ now = 0 /\ books = 0 /\ trades = 0 /\ starts = 1
    /\ traded = [i \in Ids |-> <<>>] /\ past = [i \in Ids |-> {}]
    /\ changer = Nobody /\ writer = Nobody

-----------------------------------------------------------------------------
(* The two goroutines.  A name ending in Faulty is a mistake the code does   *)
(* not make, checked to break a property below.                              *)

\* The sum of a sequence of numbers.
SumOf(vals) ==
    LET sum[n \in 0 .. Len(vals)] == IF n = 0 THEN 0 ELSE sum[n - 1] + vals[n]
    IN sum[Len(vals)]

Val(points) == [k \in 1 .. Len(points) |-> points[k].val]

\* At most one point is removed.
TradedFaulty(s, t) ==
    LET all == Append(s.points, [ts |-> now, val |-> t.price * t.size])
        old == all[1].ts + Window < now
    IN [s EXCEPT !.last = t.price,
                 !.points = IF old THEN Tail(all) ELSE all,
                 !.volume = s.volume + t.price * t.size - IF old THEN all[1].val ELSE 0]

\* How many points there are before the first one that is not older than
\* Window.
Expired(points) ==
    CHOOSE n \in 0 .. Len(points) :
        /\ \A k \in 1 .. n : points[k].ts + Window < now
        /\ n < Len(points) => points[n + 1].ts + Window >= now

\* The state with trade t added and the points older than Window removed from
\* the front.
Traded(s, t) ==
    LET all == Append(s.points, [ts |-> now, val |-> t.price * t.size])
        n == Expired(all)
    IN [s EXCEPT !.last = t.price,
                 !.points = SubSeq(all, n + 1, Len(all)),
                 !.volume = s.volume + t.price * t.size - SumOf(Val(SubSeq(all, 1, n)))]

\* What an update tells of a state, and PriceUpdate.
Quote(s) == [bid |-> s.bid, ask |-> s.ask, last |-> s.last, volume |-> s.volume]
Copy(i, t, s) == [id |-> i, token |-> t, quote |-> Quote(s)]

\* The copy is taken before the change.
ChangeStateFaulty(g, i, t, s) ==
    /\ states' = [states EXCEPT ![i] = s]
    /\ job' = [job EXCEPT ![g] = Copy(i, t, states[i])]
    /\ past' = [past EXCEPT ![i] = @ \union {Quote(s)}]
    /\ changer' = [changer EXCEPT ![i] = g]

\* Under the mutex, goroutine g changes the state of i to s and copies it.
ChangeState(g, i, t, s) ==
    /\ states' = [states EXCEPT ![i] = s]
    /\ job' = [job EXCEPT ![g] = Copy(i, t, s)]
    /\ past' = [past EXCEPT ![i] = @ \union {Quote(s)}]
    /\ changer' = [changer EXCEPT ![i] = g]

OnTrade(i, t) ==
    /\ job["trades"] = None
    /\ trades < MaxTrades /\ trades' = trades + 1
    /\ ChangeState("trades", i, t.token, Traded(states[i], t))
    /\ traded' = [traded EXCEPT ![i] =
                    Append(@, [ts |-> now, val |-> t.price * t.size])]
    /\ UNCHANGED <<priceKey, books, runVars, writer>>

\* An update with one price only is let through.
OnBookFaulty(i, u) ==
    /\ job["books"] = None
    /\ books < MaxUpdates /\ books' = books + 1
    /\ ChangeState("books", i, u.token,
                   [states[i] EXCEPT !.bid = u.bid, !.ask = u.ask])
    /\ UNCHANGED <<priceKey, trades, runVars, traded, writer>>

\* An update with both prices changes the state; any other is dropped.
OnBook(i, u) ==
    /\ job["books"] = None
    /\ books < MaxUpdates /\ books' = books + 1
    /\ IF u.bid > 0 /\ u.ask > 0
       THEN ChangeState("books", i, u.token,
                        [states[i] EXCEPT !.bid = u.bid, !.ask = u.ask])
       ELSE UNCHANGED <<states, job, past, changer>>
    /\ UNCHANGED <<priceKey, trades, runVars, traded, writer>>

\* The ask is read again after the unlock.
StoreFaulty(g) ==
    /\ job[g] # None
    /\ job' = [job EXCEPT ![g] = None]
    /\ LET i == job[g].id
           u == [job[g] EXCEPT !.quote.ask = states[i].ask]
       IN \/ /\ priceKey' = [priceKey EXCEPT ![i] = u]
             /\ writer' = [writer EXCEPT ![i] = g]
          \/ writer' = [writer EXCEPT ![i] = None] /\ UNCHANGED priceKey
    /\ UNCHANGED <<states, books, trades, runVars, traded, past, changer>>

\* After the unlock the copy is published and stored; either may fail.  What
\* is published is the copy the goroutine holds.
Store(g) ==
    /\ job[g] # None
    /\ job' = [job EXCEPT ![g] = None]
    /\ LET i == job[g].id
       IN \/ /\ priceKey' = [priceKey EXCEPT ![i] = job[g]]
             /\ writer' = [writer EXCEPT ![i] = g]
          \/ writer' = [writer EXCEPT ![i] = None] /\ UNCHANGED priceKey
    /\ UNCHANGED <<states, books, trades, runVars, traded, past, changer>>

-----------------------------------------------------------------------------
(* Time and failures *)

\* A tick is longer than the two hours for which a price is stored: any key
\* may have expired.
Tick ==
    /\ now < MaxTime /\ now' = now + 1
    /\ \E gone \in SUBSET Ids :
          priceKey' = [i \in Ids |-> IF i \in gone THEN None ELSE priceKey[i]]
    /\ UNCHANGED <<states, job, books, trades, starts, traded, past, changer,
                   writer>>

\* The service stops, or crashes, and starts again; Redis and Kafka stay.
Restart ==
    /\ starts < MaxStarts /\ starts' = starts + 1
    /\ states' = NoStates /\ job' = Idle
    /\ traded' = [i \in Ids |-> <<>>] /\ changer' = Nobody
    /\ UNCHANGED <<priceKey, now, books, trades, past, writer>>

Next ==
    \/ \E i \in Ids : \/ \E t \in Trades : OnTrade(i, t)
                      \/ \E u \in Updates : OnBook(i, u)
    \/ \E g \in Goroutine : Store(g)
    \/ Tick
    \/ Restart

Spec == Init /\ [][Next]_vars

-----------------------------------------------------------------------------
(* Properties *)

\* Types; among them, volumes stay natural numbers while points are removed.
TypeOK ==
    /\ states \in [Ids -> State]
    /\ job \in [Goroutine -> PriceUpdate \union {None}]
    /\ priceKey \in [Ids -> PriceUpdate \union {None}]
    /\ now \in 0..MaxTime /\ starts \in 1..MaxStarts
    /\ books \in 0..MaxUpdates /\ trades \in 0..MaxTrades
    /\ traded \in [Ids -> Seq(Point)]
    /\ past \in [Ids -> SUBSET QuoteType]
    /\ changer \in [Ids -> Goroutine \union {None}]
    /\ writer \in [Ids -> Goroutine \union {None}]

\* What is published or stored is what the state was at one moment: never the
\* bid of one book with the ask of another, nor a volume without its trade.
PricesAreSnapshots ==
    \A u \in {job[g] : g \in Goroutine} \union {priceKey[i] : i \in Ids} :
       u # None => u.quote \in past[u.id]

\* Trade k of market i is in the window that its latest trade sees.
Recent(i, k) == traded[i][Len(traded[i])].ts <= traded[i][k].ts + Window

\* The volume of a market is the sum of its trades of the last Window before
\* the latest trade: each counted once, none kept longer, none lost when
\* several expire at a time.
VolumeIsWindow ==
    \A i \in Ids :
       LET n == Len(traded[i])
       IN n > 0 => states[i].volume =
             SumOf([k \in 1 .. n |-> IF Recent(i, k) THEN traded[i][k].val ELSE 0])

\* A price in Redis is stale only if it was overtaken: when the goroutine that
\* changed a market last was also the last to store its price, and is done,
\* Redis shows the current state.
StaleOnlyIfOvertaken ==
    \A i \in Ids :
       /\ changer[i] # None /\ changer[i] = writer[i] /\ job[changer[i]] = None
       /\ priceKey[i] # None
       => priceKey[i].quote = Quote(states[i])

\* The API shows the price of live:price as yes_price and its complement as
\* no_price, so the key would have to hold a price of the YES token.
YesPriceIsYes ==
    \A i \in Ids : priceKey[i] # None => priceKey[i].token = Yes
-----------------------------------------------------------------------------
(* Inductive invariants, for the proofs in ProcessorProofs *)

\* Why VolumeIsWindow holds: the running volume is the sum of the points that
\* are kept, those are the latest trades, and nothing older is recent, for
\* trades are in the order of the clock.
WindowInv ==
    \A i \in Ids :
       LET n == Len(traded[i])
       IN /\ states[i].volume = SumOf(Val(states[i].points))
          /\ \A k \in 1 .. n : traded[i][k].ts <= now
          /\ \A k \in 1 .. n : \A j \in 1 .. k : traded[i][j].ts <= traded[i][k].ts
          /\ \E m \in 0 .. n :
                /\ states[i].points = SubSeq(traded[i], m + 1, n)
                /\ \A k \in 1 .. m : ~Recent(i, k)
                /\ \A k \in m + 1 .. n : Recent(i, k)

\* Why StaleOnlyIfOvertaken holds: a goroutine changes no other state before
\* it has stored its copy.
StoreInv ==
    \A i \in Ids :
       LET g == changer[i]
           Holds == job[g] # None /\ job[g].id = i
       IN g # None =>
             /\ Holds => job[g].quote = Quote(states[i])
             /\ ~Holds /\ writer[i] = g /\ priceKey[i] # None =>
                   priceKey[i].quote = Quote(states[i])
=============================================================================
