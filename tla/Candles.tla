------------------------------- MODULE Candles -------------------------------
(***************************************************************************)
(* The minute candles of one market: the table price_history_1m and its    *)
(* two writers.                                                            *)
(*                                                                         *)
(*   - The normalizer of the storage service publishes every trade to the  *)
(*     topic trades.live and inserts it into the table trades, whose       *)
(*     materialized view v_price_history_1m inserts a candle for each      *)
(*     inserted block, that is, for each trade.                            *)
(*   - The aggregator of the ingestion service reads trades.live into      *)
(*     buckets; every minute of its own clock the flusher swaps the map of *)
(*     buckets for a new one under the mutex and inserts the old one,      *)
(*     with retry.Do, while the consumer fills the new one.                *)
(*                                                                         *)
(* The table's engine, SummingMergeTree, replaces rows of one key by one   *)
(* row that has the sum of every other column, at times of its own choice. *)
(* The one-second metrics take the same path into a table that does not    *)
(* merge; they are left out.  Volumes are left out: the two writers do not *)
(* agree on their unit.                                                    *)
(***************************************************************************)
EXTENDS Naturals, Sequences, FiniteSets, Bags, FiniteSetsExt

CONSTANTS
    Windows,        \* minutes in which trades fall, in any order
    Prices,         \* set of positive prices
    MaxTrades,      \* bound: trades
    MaxAttempts,    \* attempts of retry.Do (3)
    MaxStarts       \* bound: starts of the aggregator

ASSUME CandlesAssumption ==
    /\ Prices \subseteq Nat \ {0}
    /\ MaxTrades \in Nat
    /\ MaxAttempts \in Nat \ {0}
    /\ MaxStarts \in Nat \ {0}

Trade == [window : Windows, price : Prices]

VARIABLES
    live,           \* trades.live, from the aggregator's offset on
    rows,           \* bag of the rows of price_history_1m
    connected,      \* the aggregator has a ClickHouse client
    buckets,        \* agg1m: window -> candle, or Empty
    flusher,        \* "tick" | "attempt" | "wait"
    current,        \* the buckets being flushed
    attempt,
    starts,
    traded,         \* history: trades, in order
    ledger          \* history: trades of a window that were made, inserted,
                    \* fetched, lost, and inserted again by a retry

flushVars == <<flusher, current, attempt>>
runVars == <<connected, starts>>
candlesVars == <<live, rows, connected, buckets, flusher, current, attempt, starts,
          traded, ledger>>

\* MetricBucket, and a window that has none.
Candle(o, h, l, c, n) == [open |-> o, high |-> h, low |-> l, close |-> c,
                          count |-> n]
Empty == Candle(0, 0, 0, 0, 0)

NoBuckets == [w \in Windows |-> Empty]

CandlesInit ==
    /\ live = <<>>
    /\ rows = EmptyBag
    /\ connected \in BOOLEAN
    /\ buckets = NoBuckets
    /\ flusher = "tick" /\ current = NoBuckets /\ attempt = 0
    /\ starts = 1
    /\ traded = <<>>
    /\ ledger = [w \in Windows |->
                   [made |-> 0, inserted |-> 0, fetched |-> 0, lost |-> 0, again |-> 0]]

Row(w, c) == [window |-> w, candle |-> c]

Insert(row) == rows (+) SetToBag({row})

-----------------------------------------------------------------------------
(* The normalizer.  A name ending in Faulty is a mistake the code does not   *)
(* make, checked to break a property below.                                  *)

\* Entry e of the ledger with one more trade, inserted or not.
Made(e, inserted) ==
    [e EXCEPT !.made = @ + 1, !.inserted = IF inserted THEN @ + 1 ELSE @]

\* A trade is published and inserted; either may fail, unnoticed.  The view
\* makes a candle of the inserted block.
NewTrade ==
    /\ Len(traded) < MaxTrades
    /\ \E t \in Trade, published, inserted \in BOOLEAN :
          /\ traded' = Append(traded, t)
          /\ live' = IF published THEN Append(live, t) ELSE live
          /\ LET p == t.price
             IN rows' = IF inserted
                        THEN Insert(Row(t.window, Candle(p, p, p, p, 1)))
                        ELSE rows
          /\ ledger' = [ledger EXCEPT ![t.window] = Made(@, inserted)]
    /\ UNCHANGED <<buckets, flushVars, runVars>>

\* ClickHouse merges two rows of one key: it sums.
Merge ==
    /\ \E r, s \in BagToSet(rows) :
          /\ r.window = s.window
          /\ SetToBag({r}) (+) SetToBag({s}) \sqsubseteq rows
          /\ LET a == r.candle
                 b == s.candle
                 sum == Candle(a.open + b.open, a.high + b.high, a.low + b.low,
                               a.close + b.close, a.count + b.count)
             IN rows' = (rows (-) (SetToBag({r}) (+) SetToBag({s})))
                          (+) SetToBag({Row(r.window, sum)})
    /\ UNCHANGED <<live, buckets, flushVars, runVars, traded, ledger>>

-----------------------------------------------------------------------------
(* The aggregator's consumer *)

\* updateBucket: bucket b with a trade at price p added.
Folded(b, p) ==
    IF b = Empty THEN Candle(p, p, p, p, 1)
    ELSE Candle(b.open, IF p > b.high THEN p ELSE b.high,
                IF p < b.low THEN p ELSE b.low, p, b.count + 1)

\* Fetch, then updateBucket under the mutex.
Consume ==
    /\ live # <<>>
    /\ live' = Tail(live)
    /\ LET t == Head(live)
           w == t.window
       IN /\ buckets' = [buckets EXCEPT ![w] = Folded(@, t.price)]
          /\ ledger' = [ledger EXCEPT ![w].fetched = @ + 1]
    /\ UNCHANGED <<rows, flushVars, runVars, traded>>

\* The offset of a trade is committed, the process ends before its bucket
\* is updated; or the trade does not decode.
ConsumeFails ==
    /\ live # <<>>
    /\ live' = Tail(live)
    /\ UNCHANGED <<rows, buckets, flushVars, runVars, traded, ledger>>

-----------------------------------------------------------------------------
(* The aggregator's flusher: flushMetrics and retry.Do *)

SwapFaulty == UNCHANGED buckets

\* current := agg1m; agg1m := an empty map, under the mutex.
Swap == buckets' = NoBuckets

Lose(candles) ==
    ledger' = [w \in Windows |->
                 [ledger[w] EXCEPT !.lost = @ + candles[w].count]]

\* A minute is over: flush what is there, or drop it without a client.
Minute ==
    /\ flusher = "tick"
    /\ buckets # NoBuckets
    /\ Swap
    /\ \/ /\ connected
          /\ current' = buckets
          /\ flusher' = "attempt"
          /\ attempt' = 1
          /\ UNCHANGED ledger
       \/ /\ ~connected
          /\ Lose(buckets)
          /\ UNCHANGED flushVars
    /\ UNCHANGED <<live, rows, runVars, traded>>

\* The rows of a flush.
Flushed == {Row(w, current[w]) : w \in {v \in Windows : current[v] # Empty}}

FlushEnds ==
    /\ flusher' = "tick"
    /\ current' = NoBuckets

FlushSucceeds ==
    /\ flusher = "attempt"
    /\ rows' = rows (+) SetToBag(Flushed)
    /\ FlushEnds
    /\ UNCHANGED <<live, buckets, attempt, runVars, traded, ledger>>

\* The insert fails, perhaps after it took place.
FlushFails ==
    /\ flusher = "attempt"
    /\ attempt < MaxAttempts
    /\ flusher' = "wait"
    /\ \/ UNCHANGED <<rows, ledger>>
       \/ /\ rows' = rows (+) SetToBag(Flushed)
          /\ ledger' = [w \in Windows |->
                          [ledger[w] EXCEPT !.again = @ + current[w].count]]
    /\ UNCHANGED <<live, buckets, current, attempt, runVars, traded>>

Retry ==
    /\ flusher = "wait"
    /\ flusher' = "attempt"
    /\ attempt' = attempt + 1
    /\ UNCHANGED <<live, rows, buckets, current, runVars, traded, ledger>>

\* The last attempt fails (it may have taken place, which looks like success).
FlushGivesUp ==
    /\ flusher = "attempt"
    /\ attempt = MaxAttempts
    /\ Lose(current)
    /\ FlushEnds
    /\ UNCHANGED <<live, rows, buckets, attempt, runVars, traded>>

\* The process ends, and starts again with or without a ClickHouse client.
Restart ==
    /\ starts < MaxStarts
    /\ starts' = starts + 1
    /\ connected' \in BOOLEAN
    /\ ledger' = [w \in Windows |->
                    [ledger[w] EXCEPT !.lost =
                        @ + buckets[w].count + current[w].count]]
    /\ Swap
    /\ FlushEnds
    /\ attempt' = 0
    /\ UNCHANGED <<live, rows, traded>>

CandlesNext ==
    \/ NewTrade \/ Merge
    \/ Consume \/ ConsumeFails
    \/ Minute \/ FlushSucceeds \/ FlushFails \/ Retry \/ FlushGivesUp
    \/ Restart

CandlesSpec == CandlesInit /\ [][CandlesNext]_candlesVars

-----------------------------------------------------------------------------
(* Properties *)

Candles == [open : Nat, high : Nat, low : Nat, close : Nat, count : Nat]
Ledger == [made : Nat, inserted : Nat, fetched : Nat, lost : Nat, again : Nat]

CandlesOK ==
    /\ live \in Seq(Trade)
    /\ IsABag(rows) /\ BagToSet(rows) \subseteq [window : Windows,
                                                 candle : Candles]
    /\ connected \in BOOLEAN
    /\ buckets \in [Windows -> Candles]
    /\ flusher \in {"tick", "attempt", "wait"}
    /\ current \in [Windows -> Candles]
    /\ flusher = "tick" <=> current = NoBuckets
    /\ attempt \in 0 .. MaxAttempts
    /\ flusher = "wait" => attempt < MaxAttempts
    /\ starts \in 1 .. MaxStarts
    /\ traded \in Seq(Trade)
    /\ ledger \in [Windows -> Ledger]

\* Trades counted by the rows of window w.
Counted(w) ==
    MapThenSumSet(LAMBDA r : r.candle.count * rows[r],
                  {r \in BagToSet(rows) : r.window = w})

\* Trades of window w that wait for the aggregator.
Waiting(w) == Cardinality({i \in DOMAIN live : live[i].window = w})

\* The table counts trades per writer, so a trade that the view inserts and the
\* aggregator fetches, as both do unless something fails, is counted TWICE: the
\* two sums are added.  Each writer counts a trade once, though: what was
\* inserted or fetched is in the table, in a bucket or in a flush under way,
\* unless a flush was given up or the process ended; only a retry of an insert
\* that had taken place counts it again, and neither writer takes a trade more
\* than once.  The swap under the mutex, with the flush outside it (lines
\* 603-608), neither drops nor repeats what the consumer adds.
EachWriterCountsOnce ==
    \A w \in Windows :
        /\ Counted(w) + buckets[w].count + current[w].count + ledger[w].lost
             = ledger[w].inserted + ledger[w].fetched + ledger[w].again
        /\ ledger[w].inserted <= ledger[w].made
        /\ ledger[w].fetched + Waiting(w) <= ledger[w].made

\* docs/info.md line 192: price_history_1m holds 1-minute OHLCV candles.
RowsAreCandles ==
    \A r \in BagToSet(rows) :
        LET prices == {traded[i].price : i \in
                         {j \in 1 .. Len(traded) : traded[j].window = r.window}}
        IN {r.candle.open, r.candle.high, r.candle.low, r.candle.close}
              \subseteq prices
-----------------------------------------------------------------------------
(* Inductive invariant, for the proof in IngestionProofs *)

\* EachWriterCountsOnce is inductive as soon as sums are sums: a minute has
\* finitely many rows.  (CandlesOK has that live is a sequence.)
CountInv ==
    /\ EachWriterCountsOnce
    /\ \A w \in Windows : IsFiniteSet({r \in BagToSet(rows) : r.window = w})
=============================================================================
