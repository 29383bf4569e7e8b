------------------------------ MODULE Processor ------------------------------
(***************************************************************************)
(* The order book engine and the price engine as the processor runs them:  *)
(* in one process, which starts and stops as one, with the Kafka topic     *)
(* orderbook.updates between them.                                         *)
(*                                                                         *)
(* The topic has several partitions.  The producer's balancer is           *)
(* LeastBytes, which pays no attention to the key of a message: an update  *)
(* goes to any partition.  A consumer reads each partition in order, and   *)
(* the partitions in any order.  Its offset is committed when a message is *)
(* read; what it read and did not handle before the process ended is lost. *)
(***************************************************************************)
EXTENDS PriceEngine, FiniteSetsExt

CONSTANTS
    Feed, Depth, MaxRaw,    \* of OrderbookEngine
    Partitions,             \* partitions of orderbook.updates (6)
    MaxInputs               \* bound: raw events and trades together

VARIABLES
    obs, orderbookKey, topic, raws, seen, shown,    \* of OrderbookEngine
    partition,      \* place in topic -> partition of that message
    read,           \* places in topic the price engine's consumer is past
    handled         \* history: places in topic handled since the start

bookVars == <<obs, orderbookKey, topic, raws, seen, shown>>
topicVars == <<partition, read, handled>>
procVars == <<vars, bookVars, topicVars>>

Book == INSTANCE OrderbookEngine

\* The prices of a side of the feed, and 0 for none.
Prices(side) == {0} \union UNION {{e[side][k].price.value : k \in 1 .. Len(e[side])} : e \in Feed}

\* The price engine alone is fed any update, those of these books among them.
ASSUME ProcessorAssumption ==
    /\ Book!IsFeed
    /\ [token : Tokens, bid : Prices("bids"), ask : Prices("asks")] \subseteq Updates
    /\ Partitions # {} /\ MaxInputs \in Nat

ProcInit ==
    /\ Init
    /\ Book!Init
    /\ partition = <<>> /\ read = {} /\ handled = {}

-----------------------------------------------------------------------------
(* The topic *)

\* A published update gets a place in some partition.
Publish ==
    \/ topic' = topic /\ UNCHANGED partition
    \/ topic' # topic /\ \E p \in Partitions : partition' = Append(partition, p)

\* The first message of a partition that is not read.
IsNext(n) ==
    /\ n \notin read
    /\ \A k \in 1 .. n - 1 : partition[k] = partition[n] => k \in read

\* What the price engine takes from a message.
Quoted(u) == [token |-> u.token, bid |-> u.bestBid, ask |-> u.bestAsk]

-----------------------------------------------------------------------------
(* Steps of the engines, and of the process.  A name ending in Faulty is a   *)
(* mistake the code does not make, checked to break a property below.        *)

ReadRaw ==
    /\ raws + trades < MaxInputs
    /\ \E e \in Feed, i \in Ids : Book!HandleLevels(e, i) \/ Book!HandleChange(e, i)
    /\ Publish
    /\ UNCHANGED <<states, job, priceKey, now, books, trades, traded,
                   past, changer, writer, read, handled>>

ReadTrade ==
    /\ raws + trades < MaxInputs
    /\ \E i \in Ids, t \in Trades : OnTrade(i, t)
    /\ UNCHANGED <<bookVars, topicVars>>

ReadBook ==
    \E n \in DOMAIN topic :
        /\ IsNext(n)
        /\ OnBook(topic[n].id, Quoted(topic[n].update))
        /\ read' = read \cup {n}
        /\ handled' = handled \cup {n}
        /\ UNCHANGED <<bookVars, partition>>

StorePrice ==
    /\ \E g \in Goroutine : Store(g)
    /\ UNCHANGED <<bookVars, topicVars>>

Later ==
    /\ Tick
    /\ \E gone \in SUBSET Ids : Book!Expire(gone)
    /\ UNCHANGED topicVars

\* A message that was just read may be lost.
RestartAll ==
    /\ Restart
    /\ Book!Restart
    /\ \E lost \in SUBSET {n \in DOMAIN topic : IsNext(n)} :
          /\ Cardinality(lost) <= 1
          /\ read' = read \cup lost
    /\ handled' = {}
    /\ UNCHANGED partition

ProcNext ==
    \/ ReadRaw \/ ReadTrade \/ ReadBook \/ StorePrice
    \/ Later \/ RestartAll

ProcSpec == ProcInit /\ [][ProcNext]_procVars

-----------------------------------------------------------------------------
(* Properties *)

\* Types of the engines and of the topic.
ProcTypeOK ==
    /\ TypeOK /\ Book!TypeOK
    /\ partition \in Seq(Partitions) /\ Len(partition) = Len(topic)
    /\ handled \subseteq read /\ read \subseteq DOMAIN topic

\* The books in memory and their views in Redis are right.
BooksAreReplayed == Book!BookIsReplay /\ Book!RedisBookIsTop

\* The updates of market i with both prices that were handled since the start.
Heard(i) ==
    {n \in handled : /\ topic[n].id = i
                     /\ topic[n].update.bestBid > 0 /\ topic[n].update.bestAsk > 0}

\* The price of a market follows its order book: it is made of one book, the
\* newest that was read, as long as the updates of that market came through
\* one partition (main.go 323-361, kafka.go 48-57).
PriceFollowsBook ==
    \A i \in Ids :
        /\ Heard(i) # {}
        /\ \A n, k \in Heard(i) : partition[n] = partition[k]
        => LET u == topic[Max(Heard(i))].update
           IN states[i].bid = u.bestBid /\ states[i].ask = u.bestAsk

-----------------------------------------------------------------------------
(* Inductive invariants, for the proofs in ProcessorProofs *)

FromFeed(s, side) == \A p \in DOMAIN s : p.value \in Prices(side)

\* Each book describes what was handled of its token; Redis, with the last
\* event that was stored, the top of it.  No price is made up.
BookInv ==
    /\ Book!BookIsReplay
    /\ \A i \in Ids : orderbookKey[i] # None => Len(shown[i]) > 0
    /\ \A i \in Ids, t \in Tokens :
          FromFeed(obs[i][t].bids, "bids") /\ FromFeed(obs[i][t].asks, "asks")
    /\ \A n \in DOMAIN topic :
          /\ topic[n].update.bestBid \in Prices("bids")
          /\ topic[n].update.bestAsk \in Prices("asks")

\* The consumer is past a front of each partition.
ReadInOrder ==
    \A n \in read : \A k \in 1 .. n - 1 : partition[k] = partition[n] => k \in read
=============================================================================
