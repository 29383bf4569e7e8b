# PredSX: a verification project

PredSX is a real-time market-data platform for prediction markets, written in
Go. Data enters from the Polymarket REST and WebSocket APIs and from Polygon,
crosses Kafka, and leaves through a REST API and a WebSocket gateway. This
directory holds TLA+ models of its parts, TLC configurations that check them
on small instances, and proofs that TLAPS checks.

## 1. The system

Paths are relative to `src/predsx/`. "State" is what the part keeps between
two of its operations.

| Part | Where | State | Operations |
|---|---|---|---|
| WebSocket gateway | `services/api/ws/` | map of clients, subscription sets, channels and their buffers | register, unregister, subscribe, broadcast; two pumps per connection; four Kafka broadcasters |
| Indexer | `services/ingestion/main.go` 356-543 | current endpoint index and bench times; per cycle: last block, two error counters | pick, bench, polling, log processing |
| Stream workers | `services/ingestion/main.go` 105-339 | per worker: connection, tokens, subscribed flag | connect, add token, read loop, ping loop |
| Aggregator | `services/ingestion/main.go` 545-685 | per-minute buckets of price metrics | add, swap, flush with retries |
| Discovery | `services/discovery/main.go` | none but a page offset; writes Redis, Kafka | crawl markets, crawl events, publish |
| Trade engine | `services/processor/main.go` 60-125 | Redis dedup keys | consume, normalise, publish |
| Orderbook engine | `services/processor/main.go` 127-243, 500-541 | in-memory book per token, Redis view per market | snapshot, level change, publish |
| Price engine | `services/processor/main.go` 245-369 | last trade, bid/ask, 24 h window per market | on trade, on book, publish |
| Signal analyzer | `services/processor/main.go` 371-477 | moving averages in Redis | read, modify, write, emit |
| Storage normalizer | `services/storage/main.go` | buffer of rows, mutex, ticker | consume five topics, batch, flush with retries |
| REST API | `services/api/handlers/rest.go` | none (ClickHouse, Redis cache) | paged queries, cache-aside reads |
| Rate limiter | `services/api/middleware/ratelimit.go` | Redis counter with expiry per address | increment, expire |
| Kafka client | `libs/kafka-client/` | group offsets (committed on read) | publish, fetch, create topics |
| Retry helper | `libs/retry-utils/retry.go` | attempt counter and delay | call, wait, give up |
| Service runner | `libs/service/` | context | start, wait for a signal, stop |

### How the parts interact

    Polymarket REST -> discovery -> markets.discovered, token ids -> stream workers
    Polymarket WS   -> stream workers -> ws.raw -> trade, orderbook engines, storage
    Polygon RPC     -> indexer -> onchain trades -> storage
    engines         -> trades.live, orderbook.updates, prices, signals
                    -> storage (ClickHouse), Redis views -> REST API
                    -> broadcasters -> hub -> WebSocket clients

Kafka connects services; inside a service goroutines share mutex-protected
maps (ingestion, processor, storage) or channels owned by one goroutine (hub).

### What is hard here

- *Interleavings.* Hub, two pumps per connection and four broadcasters meet on
  channels with capacities; connect, AddToken and pings meet on a worker of
  which only one field is locked; consumers and flushers share buffers; the
  two goroutines of the price engine store in Redis what they computed under a
  lock they no longer hold.
- *Failures.* Offsets are committed when a message is read, most results of
  `Publish`, `Set` and `Exec` are ignored, and batches are retried although the
  failed attempt may have taken place.
- *Ordering.* The producer's balancer ignores keys, so a topic with several
  partitions does not keep the order of one market.
- *Progress.* Endpoints are benched and freed, connections die and come back,
  slow WebSocket clients must not hold up the hub.

What makes each part correct is stated with its module below. Every such
hazard is listed at its line in `PROJECT.json`, with the properties that would
show it going wrong.

## 2. The modules

| Module | Models | Proofs |
|---|---|---|
| `MarketFeed` | what the gateway promises: one order of messages, none skipped for a client that is kept, a prefix delivered | |
| `WsHub` (`MCWsHub`) | hub, pumps, `ServeWS`, broadcasters; implements `MarketFeed` | `WsHubProofs` |
| `Indexer` | endpoint rotation, cycles, polling | `IngestionProofs` |
| `StreamWorker` | one exchange connection, the token consumer, pings, discovery's republication | `StreamWorkerProofs` |
| `Normalizer` | two consumers, the shared buffer, the flusher, `retry.Do` | `NormalizerProofs` |
| `Candles` | both writers of `price_history_1m` and the merging engine | `IngestionProofs` |
| `OrderbookEngine` | books per token, the Redis view per market | `ProcessorProofs` |
| `PriceEngine` | price state, window of trades, stores after the unlock | `ProcessorProofs` |
| `Processor` (`MCProcessor`) | both engines in one process, with the partitioned topic between them | `ProcessorProofs` |
| `Discovery` (`MCDiscovery`) | both crawls page by page, their rounds, what they write to Redis and Kafka | `DiscoveryProofs` |
| `Catalogue` (`MCCatalogue`) | extends `Discovery` by its topic, the storage consumer, the rows of `market_metadata`, `GetMarket` and `GetRelatedMarkets` | `DiscoveryProofs` |
| `MarketList` (`MCMarketList`) | `GET /v1/markets`: the cache, the two queries of a page, lookups of ids, the cursor | `MarketListProofs` |
| `RateLimit` | the limiter in front of `/v1`: the counter of an address, its expiry in a second call, Redis | `RateLimitProofs` |

Operators whose name ends in `Faulty` are mistakes the code does not make.
None is used by a specification; replacing the operator of the same name
without the suffix by one of them breaks the property `PROJECT.json` names.
Variables marked *history* record what happened for the sake of a property;
no guard reads them. `Indexer` and `Candles`, two parts of the ingestion service
that share no state, have their theorems in one module; the initial predicate,
next-state relation and type invariant of `Candles` carry its name for that.

### WsHub

`hub` is the program counter of `Hub.Run`: in `select`, in the loop over the
clients (`fanout`, with `todo` the clients still to visit), stopped, or
panicked. `reader` is `ServeWS` and then `readPump`, `writer` is `writePump`;
`conn` is the connection itself. Unbuffered channels are rendezvous:
`HubRegister` and `HubUnregister` are one step of both sides. `subscribe`,
`broadcast` and each client's `send` are sequences with their capacities.
The loop over the map is one client per step, in any order, so pumps run in the
middle of it, as they do in Go. Sending on or closing a closed channel leads to
`panic`, so that `NoPanic` is a property of the order of events and not of the
way they are written down.

`MarketFeed` says what a client may rely on. The refinement mapping reads the
position of a client from `todo` and the length of the common order, and its
feed as what was written, is in the frame, or is in the buffer.

### Indexer

`mode` is where the goroutine is: about to pick an endpoint, dialling, polling
the head, asking for logs, streaming. `cool` counts the ticks an endpoint
stays on the bench; heights are machine words, `Word` of them. `handed` records
the blocks the cycle gave to `processLog`. The requests to an endpoint run on the
context of the service, without a time limit; `Hangs` is one that is never
answered, and then the goroutine stands still (`hung`) for good.

### StreamWorker

A write to a connection begins and ends in two steps, because the library
allows one writer at a time and pings take no lock: an overlap may panic or
spoil messages. `connect` assigns `client` and `subscribed` before it takes the
lock, in steps of their own, so `AddToken` can run between them. Discovery
appears as the action that publishes a market again, which is what recovery
from a crash rests on, since tokens live in memory only.

### Normalizer

`ws` and `bf` are the two consumers, `flusher` the ticker goroutine, which
holds the mutex from a tick to the end of the retries (`MuFree`). An attempt
may fail before or after ClickHouse stored the batch. `rows` counts how often
an event is in `events_raw`.

### Candles

`rows` is a bag, for merging replaces two rows by their sum whenever the
engine likes. `buckets` is the aggregator's map, `current` the map the flusher
took. `ledger` counts where the trades of a minute went. The view of the storage
service and the aggregator both write the table, so without any failure it counts
each trade twice. `EachWriterCountsOnce` says that the sum is no more than that:
what each writer took, and each took a trade once.

### OrderbookEngine and PriceEngine

The first is one goroutine: an event is one step. A market goes by two ids,
because `resolveCanonicalMarketID` falls back to the condition id when Redis
does not answer. A book keeps its levels by the price as it is *spelled* and sorts
them by its value, so `Price` has both: "0.5" and "0.50" are two levels, and
`sort.Slice`, which is not stable, puts them in either order (`Sorted`). `Replay`, against which the books are checked, is defined from
the end of the history and not by applying events in turn. In the second, a
goroutine's step under the mutex and its store are two actions (`OnTrade` or
`OnBook`, then `Store`), with `job` what it holds between them; updates arrive
in any order. Both are checked as parts of `Processor`.

### Processor

Both engines start and stop as one process, so `RestartAll` is a step of both.
What the order book engine publishes goes to some partition of
`orderbook.updates` (`partition`), for the producer's balancer pays no attention
to keys; the price engine's consumer takes the next message of any partition
(`IsNext`), and its offset is committed with the reading, so that a restart may
lose the message it just read. `Book` is an `INSTANCE` of `OrderbookEngine`, and
the price engine is extended: its actions are conjoined with what the topic does.
The updates the price engine is fed must include those the books can publish:
`ProcessorAssumption` asks for every pair of a bid and an ask that occur in the
feed (`Prices`).

### Discovery

`phase` and `step` are the place of each of the two goroutines that `runBoth`
starts and waits for: fetching a page, handling its markets one by one, ended.
A page is read at an offset of a list that changes while the crawl goes on: an
item may open at any place and one at any place may close.
`MapTokens` and `StoreMetadata` are the Redis writes of `processMarket` and
`storeMarketMetadata`, each of which may be refused alone; both tokens of a
market share one key, and every market has a condition id. The offset moves
when the page is fetched, for nothing reads it before the next fetch. `Evict`
is Redis under `allkeys-lru`, as the deployment configures it: it may drop any
key, permanent ones too. The message to `markets.discovered` leaves no state
here; it is the subject of `Catalogue`.

### Catalogue

`PublishMarket` of `Discovery` becomes `Announce`, which appends the message to the
topic, or `AnnounceFails`. The storage service reads and inserts in one step,
`Persist`, for nothing of it is seen in between; `PersistFails` is a refused insert
or the end of the process between the two. Of the table, `newest` has the newest row of each
market, and `siblings` the newest `RowLimit` rows of the other markets of its event:
`GetRelatedMarkets` asks for so many *rows* (20, and at most 100 on request), not
markets, and every crawl adds one for each market. What the API answers is an operator of the state (`Found`, `Detail`,
`Related`), since each of these handlers only reads.

### MarketList

A request is a record in `req`: where the handler is (`at`), the rows it still
has to look at, the list `found` that the page is cut from, the page. Looking
at one row is one step, because every row costs lookups in Redis and in the
database, and trades, new rows, mappings and other requests may come in between. A
query that fails counts as one without rows, a lookup that fails as an id or a
market that is not known, as in the code. A row whose `Scan` fails is passed over
(`SkipRanked`, `SkipRecent`), and rows that break off are taken for rows that ended
(`RankedBreaks`, `RecentBreaks`), for `rows.Err` is not asked. `activity` is the order that the activity query
returns; `Tick` ages the cached pages. `visible` is history: the markets that
the metadata query could see all the time.

### RateLimit

A request is one step up to the second call to Redis (`Incr`), and the second
call is another (`Expire`, `ExpireFails`), because requests of other goroutines,
the end of the window and an eviction may come between them. `IncrFails` is a first
call that Redis executed and whose answer was lost; one that Redis did not execute
changes nothing. `ClientIP` decides
from the peer and its headers whose counter it is. A counter above the limit
is kept as `Limit + 1`. `passed` is history: how many requests were let pass in
each of the last ticks, and `Sums` adds them up; an eviction takes the counter and
leaves the history, and `evicted` counts evictions in the same way.

## 3. The runs

| Run | Instance | Shows |
|---|---|---|
| `ws` | 1 client, 2 markets, 2 filters, 2 commands in the channel, buffers of 1, 2 messages, cancellation | `NoPanic`, `LastRequestWins`, `ImplementsFeed`, `SlowClientNeverBlocks`, `LostConnectionIsCleanedUp` |
| `indexer` | 3 endpoints that may all fail, one lagging, one streaming, two that may hang, 5 new blocks | `NoGapInCycle`, `NeverAhead`, `BadEndpointIsBenched`, `CatchesUpUnlessStuck` |
| `stream` | 1 market (2 tokens), 3 connections, 1 crash | `NoTokenForgotten`, `SubscribedInTheEnd` |
| `normalizer` | 1 message of up to 2 trades, 1 backfill fetch, 2 attempts, 1 restart | `NoneVanishes`, `NoneTwice`, `AcceptedOnce`, `ConsumersGoOn` |
| `candles` | 3 trades in 2 minutes, 2 attempts, 1 restart | `EachWriterCountsOnce` |
| `candles_rows` | 2 trades in a minute | `RowsAreCandles` is violated |
| `processor` | 3 inputs of which up to 2 are raw order book events, the others trades; 2 tokens, 2 partitions, 3 times, 1 restart | `BooksAreReplayed`, `PricesAreSnapshots`, `VolumeIsWindow`, `StaleOnlyIfOvertaken`, `PriceFollowsBook` |
| `price_yes` | the same, 1 input | `YesPriceIsYes` is violated |
| `discovery` | 3 markets, 1 event, pages of 1, 2 changes, 1 key refused or dropped, 1 crash | `EachClosingHidesOne`, `WrittenBeforeUsed`, `PublishedAgain` |
| `market_list` | 2 markets, 1 condition id, 2 requests at a time, pages of 2, up to 2 traded ids and 2 rows of metadata, pages cached for 1 tick | `NoTwiceOnPage`, `EndMeansAll`, `ShowsInTheEnd` |
| `catalogue` | 3 markets of 1 event, requests for 3 rows, 1 change, lost messages and rows of one market | `MemberHasRow`, `SiblingsReturn` |
| `ratelimit` | 2 addresses, one of them a trusted proxy, 2 goroutines, limit 2, a minute of 2 ticks, 1 eviction in it | `AtMostTwiceTheLimit`, `NoExpiryIsExplained`, `RefusedIsLetInAgain` |

Modules have one type invariant, `TypeOK` (`ProcTypeOK` in `Processor`), which their
run checks too; that of `Candles` (`CandlesOK`) is there for its proof, and `Catalogue`
has that of `Discovery` and `ShapeInv` of its proof.

### Why these bounds are enough

- *WsHub*: a buffer of one is full after one message, so drops, blocked
  broadcasters and coalesced frames happen at once; two messages are the least
  that can be swapped, skipped or joined in a frame, and the second finds the
  buffer full that the first is in. Of the two filters each wants one of the
  markets and not the other, so messages are passed over and the order of commands
  shows in what arrives; two commands may wait in the channel (64 in the code),
  the least that can change places. Any number of clients is left to the proofs of `NoPanic` and
  `LastRequestWins`; clients share nothing but the hub's loop.
- *Indexer*: with `MaxErrors` 2 one counter can reset the other. A `Cooldown`
  longer than the pool lets all endpoints be benched at a time, and polling one
  of them long enough frees the first before the last is tried. Five new blocks
  make several chunks of `Chunk` + 1. One endpoint that polls and the one that
  streams may hang; with the lagging one there is one of each way to stand still.
- *StreamWorker*: the two tokens of one market are the pair that `AddToken`
  treats one after the other; three connections let a ping of the first meet
  the second and leave one for the time after a crash.
- *Normalizer*: a message with two trades can be half handled; a second attempt
  can repeat the first; one restart loses what is in memory.
- *Candles*: three trades let a bucket have a first, an extreme and a last one
  while another minute is open.
- *Processor*: two raw events are a book and a change of it that adds, resizes
  and removes levels, of which three exceed `Depth`, or a removal of what is not
  there. They are also the least that two partitions can put out of order and
  that can be mixed in one price; a trade beside them makes both goroutines of
  the price engine store. One value is spelled in two ways, in one book and in a
  change that removes one of the two. Three trades let two of them expire. All state is
  per id and the engines never read one id's for another, so one id is
  enough. Partitions are symmetric.
- *RateLimit*: with two goroutines an expiry can be set late, after another
  request, an eviction or the end of the window. Two addresses are one that is
  named by a proxy and the proxy. A limit of two and a minute of two ticks let two
  windows share a minute, and one eviction adds a third; `AtMostTwiceTheLimit`
  counts evictions, and the proof is for any number of them.
- *Catalogue*: the list of markets names the event of one market and not of
  the others, so the rows of one alternate and those of the others do not. Three
  rows for three markets are the least `SiblingsReturn` is about: with two, TLC finds
  a market whose rows are always behind the limit. Nothing is traded, for token keys play no
  part in the properties, and crashes of discovery are left to the run
  `discovery` and to the proof of `MemberHasRow`. The
  topic holds one message, and the crawls wait for its consumer, as they would
  not in Kafka; how far the consumer is behind is left to the proof.
- *Discovery*: with pages of one item every item is at the border of a page, and
  three leave one before and one after the place where the list changes. Two
  changes close an item before the offset and open another. A market listed
  alone and in an event is handled by both crawls. One key that is refused
  or dropped tells the excused cases apart.
- *MarketList*: one market under two ids fills a page of two unless it is
  recognised. A page of two can have one ranked market and one that fills it, and
  two rows can be of one market or of two; rows that are pushed behind the
  limit of the metadata query are left to the proofs. Two requests of two
  goroutines let a slow one cache an older page over a newer; one of the clients goes
  on to a second page.

### Fairness

Safety properties need none; the runs that check liveness too assume it. `ws`:
goroutines are scheduled; a `select` picks among ready cases at random and
blocked senders are served in order, hence strong fairness of the hub's cases
and of blocked senders; a write or a read on a lost connection ends by its
deadline (`client.go` sets both). The pumps of an *open* connection get no
fairness: they may hang. A reader that has to register, to pass on a command or to
unregister waits on one channel at a time, and is strongly fair for that. `indexer`:
weak fairness of the one goroutine. A request may hang for ever, or fail; the
property asks that some endpoint that does not lag fails finitely often, and
excepts a goroutine that hangs. `stream`: steps of goroutines, that discovery goes on publishing
and that a message published again and again is fetched at last; links may break
until `MaxConns` is used up. `normalizer`: goroutines and the ticker run, calls
return (the clients of Kafka and ClickHouse have limits by default), Go's mutex starves nobody; no call is assumed to succeed. `discovery`:
the handling of a page and the ticker go on. `http.Get` has no time limit, so no
page need come; the premise of `PublishedAgain` is that no fetch hangs for ever
and that the crawl of markets gives up finitely often. `market_list`: time
passes and each request that has come is handled, because the clients of both
databases return errors in the end; that all clients go on
asking, and that the metadata query fails, breaks off or passes over a row finitely
often, are premises of `ShowsInTheEnd`. `catalogue`: as
`discovery`, and the consumer reads on; that messages are lost finitely often is
a premise of `SiblingsReturn`. `ratelimit`: time passes, and a handler goes on
when its first call has returned; the second call need not succeed.

### Deadlock

It is checked in `stream`, `discovery`, `catalogue`, `market_list` and
`ratelimit`. Elsewhere the bounds let the system stop: every message is used up,
the chain is at `MaxHead`, or the service was stopped.

## 4. The proofs

TLAPS checks these theorems for every value of the constants that the named
assumptions of the modules admit.

| Module | Theorem | Property |
|---|---|---|
| `WsHubProofs` | `TypeCorrect` | `TypeOK`, with the capacities of all channels |
| | `ChannelSafety` | `NoPanic` |
| | `LatestFilter` | `LastRequestWins` |
| | `GatewayKeepsItsPromise` | `ImplementsFeed`: `WsHub` implements `MarketFeed` |
| `IngestionProofs` | `TypeCorrect` | `TypeOK`, with the limits of both error counters |
| | `ReadsWithoutGap` | `NoGapInCycle` |
| | `StaysBehind` | `NeverAhead` |
| | `BadEndpointLeaves` | `BadEndpointIsBenched` |
| | `TradesCounted` | `EachWriterCountsOnce` |
| `StreamWorkerProofs` | `StreamTypes` | `TypeOK`, with who holds the lock |
| | `NothingForgotten` | `NoTokenForgotten` |
| `NormalizerProofs` | `TypeCorrect` | `TypeOK`, with the attempts of `retry.Do` |
| | `NothingVanishes` | `NoneVanishes` |
| | `HandledOnce` | `AcceptedOnce` |
| | `RepeatsAreDoubtful` | `NoneTwice` |
| `ProcessorProofs` | `VolumeOfWindow` | `VolumeIsWindow` |
| | `Snapshots` | `PricesAreSnapshots` |
| | `StaleIsOvertaken` | `StaleOnlyIfOvertaken` |
| | `ProcessorTypes` | `ProcTypeOK` |
| | `BooksReplayed` | `BooksAreReplayed` |
| | `PriceFollows` | `PriceFollowsBook` |
| `DiscoveryProofs` | `DiscoveryTypes` | `TypeOK` |
| | `ClosingsHideFew` | `EachClosingHidesOne` |
| | `ResolvableWhenPublished` | `WrittenBeforeUsed` |
| | `FoundIsDescribed` | `MemberHasRow` |
| `RateLimitProofs` | `TypeCorrect` | `TypeOK`: only a counter that is there expires |
| | `CountersExpire` | `NoExpiryIsExplained` |
| | `TwiceTheLimit` | `AtMostTwiceTheLimit` |
| `MarketListProofs` | `TypeCorrect` | `TypeOK`, with the lengths of pages and of the ranked list |
| | `NoMarketTwice` | `NoTwiceOnPage` |
| | `LastPageIsComplete` | `EndMeansAll` |

### The argument of each

- `ChannelSafety`. `NoPanic` says nothing of where a channel is closed.
  `ChannelInv` adds it: a client in the map has an open channel, the loop
  visits members of the map only, and a client that did not register yet is
  outside with an open channel. That is why two places that close a channel
  never meet: both take the client out of the map in the same step.
- `LatestFilter`. A command may be anywhere in the channel when the next is
  sent. `RequestInv` says that the last command queued for a client is the last
  it asked for, and that the filter is that one when none is queued. A command
  of a client that did not register yet would be dropped by the hub; nobody
  asks before registering, and the registration is a rendezvous.
- `GatewayKeepsItsPromise`. Each step of `WsHub` is taken to the step of
  `MarketFeed` it stands for: the loop's begin to a new message, the visit of a
  client to its being offered the message or dropped, the end of a write to what the
  client sees; every other step leaves what the promise speaks of as it
  was. `FrameInv` is needed beside `ChannelInv`: a message is in the frame from the
  moment it leaves the buffer, and a writer that waits has no frame, so what is
  written, framed and buffered is always the whole feed.
- `NothingForgotten`. `SubscribeInv` says what each side may rely on while it
  writes: what it writes is what it read under the lock; `w.client` is, while
  `readLoop` runs, the connection that `connect` subscribed, though it is assigned
  before the lock is taken; and only the token `AddToken` is busy with may be
  missing on it. `StreamTypes` has the mutual exclusion this uses.
- `ReadsWithoutGap`. `ReadInv` adds `start <= last` to `NoGapInCycle`, so that a
  new range joins the old one; `CycleInv` says that a log request begins below
  a height that was reported.
- `StaysBehind` assumes, beyond the constants' assumptions, that no endpoint
  reports a height below `Back`. Without that the subtraction wraps around
  (`main.go` 476) and the statement is false. The run `indexer` meets it: its
  `MinReport` is `Back`.
- `BadEndpointLeaves`. Neither counter bounds the failing polls, for a header
  that arrives resets one of them. `StreakInv` bounds the run by both:
  `logErrors * MaxErrors + headerErrors`.
- `TradesCounted`. The property itself is inductive (`CountInv`) as soon as sums are
  sums. What the table counts is a fold over the rows of a bag, so the argument is
  about those: a row more or less changes the sum by its own count, a merge by
  nothing, rows of other minutes by nothing. Each action then moves a number of
  trades from one of the table, the buckets, the flush and the losses to another.
  The view's takings and the aggregator's are two entries of the ledger, and neither is
  more than what was made.
- `VolumeOfWindow`. `WindowInv`: the points kept are the latest trades, none
  older than them is recent, and the running volume is their sum. Trades are in the
  order of the clock, so those that expire are at the front, and subtracting
  them one by one leaves the sum of the rest.
- `StaleIsOvertaken`. `StoreInv`: the goroutine that last changed a market either
  still holds the state as it is now or was the last to store it. `Snapshots` is
  inductive with the types.
- `ProcessorPrices` carries `Snapshots`, `VolumeOfWindow` and `StaleIsOvertaken` from
  `PriceEngine` alone to the processor, by the lemma that a step of the processor is a
  step or a stutter of the price engine (`PriceEngineAlone`). With what the topic holds in `Book!View` and its prices from
  `Prices`, an update that is read is one the price engine may be fed alone; the
  steps of the order books leave the price engine's variables alone. The lemma says
  nothing new of the code, since the actions are conjunctions; it only saves proofs.
- `BooksReplayed`. `BookInv`: each book describes the history of its token, from
  its last whole book on, and Redis the book after the last event that was stored. `Replay`
  looks for the last change of a price, the engine applies changes in turn; that
  one event more makes the same difference to both is shown for a side with levels
  set, removed and replaced under their spellings. Whatever order sorting gives to
  equal prices, cutting a side at `Depth` leaves out no better level.
- `PriceFollows`. `TopicInv`, with `ReadInOrder`: the consumer is past a front of
  each partition. What was handled last of one partition is therefore the newest.
- `NothingVanishes` rests on `FlushInv`: while the flusher holds the mutex the
  batch is the whole buffer. What a flush forgets is therefore what it stored
  or gave up.
- `HandledOnce`. `SourceInv`: the events a consumer holds are distinct, are of
  the last message it fetched, and were never in the buffer, while those in the
  buffer are of messages fetched before. Restarts keep it, since the offset is
  committed on read.
- `RepeatsAreDoubtful`. `RowInv` counts: an event still in the buffer is stored at
  most once per attempt made, each time by an insert that did not answer.
- `ClosingsHideFew`. `MissedInv` counts the open items before the offset that the
  crawl has not seen: a fetched page has none of them, an item that opens moves
  none there that was not, one that closes moves at most one. An empty page says
  that nothing lies behind the offset, and then the missed items are all of them.
- `ResolvableWhenPublished`. `MappedInv`: a crawl about to publish tokens has been
  through all their keys. `StepInv` adds that a crawl between two pages begins the
  next market with its first step, so that no crash or new page lands on a later
  one. A key that Redis drops joins those it refused, which the property excuses.
- `FoundIsDescribed`. `KnownInv`: a market of which a message was sent has a
  row, or a message in the topic, or is among those lost; every market with a key
  in `predsx:markets` is such a market, and so is one of which a crawl has done
  the first step, because the message goes out before anything is written to
  Redis. `ShapeInv` has the types this needs; the length of the topic and
  its bound do not matter.
- `CountersExpire`. The statement is inductive together with `TypeOK`. A counter
  begins with the request that finds 1, and the goroutine of that request has the
  expiry still to set, or did not get its answer and is in `lost`; `TypeOK` makes a counter that Redis drops lose its expiry
  with it, so that the next request finds 1 again.
- `TwiceTheLimit`. `TwoWindows` splits the last minute where the counter of now
  began: after it only that counter let requests pass, before it only the one
  before. A counter gets its expiry after it began, so it lives on for
  a minute at least, and by the time the next one begins the older part is gone.
  A counter that is evicted moves the split nowhere: it is one more counter of the
  time after it, and one more eviction.
- `NoMarketTwice` and `LastPageIsComplete`. `ListInv`: the list a page is cut from
  names no market twice either, since a row is compared with all of it under
  the id Redis has at that moment; and while there is room on the page, a
  visible market is on it or among the rows that are left, so that the loop
  ends with all of them or with a full page; unless the rows break off, or the last
  row of a market cannot be read, which the property excepts.

### Sums and replays

`VolumeIsWindow`, `BooksAreReplayed`, `AtMostTwiceTheLimit` and `EachWriterCountsOnce`
compare the state with folds or recursive functions over sequences and bags. The
induction theorems of the library take a predicate as a parameter, which the
installed provers cannot instantiate. The proofs use a set instead: `NatLessThanWellFounded`
and `WFMin` say that the numbers at which a statement fails have a least one
(`Least`, `Induct`). With that, a function that satisfies the defining
equation is shown to exist and to be the only one (`TotalsExist` and
`TotalsUnique`, `SumsExist` and `SumsIs`), and so the `CHOOSE` behind a fold or a
recursive function is that function.

### What is model-checked only

Liveness: `SlowClientNeverBlocks`, `LostConnectionIsCleanedUp`,
`CatchesUpUnlessStuck`, `SubscribedInTheEnd`, `ConsumersGoOn`, `PublishedAgain`,
`SiblingsReturn`, `RefusedIsLetInAgain`, `ShowsInTheEnd`. Fairness and `ENABLED` are
beyond the prover. Every invariant and every safety property that a run finds to
hold is a theorem too.

## 5. What the runs found

Two runs violate what the repository says of the program.

- `candles_rows` (`storage/main.go` 263). Rows of one minute are merged by
  summing their columns, prices included, so a row of `price_history_1m` may
  hold prices at which nobody traded. `docs/info.md` 192 calls it 1-minute OHLCV
  candles. The table also counts every trade twice when nothing fails, for the view
  and the aggregator both write it (`storage/main.go` 263, `ingestion/main.go` 608);
  `EachWriterCountsOnce` is what holds.
- `price_yes` (`processor/main.go` 319, `api/handlers/rest.go` 997). The price of
  a market is stored for whichever token changed last and shown as the price of
  YES.

Met while modelling, without a run of their own:

- Every page of `GET /v1/markets` that is short is filled with the markets
  discovered last, without those of this page only, and `has_more` says that the
  page is full (`api/handlers/rest.go` 79). As soon as there are as many markets
  as fit on a page, following the cursors has no end. `docs/api-improvements.md`
  45 shows a walk that ends.
- The rate limiter calls itself a sliding window (`ratelimit.go` 18), of 60
  requests a minute (`docs/api-reference.md` 827). Its windows are fixed, and a
  minute that meets two of them lets up to twice the limit pass, and the limit once
  more for every time Redis evicts the counter in it; `AtMostTwiceTheLimit` is what
  holds. After a lost `Expire`, or an `Incr` that Redis executed and whose answer
  was lost (29-33), the counter never expires: the address is refused until Redis
  evicts it, and the `Retry-After` it is sent (`docs/info.md` 436) is untrue.
  `RefusedIsLetInAgain` has to except that case.
- The producer's balancer ignores keys, so two updates of one market may be
  handled in the wrong order and the older price stays until the next update
  (`kafka.go` 52). `PriceFollowsBook` holds within one partition only.
- Redis runs with `allkeys-lru`, which `docs/info.md` 179 calls a pure cache
  layer. The mapping of a token to its market is only there; when it is evicted,
  it comes back with the next crawl (`PublishedAgain`).
- `docs/info.md` 506 has related markets work as soon as discovery has run once.
  The crawl of markets writes rows without the event that the other crawl filled
  in, so they come and go. The limit of the query counts rows and not markets
  (`rest.go` 1652), and two crawls add two rows per market and round: with the
  default of 20 rows only the markets of an event of at most 11 are sure to come back, with
  100 those of one of at most 51. `SiblingsReturn` is what holds.
- A poll that finds nothing new counts as a success (`ingestion/main.go` 478),
  so an endpoint whose height stands still keeps the indexer for as long as it
  answers. `docs/rpc-failover-design.md` 112 promises that a single bad provider
  can never permanently stop ingestion. Nor does an endpoint that accepts a request and never
  answers let go of it: the requests have no time limit (419, 433, 464, 502).
  `CatchesUpUnlessStuck` is what holds.
- If both queries of a page fail, the answer is an empty page that says there is
  no more, and it is cached for 30 seconds (`rest.go` 91). The same goes for a page
  that is short because the metadata query failed, its rows broke off (`rows.Err` is
  not asked after 238-270) or a row could not be read (241): `EndMeansAll` has
  to except these cases.
- `writePump` joins waiting messages with newlines in one frame (`client.go`
  103); the comment at `broadcaster.go` 15 promises clients one envelope.
- When all endpoints are benched, `urls[idx]` does not advance
  (`ingestion/main.go` 383), while the failover design (202) has it rotate.
- Header errors and log errors are counted apart (466), so up to eight polls in
  a row may fail where the design (200) says three.
- A log request may span 41 blocks (487), not the 40 of the comment (482).
- A best-price change leaves the book in memory as it is and stores a book of
  one level in Redis (`processor/main.go` 192). A side that becomes empty keeps
  its last best price. A market whose lookup falls back to the condition id gets
  a second view under that id. A level is known by the spelling of its price (510), so a
  removal of "0.50" leaves a level "0.5" where it is.
- The 24 h volume starts at zero after a restart, and without trades nothing
  expires.
- `docs/info.md` 72 says that Redis makes the services idempotent, and 78 that
  they are stateless. Discovery publishes every market again in every crawl, and
  recovery of the stream workers depends on it; tokens, books and prices live in
  memory.
- The backfill consumer turns a failed fetch into a row without a market, while
  `schemas/events.go` marks the field as required.
- A cursor of the REST API encodes a plain offset (`rest.go` 1226), so that
  pages still shift when rows are added. `GetRelatedMarkets` returns a market
  once for every crawl that stored it.
- A market that closes leaves the list that is crawled, so its stored status
  stays active.
- `http.Get` in discovery has no time limit and `runBoth` waits for both crawls:
  one request that hangs ends discovery.

## 6. What is not modelled

Every part is listed in `PROJECT.json` with its status. Left out for good:
stateless handlers (authentication, CORS, headers, the backtester stub), the
command line, thin wrappers of libraries, configuration and logging. The trade
engine's dedup key decides only about a debug line. The signal analyzer is one
goroutine doing arithmetic on floating-point numbers. Consumers that insert one
row per message keep no state.

Data are abstract throughout: a message is its market and a number, a price a
small natural number, a block its height. Formatting and JSON appear where
they decide something: a message that does not decode (`Junk`), a price of zero,
a market named by either id.

## 7. The plan

Done: the gateway, the indexer, the stream workers, the normalizer, candles, order
books and prices with the topic between them, discovery and the way of its markets
to the API, the list of markets, the rate limiter. Next, in this order:

1. The pipeline from a token to the view of its market, composing
   `StreamWorker` and `Processor`; two stream workers and the map they share, with a
   write that never returns (`ingestion/main.go` 247).
2. The topic of on-chain trades: a block whose events could not be published
   (`ingestion/main.go` 540).
3. The cached handlers that do not recognise a market under two ids
   (`GetTopMarkets`, `GetBatchPrices`).
