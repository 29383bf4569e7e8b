----------------------------- MODULE Discovery ------------------------------
(***************************************************************************)
(* The discovery service: two crawls of Polymarket's catalogue, one of     *)
(* markets (discoverMarkets), one of events with their markets             *)
(* (discoverEvents), run side by side; when both have ended, the ticker    *)
(* starts them again (runBoth).                                            *)
(*                                                                         *)
(* A crawl reads the list of what is open page by page, by offset, while   *)
(* the catalogue changes.  Each market is published, its tokens are        *)
(* written to Redis and published, and its metadata are written to Redis.  *)
(* Errors of Redis and Kafka are logged or ignored.  A page that cannot be *)
(* had in the attempts of retry.Do ends the crawl.  http.Get has no time   *)
(* limit, so a request may also hang, and with it the round.               *)
(*                                                                         *)
(* Redis keeps what the service wrote through a crash of the service.  It  *)
(* runs with the policy allkeys-lru, so it may drop any key for lack of    *)
(* memory, although none is written with an expiry.  The names, prices and *)
(* dates of a market are left out.                                         *)
(***************************************************************************)
EXTENDS Naturals, Sequences, FiniteSets, SequencesExt

CONSTANTS
    Markets, Events,
    Members,        \* event -> sequence of its markets, closed ones included
    Tradable,       \* markets whose list of tokens names two
    Limit,          \* items on a page (100)
    MaxChanges,     \* bound: items opened or closed in the catalogue
    MaxRefused,     \* bound: Redis writes that fail and keys dropped
    MaxCrashes      \* bound: ends of the process

ASSUME CatalogueAssumption ==
    /\ IsFiniteSet(Markets) /\ IsFiniteSet(Events)
    /\ Members \in [Events -> Seq(Markets)]
    /\ Tradable \subseteq Markets
    /\ Markets \cap Events = {}
ASSUME BoundsAssumption ==
    /\ Limit \in Nat \ {0}
    /\ MaxChanges \in Nat /\ MaxRefused \in Nat /\ MaxCrashes \in Nat

Crawls == {"markets", "events"}
Listed(k) == IF k = "markets" THEN Markets ELSE Events

\* Keys of one market: token:..:market_id (of both tokens, with the two
\* copies of the pair), condition:..:market_id, market:..:metadata, and
\* membership of predsx:markets.
TokenKeys == {"token", "condition"}
MetadataKeys == {"metadata", "condition", "member"}
Keys == TokenKeys \cup MetadataKeys

VARIABLES
    listing,        \* crawl -> what the endpoint lists now, in its order
    phase,          \* crawl -> "fetch" | "market" | "done"
    offset,
    todo,           \* crawl -> markets of the page still to be handled
    step,           \* crawl -> "publish" | "map" | "extract" | "store"
    extracted,      \* markets in predsx.tokens.extracted
    redis,          \* <<key, market>> that are written
    changes, crashes,
    steady,         \* history: items listed since the crawl began
    seen,           \* history: items on the pages of the crawl
    closings,       \* history: items closed since the crawl began
    complete,       \* history: the crawl ended with an empty page
    refused         \* history: <<key, market>> of writes that failed, or dropped

catalogue == <<listing, changes>>
crawl == <<phase, offset, todo, step>>
outside == <<extracted, redis, refused>>
history == <<steady, seen, closings, complete>>
vars == <<catalogue, crawl, outside, crashes, history>>

Init ==
    /\ listing = [k \in Crawls |-> SetToSeq(Listed(k))]
    /\ phase = [k \in Crawls |-> "fetch"]
    /\ offset = [k \in Crawls |-> 0]
    /\ todo = [k \in Crawls |-> <<>>]
    /\ step = [k \in Crawls |-> "publish"]
    /\ extracted = {} /\ redis = {} /\ refused = {}
    /\ changes = 0 /\ crashes = 0
    /\ steady = [k \in Crawls |-> Listed(k)]
    /\ seen = [k \in Crawls |-> {}]
    /\ closings = [k \in Crawls |-> 0]
    /\ complete = [k \in Crawls |-> FALSE]

-----------------------------------------------------------------------------
(* The catalogue.  A name ending in Faulty is a mistake the code does not    *)
(* make, checked to break a property below.                                  *)

Close(k, x) ==
    /\ changes < MaxChanges
    /\ changes' = changes + 1
    /\ \E i \in 1 .. Len(listing[k]) :
          /\ listing[k][i] = x
          /\ listing' = [listing EXCEPT ![k] = RemoveAt(@, i)]
    /\ steady' = [steady EXCEPT ![k] = @ \ {x}]
    /\ closings' = [closings EXCEPT ![k] = @ + 1]
    /\ UNCHANGED <<crawl, outside, crashes, seen, complete>>

\* A new item may come anywhere in the order of the list.
Open(k, x) ==
    /\ changes < MaxChanges
    /\ x \notin ToSet(listing[k])
    /\ changes' = changes + 1
    /\ \E i \in 1 .. Len(listing[k]) + 1 :
          listing' = [listing EXCEPT ![k] = InsertAt(@, i, x)]
    /\ UNCHANGED <<crawl, outside, crashes, history>>

-----------------------------------------------------------------------------
(* Pages *)

PageFaulty(k) ==
    SubSeq(listing[k], offset[k] + 1,
           IF offset[k] + Limit < Len(listing[k]) THEN offset[k] + Limit + 1
           ELSE Len(listing[k]))

Page(k) ==
    SubSeq(listing[k], offset[k] + 1,
           IF offset[k] + Limit < Len(listing[k]) THEN offset[k] + Limit
           ELSE Len(listing[k]))

\* The markets of a page: of every event, all of them.
MarketsOn(k, page) ==
    IF k = "markets" THEN page
    ELSE FlattenSeq([i \in 1 .. Len(page) |-> Members[page[i]]])

NextOffsetFaulty(o) == o + Limit + 1

NextOffset(o) == o + Limit

\* The code moves the offset on after it has handled the page; nothing reads
\* it in between.
FetchPage(k) ==
    /\ phase[k] = "fetch"
    /\ Page(k) # <<>>
    /\ offset' = [offset EXCEPT ![k] = NextOffset(@)]
    /\ todo' = [todo EXCEPT ![k] = MarketsOn(k, Page(k))]
    /\ phase' = [phase EXCEPT ![k] = IF todo'[k] = <<>> THEN "fetch"
                                     ELSE "market"]
    /\ seen' = [seen EXCEPT ![k] = @ \cup ToSet(Page(k))]
    /\ UNCHANGED <<catalogue, step, outside, crashes, steady, closings,
                   complete>>

FetchEmptyPage(k) ==
    /\ phase[k] = "fetch"
    /\ Page(k) = <<>>
    /\ phase' = [phase EXCEPT ![k] = "done"]
    /\ complete' = [complete EXCEPT ![k] = TRUE]
    /\ UNCHANGED <<catalogue, offset, todo, step, outside, crashes, steady,
                   seen, closings>>

\* retry.Do has made its attempts; the crawl returns the error.
FetchGivesUp(k) ==
    /\ phase[k] = "fetch"
    /\ phase' = [phase EXCEPT ![k] = "done"]
    /\ UNCHANGED <<catalogue, offset, todo, step, outside, crashes, history>>

-----------------------------------------------------------------------------
(* One market *)

Handling(k, s) == phase[k] = "market" /\ step[k] = s

AfterFaulty(s, m) ==
    CASE s = "publish" -> IF m \in Tradable THEN "extract" ELSE "store"
      [] s = "extract" -> "map"
      [] s = "map" -> "store"

\* processMarket passes over a market without two tokens, and writes to Redis
\* before it publishes.
After(s, m) ==
    CASE s = "publish" -> IF m \in Tradable THEN "map" ELSE "store"
      [] s = "map" -> "extract"
      [] s = "extract" -> "store"

Proceed(k) ==
    /\ step' = [step EXCEPT ![k] = After(@, Head(todo[k]))]
    /\ UNCHANGED <<catalogue, phase, offset, todo, crashes, history>>

\* The results of Set and SAdd are ignored.
Write(keys, m) ==
    \E failed \in SUBSET keys :
        /\ refused' = refused \cup {<<x, m>> : x \in failed}
        /\ Cardinality(refused') <= MaxRefused
        /\ redis' = redis \cup {<<x, m>> : x \in keys \ failed}

\* The message to predsx.markets.discovered, which no property here is about,
\* or a logged error.
PublishMarket(k) ==
    /\ Handling(k, "publish")
    /\ Proceed(k)
    /\ UNCHANGED outside

MapTokens(k) ==
    /\ Handling(k, "map")
    /\ Write(TokenKeys, Head(todo[k]))
    /\ Proceed(k)
    /\ UNCHANGED extracted

\* An error of Publish is logged.
ExtractTokens(k) ==
    /\ Handling(k, "extract")
    /\ extracted' \in {extracted, extracted \cup {Head(todo[k])}}
    /\ Proceed(k)
    /\ UNCHANGED <<redis, refused>>

\* storeMarketMetadata; then the next market, or the next page.
StoreMetadata(k) ==
    /\ Handling(k, "store")
    /\ Write(MetadataKeys, Head(todo[k]))
    /\ step' = [step EXCEPT ![k] = "publish"]
    /\ todo' = [todo EXCEPT ![k] = Tail(@)]
    /\ phase' = [phase EXCEPT ![k] = IF todo'[k] = <<>> THEN "fetch" ELSE @]
    /\ UNCHANGED <<catalogue, offset, extracted, crashes, history>>

\* Redis drops a key.
Evict ==
    \E x \in redis :
        /\ redis' = redis \ {x}
        /\ refused' = refused \cup {x}
        /\ Cardinality(refused') <= MaxRefused
        /\ UNCHANGED <<catalogue, crawl, extracted, crashes, history>>

-----------------------------------------------------------------------------
(* Rounds *)

Begin ==
    /\ phase' = [k \in Crawls |-> "fetch"]
    /\ todo' = [k \in Crawls |-> <<>>]
    /\ step' = [k \in Crawls |-> "publish"]
    /\ steady' = [k \in Crawls |-> ToSet(listing[k])]
    /\ seen' = [k \in Crawls |-> {}]
    /\ closings' = [k \in Crawls |-> 0]
    /\ complete' = [k \in Crawls |-> FALSE]
    /\ UNCHANGED <<catalogue, outside>>

FirstOffsetFaulty(k) == offset[k]

FirstOffset(k) == 0

\* wg.Wait returns, and the ticker fires.
NextRound ==
    /\ \A k \in Crawls : phase[k] = "done"
    /\ Begin
    /\ offset' = [k \in Crawls |-> FirstOffset(k)]
    /\ UNCHANGED crashes

\* The process ends at any point and is started again.
Crash ==
    /\ crashes < MaxCrashes
    /\ crashes' = crashes + 1
    /\ Begin
    /\ offset' = [k \in Crawls |-> 0]

Handle(k) ==
    \/ PublishMarket(k) \/ MapTokens(k) \/ ExtractTokens(k) \/ StoreMetadata(k)

Next ==
    \/ \E k \in Crawls :
          \/ FetchPage(k) \/ FetchEmptyPage(k) \/ FetchGivesUp(k)
          \/ Handle(k)
          \/ \E x \in Listed(k) : Open(k, x) \/ Close(k, x)
    \/ Evict \/ NextRound \/ Crash

Spec == Init /\ [][Next]_vars

(* Fairness.  Goroutines and the ticker run, and calls of Redis and Kafka    *)
(* return, for their clients have time limits.  A page need not come.        *)
FairSpec ==
    /\ Spec
    /\ \A k \in Crawls : WF_vars(Handle(k))
    /\ WF_vars(NextRound)

-----------------------------------------------------------------------------
(* Properties *)

TypeOK ==
    /\ \A k \in Crawls :
          /\ listing[k] \in Seq(Listed(k))
          /\ k = "markets" => Len(todo[k]) <= Limit
          /\ (phase[k] = "market") = (todo[k] # <<>>)
          /\ steady[k] \subseteq ToSet(listing[k])
          /\ seen[k] \subseteq Listed(k)
    /\ listing \in [Crawls -> Seq(Markets \cup Events)]
    /\ todo \in [Crawls -> Seq(Markets)]
    /\ steady \in [Crawls -> SUBSET (Markets \cup Events)]
    /\ seen \in [Crawls -> SUBSET (Markets \cup Events)]
    /\ phase \in [Crawls -> {"fetch", "market", "done"}]
    /\ offset \in [Crawls -> Nat]
    /\ step \in [Crawls -> {"publish", "map", "extract", "store"}]
    /\ extracted \subseteq Tradable
    /\ redis \subseteq Keys \X Markets
    /\ refused \subseteq Keys \X Markets
    /\ changes \in 0 .. MaxChanges
    /\ crashes \in 0 .. MaxCrashes
    /\ closings \in [Crawls -> Nat]
    /\ complete \in [Crawls -> BOOLEAN]

\* A crawl by offset skips at most one open item for every item that is
\* closed under way; nothing is skipped while nothing closes, whatever opens
\* (lines 147-243 and 309-389).
EachClosingHidesOne ==
    \A k \in Crawls :
        complete[k] => Cardinality(steady[k] \ seen[k]) <= closings[k]

\* Who learns of a token can find its market, by token or by condition, and
\* who finds a market in predsx:markets can read its metadata; only a write
\* that Redis refused, for no result is looked at, and a key that it dropped
\* are excused (lines 265-274 and 289-299).
WrittenBeforeUsed ==
    /\ \A m \in extracted : TokenKeys \X {m} \subseteq redis \cup refused
    /\ \A m \in Markets :
          <<"member", m>> \in redis => <<"metadata", m>> \in redis \cup refused

Extracting(m) ==
    \E k \in Crawls : Handling(k, "extract") /\ Head(todo[k]) = m

\* Redis keeps what it has and takes the keys of a market's tokens.
RedisWorks ==
    /\ redis \subseteq redis'
    /\ \A k \in Crawls :
          MapTokens(k) => TokenKeys \X {Head(todo[k])} \subseteq redis'

\* Discovery publishes the tokens of an open market again and again, with
\* their keys in Redis, whatever Redis dropped or refused before; the stream
\* workers and the processor recover by this (lines 107-134): if Redis works
\* in the end, the requests of the crawl of markets fail finitely often, and
\* no request of either crawl hangs for ever, as wg.Wait waits for both.
PublishedAgain ==
    (/\ <>[][RedisWorks /\ ~FetchGivesUp("markets")]_vars
     /\ \A k \in Crawls : []<>(phase[k] # "fetch"))
    => \A m \in Tradable :
          <>[](m \in ToSet(listing["markets"]))
          => []<>(Extracting(m) /\ TokenKeys \X {m} \subseteq redis)
-----------------------------------------------------------------------------
(* Inductive invariants, for the proofs in DiscoveryProofs *)

\* Why only tradable markets are extracted: the other steps of a market are
\* left out, and a new page starts with the first step.
StepInv ==
    \A k \in Crawls :
        /\ phase[k] # "market" => step[k] = "publish"
        /\ step[k] \in {"map", "extract"} => Head(todo[k]) \in Tradable

\* Why EachClosingHidesOne holds: an open item that the crawl has missed is
\* one before its offset that it has not seen, and only a closing moves one
\* there.  An empty page says that nothing comes behind the offset.
Missed(k) ==
    {x \in steady[k] \ seen[k] :
        \E i \in 1 .. Len(listing[k]) : i <= offset[k] /\ listing[k][i] = x}

MissedInv ==
    /\ EachClosingHidesOne
    /\ \A k \in Crawls : Cardinality(Missed(k)) <= closings[k]

\* Why WrittenBeforeUsed holds: a crawl that is about to publish tokens has
\* been through all their keys, and neither Redis nor the list of refused
\* writes forgets.
MappedInv ==
    /\ WrittenBeforeUsed
    /\ \A k \in Crawls : Handling(k, "extract") =>
          TokenKeys \X {Head(todo[k])} \subseteq redis \cup refused
=============================================================================
