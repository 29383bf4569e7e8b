----------------------------- MODULE MarketList -----------------------------
(***************************************************************************)
(* GET /v1/markets of the API service (GetMarkets in handlers/rest.go):    *)
(* pages of markets, by cursor, behind a cache in Redis.                   *)
(*                                                                         *)
(* A page not in the cache is put together from two tables: first the      *)
(* markets that were traded, latest first (getActivityRankedMarkets), then,*)
(* where these do not fill it, the markets discovered last                 *)
(* (getRecentMarkets).  The tables change between the queries.  A trade    *)
(* may be stored under the id of its market or under the condition id;     *)
(* Redis tells to which market a condition belongs.  A query or a lookup   *)
(* that fails counts as one without rows; a row that cannot be read is     *)
(* passed over; and rows that break off end like rows that are all read,   *)
(* for nobody asks for the error (rows.Err).                               *)
(*                                                                         *)
(* Left out: filters by exchange and status, the forwarding to Gamma, and  *)
(* what a summary says of its market.  The order of ids traded in the same *)
(* minute, which the database may choose, is covered by the order of       *)
(* trades.  A cursor is its offset, which is all it encodes.               *)
(***************************************************************************)
EXTENDS Naturals, Sequences, FiniteSets, SequencesExt

CONSTANTS
    Markets,
    Conditions,     \* condition ids that trades are stored under
    MarketOf,       \* condition -> its market
    Requests,       \* requests in progress at a time
    Limit,          \* markets on a page (50)
    RankRows,       \* rows of the activity query (at least 500)
    RecentRows,     \* rows of the metadata query (at least 200)
    TTL,            \* life of a cached page, in ticks (30 s)
    MaxTraded,      \* bound: ids with trades
    MaxRows,        \* bound: rows of market_metadata
    Pages           \* bound: request -> pages its client asks for

ASSUME MarketsAssumption ==
    /\ MarketOf \in [Conditions -> Markets]
    /\ Conditions \cap Markets = {}
ASSUME BoundsAssumption ==
    /\ {Limit, RankRows, RecentRows, TTL} \subseteq Nat \ {0}
    /\ Pages \in [Requests -> Nat \ {0}]
    /\ MaxTraded \in Nat /\ MaxRows \in Nat

Ids == Markets \cup Conditions
OffsetsOf(r) == {p * Limit : p \in 0 .. Pages[r] - 1}
Offsets == UNION {OffsetsOf(r) : r \in Requests}

\* No page is cached.
NoPage == [page |-> <<>>, age |-> TTL]

\* A client that was sent a page.
Idle(o, page) == [at |-> "idle", offset |-> o, rows |-> <<>>, found |-> <<>>,
                  page |-> page, visible |-> {}]

VARIABLES
    activity,       \* ids in price_history_1m, the one traded last first
    metadata,       \* markets of the rows of market_metadata, newest first
    known,          \* conditions that Redis maps to their market
    cache,          \* offset -> cached page and its age
    req             \* request -> where it is and what it has; between two
                    \* requests, the page that was sent, with its offset
tables == <<activity, metadata, known>>
vars == <<tables, cache, req>>

Init ==
    /\ activity = <<>>
    /\ metadata = <<>>
    /\ known = {}
    /\ cache = [o \in Offsets |-> NoPage]
    /\ req = [r \in Requests |-> Idle(0, <<>>)]

First(n, s) == SubSeq(s, 1, IF Len(s) < n THEN Len(s) ELSE n)
Newest == First(RecentRows, metadata)

-----------------------------------------------------------------------------
(* The other services *)

\* A trade is counted in the row of its id (storage and the aggregator).
Trade(id) ==
    /\ \/ /\ id \notin ToSet(activity) /\ Len(activity) < MaxTraded
          /\ activity' = <<id>> \o activity
       \/ \E i \in 1 .. Len(activity) :
             activity[i] = id /\ activity' = <<id>> \o RemoveAt(activity, i)
    /\ UNCHANGED <<metadata, known, cache, req>>

\* persistMarketMetadata adds a row for every message of discovery.
Persist(m) ==
    /\ Len(metadata) < MaxRows
    /\ metadata' = <<m>> \o metadata
    /\ UNCHANGED <<activity, known, cache, req>>

\* Discovery writes condition:..:market_id.
MapCondition(c) ==
    /\ c \notin known
    /\ known' = known \cup {c}
    /\ UNCHANGED <<activity, metadata, cache, req>>

-----------------------------------------------------------------------------
(* The cache.  A name ending in Faulty is a mistake the code does not make,  *)
(* checked to break a property below.                                        *)

Cached(o) == cache[o].age < TTL

\* Pages would be cached for good.
AgedFaulty(e) == e

\* Redis forgets a page when its time is up.
Aged(e) == IF e.age + 1 < TTL THEN [e EXCEPT !.age = @ + 1] ELSE NoPage

Tick ==
    /\ \E o \in Offsets : Cached(o)
    /\ cache' = [o \in Offsets |-> Aged(cache[o])]
    /\ UNCHANGED <<tables, req>>

Hit(r, o) ==
    /\ req[r].at = "idle"
    /\ Cached(o)
    /\ req' = [req EXCEPT ![r] = Idle(o, cache[o].page)]
    /\ UNCHANGED <<tables, cache>>

\* Nothing is cached, or Redis does not answer.
Miss(r, o) ==
    /\ req[r].at = "idle"
    /\ req' = [req EXCEPT ![r] = [Idle(o, <<>>) EXCEPT !.at = "rank"]]
    /\ UNCHANGED <<tables, cache>>

-----------------------------------------------------------------------------
(* Markets by activity *)

Target(q) == q.offset + Limit

ShortFaulty(page) == page = <<>>

Short(page) == Len(page) < Limit

HasMore(page) == Len(page) = Limit

\* What is left of the ranked markets for the page; it may need filling.
\* visible is for the sake of EndMeansAll: the markets that the metadata query
\* would find now.
Cut(q) ==
    LET page == SubSeq(q.found, q.offset + 1,
                       IF Len(q.found) < Target(q) THEN Len(q.found)
                       ELSE Target(q))
    IN  [q EXCEPT !.page = page, !.rows = <<>>, !.found = <<>>,
                  !.at = IF Short(page) THEN "fill" ELSE "store",
                  !.visible = IF HasMore(page) THEN {} ELSE ToSet(Newest)]

RankedOnFaulty(q) == IF Len(q.found) >= Target(q) THEN Cut(q) ELSE q

\* The loop over the rows ends when the rows do, or the target is reached.
RankedOn(q) == IF q.rows = <<>> \/ Len(q.found) >= Target(q) THEN Cut(q) ELSE q

Rank(r) ==
    /\ req[r].at = "rank"
    /\ req' = [req EXCEPT ![r] =
                 RankedOn([@ EXCEPT !.at = "ranked",
                                    !.rows = First(RankRows, activity)])]
    /\ UNCHANGED <<tables, cache>>

\* The query fails: no ranked markets.
RankFails(r) ==
    /\ req[r].at = "rank"
    /\ req' = [req EXCEPT ![r] = Cut(@)]
    /\ UNCHANGED <<tables, cache>>

\* resolveCanonicalMarketID, if Redis answers; otherwise an id stands for
\* itself.
Canonical(id) == IF id \in known THEN MarketOf[id] ELSE id

SeenFaulty(q, id) == id \in ToSet(q.found)

\* The market of the row is on the list already.
Seen(q, id) == Canonical(id) \in ToSet(q.found)

\* A row is listed under its market, if the market has metadata.
TakeRanked(r) ==
    LET q == req[r]
        id == Head(q.rows)
    IN  /\ q.at = "ranked"
        /\ Canonical(id) \in ToSet(metadata)
        /\ ~Seen(q, id)
        /\ req' = [req EXCEPT ![r] =
                     RankedOn([q EXCEPT !.rows = Tail(@),
                                        !.found = Append(@, Canonical(id))])]
        /\ UNCHANGED <<tables, cache>>

\* It is passed over if it is on the list, if it has no metadata, if Redis or
\* the database does not say so, or if it cannot be read.
SkipRanked(r) ==
    LET q == req[r] IN
    /\ q.at = "ranked"
    /\ req' = [req EXCEPT ![r] = RankedOn([q EXCEPT !.rows = Tail(@)])]
    /\ UNCHANGED <<tables, cache>>

\* The rows break off: the list ends.
RankedBreaks(r) ==
    /\ req[r].at = "ranked"
    /\ req' = [req EXCEPT ![r] = Cut(@)]
    /\ UNCHANGED <<tables, cache>>

-----------------------------------------------------------------------------
(* Markets discovered last *)

Full(q) == Len(q.page) >= Limit

FilledOn(q) ==
    IF Full(q) THEN [q EXCEPT !.rows = <<>>, !.at = "store", !.visible = {}]
    ELSE IF q.rows = <<>> THEN [q EXCEPT !.at = "store"]
    ELSE q

\* A market that other rows crowded out meanwhile is not visible any more.
Fill(r) ==
    LET q == req[r] IN
    /\ q.at = "fill"
    /\ req' = [req EXCEPT ![r] =
                 FilledOn([q EXCEPT !.at = "recent", !.rows = Newest,
                                    !.visible = @ \cap ToSet(Newest)])]
    /\ UNCHANGED <<tables, cache>>

\* The page stays as short as it is.
EndShort(q) == [q EXCEPT !.at = "store", !.rows = <<>>, !.visible = {}]

\* The query fails.
FillFails(r) ==
    /\ req[r].at = "fill"
    /\ req' = [req EXCEPT ![r] = EndShort(@)]
    /\ UNCHANGED <<tables, cache>>

TakeRecent(r) ==
    LET q == req[r]
        m == Head(q.rows)
    IN  /\ q.at = "recent"
        /\ req' = [req EXCEPT ![r] =
                     FilledOn([q EXCEPT
                        !.rows = Tail(@),
                        !.page = IF m \in ToSet(@) THEN @ ELSE Append(@, m)])]
        /\ UNCHANGED <<tables, cache>>

\* A row of a market that is not on the page cannot be read (of one that is,
\* nobody would notice): unless another row follows, the market is missed.
SkipRecent(r) ==
    LET q == req[r]
        m == Head(q.rows)
    IN  /\ q.at = "recent"
        /\ m \notin ToSet(q.page)
        /\ req' = [req EXCEPT ![r] =
                     FilledOn([q EXCEPT
                        !.rows = Tail(@),
                        !.visible = IF m \in ToSet(Tail(q.rows)) THEN @
                                    ELSE @ \ {m}])]
        /\ UNCHANGED <<tables, cache>>

\* The rows break off, and with them a market that is not on the page.
RecentBreaks(r) ==
    LET q == req[r] IN
    /\ q.at = "recent"
    /\ ~ToSet(q.rows) \subseteq ToSet(q.page)
    /\ req' = [req EXCEPT ![r] = EndShort(q)]
    /\ UNCHANGED <<tables, cache>>

-----------------------------------------------------------------------------
(* The answer *)

\* The page is cached, unless Redis refuses, and sent.
Store(r) ==
    LET q == req[r] IN
    /\ q.at = "store"
    /\ cache' \in {cache, [cache EXCEPT ![q.offset] = [page |-> q.page, age |-> 0]]}
    /\ req' = [req EXCEPT ![r] = Idle(q.offset, q.page)]
    /\ UNCHANGED tables

\* The first page, or one whose cursor a page with more to come held.
Ask(r) ==
    \E o \in OffsetsOf(r) :
        /\ \/ o = 0
           \/ req[r].offset + Limit = o /\ HasMore(req[r].page)
        /\ Hit(r, o) \/ Miss(r, o)

Handle(r) ==
    \/ Rank(r) \/ RankFails(r) \/ TakeRanked(r) \/ SkipRanked(r)
    \/ RankedBreaks(r)
    \/ Fill(r) \/ FillFails(r) \/ TakeRecent(r) \/ SkipRecent(r) \/ RecentBreaks(r)
    \/ Store(r)

Next ==
    \/ \E id \in Ids : Trade(id)
    \/ \E m \in Markets : Persist(m)
    \/ \E c \in Conditions : MapCondition(c)
    \/ Tick
    \/ \E r \in Requests : Ask(r) \/ Handle(r)

Spec == Init /\ [][Next]_vars

(* Fairness.  Time passes and a request that has come is handled, for every *)
(* query ends, with rows or with an error (the clients of ClickHouse and     *)
(* Redis give up after a time).  Nobody has to ask.                          *)
FairSpec ==
    /\ Spec
    /\ WF_cache(Tick)
    /\ \A r \in Requests : WF_req(Handle(r))

-----------------------------------------------------------------------------
(* Properties *)

Request == [at : {"idle", "rank", "ranked", "fill", "recent", "store"},
            offset : Offsets, rows : Seq(Ids), found : Seq(Markets),
            page : Seq(Markets), visible : SUBSET Markets]

Typed(q) ==
    /\ Len(q.page) <= Limit
    /\ q.at \in {"ranked", "recent"} => Len(q.rows) > 0
    /\ q.at = "ranked" => Len(q.found) < Target(q)
    /\ q.at \in {"fill", "recent"} => Len(q.page) < Limit
    /\ q.at = "recent" => q.rows \in Seq(Markets)

TypeOK ==
    /\ activity \in Seq(Ids)
    /\ metadata \in Seq(Markets) /\ Len(metadata) <= MaxRows
    /\ known \subseteq Conditions
    /\ cache \in [Offsets -> [page : Seq(Markets), age : 0 .. TTL]]
    /\ \A o \in Offsets : Len(cache[o].page) <= Limit
    /\ req \in [Requests -> Request]
    /\ \A r \in Requests : Typed(req[r])

Distinct(s) == \A i, j \in 1 .. Len(s) : s[i] = s[j] => i = j

\* No page names a market twice, although a market may be traded under two
\* ids, has many rows of metadata and may be in both tables, and although
\* its condition may be mapped, and rows be added, while the page is put
\* together (lines 123-164 and 186-249).
NoTwiceOnPage ==
    /\ \A r \in Requests : Distinct(req[r].page)
    /\ \A o \in Offsets : Distinct(cache[o].page)

\* A page that says there is no more has every market that the metadata
\* query could see from the end of the first query on, unless the metadata query
\* failed or its rows broke off, and but for a market none of whose rows could be
\* read (lines 77-89 and 222-270).  In these cases the code sends, and caches, a
\* last page that is short of markets; in no other, whatever fails in the first
\* query or in the lookups for its rows.
EndMeansAll ==
    \A r \in Requests :
        req[r].at = "store" /\ ~HasMore(req[r].page)
            => req[r].visible \subseteq ToSet(req[r].page)

Listed == ToSet(metadata)

\* A page in the cache hides a market for a time only, even from a client that
\* never stops asking (lines 66-72 and 89-91), and also when a slow request
\* caches a page that is older than the one it replaces: once the metadata query
\* finds no further markets, the clients that go on asking for the first page
\* have them all, if they fit on it, in every answer in the end; unless that
\* query fails, its rows break off or one of them cannot be read, for ever.
ShowsInTheEnd ==
    (/\ <>[][/\ ToSet(Newest)' = ToSet(Newest)
             /\ ~\E r \in Requests :
                   FillFails(r) \/ SkipRecent(r) \/ RecentBreaks(r)]_vars
     /\ \A r \in Requests : []<><<Ask(r)>>_vars)
    => <>[](\A r \in Requests :
               /\ req[r].at = "idle" /\ req[r].offset = 0
               /\ Cardinality(Listed) <= Limit
               => ToSet(Newest) \subseteq ToSet(req[r].page))

-----------------------------------------------------------------------------
(* Inductive invariant, for the proofs in MarketListProofs *)

\* Why NoTwiceOnPage and EndMeansAll hold.  The list that a page is cut from
\* names no market twice either; and a market that is to be seen is on the
\* page, or among the rows that are left, as long as there is room.
Good(q) ==
    /\ Distinct(q.found) /\ Distinct(q.page)
    /\ q.at = "recent" =>
          q.visible \subseteq ToSet(q.page) \cup ToSet(q.rows)
    /\ q.at = "store" /\ ~HasMore(q.page) => q.visible \subseteq ToSet(q.page)

ListInv ==
    /\ \A r \in Requests : Good(req[r])
    /\ \A o \in Offsets : Distinct(cache[o].page)
=============================================================================
