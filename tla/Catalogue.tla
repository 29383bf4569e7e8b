------------------------------ MODULE Catalogue ------------------------------
(***************************************************************************)
(* The way of a market from discovery to the API: the discovery service    *)
(* publishes what it finds to predsx.markets.discovered, a topic of one    *)
(* partition, the storage service adds a row to market_metadata for every  *)
(* message, and the API reads the newest row of a market (GetMarket,       *)
(* getMarketMetadata) and the rows of its event (GetRelatedMarkets).       *)
(*                                                                         *)
(* Both crawls publish a market.  The crawl of events fills in the id of   *)
(* the event where Polymarket leaves it out; the crawl of markets does     *)
(* not.  Rows are added and never changed.                                 *)
(*                                                                         *)
(* Discovery and storage fail separately.  The consumer's offset is        *)
(* committed when a message is read, and the error of the insert is        *)
(* logged.  Of a row only the market and the id of the event are kept, and *)
(* of the table the newest row of each market and the newest RowLimit rows *)
(* of its siblings: one consumer inserts the rows one after another, so    *)
(* created_at puts them in that order (as long as the clock of the service *)
(* goes on between two inserts).                                           *)
(***************************************************************************)
EXTENDS Discovery

CONSTANTS
    NoEvent, NoRow,
    OwnEvent,       \* market -> event that the list of markets names, or NoEvent
    RowLimit,       \* rows that a request for related markets asks for (20, at most 100)
    MaxLost,        \* bound: markets that lose messages
    MaxQueued       \* bound: messages that the consumer has not read

\* The event of which m is a market.
EventOf(m) ==
    IF \E e \in Events : m \in ToSet(Members[e])
    THEN CHOOSE e \in Events : m \in ToSet(Members[e]) ELSE NoEvent

ASSUME EventsAssumption ==
    /\ NoEvent \notin Events /\ NoRow \notin Events \cup {NoEvent}
    /\ \A e, f \in Events : ToSet(Members[e]) \cap ToSet(Members[f]) # {} => e = f
    /\ OwnEvent \in [Markets -> Events \cup {NoEvent}]
    /\ \A m \in Markets : OwnEvent[m] \in {NoEvent, EventOf(m)}
    /\ RowLimit \in Nat \ {0} /\ MaxLost \in Nat /\ MaxQueued \in Nat \ {0}

VARIABLES
    discovered,     \* messages of the topic behind the consumer's offset
    newest,         \* market -> event in its newest row, or NoRow
    siblings,       \* market -> markets of the rows that name its event, its own
                    \* rows left out, newest first, RowLimit of them
    lost            \* history: markets of messages that came to no row

table == <<newest, siblings>>
catVars == <<vars, discovered, table, lost>>

CatInit ==
    /\ Init
    /\ discovered = <<>>
    /\ newest = [m \in Markets |-> NoRow] 
    /\ siblings = [m \in Markets |-> <<>>]
    /\ lost = {}

-----------------------------------------------------------------------------
(* Discovery.  A name ending in Faulty is a mistake the code does not make,  *)
(* checked to break a property below.                                        *)

EventIdFaulty(k, m) == OwnEvent[m]

\* discoverEvents guarantees the id of the event.
EventId(k, m) ==
    IF k = "events" /\ OwnEvent[m] = NoEvent THEN EventOf(m) ELSE OwnEvent[m]

Announce(k) ==
    /\ PublishMarket(k)
    /\ Len(discovered) < MaxQueued
    /\ LET m == Head(todo[k])
       IN discovered' = Append(discovered, [market |-> m, event |-> EventId(k, m)])
    /\ UNCHANGED <<table, lost>>

\* The error is logged, and the crawl goes on with the market.
AnnounceFails(k) ==
    /\ PublishMarket(k)
    /\ lost' = lost \cup {Head(todo[k])}
    /\ Cardinality(lost') <= MaxLost
    /\ UNCHANGED <<discovered, table>>

-----------------------------------------------------------------------------
(* Storage: Fetch, then persistMarketMetadata *)

\* ORDER BY created_at DESC LIMIT RowLimit.
Newest(rows) ==
    SubSeq(rows, 1, IF Len(rows) > RowLimit THEN RowLimit ELSE Len(rows))

\* Only markets in an event would get a row.
AddRowFaulty(m, e) ==
    /\ newest' = IF e = NoEvent THEN newest ELSE [newest EXCEPT ![m] = e]
    /\ siblings' = [x \in Markets |->
                      IF x # m /\ e # NoEvent /\ e = EventOf(x)
                      THEN Newest(<<m>> \o siblings[x]) ELSE siblings[x]]

AddRow(m, e) ==
    /\ newest' = [newest EXCEPT ![m] = e]
    /\ siblings' = [x \in Markets |->
                      IF x # m /\ e # NoEvent /\ e = EventOf(x)
                      THEN Newest(<<m>> \o siblings[x]) ELSE siblings[x]]

Persist ==
    /\ discovered # <<>>
    /\ discovered' = Tail(discovered)
    /\ AddRow(Head(discovered).market, Head(discovered).event)
    /\ UNCHANGED <<vars, lost>>

\* The insert fails, or the process ends between reading and inserting.
PersistFails ==
    /\ discovered # <<>>
    /\ discovered' = Tail(discovered)
    /\ lost' = lost \cup {Head(discovered).market}
    /\ Cardinality(lost') <= MaxLost
    /\ UNCHANGED <<vars, table>>

-----------------------------------------------------------------------------
(* The API *)

\* GetMarket: only a market that Redis has in predsx:markets is found; what is
\* said of it is its newest row.
Found(m) == <<"member", m>> \in redis
Detail(m) == newest[m]

\* GetRelatedMarkets: the newest RowLimit rows, not markets, that name the
\* event of the newest row of m.
Related(m) == IF newest[m] \in Events THEN ToSet(siblings[m]) ELSE {}

-----------------------------------------------------------------------------

CatHandle(k) ==
    \/ Announce(k) \/ AnnounceFails(k)
    \/ /\ MapTokens(k) \/ ExtractTokens(k) \/ StoreMetadata(k)
       /\ UNCHANGED <<discovered, table, lost>>

CatNext ==
    \/ \E k \in Crawls : CatHandle(k)
    \/ Persist \/ PersistFails
    \/ /\ \/ \E k \in Crawls :
               \/ FetchPage(k) \/ FetchEmptyPage(k) \/ FetchGivesUp(k)
               \/ \E x \in Listed(k) : Open(k, x) \/ Close(k, x)
          \/ Evict \/ NextRound \/ Crash
       /\ UNCHANGED <<discovered, table, lost>>

CatSpec == CatInit /\ [][CatNext]_catVars

(* Fairness.  As in Discovery; and the consumer reads on.                   *)
CatFairSpec ==
    /\ CatSpec
    /\ \A k \in Crawls : WF_catVars(CatHandle(k))
    /\ WF_catVars(NextRound /\ UNCHANGED <<discovered, table, lost>>)
    /\ WF_catVars(Persist \/ PersistFails)

-----------------------------------------------------------------------------
(* Properties *)

\* A message about m is in the topic.
Waiting(m) == \E i \in 1 .. Len(discovered) : discovered[i].market = m

\* A market that GetMarket finds has a row to be described by, which comes from
\* another store by another service (rest.go 286 and 302): the row is there,
\* or on its way in the topic, unless a message about the market was lost.
MemberHasRow ==
    \A m \in Markets :
        Found(m) => Detail(m) # NoRow \/ Waiting(m) \/ m \in lost

NothingLost == ~(PersistFails \/ \E k \in Crawls : AnnounceFails(k))

\* The crawl of markets hides the event of a market from the API, and every
\* crawl adds rows that push the row of a sibling behind the limit, but neither
\* for good (main.go 207 and 341-344, rest.go 1652-1661): the markets of an
\* event that stays listed are related to each other again and again, if each
\* request asks for more than two rows per other sibling, if messages are lost
\* and requests of the crawl of events fail finitely often, and no request
\* hangs.  A request for fewer rows may miss a sibling every time.
SiblingsReturn ==
    (/\ <>[][NothingLost /\ ~FetchGivesUp("events")]_catVars
     /\ \A k \in Crawls : []<>(phase[k] # "fetch"))
    => \A e \in Events :
          RowLimit > 2 * (Len(Members[e]) - 2) =>
             (<>[](e \in ToSet(listing["events"]))
              => \A m, s \in ToSet(Members[e]) :
                    m # s => []<>(s \in Related(m)))
=============================================================================
