----------------------------- MODULE MarketFeed -----------------------------
(***************************************************************************)
(* What the WebSocket gateway promises its clients, without channels,      *)
(* goroutines or buffers.                                                  *)
(*                                                                         *)
(* There is ONE order of messages, log.  A client that joins reads log     *)
(* from the position it joined at, one message after the other; a message  *)
(* its filter wants is added to its feed, one it does not want is passed   *)
(* over.  The gateway may expel a client at any moment, but it may never   *)
(* skip a wanted message of a client it keeps, reorder two messages, or    *)
(* take a client back.  What the client has seen is a prefix of its feed.  *)
(***************************************************************************)
EXTENDS Naturals, Sequences

CONSTANTS
    Clients,        \* WebSocket connections
    Markets,        \* market identifiers
    NoMarket,       \* the empty market id: a message for everybody
    Msg             \* messages: records with a field market

VARIABLES
    log,            \* messages in the order the gateway processed them
    status,         \* client -> "new" | "online" | "gone"
    filter,         \* client -> set of markets; {} means every market
    cursor,         \* client -> how much of log the client has been offered
    feed,           \* client -> messages accepted for the client
    seen            \* client -> messages written to the client's connection

vars == <<log, status, filter, cursor, feed, seen>>

\* TRUE iff a client with filter f receives message m.
Wanted(f, m) == f = {} \/ m.market = NoMarket \/ m.market \in f

Init ==
    /\ log = <<>>
    /\ status = [c \in Clients |-> "new"]
    /\ filter = [c \in Clients |-> {}]
    /\ cursor = [c \in Clients |-> 0]
    /\ feed = [c \in Clients |-> <<>>]
    /\ seen = [c \in Clients |-> <<>>]

\* The gateway fixes the next message of the common order.
Publish ==
    /\ \E m \in Msg : log' = Append(log, m)
    /\ UNCHANGED <<status, filter, cursor, feed, seen>>

Join(c) ==
    /\ status[c] = "new"
    /\ status' = [status EXCEPT ![c] = "online"]
    /\ cursor' = [cursor EXCEPT ![c] = Len(log)]
    /\ UNCHANGED <<log, filter, feed, seen>>

\* The client is offered its next message: it may not be skipped if wanted.
Advance(c) ==
    /\ status[c] = "online"
    /\ cursor[c] < Len(log)
    /\ cursor' = [cursor EXCEPT ![c] = @ + 1]
    /\ LET m == log[cursor[c] + 1]
       IN feed' = IF Wanted(filter[c], m)
                  THEN [feed EXCEPT ![c] = Append(@, m)]
                  ELSE feed
    /\ UNCHANGED <<log, status, filter, seen>>

\* A new filter takes effect between two messages of the common order.
Refilter(c) ==
    /\ status[c] = "online"
    /\ cursor[c] = Len(log)
    /\ \E f \in SUBSET Markets : filter' = [filter EXCEPT ![c] = f]
    /\ UNCHANGED <<log, status, cursor, feed, seen>>

\* Disconnected, or expelled because it is too slow.  There is no way back.
Leave(c) ==
    /\ status[c] = "online"
    /\ status' = [status EXCEPT ![c] = "gone"]
    /\ cursor' = [cursor EXCEPT ![c] = 0]
    /\ UNCHANGED <<log, filter, feed, seen>>

\* Some more of the feed reaches the connection.
Deliver(c) ==
    /\ \E n \in (Len(seen[c]) + 1) .. Len(feed[c]) :
          seen' = [seen EXCEPT ![c] = SubSeq(feed[c], 1, n)]
    /\ UNCHANGED <<log, status, filter, cursor, feed>>

Next ==
    \/ Publish
    \/ \E c \in Clients :
          Join(c) \/ Advance(c) \/ Refilter(c) \/ Leave(c) \/ Deliver(c)

Spec == Init /\ [][Next]_vars
=============================================================================
