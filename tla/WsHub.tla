------------------------------- MODULE WsHub --------------------------------
(***************************************************************************)
(* The WebSocket gateway of the API service (services/api/ws).             *)
(*                                                                         *)
(* Goroutines and what they share:                                         *)
(*   - the hub (Hub.Run): the only one that touches the map of clients,    *)
(*     the subscription sets and the sending end of every client's buffer; *)
(*   - per connection, ServeWS and then readPump (one program counter,     *)
(*     reader, since the second starts where the first ends) and writePump;*)
(*   - one broadcaster per Kafka topic (StartKafkaBroadcaster).            *)
(* They meet on Go channels: register and unregister are unbuffered, so a  *)
(* rendezvous is one step of both parties; subscribe, broadcast and the    *)
(* per-client send channel are bounded FIFO buffers.                       *)
(*                                                                         *)
(* Decisions.  The loop over the map of clients is taken one client at a   *)
(* time, in any order (Go's map order), so pumps run in the middle of it.  *)
(* writePump's inner loop over len(c.send) is one step: it is the only     *)
(* receiver.  A message is its source, its number in that source and its   *)
(* market.  A peer that closes, breaks a protocol limit or lets the pong   *)
(* deadline pass is PeerLeaves; a write may fail at any time (deadline,    *)
(* broken pipe).  Sending on, or closing, a closed channel panics in Go:   *)
(* the hub then enters state "panic" and stays there.                      *)
(***************************************************************************)
EXTENDS Naturals, Sequences, FiniteSets

CONSTANTS
    Clients,        \* connections that may be opened, each once
    Markets,        \* market identifiers
    NoMarket,       \* the empty string where a market id is expected
    Sources,        \* Kafka consumers of the broadcaster
    Requests,       \* "markets" lists that peers send; {} is "unsubscribe"
    SendCap,        \* capacity of client.send (256 in the code)
    BroadcastCap,   \* capacity of hub.broadcast (1024)
    SubscribeCap,   \* capacity of hub.subscribe (64)
    MaxMsgs,        \* bound: events each source fetches
    Stoppable       \* bound: whether the service may be told to stop

ASSUME RequestsAssumption == Requests \subseteq SUBSET (Markets \cup {NoMarket})
ASSUME NoMarketAssumption == NoMarket \notin Markets
ASSUME BoundsAssumption ==
    /\ SendCap \in Nat \ {0}
    /\ BroadcastCap \in Nat \ {0}
    /\ SubscribeCap \in Nat \ {0}
    /\ MaxMsgs \in Nat
    /\ Stoppable \in BOOLEAN

VARIABLES
    hub,            \* "select" | "fanout" | "stopped" | "panic"
    cancelled,      \* the service context has been cancelled
    clients,        \* keys of Hub.clients
    todo,           \* clients the current broadcast still has to visit
    subs,           \* client.subscriptions; {} = every market
    broadcast,      \* buffered contents of Hub.broadcast
    subscribe,      \* buffered contents of Hub.subscribe
    send,           \* buffered contents of client.send
    closed,         \* client.send has been closed
    reader,         \* ServeWS, then readPump
    writer,         \* writePump
    conn,           \* "none" | "open" | "lost" (peer left) | "closed" (by us)
    asked,          \* markets of the last command read from the peer
    frame,          \* messages of the WebSocket frame being written
    written,        \* messages in frames the connection accepted
    source,         \* broadcaster: "fetching" | "sending" | "stopped"
    event,          \* last event fetched by the source (n = 0: none yet)
    log             \* messages taken off broadcast; the last one is current

hubVars == <<hub, cancelled, clients, todo, subs>>
connVars == <<reader, writer, conn, asked, frame, written>>
sourceVars == <<source, event>>
vars == <<hub, cancelled, clients, todo, subs, broadcast, subscribe, send,
          closed, reader, writer, conn, asked, frame, written, source, event,
          log>>

Msg == [src : Sources, n : 0 .. MaxMsgs, market : Markets \cup {NoMarket}]
Cmd == [client : Clients, markets : SUBSET (Markets \cup {NoMarket})]

ReaderStates == {"none", "registering", "starting", "reading", "subscribing",
                 "unregistering", "closing", "done"}
WriterStates == {"none", "idle", "framing", "writing", "done"}

Init ==
    /\ hub = "select"
    /\ cancelled = FALSE
    /\ clients = {}
    /\ todo = {}
    /\ subs = [c \in Clients |-> {}]
    /\ broadcast = <<>>
    /\ subscribe = <<>>
    /\ send = [c \in Clients |-> <<>>]
    /\ closed = [c \in Clients |-> FALSE]
    /\ reader = [c \in Clients |-> "none"]
    /\ writer = [c \in Clients |-> "none"]
    /\ conn = [c \in Clients |-> "none"]
    /\ asked = [c \in Clients |-> {}]
    /\ frame = [c \in Clients |-> <<>>]
    /\ written = [c \in Clients |-> <<>>]
    /\ source = [s \in Sources |-> "fetching"]
    /\ event = [s \in Sources |-> [src |-> s, n |-> 0, market |-> NoMarket]]
    /\ log = <<>>

-----------------------------------------------------------------------------
(* Variants named ...Faulty are mistakes the code does not make; each is     *)
(* checked to break a property below, and no specification uses them.        *)

RoomFaulty(ch, cap) == Len(ch) <= cap

\* A send on buffered channel ch does not block.
Room(ch, cap) == Len(ch) < cap

-----------------------------------------------------------------------------
(* Connections: ServeWS and readPump *)

\* The upgrade succeeded and ServeWS waits to hand the client to the hub.
Connect(c) ==
    /\ reader[c] = "none"
    /\ reader' = [reader EXCEPT ![c] = "registering"]
    /\ conn' = [conn EXCEPT ![c] = "open"]
    /\ UNCHANGED <<hubVars, broadcast, subscribe, send, closed, writer, asked,
                   frame, written, sourceVars, log>>

\* ServeWS starts both pumps once the hub has taken the client.
StartPumps(c) ==
    /\ reader[c] = "starting"
    /\ reader' = [reader EXCEPT ![c] = "reading"]
    /\ writer' = [writer EXCEPT ![c] = "idle"]
    /\ UNCHANGED <<hubVars, broadcast, subscribe, send, closed, conn, asked,
                   frame, written, sourceVars, log>>

\* readPump reads a "subscribe" or "unsubscribe" command.
ReadCommand(c) ==
    /\ reader[c] = "reading"
    /\ conn[c] = "open"
    /\ \E r \in Requests : asked' = [asked EXCEPT ![c] = r]
    /\ reader' = [reader EXCEPT ![c] = "subscribing"]
    /\ UNCHANGED <<hubVars, broadcast, subscribe, send, closed, writer, conn,
                   frame, written, sourceVars, log>>

\* Hub.Subscribe: readPump blocks here while the channel is full.
SendCommand(c) ==
    /\ reader[c] = "subscribing"
    /\ Room(subscribe, SubscribeCap)
    /\ subscribe' = Append(subscribe, [client |-> c, markets |-> asked[c]])
    /\ reader' = [reader EXCEPT ![c] = "reading"]
    /\ UNCHANGED <<hubVars, broadcast, send, closed, writer, conn, asked,
                   frame, written, sourceVars, log>>

\* The peer goes away, violates the read limit or stops answering pings.
PeerLeaves(c) ==
    /\ conn[c] = "open"
    /\ conn' = [conn EXCEPT ![c] = "lost"]
    /\ UNCHANGED <<hubVars, broadcast, subscribe, send, closed, reader, writer,
                   asked, frame, written, sourceVars, log>>

ReadFailsFaulty(c) ==
    /\ reader[c] = "reading"
    /\ conn[c] \in {"lost", "closed"}
    /\ reader' = [reader EXCEPT ![c] = "closing"]
    /\ UNCHANGED <<hubVars, broadcast, subscribe, send, closed, writer, conn,
                   asked, frame, written, sourceVars, log>>

\* ReadMessage returns an error: the deferred function starts.
ReadFails(c) ==
    /\ reader[c] = "reading"
    /\ conn[c] \in {"lost", "closed"}
    /\ reader' = [reader EXCEPT ![c] = "unregistering"]
    /\ UNCHANGED <<hubVars, broadcast, subscribe, send, closed, writer, conn,
                   asked, frame, written, sourceVars, log>>

\* The deferred conn.Close, after the hub has taken the unregistration.
ReaderExits(c) ==
    /\ reader[c] = "closing"
    /\ reader' = [reader EXCEPT ![c] = "done"]
    /\ conn' = [conn EXCEPT ![c] = "closed"]
    /\ UNCHANGED <<hubVars, broadcast, subscribe, send, closed, writer, asked,
                   frame, written, sourceVars, log>>

-----------------------------------------------------------------------------
(* Connections: writePump *)

\* Receives a message and opens a frame with it.
OpenFrame(c) ==
    /\ writer[c] = "idle"
    /\ send[c] # <<>>
    /\ frame' = [frame EXCEPT ![c] = <<Head(send[c])>>]
    /\ send' = [send EXCEPT ![c] = Tail(@)]
    /\ writer' = [writer EXCEPT ![c] = "framing"]
    /\ UNCHANGED <<hubVars, broadcast, subscribe, closed, reader, conn, asked,
                   written, sourceVars, log>>

\* Adds whatever is buffered now to the same frame, newline-separated.
FillFrame(c) ==
    /\ writer[c] = "framing"
    /\ frame' = [frame EXCEPT ![c] = @ \o send[c]]
    /\ send' = [send EXCEPT ![c] = <<>>]
    /\ writer' = [writer EXCEPT ![c] = "writing"]
    /\ UNCHANGED <<hubVars, broadcast, subscribe, closed, reader, conn, asked,
                   written, sourceVars, log>>

\* w.Close() sends the frame.
FlushFrame(c) ==
    /\ writer[c] = "writing"
    /\ conn[c] # "closed"
    /\ written' = [written EXCEPT ![c] = @ \o frame[c]]
    /\ frame' = [frame EXCEPT ![c] = <<>>]
    /\ writer' = [writer EXCEPT ![c] = "idle"]
    /\ UNCHANGED <<hubVars, broadcast, subscribe, send, closed, reader, conn,
                   asked, sourceVars, log>>

\* A ping, NextWriter or w.Close() fails: writePump closes the connection.
WriteFails(c) ==
    /\ writer[c] \in {"idle", "framing", "writing"}
    /\ writer' = [writer EXCEPT ![c] = "done"]
    /\ conn' = [conn EXCEPT ![c] = "closed"]
    /\ UNCHANGED <<hubVars, broadcast, subscribe, send, closed, reader, asked,
                   frame, written, sourceVars, log>>

\* The channel is closed and drained: close message, then return.
WriterExits(c) ==
    /\ writer[c] = "idle"
    /\ closed[c]
    /\ send[c] = <<>>
    /\ writer' = [writer EXCEPT ![c] = "done"]
    /\ conn' = [conn EXCEPT ![c] = "closed"]
    /\ UNCHANGED <<hubVars, broadcast, subscribe, send, closed, reader, asked,
                   frame, written, sourceVars, log>>

-----------------------------------------------------------------------------
(* The broadcasters *)

\* Fetch returns an event of some market, or of none.
FetchEvent(s) ==
    /\ source[s] = "fetching"
    /\ event[s].n < MaxMsgs
    /\ \E m \in Markets \cup {NoMarket} :
          event' = [event EXCEPT ![s] =
                      [src |-> s, n |-> event[s].n + 1, market |-> m]]
    /\ source' = [source EXCEPT ![s] = "sending"]
    /\ UNCHANGED <<hubVars, broadcast, subscribe, send, closed, connVars, log>>

\* BroadcastToMarket blocks while the channel is full, cancelled or not.
SendEvent(s) ==
    /\ source[s] = "sending"
    /\ Room(broadcast, BroadcastCap)
    /\ broadcast' = Append(broadcast, event[s])
    /\ source' = [source EXCEPT ![s] = "fetching"]
    /\ UNCHANGED <<hubVars, subscribe, send, closed, connVars, event, log>>

\* The loop sees ctx.Done between two events.
SourceStops(s) ==
    /\ cancelled
    /\ source[s] = "fetching"
    /\ source' = [source EXCEPT ![s] = "stopped"]
    /\ UNCHANGED <<hubVars, broadcast, subscribe, send, closed, connVars,
                   event, log>>

-----------------------------------------------------------------------------
(* The hub: Hub.Run, one case of its select per action *)

HubRegister(c) ==
    /\ hub = "select"
    /\ reader[c] = "registering"
    /\ clients' = clients \cup {c}
    /\ reader' = [reader EXCEPT ![c] = "starting"]
    /\ UNCHANGED <<hub, cancelled, todo, subs, broadcast, subscribe, send,
                   closed, writer, conn, asked, frame, written, sourceVars,
                   log>>

CloseSendFaulty(c) == UNCHANGED <<closed, clients>>

\* close(client.send) and delete from the map.
CloseSend(c) ==
    /\ closed' = [closed EXCEPT ![c] = TRUE]
    /\ clients' = clients \ {c}

IsRegisteredFaulty(c) == TRUE

\* The client is still in the map.
IsRegistered(c) == c \in clients

\* Closing a channel that is closed already panics.
HubUnregister(c) ==
    /\ hub = "select"
    /\ reader[c] = "unregistering"
    /\ reader' = [reader EXCEPT ![c] = "closing"]
    /\ IF IsRegistered(c)
       THEN CloseSend(c) /\ hub' = IF closed[c] THEN "panic" ELSE hub
       ELSE UNCHANGED <<hub, clients, closed>>
    /\ UNCHANGED <<cancelled, todo, subs, broadcast, subscribe, send, writer,
                   conn, asked, frame, written, sourceVars, log>>

FilterFaulty(c, markets) == subs[c] \cup (markets \ {NoMarket})

\* The subscription set that a command of client c installs.
Filter(c, markets) == markets \ {NoMarket}

\* A command replaces the subscription set of a client that is still here.
HubSubscribe ==
    /\ hub = "select"
    /\ subscribe # <<>>
    /\ subscribe' = Tail(subscribe)
    /\ LET cmd == Head(subscribe)
       IN subs' = IF IsRegistered(cmd.client)
                  THEN [subs EXCEPT ![cmd.client] =
                          Filter(cmd.client, cmd.markets)]
                  ELSE subs
    /\ UNCHANGED <<hub, cancelled, clients, todo, broadcast, send, closed,
                   connVars, sourceVars, log>>

\* Takes the next message off the channel and starts to visit the clients.
HubBroadcast ==
    /\ hub = "select"
    /\ broadcast # <<>>
    /\ broadcast' = Tail(broadcast)
    /\ log' = Append(log, Head(broadcast))
    /\ todo' = clients
    /\ hub' = IF clients = {} THEN "select" ELSE "fanout"
    /\ UNCHANGED <<cancelled, clients, subs, subscribe, send, closed, connVars,
                   sourceVars>>

\* TRUE iff client c is to receive message m.
Wants(c, m) == subs[c] = {} \/ m.market = NoMarket \/ m.market \in subs[c]

OverflowsFaulty(c) == FALSE

\* The select falls through to its default: the buffer is full.
Overflows(c) == ~Room(send[c], SendCap)

\* One iteration of the loop over the clients: skip, send, or drop.  A send
\* on a closed channel panics, in a select with a default too.
HubOffer(c) ==
    /\ hub = "fanout"
    /\ c \in todo
    /\ todo' = todo \ {c}
    /\ LET m == log[Len(log)]
           after == IF todo = {c} THEN "select" ELSE "fanout"
       IN \/ /\ ~Wants(c, m)
             /\ hub' = after
             /\ UNCHANGED <<clients, closed, send>>
          \/ /\ Wants(c, m)
             /\ Room(send[c], SendCap)
             /\ send' = [send EXCEPT ![c] = Append(@, m)]
             /\ hub' = IF closed[c] THEN "panic" ELSE after
             /\ UNCHANGED <<clients, closed>>
          \/ /\ Wants(c, m)
             /\ Overflows(c)
             /\ CloseSend(c)
             /\ hub' = IF closed[c] THEN "panic" ELSE after
             /\ UNCHANGED send
    /\ UNCHANGED <<cancelled, subs, broadcast, subscribe, connVars, sourceVars,
                   log>>

\* The service is told to stop.
Cancel ==
    /\ Stoppable
    /\ ~cancelled
    /\ cancelled' = TRUE
    /\ UNCHANGED <<hub, clients, todo, subs, broadcast, subscribe, send,
                   closed, connVars, sourceVars, log>>

\* Run returns; no deferred call wakes those who wait on its channels.
HubStops ==
    /\ hub = "select"
    /\ cancelled
    /\ hub' = "stopped"
    /\ UNCHANGED <<cancelled, clients, todo, subs, broadcast, subscribe, send,
                   closed, connVars, sourceVars, log>>

-----------------------------------------------------------------------------

HubNext ==
    \/ HubSubscribe
    \/ HubBroadcast
    \/ HubStops
    \/ \E c \in Clients : HubRegister(c) \/ HubUnregister(c) \/ HubOffer(c)

ConnNext(c) ==
    \/ Connect(c) \/ StartPumps(c) \/ ReadCommand(c) \/ SendCommand(c)
    \/ PeerLeaves(c) \/ ReadFails(c) \/ ReaderExits(c)
    \/ OpenFrame(c) \/ FillFrame(c) \/ FlushFrame(c) \/ WriteFails(c)
    \/ WriterExits(c)

SourceNext(s) == FetchEvent(s) \/ SendEvent(s) \/ SourceStops(s)

Next ==
    \/ Cancel
    \/ HubNext
    \/ \E c \in Clients : ConnNext(c)
    \/ \E s \in Sources : SourceNext(s)

Spec == Init /\ [][Next]_vars

(***************************************************************************)
(* Fairness.  Goroutines are scheduled, so a step that stays possible is   *)
(* taken.  Go picks at random among the ready cases of a select and serves *)
(* the goroutines blocked on a channel in FIFO order: a case of the hub    *)
(* and a blocked sender that are ready again and again get their turn.     *)
(* (Weak fairness is enough for HubBroadcast: nothing else leaves the      *)
(* select for another state in which the hub goes on.)                     *)
(***************************************************************************)
HubFairness ==
    /\ SF_vars(HubSubscribe) /\ WF_vars(HubBroadcast)
    /\ \A c \in Clients : WF_vars(HubOffer(c))

SourceFairness == \A s \in Sources : SF_vars(SendEvent(s))

(* The reader waits on one channel at a time.  Pumps of an open connection  *)
(* may be as slow as they like.  On one that is lost, a read ends with the  *)
(* pong deadline and a write with the write deadline, one way or the other. *)
PumpFairness ==
    \A c \in Clients :
        /\ SF_vars(HubRegister(c) \/ SendCommand(c) \/ HubUnregister(c))
        /\ WF_vars(StartPumps(c) \/ ReadFails(c) \/ ReaderExits(c))
        /\ WF_vars(/\ conn[c] # "open"
                   /\ \/ OpenFrame(c) \/ FillFrame(c) \/ WriterExits(c)
                      \/ FlushFrame(c)
                      \/ writer[c] = "writing" /\ WriteFails(c))

FairSpec == Spec /\ HubFairness /\ SourceFairness /\ PumpFairness

-----------------------------------------------------------------------------
(* Properties *)

\* Every variable has its type and every Go channel respects its capacity.
TypeOK ==
    /\ hub \in {"select", "fanout", "stopped", "panic"}
    /\ cancelled \in BOOLEAN
    /\ clients \subseteq Clients
    /\ todo \subseteq Clients
    /\ subs \in [Clients -> SUBSET Markets]
    /\ broadcast \in Seq(Msg) /\ Len(broadcast) <= BroadcastCap
    /\ subscribe \in Seq(Cmd) /\ Len(subscribe) <= SubscribeCap
    /\ send \in [Clients -> Seq(Msg)]
    /\ \A c \in Clients : Len(send[c]) <= SendCap
    /\ closed \in [Clients -> BOOLEAN]
    /\ reader \in [Clients -> ReaderStates]
    /\ writer \in [Clients -> WriterStates]
    /\ conn \in [Clients -> {"none", "open", "lost", "closed"}]
    /\ asked \in [Clients -> SUBSET (Markets \cup {NoMarket})]
    /\ frame \in [Clients -> Seq(Msg)]
    /\ written \in [Clients -> Seq(Msg)]
    /\ source \in [Sources -> {"fetching", "sending", "stopped"}]
    /\ event \in [Sources -> Msg]
    /\ log \in Seq(Msg)
    /\ hub = "fanout" => Len(log) > 0   \* the message being fanned out

\* The hub never sends on a closed channel and never closes one twice, in
\* whatever order slow-client drops, disconnections and broadcasts meet
\* (Hub.Run lines 54-59 and 70-84); a panic would take the service down.
NoPanic == hub # "panic"

\* A command of client c waits in the subscribe channel.
Queued(c) == \E i \in 1 .. Len(subscribe) : subscribe[i].client = c

\* The filter of a connected client is the last one its peer asked for, as
\* soon as no command is on its way: none is lost (the client is registered
\* before its reader starts) and none is overtaken (the channel is FIFO).
LastRequestWins ==
    \A c \in clients :
        reader[c] # "subscribing" /\ ~Queued(c)
            => subs[c] = asked[c] \ {NoMarket}

\* What client c has been given so far, delivered or not.
Feed(c) == written[c] \o frame[c] \o send[c]

\* Where client c stands, and how much of the log it has been offered.
Status(c) ==
    IF c \in clients THEN "online"
    ELSE IF reader[c] \in {"none", "registering"} THEN "new"
    ELSE "gone"
Cursor(c) ==
    IF c \notin clients THEN 0
    ELSE IF c \in todo THEN Len(log) - 1 ELSE Len(log)

Promise == INSTANCE MarketFeed WITH
    status <- [c \in Clients |-> Status(c)],
    filter <- subs,
    cursor <- [c \in Clients |-> Cursor(c)],
    feed <- [c \in Clients |-> Feed(c)],
    seen <- written

\* The gateway implements the promise of MarketFeed: one common order, no
\* message skipped for a client that is kept, nobody taken back, delivery of
\* a prefix, a new filter between two messages.
ImplementsFeed == Promise!Spec

\* A client that hangs never holds up the others: however slow the pumps of
\* an open connection are, a broadcast reaches its last client, and an event a
\* broadcaster holds gets into the hub unless the hub was stopped (Hub.Run
\* lines 70-83).
SlowClientNeverBlocks ==
    /\ hub = "fanout" ~> hub # "fanout"
    /\ \A s \in Sources :
          source[s] = "sending" ~> (source[s] # "sending" \/ hub = "stopped")

\* No goroutine and no map entry outlives a lost connection: both pumps end
\* and the hub forgets the client, unless the hub was stopped (then readPump
\* waits on unregister for ever).
LostConnectionIsCleanedUp ==
    \A c \in Clients :
        conn[c] \in {"lost", "closed"} ~>
            \/ reader[c] = "done" /\ writer[c] = "done" /\ c \notin clients
            \/ hub = "stopped"
-----------------------------------------------------------------------------
(* Inductive invariants, for the proofs in WsHubProofs *)

\* Why NoPanic holds: the map holds clients with an open channel only, a loop
\* over it visits members only, and a client that has not been registered
\* yet is outside with its channel open.
ChannelInv ==
    /\ NoPanic
    /\ todo \subseteq clients
    /\ hub # "fanout" => todo = {}
    /\ \A c \in clients : ~closed[c]
    /\ \A c \in Clients :
          reader[c] \in {"none", "registering"} => c \notin clients /\ ~closed[c]

\* The last command of c in the channel is the last one c asked for.
LastQueued(c) ==
    \E i \in 1 .. Len(subscribe) :
        /\ subscribe[i] = [client |-> c, markets |-> asked[c]]
        /\ \A j \in 1 .. Len(subscribe) : j > i => subscribe[j].client # c

\* Why LastRequestWins holds: a command stays at the end of its client's
\* commands until a newer one is sent, and nobody asks before registering.
RequestInv ==
    \A c \in Clients :
        /\ reader[c] \in {"none", "registering"} =>
              subs[c] = {} /\ asked[c] = {} /\ ~Queued(c)
        /\ c \in clients /\ reader[c] # "subscribing" =>
              IF Queued(c) THEN LastQueued(c)
                           ELSE subs[c] = asked[c] \ {NoMarket}

\* Why ImplementsFeed holds, beside ChannelInv: a message is in the frame from
\* the moment it leaves the buffer, an idle writer has no frame, and a client
\* has no writer before it has been registered.
FrameInv ==
    \A c \in Clients :
        /\ reader[c] \in {"none", "registering", "starting"} => writer[c] = "none"
        /\ writer[c] \in {"none", "idle"} => frame[c] = <<>>
        /\ writer[c] \in {"framing", "writing"} => frame[c] # <<>>
=============================================================================
