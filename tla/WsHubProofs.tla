---------------------------- MODULE WsHubProofs -----------------------------
(***************************************************************************)
(* Theorems about the WebSocket gateway, for any number of clients,        *)
(* markets and broadcasters and any channel capacities.                    *)
(***************************************************************************)
EXTENDS WsHub, SequenceTheorems, TLAPS

USE DEF hubVars, connVars, sourceVars

(***************************************************************************)
(* Type correctness: every variable keeps its type and no Go channel       *)
(* exceeds its capacity (NewHub, NewClient).                               *)
(***************************************************************************)
THEOREM TypeCorrect == Spec => []TypeOK
<1>1. Init => TypeOK
  <2> SUFFICES ASSUME Init PROVE TypeOK
    OBVIOUS
  <2>1. event \in [Sources -> Msg]
    BY BoundsAssumption DEF Init, Msg
  <2>2. /\ broadcast \in Seq(Msg) /\ Len(broadcast) <= BroadcastCap
        /\ subscribe \in Seq(Cmd) /\ Len(subscribe) <= SubscribeCap
        /\ log \in Seq(Msg)
    BY BoundsAssumption DEF Init
  <2>3. /\ send \in [Clients -> Seq(Msg)]
        /\ \A c \in Clients : Len(send[c]) <= SendCap
        /\ frame \in [Clients -> Seq(Msg)]
        /\ written \in [Clients -> Seq(Msg)]
    BY BoundsAssumption DEF Init
  <2>4. /\ hub \in {"select", "fanout", "stopped", "panic"}
        /\ cancelled \in BOOLEAN
        /\ clients \subseteq Clients
        /\ todo \subseteq Clients
        /\ subs \in [Clients -> SUBSET Markets]
        /\ closed \in [Clients -> BOOLEAN]
        /\ asked \in [Clients -> SUBSET (Markets \cup {NoMarket})]
    BY DEF Init
  <2>5. /\ reader \in [Clients -> ReaderStates]
        /\ writer \in [Clients -> WriterStates]
        /\ conn \in [Clients -> {"none", "open", "lost", "closed"}]
        /\ source \in [Sources -> {"fetching", "sending", "stopped"}]
        /\ hub # "fanout"
    BY DEF Init, ReaderStates, WriterStates
  <2>6. QED
    BY <2>1, <2>2, <2>3, <2>4, <2>5 DEF TypeOK
<1>2. TypeOK /\ [Next]_vars => TypeOK'
  <2> SUFFICES ASSUME TypeOK, [Next]_vars PROVE TypeOK'
    OBVIOUS
  <2> USE BoundsAssumption, RequestsAssumption DEF TypeOK, ReaderStates, WriterStates
  <2>1. CASE Cancel
    BY <2>1 DEF Cancel
  <2>2. CASE HubSubscribe
    <3>1. Head(subscribe) \in Cmd /\ subscribe' \in Seq(Cmd)
          /\ Len(subscribe') <= SubscribeCap
      BY <2>2 DEF HubSubscribe
    <3>2. subs' \in [Clients -> SUBSET Markets]
      BY <2>2, <3>1 DEF HubSubscribe, IsRegistered, Filter, Cmd
    <3>3. QED
      BY <2>2, <3>1, <3>2 DEF HubSubscribe
  <2>3. CASE HubBroadcast
    <3>1. /\ broadcast' \in Seq(Msg)
          /\ Len(broadcast') <= BroadcastCap
          /\ log' \in Seq(Msg) /\ Len(log') > 0
      <4>1. Head(broadcast) \in Msg /\ Tail(broadcast) \in Seq(Msg)
            /\ Len(Tail(broadcast)) <= BroadcastCap
        BY <2>3 DEF HubBroadcast
      <4>2. Append(log, Head(broadcast)) \in Seq(Msg)
            /\ Len(Append(log, Head(broadcast))) = Len(log) + 1
            /\ Len(log) \in Nat
        BY <4>1
      <4>3. QED
        BY <2>3, <4>1, <4>2 DEF HubBroadcast
    <3>2. QED
      BY <2>3, <3>1 DEF HubBroadcast
  <2>4. CASE HubStops
    BY <2>4 DEF HubStops
  <2>5. ASSUME NEW c \in Clients, HubRegister(c) PROVE TypeOK'
    BY <2>5 DEF HubRegister
  <2>6. ASSUME NEW c \in Clients, HubUnregister(c) PROVE TypeOK'
    BY <2>6 DEF HubUnregister, CloseSend, IsRegistered
  <2>7. ASSUME NEW c \in Clients, HubOffer(c) PROVE TypeOK'
    <3>1. /\ clients' \subseteq Clients
          /\ closed' \in [Clients -> BOOLEAN]
          /\ hub' \in {"select", "fanout", "stopped", "panic"}
      BY <2>7 DEF HubOffer, CloseSend
    <3>2. /\ send' \in [Clients -> Seq(Msg)]
          /\ \A d \in Clients : Len(send'[d]) <= SendCap
      <4>1. log[Len(log)] \in Msg
        BY <2>7 DEF HubOffer
      <4>2. QED
        <5>1. CASE send' = send
          BY <5>1
        <5>2. CASE /\ Room(send[c], SendCap)
                   /\ send' = [send EXCEPT ![c] = Append(@, log[Len(log)])]
          <6>1. send[c] \in Seq(Msg)
            OBVIOUS
          <6>2. /\ Append(send[c], log[Len(log)]) \in Seq(Msg)
                /\ Len(Append(send[c], log[Len(log)])) <= SendCap
            BY <4>1, <5>2, <6>1 DEF Room
          <6>3. QED
            BY <5>2, <6>2
        <5>3. QED
          BY <2>7, <5>1, <5>2 DEF HubOffer
    <3>3. QED
      BY <2>7, <3>1, <3>2 DEF HubOffer
  <2>8. ASSUME NEW c \in Clients, Connect(c) PROVE TypeOK'
    BY <2>8 DEF Connect
  <2>9. ASSUME NEW c \in Clients, StartPumps(c) PROVE TypeOK'
    BY <2>9 DEF StartPumps
  <2>10. ASSUME NEW c \in Clients, ReadCommand(c) PROVE TypeOK'
    BY <2>10 DEF ReadCommand
  <2>11. ASSUME NEW c \in Clients, SendCommand(c) PROVE TypeOK'
    BY <2>11 DEF SendCommand, Room, Cmd
  <2>12. ASSUME NEW c \in Clients, PeerLeaves(c) PROVE TypeOK'
    BY <2>12 DEF PeerLeaves
  <2>13. ASSUME NEW c \in Clients, ReadFails(c) PROVE TypeOK'
    BY <2>13 DEF ReadFails
  <2>14. ASSUME NEW c \in Clients, ReaderExits(c) PROVE TypeOK'
    BY <2>14 DEF ReaderExits
  <2>15. ASSUME NEW c \in Clients, OpenFrame(c) PROVE TypeOK'
    BY <2>15 DEF OpenFrame
  <2>16. ASSUME NEW c \in Clients, FillFrame(c) PROVE TypeOK'
    BY <2>16 DEF FillFrame
  <2>17. ASSUME NEW c \in Clients, FlushFrame(c) PROVE TypeOK'
    BY <2>17 DEF FlushFrame
  <2>18. ASSUME NEW c \in Clients, WriteFails(c) PROVE TypeOK'
    BY <2>18 DEF WriteFails
  <2>19. ASSUME NEW c \in Clients, WriterExits(c) PROVE TypeOK'
    BY <2>19 DEF WriterExits
  <2>20. ASSUME NEW s \in Sources, FetchEvent(s) PROVE TypeOK'
    <3>1. event' \in [Sources -> Msg]
      <4>1. PICK m \in Markets \cup {NoMarket} :
              event' = [event EXCEPT ![s] =
                          [src |-> s, n |-> event[s].n + 1, market |-> m]]
        BY <2>20 DEF FetchEvent
      <4>2. event[s].n + 1 \in 0 .. MaxMsgs
        BY <2>20 DEF FetchEvent, Msg
      <4>3. [src |-> s, n |-> event[s].n + 1, market |-> m] \in Msg
        BY <4>2 DEF Msg
      <4>4. QED
        BY <4>1, <4>3
    <3>2. QED
      BY <3>1, <2>20 DEF FetchEvent
  <2>21. ASSUME NEW s \in Sources, SendEvent(s) PROVE TypeOK'
    BY <2>21 DEF SendEvent, Room
  <2>22. ASSUME NEW s \in Sources, SourceStops(s) PROVE TypeOK'
    BY <2>22 DEF SourceStops
  <2>23. CASE UNCHANGED vars
    BY <2>23 DEF vars
  <2>24. QED
    BY <2>1, <2>2, <2>3, <2>4, <2>5, <2>6, <2>7, <2>8, <2>9, <2>10, <2>11, <2>12, <2>13, <2>14, <2>15, <2>16, <2>17, <2>18, <2>19, <2>20, <2>21, <2>22, <2>23 DEF Next, HubNext, ConnNext, SourceNext
<1>3. QED
  BY <1>1, <1>2, PTL DEF Spec
-----------------------------------------------------------------------------
(***************************************************************************)
(* The hub never panics on a closed channel, whatever the order of drops,  *)
(* disconnections and broadcasts (Hub.Run).                                *)
(***************************************************************************)
LEMMA ChannelStep == TypeOK /\ ChannelInv /\ [Next]_vars => ChannelInv'
<1> SUFFICES ASSUME TypeOK, ChannelInv, [Next]_vars PROVE ChannelInv'
  OBVIOUS
<1> USE DEF ChannelInv, NoPanic
<1>1. ASSUME NEW c \in Clients, HubRegister(c) PROVE ChannelInv'
  BY <1>1 DEF HubRegister, TypeOK
<1>2. ASSUME NEW c \in Clients, HubUnregister(c) PROVE ChannelInv'
  BY <1>2 DEF HubUnregister, CloseSend, IsRegistered, TypeOK
<1>3. ASSUME NEW c \in Clients, HubOffer(c) PROVE ChannelInv'
  <2>1. c \in clients /\ ~closed[c]
    BY <1>3 DEF HubOffer
  <2>2. /\ hub' = IF todo = {c} THEN "select" ELSE "fanout"
        /\ todo' = todo \ {c}
        /\ \/ UNCHANGED <<clients, closed>>
           \/ CloseSend(c)
        /\ reader' = reader
    BY <1>3, <2>1 DEF HubOffer
  <2>3. QED
    BY <2>1, <2>2 DEF CloseSend, TypeOK
<1>4. CASE HubSubscribe
  BY <1>4 DEF HubSubscribe
<1>5. CASE HubBroadcast
  BY <1>5 DEF HubBroadcast
<1>6. CASE HubStops
  BY <1>6 DEF HubStops
<1>7. CASE Cancel
  BY <1>7 DEF Cancel
<1>8. ASSUME NEW c \in Clients, ConnNext(c) PROVE ChannelInv'
  <2>1. /\ UNCHANGED <<hub, todo, clients, closed>>
        /\ \A d \in Clients : reader'[d] \in {"none", "registering"} =>
                               reader[d] \in {"none", "registering"}
    BY <1>8 DEF ConnNext, TypeOK,
          Connect, StartPumps, ReadCommand, SendCommand, PeerLeaves,
          ReadFails, ReaderExits, OpenFrame, FillFrame, FlushFrame,
          WriteFails, WriterExits
  <2>2. QED
    BY <2>1
<1>9. ASSUME NEW s \in Sources, SourceNext(s) PROVE ChannelInv'
  BY <1>9 DEF SourceNext, FetchEvent, SendEvent, SourceStops
<1>10. CASE UNCHANGED vars
  BY <1>10 DEF vars
<1>11. QED
  BY <1>1, <1>2, <1>3, <1>4, <1>5, <1>6, <1>7, <1>8, <1>9, <1>10
     DEF Next, HubNext

THEOREM ChannelSafety == Spec => []NoPanic
<1>1. Init => ChannelInv
  BY DEF Init, ChannelInv, NoPanic
<1>2. ChannelInv => NoPanic
  BY DEF ChannelInv
<1>3. QED
  BY <1>1, <1>2, TypeCorrect, ChannelStep, PTL DEF Spec

-----------------------------------------------------------------------------
(***************************************************************************)
(* The filter of a connected client is the last one its peer asked for.    *)
(***************************************************************************)

\* A step that leaves the channel, the requests and the filters alone and
\* neither registers a client nor lets one forget its command.
LEMMA RequestFrame ==
    ASSUME RequestInv, clients' \subseteq clients,
           UNCHANGED <<subs, subscribe, asked>>,
           \A c \in Clients :
               /\ reader'[c] \in {"none", "registering"} =>
                     reader[c] \in {"none", "registering"}
               /\ c \in clients' /\ reader'[c] # "subscribing" =>
                     reader[c] # "subscribing"
    PROVE  RequestInv'
BY DEF RequestInv, Queued, LastQueued

\* SendCommand appends the newest command of its client.
LEMMA RequestSend ==
    ASSUME TypeOK, RequestInv, NEW c \in Clients, SendCommand(c)
    PROVE  RequestInv'
<1> DEFINE cmd == [client |-> c, markets |-> asked[c]]
           n == Len(subscribe)
<1>1. /\ n \in Nat /\ Len(subscribe') = n + 1
      /\ subscribe'[n + 1] = cmd
      /\ \A i \in 1 .. n : subscribe'[i] = subscribe[i]
      /\ cmd.client = c
  BY DEF SendCommand, TypeOK
<1>2. /\ reader[c] = "subscribing"
      /\ UNCHANGED <<subs, asked, clients>>
      /\ \A d \in Clients \ {c} : reader'[d] = reader[d]
      /\ reader'[c] = "reading"
  BY DEF SendCommand, TypeOK
<1>3. LastQueued(c)' /\ Queued(c)'
  BY <1>1, <1>2 DEF LastQueued, Queued
<1>4. ASSUME NEW d \in Clients \ {c}
      PROVE  Queued(d)' = Queued(d) /\ (LastQueued(d) => LastQueued(d)')
  <2>1. Queued(d)' = Queued(d)
    BY <1>1, <1>4 DEF Queued
  <2>2. ASSUME LastQueued(d) PROVE LastQueued(d)'
    <3>1. PICK i \in 1 .. n :
             /\ subscribe[i] = [client |-> d, markets |-> asked[d]]
             /\ \A j \in 1 .. n : j > i => subscribe[j].client # d
      BY <2>2 DEF LastQueued
    <3>2. \A j \in 1 .. n + 1 : j > i => subscribe'[j].client # d
      BY <1>1, <1>4, <3>1
    <3>3. i \in 1 .. n + 1 /\ subscribe'[i] = subscribe[i] /\ asked' = asked
      BY <1>1, <1>2
    <3>4. QED
      BY <1>1, <3>1, <3>2, <3>3 DEF LastQueued
  <2>3. QED
    BY <2>1, <2>2
<1>5. QED
  BY <1>2, <1>3, <1>4 DEF RequestInv

\* HubSubscribe takes the oldest command and installs it.
LEMMA RequestTake ==
    ASSUME TypeOK, RequestInv, HubSubscribe
    PROVE  RequestInv'
<1> DEFINE cmd == Head(subscribe)
           n == Len(subscribe)
<1>1. /\ n \in Nat /\ n > 0 /\ Len(subscribe') = n - 1
      /\ \A i \in 1 .. n - 1 : subscribe'[i] = subscribe[i + 1]
      /\ cmd = subscribe[1] /\ cmd \in Cmd
  BY DEF HubSubscribe, TypeOK
<1>2. /\ UNCHANGED <<reader, asked, clients>>
      /\ \A d \in Clients :
            subs'[d] = IF d = cmd.client /\ d \in clients
                       THEN cmd.markets \ {NoMarket} ELSE subs[d]
  BY <1>1 DEF HubSubscribe, IsRegistered, Filter, TypeOK, Cmd
<1>3. ASSUME NEW d \in Clients
      PROVE  Queued(d) <=> (Queued(d)' \/ cmd.client = d)
  <2>1. ASSUME NEW i \in 1 .. n, subscribe[i].client = d, cmd.client # d
        PROVE  Queued(d)'
    <3>1. i - 1 \in 1 .. n - 1 /\ subscribe'[i - 1] = subscribe[i]
      BY <1>1, <2>1
    <3>2. QED
      BY <1>1, <2>1, <3>1 DEF Queued
  <2>2. ASSUME NEW i \in 1 .. n - 1, subscribe'[i].client = d
        PROVE  Queued(d)
    <3>1. i + 1 \in 1 .. n
      BY <1>1
    <3>2. QED
      BY <1>1, <2>2, <3>1 DEF Queued
  <2>3. cmd.client = d => Queued(d)
    BY <1>1 DEF Queued
  <2>4. QED
    BY <1>1, <2>1, <2>2, <2>3 DEF Queued
<1>4. ASSUME NEW d \in Clients, d \in clients, reader[d] # "subscribing"
      PROVE  IF Queued(d)' THEN LastQueued(d)'
                           ELSE subs'[d] = asked'[d] \ {NoMarket}
  <2>1. CASE Queued(d)
    <3>1. PICK i \in 1 .. n :
             /\ subscribe[i] = [client |-> d, markets |-> asked[d]]
             /\ \A j \in 1 .. n : j > i => subscribe[j].client # d
      BY <1>4, <2>1 DEF RequestInv, LastQueued
    <3>2. CASE i = 1
      <4>1. ~Queued(d)'
        <5> SUFFICES ASSUME NEW j \in 1 .. n - 1, subscribe'[j].client = d
                     PROVE  FALSE
          BY <1>1 DEF Queued
        <5>1. j + 1 \in 1 .. n /\ j + 1 > i
          BY <1>1, <3>2
        <5>2. QED
          BY <1>1, <3>1, <5>1
      <4>2. subs'[d] = asked'[d] \ {NoMarket}
        BY <1>1, <1>2, <1>4, <3>1, <3>2
      <4>3. QED
        BY <4>1, <4>2
    <3>3. CASE i > 1
      <4>1. i - 1 \in 1 .. n - 1 /\ subscribe'[i - 1] = subscribe[i]
        BY <1>1, <3>3
      <4>2. \A j \in 1 .. n - 1 : j > i - 1 => subscribe'[j].client # d
        <5> SUFFICES ASSUME NEW j \in 1 .. n - 1, j > i - 1
                     PROVE  subscribe'[j].client # d
          OBVIOUS
        <5>1. j + 1 \in 1 .. n /\ j + 1 > i
          BY <1>1
        <5>2. QED
          BY <1>1, <3>1, <5>1
      <4>3. LastQueued(d)'
        BY <1>1, <1>2, <3>1, <4>1, <4>2 DEF LastQueued
      <4>4. Queued(d)'
        BY <1>1, <3>1, <4>1 DEF Queued
      <4>5. QED
        BY <4>3, <4>4
    <3>4. QED
      BY <3>2, <3>3
  <2>2. CASE ~Queued(d)
    <3>1. ~Queued(d)' /\ cmd.client # d
      BY <1>3, <2>2
    <3>2. subs[d] = asked[d] \ {NoMarket}
      BY <1>4, <2>2 DEF RequestInv
    <3>3. QED
      BY <1>2, <3>1, <3>2
  <2>3. QED
    BY <2>1, <2>2
<1>5. ASSUME NEW d \in Clients, reader[d] \in {"none", "registering"}
      PROVE  subs'[d] = {} /\ asked'[d] = {} /\ ~Queued(d)'
  <2>1. subs[d] = {} /\ asked[d] = {} /\ ~Queued(d)
    BY <1>5 DEF RequestInv
  <2>2. QED
    BY <1>2, <1>3, <2>1
<1>6. QED
  BY <1>2, <1>4, <1>5 DEF RequestInv

LEMMA RequestStep == TypeOK /\ RequestInv /\ [Next]_vars => RequestInv'
<1> SUFFICES ASSUME TypeOK, RequestInv, [Next]_vars PROVE RequestInv'
  OBVIOUS
<1>1. ASSUME NEW c \in Clients, HubRegister(c) PROVE RequestInv'
  <2>1. /\ UNCHANGED <<subs, subscribe, asked>>
        /\ reader[c] = "registering" /\ reader'[c] = "starting"
        /\ \A d \in Clients \ {c} :
              /\ reader'[d] = reader[d]
              /\ d \in clients' => d \in clients
    BY <1>1 DEF HubRegister, TypeOK
  <2>2. subs[c] = {} /\ asked[c] = {} /\ ~Queued(c)
    BY <2>1 DEF RequestInv
  <2>3. ASSUME NEW d \in Clients
        PROVE  Queued(d)' = Queued(d) /\ LastQueued(d)' = LastQueued(d)
    BY <2>1 DEF Queued, LastQueued
  <2>4. subs'[c] = asked'[c] \ {NoMarket} /\ ~Queued(c)'
    BY <2>1, <2>2, <2>3
  <2>5. ASSUME NEW d \in Clients \ {c}
        PROVE  /\ reader'[d] \in {"none", "registering"} =>
                     subs'[d] = {} /\ asked'[d] = {} /\ ~Queued(d)'
               /\ d \in clients' /\ reader'[d] # "subscribing" =>
                     IF Queued(d)' THEN LastQueued(d)'
                                   ELSE subs'[d] = asked'[d] \ {NoMarket}
    <3>1. UNCHANGED <<subs[d], asked[d], reader[d]>>
      BY <2>1, <2>5
    <3>2. d \in clients' => d \in clients
      BY <2>1, <2>5
    <3>3. Queued(d)' = Queued(d) /\ LastQueued(d)' = LastQueued(d)
      BY <2>3
    <3>4. QED
      BY <3>1, <3>2, <3>3 DEF RequestInv
  <2>6. QED
    BY <2>1, <2>4, <2>5 DEF RequestInv
<1>2. ASSUME NEW c \in Clients, HubUnregister(c) PROVE RequestInv'
  <2>1. /\ UNCHANGED <<subs, subscribe, asked>> /\ clients' \subseteq clients
        /\ reader[c] = "unregistering"
        /\ reader' = [reader EXCEPT ![c] = "closing"]
    BY <1>2 DEF HubUnregister, CloseSend
  <2>2. QED
    BY <2>1, RequestFrame DEF TypeOK
<1>3. ASSUME NEW c \in Clients, HubOffer(c) PROVE RequestInv'
  <2>1. UNCHANGED <<subs, subscribe, asked, reader>> /\ clients' \subseteq clients
    BY <1>3 DEF HubOffer, CloseSend
  <2>2. QED
    BY <2>1, RequestFrame
<1>4. CASE HubSubscribe
  BY <1>4, RequestTake
<1>5. CASE HubBroadcast \/ HubStops \/ Cancel \/ UNCHANGED vars
  BY <1>5, RequestFrame DEF HubBroadcast, HubStops, Cancel, vars
<1>6. ASSUME NEW s \in Sources, SourceNext(s) PROVE RequestInv'
  BY <1>6, RequestFrame DEF SourceNext, FetchEvent, SendEvent, SourceStops
<1>7. ASSUME NEW c \in Clients, SendCommand(c) PROVE RequestInv'
  BY <1>7, RequestSend
<1>8. ASSUME NEW c \in Clients, ReadCommand(c) PROVE RequestInv'
  <2>1. /\ UNCHANGED <<subs, subscribe, clients>>
        /\ reader'[c] = "subscribing"
        /\ \A d \in Clients \ {c} : reader'[d] = reader[d] /\ asked'[d] = asked[d]
    BY <1>8 DEF ReadCommand, TypeOK
  <2>2. ASSUME NEW d \in Clients \ {c}
        PROVE  Queued(d)' = Queued(d) /\ LastQueued(d)' = LastQueued(d)
    BY <2>1 DEF Queued, LastQueued
  <2>3. QED
    BY <2>1, <2>2 DEF RequestInv
<1>9. ASSUME NEW c \in Clients,
             \/ Connect(c) \/ StartPumps(c) \/ PeerLeaves(c) \/ ReadFails(c)
             \/ ReaderExits(c) \/ OpenFrame(c) \/ FillFrame(c)
             \/ FlushFrame(c) \/ WriteFails(c) \/ WriterExits(c)
      PROVE  RequestInv'
  <2>1. /\ UNCHANGED <<subs, subscribe, asked, clients>>
        /\ \A d \in Clients :
              /\ reader'[d] \in {"none", "registering"} =>
                    reader[d] \in {"none", "registering"}
              /\ reader'[d] # "subscribing" => reader[d] # "subscribing"
    BY <1>9 DEF TypeOK, Connect, StartPumps, PeerLeaves, ReadFails,
         ReaderExits, OpenFrame, FillFrame, FlushFrame, WriteFails, WriterExits
  <2>2. QED
    BY <2>1, RequestFrame
<1>10. QED
  BY <1>1, <1>2, <1>3, <1>4, <1>5, <1>6, <1>7, <1>8, <1>9
     DEF Next, HubNext, ConnNext

THEOREM LatestFilter == Spec => []LastRequestWins
<1>1. Init => RequestInv
  BY DEF Init, RequestInv, Queued, LastQueued
<1>2. TypeOK /\ RequestInv => LastRequestWins
  BY DEF TypeOK, RequestInv, LastRequestWins
<1>3. QED
  BY <1>1, <1>2, TypeCorrect, RequestStep, PTL DEF Spec

-----------------------------------------------------------------------------
(***************************************************************************)
(* The gateway implements the promise of MarketFeed.                       *)
(***************************************************************************)

LEMMA Regroup ==
    ASSUME NEW a \in Seq(Msg), NEW b \in Seq(Msg), NEW d \in Seq(Msg)
    PROVE  (a \o b) \o d = a \o (b \o d)
BY ConcatAssociative

LEMMA FrontIs ==
    ASSUME NEW a \in Seq(Msg), NEW b \in Seq(Msg)
    PROVE  SubSeq(a \o b, 1, Len(a)) = a
<1> DEFINE s == a \o b
           n == Len(a)
<1>1. s \in Seq(Msg) /\ n \in Nat /\ n <= Len(s) /\ \A k \in 1 .. n : s[k] = a[k]
  OBVIOUS
<1> HIDE DEF s, n
<1>2. \A k \in 1 .. n : s[k] \in Msg
  BY <1>1
<1>3. n - 1 + 1 = n
  BY <1>1
<1>4. /\ SubSeq(s, 1, n) \in Seq(Msg)
      /\ Len(SubSeq(s, 1, n)) = n
      /\ \A k \in 1 .. n : SubSeq(s, 1, n)[k] = s[k]
  <2>1. /\ SubSeq(s, 1, n) \in Seq(Msg)
        /\ Len(SubSeq(s, 1, n)) = IF 1 <= n THEN n - 1 + 1 ELSE 0
        /\ \A k \in 1 .. n - 1 + 1 : SubSeq(s, 1, n)[k] = s[1 + k - 1]
    BY <1>1, <1>2, SubSeqProperties
  <2>2. \A k \in 1 .. n : 1 + k - 1 = k
    BY <1>1
  <2>3. n < 1 => n = 0
    BY <1>1
  <2>4. QED
    BY <1>1, <1>3, <2>1, <2>2, <2>3
<1>5. SubSeq(s, 1, n) = a
  BY <1>1, <1>4, SeqEqual DEF n
<1>6. QED
  BY <1>5 DEF s, n

LEMMA FrameStep == TypeOK /\ FrameInv /\ [Next]_vars => FrameInv'
<1> SUFFICES ASSUME TypeOK, FrameInv, [Next]_vars PROVE FrameInv'
  OBVIOUS
<1> USE DEF FrameInv, TypeOK
<1>1. ASSUME UNCHANGED <<writer, frame>>,
             \A c \in Clients :
                reader'[c] \in {"none", "registering", "starting"} =>
                reader[c] \in {"none", "registering", "starting"}
      PROVE  FrameInv'
  BY <1>1
<1>2. CASE HubNext \/ Cancel \/ UNCHANGED vars
  BY <1>1, <1>2 DEF HubNext, HubSubscribe, HubBroadcast, HubStops,
        HubRegister, HubUnregister, HubOffer, Cancel, vars
<1>3. ASSUME NEW s \in Sources, SourceNext(s) PROVE FrameInv'
  BY <1>1, <1>3 DEF SourceNext, FetchEvent, SendEvent, SourceStops, connVars
<1>4. ASSUME NEW c \in Clients, OpenFrame(c) PROVE FrameInv'
  BY <1>4 DEF OpenFrame
<1>5. ASSUME NEW c \in Clients, FillFrame(c) PROVE FrameInv'
  <2>1. frame[c] # <<>> /\ frame[c] \in Seq(Msg) /\ send[c] \in Seq(Msg)
    BY <1>5 DEF FillFrame
  <2>2. Len(frame[c] \o send[c]) > 0
    <3>1. Len(frame[c]) > 0 /\ Len(send[c]) >= 0
      BY <2>1, EmptySeq
    <3>2. Len(frame[c] \o send[c]) = Len(frame[c]) + Len(send[c])
      BY <2>1
    <3>3. QED
      BY <2>1, <3>1, <3>2
  <2>3. frame[c] \o send[c] # <<>>
    BY <2>2
  <2>4. /\ frame'[c] = frame[c] \o send[c] /\ writer'[c] = "writing"
        /\ \A d \in Clients \ {c} : frame'[d] = frame[d] /\ writer'[d] = writer[d]
        /\ reader' = reader /\ writer[c] = "framing"
    BY <1>5 DEF FillFrame
  <2>5. QED
    BY <2>3, <2>4
<1>6. ASSUME NEW c \in Clients, FlushFrame(c) PROVE FrameInv'
  BY <1>6 DEF FlushFrame
<1>7. ASSUME NEW c \in Clients,
             \/ Connect(c) \/ ReadCommand(c) \/ SendCommand(c)
             \/ PeerLeaves(c) \/ ReadFails(c) \/ ReaderExits(c)
      PROVE  FrameInv'
  BY <1>1, <1>7 DEF Connect, ReadCommand, SendCommand, PeerLeaves, ReadFails,
        ReaderExits
<1>8. ASSUME NEW c \in Clients, StartPumps(c) PROVE FrameInv'
  BY <1>8 DEF StartPumps
<1>9. ASSUME NEW c \in Clients, WriteFails(c) \/ WriterExits(c) PROVE FrameInv'
  BY <1>9 DEF WriteFails, WriterExits
<1>10. QED
  BY <1>2, <1>3, <1>4, <1>5, <1>6, <1>7, <1>8, <1>9 DEF Next, ConnNext

\* A step that moves no message of a client and leaves its place alone is not
\* seen by the clients.
LEMMA Unseen ==
    ASSUME UNCHANGED <<log, subs, written>>,
           \A c \in Clients : /\ Feed(c)' = Feed(c)
                              /\ Status(c)' = Status(c)
                              /\ Cursor(c)' = Cursor(c)
    PROVE  UNCHANGED Promise!vars
BY DEF Promise!vars

\* The same of a step that touches the hub's maps and the buffers neither.
LEMMA UnseenByReaders ==
    ASSUME UNCHANGED <<log, subs, clients, todo, send, frame, written>>,
           \A c \in Clients : reader'[c] \in {"none", "registering"} <=>
                              reader[c] \in {"none", "registering"}
    PROVE  UNCHANGED Promise!vars
BY Unseen DEF Feed, Status, Cursor

\* The pumps: frames are filled unseen, and a frame that is sent delivers what
\* comes next in the feed.
LEMMA PumpStep ==
    ASSUME TypeOK, FrameInv, NEW c \in Clients,
           OpenFrame(c) \/ FillFrame(c) \/ FlushFrame(c)
    PROVE  [Promise!Next]_(Promise!vars)
<1> USE DEF TypeOK
<1>1. \A d \in Clients : Status(d)' = Status(d) /\ Cursor(d)' = Cursor(d)
  BY DEF OpenFrame, FillFrame, FlushFrame, Status, Cursor, hubVars
<1>2. /\ written[c] \in Seq(Msg) /\ frame[c] \in Seq(Msg) /\ send[c] \in Seq(Msg)
      /\ UNCHANGED <<log, subs>>
  BY DEF OpenFrame, FillFrame, FlushFrame, hubVars
<1>3. ASSUME NEW d \in Clients \ {c} PROVE Feed(d)' = Feed(d)
  BY DEF OpenFrame, FillFrame, FlushFrame, Feed
<1>4. CASE OpenFrame(c)
  <2>1. /\ frame[c] = <<>> /\ send[c] # <<>> /\ written' = written
        /\ frame'[c] = <<Head(send[c])>> /\ send'[c] = Tail(send[c])
    BY <1>4 DEF OpenFrame, FrameInv
  <2>2. <<Head(send[c])>> \o Tail(send[c]) = send[c]
    BY <1>2, <2>1
  <2>3. Feed(c)' = Feed(c)
    <3>1. /\ Head(send[c]) \in Msg /\ Tail(send[c]) \in Seq(Msg)
          /\ <<Head(send[c])>> \in Seq(Msg)
      BY <1>2, <2>1
    <3>2. Feed(c)' = written[c] \o (<<Head(send[c])>> \o Tail(send[c]))
      <4>1. Feed(c)' = (written[c] \o <<Head(send[c])>>) \o Tail(send[c])
        BY <2>1 DEF Feed
      <4>2. QED
        BY <1>2, <3>1, <4>1, Regroup
    <3>3. Feed(c) = written[c] \o send[c]
      BY <1>2, <2>1 DEF Feed
    <3>4. QED
      BY <2>2, <3>2, <3>3
  <2>4. QED
    BY <1>1, <1>2, <1>3, <2>1, <2>3, Unseen
<1>5. CASE FillFrame(c)
  <2>1. /\ written' = written
        /\ frame'[c] = frame[c] \o send[c] /\ send'[c] = <<>>
    BY <1>5 DEF FillFrame
  <2>2. Feed(c)' = Feed(c)
    <3>1. Feed(c)' = written[c] \o (frame[c] \o send[c])
      <4>1. frame[c] \o send[c] \in Seq(Msg)
        BY <1>2
      <4>2. written[c] \o (frame[c] \o send[c]) \in Seq(Msg)
        BY <1>2, <4>1
      <4>3. QED
        BY <2>1, <4>2, ConcatEmptySeq DEF Feed
    <3>2. Feed(c) = (written[c] \o frame[c]) \o send[c]
      BY DEF Feed
    <3>3. QED
      BY <1>2, <3>1, <3>2, Regroup
  <2>3. QED
    BY <1>1, <1>2, <1>3, <2>1, <2>2, Unseen
<1>6. CASE FlushFrame(c)
  <2>1. /\ frame[c] # <<>> /\ frame'[c] = <<>> /\ send' = send
        /\ written' = [written EXCEPT ![c] = written[c] \o frame[c]]
    BY <1>6 DEF FlushFrame, FrameInv
  <2> DEFINE given == written[c] \o frame[c]
             n == Len(given)
  <2>2. /\ given \in Seq(Msg) /\ n \in Nat
        /\ n = Len(written[c]) + Len(frame[c]) /\ Len(frame[c]) > 0
        /\ Len(Feed(c)) = n + Len(send[c]) /\ Feed(c) = given \o send[c]
    BY <1>2, <2>1 DEF Feed
  <2>3. Feed(c)' = Feed(c)
    BY <1>2, <2>1, <2>2, ConcatEmptySeq DEF Feed
  <2>4. n \in (Len(written[c]) + 1) .. Len(Feed(c))
    BY <1>2, <2>2
  <2>5. SubSeq(Feed(c), 1, n) = given
    <3>1. given \in Seq(Msg) /\ send[c] \in Seq(Msg) /\ Feed(c) = given \o send[c]
      BY <1>2, <2>2
    <3> HIDE DEF given
    <3>2. QED
      BY <3>1, FrontIs
  <2>6. Promise!Deliver(c)
    BY <1>1, <1>2, <1>3, <2>1, <2>3, <2>4, <2>5 DEF Promise!Deliver
  <2>7. QED
    BY <2>6 DEF Promise!Next
<1>7. QED
  BY <1>4, <1>5, <1>6

\* The hub takes a client: it joins.
LEMMA RegisterStep ==
    ASSUME TypeOK, ChannelInv, NEW c \in Clients, HubRegister(c)
    PROVE  Promise!Join(c)
<1> USE DEF TypeOK, HubRegister
<1>1. Status(c) = "new" /\ Status(c)' = "online" /\ Cursor(c)' = Len(log)
  BY DEF ChannelInv, Status, Cursor
<1>2. \A d \in Clients \ {c} : Status(d)' = Status(d) /\ Cursor(d)' = Cursor(d)
  BY DEF Status, Cursor
<1>3. \A d \in Clients : Feed(d)' = Feed(d)
  BY DEF Feed
<1>4. UNCHANGED <<log, subs, written>>
  OBVIOUS
<1>5. QED
  BY <1>1, <1>2, <1>3, <1>4 DEF Promise!Join

\* The hub deletes a client, which its reader has given up or whose buffer is
\* full: it leaves.
LEMMA ForgetStep ==
    ASSUME NEW c \in clients, clients \subseteq Clients,
           reader'[c] \notin {"none", "registering"},
           \A d \in Clients \ {c} : reader'[d] = reader[d],
           clients' = clients \ {c}, todo' \in {todo, todo \ {c}},
           UNCHANGED <<log, subs, send, frame, written>>
    PROVE  Promise!Leave(c)
<1>1. Status(c) = "online" /\ Status(c)' = "gone" /\ Cursor(c)' = 0
  BY DEF Status, Cursor
<1>2. \A d \in Clients \ {c} : Status(d)' = Status(d) /\ Cursor(d)' = Cursor(d)
  BY DEF Status, Cursor
<1>3. \A d \in Clients : Feed(d)' = Feed(d)
  BY DEF Feed
<1>4. QED
  BY <1>1, <1>2, <1>3 DEF Promise!Leave

LEMMA UnregisterStep ==
    ASSUME TypeOK, NEW c \in Clients, HubUnregister(c)
    PROVE  [Promise!Next]_(Promise!vars)
<1> USE DEF TypeOK, HubUnregister
<1>1. /\ reader[c] = "unregistering" /\ reader'[c] = "closing"
      /\ \A d \in Clients \ {c} : reader'[d] = reader[d]
      /\ UNCHANGED <<log, subs, todo, send, frame, written>>
  OBVIOUS
<1>2. CASE c \in clients
  <2>1. clients' = clients \ {c}
    BY <1>2 DEF IsRegistered, CloseSend
  <2>2. Promise!Leave(c)
    BY <1>1, <1>2, <2>1, ForgetStep
  <2>3. QED
    BY <2>2 DEF Promise!Next
<1>3. CASE c \notin clients
  <2>1. clients' = clients
    BY <1>3 DEF IsRegistered
  <2>2. QED
    BY <1>1, <2>1, UnseenByReaders
<1>4. QED
  BY <1>2, <1>3

\* A command that is installed is a change of filter between two messages.
LEMMA SubscribeStep ==
    ASSUME TypeOK, ChannelInv, HubSubscribe
    PROVE  [Promise!Next]_(Promise!vars)
<1> DEFINE cmd == Head(subscribe)
           c == cmd.client
           f == Filter(c, cmd.markets)
<1>1. c \in Clients /\ f \in SUBSET Markets
  <2>1. cmd \in Cmd
    BY DEF TypeOK, HubSubscribe
  <2>2. QED
    BY <2>1 DEF Cmd, Filter
<1>2. /\ UNCHANGED <<clients, todo, reader, log, send, frame, written>>
      /\ subs' = IF c \in clients THEN [subs EXCEPT ![c] = f] ELSE subs
      /\ hub = "select"
  BY DEF HubSubscribe, IsRegistered
<1>3. \A d \in Clients : /\ Feed(d)' = Feed(d)
                         /\ Status(d)' = Status(d)
                         /\ Cursor(d)' = Cursor(d)
  BY <1>2 DEF Feed, Status, Cursor
<1>4. CASE c \in clients
  <2>1. Status(c) = "online" /\ Cursor(c) = Len(log)
    BY <1>2, <1>4 DEF ChannelInv, Status, Cursor
  <2>2. Promise!Refilter(c)
    BY <1>1, <1>2, <1>3, <1>4, <2>1 DEF Promise!Refilter
  <2>3. QED
    BY <1>1, <2>2 DEF Promise!Next
<1>5. CASE c \notin clients
  BY <1>2, <1>3, <1>5, Unseen
<1>6. QED
  BY <1>4, <1>5

\* A message taken off the channel is the next one of the common order.
LEMMA BroadcastStep ==
    ASSUME TypeOK, ChannelInv, HubBroadcast
    PROVE  Promise!Publish
<1> USE DEF TypeOK, HubBroadcast
<1>1. Head(broadcast) \in Msg /\ log' = Append(log, Head(broadcast))
  OBVIOUS
<1>2. Len(log') = Len(log) + 1 /\ Len(log) \in Nat
  BY <1>1
<1>3. todo = {} /\ todo' = clients /\ clients' = clients
  BY DEF ChannelInv
<1>4. \A d \in Clients : /\ Feed(d)' = Feed(d)
                         /\ Status(d)' = Status(d)
                         /\ Cursor(d)' = Cursor(d)
  BY <1>2, <1>3 DEF Feed, Status, Cursor
<1>5. UNCHANGED <<subs, written>>
  OBVIOUS
<1>6. QED
  BY <1>1, <1>4, <1>5 DEF Promise!Publish

\* One iteration of the loop over the clients: an advance, or an expulsion.
LEMMA OfferStep ==
    ASSUME TypeOK, ChannelInv, NEW c \in Clients, HubOffer(c)
    PROVE  [Promise!Next]_(Promise!vars)
<1> DEFINE m == log[Len(log)]
<1>1. /\ c \in todo /\ c \in clients /\ todo' = todo \ {c}
      /\ UNCHANGED <<log, subs, reader, frame, written>>
      /\ reader[c] \notin {"none", "registering"}
      /\ clients \subseteq Clients
  BY DEF HubOffer, ChannelInv, TypeOK, connVars
<1>2. Len(log) \in Nat /\ Len(log) > 0 /\ m \in Msg
  BY DEF HubOffer, TypeOK
<1>3. CASE clients' # clients
  <2>1. clients' = clients \ {c} /\ send' = send
    BY <1>3 DEF HubOffer, CloseSend
  <2>2. Promise!Leave(c)
    BY <1>1, <2>1, ForgetStep
  <2>3. QED
    BY <2>2 DEF Promise!Next
<1>4. CASE clients' = clients
  <2>1. /\ Status(c) = "online" /\ Cursor(c) = Len(log) - 1
        /\ Cursor(c)' = Len(log)
    BY <1>1, <1>4 DEF Status, Cursor
  <2>2. \A d \in Clients : Status(d)' = Status(d)
    BY <1>1, <1>4 DEF Status
  <2>3. \A d \in Clients \ {c} : Cursor(d)' = Cursor(d)
    BY <1>1, <1>4 DEF Cursor
  <2>4. send' = IF Wants(c, m) THEN [send EXCEPT ![c] = Append(send[c], m)]
                               ELSE send
    BY <1>1, <1>4 DEF HubOffer, CloseSend
  <2>5. \A d \in Clients \ {c} : Feed(d)' = Feed(d)
    BY <1>1, <2>4 DEF Feed, TypeOK
  <2>6. Feed(c)' = IF Wants(c, m) THEN Append(Feed(c), m) ELSE Feed(c)
    <3>1. /\ written[c] \in Seq(Msg) /\ frame[c] \in Seq(Msg)
          /\ send[c] \in Seq(Msg)
      BY DEF TypeOK
    <3>2. CASE Wants(c, m)
      <4>1. send'[c] = send[c] \o <<m>> /\ <<m>> \in Seq(Msg)
        BY <1>2, <2>4, <3>1, <3>2, AppendIsConcat DEF TypeOK
      <4>2. written[c] \o frame[c] \in Seq(Msg) /\ Feed(c) \in Seq(Msg)
        BY <3>1 DEF Feed
      <4>3. Feed(c)' = (written[c] \o frame[c]) \o (send[c] \o <<m>>)
        BY <1>1, <4>1 DEF Feed
      <4>4. Feed(c)' = Feed(c) \o <<m>>
        BY <3>1, <4>1, <4>2, <4>3, Regroup DEF Feed
      <4>5. QED
        BY <1>2, <3>2, <4>2, <4>4, AppendIsConcat
    <3>3. CASE ~Wants(c, m)
      BY <1>1, <2>4, <3>3 DEF Feed
    <3>4. QED
      BY <3>2, <3>3
  <2>7. Wants(c, m) = Promise!Wanted(subs[c], m)
    BY DEF Wants, Promise!Wanted
  <2>8. Cursor(c) < Len(log) /\ Cursor(c)' = Cursor(c) + 1
        /\ log[Cursor(c) + 1] = m
    BY <1>2, <2>1
  <2>9. [d \in Clients |-> Cursor(d)]' =
           [[d \in Clients |-> Cursor(d)] EXCEPT ![c] = Cursor(c) + 1]
    BY <2>3, <2>8
  <2>10. [d \in Clients |-> Feed(d)]' =
           IF Promise!Wanted(subs[c], m)
           THEN [[d \in Clients |-> Feed(d)] EXCEPT ![c] = Append(Feed(c), m)]
           ELSE [d \in Clients |-> Feed(d)]
    BY <2>5, <2>6, <2>7
  <2>11. [d \in Clients |-> Status(d)]' = [d \in Clients |-> Status(d)]
    BY <2>2
  <2>12. Promise!Advance(c)
    BY <1>1, <2>1, <2>8, <2>9, <2>10, <2>11 DEF Promise!Advance
  <2>13. QED
    BY <2>12 DEF Promise!Next
<1>5. QED
  BY <1>3, <1>4

\* Every step of the gateway is a step of the promise or is not seen.
LEMMA FeedStep ==
    TypeOK /\ ChannelInv /\ FrameInv /\ [Next]_vars
        => [Promise!Next]_(Promise!vars)
<1> SUFFICES ASSUME TypeOK, ChannelInv, FrameInv, [Next]_vars
             PROVE  [Promise!Next]_(Promise!vars)
  OBVIOUS
<1>1. ASSUME NEW c \in Clients, HubRegister(c)
      PROVE  [Promise!Next]_(Promise!vars)
  BY <1>1, RegisterStep DEF Promise!Next
<1>2. ASSUME NEW c \in Clients, HubUnregister(c)
      PROVE  [Promise!Next]_(Promise!vars)
  BY <1>2, UnregisterStep
<1>3. ASSUME NEW c \in Clients, HubOffer(c)
      PROVE  [Promise!Next]_(Promise!vars)
  BY <1>3, OfferStep
<1>4. CASE HubSubscribe
  BY <1>4, SubscribeStep
<1>5. CASE HubBroadcast
  BY <1>5, BroadcastStep DEF Promise!Next
<1>6. CASE HubStops \/ Cancel \/ UNCHANGED vars
  BY <1>6, UnseenByReaders DEF HubStops, Cancel, vars
<1>7. ASSUME NEW s \in Sources, SourceNext(s)
      PROVE  [Promise!Next]_(Promise!vars)
  BY <1>7, UnseenByReaders DEF SourceNext, FetchEvent, SendEvent, SourceStops
<1>8. ASSUME NEW c \in Clients, OpenFrame(c) \/ FillFrame(c) \/ FlushFrame(c)
      PROVE  [Promise!Next]_(Promise!vars)
  BY <1>8, PumpStep
<1>9. ASSUME NEW c \in Clients,
             \/ Connect(c) \/ StartPumps(c) \/ ReadCommand(c) \/ SendCommand(c)
             \/ PeerLeaves(c) \/ ReadFails(c) \/ ReaderExits(c)
             \/ WriteFails(c) \/ WriterExits(c)
      PROVE  [Promise!Next]_(Promise!vars)
  <2>1. /\ UNCHANGED <<log, subs, clients, todo, send, frame, written>>
        /\ \A d \in Clients : reader'[d] \in {"none", "registering"} <=>
                              reader[d] \in {"none", "registering"}
    BY <1>9 DEF TypeOK, Connect, StartPumps, ReadCommand, SendCommand,
         PeerLeaves, ReadFails, ReaderExits, WriteFails, WriterExits
  <2>2. QED
    BY <2>1, UnseenByReaders
<1>10. QED
  BY <1>1, <1>2, <1>3, <1>4, <1>5, <1>6, <1>7, <1>8, <1>9
     DEF Next, HubNext, ConnNext

\* The gateway implements the promise of MarketFeed: one common order of
\* messages, none skipped for a client that is kept, nobody taken back, a
\* prefix delivered, a new filter between two messages (Hub.Run, writePump).
THEOREM GatewayKeepsItsPromise == Spec => ImplementsFeed
<1>1. Init => Promise!Init
  <2> SUFFICES ASSUME Init PROVE Promise!Init
    OBVIOUS
  <2>1. \A c \in Clients :
           Status(c) = "new" /\ Cursor(c) = 0 /\ Feed(c) = <<>>
    <3> SUFFICES ASSUME NEW c \in Clients
                 PROVE  Status(c) = "new" /\ Cursor(c) = 0 /\ Feed(c) = <<>>
      OBVIOUS
    <3>1. Feed(c) = <<>> \o <<>> \o <<>>
      BY DEF Init, Feed
    <3>2. <<>> \o <<>> = <<>>
      BY EmptySeq, ConcatEmptySeq
    <3>3. QED
      BY <3>1, <3>2 DEF Init, Status, Cursor
  <2>2. QED
    BY <2>1 DEF Init, Promise!Init
<1>2. Init => ChannelInv /\ FrameInv
  BY DEF Init, ChannelInv, NoPanic, FrameInv
<1>3. QED
  BY <1>1, <1>2, TypeCorrect, ChannelStep, FrameStep, FeedStep, PTL
     DEF Spec, ImplementsFeed, Promise!Spec
=============================================================================
