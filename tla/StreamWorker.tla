---------------------------- MODULE StreamWorker -----------------------------
(***************************************************************************)
(* One StreamWorker of the ingestion service: the connection to the        *)
(* exchange's WebSocket and the tokens subscribed on it.                   *)
(*                                                                         *)
(* Four kinds of goroutine meet on the worker:                             *)
(*   - worker: Start, connect and readLoop;                                *)
(*   - adder: the token consumer of startStreamComponent, which calls      *)
(*     AddToken for both tokens of a market it takes off Kafka;            *)
(*   - a ping goroutine per readLoop, which outlives it for a moment and   *)
(*     writes to whatever w.client is then;                                *)
(*   - discovery (another service), which publishes every active market    *)
(*     again in each of its cycles.                                        *)
(* w.mu protects tokens.  connect assigns w.client and w.subscribed before *)
(* it takes the lock, and pings write without it.                          *)
(*                                                                         *)
(* A write to a connection takes two steps, begin and end.  Two writes on  *)
(* one connection at a time are beyond what the library supports: it       *)
(* panics, or the messages spoil each other and each may be lost, with or  *)
(* without an error.  A read of w.client in the middle of its very first   *)
(* assignment (two words) may panic.  A crash loses all memory; the        *)
(* container runtime restarts the process, and the consumer group goes on  *)
(* behind the message it fetched last (the offset is committed on read).   *)
(* Back-off times between dials are left out.                              *)
(***************************************************************************)
EXTENDS Naturals, Sequences, FiniteSets

CONSTANTS
    Markets,        \* active markets whose YES token hashes to this worker
    MaxConns,       \* bound: connections dialled
    MaxCrashes      \* bound: crashes of the process

ASSUME BoundsAssumption == MaxConns \in Nat \ {0} /\ MaxCrashes \in Nat

Sides == {"yes", "no"}
Tokens == Markets \X Sides
Conns == 1 .. MaxConns
None == 0           \* no connection; as w.client, nil
Adder == 0          \* names of writers; a ping is named by its connection
Worker == MaxConns + 1
Writers == Conns \cup {Adder, Worker}

VARIABLES
    extracted,      \* Redis keys tokens:extracted:<market>
    topic,          \* markets published and not yet fetched
    adder,          \* the token consumer and AddToken
    todo,           \* tokens of the fetched message still to be added
    worker,         \* Start, connect and readLoop
    ping,           \* ping goroutine of each readLoop
    mu,             \* holder of w.mu, or "free"
    tokens,         \* w.tokens
    client,         \* w.client
    subscribed,     \* w.subscribed
    dialled,        \* connections dialled so far
    link,           \* state of each connection
    subs,           \* tokens the exchange has subscribed on each connection
    on,             \* connection each writer is writing to
    payload,        \* tokens in the message being written
    spoilt,         \* connections on which two writes have overlapped
    crashes

workerVars == <<worker, ping>>
adderVars == <<adder, todo>>
fields == <<tokens, client, subscribed>>
netVars == <<dialled, link, subs>>
writeVars == <<on, payload, spoilt>>
vars == <<extracted, topic, adder, todo, worker, ping, mu, tokens, client,
          subscribed, dialled, link, subs, on, payload, spoilt, crashes>>

Init ==
    /\ extracted = {} /\ topic = {}
    /\ adder = "fetch" /\ todo = <<>>
    /\ worker = "idle" /\ ping = [g \in Conns |-> "off"]
    /\ mu = "free"
    /\ tokens = {} /\ client = None /\ subscribed = FALSE
    /\ dialled = 0
    /\ link = [g \in Conns |-> "new"]
    /\ subs = [g \in Conns |-> {}]
    /\ on = [w \in Writers |-> None]
    /\ payload = [w \in Writers |-> {}]
    /\ spoilt = {}
    /\ crashes = 0

\* The process dies, is restarted, and leaves its connections behind.
Reboot ==
    /\ crashes < MaxCrashes
    /\ crashes' = crashes + 1
    /\ adder' = "fetch" /\ todo' = <<>>
    /\ worker' = "idle" /\ ping' = [g \in Conns |-> "off"]
    /\ mu' = "free"
    /\ tokens' = {} /\ client' = None /\ subscribed' = FALSE
    /\ on' = [w \in Writers |-> None]
    /\ payload' = [w \in Writers |-> {}]
    /\ link' = [g \in Conns |-> IF g <= dialled THEN "closed" ELSE "new"]
    /\ UNCHANGED <<extracted, topic, dialled, subs, spoilt>>

-----------------------------------------------------------------------------
(* Discovery.  A name ending in Faulty is a mistake the code does not make:  *)
(* it is checked to break a property below, and no specification uses it.    *)

PublishFaulty(m) ==
    /\ m \notin extracted
    /\ extracted' = extracted \cup {m}
    /\ topic' = topic \cup {m}
    /\ UNCHANGED <<adderVars, workerVars, mu, fields, netVars, writeVars,
                   crashes>>

\* processMarket: sets the key, never asks for it, and publishes.
Publish(m) ==
    /\ extracted' = extracted \cup {m}
    /\ topic' = topic \cup {m}
    /\ UNCHANGED <<adderVars, workerVars, mu, fields, netVars, writeVars,
                   crashes>>

-----------------------------------------------------------------------------
(* Writing to a connection *)

Busy(g) == \E w \in Writers : on[w] = g

\* Writer w begins a message with the given tokens on w.client.
BeginWrite(w, toks) ==
    /\ on' = [on EXCEPT ![w] = client]
    /\ payload' = [payload EXCEPT ![w] = toks]
    /\ spoilt' = IF Busy(client) THEN spoilt \cup {client} ELSE spoilt

\* The write of w returns, without an error iff ok.
EndWrite(w, ok) ==
    LET g == on[w]
        deliver == subs' = [subs EXCEPT ![g] = @ \cup payload[w]]
        drop == UNCHANGED subs
    IN /\ on' = [on EXCEPT ![w] = None]
       /\ payload' = [payload EXCEPT ![w] = {}]
       /\ UNCHANGED spoilt
       /\ \/ link[g] = "open" /\ g \notin spoilt /\ ok /\ deliver
          \/ link[g] = "open" /\ g \in spoilt /\ (deliver \/ drop)
          \/ link[g] # "open" /\ drop

-----------------------------------------------------------------------------
(* Start, connect, readLoop *)

\* Start sees, under the lock, that there are tokens.
Wake ==
    /\ worker = "idle"
    /\ mu = "free"
    /\ tokens # {}
    /\ worker' = "dial"
    /\ UNCHANGED <<extracted, topic, adderVars, ping, mu, fields, netVars,
                   writeVars, crashes>>

\* The dial succeeds (one that fails is retried after a while).
Dial ==
    /\ worker = "dial"
    /\ dialled < MaxConns
    /\ dialled' = dialled + 1
    /\ link' = [link EXCEPT ![dialled + 1] = "open"]
    /\ worker' = "assign"
    /\ UNCHANGED <<extracted, topic, adderVars, ping, mu, fields, subs,
                   writeVars, crashes>>

\* w.client = client, without the lock.
AssignClient ==
    /\ worker = "assign"
    /\ client' = dialled
    /\ worker' = "reset"
    /\ UNCHANGED <<extracted, topic, adderVars, ping, mu, tokens, subscribed,
                   netVars, writeVars, crashes>>

\* w.subscribed = false, without the lock.
ResetSubscribed ==
    /\ worker = "reset"
    /\ subscribed' = FALSE
    /\ worker' = "lock"
    /\ UNCHANGED <<extracted, topic, adderVars, ping, mu, tokens, client,
                   netVars, writeVars, crashes>>

\* connect takes the lock and subscribes to everything.
SubscribeAll ==
    /\ worker = "lock"
    /\ mu = "free"
    /\ mu' = "worker"
    /\ BeginWrite(Worker, tokens)
    /\ worker' = "writing"
    /\ UNCHANGED <<extracted, topic, adderVars, ping, fields, netVars, crashes>>

\* connect returns; readLoop starts, and its ping goroutine.
Connected ==
    /\ worker = "writing"
    /\ \E ok \in BOOLEAN :
          /\ EndWrite(Worker, ok)
          /\ subscribed' = (ok \/ subscribed)
    /\ mu' = "free"
    /\ worker' = "reading"
    /\ ping' = [ping EXCEPT ![client] = "on"]
    /\ UNCHANGED <<extracted, topic, adderVars, tokens, client, dialled, link,
                   crashes>>

\* ReadMessage fails: close the connection and stop the pings.
ReadFails ==
    /\ worker = "reading"
    /\ link[client] = "lost"
    /\ link' = [link EXCEPT ![client] = "closed"]
    /\ ping' = [ping EXCEPT ![client] = IF @ = "on" THEN "stopping" ELSE @]
    /\ worker' = "idle"
    /\ UNCHANGED <<extracted, topic, adderVars, mu, fields, dialled, subs,
                   writeVars, crashes>>

\* A tick: it may win over pingStop in the select.
PingBegins(g) ==
    /\ ping[g] \in {"on", "stopping"}
    /\ on[g] = None
    /\ BeginWrite(g, {})
    /\ UNCHANGED <<extracted, topic, adderVars, workerVars, mu, fields,
                   netVars, crashes>>

PingEnds(g) ==
    /\ on[g] # None
    /\ \E ok \in BOOLEAN :
          /\ EndWrite(g, ok)
          /\ ping' = IF ok THEN ping ELSE [ping EXCEPT ![g] = "off"]
    /\ UNCHANGED <<extracted, topic, adderVars, worker, mu, fields, dialled,
                   link, crashes>>

PingStops(g) ==
    /\ ping[g] = "stopping"
    /\ on[g] = None
    /\ ping' = [ping EXCEPT ![g] = "off"]
    /\ UNCHANGED <<extracted, topic, adderVars, worker, mu, fields, netVars,
                   writeVars, crashes>>

-----------------------------------------------------------------------------
(* The token consumer and AddToken *)

\* Fetch commits the offset before anything is done with the message.
Fetch(m) ==
    /\ adder = "fetch"
    /\ m \in topic
    /\ topic' = topic \ {m}
    /\ todo' = << <<m, "yes">>, <<m, "no">> >>
    /\ adder' = "lock"
    /\ UNCHANGED <<extracted, workerVars, mu, fields, netVars, writeVars,
                   crashes>>

\* The rest of the message, or the next one.
NextToken ==
    /\ todo' = Tail(todo)
    /\ adder' = IF Len(todo) = 1 THEN "fetch" ELSE "lock"

Known(t) == t \in tokens

\* AddToken of a token it has already.
SkipKnown ==
    /\ adder = "lock"
    /\ mu = "free"
    /\ Known(Head(todo))
    /\ NextToken
    /\ UNCHANGED <<extracted, topic, workerVars, mu, fields, netVars,
                   writeVars, crashes>>

AddNew ==
    /\ adder = "lock"
    /\ mu = "free"
    /\ ~Known(Head(todo))
    /\ mu' = "adder"
    /\ tokens' = tokens \cup {Head(todo)}
    /\ adder' = "client"
    /\ UNCHANGED <<extracted, topic, todo, workerVars, client, subscribed,
                   netVars, writeVars, crashes>>

UnlockFaulty == mu' = mu

\* The deferred w.mu.Unlock.
Unlock == mu' = "free"

\* w.client is nil: the worker will subscribe when it connects.
NoClientYet ==
    /\ adder = "client"
    /\ client = None
    /\ Unlock
    /\ NextToken
    /\ UNCHANGED <<extracted, topic, workerVars, fields, netVars, writeVars,
                   crashes>>

\* What AddToken sends, by w.subscribed.
Mode == IF subscribed THEN "extend" ELSE "initial"

HasClientFaulty ==
    /\ adder = "client"
    /\ client # None
    /\ IF subscribed THEN NextToken /\ Unlock
       ELSE adder' = "initial" /\ UNCHANGED <<todo, mu>>
    /\ UNCHANGED <<extracted, topic, workerVars, fields, netVars, writeVars,
                   crashes>>

\* There is a connection, or was one: tell the exchange.
HasClient ==
    /\ adder = "client"
    /\ client # None
    /\ adder' = Mode
    /\ UNCHANGED <<extracted, topic, todo, workerVars, mu, fields, netVars,
                   writeVars, crashes>>

\* w.client is read again for the write.
AdderWrites ==
    /\ adder \in {"extend", "initial"}
    /\ BeginWrite(Adder, IF adder = "extend" THEN {Head(todo)} ELSE tokens)
    /\ adder' = IF adder = "extend" THEN "extending" ELSE "subscribing"
    /\ UNCHANGED <<extracted, topic, todo, workerVars, mu, fields, netVars,
                   crashes>>

\* The error of an incremental subscription is ignored.
AdderDone ==
    /\ adder \in {"extending", "subscribing"}
    /\ \E ok \in BOOLEAN :
          /\ EndWrite(Adder, ok)
          /\ subscribed' = (subscribed \/ (ok /\ adder = "subscribing"))
    /\ Unlock
    /\ NextToken
    /\ UNCHANGED <<extracted, topic, workerVars, tokens, client, dialled, link,
                   crashes>>

-----------------------------------------------------------------------------
(* The environment *)

\* Bound: the last connection lasts.
LinkBreaks ==
    /\ \E g \in Conns :
          /\ link[g] = "open"
          /\ dialled < MaxConns
          /\ link' = [link EXCEPT ![g] = "lost"]
    /\ UNCHANGED <<extracted, topic, adderVars, workerVars, mu, fields,
                   dialled, subs, writeVars, crashes>>

\* The process is killed.  Bound: a connection is left for the next one.
Crash == dialled < MaxConns /\ Reboot

\* A writer is about to write, or reads w.client while its first assignment
\* is under way.
Overlap ==
    \/ adder \in {"extend", "initial"} /\ Busy(client)
    \/ worker = "lock" /\ mu = "free" /\ Busy(client)
    \/ \E g \in Conns :
          ping[g] \in {"on", "stopping"} /\ on[g] = None /\ Busy(client)

TornRead == adder = "client" /\ client = None /\ worker = "assign"

Panic == (Overlap \/ TornRead) /\ dialled < MaxConns /\ Reboot

WorkerNext ==
    \/ Wake \/ Dial \/ AssignClient \/ ResetSubscribed \/ SubscribeAll
    \/ Connected \/ ReadFails

AdderNext ==
    \/ SkipKnown \/ AddNew \/ NoClientYet \/ HasClient
    \/ AdderWrites \/ AdderDone
    \/ \E m \in Markets : Fetch(m)

Next ==
    \/ WorkerNext
    \/ AdderNext
    \/ \E g \in Conns : PingBegins(g) \/ PingEnds(g) \/ PingStops(g)
    \/ \E m \in Markets : Publish(m)
    \/ LinkBreaks \/ Crash \/ Panic

Spec == Init /\ [][Next]_vars

(***************************************************************************)
(* Fairness.  Goroutines are scheduled and a sync.Mutex lets no waiter      *)
(* starve; a write returns, a lost connection is noticed by the next read.  *)
(* Discovery repeats its cycle.  Nothing is assumed of failures.            *)
(***************************************************************************)
FairSpec ==
    /\ Spec
    /\ \A m \in Markets : WF_vars(Publish(m))
    /\ SF_vars(Wake) /\ SF_vars(SubscribeAll)
    /\ WF_vars(Dial \/ AssignClient \/ ResetSubscribed)
    /\ WF_vars(Connected) /\ WF_vars(ReadFails)
    /\ SF_vars(SkipKnown \/ AddNew)
    /\ WF_vars(NoClientYet \/ HasClient \/ AdderWrites \/ AdderDone)
    /\ \A m \in Markets : SF_vars(Fetch(m))
    /\ \A g \in Conns : WF_vars(PingEnds(g))

-----------------------------------------------------------------------------
(* Properties *)

TypeOK ==
    /\ extracted \subseteq Markets /\ topic \subseteq Markets
    /\ adder \in {"fetch", "lock", "client", "extend", "initial", "extending",
                  "subscribing"}
    /\ todo \in Seq(Tokens) /\ Len(todo) <= 2
    /\ adder # "fetch" <=> Len(todo) > 0
    /\ worker \in {"idle", "dial", "assign", "reset", "lock", "writing",
                   "reading"}
    /\ ping \in [Conns -> {"off", "on", "stopping"}]
    /\ mu = IF worker = "writing" THEN "worker"
            ELSE IF adder \in {"fetch", "lock"} THEN "free" ELSE "adder"
    /\ tokens \subseteq Tokens
    /\ client \in 0 .. MaxConns
    /\ subscribed \in BOOLEAN
    /\ dialled \in 0 .. MaxConns
    /\ link \in [Conns -> {"new", "open", "lost", "closed"}]
    /\ subs \in [Conns -> SUBSET Tokens]
    /\ on \in [Writers -> 0 .. MaxConns]
    /\ payload \in [Writers -> SUBSET Tokens]
    /\ spoilt \subseteq Conns
    /\ crashes \in 0 .. MaxCrashes

\* No token is forgotten on a connection that works: once nobody is inside
\* AddToken or connect, the exchange has been asked for every token of the
\* map, however connect's unlocked assignments, AddToken and a reconnection
\* met (lines 208-268).  Only overlapping writes are excused.
NoTokenForgotten ==
    worker = "reading" /\ mu = "free" /\ link[client] = "open"
      => tokens \subseteq subs[client] \/ client \in spoilt

\* Every active market is subscribed in the end and stays so, through lost
\* connections, crashes and lost messages of the token topic; a connection
\* on which two writes have overlapped may miss tokens for ever.
SubscribedInTheEnd ==
    \A t \in Tokens :
        <>[](client # None /\ (client \in spoilt \/ t \in subs[client]))

-----------------------------------------------------------------------------
(* Inductive invariant, for the proofs in StreamWorkerProofs *)

\* Why NoTokenForgotten holds.  Who writes under the lock writes what it read
\* under the lock.  While readLoop runs, w.client is the connection that
\* connect subscribed, and AddToken, which waited for connect, writes to it;
\* of the map only the token that AddToken is busy with may be missing there.
SubscribeInv ==
    /\ worker = "assign" => dialled > 0
    /\ worker \in {"reset", "lock", "writing", "reading"} => client # None
    /\ client = None => adder \notin {"extend", "initial"} /\ \A g \in Conns : ping[g] = "off"
    /\ worker = "writing" =>
          /\ adder \in {"fetch", "lock"}
          /\ on[Worker] = client /\ payload[Worker] = tokens
    /\ adder \in {"extending", "subscribing"} =>
          /\ on[Adder] # None
          /\ payload[Adder] = IF adder = "extending" THEN {Head(todo)} ELSE tokens
          /\ worker = "reading" => on[Adder] = client
    /\ worker = "reading" /\ link[client] = "open" /\ client \notin spoilt =>
          tokens \ (IF mu = "adder" THEN {Head(todo)} ELSE {}) \subseteq subs[client]
=============================================================================
