----------------------------- MODULE Normalizer ------------------------------
(***************************************************************************)
(* The normalizer of the storage service (startNormalizerComponent), its   *)
(* flusher and the retry helper (retry.Do).                                *)
(*                                                                         *)
(* Two consumers fill one buffer under a mutex: one reads raw WebSocket    *)
(* messages, each with the trades of one payload, and for every trade      *)
(* publishes it, inserts it into the trades table and appends it; the      *)
(* other appends one event per backfill message.  The flusher takes the    *)
(* mutex at a tick and keeps it until the batch is in events_raw or given  *)
(* up.  An error of Fetch is ignored: the WebSocket consumer does nothing  *)
(* with the zero message, the backfill consumer appends an event made of   *)
(* it (Junk).                                                              *)
(*                                                                         *)
(* ClickHouse may refuse a statement, or perform it and fail to say so.    *)
(* The service may be told to stop, and may die at any time; it restarts   *)
(* and reads on behind the messages it fetched, the offset being committed *)
(* on read.  Consumers that insert one row per message and keep no state   *)
(* (order books, metadata, on-chain trades) are left out.                  *)
(***************************************************************************)
EXTENDS Naturals, Sequences, FiniteSets, SequencesExt

CONSTANTS
    MaxRaw,         \* bound: messages in the WebSocket topic
    PerMessage,     \* bound: trades in one message
    MaxBackfill,    \* bound: fetches from the backfill topic
    MaxAttempts,    \* attempts of retry.Do (3)
    MaxStarts       \* bound: starts of the process

ASSUME BoundsAssumption ==
    /\ MaxRaw \in Nat /\ PerMessage \in Nat /\ MaxBackfill \in Nat
    /\ MaxAttempts \in Nat \ {0}
    /\ MaxStarts \in Nat \ {0}

Trades == [kind : {"trade"}, msg : 1 .. MaxRaw, n : 1 .. PerMessage]
Backfills == [kind : {"backfill"}, msg : 1 .. MaxBackfill, n : {1}]
Junk == [kind : {"junk"}, msg : 1 .. MaxBackfill, n : {1}]
Events == Trades \cup Backfills \cup Junk

VARIABLES
    raw,            \* WebSocket messages fetched
    ws,             \* "fetch" | "publish" | "insert" | "append"
    left,           \* trades of the current message still to be handled
    backfilled,     \* fetches of the backfill consumer
    bf,             \* "fetch" | "append"
    item,           \* event the backfill consumer is about to append
    buffer,
    flusher,        \* "tick" | "attempt" | "wait" | "stopped"
    batch,          \* the slice handed to flushBatch
    attempt,        \* attempt of retry.Do
    cancelled,
    starts,
    live,           \* trades in predsx.trades.live
    trades,         \* rows of the trades table
    rows,           \* event -> rows it has in events_raw
    accepted,       \* history: events appended to the buffer
    lost,           \* history: events given up by the flusher or lost in a crash
    doubtful        \* history: events of an insert that failed but happened

wsVars == <<raw, ws, left>>
bfVars == <<backfilled, bf, item>>
flushVars == <<flusher, batch, attempt>>
sinkVars == <<live, trades, rows>>
runVars == <<cancelled, starts>>
history == <<accepted, lost, doubtful>>
vars == <<raw, ws, left, backfilled, bf, item, buffer, flusher, batch,
          attempt, cancelled, starts, live, trades, rows, accepted, lost,
          doubtful>>

NoItem == [kind |-> "none", msg |-> 0, n |-> 1]

Init ==
    /\ raw = 0 /\ ws = "fetch" /\ left = <<>>
    /\ backfilled = 0 /\ bf = "fetch" /\ item = NoItem
    /\ buffer = <<>>
    /\ flusher = "tick" /\ batch = <<>> /\ attempt = 0
    /\ cancelled = FALSE /\ starts = 1
    /\ live = {} /\ trades = {} /\ rows = [e \in Events |-> 0]
    /\ accepted = {} /\ lost = {} /\ doubtful = {}

Buffered == ToSet(buffer)

\* The mutex is held across steps by the flusher only.
MuFree == flusher \in {"tick", "stopped"}

-----------------------------------------------------------------------------
(* The WebSocket consumer (processWebsocketEvent).  A name ending in Faulty  *)
(* is a mistake the code does not make, checked to break a property below.   *)

\* A message with no trade in it, or of an unknown market, is passed over.
FetchRaw ==
    /\ ws = "fetch"
    /\ ~cancelled
    /\ raw < MaxRaw
    /\ raw' = raw + 1
    /\ \E k \in 0 .. PerMessage :
          /\ left' = [i \in 1 .. k |->
                        [kind |-> "trade", msg |-> raw + 1, n |-> i]]
          /\ ws' = IF k = 0 THEN "fetch" ELSE "publish"
    /\ UNCHANGED <<bfVars, buffer, flushVars, runVars, sinkVars, history>>

\* The errors of Publish and of Exec are ignored.
PublishTrade ==
    /\ ws = "publish"
    /\ ws' = "insert"
    /\ live' \in {live, live \cup {Head(left)}}
    /\ UNCHANGED <<raw, left, bfVars, buffer, flushVars, runVars, trades, rows,
                   history>>

InsertTrade ==
    /\ ws = "insert"
    /\ ws' = "append"
    /\ trades' \in {trades, trades \cup {Head(left)}}
    /\ UNCHANGED <<raw, left, bfVars, buffer, flushVars, runVars, live, rows,
                   history>>

Accept(e) ==
    /\ buffer' = Append(buffer, e)
    /\ accepted' = accepted \cup {e}

AppendTradeFaulty ==
    /\ ws = "append"
    /\ Accept(Head(left))
    /\ left' = Tail(left)
    /\ ws' = IF Len(left) = 1 THEN "fetch" ELSE "publish"
    /\ UNCHANGED <<raw, bfVars, flushVars, runVars, sinkVars, lost, doubtful>>

AppendTrade ==
    /\ ws = "append"
    /\ MuFree
    /\ Accept(Head(left))
    /\ left' = Tail(left)
    /\ ws' = IF Len(left) = 1 THEN "fetch" ELSE "publish"
    /\ UNCHANGED <<raw, bfVars, flushVars, runVars, sinkVars, lost, doubtful>>

-----------------------------------------------------------------------------
(* The backfill consumer *)

\* A fetch that fails (a message that does not decode, a broker error, the
\* service stopping) is followed by the append all the same.
FetchBackfill ==
    /\ bf = "fetch"
    /\ backfilled < MaxBackfill
    /\ backfilled' = backfilled + 1
    /\ \E k \in {"backfill", "junk"} :
          /\ cancelled => k = "junk"
          /\ item' = [kind |-> k, msg |-> backfilled + 1, n |-> 1]
    /\ bf' = "append"
    /\ UNCHANGED <<wsVars, buffer, flushVars, runVars, sinkVars, history>>

AppendBackfill ==
    /\ bf = "append"
    /\ MuFree
    /\ Accept(item)
    /\ item' = NoItem
    /\ bf' = "fetch"
    /\ UNCHANGED <<wsVars, backfilled, flushVars, runVars, sinkVars,
                   lost, doubtful>>

-----------------------------------------------------------------------------
(* The flusher: flushBatch and retry.Do *)

\* A tick: lock, and start with the first attempt if there is anything.
Tick ==
    /\ flusher = "tick"
    /\ buffer # <<>>
    /\ flusher' = "attempt"
    /\ batch' = buffer
    /\ attempt' = 1
    /\ UNCHANGED <<wsVars, bfVars, buffer, runVars, sinkVars, history>>

StoreBatch == rows' = [e \in Events |->
                         IF e \in ToSet(batch) THEN rows[e] + 1 ELSE rows[e]]

ForgetFaulty == UNCHANGED buffer /\ batch' = <<>>

\* buffer = nil, and unlock: whatever flushBatch returned.
Forget == buffer' = <<>> /\ batch' = <<>>

\* The batch is sent and acknowledged.
AttemptSucceeds ==
    /\ flusher = "attempt"
    /\ ~cancelled
    /\ StoreBatch
    /\ Forget
    /\ flusher' = "tick"
    /\ UNCHANGED <<wsVars, bfVars, attempt, runVars, live, trades, history>>

GiveUpFaulty == attempt > MaxAttempts

\* retry.Do does not wait after its last attempt.
GiveUp == attempt = MaxAttempts

Abandon ==
    /\ Forget
    /\ lost' = lost \cup ToSet(batch)
    /\ flusher' = "tick"

\* PrepareBatch or Send fails, Send perhaps after the batch was stored.
AttemptFails ==
    /\ flusher = "attempt"
    /\ \/ UNCHANGED <<rows, doubtful>>
       \/ ~cancelled /\ StoreBatch /\ doubtful' = doubtful \cup ToSet(batch)
    /\ \/ GiveUp /\ Abandon
       \/ ~GiveUp /\ flusher' = "wait" /\ UNCHANGED <<buffer, batch, lost>>
    /\ UNCHANGED <<wsVars, bfVars, attempt, runVars, live, trades, accepted>>

NextAttemptFaulty ==
    /\ flusher = "wait"
    /\ flusher' = "attempt"
    /\ UNCHANGED <<wsVars, bfVars, buffer, batch, attempt, runVars, sinkVars,
                   history>>

\* The back-off is over.
NextAttempt ==
    /\ flusher = "wait"
    /\ flusher' = "attempt"
    /\ attempt' = attempt + 1
    /\ UNCHANGED <<wsVars, bfVars, buffer, batch, runVars, sinkVars, history>>

\* The wait ends early with ctx.Err.
WaitCancelled ==
    /\ flusher = "wait"
    /\ cancelled
    /\ Abandon
    /\ UNCHANGED <<wsVars, bfVars, attempt, runVars, sinkVars, accepted,
                   doubtful>>

FlusherStops ==
    /\ flusher = "tick"
    /\ cancelled
    /\ flusher' = "stopped"
    /\ UNCHANGED <<wsVars, bfVars, buffer, batch, attempt, runVars, sinkVars,
                   history>>

-----------------------------------------------------------------------------
(* The process *)

Cancel ==
    /\ ~cancelled
    /\ cancelled' = TRUE
    /\ UNCHANGED <<wsVars, bfVars, buffer, flushVars, starts, sinkVars, history>>

RestartFaulty ==
    /\ starts < MaxStarts
    /\ starts' = starts + 1
    /\ raw' = IF ws = "fetch" THEN raw ELSE raw - 1
    /\ ws' = "fetch" /\ left' = <<>>
    /\ bf' = "fetch" /\ item' = NoItem
    /\ buffer' = <<>> /\ lost' = lost \cup Buffered
    /\ flusher' = "tick" /\ batch' = <<>> /\ attempt' = 0
    /\ cancelled' = FALSE
    /\ UNCHANGED <<backfilled, sinkVars, accepted, doubtful>>

\* The process ends (it waits for nobody when it is told to) and is started
\* again.
Restart ==
    /\ starts < MaxStarts
    /\ starts' = starts + 1
    /\ ws' = "fetch" /\ left' = <<>>
    /\ bf' = "fetch" /\ item' = NoItem
    /\ buffer' = <<>> /\ lost' = lost \cup Buffered
    /\ flusher' = "tick" /\ batch' = <<>> /\ attempt' = 0
    /\ cancelled' = FALSE
    /\ UNCHANGED <<raw, backfilled, sinkVars, accepted, doubtful>>

WsNext == FetchRaw \/ PublishTrade \/ InsertTrade \/ AppendTrade
BfNext == FetchBackfill \/ AppendBackfill
FlushNext ==
    \/ Tick \/ AttemptSucceeds \/ AttemptFails
    \/ NextAttempt \/ WaitCancelled \/ FlusherStops

Next == WsNext \/ BfNext \/ FlushNext \/ Cancel \/ Restart

Spec == Init /\ [][Next]_vars

(* Fairness.  Goroutines and the ticker run and calls return; a Go mutex    *)
(* lets no waiter starve.  No call is assumed to succeed.                   *)
FairSpec ==
    /\ Spec
    /\ WF_vars(PublishTrade) /\ WF_vars(InsertTrade)
    /\ SF_vars(AppendTrade) /\ SF_vars(AppendBackfill)
    /\ WF_vars(FlushNext)

-----------------------------------------------------------------------------
(* Properties *)

TypeOK ==
    /\ raw \in 0 .. MaxRaw
    /\ ws \in {"fetch", "publish", "insert", "append"}
    /\ left \in Seq(Trades) /\ Len(left) <= PerMessage
    /\ ws # "fetch" => Len(left) > 0
    /\ backfilled \in 0 .. MaxBackfill
    /\ bf \in {"fetch", "append"}
    /\ item \in Backfills \cup Junk \cup {NoItem}
    /\ bf = "append" <=> item # NoItem
    /\ buffer \in Seq(Events) /\ batch \in Seq(Events)
    /\ flusher \in {"tick", "attempt", "wait", "stopped"}
    /\ attempt \in 0 .. MaxAttempts
    /\ cancelled \in BOOLEAN
    /\ starts \in 1 .. MaxStarts
    /\ live \subseteq Trades
    /\ trades \subseteq Trades
    /\ rows \in [Events -> Nat]
    /\ accepted \subseteq Events
    /\ lost \subseteq Events
    /\ doubtful \subseteq Events

\* An event that entered the buffer is there still, is stored, or was given
\* up with its whole batch: none disappears between the consumers and the
\* flusher, which is why flushBatch runs under the mutex (lines 109-114).
NoneVanishes ==
    \A e \in accepted : e \in Buffered \/ rows[e] > 0 \/ e \in lost

\* events_raw holds an event more than once only after an insert that failed
\* and took place all the same, and never more often than there are attempts.
NoneTwice ==
    \A e \in Events :
        /\ rows[e] > 1 => e \in doubtful
        /\ rows[e] <= MaxAttempts

\* A message is handled once in all the lives of the process: no event enters
\* the buffer a second time.
AcceptedOnce ==
    [][\A e \in accepted : e \in Buffered' => e \in Buffered]_vars

\* A database that is down holds up the consumers for a while, not for ever:
\* the flusher gives the mutex up at the end of its attempts, and each of the
\* two consumers that waits for it gets it (storage/main.go 109-114, 124-126,
\* 135-137).
ConsumersGoOn ==
    /\ flusher = "attempt" ~> MuFree
    /\ ws = "append" ~> ws # "append"
    /\ bf = "append" ~> bf # "append"
=============================================================================
