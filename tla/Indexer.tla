------------------------------ MODULE Indexer -------------------------------
(***************************************************************************)
(* The on-chain indexer of the ingestion service: rpcRotator,              *)
(* startIndexerComponent and runIndexerCycle.                              *)
(*                                                                         *)
(* One goroutine runs cycles.  A cycle uses one endpoint of the pool until *)
(* it fails; the endpoint is then benched for a while and the next cycle   *)
(* starts from scratch on the endpoint that pick returns.  A cycle either  *)
(* streams logs (endpoints that accept a subscription) or polls: it asks   *)
(* for the head of the chain, then for the logs of a small range of blocks *)
(* above the last block it has seen.                                       *)
(*                                                                         *)
(* Endpoints are their positions in the pool.  A Failing endpoint may fail *)
(* any request; a Lagging one may report any height of the past; a Hanging *)
(* one may leave a request without an answer, or a subscription without    *)
(* logs, for ever, and no request has a timeout; otherwise endpoints answer*)
(* truthfully.  Time is counted in ticks of the poll timer (5 s).          *)
(* Heights are unsigned machine words: Word stands for 2^64.               *)
(* Publishing the logs of a block to Kafka (processLog) ignores errors, so *)
(* a block is only known to be handed over; handed records it.             *)
(***************************************************************************)
EXTENDS Integers, FiniteSets

CONSTANTS
    N,              \* number of endpoints in the pool
    Failing,        \* endpoints whose requests may fail
    Lagging,        \* endpoints that may report an old height
    Hanging,        \* endpoints that may never answer
    Streaming,      \* endpoints that accept a log subscription
    Cooldown,       \* bench time in ticks (2 minutes in the code)
    MaxErrors,      \* consecutive errors that end a cycle (3)
    Back,           \* blocks a new cycle starts behind the head (5)
    Chunk,          \* cap on the blocks of one log request (40)
    Word,           \* number of values of a height (2^64)
    FirstHead,      \* height of the chain when the service starts
    MaxHead,        \* bound: height the chain may grow to
    MinReport       \* lowest height a lagging endpoint reports

Endpoints == 0 .. N - 1

ASSUME PoolAssumption ==
    /\ N \in Nat \ {0}
    /\ Failing \subseteq Endpoints
    /\ Lagging \subseteq Endpoints
    /\ Hanging \subseteq Endpoints
    /\ Streaming \subseteq Endpoints
ASSUME LimitsAssumption ==
    /\ Cooldown \in Nat \ {0}
    /\ MaxErrors \in Nat \ {0}
    /\ Back \in Nat
    /\ Chunk \in Nat \ {0}
    /\ FirstHead \in Nat
    /\ MaxHead \in Nat
    /\ Word \in Nat
    /\ FirstHead <= MaxHead
    /\ MaxHead + Chunk + Back < Word
    /\ MinReport \in Nat
    /\ MinReport <= FirstHead

VARIABLES
    mode,           \* "pick" | "dial" | "poll" | "logs" | "sub" | "hung"
                    \* | "stopped"
    url,            \* endpoint of the current or last cycle; N before the first
    idx,            \* rpcRotator.idx
    cool,           \* endpoint -> ticks until its bench time is over
    last,           \* lastBlock
    cur,            \* currentBlock
    headerErrors,
    logErrors,
    head,           \* true height of the chain
    start,          \* history: where the cycle started to read
    handed,         \* history: blocks the cycle handed to processLog
    streak          \* history: polls in a row that ended in an error

rotator == <<url, idx, cool>>
vars == <<mode, url, idx, cool, last, cur, headerErrors, logErrors, head,
          start, handed, streak>>

Init ==
    /\ mode = "pick"
    /\ url = N
    /\ idx = 0
    /\ cool = [e \in Endpoints |-> 0]
    /\ last = 0
    /\ cur = 0
    /\ headerErrors = 0
    /\ logErrors = 0
    /\ head = FirstHead
    /\ start = 0
    /\ handed = {}
    /\ streak = 0

\* a - b on unsigned words.
Minus(a, b) == IF a >= b THEN a - b ELSE Word - (b - a)

\* One tick has passed.
Ticked(c) == [e \in Endpoints |-> IF c[e] > 0 THEN c[e] - 1 ELSE 0]

-----------------------------------------------------------------------------
(* rpcRotator and the loop of startIndexerComponent.                       *)
(* AdvanceStuck and the like, and names ending in Faulty, are mistakes the *)
(* code does not make: each is checked to break a property below, and no   *)
(* specification uses them.                                                *)

\* The k-th endpoint in line.
InLine(k) == (idx + k) % N

Free(k) == cool[InLine(k)] = 0

AdvanceStuck(k) == 0

AdvanceUnwrapped(k) == idx + k + 1

\* idx after pick has returned the k-th endpoint in line.
Advance(k) == (idx + k + 1) % N

\* The first endpoint in line that is not benched.
PickFree ==
    /\ mode = "pick"
    /\ \E k \in Endpoints :
          /\ Free(k)
          /\ \A j \in Endpoints : j < k => ~Free(j)
          /\ url' = InLine(k)
          /\ idx' = Advance(k)
    /\ mode' = "dial"
    /\ UNCHANGED <<cool, last, cur, headerErrors, logErrors, head, start,
                   handed, streak>>

\* All are benched: a full turn brings idx back to where it was.
PickBenched ==
    /\ mode = "pick"
    /\ \A k \in Endpoints : ~Free(k)
    /\ url' = idx
    /\ mode' = "dial"
    /\ UNCHANGED <<idx, cool, last, cur, headerErrors, logErrors, head, start,
                   handed, streak>>

\* The cycle returned an error: bench the endpoint, sleep for a tick.
EndCycle ==
    /\ mode' = "pick"
    /\ cool' = Ticked([cool EXCEPT ![url] = Cooldown])
    /\ UNCHANGED <<url, idx, last, cur, head, start, handed>>

DialFails ==
    /\ mode = "dial"
    /\ url \in Failing
    /\ EndCycle
    /\ streak' = 0
    /\ UNCHANGED <<headerErrors, logErrors>>

\* A dial, subscription, header or log request is not answered, or no log is
\* pushed any more: the goroutine waits, and no timeout wakes it.
Hangs ==
    /\ mode \in {"dial", "poll", "logs", "sub"}
    /\ url \in Hanging
    /\ mode' = "hung"
    /\ UNCHANGED <<rotator, last, cur, headerErrors, logErrors, head, start,
                   handed, streak>>

\* ctx.Done is seen at the top of a loop; it also ends a request that hangs.
Stop ==
    /\ mode \in {"pick", "poll", "sub", "hung"}
    /\ mode' = "stopped"
    /\ UNCHANGED <<rotator, last, cur, headerErrors, logErrors, head, start,
                   handed, streak>>

-----------------------------------------------------------------------------
(* runIndexerCycle with a subscription *)

Subscribe ==
    /\ mode = "dial"
    /\ url \in Streaming
    /\ mode' = "sub"
    /\ last' = head
    /\ start' = head
    /\ handed' = {}
    /\ streak' = 0
    /\ UNCHANGED <<rotator, cur, headerErrors, logErrors, head>>

\* The node pushes the logs of the next block.
StreamBlock ==
    /\ mode = "sub"
    /\ last < head
    /\ handed' = handed \cup {last + 1}
    /\ last' = last + 1
    /\ UNCHANGED <<mode, rotator, cur, headerErrors, logErrors, head, start,
                   streak>>

SubscriptionFails ==
    /\ mode = "sub"
    /\ url \in Failing
    /\ EndCycle
    /\ UNCHANGED <<headerErrors, logErrors, streak>>

-----------------------------------------------------------------------------
(* runIndexerCycle by polling: one iteration is a header request and, when *)
(* there is something new, a log request.                                  *)

StartPolling ==
    /\ mode = "dial"
    /\ mode' = "poll"
    /\ last' = 0
    /\ headerErrors' = 0
    /\ logErrors' = 0
    /\ start' = 0
    /\ handed' = {}
    /\ streak' = 0
    /\ UNCHANGED <<rotator, cur, head>>

\* Heights endpoint e may report.
Reports(e) == IF e \in Lagging THEN MinReport .. head ELSE {head}

HeaderFails ==
    /\ mode = "poll"
    /\ url \in Failing
    /\ headerErrors' = headerErrors + 1
    /\ streak' = streak + 1
    /\ UNCHANGED logErrors
    /\ \/ /\ headerErrors' >= MaxErrors
          /\ EndCycle
       \/ /\ headerErrors' < MaxErrors
          /\ cool' = Ticked(cool)
          /\ UNCHANGED <<mode, url, idx, last, cur, head, start, handed>>

LogErrorsAfterHeaderFaulty == 0

\* A header that arrives does not forgive failed log requests.
LogErrorsAfterHeader == logErrors

\* The first header of a cycle decides where to start.
HeaderArrives ==
    /\ mode = "poll"
    /\ \E h \in Reports(url) :
          /\ cur' = h
          /\ last' = IF last = 0 THEN Minus(h, Back) ELSE last
          /\ start' = IF last = 0 THEN Minus(h, Back) ELSE start
          /\ \/ /\ h <= last'
                /\ mode' = "poll"
                /\ streak' = 0
             \/ /\ h > last'
                /\ mode' = "logs"
                /\ UNCHANGED streak
    /\ headerErrors' = 0
    /\ logErrors' = LogErrorsAfterHeader
    /\ cool' = Ticked(cool)
    /\ UNCHANGED <<url, idx, head, handed>>

From == last + 1

\* The range is not cut at the height that was reported.
UptoFaulty == From + Chunk

Upto == IF cur - From > Chunk THEN From + Chunk ELSE cur

LogsFail ==
    /\ mode = "logs"
    /\ url \in Failing
    /\ logErrors' = logErrors + 1
    /\ streak' = streak + 1
    /\ UNCHANGED headerErrors
    /\ \/ /\ logErrors' >= MaxErrors
          /\ EndCycle
       \/ /\ logErrors' < MaxErrors
          /\ mode' = "poll"
          /\ UNCHANGED <<rotator, last, cur, head, start, handed>>

ReachedFaulty == cur

\* lastBlock after a successful log request.
Reached == Upto

LogsArrive ==
    /\ mode = "logs"
    /\ handed' = handed \cup (From .. Upto)
    /\ last' = Reached
    /\ logErrors' = 0
    /\ streak' = 0
    /\ mode' = "poll"
    /\ UNCHANGED <<rotator, cur, headerErrors, head, start>>

-----------------------------------------------------------------------------

ChainGrows ==
    /\ head < MaxHead
    /\ head' = head + 1
    /\ UNCHANGED <<mode, rotator, last, cur, headerErrors, logErrors, start,
                   handed, streak>>

Step ==
    \/ PickFree \/ PickBenched
    \/ DialFails \/ StartPolling \/ Subscribe
    \/ StreamBlock \/ SubscriptionFails
    \/ HeaderFails \/ HeaderArrives \/ LogsFail \/ LogsArrive

Next == Step \/ Hangs \/ ChainGrows \/ Stop

Spec == Init /\ [][Next]_vars

\* The goroutine runs, and a request that does not hang is answered; nothing is
\* assumed of the chain or of what the answers say.
FairSpec == Spec /\ WF_vars(Step)

-----------------------------------------------------------------------------
(* Properties *)

TypeOK ==
    /\ mode \in {"pick", "dial", "poll", "logs", "sub", "hung", "stopped"}
    /\ url \in 0 .. N
    /\ idx \in Endpoints
    /\ cool \in [Endpoints -> 0 .. Cooldown]
    /\ last \in 0 .. Word - 1
    /\ cur \in 0 .. MaxHead
    /\ headerErrors \in 0 .. MaxErrors
    /\ logErrors \in 0 .. MaxErrors
    /\ head \in FirstHead .. MaxHead
    /\ start \in 0 .. Word - 1
    /\ handed \subseteq 0 .. Word - 1
    /\ streak \in Nat

\* A cycle hands every block after its start to processLog, up to lastBlock:
\* chunks, failed requests, retries and old heights open no gap, and no block
\* is recorded as read that was not (runIndexerCycle lines 475-517).
NoGapInCycle ==
    mode \in {"poll", "logs", "sub"} => handed = (start + 1) .. last

\* lastBlock is never ahead of the chain, whatever heights and failures the
\* cycle sees: if it were, its polls would find nothing new until the chain
\* caught up (line 478), without an error that ends it.  It holds where no
\* endpoint reports a height below Back (Back <= MinReport): with such a height
\* line 476 underflows.
NeverAhead == last <= head

\* An endpoint whose polls all fail is benched before they are MaxErrors^2
\* in a row, although the two error counters reset each other's runs.
BadEndpointIsBenched ==
    mode \in {"poll", "logs"} => streak < MaxErrors * MaxErrors

\* The requests to e fail finitely often.
Reliable(e) ==
    <>[][~(/\ url = e
           /\ DialFails \/ HeaderFails \/ LogsFail \/ SubscriptionFails)]_vars

\* What the rotation (lines 373-391) achieves: the indexer reaches the head of
\* the chain if one endpoint works in the end, whatever requests the others fail
\* and however short they are benched.  There are two ways to miss it.  The
\* rotation answers errors only: an endpoint that does not answer at all holds
\* the indexer for ever, for the requests have no timeout (lines 419, 433, 464
\* and 502).  And it may stay with endpoints that report old heights (line 478
\* counts no error there).
CatchesUpUnlessStuck ==
    (\E e \in Endpoints \ Lagging : Reliable(e)) =>
        (head = MaxHead ~>
            \/ last = MaxHead
            \/ mode \in {"stopped", "hung"}
            \/ [](url \in Lagging))
-----------------------------------------------------------------------------
(* Inductive invariants, for the proofs in IngestionProofs *)

\* The counters stay below the limit while a cycle runs; a log request is
\* only made for blocks the endpoint has reported.
CycleInv ==
    /\ mode \in {"poll", "logs"} =>
          headerErrors < MaxErrors /\ logErrors < MaxErrors
    /\ mode = "logs" => last < cur
    /\ cur <= head

ReadInv ==
    /\ NoGapInCycle
    /\ mode \in {"poll", "logs", "sub"} => start <= last

\* A failed log request comes after at most MaxErrors - 1 failed headers.
StreakInv ==
    /\ mode = "poll" => streak <= logErrors * MaxErrors + headerErrors
    /\ mode = "logs" => streak <= logErrors * MaxErrors + (MaxErrors - 1)
=============================================================================
