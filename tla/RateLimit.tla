------------------------------ MODULE RateLimit ------------------------------
(***************************************************************************)
(* The rate limiter in front of the routes under /v1: a counter per        *)
(* address in Redis, shared by every goroutine of every API server.        *)
(*                                                                         *)
(* A request increments the counter of its address; the one that finds 1   *)
(* then sets the expiry, in a second call.  An error of the first call     *)
(* lets the request pass, whether Redis counted it or not; an error of the *)
(* second is ignored.  Both fail when the client has gone too, for they    *)
(* use the context of the request.                                         *)
(*                                                                         *)
(* Redis runs with allkeys-lru: it may evict a counter, in the model at    *)
(* most MaxEvictions times in a minute.  Time passes in ticks; counts      *)
(* above Limit + 1 are all alike and kept as Limit + 1.                    *)
(***************************************************************************)
EXTENDS Naturals

CONSTANTS
    Addresses,
    Trusted,        \* addresses in TRUSTED_PROXIES
    Workers,        \* goroutines of the API servers that handle a request
    Limit,          \* requests a counter lets pass (60)
    Minute,         \* ticks in a minute
    MaxEvictions,   \* bound: evictions of one counter in a minute
    None            \* no header, no expiry, no request

ASSUME LimitAssumption ==
    /\ Trusted \subseteq Addresses
    /\ Limit \in Nat \ {0} /\ Minute \in Nat \ {0}
    /\ MaxEvictions \in Nat
    /\ None \notin Addresses /\ None \notin Nat

VARIABLES
    count,          \* address -> Redis rl:<address>; 0: no such key
    ttl,            \* address -> ticks until the key expires
    expiring,       \* worker -> address whose expiry it is about to set
    lost,           \* history: addresses whose counter gets no Expire: it
                    \* failed, or the Incr that should ask for it did
    passed,         \* history: address -> requests its counters let pass in
                    \* this tick, one tick ago, ..., Minute - 1 ticks ago
    evicted         \* history: address -> evictions of its counter, likewise

vars == <<count, ttl, expiring, lost, passed, evicted>>

Never == [n \in 0 .. Minute - 1 |-> 0]

\* The sums of the first n numbers of p, which has Minute numbers.
Sums(p) ==
    LET sum[n \in 0 .. Minute] == IF n = 0 THEN 0 ELSE sum[n - 1] + p[n - 1]
    IN sum

Init ==
    /\ count = [a \in Addresses |-> 0]
    /\ ttl = [a \in Addresses |-> None]
    /\ expiring = [w \in Workers |-> None]
    /\ lost = {}
    /\ passed = [a \in Addresses |-> Never]
    /\ evicted = [a \in Addresses |-> Never]

-----------------------------------------------------------------------------
(* The middleware.  A name ending in Faulty is a mistake the code does not   *)
(* make, checked to break a property below.                                  *)

\* extractClientIP: the headers X-Forwarded-For and X-Real-IP count only when
\* the peer is a trusted proxy; the first of them that is there decides.
ClientIP(peer, forwarded, real) ==
    IF peer \notin Trusted THEN peer
    ELSE IF forwarded # None THEN forwarded
    ELSE IF real # None THEN real
    ELSE peer

Header == Addresses \cup {None}

AdmitsFaulty(n) == n <= Limit + 1

Admits(n) == n <= Limit

SetsExpiryFaulty(n) == TRUE
SetsExpiryLateFaulty(n) == n = Limit

\* if count == 1
SetsExpiry(n) == n = 1

Counted(n) == IF n > Limit THEN Limit + 1 ELSE n

\* A worker handles a request of address a up to the second call.
Incr(w, a) ==
    /\ expiring[w] = None
    /\ LET n == count[a] + 1
       IN /\ count' = [count EXCEPT ![a] = Counted(n)]
          /\ expiring' = [expiring EXCEPT ![w] = IF SetsExpiry(n) THEN a ELSE None]
          /\ lost' = IF n = 1 THEN lost \ {a} ELSE lost
          /\ passed' = [passed EXCEPT ![a][0] = IF Admits(n) THEN @ + 1 ELSE @]
    /\ UNCHANGED <<ttl, evicted>>

\* Redis counts the request, but the answer does not arrive: a timeout, or the
\* client has gone.  The request passes, and nobody sets the expiry.  (When
\* Redis did not count it either, nothing changes: a stuttering step.  When
\* the Redis client sends the call again, this step comes before an Incr.)
IncrFails(w, a) ==
    /\ expiring[w] = None
    /\ count' = [count EXCEPT ![a] = Counted(@ + 1)]
    /\ lost' = IF count[a] = 0 THEN lost \cup {a} ELSE lost
    /\ UNCHANGED <<ttl, expiring, passed, evicted>>

\* The expiry is set though the key has gone.
ExpireFaulty(w) ==
    /\ expiring[w] # None
    /\ ttl' = [ttl EXCEPT ![expiring[w]] = Minute]
    /\ expiring' = [expiring EXCEPT ![w] = None]
    /\ UNCHANGED <<count, lost, passed, evicted>>

\* Redis sets the expiry of a key that is there.
Expire(w) ==
    /\ expiring[w] # None
    /\ ttl' = [ttl EXCEPT ![expiring[w]] = IF count[expiring[w]] > 0 THEN Minute
                                           ELSE None]
    /\ expiring' = [expiring EXCEPT ![w] = None]
    /\ UNCHANGED <<count, lost, passed, evicted>>

\* The call fails, its context is cancelled, or the server dies before it.
ExpireFails(w) ==
    /\ expiring[w] # None
    /\ expiring' = [expiring EXCEPT ![w] = None]
    /\ lost' = lost \cup {expiring[w]}
    /\ UNCHANGED <<count, ttl, passed, evicted>>

-----------------------------------------------------------------------------
(* Redis *)

\* One tick later.
Later(p) == [n \in 0 .. Minute - 1 |-> IF n = 0 THEN 0 ELSE p[n - 1]]

\* Time passes; a key whose time is over is gone.
Tick ==
    LET Over(a) == ttl[a] = 1
    IN /\ count' = [a \in Addresses |-> IF Over(a) THEN 0 ELSE count[a]]
       /\ ttl' = [a \in Addresses |->
                    IF ttl[a] = None \/ Over(a) THEN None ELSE ttl[a] - 1]
       /\ passed' = [a \in Addresses |-> Later(passed[a])]
       /\ evicted' = [a \in Addresses |-> Later(evicted[a])]
       /\ UNCHANGED <<expiring, lost>>

Evict(a) ==
    /\ count[a] > 0
    /\ Sums(evicted[a])[Minute] < MaxEvictions
    /\ count' = [count EXCEPT ![a] = 0]
    /\ ttl' = [ttl EXCEPT ![a] = None]
    /\ evicted' = [evicted EXCEPT ![a][0] = @ + 1]
    /\ UNCHANGED <<expiring, lost, passed>>

Next ==
    \/ \E w \in Workers :
          \/ \E peer \in Addresses, forwarded, real \in Header :
                LET a == ClientIP(peer, forwarded, real)
                IN Incr(w, a) \/ IncrFails(w, a)
          \/ Expire(w) \/ ExpireFails(w)
    \/ Tick
    \/ \E a \in Addresses : Evict(a)

Spec == Init /\ [][Next]_vars

(* Fairness.  Time passes, and a handler runs on once its first call has     *)
(* returned; whether the second call succeeds is open.                       *)
FairSpec ==
    /\ Spec
    /\ WF_vars(Tick)
    /\ \A w \in Workers : WF_vars(Expire(w) \/ ExpireFails(w))

-----------------------------------------------------------------------------
(* Properties *)

\* Types, and: only a counter that is there expires.
TypeOK ==
    /\ count \in [Addresses -> 0 .. Limit + 1]
    /\ ttl \in [Addresses -> (1 .. Minute) \cup {None}]
    /\ \A a \in Addresses : count[a] = 0 => ttl[a] = None
    /\ expiring \in [Workers -> Addresses \cup {None}]
    /\ lost \subseteq Addresses
    /\ passed \in [Addresses -> [0 .. Minute - 1 -> Nat]]
    /\ evicted \in [Addresses -> [0 .. Minute - 1 -> Nat]]

\* In no minute, wherever it begins, do the counters of an address let more
\* than twice the limit pass, and as much again as the limit for each time
\* Redis evicted its counter in that minute, whatever requests meet and however
\* late an expiry is set (lines 29-36 and 46): the windows are fixed, so a
\* minute may meet the end of one and the beginning of the next, and a third
\* only after an eviction.  Requests that pass because Redis gives no answer
\* are not counted here: of those there may be any number (lines 30-33).
AtMostTwiceTheLimit ==
    \A a \in Addresses :
        Sums(passed[a])[Minute] <= (2 + Sums(evicted[a])[Minute]) * Limit

\* A counter has an expiry, or somebody is about to set it, or the call that
\* should set it failed, or the Incr that made the counter did after Redis had
\* counted: no order of two requests, an expiry and an eviction leaves it
\* without (lines 29-36).
NoExpiryIsExplained ==
    \A a \in Addresses :
        count[a] > 0 /\ ttl[a] = None =>
            a \in lost \/ \E w \in Workers : expiring[w] = a

\* An address that is refused is let in again, however often it asks in the
\* meantime, unless its counter was to get its expiry by a call that failed,
\* or was made by an Incr whose answer was lost: then it stays out until Redis
\* evicts the counter (lines 29-36 and 46-51).
RefusedIsLetInAgain ==
    \A a \in Addresses :
        count[a] > Limit ~> count[a] = 0 \/ (ttl[a] = None /\ a \in lost)

-----------------------------------------------------------------------------
(* Inductive invariant, for the proof in RateLimitProofs *)

\* Why AtMostTwiceTheLimit holds: in the last d ticks only the counter of now,
\* and those evicted since, let requests pass; before them also the counter
\* before.  By the time the counter of now expires, d is a whole minute.
TwoWindows ==
    \A a \in Addresses : \E d \in 1 .. Minute :
        /\ ttl[a] # None => d + ttl[a] >= Minute
        /\ \A n \in 1 .. Minute :
              LET before == Sums(evicted[a])[n] + (IF n > d THEN 1 ELSE 0)
              IN Sums(passed[a])[n] <= (IF count[a] > Limit THEN Limit ELSE count[a])
                                         + Limit * before
=============================================================================
