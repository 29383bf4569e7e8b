-------------------------- MODULE NormalizerProofs --------------------------
(***************************************************************************)
(* Theorems about the storage normalizer, for any number of messages, of   *)
(* trades in a message, of attempts and of restarts.                       *)
(***************************************************************************)
EXTENDS Normalizer, TLAPS

USE DEF wsVars, bfVars, flushVars, sinkVars, runVars, history

(***************************************************************************)
(* What the mutex gives the flusher: during a flush nobody appends, so the *)
(* batch is the whole buffer, and only an attempt that was not the last is *)
(* followed by a wait.                                                     *)
(***************************************************************************)
FlushInv ==
    /\ ~MuFree => batch = buffer /\ attempt >= 1
    /\ MuFree => batch = <<>>
    /\ flusher = "wait" => attempt < MaxAttempts

\* The elements of a sequence after an append.
LEMMA AppendedSet ==
    ASSUME NEW S, NEW s \in Seq(S), NEW e \in S
    PROVE  ToSet(Append(s, e)) = ToSet(s) \cup {e}
<1> DEFINE t == Append(s, e)
<1>1. /\ Len(t) = Len(s) + 1 /\ Len(s) \in Nat
      /\ \A i \in 1 .. Len(s) : t[i] = s[i]
      /\ t[Len(s) + 1] = e
      /\ DOMAIN t = 1 .. Len(t) /\ DOMAIN s = 1 .. Len(s)
  OBVIOUS
<1> HIDE DEF t
<1>2. ToSet(t) \subseteq ToSet(s) \cup {e}
  <2> SUFFICES ASSUME NEW i \in DOMAIN t PROVE t[i] \in ToSet(s) \cup {e}
    BY DEF ToSet
  <2> QED
    BY <1>1 DEF ToSet
<1>3. ToSet(s) \subseteq ToSet(t)
  BY <1>1 DEF ToSet
<1>4. e \in ToSet(t)
  BY <1>1 DEF ToSet
<1> QED
  BY <1>2, <1>3, <1>4 DEF t

\* The elements of a sequence over S are in S; the empty one has none.
LEMMA SetOfSeq ==
    ASSUME NEW S, NEW s \in Seq(S)
    PROVE  ToSet(s) \subseteq S
BY DEF ToSet

LEMMA SetOfEmpty == ToSet(<<>>) = {}
BY DEF ToSet

TypeInv == TypeOK /\ FlushInv

(***************************************************************************)
(* Every step keeps types and FlushInv.                                    *)
(***************************************************************************)
LEMMA TypeStep == TypeInv /\ [Next]_vars => TypeInv'
<1> SUFFICES ASSUME TypeInv, [Next]_vars PROVE TypeInv'
  OBVIOUS
<1> USE BoundsAssumption DEF TypeInv, TypeOK, FlushInv, MuFree
<1>1. CASE FetchRaw
  <2>1. PICK k \in 0 .. PerMessage :
          /\ left' = [i \in 1 .. k |->
                        [kind |-> "trade", msg |-> raw + 1, n |-> i]]
          /\ ws' = IF k = 0 THEN "fetch" ELSE "publish"
    BY <1>1 DEF FetchRaw
  <2>2. \A i \in 1 .. k : [kind |-> "trade", msg |-> raw + 1, n |-> i] \in Trades
    BY <1>1 DEF FetchRaw, Trades
  <2>3. left' \in Seq(Trades) /\ Len(left') = k
    BY <2>1, <2>2
  <2>4. QED
    BY <1>1, <2>1, <2>3 DEF FetchRaw
<1>2. CASE PublishTrade
  <2>1. Head(left) \in Trades
    BY <1>2 DEF PublishTrade
  <2>2. QED
    BY <1>2, <2>1 DEF PublishTrade
<1>3. CASE InsertTrade
  <2>1. Head(left) \in Trades
    BY <1>3 DEF InsertTrade
  <2>2. QED
    BY <1>3, <2>1 DEF InsertTrade
<1>4. CASE AppendTrade
  <2>1. /\ Head(left) \in Trades /\ Tail(left) \in Seq(Trades)
        /\ Len(Tail(left)) = Len(left) - 1
    BY <1>4 DEF AppendTrade
  <2>2. Head(left) \in Events
    BY <2>1 DEF Events
  <2>3. buffer' \in Seq(Events) /\ accepted' \subseteq Events
    BY <1>4, <2>2 DEF AppendTrade, Accept
  <2>4. QED
    BY <1>4, <2>1, <2>3 DEF AppendTrade
<1>5. CASE FetchBackfill
  <2>1. item' \in Backfills \cup Junk
    BY <1>5 DEF FetchBackfill, Backfills, Junk
  <2>2. item' # NoItem
    BY <2>1 DEF Backfills, Junk, NoItem
  <2>3. QED
    BY <1>5, <2>1, <2>2 DEF FetchBackfill
<1>6. CASE AppendBackfill
  <2>1. item \in Events
    BY <1>6 DEF AppendBackfill, Events
  <2>2. buffer' \in Seq(Events) /\ accepted' \subseteq Events
    BY <1>6, <2>1 DEF AppendBackfill, Accept
  <2>3. QED
    BY <1>6, <2>2 DEF AppendBackfill
<1>7. CASE Tick
  BY <1>7 DEF Tick
<1>8. StoreBatch => rows' \in [Events -> Nat]
  BY DEF StoreBatch
<1>9. CASE AttemptSucceeds
  BY <1>8, <1>9 DEF AttemptSucceeds, Forget
<1>10. CASE AttemptFails
  <2>1. ToSet(batch) \subseteq Events
    BY SetOfSeq
  <2>2. rows' \in [Events -> Nat] /\ doubtful' \subseteq Events
    BY <1>8, <1>10, <2>1 DEF AttemptFails
  <2>3. CASE GiveUp
    BY <1>10, <2>1, <2>2, <2>3 DEF AttemptFails, Abandon, Forget
  <2>4. CASE ~GiveUp
    BY <1>10, <2>2, <2>4 DEF AttemptFails, GiveUp
  <2>5. QED
    BY <2>3, <2>4
<1>11. CASE NextAttempt
  BY <1>11 DEF NextAttempt
<1>12. CASE WaitCancelled
  <2>1. ToSet(batch) \subseteq Events
    BY SetOfSeq
  <2>2. QED
    BY <1>12, <2>1 DEF WaitCancelled, Abandon, Forget
<1>13. CASE FlusherStops
  BY <1>13 DEF FlusherStops
<1>14. CASE Cancel
  BY <1>14 DEF Cancel
<1>15. CASE Restart
  <2>1. ToSet(buffer) \subseteq Events
    BY SetOfSeq
  <2>2. /\ left' \in Seq(Trades) /\ Len(left') = 0
        /\ buffer' \in Seq(Events) /\ batch' \in Seq(Events)
    BY <1>15 DEF Restart
  <2>3. /\ lost' \subseteq Events
        /\ starts' \in 1 .. MaxStarts
    BY <1>15, <2>1 DEF Restart, Buffered
  <2>4. FlushInv'
    BY <1>15 DEF Restart
  <2>5. /\ bf' = "append" <=> item' # NoItem
        /\ bf' \in {"fetch", "append"}
        /\ item' \in Backfills \cup Junk \cup {NoItem}
        /\ ws' = "fetch" /\ flusher' = "tick" /\ attempt' = 0
        /\ cancelled' \in BOOLEAN
    BY <1>15 DEF Restart
  <2>6. QED
    BY <1>15, <2>2, <2>3, <2>4, <2>5 DEF Restart
<1>16. CASE UNCHANGED vars
  BY <1>16 DEF vars
<1>17. QED
  BY <1>1, <1>2, <1>3, <1>4, <1>5, <1>6, <1>7, <1>9, <1>10, <1>11, <1>12,
     <1>13, <1>14, <1>15, <1>16 DEF Next, WsNext, BfNext, FlushNext

LEMMA TypeInit == Init => TypeInv
<1> SUFFICES ASSUME Init PROVE TypeInv
  OBVIOUS
<1>1. /\ left \in Seq(Trades) /\ Len(left) = 0
      /\ buffer \in Seq(Events) /\ batch \in Seq(Events)
  BY DEF Init
<1>2. rows \in [Events -> Nat]
  BY DEF Init
<1>3. /\ bf = "append" <=> item # NoItem
      /\ bf \in {"fetch", "append"}
      /\ item \in Backfills \cup Junk \cup {NoItem}
  BY DEF Init
<1>4. FlushInv
  BY DEF Init, FlushInv, MuFree
<1>5. /\ raw \in 0 .. MaxRaw /\ backfilled \in 0 .. MaxBackfill
      /\ attempt \in 0 .. MaxAttempts /\ starts \in 1 .. MaxStarts
      /\ Len(left) <= PerMessage
  <2>1. raw = 0 /\ backfilled = 0 /\ attempt = 0 /\ starts = 1
    BY DEF Init
  <2>2. QED
    BY <1>1, <2>1, BoundsAssumption
<1>6. /\ live \subseteq Trades /\ trades \subseteq Trades
      /\ accepted \subseteq Events /\ lost \subseteq Events
      /\ doubtful \subseteq Events
  BY DEF Init
<1>7. ws = "fetch" /\ flusher = "tick" /\ cancelled \in BOOLEAN
  BY DEF Init
<1>8. QED
  BY <1>1, <1>2, <1>3, <1>4, <1>5, <1>6, <1>7 DEF TypeInv, TypeOK

(***************************************************************************)
(* Type correctness; the counter of retry.Do never exceeds the attempts it *)
(* is given.                                                               *)
(***************************************************************************)
THEOREM TypeCorrect == Spec => []TypeOK
<1>1. TypeInv => TypeOK
  BY DEF TypeInv
<1>2. QED
  BY <1>1, TypeInit, TypeStep, PTL DEF Spec

(***************************************************************************)
(* No event disappears between the consumers and the flusher: an event     *)
(* that entered the buffer is there still, is stored, or was given up.  It *)
(* rests on FlushInv: what a flush forgets is what it stored or gave up.   *)
(***************************************************************************)
THEOREM NothingVanishes == Spec => []NoneVanishes
<1>1. Init => NoneVanishes
  BY DEF Init, NoneVanishes
<1>2. TypeInv /\ NoneVanishes /\ [Next]_vars => NoneVanishes'
  <2> SUFFICES ASSUME TypeInv, NoneVanishes, [Next]_vars PROVE NoneVanishes'
    OBVIOUS
  <2> USE DEF NoneVanishes, Buffered, TypeInv
  <2>1. CASE UNCHANGED <<buffer, rows, accepted, lost>>
    BY <2>1
  <2>2. ASSUME NEW e \in Events, Accept(e), UNCHANGED <<rows, lost>>
        PROVE  NoneVanishes'
    <3>1. ToSet(buffer') = ToSet(buffer) \cup {e}
      BY <2>2, AppendedSet DEF Accept, TypeOK
    <3>2. QED
      BY <2>2, <3>1 DEF Accept
  <2>3. CASE AppendTrade
    <3>1. Head(left) \in Events
      BY <2>3 DEF AppendTrade, TypeOK, Events
    <3>2. QED
      BY <2>2, <2>3, <3>1 DEF AppendTrade
  <2>4. CASE AppendBackfill
    <3>1. item \in Events
      BY <2>4 DEF AppendBackfill, TypeOK, Events
    <3>2. QED
      BY <2>2, <2>4, <3>1 DEF AppendBackfill
  <2>5. CASE AttemptSucceeds
    <3>1. batch = buffer /\ accepted' = accepted /\ lost' = lost
      BY <2>5 DEF AttemptSucceeds, FlushInv, MuFree
    <3>2. \A e \in Events :
             e \in ToSet(buffer) \/ rows[e] > 0 => rows'[e] > 0
      BY <2>5, <3>1 DEF AttemptSucceeds, StoreBatch, TypeOK
    <3>3. QED
      BY <3>1, <3>2 DEF TypeOK
  <2>6. CASE AttemptFails
    <3>1. batch = buffer /\ accepted' = accepted
      BY <2>6 DEF AttemptFails, FlushInv, MuFree
    <3>2. \A e \in Events : rows[e] > 0 => rows'[e] > 0
      <4>1. StoreBatch => \A e \in Events : rows[e] > 0 => rows'[e] > 0
        BY DEF StoreBatch, TypeOK
      <4>2. rows' = rows \/ StoreBatch
        BY <2>6 DEF AttemptFails
      <4>3. QED
        BY <4>1, <4>2
    <3>3. \/ lost' = lost \cup ToSet(buffer)
          \/ lost' = lost /\ buffer' = buffer
      BY <2>6, <3>1 DEF AttemptFails, Abandon
    <3>4. QED
      BY <3>1, <3>2, <3>3 DEF TypeOK
  <2>7. CASE WaitCancelled
    <3>1. lost' = lost \cup ToSet(buffer) /\ UNCHANGED <<accepted, rows>>
      BY <2>7 DEF WaitCancelled, Abandon, FlushInv, MuFree
    <3>2. QED
      BY <3>1
  <2>8. CASE Restart
    <3>1. lost' = lost \cup ToSet(buffer) /\ UNCHANGED <<accepted, rows>>
      BY <2>8 DEF Restart
    <3>2. QED
      BY <3>1
  <2>9. CASE \/ FetchRaw \/ PublishTrade \/ InsertTrade \/ FetchBackfill
             \/ Tick \/ NextAttempt \/ FlusherStops \/ Cancel
             \/ UNCHANGED vars
    <3>1. UNCHANGED <<buffer, rows, accepted, lost>>
      BY <2>9 DEF FetchRaw, PublishTrade, InsertTrade, FetchBackfill, Tick,
                  NextAttempt, FlusherStops, Cancel, vars
    <3>2. QED
      BY <2>1, <3>1
  <2>10. QED
    BY <2>3, <2>4, <2>5, <2>6, <2>7, <2>8, <2>9
       DEF Next, WsNext, BfNext, FlushNext
<1>3. QED
  BY <1>1, <1>2, TypeInit, TypeStep, PTL DEF Spec

(***************************************************************************)
(* Where events come from: what a consumer holds is of the last message    *)
(* it fetched and was never in the buffer.                                 *)
(***************************************************************************)
SourceInv ==
    /\ \A i \in 1 .. Len(left) : left[i].msg = raw /\ left[i] \notin accepted
    /\ \A i, j \in 1 .. Len(left) : left[i] = left[j] => i = j
    /\ item # NoItem => item.msg = backfilled /\ item \notin accepted
    /\ \A e \in accepted : e.msg <= IF e \in Trades THEN raw ELSE backfilled

LEMMA EventKinds ==
    /\ \A e \in Events : e.kind = "trade" => e \in Trades
    /\ \A e \in Events : e.msg \in Nat
BY BoundsAssumption DEF Events, Trades, Backfills, Junk

LEMMA SourceInit == Init => SourceInv
BY DEF Init, SourceInv

LEMMA SourceStep == TypeInv /\ SourceInv /\ [Next]_vars => SourceInv'
<1> SUFFICES ASSUME TypeInv, SourceInv, [Next]_vars PROVE SourceInv'
  OBVIOUS
<1> USE BoundsAssumption DEF TypeInv, SourceInv
<1>1. CASE UNCHANGED <<raw, left, backfilled, item, accepted>>
  BY <1>1
<1>2. CASE FetchRaw
  <2>1. PICK k \in 0 .. PerMessage :
          left' = [i \in 1 .. k |->
                     [kind |-> "trade", msg |-> raw + 1, n |-> i]]
    BY <1>2 DEF FetchRaw
  <2>2. raw \in Nat /\ accepted \subseteq Events
    BY DEF TypeOK
  <2>3. Len(left') = k /\ raw' = raw + 1
        /\ UNCHANGED <<backfilled, item, accepted>>
    BY <1>2, <2>1 DEF FetchRaw
  <2>4. /\ \A i \in 1 .. k : left'[i].msg = raw + 1
        /\ \A i \in 1 .. k : left'[i].n = i
        /\ \A i \in 1 .. k : left'[i].kind = "trade"
    BY <2>1
  <2>5. \A i \in 1 .. k : left'[i] \notin accepted
    <3> SUFFICES ASSUME NEW i \in 1 .. k, left'[i] \in accepted PROVE FALSE
      OBVIOUS
    <3>1. left'[i].kind = "trade" /\ left'[i].msg = raw + 1
      BY <2>4
    <3>2. left'[i] \in Trades
      BY <2>2, <3>1, EventKinds
    <3>3. left'[i].msg <= raw
      BY <3>2
    <3>4. QED
      BY <2>2, <3>1, <3>3
  <2>6. \A e \in accepted : e \in Trades => e.msg <= raw + 1
    BY <2>2 DEF Trades
  <2>7. QED
    BY <2>3, <2>4, <2>5, <2>6
<1>3. CASE AppendTrade
  <2>1. /\ Len(left) \in Nat /\ Len(left) > 0 /\ left \in Seq(Trades)
        /\ raw \in Nat
    BY <1>3 DEF AppendTrade, TypeOK
  <2>2. /\ accepted' = accepted \cup {left[1]} /\ left' = Tail(left)
        /\ UNCHANGED <<raw, backfilled, item>>
    BY <1>3, <2>1 DEF AppendTrade, Accept
  <2>3. /\ Len(left') = Len(left) - 1
        /\ \A i \in 1 .. Len(left') : left'[i] = left[i + 1]
        /\ \A i \in 1 .. Len(left') : i + 1 \in 1 .. Len(left)
    BY <2>1, <2>2
  <2>4. left[1] \in Trades
    BY <2>1
  <2>5. item # NoItem => item \notin Trades
    BY DEF TypeOK, Trades, Backfills, Junk
  <2>6. \A i \in 1 .. Len(left') : left'[i].msg = raw /\ left'[i] \notin accepted'
    BY <2>1, <2>2, <2>3
  <2>7. \A i, j \in 1 .. Len(left') : left'[i] = left'[j] => i = j
    BY <2>1, <2>3
  <2>8. QED
    BY <2>1, <2>2, <2>4, <2>5, <2>6, <2>7
<1>4. CASE FetchBackfill
  <2>1. /\ item' \notin Trades /\ item'.msg = backfilled + 1
        /\ backfilled' = backfilled + 1 /\ UNCHANGED <<raw, left, accepted>>
    BY <1>4 DEF FetchBackfill, Trades
  <2>2. backfilled \in Nat /\ accepted \subseteq Events
    BY DEF TypeOK
  <2>3. \A e \in accepted : e.msg \in Nat
    BY <2>2 DEF Events, Trades, Backfills, Junk
  <2>4. QED
    BY <2>1, <2>2, <2>3
<1>5. CASE AppendBackfill
  <2>1. item # NoItem /\ item \notin Trades /\ backfilled \in Nat
    BY <1>5 DEF AppendBackfill, TypeOK, Trades, Backfills, Junk
  <2>2. /\ accepted' = accepted \cup {item} /\ item' = NoItem
        /\ UNCHANGED <<raw, left, backfilled>>
    BY <1>5 DEF AppendBackfill, Accept
  <2>3. \A i \in 1 .. Len(left) : left[i] \in Trades
    BY DEF TypeOK
  <2>4. QED
    BY <2>1, <2>2, <2>3
<1>6. CASE Restart
  <2>1. /\ Len(left') = 0 /\ item' = NoItem
        /\ UNCHANGED <<raw, backfilled, accepted>>
    BY <1>6 DEF Restart
  <2>2. QED
    BY <2>1
<1>7. CASE \/ PublishTrade \/ InsertTrade \/ Tick \/ AttemptSucceeds
           \/ AttemptFails \/ NextAttempt \/ WaitCancelled \/ FlusherStops
           \/ Cancel \/ UNCHANGED vars
  <2>1. UNCHANGED <<raw, left, backfilled, item, accepted>>
    BY <1>7 DEF PublishTrade, InsertTrade, Tick, AttemptSucceeds, AttemptFails,
                NextAttempt, WaitCancelled, FlusherStops, Cancel, vars
  <2>2. QED
    BY <1>1, <2>1
<1>8. QED
  BY <1>2, <1>3, <1>4, <1>5, <1>6, <1>7 DEF Next, WsNext, BfNext, FlushNext

(***************************************************************************)
(* A message is handled once in all the lives of the process: no event     *)
(* enters the buffer a second time.                                        *)
(***************************************************************************)
THEOREM HandledOnce == Spec => AcceptedOnce
<1> DEFINE A == \A e \in accepted : e \in Buffered' => e \in Buffered
<1>1. TypeInv /\ SourceInv /\ [Next]_vars => [A]_vars
  <2> SUFFICES ASSUME TypeInv, SourceInv, Next PROVE A
    OBVIOUS
  <2> USE DEF Buffered
  <2>1. ASSUME NEW e \in Events, Accept(e), e \notin accepted PROVE A
    <3>1. ToSet(buffer') = ToSet(buffer) \cup {e}
      BY <2>1, AppendedSet DEF Accept, TypeInv, TypeOK
    <3>2. QED
      BY <2>1, <3>1
  <2>2. CASE AppendTrade
    <3>1. left \in Seq(Trades) /\ Len(left) > 0
      BY <2>2 DEF AppendTrade, TypeInv, TypeOK
    <3>2. left[1] \in Events /\ left[1] \notin accepted
      BY <3>1 DEF SourceInv, Events
    <3>3. QED
      BY <2>1, <2>2, <3>1, <3>2 DEF AppendTrade
  <2>3. CASE AppendBackfill
    <3>1. item \in Events /\ item \notin accepted
      BY <2>3 DEF AppendBackfill, TypeInv, TypeOK, SourceInv, Events
    <3>2. QED
      BY <2>1, <2>3, <3>1 DEF AppendBackfill
  <2>4. CASE buffer' = buffer \/ buffer' = <<>>
    BY <2>4, SetOfEmpty
  <2>5. CASE \/ WsNext /\ ~AppendTrade
             \/ BfNext /\ ~AppendBackfill
             \/ FlushNext \/ Cancel \/ Restart
    <3>1. buffer' = buffer \/ buffer' = <<>>
      BY <2>5 DEF WsNext, BfNext, FlushNext, FetchRaw, PublishTrade,
                  InsertTrade, FetchBackfill, Tick, AttemptSucceeds,
                  AttemptFails, NextAttempt, WaitCancelled, FlusherStops,
                  Cancel, Restart, Abandon, Forget
    <3>2. QED
      BY <2>4, <3>1
  <2>6. QED
    BY <2>2, <2>3, <2>5 DEF Next
<1>2. QED
  BY <1>1, TypeInit, TypeStep, SourceInit, SourceStep, PTL DEF Spec, AcceptedOnce

(***************************************************************************)
(* What is stored was accepted, and an event still in the buffer is stored *)
(* at most once per attempt that was made, each time without an answer.    *)
(***************************************************************************)
Tried == IF flusher = "attempt" THEN attempt - 1
         ELSE IF flusher = "wait" THEN attempt ELSE 0

RowInv ==
    /\ Buffered \subseteq accepted
    /\ \A e \in Events : rows[e] > 0 => e \in accepted
    /\ \A e \in Buffered : rows[e] <= Tried
    /\ \A e \in Buffered : rows[e] > 0 => e \in doubtful
    /\ NoneTwice

LEMMA RowInit == Init => RowInv
<1> SUFFICES ASSUME Init PROVE RowInv
  OBVIOUS
<1>1. Buffered = {}
  BY SetOfEmpty DEF Init, Buffered
<1>2. \A e \in Events : rows[e] = 0
  BY DEF Init
<1>3. QED
  BY <1>1, <1>2, BoundsAssumption DEF RowInv, NoneTwice

LEMMA RowStep == TypeInv /\ SourceInv /\ RowInv /\ [Next]_vars => RowInv'
<1> SUFFICES ASSUME TypeInv, SourceInv, RowInv, [Next]_vars PROVE RowInv'
  OBVIOUS
<1> USE BoundsAssumption DEF RowInv, NoneTwice, Buffered
<1>1. /\ \A e \in Events : rows[e] \in Nat
      /\ attempt \in Nat /\ attempt <= MaxAttempts
      /\ accepted \subseteq Events
      /\ ~MuFree => batch = buffer
      /\ ToSet(buffer) \subseteq Events
  BY SetOfSeq DEF TypeInv, TypeOK, FlushInv
<1>2. CASE UNCHANGED <<buffer, accepted, rows, doubtful, flusher, attempt>>
  BY <1>2 DEF Tried
<1>3. ASSUME NEW e \in Events, Accept(e), e \notin accepted, MuFree,
             UNCHANGED <<rows, doubtful, flusher, attempt>>
      PROVE  RowInv'
  <2>1. ToSet(buffer') = ToSet(buffer) \cup {e}
    BY <1>3, AppendedSet DEF Accept, TypeInv, TypeOK
  <2>2. rows[e] = 0
    BY <1>1, <1>3
  <2>3. Tried' = 0 /\ Tried = 0
    BY <1>3 DEF Tried, MuFree
  <2>4. accepted' = accepted \cup {e}
    BY <1>3 DEF Accept
  <2>5. QED
    BY <1>1, <1>3, <2>1, <2>2, <2>3, <2>4
<1>4. CASE AppendTrade
  <2>1. left \in Seq(Trades) /\ Len(left) > 0
    BY <1>4 DEF AppendTrade, TypeInv, TypeOK
  <2>2. left[1] \in Events /\ left[1] \notin accepted
    BY <2>1 DEF SourceInv, Events
  <2>3. QED
    BY <1>3, <1>4, <2>1, <2>2 DEF AppendTrade
<1>5. CASE AppendBackfill
  <2>1. item \in Events /\ item \notin accepted
    BY <1>5 DEF AppendBackfill, TypeInv, TypeOK, SourceInv, Events
  <2>2. QED
    BY <1>3, <1>5, <2>1 DEF AppendBackfill
<1>6. CASE Tick
  <2>1. Tried = 0 /\ Tried' = 0
    BY <1>6 DEF Tick, Tried
  <2>2. UNCHANGED <<buffer, accepted, rows, doubtful>>
    BY <1>6 DEF Tick
  <2>3. QED
    BY <1>1, <2>1, <2>2
<1>7. ASSUME flusher = "attempt", StoreBatch
      PROVE  /\ \A e \in Events : rows'[e] =
                   IF e \in ToSet(buffer) THEN rows[e] + 1 ELSE rows[e]
             /\ \A e \in ToSet(buffer) : rows'[e] <= attempt
  <2>1. batch = buffer /\ Tried = attempt - 1
    BY <1>1, <1>7 DEF MuFree, Tried
  <2>2. \A e \in Events : rows'[e] =
                   IF e \in ToSet(buffer) THEN rows[e] + 1 ELSE rows[e]
    BY <1>7, <2>1 DEF StoreBatch
  <2>3. QED
    BY <1>1, <2>1, <2>2
<1>8. CASE AttemptSucceeds
  <2>1. ToSet(buffer') = {} /\ UNCHANGED <<accepted, doubtful>>
    BY <1>8, SetOfEmpty DEF AttemptSucceeds, Forget
  <2>2. flusher = "attempt" /\ StoreBatch
    BY <1>8 DEF AttemptSucceeds
  <2>3. QED
    BY <1>1, <1>7, <2>1, <2>2
<1>9. CASE AttemptFails
  <2>1. flusher = "attempt" /\ UNCHANGED <<accepted, attempt>>
    BY <1>9 DEF AttemptFails
  <2>2. \/ ToSet(buffer') = {}
        \/ ToSet(buffer') = ToSet(buffer) /\ Tried' = attempt
    BY <1>9, <2>1, SetOfEmpty DEF AttemptFails, Abandon, Forget, Tried
  <2>3. CASE UNCHANGED <<rows, doubtful>>
    <3>1. \A e \in ToSet(buffer) : rows[e] <= attempt
      BY <1>1, <2>1 DEF Tried
    <3>2. QED
      BY <1>1, <2>1, <2>2, <2>3, <3>1
  <2>4. CASE StoreBatch /\ doubtful' = doubtful \cup ToSet(batch)
    <3>1. doubtful' = doubtful \cup ToSet(buffer)
      BY <1>1, <2>1, <2>4 DEF MuFree
    <3>2. QED
      BY <1>1, <1>7, <2>1, <2>2, <2>4, <3>1
  <2>5. QED
    BY <1>9, <2>3, <2>4 DEF AttemptFails
<1>10. CASE NextAttempt
  <2>1. Tried' = Tried /\ UNCHANGED <<buffer, accepted, rows, doubtful>>
    BY <1>1, <1>10 DEF NextAttempt, Tried
  <2>2. QED
    BY <2>1
<1>11. CASE WaitCancelled \/ Restart
  <2>1. ToSet(buffer') = {} /\ UNCHANGED <<accepted, rows, doubtful>>
    BY <1>11, SetOfEmpty DEF WaitCancelled, Restart, Abandon, Forget
  <2>2. QED
    BY <2>1
<1>12. CASE FlusherStops
  <2>1. Tried = 0 /\ Tried' = 0 /\ UNCHANGED <<buffer, accepted, rows, doubtful>>
    BY <1>12 DEF FlusherStops, Tried
  <2>2. QED
    BY <2>1
<1>13. CASE \/ FetchRaw \/ PublishTrade \/ InsertTrade \/ FetchBackfill
            \/ Cancel \/ UNCHANGED vars
  <2>1. UNCHANGED <<buffer, accepted, rows, doubtful, flusher, attempt>>
    BY <1>13 DEF FetchRaw, PublishTrade, InsertTrade, FetchBackfill, Cancel, vars
  <2>2. QED
    BY <1>2, <2>1
<1>14. QED
  BY <1>4, <1>5, <1>6, <1>8, <1>9, <1>10, <1>11, <1>12, <1>13
     DEF Next, WsNext, BfNext, FlushNext

(***************************************************************************)
(* An event is stored twice only when an insert failed and took place, and *)
(* at most MaxAttempts times: nothing but the retries of one batch repeats *)
(* it.                                                                     *)
(***************************************************************************)
THEOREM RepeatsAreDoubtful == Spec => []NoneTwice
<1>1. RowInv => NoneTwice
  BY DEF RowInv
<1>2. QED
  BY <1>1, TypeInit, TypeStep, SourceInit, SourceStep, RowInit, RowStep, PTL
     DEF Spec
=============================================================================
