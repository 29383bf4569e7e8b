------------------------- MODULE StreamWorkerProofs --------------------------
(***************************************************************************)
(* Theorems about a stream worker, for any markets and number of           *)
(* connections and crashes.                                                *)
(***************************************************************************)
EXTENDS StreamWorker, TLAPS

USE DEF None, Adder, Worker, Conns, Writers, workerVars, adderVars, fields, netVars, writeVars

\* Names of writers are different, and the bounds are numbers.
LEMMA Bounds ==
    /\ MaxConns \in Nat \ {0} /\ MaxCrashes \in Nat
    /\ Adder \notin Conns /\ Worker \notin Conns /\ Adder # Worker
    /\ Adder \in Writers /\ Worker \in Writers /\ Conns \subseteq Writers
    /\ \A g \in Conns : g \in 0 .. MaxConns /\ g # None
BY BoundsAssumption

\* A write has begun.
LEMMA BeginIs ==
    ASSUME TypeOK, NEW w \in Writers, NEW toks \in SUBSET Tokens, BeginWrite(w, toks)
    PROVE  /\ on' \in [Writers -> 0 .. MaxConns]
           /\ payload' \in [Writers -> SUBSET Tokens]
           /\ on'[w] = client /\ payload'[w] = toks
           /\ \A x \in Writers \ {w} : on'[x] = on[x] /\ payload'[x] = payload[x]
           /\ client # None => spoilt' \subseteq Conns
           /\ spoilt \subseteq spoilt'
<1>1. /\ on \in [Writers -> 0 .. MaxConns] /\ payload \in [Writers -> SUBSET Tokens]
      /\ client \in 0 .. MaxConns /\ spoilt \subseteq Conns
  BY DEF TypeOK
<1>2. spoilt' \in {spoilt, spoilt \union {client}}
  BY DEF BeginWrite
<1>3. client # None => client \in Conns
  BY <1>1, Bounds
<1> HIDE DEF Writers, Conns
<1>4. QED
  BY <1>1, <1>2, <1>3 DEF BeginWrite

\* A write has ended: nothing is taken back, and on a good connection it
\* arrives.
LEMMA EndIs ==
    ASSUME TypeOK, NEW w \in Writers, on[w] # None, NEW ok \in BOOLEAN, EndWrite(w, ok)
    PROVE  /\ on' \in [Writers -> 0 .. MaxConns]
           /\ payload' \in [Writers -> SUBSET Tokens]
           /\ \A x \in Writers \ {w} : on'[x] = on[x] /\ payload'[x] = payload[x]
           /\ spoilt' = spoilt
           /\ subs' \in [Conns -> SUBSET Tokens]
           /\ \A g \in Conns : subs[g] \subseteq subs'[g]
           /\ link[on[w]] = "open" /\ on[w] \notin spoilt => payload[w] \subseteq subs'[on[w]]
<1>1. /\ on \in [Writers -> 0 .. MaxConns] /\ payload \in [Writers -> SUBSET Tokens]
      /\ subs \in [Conns -> SUBSET Tokens]
  BY DEF TypeOK
<1>2. on[w] \in Conns /\ payload[w] \in SUBSET Tokens
  BY <1>1, Bounds
<1>3. \/ subs' = [subs EXCEPT ![on[w]] = @ \union payload[w]]
      \/ subs' = subs /\ ~(link[on[w]] = "open" /\ on[w] \notin spoilt)
  BY DEF EndWrite
<1>4. /\ on' = [on EXCEPT ![w] = None] /\ payload' = [payload EXCEPT ![w] = {}]
      /\ spoilt' = spoilt
  BY DEF EndWrite
<1>5. None \in 0 .. MaxConns
  BY Bounds
<1> HIDE DEF Writers, Conns, None
<1>6. /\ on' \in [Writers -> 0 .. MaxConns]
      /\ payload' \in [Writers -> SUBSET Tokens]
      /\ \A x \in Writers \ {w} : on'[x] = on[x] /\ payload'[x] = payload[x]
  BY <1>1, <1>4, <1>5
<1>7. /\ subs' \in [Conns -> SUBSET Tokens]
      /\ \A g \in Conns : subs[g] \subseteq subs'[g]
      /\ link[on[w]] = "open" /\ on[w] \notin spoilt => payload[w] \subseteq subs'[on[w]]
  BY <1>1, <1>2, <1>3
<1>8. QED
  BY <1>4, <1>6, <1>7

\* The token at hand, and what becomes of the message.
LEMMA TodoIs ==
    ASSUME TypeOK, adder # "fetch"
    PROVE  /\ Head(todo) \in Tokens
           /\ Tail(todo) \in Seq(Tokens) /\ Len(Tail(todo)) <= 2
           /\ IF Len(todo) = 1 THEN Len(Tail(todo)) = 0 ELSE Len(Tail(todo)) > 0
<1>1. todo \in Seq(Tokens) /\ Len(todo) <= 2 /\ Len(todo) > 0
  BY DEF TypeOK
<1> HIDE DEF Tokens
<1>2. Len(todo) \in Nat /\ todo # <<>>
  BY <1>1
<1>3. Head(todo) \in Tokens /\ Tail(todo) \in Seq(Tokens) /\ Len(Tail(todo)) = Len(todo) - 1
  BY <1>1, <1>2
<1>4. QED
  BY <1>1, <1>2, <1>3

\* The part of the type that the message takes.
TodoOK ==
    /\ todo \in Seq(Tokens) /\ Len(todo) <= 2
    /\ adder # "fetch" <=> Len(todo) > 0

\* On to the rest of the message.
LEMMA NextIs ==
    ASSUME TypeOK, adder # "fetch", NextToken
    PROVE  TodoOK' /\ adder' \in {"fetch", "lock"}
<1>1. /\ todo' = Tail(todo) /\ adder' = IF Len(todo) = 1 THEN "fetch" ELSE "lock"
  BY DEF NextToken
<1>2. CASE Len(todo) = 1
  BY <1>1, <1>2, TodoIs DEF TodoOK
<1>3. CASE Len(todo) # 1
  BY <1>1, <1>3, TodoIs DEF TodoOK
<1>4. QED
  BY <1>2, <1>3

LEMMA StreamInit == Init => TypeOK /\ SubscribeInv
<1> SUFFICES ASSUME Init PROVE TypeOK /\ SubscribeInv
  OBVIOUS
<1>1. <<>> \in Seq(Tokens) /\ Len(<<>>) = 0
  OBVIOUS
<1>2. TypeOK
  <2>1. None \in 0 .. MaxConns /\ 0 \in 0 .. MaxConns /\ 0 \in 0 .. MaxCrashes
    BY Bounds
  <2>2. todo \in Seq(Tokens) /\ Len(todo) <= 2 /\ (adder # "fetch" <=> Len(todo) > 0)
    BY <1>1 DEF Init
  <2>3. /\ ping \in [Conns -> {"off", "on", "stopping"}]
        /\ link \in [Conns -> {"new", "open", "lost", "closed"}]
        /\ subs \in [Conns -> SUBSET Tokens]
    BY DEF Init
  <2>4. on \in [Writers -> 0 .. MaxConns] /\ payload \in [Writers -> SUBSET Tokens]
    <3> HIDE DEF Writers, None
    <3>1. QED
      BY <2>1 DEF Init
  <2>5. QED
    BY <2>1, <2>2, <2>3, <2>4 DEF Init, TypeOK
<1>3. SubscribeInv
  BY DEF Init, SubscribeInv
<1>4. QED
  BY <1>2, <1>3

LEMMA StreamStep == TypeOK /\ SubscribeInv /\ [Next]_vars => TypeOK' /\ SubscribeInv'
<1> SUFFICES ASSUME TypeOK, SubscribeInv, [Next]_vars PROVE TypeOK' /\ SubscribeInv'
  OBVIOUS
<1> USE Bounds
<1>1. CASE Wake
  BY <1>1 DEF Wake, TypeOK, SubscribeInv
<1>2. CASE Dial
  <2>1. TypeOK'
    <3>1. dialled + 1 \in Conns /\ dialled' \in 0 .. MaxConns
      BY <1>2 DEF Dial, TypeOK
    <3>2. link' \in [Conns -> {"new", "open", "lost", "closed"}]
      BY <1>2, <3>1 DEF Dial, TypeOK
    <3>3. QED
      BY <1>2, <3>1, <3>2 DEF Dial, TypeOK
  <2>2. SubscribeInv'
    BY <1>2 DEF Dial, TypeOK, SubscribeInv
  <2>3. QED
    BY <2>1, <2>2
<1>3. CASE AssignClient
  <2>1. TypeOK'
    BY <1>3 DEF AssignClient, TypeOK
  <2>2. SubscribeInv'
    BY <1>3 DEF AssignClient, TypeOK, SubscribeInv
  <2>3. QED
    BY <2>1, <2>2
<1>4. CASE ResetSubscribed
  BY <1>4 DEF ResetSubscribed, TypeOK, SubscribeInv
<1>5. CASE SubscribeAll
  <2>1. tokens \in SUBSET Tokens
    BY DEF TypeOK
  <2>2. QED
    BY <1>5, <2>1, BeginIs DEF SubscribeAll, TypeOK, SubscribeInv
<1>6. CASE Connected
  <2>1. on[Worker] = client /\ client \in Conns /\ payload[Worker] = tokens
    BY <1>6 DEF Connected, TypeOK, SubscribeInv
  <2>2. PICK ok \in BOOLEAN : EndWrite(Worker, ok) /\ subscribed' = (ok \/ subscribed)
    BY <1>6 DEF Connected
  <2>3. /\ on' \in [Writers -> 0 .. MaxConns]
        /\ payload' \in [Writers -> SUBSET Tokens]
        /\ on'[Adder] = on[Adder] /\ payload'[Adder] = payload[Adder]
        /\ spoilt' = spoilt /\ subs' \in [Conns -> SUBSET Tokens]
        /\ link[client] = "open" /\ client \notin spoilt => tokens \subseteq subs'[client]
    <3> HIDE DEF Worker, Adder
    <3>1. QED
      BY <2>1, <2>2, EndIs, Bounds
  <2>4. /\ worker = "writing" /\ worker' = "reading" /\ mu' = "free"
        /\ ping' = [ping EXCEPT ![client] = "on"]
        /\ subscribed' \in BOOLEAN
        /\ UNCHANGED <<extracted, topic, adderVars, tokens, client, dialled, link, crashes>>
    <3> HIDE DEF adderVars
    <3>1. QED
      BY <1>6, <2>2 DEF Connected, TypeOK
  <2>5. TypeOK'
    <3>1. adder \in {"fetch", "lock"}
      BY <2>4 DEF SubscribeInv
    <3>2. ping' \in [Conns -> {"off", "on", "stopping"}]
      BY <2>1, <2>4 DEF TypeOK
    <3>3. /\ adder' = adder /\ todo' = todo /\ spoilt' \subseteq Conns
          /\ mu' = IF worker' = "writing" THEN "worker"
                   ELSE IF adder' \in {"fetch", "lock"} THEN "free" ELSE "adder"
      BY <2>3, <2>4, <3>1 DEF TypeOK
    <3> HIDE DEF Conns, Writers
    <3>4. QED
      BY <2>3, <2>4, <3>2, <3>3 DEF TypeOK
  <2>6. SubscribeInv'
    BY <2>1, <2>3, <2>4 DEF TypeOK, SubscribeInv
  <2>7. QED
    BY <2>5, <2>6
<1>7. CASE ReadFails
  BY <1>7 DEF ReadFails, TypeOK, SubscribeInv
<1>8. ASSUME NEW g \in Conns, PingBegins(g) PROVE TypeOK' /\ SubscribeInv'
  <2>a. ping[g] # "off" /\ g \in Writers /\ {} \in SUBSET Tokens /\ BeginWrite(g, {})
    BY <1>8 DEF PingBegins
  <2>b. client # None
    BY <2>a DEF SubscribeInv
  <2>c. /\ on' \in [Writers -> 0 .. MaxConns] /\ payload' \in [Writers -> SUBSET Tokens]
        /\ \A x \in Writers \ {g} : on'[x] = on[x] /\ payload'[x] = payload[x]
        /\ spoilt' \subseteq Conns /\ spoilt \subseteq spoilt'
    BY <2>a, <2>b, BeginIs
  <2>d. /\ on'[Worker] = on[Worker] /\ payload'[Worker] = payload[Worker]
        /\ on'[Adder] = on[Adder] /\ payload'[Adder] = payload[Adder]
    <3> HIDE DEF Writers, Conns, Worker, Adder
    <3>1. QED
      BY <2>c
  <2>1. TypeOK'
    BY <1>8, <2>c DEF PingBegins, TypeOK
  <2>2. SubscribeInv'
    BY <1>8, <2>c, <2>d DEF PingBegins, SubscribeInv
  <2>3. QED
    BY <2>1, <2>2
<1>9. ASSUME NEW g \in Conns, PingEnds(g) PROVE TypeOK' /\ SubscribeInv'
  <2>1. PICK ok \in BOOLEAN : /\ EndWrite(g, ok)
                              /\ ping' = IF ok THEN ping ELSE [ping EXCEPT ![g] = "off"]
    BY <1>9 DEF PingEnds
  <2>a. g \in Writers /\ on[g] # None
    BY <1>9 DEF PingEnds
  <2>c. /\ on' \in [Writers -> 0 .. MaxConns] /\ payload' \in [Writers -> SUBSET Tokens]
        /\ \A x \in Writers \ {g} : on'[x] = on[x] /\ payload'[x] = payload[x]
        /\ spoilt' = spoilt
        /\ subs' \in [Conns -> SUBSET Tokens]
        /\ \A h \in Conns : subs[h] \subseteq subs'[h]
    BY <2>a, <2>1, EndIs
  <2>d. /\ on'[Worker] = on[Worker] /\ payload'[Worker] = payload[Worker]
        /\ on'[Adder] = on[Adder] /\ payload'[Adder] = payload[Adder]
    <3> HIDE DEF Writers, Conns, Worker, Adder
    <3>1. QED
      BY <2>c
  <2>e. /\ ping' \in [Conns -> {"off", "on", "stopping"}]
        /\ \A h \in Conns : ping[h] = "off" => ping'[h] = "off"
    BY <2>1 DEF TypeOK
  <2>2. TypeOK'
    BY <1>9, <2>c, <2>e DEF PingEnds, TypeOK
  <2>f. client # None => client \in Conns
    BY DEF TypeOK
  <2>g. worker = "reading" => subs[client] \subseteq subs'[client]
    BY <2>c, <2>f DEF SubscribeInv
  <2>h. UNCHANGED <<adder, todo, worker, mu, tokens, client, dialled, link>>
    BY <1>9 DEF PingEnds
  <2>3. SubscribeInv'
    <3> HIDE DEF Worker, Adder, Writers, Conns
    <3>1. QED
      BY <2>c, <2>d, <2>e, <2>g, <2>h, SMTT(30) DEF SubscribeInv
  <2>4. QED
    BY <2>2, <2>3
<1>10. ASSUME NEW g \in Conns, PingStops(g) PROVE TypeOK' /\ SubscribeInv'
  BY <1>10 DEF PingStops, TypeOK, SubscribeInv
<1>11. ASSUME NEW m \in Markets, Fetch(m) PROVE TypeOK' /\ SubscribeInv'
  <2>1. TypeOK'
    <3>1. <<m, "yes">> \in Tokens /\ <<m, "no">> \in Tokens
      BY DEF Tokens, Sides
    <3>2. todo' \in Seq(Tokens) /\ Len(todo') = 2
      BY <1>11, <3>1 DEF Fetch
    <3>3. /\ adder = "fetch" /\ adder' = "lock" /\ topic' \subseteq Markets
          /\ UNCHANGED <<extracted, worker, ping, mu, tokens, client, subscribed,
                        dialled, link, subs, on, payload, spoilt, crashes>>
      BY <1>11 DEF Fetch, TypeOK
    <3> HIDE DEF Conns, Writers, None
    <3>4. QED
      BY <3>2, <3>3 DEF TypeOK
  <2>2. SubscribeInv'
    BY <1>11 DEF Fetch, Tokens, Sides, TypeOK, SubscribeInv
  <2>3. QED
    BY <2>1, <2>2
<1>12. CASE SkipKnown
  <2>1. TypeOK'
    <3>1. adder # "fetch" /\ NextToken
      BY <1>12 DEF SkipKnown
    <3>2. TodoOK' /\ adder' \in {"fetch", "lock"}
      BY <3>1, NextIs
    <3>3. QED
      BY <1>12, <3>2 DEF SkipKnown, TypeOK, TodoOK
  <2>2. SubscribeInv'
    BY <1>12, TodoIs DEF SkipKnown, NextToken, TypeOK, SubscribeInv
  <2>3. QED
    BY <2>1, <2>2
<1>13. CASE AddNew
  BY <1>13, TodoIs DEF AddNew, TypeOK, SubscribeInv
<1>14. CASE NoClientYet
  <2>1. TypeOK'
    <3>1. adder # "fetch" /\ NextToken
      BY <1>14 DEF NoClientYet
    <3>2. TodoOK' /\ adder' \in {"fetch", "lock"}
      BY <3>1, NextIs
    <3>3. worker # "writing"
      BY <1>14 DEF NoClientYet, SubscribeInv
    <3>4. QED
      BY <1>14, <3>2, <3>3 DEF NoClientYet, Unlock, TypeOK, TodoOK
  <2>2. SubscribeInv'
    BY <1>14, TodoIs DEF NoClientYet, Unlock, NextToken, TypeOK, SubscribeInv
  <2>3. QED
    BY <2>1, <2>2
<1>15. CASE HasClient
  BY <1>15 DEF HasClient, Mode, TypeOK, SubscribeInv
<1>16. CASE AdderWrites
  <2> DEFINE toks == IF adder = "extend" THEN {Head(todo)} ELSE tokens
  <2>a. adder \in {"extend", "initial"} /\ adder # "fetch" /\ BeginWrite(Adder, toks)
    BY <1>16 DEF AdderWrites
  <2>b. toks \in SUBSET Tokens
    BY <2>a, TodoIs DEF TypeOK
  <2>c. client # None
    BY <2>a DEF SubscribeInv
  <2> HIDE DEF toks
  <2>d. /\ on' \in [Writers -> 0 .. MaxConns] /\ payload' \in [Writers -> SUBSET Tokens]
        /\ on'[Adder] = client /\ payload'[Adder] = toks
        /\ spoilt' \subseteq Conns /\ spoilt \subseteq spoilt'
    BY <2>a, <2>b, <2>c, BeginIs
  <2>1. TypeOK'
    BY <1>16, <2>a, <2>d DEF AdderWrites, TypeOK
  <2>e. worker # "writing"
    BY <2>a DEF SubscribeInv
  <2>f. payload'[Adder] = IF adder' = "extending" THEN {Head(todo')} ELSE tokens'
    BY <1>16, <2>a, <2>d DEF AdderWrites, toks
  <2>2. SubscribeInv'
    BY <1>16, <2>a, <2>c, <2>d, <2>e, <2>f DEF AdderWrites, SubscribeInv
  <2>3. QED
    BY <2>1, <2>2
<1>17. CASE AdderDone
  <2>a. adder \in {"extending", "subscribing"} /\ adder # "fetch" /\ NextToken
    BY <1>17 DEF AdderDone
  <2>b. PICK ok \in BOOLEAN :
          EndWrite(Adder, ok) /\ subscribed' = (subscribed \/ (ok /\ adder = "subscribing"))
    BY <1>17 DEF AdderDone
  <2>c. on[Adder] # None /\ worker # "writing"
    BY <2>a DEF SubscribeInv
  <2>d. /\ on' \in [Writers -> 0 .. MaxConns] /\ payload' \in [Writers -> SUBSET Tokens]
        /\ spoilt' = spoilt
        /\ subs' \in [Conns -> SUBSET Tokens]
        /\ \A h \in Conns : subs[h] \subseteq subs'[h]
        /\ link[on[Adder]] = "open" /\ on[Adder] \notin spoilt
             => payload[Adder] \subseteq subs'[on[Adder]]
    BY <2>b, <2>c, EndIs
  <2>e. TodoOK' /\ adder' \in {"fetch", "lock"}
    BY <2>a, NextIs
  <2>1. TypeOK'
    BY <1>17, <2>b, <2>c, <2>d, <2>e DEF AdderDone, Unlock, TypeOK, TodoOK
  <2>f. worker = "reading" /\ link[client] = "open" /\ client \notin spoilt
          => tokens \subseteq subs'[client]
    <3> SUFFICES ASSUME worker = "reading", link[client] = "open", client \notin spoilt
                 PROVE  tokens \subseteq subs'[client]
      OBVIOUS
    <3>1. on[Adder] = client /\ client \in Conns
      BY <2>a DEF SubscribeInv, TypeOK
    <3>2. payload[Adder] \subseteq subs'[client] /\ subs[client] \subseteq subs'[client]
      BY <2>d, <3>1
    <3>3. payload[Adder] = IF adder = "extending" THEN {Head(todo)} ELSE tokens
      BY <2>a DEF SubscribeInv
    <3>4. tokens \ {Head(todo)} \subseteq subs[client]
      BY DEF SubscribeInv
    <3>5. QED
      BY <3>2, <3>3, <3>4
  <2>2. SubscribeInv'
    BY <1>17, <2>b, <2>c, <2>d, <2>e, <2>f DEF AdderDone, Unlock, SubscribeInv
  <2>3. QED
    BY <2>1, <2>2
<1>18. ASSUME NEW m \in Markets, Publish(m) PROVE TypeOK' /\ SubscribeInv'
  BY <1>18 DEF Publish, TypeOK, SubscribeInv
<1>19. CASE LinkBreaks
  <2>1. TypeOK'
    BY <1>19 DEF LinkBreaks, TypeOK
  <2>2. SubscribeInv'
    BY <1>19 DEF LinkBreaks, TypeOK, SubscribeInv
  <2>3. QED
    BY <2>1, <2>2
<1>20. CASE Reboot
  <2>1. TypeOK'
    <3>1. None \in 0 .. MaxConns /\ crashes + 1 \in 0 .. MaxCrashes
      BY <1>20 DEF Reboot, TypeOK
    <3>2. TodoOK'
      <4>1. <<>> \in Seq(Tokens) /\ Len(<<>>) = 0
        OBVIOUS
      <4>2. QED
        BY <1>20, <4>1 DEF Reboot, TodoOK
    <3>3. /\ ping' \in [Conns -> {"off", "on", "stopping"}]
          /\ link' \in [Conns -> {"new", "open", "lost", "closed"}]
      BY <1>20 DEF Reboot
    <3>4. on' \in [Writers -> 0 .. MaxConns] /\ payload' \in [Writers -> SUBSET Tokens]
      <4> HIDE DEF Writers, None
      <4>1. QED
        BY <1>20, <3>1 DEF Reboot
    <3>5. QED
      BY <1>20, <3>1, <3>2, <3>3, <3>4 DEF Reboot, TypeOK, TodoOK
  <2>2. SubscribeInv'
    BY <1>20 DEF Reboot, TypeOK, SubscribeInv
  <2>3. QED
    BY <2>1, <2>2
<1>21. CASE UNCHANGED vars
  BY <1>21 DEF vars, TypeOK, SubscribeInv
<1>22. QED
  BY <1>1, <1>2, <1>3, <1>4, <1>5, <1>6, <1>7, <1>8, <1>9, <1>10, <1>11, <1>12,
     <1>13, <1>14, <1>15, <1>16, <1>17, <1>18, <1>19, <1>20, <1>21
     DEF Next, WorkerNext, AdderNext, Crash, Panic

\* Every state of the worker, of AddToken and of the connections is well typed,
\* and w.mu is held by exactly the one that is inside (main.go 208-268).
THEOREM StreamTypes == Spec => []TypeOK
<1>1. QED
  BY StreamInit, StreamStep, PTL DEF Spec

\* No token of the map is forgotten on a connection that works, however
\* connect's unlocked assignments, AddToken and a reconnection meet
\* (main.go 208-268).
THEOREM NothingForgotten == Spec => []NoTokenForgotten
<1>1. TypeOK /\ SubscribeInv => NoTokenForgotten
  BY DEF TypeOK, SubscribeInv, NoTokenForgotten
<1>2. QED
  BY <1>1, StreamInit, StreamStep, PTL DEF Spec
=============================================================================
