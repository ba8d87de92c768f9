----------------------------- MODULE GatewayProofs -----------------------------
(***************************************************************************)
(* The API process for any requests, keys, rates and clock: types, the     *)
(* revocation of keys, who is shown a status, the clients that a shutdown  *)
(* closes, and the limiter.                                                *)
(***************************************************************************)
EXTENDS Gateway, FiniteSetTheorems, TLAPS

-------------------------------------------------------------------------------
\* The limiter computes with natural numbers.
LEMMA LimiterNat ==
    ASSUME NEW arrival \in Nat, NEW now \in Nat, NEW rpm \in Nat
    PROVE  /\ NewTat(arrival, now, EffectiveRpm(rpm)) \in Nat
           /\ ~Allows(arrival, now, EffectiveRpm(rpm))
                => RetryAfterSeconds(arrival, now, EffectiveRpm(rpm)) \in Nat
<1>. DEFINE r == EffectiveRpm(rpm)
<1>1. r \in Nat \ {0}
  BY LimiterAssumption DEF EffectiveRpm
<1>2. Interval(r) \in Nat
  BY <1>1, LimiterAssumption DEF Interval
<1>3. NewTat(arrival, now, r) \in Nat
  BY <1>2 DEF NewTat, Later
<1>4. ASSUME ~Allows(arrival, now, r)
      PROVE  RetryAfterSeconds(arrival, now, r) \in Nat
  <2>. HIDE DEF r
  <2>1. RetryAfter(arrival, now, r) \in Nat
    BY <1>3, <1>4, LimiterAssumption DEF Allows, RetryAfter
  <2>2. RetryAfter(arrival, now, r) \div TicksPerSecond \in Nat
    BY <2>1, LimiterAssumption
  <2>. QED
    BY <2>2 DEF RetryAfterSeconds, Later
<1>. QED
  BY <1>3, <1>4

LEMMA TypeInit == Init => TypeOK
<1>. SUFFICES ASSUME Init PROVE TypeOK
  OBVIOUS
<1>1. ASSUME NEW q \in Requests
      PROVE  http[q] \in Http
  <2>1. PICK intent \in Intent :
            http[q] = [pc |-> "idle", key |-> intent.key, asks |-> intent.asks, limited |-> None,
                       at |-> 0, wait |-> 0, answer |-> None, live |-> FALSE, promised |-> FALSE]
    BY DEF Init
  <2>2. intent.key \in Keys /\ intent.asks \in Requests \cup {None}
    BY DEF Intent
  <2>. QED
    BY <2>1, <2>2 DEF Http, Answers
<1>2. http \in [Requests -> Http]
  BY <1>1 DEF Init
<1>. QED
  BY <1>2, GatewayAssumption DEF Init, TypeOK, Phases

\* A request keeps its type when fields of it are replaced by values of theirs.
LEMMA HttpUpdate ==
    ASSUME TypeOK, NEW q \in Requests, NEW h \in Http, http' = [http EXCEPT ![q] = h]
    PROVE  http' \in [Requests -> Http]
BY DEF TypeOK

LEMMA ArrivalType ==
    ASSUME NEW h \in Http, NEW l \in BOOLEAN, NEW p \in BOOLEAN
    PROVE  [h EXCEPT !.pc = "auth", !.live = l, !.promised = p] \in Http
BY Zenon DEF Http

LEMMA MoveType ==
    ASSUME TypeOK, NEW k \in Keys, Move(PrefixOf(k), EffectiveRpm(RpmOf(k)))
    PROVE  /\ tat' \in [{PrefixOf(l) : l \in Keys} -> Nat]
           /\ moved' \subseteq Requests
<1>1. tat[PrefixOf(k)] \in Nat /\ clock \in Nat /\ RpmOf(k) \in Nat
  BY GatewayAssumption DEF TypeOK
<1>2. NewTat(tat[PrefixOf(k)], clock, EffectiveRpm(RpmOf(k))) \in Nat
  BY <1>1, LimiterNat
<1>. QED
  BY <1>2 DEF Move, TypeOK

LEMMA TypeStep ==
    ASSUME TypeOK, [Next]_vars
    PROVE  TypeOK'
<1>. USE DEF At
<1>1. ASSUME NEW q \in Requests, Arrive(q)
      PROVE  TypeOK'
  <2>. DEFINE l == (keys[http[q].key] = "active")
              p == /\ http[q].asks # None
                   /\ http[http[q].asks].answer = "202"
                   /\ http[http[q].asks].key = http[q].key
  <2>1. l \in BOOLEAN /\ p \in BOOLEAN
    OBVIOUS
  <2>2. http' = [http EXCEPT ![q] = [http[q] EXCEPT !.pc = "auth", !.live = l, !.promised = p]]
    BY <1>1 DEF Arrive, TypeOK
  <2>. HIDE DEF l, p
  <2>3. [http[q] EXCEPT !.pc = "auth", !.live = l, !.promised = p] \in Http
    <3>1. http[q] \in Http
      BY DEF TypeOK
    <3>. QED
      BY <2>1, <3>1, ArrivalType
  <2>. QED
    BY <1>1, <2>2, <2>3, HttpUpdate DEF Arrive, process, limiter, TypeOK
<1>2. ASSUME NEW q \in Requests, Authenticate(q)
      PROVE  TypeOK'
  BY <1>2 DEF Authenticate, GoTo, Answer, TypeOK, Http, Answers, process, limiter
<1>3. ASSUME NEW q \in Requests, RateLimit(q)
      PROVE  TypeOK'
  <2>. DEFINE bucket == PrefixOf(http[q].key)
              rpm    == EffectiveRpm(RpmOf(http[q].key))
              wait   == RetryAfterSeconds(tat[bucket], clock, rpm)
  <2>1. /\ http[q] \in Http
        /\ http[q].key \in Keys
        /\ tat[bucket] \in Nat
        /\ clock \in Nat
        /\ RpmOf(http[q].key) \in Nat
    BY GatewayAssumption DEF TypeOK, Http
  <2>2. /\ NewTat(tat[bucket], clock, rpm) \in Nat
        /\ ~Allows(tat[bucket], clock, rpm) => wait \in Nat
    BY <2>1, LimiterNat
  <2>3. CASE /\ http' = [http EXCEPT ![q].pc = "handle", ![q].limited = "unchecked"]
             /\ UNCHANGED limiter
    <3>1. http' = [http EXCEPT ![q] = [http[q] EXCEPT !.pc = "handle", !.limited = "unchecked"]]
      BY <2>3 DEF TypeOK
    <3>2. [http[q] EXCEPT !.pc = "handle", !.limited = "unchecked"] \in Http
      BY <2>1 DEF Http
    <3>. QED
      BY <1>3, <2>3, <3>1, <3>2, HttpUpdate DEF RateLimit, process, limiter, TypeOK
  <2>4. CASE /\ http' = [http EXCEPT ![q].pc = "handle", ![q].limited = "passed", ![q].at = clock]
             /\ Move(bucket, rpm) /\ UNCHANGED unanswered
    <3>1. http' = [http EXCEPT ![q] =
                      [http[q] EXCEPT !.pc = "handle", !.limited = "passed", !.at = clock]]
      BY <2>4 DEF TypeOK
    <3>2. [http[q] EXCEPT !.pc = "handle", !.limited = "passed", !.at = clock] \in Http
      BY <2>1 DEF Http
    <3>3. /\ tat' \in [{PrefixOf(k) : k \in Keys} -> Nat]
          /\ moved' \subseteq Requests
      BY <2>1, <2>2, <2>4, MoveType
    <3>. QED
      BY <1>3, <3>1, <3>2, <3>3, HttpUpdate DEF RateLimit, process, limiter, TypeOK
  <2>5. CASE /\ ~Allows(tat[bucket], clock, rpm)
             /\ http' = [http EXCEPT ![q].pc = "done", ![q].limited = "refused", ![q].at = clock,
                                     ![q].wait = wait, ![q].answer = "429"]
             /\ UNCHANGED limiter
    <3>1. http' = [http EXCEPT ![q] =
                      [http[q] EXCEPT !.pc = "done", !.limited = "refused", !.at = clock,
                                      !.wait = wait, !.answer = "429"]]
      BY <2>5 DEF TypeOK
    <3>2. wait \in Nat
      BY <2>2, <2>5
    <3>. HIDE DEF wait
    <3>3. [http[q] EXCEPT !.pc = "done", !.limited = "refused", !.at = clock,
                          !.wait = wait, !.answer = "429"] \in Http
      BY <2>1, <3>2 DEF Http, Answers
    <3>. QED
      BY <1>3, <2>5, <3>1, <3>3, HttpUpdate DEF RateLimit, process, limiter, TypeOK
  <2>. QED
    BY <1>3, <2>3, <2>4, <2>5 DEF RateLimit
<1>4. ASSUME NEW q \in Requests, Create(q)
      PROVE  TypeOK'
  <2>1. GoTo(q, "enqueue") \/ Answer(q, "error")
    BY <1>4 DEF Create
  <2>2. http' \in [Requests -> Http]
    BY <2>1 DEF GoTo, Answer, TypeOK, Http, Answers
  <2>3. http[q].key \in Keys
    BY DEF TypeOK, Http
  <2>4. owned' \subseteq [id : Requests, by : Keys]
    BY <1>4, <2>3 DEF Create, TypeOK
  <2>. QED
    BY <1>4, <2>2, <2>4 DEF Create, process, limiter, TypeOK
<1>5. ASSUME NEW q \in Requests, Enqueue(q)
      PROVE  TypeOK'
  <2>1. [http[q] EXCEPT !.pc = "done", !.answer = "202"] \in Http
    <3>1. http[q] \in Http
      BY DEF TypeOK
    <3>2. "202" \in Answers
      BY DEF Answers
    <3>. QED
      BY <3>1, <3>2 DEF Http
  <2>2. http' = [http EXCEPT ![q] = [http[q] EXCEPT !.pc = "done", !.answer = "202"]]
    BY <1>5 DEF Enqueue, Answer, TypeOK
  <2>3. http' \in [Requests -> Http]
    BY <2>1, <2>2, HttpUpdate
  <2>. QED
    BY <1>5, <2>3 DEF Enqueue, process, limiter, TypeOK
<1>6. ASSUME NEW q \in Requests, Get(q)
      PROVE  TypeOK'
  <2>1. Answer(q, "200") \/ Answer(q, "404") \/ Answer(q, "error")
    BY <1>6 DEF Get
  <2>2. http' \in [Requests -> Http]
    BY <2>1 DEF Answer, TypeOK, Http, Answers
  <2>. QED
    BY <1>6, <2>2 DEF Get, process, limiter, TypeOK
<1>7. ASSUME NEW k \in Keys, NEW status \in {"active", "inactive"}, SetActive(k, status)
      PROVE  TypeOK'
  <2>. DEFINE l(q) == http[q].live \/ (status = "active" /\ http[q].key = k /\ http[q].pc = "auth")
  <2>1. http' = [q \in Requests |-> [http[q] EXCEPT !.live = l(q)]]
    BY <1>7 DEF SetActive
  <2>2. \A q \in Requests : l(q) \in BOOLEAN
    OBVIOUS
  <2>. HIDE DEF l
  <2>3. \A q \in Requests : [http[q] EXCEPT !.live = l(q)] \in Http
    BY <2>2 DEF TypeOK, Http
  <2>4. http' \in [Requests -> Http]
    BY <2>1, <2>3
  <2>5. keys' \in [Keys -> {"active", "inactive", "deleted"}]
    BY <1>7 DEF SetActive, TypeOK
  <2>. QED
    BY <1>7, <2>4, <2>5 DEF SetActive, process, limiter, TypeOK
<1>8. ASSUME NEW k \in Keys, Delete(k)
      PROVE  TypeOK'
  BY <1>8 DEF Delete, process, limiter, TypeOK
<1>9. CASE Tick
  BY <1>9, GatewayAssumption DEF Tick, process, limiter, TypeOK
<1>10. CASE Signal \/ Terminate
  <2>1. CASE Signal
    BY <2>1 DEF Signal, unserved, limiter, TypeOK, Phases
  <2>2. CASE Drained
    BY <2>2 DEF Drained, unserved, limiter, TypeOK, Phases, Clients
  <2>3. CASE TimedOut
    BY <2>3 DEF TimedOut, unserved, limiter, TypeOK, Phases
  <2>4. CASE CloseClient
    <3>1. Following[phase] \in Phases
      BY <2>4 DEF CloseClient, Following, Clients, Phases
    <3>. QED
      BY <2>4, <3>1 DEF CloseClient, unserved, limiter, TypeOK
  <2>. QED
    BY <1>10, <2>1, <2>2, <2>3, <2>4 DEF Terminate
<1>11. CASE UNCHANGED vars
  BY <1>11 DEF vars, process, limiter, TypeOK
<1>12. ASSUME NEW q \in Requests, RunUnanswered(q)
       PROVE  TypeOK'
  <2>1. http[q].key \in Keys
    BY DEF TypeOK, Http
  <2>2. /\ tat' \in [{PrefixOf(k) : k \in Keys} -> Nat]
        /\ moved' \subseteq Requests
    BY <1>12, <2>1, MoveType DEF RunUnanswered
  <2>3. unanswered' \in 0..MaxUnanswered
    BY <1>12, GatewayAssumption DEF RunUnanswered, TypeOK
  <2>. QED
    BY <1>12, <2>2, <2>3 DEF RunUnanswered, process, TypeOK
<1>. QED
  BY <1>1, <1>2, <1>3, <1>4, <1>5, <1>6, <1>7, <1>8, <1>9, <1>10, <1>11, <1>12, GatewayAssumption
     DEF Next, Serve, Operate

\* Every value the process and its stores hold has its type, for any requests, keys, rates and
\* clock.
THEOREM GatewayTypes == Spec => []TypeOK
<1>1. TypeOK /\ [Next]_vars => TypeOK'
  BY TypeStep
<1>. QED
  BY TypeInit, <1>1, PTL DEF Spec

-------------------------------------------------------------------------------
(***************************************************************************)
(* Revocation.  While a request waits for its lookup, a key that is active *)
(* now counts as active since it came; past the lookup, nothing is read    *)
(* any more.                                                               *)
(***************************************************************************)

Live(q) ==
    /\ http[q].pc \in {"idle", "auth"} => http[q].limited = None
    /\ http[q].pc = "auth" /\ keys[http[q].key] = "active" => http[q].live
    /\ http[q].pc = "limit" => http[q].live
    /\ http[q].limited # None => http[q].live

LiveInv == TypeOK /\ \A q \in Requests : Live(q)

LEMMA LiveInit == Init => \A q \in Requests : Live(q)
BY TypeInit, SMTT(30) DEF Init, Live, None, TypeOK, Http

\* What the limiter leaves of a request.
LEMMA RateLimited ==
    ASSUME TypeOK, NEW q \in Requests, RateLimit(q)
    PROVE  \E h \in {"handle", "done"}, d \in {"unchecked", "passed", "refused"}, a \in {http[q].answer, "429"} :
              /\ http'[q].pc = h
              /\ http'[q].limited = d
              /\ http'[q].answer = a
              /\ http'[q].live = http[q].live
              /\ http'[q].promised = http[q].promised
              /\ http'[q].key = http[q].key
              /\ http'[q].asks = http[q].asks
              /\ \A p \in Requests \ {q} : http'[p] = http[p]
<1>. DEFINE bucket == PrefixOf(http[q].key)
            rpm    == EffectiveRpm(RpmOf(http[q].key))
            wait   == RetryAfterSeconds(tat[bucket], clock, rpm)
<1>1. \/ http' = [http EXCEPT ![q].pc = "handle", ![q].limited = "unchecked"]
      \/ http' = [http EXCEPT ![q].pc = "handle", ![q].limited = "passed", ![q].at = clock]
      \/ http' = [http EXCEPT ![q].pc = "done", ![q].limited = "refused", ![q].at = clock,
                              ![q].wait = wait, ![q].answer = "429"]
  BY DEF RateLimit
<1>. HIDE DEF wait
<1>2. CASE http' = [http EXCEPT ![q].pc = "handle", ![q].limited = "unchecked"]
  BY <1>2 DEF TypeOK, Http
<1>3. CASE http' = [http EXCEPT ![q].pc = "handle", ![q].limited = "passed", ![q].at = clock]
  BY <1>3 DEF TypeOK, Http
<1>4. CASE http' = [http EXCEPT ![q].pc = "done", ![q].limited = "refused", ![q].at = clock,
                                ![q].wait = wait, ![q].answer = "429"]
  BY <1>4 DEF TypeOK, Http
<1>. QED
  BY <1>1, <1>2, <1>3, <1>4

LEMMA LiveStep ==
    ASSUME LiveInv, [Next]_vars
    PROVE  \A q \in Requests : Live(q)'
<1>. USE DEF At
<1>1. ASSUME NEW q \in Requests, Arrive(q)
      PROVE  \A p \in Requests : Live(p)'
  BY <1>1 DEF Arrive, LiveInv, Live, TypeOK, Http
<1>2. ASSUME NEW q \in Requests, Authenticate(q)
      PROVE  \A p \in Requests : Live(p)'
  BY <1>2 DEF Authenticate, GoTo, Answer, LiveInv, Live, TypeOK, Http
<1>3. ASSUME NEW q \in Requests, RateLimit(q)
      PROVE  \A p \in Requests : Live(p)'
  <2>1. At(q, "limit") /\ keys' = keys
    BY <1>3 DEF RateLimit
  <2>. QED
    BY <1>3, <2>1, RateLimited DEF LiveInv, Live, None
<1>4. ASSUME NEW q \in Requests, Create(q) \/ Enqueue(q) \/ Get(q)
      PROVE  \A p \in Requests : Live(p)'
  <2>1. \/ \E status \in {"202", "200", "404", "error"} : Answer(q, status)
        \/ GoTo(q, "enqueue")
    BY <1>4 DEF Create, Enqueue, Get
  <2>2. http[q].pc \in {"handle", "enqueue"} /\ keys' = keys
    BY <1>4 DEF Create, Enqueue, Get
  <2>. QED
    BY <2>1, <2>2 DEF GoTo, Answer, LiveInv, Live, TypeOK, Http
<1>5. ASSUME NEW k \in Keys, NEW status \in {"active", "inactive"}, SetActive(k, status)
      PROVE  \A p \in Requests : Live(p)'
  <2>. DEFINE l(q) == http[q].live \/ (status = "active" /\ http[q].key = k /\ http[q].pc = "auth")
  <2>1. http' = [q \in Requests |-> [http[q] EXCEPT !.live = l(q)]]
    BY <1>5 DEF SetActive
  <2>2. ASSUME NEW q \in Requests
        PROVE  Live(q)'
    <3>1. /\ http'[q].live = l(q)
          /\ http'[q].pc = http[q].pc
          /\ http'[q].key = http[q].key
          /\ http'[q].limited = http[q].limited
      <4>. HIDE DEF l
      <4>. QED
        BY <2>1 DEF LiveInv, TypeOK, Http
    <3>2. ASSUME keys'[http[q].key] = "active"
          PROVE  (keys[http[q].key] = "active") \/ (status = "active" /\ http[q].key = k)
      <4>1. http[q].key \in Keys /\ keys \in [Keys -> {"active", "inactive", "deleted"}]
        BY DEF LiveInv, TypeOK, Http
      <4>. QED
        BY <1>5, <3>2 DEF SetActive
    <3>3. Live(q)
      BY DEF LiveInv
    <3>4. http[q].live => http'[q].live
      BY <3>1, Zenon
    <3>5. status = "active" /\ http[q].key = k /\ http[q].pc = "auth" => http'[q].live
      BY <3>1, Zenon
    <3>. HIDE DEF l
    <3>. QED
      BY <3>1, <3>2, <3>3, <3>4, <3>5 DEF Live
  <2>. QED
    BY <2>2
<1>6. ASSUME NEW k \in Keys, Delete(k)
      PROVE  \A p \in Requests : Live(p)'
  BY <1>6 DEF Delete, LiveInv, Live, TypeOK, Http
<1>7. CASE Tick \/ Signal \/ Terminate \/ UNCHANGED vars \/ \E q \in Requests : RunUnanswered(q)
  <2>1. http' = http /\ keys' = keys
    BY <1>7 DEF RunUnanswered, Tick, Signal, Terminate, Drained, TimedOut, CloseClient, unserved, vars
  <2>. QED
    BY <2>1 DEF LiveInv, Live
<1>. QED
  BY <1>1, <1>2, <1>3, <1>4, <1>5, <1>6, <1>7, GatewayAssumption DEF Next, Serve, Operate

\* No request gets past authentication whose key was inactive or deleted all the time since it
\* came, although the chain looks the key up once.
THEOREM RevokedIsUseless == Spec => []ServedWasActive
<1>1. Init => LiveInv
  BY TypeInit, LiveInit DEF LiveInv
<1>2. LiveInv /\ [Next]_vars => LiveInv'
  BY TypeStep, LiveStep DEF LiveInv
<1>3. LiveInv => ServedWasActive
  BY DEF LiveInv, Live, ServedWasActive
<1>. QED
  BY <1>1, <1>2, <1>3, PTL DEF Spec

-------------------------------------------------------------------------------
(***************************************************************************)
(* Owners.  A document is the work of a POST that the limiter let in, and  *)
(* stays with that POST's key: who has been told of it finds it, and       *)
(* nobody else.                                                            *)
(***************************************************************************)

DocOf(id, key) == [id |-> id, by |-> key]

LetIn(q) == http[q].limited \in {"passed", "unchecked"}

Owned(q) ==
    /\ http[q].pc \in {"idle", "auth", "limit"} => http[q].limited = None
    /\ http[q].pc \in {"handle", "enqueue"} => LetIn(q)
    /\ http[q].pc = "enqueue" \/ http[q].answer = "202" => DocOf(q, http[q].key) \in owned
    /\ http[q].answer = "200" => DocOf(http[q].asks, http[q].key) \in owned
    /\ http[q].promised => /\ DocOf(http[q].asks, http[q].key) \in owned
                           /\ http[q].answer # "404"

Created(doc) ==
    /\ http[doc.id].asks = None
    /\ http[doc.id].key = doc.by
    /\ LetIn(doc.id)

OwnedInv ==
    /\ TypeOK
    /\ \A q \in Requests : Owned(q)
    /\ \A doc \in owned : Created(doc)

LEMMA OwnedInit == Init => \A q \in Requests : Owned(q)
BY TypeInit DEF Init, Owned, LetIn, None, TypeOK, Http

\* Past the limiter is who passed it or was not checked.
LEMMA RateLimitedIn ==
    ASSUME TypeOK, NEW q \in Requests, RateLimit(q)
    PROVE  http'[q].pc = "handle" => LetIn(q)'
<1>. DEFINE wait == RetryAfterSeconds(tat[PrefixOf(http[q].key)], clock, EffectiveRpm(RpmOf(http[q].key)))
<1>1. \/ http' = [http EXCEPT ![q].pc = "handle", ![q].limited = "unchecked"]
      \/ http' = [http EXCEPT ![q].pc = "handle", ![q].limited = "passed", ![q].at = clock]
      \/ http' = [http EXCEPT ![q].pc = "done", ![q].limited = "refused", ![q].at = clock,
                              ![q].wait = wait, ![q].answer = "429"]
  BY DEF RateLimit
<1>. HIDE DEF wait
<1>. QED
  BY <1>1 DEF LetIn, TypeOK, Http

LEMMA OwnedStep ==
    ASSUME OwnedInv, [Next]_vars
    PROVE  \A q \in Requests : Owned(q)'
<1>. USE DEF At
<1>1. ASSUME NEW q \in Requests, Arrive(q)
      PROVE  \A p \in Requests : Owned(p)'
  <2>1. http[q].pc = "idle" /\ owned' = owned
    BY <1>1 DEF Arrive
  <2>2. ASSUME NEW p \in Requests \ {q}
        PROVE  Owned(p)'
    BY <1>1, <2>1 DEF Arrive, OwnedInv, Owned, LetIn, TypeOK
  <2>. QED
    BY <1>1, <2>1, <2>2 DEF Arrive, OwnedInv, Owned, LetIn, TypeOK, Http, DocOf, None
<1>2. ASSUME NEW q \in Requests, Authenticate(q)
      PROVE  \A p \in Requests : Owned(p)'
  BY <1>2 DEF Authenticate, GoTo, Answer, OwnedInv, Owned, LetIn, TypeOK, Http
<1>3. ASSUME NEW q \in Requests, RateLimit(q)
      PROVE  \A p \in Requests : Owned(p)'
  <2>1. owned' = owned /\ http[q].pc = "limit"
    BY <1>3 DEF RateLimit
  <2>2. ASSUME NEW p \in Requests \ {q}
        PROVE  Owned(p)'
    BY <1>3, <2>1, RateLimited DEF OwnedInv, Owned, LetIn
  <2>3. Owned(q)'
    <3>1. /\ http'[q].pc \in {"handle", "done"}
          /\ http'[q].limited \in {"unchecked", "passed", "refused"}
          /\ http'[q].answer \in {http[q].answer, "429"}
          /\ http'[q].promised = http[q].promised
          /\ http'[q].key = http[q].key /\ http'[q].asks = http[q].asks
          /\ http'[q].pc = "handle" => LetIn(q)'
      BY <1>3, <2>1, RateLimited, RateLimitedIn DEF OwnedInv
    <3>. QED
      BY <2>1, <3>1 DEF OwnedInv, Owned
  <2>. QED
    BY <2>2, <2>3
<1>4. ASSUME NEW q \in Requests, Create(q)
      PROVE  \A p \in Requests : Owned(p)'
  BY <1>4 DEF Create, GoTo, Answer, OwnedInv, Owned, LetIn, TypeOK, Http, DocOf
<1>5. ASSUME NEW q \in Requests, Enqueue(q)
      PROVE  \A p \in Requests : Owned(p)'
  BY <1>5 DEF Enqueue, Answer, OwnedInv, Owned, LetIn, TypeOK, Http
<1>6. ASSUME NEW q \in Requests, Get(q)
      PROVE  \A p \in Requests : Owned(p)'
  BY <1>6 DEF Get, Answer, OwnedInv, Owned, LetIn, TypeOK, Http, DocOf
<1>7. ASSUME NEW k \in Keys, NEW status \in {"active", "inactive"}, SetActive(k, status)
      PROVE  \A p \in Requests : Owned(p)'
  BY <1>7 DEF SetActive, OwnedInv, Owned, LetIn, TypeOK, Http
<1>8. CASE \/ (\E k \in Keys : Delete(k)) \/ Tick \/ Signal \/ Terminate \/ UNCHANGED vars
           \/ \E q \in Requests : RunUnanswered(q)
  <2>1. http' = http /\ owned' = owned
    BY <1>8 DEF RunUnanswered, Delete, Tick, Signal, Terminate, Drained, TimedOut, CloseClient, unserved, vars
  <2>. QED
    BY <2>1 DEF OwnedInv, Owned, LetIn
<1>. QED
  BY <1>1, <1>2, <1>3, <1>4, <1>5, <1>6, <1>7, <1>8, GatewayAssumption DEF Next, Serve, Operate

\* A step leaves the key, the errand and the admission of a request alone, but for the limiter's
\* decision about one it had not decided.
LEMMA LetInStays ==
    ASSUME OwnedInv, [Next]_vars, NEW p \in Requests
    PROVE  /\ http'[p].key = http[p].key
           /\ http'[p].asks = http[p].asks
           /\ LetIn(p) => LetIn(p)'
<1>. USE DEF At
<1>1. ASSUME NEW q \in Requests, Arrive(q)
      PROVE  /\ http'[p].key = http[p].key
             /\ http'[p].asks = http[p].asks
             /\ http'[p].limited = http[p].limited
  BY <1>1 DEF Arrive, OwnedInv, TypeOK, Http
<1>2. ASSUME NEW q \in Requests, Authenticate(q) \/ Create(q) \/ Enqueue(q) \/ Get(q)
      PROVE  /\ http'[p].key = http[p].key
             /\ http'[p].asks = http[p].asks
             /\ http'[p].limited = http[p].limited
  <2>1. \/ \E status : Answer(q, status)
        \/ GoTo(q, "limit") \/ GoTo(q, "enqueue")
    BY <1>2 DEF Authenticate, Create, Enqueue, Get
  <2>. QED
    BY <2>1 DEF GoTo, Answer, OwnedInv, TypeOK, Http
<1>3. ASSUME NEW q \in Requests, RateLimit(q)
      PROVE  /\ http'[p].key = http[p].key
             /\ http'[p].asks = http[p].asks
             /\ LetIn(p) => http'[p].limited = http[p].limited
  <2>1. http[q].limited = None
    BY <1>3 DEF RateLimit, OwnedInv, Owned
  <2>. QED
    BY <1>3, <2>1, RateLimited DEF OwnedInv, LetIn, None
<1>4. ASSUME NEW k \in Keys, NEW status \in {"active", "inactive"}, SetActive(k, status)
      PROVE  /\ http'[p].key = http[p].key
             /\ http'[p].asks = http[p].asks
             /\ http'[p].limited = http[p].limited
  BY <1>4 DEF SetActive, OwnedInv, TypeOK, Http
<1>5. CASE \/ (\E k \in Keys : Delete(k)) \/ Tick \/ Signal \/ Terminate \/ UNCHANGED vars
           \/ \E q \in Requests : RunUnanswered(q)
  BY <1>5 DEF RunUnanswered, Delete, Tick, Signal, Terminate, Drained, TimedOut, CloseClient, unserved, vars, LetIn
<1>. QED
  BY <1>1, <1>2, <1>3, <1>4, <1>5, GatewayAssumption DEF Next, Serve, Operate, LetIn

LEMMA CreatedStep ==
    ASSUME OwnedInv, [Next]_vars
    PROVE  \A doc \in owned' : Created(doc)'
<1>1. ASSUME NEW doc \in owned
      PROVE  Created(doc)'
  <2>1. doc.id \in Requests /\ Created(doc)
    BY DEF OwnedInv, TypeOK
  <2>. QED
    BY <2>1, LetInStays DEF Created
<1>2. ASSUME NEW q \in Requests, Create(q), NEW doc, doc = DocOf(q, http[q].key)
      PROVE  Created(doc)'
  <2>1. http[q].asks = None /\ LetIn(q)
    BY SMTT(30), <1>2 DEF Create, At, OwnedInv, Owned
  <2>. QED
    BY <1>2, <2>1, LetInStays DEF Created, DocOf
<1>3. owned' = owned \/ \E q \in Requests : Create(q) /\ owned' = owned \cup {DocOf(q, http[q].key)}
  BY GatewayAssumption, ZenonT(30)
     DEF Next, Serve, Operate, Arrive, Authenticate, RateLimit, Create, Enqueue, Get, SetActive, Delete,
         Tick, Signal, Terminate, Drained, TimedOut, CloseClient, unserved, vars, RunUnanswered, DocOf
<1>. QED
  BY <1>1, <1>2, <1>3

LEMMA OwnedAlways == Spec => []OwnedInv
<1>1. Init => OwnedInv
  BY TypeInit, OwnedInit DEF Init, OwnedInv
<1>2. OwnedInv /\ [Next]_vars => OwnedInv'
  BY TypeStep, OwnedStep, CreatedStep DEF OwnedInv
<1>. QED
  BY <1>1, <1>2, PTL DEF Spec

\* Who is shown a status has the key of the POST that created the request, and the limiter let
\* that POST in: the document carries the key it was authenticated with.
THEOREM CreatorsOnly == Spec => []OnlyCreatorSees
<1>1. OwnedInv => OnlyCreatorSees
  BY DEF OwnedInv, Owned, Created, LetIn, OnlyCreatorSees, DocOf
<1>. QED
  BY <1>1, OwnedAlways, PTL

\* The status URL handed out with a 202 never leads its owner to a 404.
THEOREM StatusUrls == Spec => []StatusUrlWorks
<1>1. OwnedInv => StatusUrlWorks
  BY DEF OwnedInv, Owned, StatusUrlWorks
<1>. QED
  BY <1>1, OwnedAlways, PTL

-------------------------------------------------------------------------------
(***************************************************************************)
(* Shutdown: the clients are open until the drain is over, and then no     *)
(* request is in progress nor can one come.                                *)
(***************************************************************************)

DrainInv ==
    /\ phase \in {"serving", "http_server"} => open = Clients
    /\ phase \in Clients => \A q \in Requests : ~InProgress(q)

LEMMA DrainStep ==
    ASSUME TypeOK, DrainInv, [Next]_vars
    PROVE  DrainInv'
<1>1. ASSUME NEW q \in Requests, Arrive(q)
      PROVE  DrainInv'
  BY <1>1 DEF Arrive, process, DrainInv, Clients
<1>2. ASSUME NEW q \in Requests, Serve(q)
      PROVE  DrainInv'
  <2>1. InProgress(q)
    BY <1>2 DEF Serve, Authenticate, RateLimit, Create, Enqueue, Get, At, InProgress
  <2>2. UNCHANGED process
    BY <1>2 DEF Serve, Authenticate, RateLimit, Create, Enqueue, Get
  <2>. QED
    BY <2>1, <2>2 DEF process, DrainInv
<1>3. CASE Signal
  BY <1>3 DEF Signal, DrainInv, Clients
<1>4. CASE Drained
  BY <1>4 DEF Drained, unserved, DrainInv, InProgress, Clients
<1>5. CASE TimedOut
  BY <1>5 DEF TimedOut, DrainInv, Clients
<1>6. CASE CloseClient
  BY <1>6 DEF CloseClient, Following, unserved, DrainInv, InProgress, Clients
<1>7. ASSUME NEW k \in Keys, Delete(k) \/ \E status \in {"active", "inactive"} : SetActive(k, status)
      PROVE  DrainInv'
  <2>1. UNCHANGED process /\ \A q \in Requests : http'[q].pc = http[q].pc
    BY <1>7 DEF Delete, SetActive, TypeOK, Http
  <2>. QED
    BY <2>1 DEF process, DrainInv, InProgress
<1>8. CASE Tick \/ UNCHANGED vars \/ \E q \in Requests : RunUnanswered(q)
  BY <1>8 DEF RunUnanswered, Tick, vars, process, DrainInv, InProgress
<1>. QED
  BY <1>1, <1>2, <1>3, <1>4, <1>5, <1>6, <1>7, <1>8, GatewayAssumption
     DEF Next, Operate, Terminate

\* As long as a request is in progress and the process runs, no client it may use is closed.
THEOREM ClientsOpen == Spec => []ClientsOpenWhileServing
<1>1. Init => DrainInv
  BY DEF Init, DrainInv, Clients
<1>2. TypeOK /\ DrainInv /\ [Next]_vars => DrainInv'
  BY DrainStep
<1>3. TypeOK /\ DrainInv => ClientsOpenWhileServing
  BY DEF TypeOK, DrainInv, ClientsOpenWhileServing, Up, Phases
<1>. QED
  BY <1>1, <1>2, <1>3, GatewayTypes, PTL DEF Spec

-------------------------------------------------------------------------------
(***************************************************************************)
(* The limiter's decisions.                                                *)
(***************************************************************************)

RateOf(k) == EffectiveRpm(RpmOf(k))
IntervalOf(k) == Interval(RateOf(k))
BucketOf(q) == PrefixOf(http[q].key)

LEMMA Rates ==
    ASSUME NEW k \in Keys
    PROVE  /\ RateOf(k) \in Nat \ {0}
           /\ IntervalOf(k) \in 1..Period
           /\ RateOf(k) * IntervalOf(k) = Period
<1>1. RateOf(k) \in Nat \ {0}
  BY GatewayAssumption, LimiterAssumption DEF RateOf, EffectiveRpm
<1>2. IntervalOf(k) \in Nat
  BY <1>1, LimiterAssumption DEF IntervalOf, Interval
<1>3. RateOf(k) * IntervalOf(k) = Period
  BY IntervalAssumption DEF RateOf, IntervalOf
<1>4. IntervalOf(k) # 0
  BY <1>1, <1>3, LimiterAssumption
<1>5. \A m \in Nat \ {0}, i \in Nat : i <= m * i
  OBVIOUS
<1>. QED
  BY <1>1, <1>2, <1>3, <1>4, <1>5, LimiterAssumption

\* A refusal: the bucket is full, and the wait told is short by less than a second.
LEMMA Refusal ==
    ASSUME NEW k \in Keys, NEW arrival \in Nat, NEW now \in Nat, ~Allows(arrival, now, RateOf(k))
    PROVE  /\ RetryAfterSeconds(arrival, now, RateOf(k)) \in Nat \ {0}
           /\ arrival + IntervalOf(k)
                 <= now + Period + (RetryAfterSeconds(arrival, now, RateOf(k)) + 1) * TicksPerSecond - 1
           /\ arrival + IntervalOf(k) > now + Period
<1>. DEFINE full == arrival + IntervalOf(k) - (now + Period)
            w == full \div TicksPerSecond
<1>1. Later(arrival, now) = arrival /\ full \in Nat \ {0}
  BY Rates, LimiterAssumption DEF Allows, NewTat, IntervalOf, Later
<1>2. RetryAfter(arrival, now, RateOf(k)) = full
  BY <1>1, Rates DEF RetryAfter, NewTat, IntervalOf
<1>3. \A f \in Nat : f \div TicksPerSecond \in Nat /\ f <= (f \div TicksPerSecond) * TicksPerSecond + TicksPerSecond - 1
  BY LimiterAssumption
<1>4. w \in Nat /\ full <= w * TicksPerSecond + TicksPerSecond - 1
  BY <1>1, <1>3
<1>5. RetryAfterSeconds(arrival, now, RateOf(k)) = Later(w, 1)
  BY <1>2 DEF RetryAfterSeconds
<1>6. full + now + Period = arrival + IntervalOf(k)
  BY Rates, LimiterAssumption
<1>. HIDE DEF full, w
<1>7. Later(w, 1) \in Nat \ {0} /\ Later(w, 1) >= w
  BY <1>4 DEF Later
<1>8. \A v, u \in Nat : v >= u => (v + 1) * TicksPerSecond >= u * TicksPerSecond + TicksPerSecond
  BY LimiterAssumption
<1>9. (Later(w, 1) + 1) * TicksPerSecond >= w * TicksPerSecond + TicksPerSecond
  BY <1>4, <1>7, <1>8
<1>10. full <= (Later(w, 1) + 1) * TicksPerSecond - 1
  BY <1>1, <1>4, <1>7, <1>9, LimiterAssumption
<1>. QED
  BY <1>1, <1>5, <1>6, <1>7, <1>10, Rates, LimiterAssumption

Undecided == \A q \in Requests : http[q].pc \in {"idle", "auth", "limit"} => http[q].limited = None

\* The limiter lets q pass, or refuses it, or its script runs unanswered; everything else leaves
\* its decisions and its buckets alone.
buckets == <<tat, moved>>

Passes(q) ==
    /\ http[q].limited = None /\ http'[q].limited = "passed" /\ http'[q].at = clock
    /\ Move(BucketOf(q), RateOf(http[q].key))

Refuses(q) ==
    /\ http[q].limited = None /\ http'[q].limited = "refused" /\ http'[q].at = clock
    /\ http'[q].wait = RetryAfterSeconds(tat[BucketOf(q)], clock, RateOf(http[q].key))
    /\ ~Allows(tat[BucketOf(q)], clock, RateOf(http[q].key))
    /\ UNCHANGED buckets

Leaves(q) ==
    \/ /\ http'[q].limited = http[q].limited
       /\ http'[q].at = http[q].at
       /\ http'[q].wait = http[q].wait
    \/ http[q].limited = None /\ http'[q].limited = "unchecked"

LEMMA Decision ==
    ASSUME TypeOK, Undecided, [Next]_vars
    PROVE  /\ Undecided'
           /\ clock <= clock'
           /\ \A q \in Requests : http'[q].key = http[q].key
           /\ \/ UNCHANGED buckets /\ \A q \in Requests : Leaves(q)
              \/ \E q \in Requests : /\ Move(BucketOf(q), RateOf(http[q].key))
                                     /\ clock' = clock
                                     /\ \A p \in Requests : Leaves(p)
              \/ \E q \in Requests : /\ Passes(q) \/ Refuses(q)
                                     /\ clock' = clock
                                     /\ \A p \in Requests \ {q} : Leaves(p)
<1>. USE DEF At
<1>1. ASSUME NEW q \in Requests, Arrive(q)
      PROVE  /\ UNCHANGED buckets /\ clock' = clock /\ Undecided'
             /\ \A p \in Requests : Leaves(p) /\ http'[p].key = http[p].key
  BY <1>1 DEF Arrive, limiter, buckets, Undecided, Leaves, TypeOK, Http
<1>2. ASSUME NEW q \in Requests, Authenticate(q) \/ Create(q) \/ Enqueue(q) \/ Get(q)
      PROVE  /\ UNCHANGED buckets /\ clock' = clock /\ Undecided'
             /\ \A p \in Requests : Leaves(p) /\ http'[p].key = http[p].key
  <2>1. /\ UNCHANGED buckets /\ clock' = clock
        /\ \/ \E status : Answer(q, status)
           \/ GoTo(q, "limit") /\ http[q].pc = "auth"
           \/ GoTo(q, "enqueue")
    BY <1>2 DEF Authenticate, Create, Enqueue, Get, limiter, buckets
  <2>. QED
    BY <2>1 DEF GoTo, Answer, Undecided, Leaves, TypeOK, Http
<1>3. ASSUME NEW q \in Requests, RateLimit(q)
      PROVE  /\ Undecided' /\ clock' = clock
             /\ \A p \in Requests : http'[p].key = http[p].key
             /\ \/ UNCHANGED buckets /\ \A p \in Requests : Leaves(p)
                \/ (Passes(q) \/ Refuses(q)) /\ \A p \in Requests \ {q} : Leaves(p)
  <2>. DEFINE wait  == RetryAfterSeconds(tat[BucketOf(q)], clock, RateOf(http[q].key))
              full  == ~Allows(tat[BucketOf(q)], clock, RateOf(http[q].key))
              moves == Move(BucketOf(q), RateOf(http[q].key))
  <2>1. /\ http[q].limited = None /\ clock' = clock
        /\ \/ /\ http' = [http EXCEPT ![q].pc = "handle", ![q].limited = "unchecked"]
              /\ UNCHANGED buckets
           \/ /\ moves
              /\ http' = [http EXCEPT ![q].pc = "handle", ![q].limited = "passed", ![q].at = clock]
           \/ /\ full
              /\ http' = [http EXCEPT ![q].pc = "done", ![q].limited = "refused", ![q].at = clock,
                                      ![q].wait = wait, ![q].answer = "429"]
              /\ UNCHANGED buckets
    BY <1>3 DEF RateLimit, Undecided, BucketOf, RateOf, limiter, buckets
  <2>2. /\ Passes(q) <=> /\ http[q].limited = None /\ http'[q].limited = "passed"
                         /\ http'[q].at = clock /\ moves
        /\ Refuses(q) <=> /\ http[q].limited = None /\ http'[q].limited = "refused"
                          /\ http'[q].at = clock /\ http'[q].wait = wait /\ full
                          /\ UNCHANGED buckets
    BY DEF Passes, Refuses
  <2>. HIDE DEF wait, full, moves
  <2>. QED
    BY <2>1, <2>2 DEF Leaves, Undecided, TypeOK, Http
<1>4. ASSUME NEW k \in Keys, NEW status \in {"active", "inactive"}, SetActive(k, status)
      PROVE  /\ UNCHANGED buckets /\ clock' = clock /\ Undecided'
             /\ \A p \in Requests : Leaves(p) /\ http'[p].key = http[p].key
  <2>. DEFINE l(q) == http[q].live \/ (status = "active" /\ http[q].key = k /\ http[q].pc = "auth")
  <2>1. http' = [q \in Requests |-> [http[q] EXCEPT !.live = l(q)]] /\ UNCHANGED buckets /\ clock' = clock
    BY <1>4 DEF SetActive, limiter, buckets
  <2>. HIDE DEF l
  <2>. QED
    BY <2>1 DEF Leaves, Undecided, TypeOK, Http
<1>5. CASE (\E k \in Keys : Delete(k)) \/ Tick \/ Signal \/ Terminate \/ UNCHANGED vars
  <2>1. http' = http /\ UNCHANGED buckets /\ clock <= clock'
    BY <1>5 DEF Delete, Tick, Signal, Terminate, Drained, TimedOut, CloseClient, unserved, vars, TypeOK, limiter, buckets
  <2>2. Undecided'
    BY <2>1 DEF Undecided
  <2>. QED
    BY <2>1, <2>2 DEF Leaves
<1>6. clock <= clock
  BY GatewayAssumption DEF TypeOK
<1>7. ASSUME NEW q \in Requests, RunUnanswered(q)
      PROVE  /\ Undecided' /\ clock' = clock
             /\ Move(BucketOf(q), RateOf(http[q].key))
             /\ \A p \in Requests : Leaves(p) /\ http'[p].key = http[p].key
  <2>1. Move(BucketOf(q), RateOf(http[q].key)) /\ http' = http /\ clock' = clock
    BY <1>7 DEF RunUnanswered, BucketOf, RateOf
  <2>. QED
    BY <2>1 DEF Leaves, Undecided
<1>. QED
  BY <1>1, <1>2, <1>3, <1>4, <1>5, <1>6, <1>7, GatewayAssumption DEF Next, Serve, Operate

-------------------------------------------------------------------------------
(***************************************************************************)
(* The rate.  From a moment t on, every request of a key that passes moves *)
(* the arrival time of its bucket on by the key's interval, whoever else   *)
(* uses the bucket; and none passes that would move it further than a      *)
(* minute ahead of the clock.                                              *)
(***************************************************************************)

PassedSince(k, t) ==
    {q \in Requests : http[q].key = k /\ http[q].limited = "passed" /\ http[q].at >= t}

PassedWithin(k, t) ==
    {q \in Requests : /\ http[q].key = k
                      /\ http[q].limited = "passed"
                      /\ http[q].at \in t..(t + Period - 1)}

Paced(k, t) ==
    /\ IsFiniteSet(PassedSince(k, t))
    /\ PassedSince(k, t) # {}
         => tat[PrefixOf(k)] >= t + Cardinality(PassedSince(k, t)) * IntervalOf(k)
    /\ Cardinality(PassedWithin(k, t)) * IntervalOf(k) <= 2 * Period - 1

RateInv ==
    /\ TypeOK /\ Undecided
    /\ \A q \in Requests : http[q].limited = "passed" => http[q].at <= clock
    /\ \A k \in Keys, t \in 0..MaxTime : Paced(k, t)

\* A key's requests when none of them is let pass.
LEMMA PacedOn ==
    ASSUME RateInv, NEW k \in Keys, NEW t \in 0..MaxTime,
           \A q \in Requests : http[q].key = k => Leaves(q),
           \A q \in Requests : http'[q].key = http[q].key,
           tat'[PrefixOf(k)] >= tat[PrefixOf(k)],
           tat'[PrefixOf(k)] \in Nat
    PROVE  Paced(k, t)'
<1>1. /\ PassedSince(k, t)' = PassedSince(k, t)
      /\ PassedWithin(k, t)' = PassedWithin(k, t)
  BY DEF PassedSince, PassedWithin, Leaves, None
<1>2. /\ Paced(k, t) /\ t \in Nat
      /\ tat[PrefixOf(k)] \in Nat
      /\ IntervalOf(k) \in Nat
  BY Rates, LimiterAssumption, GatewayAssumption DEF RateInv, TypeOK
<1>3. IsFiniteSet(PassedSince(k, t)) => Cardinality(PassedSince(k, t)) \in Nat
  BY FS_CardinalityType
<1>4. Cardinality(PassedSince(k, t)) \in Nat => Cardinality(PassedSince(k, t)) * IntervalOf(k) \in Nat
  BY <1>2
<1>. QED
  BY <1>1, <1>2, <1>3, <1>4 DEF Paced

LEMMA PacedByOne ==
    ASSUME RateInv, NEW q \in Requests, Passes(q), NEW k \in Keys, http[q].key = k,
           NEW t \in 0..MaxTime,
           \A p \in Requests \ {q} : Leaves(p),
           \A p \in Requests : http'[p].key = http[p].key
    PROVE  Paced(k, t)'
<1>. DEFINE b == PrefixOf(k)
            i == IntervalOf(k)
            S == PassedSince(k, t)
            W == PassedWithin(k, t)
<1>1. /\ b \in {PrefixOf(l) : l \in Keys} /\ tat[b] \in Nat
      /\ t \in Nat /\ clock \in Nat /\ i \in 1..Period /\ Period \in Nat
  BY Rates, LimiterAssumption, GatewayAssumption DEF RateInv, TypeOK, Http
<1>2. /\ tat'[b] = Later(tat[b], clock) + i
      /\ tat'[b] <= clock + Period
  BY <1>1 DEF Passes, Move, BucketOf, NewTat, Allows, IntervalOf, RateInv, TypeOK
<1>3. /\ http[q].limited # "passed"
      /\ http'[q].limited = "passed" /\ http'[q].at = clock /\ http'[q].key = k
      /\ \A p \in Requests \ {q} :
            /\ http'[p].limited = "passed" <=> http[p].limited = "passed"
            /\ http[p].limited = "passed" => http'[p].at = http[p].at
            /\ http'[p].key = http[p].key
  BY DEF Passes, Leaves, None
<1>4. IsFiniteSet(S) /\ Cardinality(S) \in Nat
  BY <1>1, FS_CardinalityType DEF RateInv, Paced
<1>5. /\ S # {} => tat[b] >= t + Cardinality(S) * i
      /\ Cardinality(W) * i <= 2 * Period - 1
  BY <1>1 DEF RateInv, Paced
<1>6. \A n \in Nat : (n + 1) * i = n * i + i /\ n * i \in Nat
  BY <1>1
<1>7. CASE clock < t
  <2>1. S' = S /\ W' = W
    BY <1>1, <1>3, <1>7 DEF PassedSince, PassedWithin
  <2>2. S = {}
    BY <1>1, <1>7 DEF PassedSince, RateInv, TypeOK, Http
  <2>. QED
    BY <1>4, <1>5, <2>1, <2>2 DEF Paced
<1>8. CASE t <= clock
  <2>1. S' = S \cup {q} /\ q \notin S
    BY <1>1, <1>3, <1>8 DEF PassedSince
  <2>2. IsFiniteSet(S') /\ Cardinality(S') = Cardinality(S) + 1
    BY <1>4, <2>1, FS_AddElement
  <2>3. tat'[b] >= t + (Cardinality(S) + 1) * i
    <3>1. CASE S = {}
      <4>1. Cardinality(S) = 0
        BY <3>1, FS_EmptySet
      <4>. QED
        BY <1>1, <1>2, <1>8, <4>1 DEF Later
    <3>2. CASE S # {}
      BY <1>1, <1>2, <1>4, <1>5, <1>6, <3>2 DEF Later
    <3>. QED
      BY <3>1, <3>2
  <2>4. CASE clock > t + Period - 1
    <3>1. W' = W
      BY <1>1, <1>3, <2>4 DEF PassedWithin
    <3>. QED
      BY <1>5, <2>2, <2>3, <3>1 DEF Paced
  <2>5. CASE clock <= t + Period - 1
    <3>1. W' \subseteq S'
      BY <1>1 DEF PassedWithin, PassedSince
    <3>2. Cardinality(W') \in Nat /\ Cardinality(W') <= Cardinality(S) + 1
      BY <2>2, <3>1, FS_Subset, FS_CardinalityType
    <3>3. \A m, n \in Nat : m <= n => m * i <= n * i
      BY <1>1
    <3>4. Cardinality(W') * i <= (Cardinality(S) + 1) * i
      BY <1>4, <3>2, <3>3
    <3>5. Cardinality(W') * i \in Nat /\ (Cardinality(S) + 1) * i \in Nat
      BY <1>1, <1>4, <1>6, <3>2
    <3>6. (Cardinality(S) + 1) * i <= 2 * Period - 1
      <4>1. \A x, y \in Nat : y >= t + x /\ y <= clock + Period => x <= 2 * Period - 1
        BY <1>1, <2>5
      <4>2. tat'[b] \in Nat
        BY <1>1, <1>2 DEF Later
      <4>. QED
        BY <1>2, <2>3, <3>5, <4>1, <4>2
    <3>7. Cardinality(W') * i <= 2 * Period - 1
      BY <1>1, <3>4, <3>5, <3>6
    <3>. QED
      BY <2>2, <2>3, <3>7 DEF Paced
  <2>. QED
    BY <1>1, <2>4, <2>5
<1>. QED
  BY <1>1, <1>7, <1>8

LEMMA RateStep == RateInv /\ [Next]_vars => RateInv'
<1>. SUFFICES ASSUME RateInv, [Next]_vars PROVE RateInv'
  OBVIOUS
<1>1. TypeOK' /\ Undecided'
  BY TypeStep, Decision DEF RateInv
<1>2. clock <= clock' /\ clock \in Nat /\ clock' \in Nat
  BY <1>1, Decision, GatewayAssumption DEF RateInv, TypeOK
<1>3. \A q \in Requests : http'[q].key = http[q].key
  BY Decision DEF RateInv
<1>4. \A b \in {PrefixOf(k) : k \in Keys} : tat[b] \in Nat /\ tat'[b] \in Nat
  BY <1>1 DEF RateInv, TypeOK
<1>5. ASSUME \A b \in {PrefixOf(k) : k \in Keys} : tat'[b] >= tat[b],
             \A q \in Requests : Leaves(q)
      PROVE  RateInv'
  <2>1. \A q \in Requests : http'[q].limited = "passed" => http'[q].at <= clock'
    BY <1>2, <1>5 DEF RateInv, Leaves, TypeOK, Http
  <2>2. \A k \in Keys, t \in 0..MaxTime : Paced(k, t)'
    BY <1>3, <1>4, <1>5, PacedOn
  <2>. QED
    BY <1>1, <2>1, <2>2 DEF RateInv
<1>6. ASSUME NEW q \in Requests, Refuses(q), \A p \in Requests \ {q} : Leaves(p)
      PROVE  RateInv'
  <2>1. \A p \in Requests : http'[p].limited = "passed" => http'[p].at <= clock'
    BY <1>2, <1>6 DEF RateInv, Leaves, Refuses, TypeOK, Http
  <2>2. ASSUME NEW k \in Keys, NEW t \in 0..MaxTime
        PROVE  Paced(k, t)'
    <3>1. /\ PassedSince(k, t)' = PassedSince(k, t)
          /\ PassedWithin(k, t)' = PassedWithin(k, t)
          /\ tat' = tat
      BY <1>3, <1>6 DEF PassedSince, PassedWithin, Leaves, Refuses, buckets, None
    <3>. QED
      BY <3>1 DEF RateInv, Paced
  <2>. QED
    BY <1>1, <2>1, <2>2 DEF RateInv
<1>7. ASSUME NEW q \in Requests, Passes(q), clock' = clock, \A p \in Requests \ {q} : Leaves(p)
      PROVE  RateInv'
  <2>1. \A p \in Requests : http'[p].limited = "passed" => http'[p].at <= clock'
    BY <1>2, <1>7 DEF RateInv, Leaves, Passes, TypeOK, Http
  <2>2. ASSUME NEW k \in Keys, NEW t \in 0..MaxTime, k # http[q].key
        PROVE  Paced(k, t)'
    <3>1. http[q].key \in Keys /\ IntervalOf(http[q].key) \in Nat
      BY Rates, LimiterAssumption DEF RateInv, TypeOK, Http
    <3>2. tat'[PrefixOf(k)] >= tat[PrefixOf(k)]
      BY <1>2, <1>4, <1>7, <3>1 DEF Passes, Move, BucketOf, NewTat, IntervalOf, Later, RateInv, TypeOK
    <3>. QED
      BY <1>3, <1>4, <1>7, <2>2, <3>2, PacedOn
  <2>3. ASSUME NEW k \in Keys, NEW t \in 0..MaxTime, k = http[q].key
        PROVE  Paced(k, t)'
    BY <1>3, <1>7, <2>3, PacedByOne
  <2>. QED
    BY <1>1, <2>1, <2>2, <2>3 DEF RateInv
<1>8. CASE UNCHANGED buckets /\ \A q \in Requests : Leaves(q)
  BY <1>4, <1>5, <1>8 DEF buckets
<1>9. ASSUME NEW q \in Requests, Move(BucketOf(q), RateOf(http[q].key)), clock' = clock,
             \A p \in Requests : Leaves(p)
      PROVE  RateInv'
  <2>1. http[q].key \in Keys /\ IntervalOf(http[q].key) \in Nat
    BY Rates, LimiterAssumption DEF RateInv, TypeOK, Http
  <2>2. \A b \in {PrefixOf(k) : k \in Keys} : tat'[b] >= tat[b]
    BY <1>2, <1>4, <1>9, <2>1 DEF Move, BucketOf, NewTat, IntervalOf, Later, RateInv, TypeOK
  <2>. QED
    BY <1>5, <1>9, <2>2
<1>. QED
  BY <1>6, <1>7, <1>8, <1>9, Decision DEF RateInv

\* Whoever shares its bucket, a key gets less than twice its rate past the limiter in any minute.
THEOREM RateIsHeld == Spec => []RateHeld
<1>1. Init => RateInv
  <2>. SUFFICES ASSUME Init PROVE RateInv
    OBVIOUS
  <2>1. \A q \in Requests : http[q].limited = None
    BY DEF Init
  <2>2. ASSUME NEW k \in Keys, NEW t \in 0..MaxTime
        PROVE  Paced(k, t)
    <3>1. PassedSince(k, t) = {} /\ PassedWithin(k, t) = {}
      BY <2>1 DEF PassedSince, PassedWithin, None
    <3>. QED
      BY <3>1, FS_EmptySet, Rates, LimiterAssumption DEF Paced
  <2>. QED
    BY <2>1, <2>2, TypeInit DEF RateInv, Undecided, None
<1>2. RateInv => RateHeld
  <2>. SUFFICES ASSUME RateInv, NEW k \in Keys, NEW t \in 0..MaxTime
                PROVE  Cardinality(PassedWithin(k, t)) < 2 * RateOf(k)
    BY DEF RateHeld, PassedWithin, RateOf
  <2>. DEFINE c == Cardinality(PassedWithin(k, t))
  <2>1. c \in Nat
    <3>1. PassedWithin(k, t) \subseteq PassedSince(k, t)
      BY GatewayAssumption, LimiterAssumption DEF PassedWithin, PassedSince
    <3>2. IsFiniteSet(PassedSince(k, t))
      BY DEF RateInv, Paced
    <3>. QED
      BY <3>1, <3>2, FS_Subset, FS_CardinalityType
  <2>2. c * IntervalOf(k) <= 2 * Period - 1
    BY DEF RateInv, Paced
  <2>. HIDE DEF c
  <2>3. \A i \in Nat \ {0}, r, n \in Nat : n * i <= 2 * (r * i) - 1 => n < 2 * r
    <3>1. \A i, r, n \in Nat : n >= 2 * r => n * i >= (2 * r) * i
      OBVIOUS
    <3>. QED
      BY <3>1
  <2>. QED
    BY <2>1, <2>2, <2>3, Rates, LimiterAssumption DEF c
<1>. QED
  BY <1>1, <1>2, RateStep, PTL DEF Spec

-------------------------------------------------------------------------------
(***************************************************************************)
(* Retry-After.  After a refusal either the bucket has been moved since, or *)
(* its arrival time stands where the wait that was told ends, short by     *)
(* less than a second.                                                     *)
(***************************************************************************)

WaitEnds(q) == http[q].at + (http[q].wait + 1) * TicksPerSecond - 1

Told(q) ==
    http[q].limited = "refused" =>
        \/ q \in moved
        \/ tat[BucketOf(q)] + IntervalOf(http[q].key) <= WaitEnds(q) + Period

WaitInv == TypeOK /\ Undecided /\ \A q \in Requests : Told(q)

\* A refusal stays, with what was told.
LEMMA ToldStays ==
    ASSUME NEW p \in Requests, Leaves(p), http'[p].key = http[p].key, Told(p),
           moved \subseteq moved',
           http[p].limited = "refused" => p \in moved' \/ tat'[BucketOf(p)] = tat[BucketOf(p)]
    PROVE  Told(p)'
BY DEF Told, Leaves, WaitEnds, BucketOf, None

LEMMA ToldOfMoved ==
    ASSUME TypeOK, NEW q \in Requests, Move(BucketOf(q), RateOf(http[q].key)), NEW p \in Requests
    PROVE  /\ moved \subseteq moved'
           /\ http[p].limited = "refused" => p \in moved' \/ tat'[BucketOf(p)] = tat[BucketOf(p)]
BY DEF Move, BucketOf, TypeOK, Http

LEMMA WaitStep == WaitInv /\ [Next]_vars => WaitInv'
<1>. SUFFICES ASSUME WaitInv, [Next]_vars PROVE WaitInv'
  OBVIOUS
<1>1. TypeOK' /\ Undecided'
  BY TypeStep, Decision DEF WaitInv
<1>2. \A q \in Requests : http'[q].key = http[q].key /\ Told(q)
  BY Decision DEF WaitInv
<1>3. CASE UNCHANGED buckets /\ \A q \in Requests : Leaves(q)
  BY <1>1, <1>2, <1>3, ToldStays DEF WaitInv, buckets
<1>4. ASSUME NEW q \in Requests, Move(BucketOf(q), RateOf(http[q].key)),
             \A p \in Requests : Leaves(p)
      PROVE  WaitInv'
  BY <1>1, <1>2, <1>4, ToldOfMoved, ToldStays DEF WaitInv
<1>5. ASSUME NEW q \in Requests, Passes(q), \A p \in Requests \ {q} : Leaves(p)
      PROVE  WaitInv'
  <2>1. ASSUME NEW p \in Requests \ {q}
        PROVE  Told(p)'
    BY <1>2, <1>5, <2>1, ToldOfMoved, ToldStays DEF WaitInv, Passes
  <2>2. Told(q)'
    BY <1>5 DEF Passes, Told
  <2>. QED
    BY <1>1, <2>1, <2>2 DEF WaitInv
<1>6. ASSUME NEW q \in Requests, Refuses(q), \A p \in Requests \ {q} : Leaves(p)
      PROVE  WaitInv'
  <2>1. ASSUME NEW p \in Requests \ {q}
        PROVE  Told(p)'
    BY <1>2, <1>6, <2>1, ToldStays DEF Refuses, buckets
  <2>2. Told(q)'
    <3>1. /\ http[q].key \in Keys
          /\ tat[BucketOf(q)] \in Nat /\ clock \in Nat
      BY GatewayAssumption DEF WaitInv, TypeOK, Http, BucketOf
    <3>2. tat[BucketOf(q)] + IntervalOf(http[q].key)
            <= clock + Period
                 + (RetryAfterSeconds(tat[BucketOf(q)], clock, RateOf(http[q].key)) + 1) * TicksPerSecond - 1
      BY <1>6, <3>1, Refusal DEF Refuses
    <3>3. tat[BucketOf(q)] + IntervalOf(http[q].key)
            <= clock + Period + (http'[q].wait + 1) * TicksPerSecond - 1
      BY <1>6, <3>2 DEF Refuses
    <3>4. http'[q].wait \in Nat /\ (http'[q].wait + 1) * TicksPerSecond \in Nat
      BY <1>1, LimiterAssumption DEF TypeOK, Http
    <3>5. http'[q].at = clock /\ tat' = tat /\ BucketOf(q)' = BucketOf(q)
          /\ IntervalOf(http'[q].key) = IntervalOf(http[q].key)
      BY <1>2, <1>6 DEF Refuses, buckets, BucketOf
    <3>6. IntervalOf(http[q].key) \in Nat
      BY <3>1, Rates, LimiterAssumption
    <3>. QED
      BY <3>1, <3>3, <3>4, <3>5, <3>6, LimiterAssumption DEF Told, WaitEnds
  <2>. QED
    BY <1>1, <2>1, <2>2 DEF WaitInv
<1>. QED
  BY <1>3, <1>4, <1>5, <1>6, Decision DEF WaitInv

\* A request refused now finds its bucket full, so the wait of an earlier refusal is not over or
\* the bucket was moved since.
LEMMA WaitHolds == WaitInv /\ [Next]_vars => WaitSuffices
<1>. SUFFICES ASSUME WaitInv, [Next]_vars,
                     NEW q \in Requests, http[q].limited = None, http'[q].limited = "refused",
                     NEW p \in Requests, http[p].limited = "refused", http[p].key = http[q].key,
                     clock >= WaitEnds(p)
              PROVE  p \in moved
  BY DEF WaitSuffices, WaitEnds
<1>1. Refuses(q)
  BY Decision DEF WaitInv, Leaves, Passes, None
<1>2. /\ http[q].key \in Keys /\ BucketOf(p) = BucketOf(q)
      /\ tat[BucketOf(q)] \in Nat /\ clock \in Nat
      /\ http[p].at \in Nat /\ http[p].wait \in Nat
  BY GatewayAssumption DEF WaitInv, TypeOK, Http, BucketOf
<1>3. tat[BucketOf(q)] + IntervalOf(http[q].key) > clock + Period
  BY <1>1, <1>2, Refusal DEF Refuses
<1>4. (http[p].wait + 1) * TicksPerSecond \in Nat /\ IntervalOf(http[q].key) \in Nat
  BY <1>2, Rates, LimiterAssumption
<1>5. p \in moved \/ tat[BucketOf(p)] + IntervalOf(http[p].key) <= WaitEnds(p) + Period
  BY DEF WaitInv, Told
<1>. QED
  BY <1>2, <1>3, <1>4, <1>5, LimiterAssumption DEF WaitEnds

\* Who waits a tick less than a second longer than told is refused again only if its bucket
\* was moved since, by a request that passed or by the script in a run whose answer was lost.
THEOREM RetryAfterIsEnough == Spec => RetryAfterSuffices
<1>1. Init => WaitInv
  BY TypeInit DEF Init, WaitInv, Undecided, Told, None
<1>2. WaitInv /\ [Next]_vars => WaitInv' /\ [WaitSuffices]_vars
  BY WaitStep, WaitHolds
<1>. QED
  BY <1>1, <1>2, PTL DEF Spec, RetryAfterSuffices
===============================================================================
