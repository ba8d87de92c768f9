------------------------------ MODULE QueryProofs -------------------------------
(***************************************************************************)
(* The query routes for any queries, certificates, parties and registered  *)
(* events: answers are true, the key behind a DPS is for the parties, and  *)
(* what passes is not told as final.                                       *)
(***************************************************************************)
EXTENDS QueryHandlers, TLAPS

QuerySpec == QueryInit /\ [][QueryNext]_queryVars

-------------------------------------------------------------------------------
\* What the reply to a query says is what the registry r says of it.
Says(query, reply, r) ==
    /\ reply.status \in {200, 403, 404, 500, 503}
    /\ reply.status = 200 =>
          /\ r # {} /\ query.id = "right"
          /\ query.op = "exists" \/ reply.body = "whole" => reply.found = CHOOSE n \in r : TRUE
          /\ query.op = "lookup" => query.holder \cap Actors # {}
    /\ reply.status = 404 => query.id # "right" \/ r = {}
    /\ reply.status = 403 =>
          r # {} /\ query.id = "right" /\ query.op = "lookup" /\ query.holder \cap Actors = {}

\* The same of what the client makes of it.
Found(result) == "found" \in DOMAIN result

ResultSays(query, result, r) ==
    \/ /\ Found(result) /\ "failure" \notin DOMAIN result
       /\ r # {} /\ query.id = "right"
       /\ result.found = CHOOSE n \in r : TRUE
       /\ query.op = "lookup" => query.holder \cap Actors # {}
    \/ /\ ~Found(result)
       /\ result.failure \in {"notFound", "forbidden", "unavailable", "timeout", "error", "deadline"}
       /\ result.failure = "notFound" => query.id # "right" \/ r = {}
       /\ result.failure = "forbidden" =>
            r # {} /\ query.id = "right" /\ query.op = "lookup" /\ query.holder \cap Actors = {}

\* A query that is being asked and its call belong together; the call is made in the name of
\* the query's own certificate, and is answered from a registry the query witnessed.
Asking(q) ==
    /\ queries[q] = [step |-> "asking", op |-> queries[q].op, id |-> queries[q].id,
                     tipo |-> queries[q].tipo, holder |-> queries[q].holder,
                     witnessed |-> queries[q].witnessed]
    /\ queries[q].op \in Ops /\ queries[q].id \in Ids
    /\ \E h : queries[q].holder \subseteq {h}
    /\ registry \in queries[q].witnessed
    /\ \/ calls[q] = [phase |-> "sent", op |-> queries[q].op, id |-> queries[q].id,
                      holder |-> queries[q].holder]
       \/ /\ calls[q] = [phase |-> "answered", op |-> queries[q].op, id |-> queries[q].id,
                         holder |-> queries[q].holder, reply |-> calls[q].reply]
          /\ \E r \in queries[q].witnessed : Says(queries[q], calls[q].reply, r)
       \/ /\ calls[q].phase = "returned"
          /\ \E r \in queries[q].witnessed : ResultSays(queries[q], calls[q].result, r)

\* A query that was answered was refused without a call, or told what its call returned.
Answered(q) ==
    \/ /\ calls[q].phase = "idle" /\ queries[q].answer = 400
    \/ /\ calls[q].phase = "returned"
       /\ queries[q].op \in Ops /\ queries[q].id \in Ids
       /\ \E h : queries[q].holder \subseteq {h}
       /\ \E r \in queries[q].witnessed : ResultSays(queries[q], calls[q].result, r)
       /\ queries[q].answer = IF Found(calls[q].result) THEN 200
                              ELSE FailureStatus(queries[q].op, calls[q].result.failure)
       /\ Found(calls[q].result) =>
            queries[q].shown = Shown(queries[q].op, queries[q].tipo, calls[q].result.found)

QueryInv(q) ==
    \/ queries[q].step = "new" /\ calls[q].phase = "idle"
    \/ Asking(q)
    \/ queries[q].step = "answered" /\ Answered(q)

\* A connection that is kept open was a query's that has been asked: no query finds one of
\* another's.
IdleInv == \A c \in idle : \A q \in Queries : c.transport = q => queries[q].step # "new"

Inv ==
    /\ DOMAIN calls = Queries /\ calls = [q \in Queries |-> calls[q]]
    /\ DOMAIN queries = Queries /\ queries = [q \in Queries |-> queries[q]]
    /\ \A q \in Queries : QueryInv(q)
    /\ IdleInv

-------------------------------------------------------------------------------
LEMMA QueryInvInit == QueryInit => Inv
BY DEF QueryInit, ClientInit, NoQuery, NoCall, Inv, QueryInv, IdleInv

\* What the client makes of a reply, and of a call that fails on the way, says as much.
LEMMA ResultIsTrue ==
    ASSUME NEW query, query.op \in Ops, NEW reply, NEW r, Says(query, reply, r)
    PROVE  ResultSays(query, ResultOf(query.op, reply), r)
<1>1. CASE reply.status = 200 /\ (query.op = "exists" \/ reply.body = "whole")
  BY <1>1 DEF Says, ResultSays, ResultOf, Found
<1>2. CASE reply.status = 404
  BY <1>2 DEF Says, ResultSays, ResultOf, Found
<1>3. CASE reply.status = 403
  BY <1>3 DEF Says, ResultSays, ResultOf, Found
<1>4. CASE reply.status \notin {403, 404} /\ ~(reply.status = 200 /\ (query.op = "exists" \/ reply.body = "whole"))
  <2>1. ResultOf(query.op, reply) \in {[failure |-> "unavailable"], [failure |-> "error"]}
    BY <1>4 DEF Says, ResultOf
  <2>. QED
    BY <2>1 DEF ResultSays, Found
<1>. QED
  BY <1>1, <1>2, <1>3, <1>4

\* The government's reply to a call is what the registry says at that moment.
LEMMA ReplyIsTrue ==
    ASSUME NEW q \in Queries, Asking(q), calls[q].phase = "sent",
           NEW reply \in {Reply(calls[q]), [status |-> 500], [status |-> 503]}
    PROVE  Says(queries[q], reply, registry)
<1>1. /\ calls[q].op = queries[q].op /\ calls[q].id = queries[q].id
      /\ calls[q].holder = queries[q].holder
  BY DEF Asking
<1>2. CASE reply \in {[status |-> 500], [status |-> 503]}
  BY <1>2 DEF Says
<1>3. CASE reply = Reply(calls[q])
  BY <1>1, <1>3 DEF Reply, Says
<1>. QED
  BY <1>2, <1>3

LEMMA Untouched ==
    ASSUME NEW p \in Queries, QueryInv(p), registry' = registry, calls'[p] = calls[p],
           queries'[p] = queries[p]
    PROVE  QueryInv(p)'
<1>1. CASE queries[p].step = "new" /\ calls[p].phase = "idle"
  BY <1>1 DEF QueryInv
<1>2. CASE Asking(p)
  <2>1. Asking(p)'
    BY <1>2 DEF Asking
  <2>. QED
    BY <2>1 DEF QueryInv
<1>3. CASE queries[p].step = "answered" /\ Answered(p)
  <2>1. Answered(p)'
    BY <1>3 DEF Answered
  <2>. QED
    BY <1>3, <2>1 DEF QueryInv
<1>. QED
  BY <1>1, <1>2, <1>3 DEF QueryInv

\* The handler's step: a query is refused, or goes out on a connection of its own.
LEMMA ReceiveKeeps ==
    ASSUME Inv, NEW q \in Queries, Receive(q)
    PROVE  Inv'
<1>1. queries[q].step = "new" /\ registry' = registry
  BY DEF Receive
<1>2. QueryInv(q) /\ calls[q].phase = "idle"
  BY <1>1 DEF Inv, QueryInv, Asking
<1>3. PICK r \in QueryRequests[q] :
          LET holder == IF NeedsCertificate(r.op) THEN {r.cert.holder} ELSE {}
          IN IF ValidId(r.form) /\ (NeedsCertificate(r.op) => UsableCertificate(r.cert))
             THEN /\ queries' = [queries EXCEPT ![q] =
                         [step |-> "asking", op |-> r.op, id |-> r.id, tipo |-> r.tipo,
                          holder |-> holder, witnessed |-> {registry}]]
                  /\ Connect(q, r.op, r.id, holder)
             ELSE /\ queries' = [queries EXCEPT ![q] = [step |-> "answered", op |-> r.op, answer |-> 400]]
                  /\ UNCHANGED <<idle, calls>>
  BY DEF Receive
<1>4. r.op \in Ops /\ r.id \in Ids
  BY QueryRequestsAssumption DEF QueryRequest
<1>. DEFINE holder == IF NeedsCertificate(r.op) THEN {r.cert.holder} ELSE {}
<1>5. \E h : holder \subseteq {h}
  OBVIOUS
<1>. HIDE DEF holder
<1>6. CASE /\ queries' = [queries EXCEPT ![q] =
                   [step |-> "asking", op |-> r.op, id |-> r.id, tipo |-> r.tipo,
                    holder |-> holder, witnessed |-> {registry}]]
           /\ Connect(q, r.op, r.id, holder)
  <2>1. {c \in idle : c.transport = TransportOf(q)} = {}
    BY <1>1 DEF Inv, IdleInv, TransportOf
  <2>2. /\ calls' = [calls EXCEPT ![q] = [phase |-> "sent", op |-> r.op, id |-> r.id,
                                          holder |-> holder]]
        /\ idle' = idle
    BY <1>6, <2>1 DEF Connect
  <2>3. Asking(q)'
    BY <1>1, <1>4, <1>5, <1>6, <2>2 DEF Inv, Asking
  <2>4. ASSUME NEW p \in Queries \ {q}
        PROVE  QueryInv(p)'
    BY <1>1, <1>6, <2>2, Untouched DEF Inv
  <2>. QED
    BY <1>6, <2>2, <2>3, <2>4 DEF Inv, QueryInv, IdleInv
<1>7. CASE /\ queries' = [queries EXCEPT ![q] = [step |-> "answered", op |-> r.op, answer |-> 400]]
           /\ UNCHANGED <<idle, calls>>
  <2>1. queries'[q].step = "answered" /\ Answered(q)'
    BY <1>2, <1>7 DEF Inv, Answered
  <2>2. ASSUME NEW p \in Queries \ {q}
        PROVE  QueryInv(p)'
    BY <1>1, <1>7, Untouched DEF Inv
  <2>. QED
    BY <1>7, <2>1, <2>2 DEF Inv, QueryInv, IdleInv
<1>. QED
  BY <1>3, <1>6, <1>7 DEF holder

LEMMA RespondKeeps ==
    ASSUME Inv, NEW q \in Queries, Respond(q)
    PROVE  Inv'
<1>1. /\ queries[q].step = "asking" /\ calls[q].phase = "returned"
      /\ UNCHANGED <<registry, idle, calls>>
  BY DEF Respond, clientVars
<1>2. Asking(q)
  BY <1>1 DEF Inv, QueryInv
<1>. DEFINE found == Found(calls[q].result)
            answer == IF found THEN 200 ELSE FailureStatus(queries[q].op, calls[q].result.failure)
            shown == IF found THEN Shown(queries[q].op, queries[q].tipo, calls[q].result.found)
                     ELSE "nothing"
<1>3. queries' = [queries EXCEPT ![q] =
         [step |-> "answered", op |-> queries[q].op, id |-> queries[q].id,
          tipo |-> queries[q].tipo, holder |-> queries[q].holder,
          witnessed |-> queries[q].witnessed, answer |-> answer, shown |-> shown]]
  BY DEF Respond, Found
<1>4. /\ queries'[q].step = "answered" /\ queries'[q].op = queries[q].op
      /\ queries'[q].id = queries[q].id /\ queries'[q].tipo = queries[q].tipo
      /\ queries'[q].holder = queries[q].holder
      /\ queries'[q].witnessed = queries[q].witnessed
      /\ queries'[q].answer = answer /\ queries'[q].shown = shown
  <2>. HIDE DEF answer, shown
  <2>. QED
    BY <1>3 DEF Inv
<1>5. PICK r \in queries[q].witnessed : ResultSays(queries[q], calls[q].result, r)
  BY <1>1, <1>2 DEF Asking
<1>6. ResultSays(queries'[q], calls[q].result, r)
  BY <1>4, <1>5 DEF ResultSays
<1>7. Answered(q)'
  BY <1>1, <1>2, <1>4, <1>5, <1>6 DEF Answered, Asking
<1>8. ASSUME NEW p \in Queries \ {q}
      PROVE  QueryInv(p)'
  BY <1>1, <1>3, Untouched DEF Inv
<1>. HIDE DEF answer, shown
<1>. QED
  BY <1>1, <1>3, <1>4, <1>7, <1>8 DEF Inv, QueryInv, IdleInv

\* A call that returns with something true leaves its connection, if at all, as its query's.
LEMMA ReturnKeeps ==
    ASSUME Inv, NEW q \in Queries, Asking(q), NEW result, NEW kept \in BOOLEAN,
           Return(q, result, kept), UNCHANGED queries,
           \E r \in queries[q].witnessed : ResultSays(queries[q], result, r)
    PROVE  Inv'
<1>1. /\ calls' = [calls EXCEPT ![q] = [phase |-> "returned", result |-> result]]
      /\ registry' = registry /\ queries' = queries
      /\ \A c \in idle' : c \in idle \/ c.transport = q
  BY DEF Return, TransportOf
<1>2. queries[q].step = "asking"
  BY DEF Asking
<1>3. Asking(q)'
  BY <1>1 DEF Inv, Asking
<1>4. ASSUME NEW p \in Queries \ {q}
      PROVE  QueryInv(p)'
  BY <1>1, Untouched DEF Inv
<1>5. IdleInv'
  BY <1>1, <1>2 DEF Inv, IdleInv
<1>. QED
  BY <1>1, <1>3, <1>4, <1>5 DEF Inv, QueryInv

LEMMA CallKeeps ==
    ASSUME Inv, NEW q \in Queries, CallStep(q), UNCHANGED queries
    PROVE  Inv'
<1>1. calls[q].phase \in {"sent", "answered"}
  BY DEF CallStep, GovernmentAnswers, ProxyAnswers, DoFails, DoTimesOut, BodyBreaks, BodyTimesOut,
         ReadAnswer
<1>2. Asking(q)
  BY <1>1 DEF Inv, QueryInv, Answered
<1>3. registry \in queries[q].witnessed /\ queries[q].op \in Ops
  BY <1>2 DEF Asking
<1>4. CASE GovernmentAnswers(q)
  <2>1. PICK reply \in {Reply(calls[q]), [status |-> 500], [status |-> 503]} :
            calls' = [calls EXCEPT ![q] = [phase |-> "answered", op |-> @.op, id |-> @.id,
                                           holder |-> @.holder, reply |-> reply]]
    BY <1>4 DEF GovernmentAnswers
  <2>2. calls[q].phase = "sent" /\ registry' = registry /\ idle' = idle
    BY <1>4 DEF GovernmentAnswers
  <2>3. Says(queries[q], reply, registry)
    BY <1>2, <2>2, ReplyIsTrue
  <2>4. calls[q].op = queries[q].op /\ calls[q].id = queries[q].id /\ calls[q].holder = queries[q].holder
    BY <1>2, <2>2 DEF Asking
  <2>. HIDE DEF Reply
  <2>5. calls'[q] = [phase |-> "answered", op |-> queries[q].op, id |-> queries[q].id,
                     holder |-> queries[q].holder, reply |-> reply]
    BY <2>1, <2>4 DEF Inv
  <2>6. Asking(q)'
    BY <1>2, <1>3, <2>2, <2>3, <2>5 DEF Asking
  <2>7. ASSUME NEW p \in Queries \ {q}
        PROVE  QueryInv(p)'
    BY <2>1, <2>2, Untouched DEF Inv
  <2>. QED
    BY <2>1, <2>2, <2>6, <2>7 DEF Inv, QueryInv, IdleInv
<1>5. CASE ProxyAnswers(q)
  <2>1. /\ calls' = [calls EXCEPT ![q].reply = [status |-> 200, body |-> "garbled"]]
        /\ calls[q].phase = "answered" /\ calls[q].reply.status = 200 /\ calls[q].op # "exists"
        /\ registry' = registry /\ idle' = idle
    BY <1>5 DEF ProxyAnswers
  <2>2. /\ calls[q] = [phase |-> "answered", op |-> queries[q].op, id |-> queries[q].id,
                       holder |-> queries[q].holder, reply |-> calls[q].reply]
        /\ \E r \in queries[q].witnessed : Says(queries[q], calls[q].reply, r)
    BY <1>2, <2>1 DEF Asking
  <2>3. calls'[q] = [phase |-> "answered", op |-> queries[q].op, id |-> queries[q].id,
                     holder |-> queries[q].holder, reply |-> [status |-> 200, body |-> "garbled"]]
    BY <2>1, <2>2 DEF Inv
  <2>4. queries[q].op # "exists"
    BY <2>1, <2>2
  <2>5. \E r \in queries[q].witnessed : Says(queries[q], [status |-> 200, body |-> "garbled"], r)
    BY <2>1, <2>2, <2>4 DEF Says
  <2>6. Asking(q)'
    BY <1>2, <2>1, <2>3, <2>5 DEF Asking
  <2>7. ASSUME NEW p \in Queries \ {q}
        PROVE  QueryInv(p)'
    BY <2>1, Untouched DEF Inv
  <2>. QED
    BY <2>1, <2>6, <2>7 DEF Inv, QueryInv, IdleInv
<1>6. CASE DoFails(q) \/ DoTimesOut(q) \/ BodyBreaks(q) \/ BodyTimesOut(q)
  <2>1. PICK failure \in {"error", "timeout", "deadline"} : Return(q, [failure |-> failure], FALSE)
    BY <1>6 DEF DoFails, DoTimesOut, BodyBreaks, BodyTimesOut
  <2>2. ResultSays(queries[q], [failure |-> failure], registry)
    BY DEF ResultSays, Found
  <2>. QED
    BY <1>2, <1>3, <2>1, <2>2, ReturnKeeps
<1>7. CASE ReadAnswer(q)
  <2>1. /\ calls[q].phase = "answered"
        /\ Return(q, ResultOf(calls[q].op, calls[q].reply), TRUE)
    BY <1>7 DEF ReadAnswer
  <2>2. /\ calls[q].op = queries[q].op
        /\ \E r \in queries[q].witnessed : Says(queries[q], calls[q].reply, r)
    BY <1>2, <2>1 DEF Asking
  <2>3. \E r \in queries[q].witnessed :
            ResultSays(queries[q], ResultOf(calls[q].op, calls[q].reply), r)
    BY <1>3, <2>2, ResultIsTrue
  <2>. QED
    BY <1>2, <2>1, <2>3, ReturnKeeps
<1>. QED
  BY <1>4, <1>5, <1>6, <1>7 DEF CallStep

\* What the registry becomes is witnessed by all who are asking.
LEMMA GovernmentKeeps ==
    ASSUME Inv, GovernmentStep, Witnessing
    PROVE  Inv'
<1>1. idle' = idle /\ calls' = calls
  BY DEF GovernmentStep, Issue, RegisterEvent
<1>2. ASSUME NEW p \in Queries
      PROVE  QueryInv(p)'
  <2>1. queries'[p] = IF queries[p].step = "asking"
                      THEN [queries[p] EXCEPT !.witnessed = @ \cup {registry'}]
                      ELSE queries[p]
    BY DEF Witnessing
  <2>2. CASE Asking(p)
    <3>1. queries'[p] = [step |-> "asking", op |-> queries[p].op, id |-> queries[p].id,
                         tipo |-> queries[p].tipo, holder |-> queries[p].holder,
                         witnessed |-> queries[p].witnessed \cup {registry'}]
      BY SMTT(30), <2>1, <2>2 DEF Asking
    <3>2. \A reply, r : Says(queries[p], reply, r) => Says(queries'[p], reply, r)
      BY <3>1 DEF Says
    <3>3. \A result, r : ResultSays(queries[p], result, r) => ResultSays(queries'[p], result, r)
      BY <3>1 DEF ResultSays
    <3>4. /\ queries'[p].op = queries[p].op /\ queries'[p].id = queries[p].id
          /\ queries'[p].holder = queries[p].holder
          /\ queries'[p].witnessed = queries[p].witnessed \cup {registry'}
      BY <3>1
    <3>. QED
      BY SMTT(30), <1>1, <2>2, <3>1, <3>2, <3>3, <3>4 DEF Asking, QueryInv
  <2>3. CASE queries[p].step # "asking"
    BY <1>1, <2>1, <2>3 DEF Inv, QueryInv, Asking, Answered
  <2>. QED
    BY <2>2, <2>3 DEF Inv, QueryInv
<1>3. /\ DOMAIN queries' = Queries /\ queries' = [q \in Queries |-> queries'[q]]
      /\ \A q \in Queries : queries'[q].step = "new" => queries[q].step = "new"
  BY DEF Witnessing, Inv, QueryInv, Asking
<1>. QED
  BY <1>1, <1>2, <1>3 DEF Inv, IdleInv

LEMMA QueryInvStep == Inv /\ [QueryNext]_queryVars => Inv'
<1>. SUFFICES ASSUME Inv, [QueryNext]_queryVars PROVE Inv'
  OBVIOUS
<1>1. ASSUME NEW c \in idle, CloseIdle(c), UNCHANGED queries
      PROVE  Inv'
  <2>1. /\ registry' = registry /\ calls' = calls /\ queries' = queries
        /\ \A d \in idle' : d \in idle
    BY <1>1 DEF CloseIdle
  <2>2. ASSUME NEW p \in Queries
        PROVE  QueryInv(p)'
    BY <2>1, Untouched DEF Inv
  <2>. QED
    BY <2>1, <2>2 DEF Inv, IdleInv
<1>2. CASE UNCHANGED queryVars
  <2>1. registry' = registry /\ calls' = calls /\ queries' = queries /\ idle' = idle
    BY <1>2 DEF queryVars
  <2>2. ASSUME NEW p \in Queries
        PROVE  QueryInv(p)'
    BY <2>1, Untouched DEF Inv
  <2>. QED
    BY <2>1, <2>2 DEF Inv, IdleInv
<1>. QED
  BY <1>1, <1>2, ReceiveKeeps, RespondKeeps, CallKeeps, GovernmentKeeps DEF QueryNext

\* What is known of a query that was answered.
LEMMA AnsweredQuery ==
    ASSUME Inv, NEW q \in Queries, queries[q].step = "answered"
    PROVE  Answered(q)
BY DEF Inv, QueryInv, Asking

\* The statuses of failures that pass.
LEMMA FailureStatuses ==
    ASSUME NEW op \in Ops, NEW failure
    PROVE  /\ failure \in {"unavailable", "timeout", "error", "deadline"} =>
                FailureStatus(op, failure) \in {500, 503, 504}
           /\ failure = "notFound" => FailureStatus(op, failure) = 404
           /\ failure = "forbidden" =>
                FailureStatus(op, failure) = IF op = "lookup" THEN 403 ELSE 404
BY DEF FailureStatus, NeedsCertificate

\* Every answer with data, or saying that there is none, is what the registry said at one
\* moment between the request and the answer.
THEOREM AnswersAreTrue == QuerySpec => []AnswerWasTrue
<1>1. Inv => AnswerWasTrue
  <2>. SUFFICES ASSUME Inv, NEW q \in Queries,
                       queries[q].step = "answered", queries[q].answer \in {200, 403, 404},
                       queries[q].id # "padded"
                PROVE  \E r \in queries[q].witnessed : Said(queries[q]) = Truth(queries[q], r)
    BY DEF AnswerWasTrue
  <2>. DEFINE query == queries[q]
              result == calls[q].result
  <2>1. Answered(q) /\ query.op \in Ops /\ query.id \in {"right", "other"}
    BY AnsweredQuery DEF Answered, Ids
  <2>2. PICK r \in query.witnessed : ResultSays(query, result, r)
    BY <2>1 DEF Answered
  <2>3. query.answer = IF Found(result) THEN 200 ELSE FailureStatus(query.op, result.failure)
    BY <2>1 DEF Answered
  <2>4. CASE Found(result)
    <3>1. query.answer = 200 /\ query.shown = Shown(query.op, query.tipo, CHOOSE n \in r : TRUE)
      <4>1. result.found = CHOOSE n \in r : TRUE
        BY <2>2, <2>4 DEF ResultSays
      <4>2. query.shown = Shown(query.op, query.tipo, result.found)
        BY <2>1, <2>4 DEF Answered
      <4>. QED
        BY <2>3, <2>4, <4>1, <4>2
    <3>2. /\ r # {} /\ query.id = "right"
          /\ query.op = "lookup" => query.holder \cap Actors # {}
      BY <2>2, <2>4 DEF ResultSays
    <3>. QED
      <4>1. Said(query) = [answer |-> 200,
                           shown |-> Shown(query.op, query.tipo, CHOOSE n \in r : TRUE)]
        BY <3>1 DEF Said
      <4>2. Truth(query, r) = [answer |-> 200,
                               shown |-> Shown(query.op, query.tipo, CHOOSE n \in r : TRUE)]
        <5>1. ~(query.id = "other" \/ r = {})
          BY <3>2
        <5>2. ~(query.op = "lookup" /\ query.holder \cap Actors = {})
          BY <3>2
        <5>. HIDE DEF query
        <5>. QED
          BY <5>1, <5>2, Zenon DEF Truth
      <4>3. Said(query) = Truth(query, r)
        <5>. HIDE DEF query
        <5>. QED
          BY <4>1, <4>2, Zenon
      <4>4. r \in query.witnessed
        OBVIOUS
      <4>. HIDE DEF result
      <4>. QED
        BY <4>3, <4>4, Zenon
  <2>5. CASE ~Found(result)
    <3>1. result.failure \in {"notFound", "forbidden"}
      <4>1. query.answer = FailureStatus(query.op, result.failure)
        BY <2>3, <2>5
      <4>2. result.failure \in {"notFound", "forbidden", "unavailable", "timeout", "error", "deadline"}
        BY <2>2, <2>5 DEF ResultSays
      <4>. QED
        BY <2>1, <4>1, <4>2, FailureStatuses
    <3>2. CASE result.failure = "notFound"
      BY <2>1, <2>2, <2>3, <2>5, <3>2, FailureStatuses DEF ResultSays, Said, Truth
    <3>3. CASE result.failure = "forbidden"
      BY <2>1, <2>2, <2>3, <2>5, <3>3, FailureStatuses DEF ResultSays, Said, Truth
    <3>. QED
      BY <3>1, <3>2, <3>3
  <2>. QED
    BY <2>4, <2>5
<1>. QED
  BY QueryInvInit, QueryInvStep, <1>1, PTL DEF QuerySpec

\* Only a party's certificate brings out the key behind a DPS.
THEOREM KeyForActors == QuerySpec => []ActorsOnly
<1>1. Inv => ActorsOnly
  <2>. SUFFICES ASSUME Inv, NEW q \in Queries, queries[q].step = "answered",
                       queries[q].answer = 200, queries[q].op = "lookup"
                PROVE  queries[q].holder \subseteq Actors
    BY DEF ActorsOnly
  <2>1. Answered(q)
    BY AnsweredQuery
  <2>2. PICK r \in queries[q].witnessed : ResultSays(queries[q], calls[q].result, r)
    BY <2>1 DEF Answered
  <2>3. Found(calls[q].result)
    BY <2>1, <2>2, FailureStatuses DEF Answered, ResultSays
  <2>. QED
    BY <2>1, <2>2, <2>3 DEF Answered, ResultSays
<1>. QED
  BY QueryInvInit, QueryInvStep, <1>1, PTL DEF QuerySpec

\* A failure that passes is told as the service's, never as the client's.
THEOREM PassingFailures == QuerySpec => []TransientNotFinal
<1>1. Inv => TransientNotFinal
  <2>. SUFFICES ASSUME Inv, NEW q \in Queries,
                       queries[q].step = "answered", calls[q].phase = "returned",
                       "failure" \in DOMAIN calls[q].result,
                       calls[q].result.failure \notin {"notFound", "forbidden"}
                PROVE  queries[q].answer \in {500, 503, 504}
    BY DEF TransientNotFinal
  <2>1. Answered(q)
    BY AnsweredQuery
  <2>. QED
    BY <2>1, FailureStatuses DEF Answered, ResultSays
<1>. QED
  BY QueryInvInit, QueryInvStep, <1>1, PTL DEF QuerySpec
=============================================================================
