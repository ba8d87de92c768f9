----------------------------- MODULE QueryHandlers -----------------------------
(***************************************************************************)
(* QueryHandler and DPSHandler: GET /v1/nfse/:chaveAcesso, .../eventos,    *)
(* GET and HEAD /v1/dps/:id.  Each checks the identifier and, for a DPS,   *)
(* the certificate, asks the SEFIN client once, and makes an HTTP answer   *)
(* of what it returns.                                                     *)
(***************************************************************************)
EXTENDS SefinQueries

CONSTANT QueryRequests      \* the requests that may come as each query

VARIABLE queries

queryVars == <<registry, idle, calls, queries>>

\* As many characters as it must have (white space around them is trimmed) or not, all of
\* the right kind or not, with the right beginning (the prefix NFSe, a registration type
\* with the padding it needs) or not.
IdForms == [length : BOOLEAN, characters : BOOLEAN, beginning : BOOLEAN]

\* The PFX and the password that come with a request.
Certificates ==
    [file : {"missing", "unreadable", "tooLarge", "empty", "whole"},
     password : {"missing", "wrong", "right"}, key : BOOLEAN,
     dates : {"current", "expired", "future"}, holder : Holders]

QueryRequest ==
    [op : Ops, id : Ids, form : IdForms, tipo : {"", "cancel"}, cert : Certificates]

ASSUME QueryRequestsAssumption == \A q \in Queries : QueryRequests[q] \subseteq QueryRequest

NoQuery == [step |-> "new"]

QueryInit ==
    /\ ClientInit
    /\ queries = [q \in Queries |-> NoQuery]

-------------------------------------------------------------------------------
\* ValidateAccessKey, and Parse with Validate: in each the same checks in the same order.
ValidId(form) == form.length /\ form.characters /\ form.beginning

\* extractCertificate and parsePFX.
UsableCertificate(cert) ==
    /\ cert.file = "whole"
    /\ cert.password = "right"
    /\ cert.key
    /\ cert.dates = "current"

NeedsCertificate(op) == op \in {"lookup", "exists"}

\* The date as time.Parse leaves it, in the zone it was written in, is printed with the
\* layout ...T15:04:05-03:00, in which 03 is the hour on a clock of twelve.
formatDateTime(time) ==
    [hour |-> time.hour, offset |-> -(IF time.hour % 12 = 0 THEN 12 ELSE time.hour % 12)]

\* mapToQueryResponse, mapToEventsQueryResponse with its filter, buildNFSeURL.
Shown(op, tipo, nfse) ==
    CASE op = "nfse"   -> [status |-> nfse.status, emitted |-> formatDateTime(nfse.emitted)]
      [] op = "events" ->
            LET eventos == SelectSeq(nfse.events, LAMBDA e : tipo \in {"", e})
            IN [total |-> Len(eventos), eventos |-> eventos]
      [] op = "lookup" -> [url |-> "right"]
      [] op = "exists" -> [body |-> "none"]

\* Mutant: what goes wrong on the way means that there is nothing.
FailureStatusHopeful(op, failure) ==
    CASE failure = "forbidden"   -> IF op = "lookup" THEN 403 ELSE 404
      [] failure = "unavailable" -> 503
      [] failure = "timeout"     -> 504
      [] OTHER                   -> 404

\* handleQueryError and handleEventsQueryError know context.DeadlineExceeded,
\* handleSefinError does not.
FailureStatus(op, failure) ==
    CASE failure = "notFound"    -> 404
      [] failure = "forbidden"   -> IF op = "lookup" THEN 403 ELSE 404
      [] failure = "unavailable" -> 503
      [] failure = "timeout"     -> 504
      [] failure = "deadline"    -> IF NeedsCertificate(op) THEN 500 ELSE 504
      [] failure = "error"       -> 500

\* A request comes in and goes out to the government, or is refused.
Receive(q) ==
    /\ queries[q].step = "new"
    /\ \E r \in QueryRequests[q] :
          LET holder == IF NeedsCertificate(r.op) THEN {r.cert.holder} ELSE {}
          IN IF ValidId(r.form) /\ (NeedsCertificate(r.op) => UsableCertificate(r.cert))
             THEN /\ queries' = [queries EXCEPT ![q] =
                         [step |-> "asking", op |-> r.op, id |-> r.id, tipo |-> r.tipo,
                          holder |-> holder, witnessed |-> {registry}]]
                  /\ Connect(q, r.op, r.id, holder)
             ELSE /\ queries' = [queries EXCEPT ![q] = [step |-> "answered", op |-> r.op, answer |-> 400]]
                  /\ UNCHANGED <<idle, calls>>
    /\ UNCHANGED registry

Respond(q) ==
    /\ queries[q].step = "asking" /\ calls[q].phase = "returned"
    /\ LET query  == queries[q]
           result == calls[q].result
           found  == "found" \in DOMAIN result
       IN queries' = [queries EXCEPT ![q] =
             [step |-> "answered", op |-> query.op, id |-> query.id, tipo |-> query.tipo,
              holder |-> query.holder, witnessed |-> query.witnessed,
              answer |-> IF found THEN 200 ELSE FailureStatus(query.op, result.failure),
              shown |-> IF found THEN Shown(query.op, query.tipo, result.found) ELSE "nothing"]]
    /\ UNCHANGED clientVars

\* A query that is being asked sees the registry change.
Witnessing ==
    queries' = [q \in Queries |->
        IF queries[q].step = "asking" THEN [queries[q] EXCEPT !.witnessed = @ \cup {registry'}]
        ELSE queries[q]]

QueryNext ==
    \/ \E q \in Queries : Receive(q) \/ Respond(q)
    \/ \E q \in Queries : CallStep(q) /\ UNCHANGED queries
    \/ \E c \in idle : CloseIdle(c) /\ UNCHANGED queries
    \/ GovernmentStep /\ Witnessing

\* The time limits, the reading of an answer that is there and the handler's own code.
QueryFairness ==
    \A q \in Queries :
       WF_queryVars(\/ (DoTimesOut(q) \/ ReadAnswer(q)) /\ UNCHANGED queries
                    \/ Respond(q))

-------------------------------------------------------------------------------
\* What a truthful answer says of the registry; emission dates are left aside.
Truth(query, r) ==
    IF query.id = "other" \/ r = {} THEN [answer |-> 404]
    ELSE IF query.op = "lookup" /\ query.holder \cap Actors = {} THEN [answer |-> 403]
    ELSE [answer |-> 200, shown |-> Shown(query.op, query.tipo, CHOOSE n \in r : TRUE)]

Said(query) ==
    IF query.answer = 200 THEN [answer |-> 200, shown |-> query.shown] ELSE [answer |-> query.answer]

\* Queries are linearizable.  An answer other than a refusal of the request or a failure is
\* what the registry said at one moment between the request and the answer, whatever was
\* issued, cancelled and asked meanwhile.  Of an identifier with white space around it this
\* is not claimed: the handlers validate it trimmed and ask for it as it came.
AnswerWasTrue ==
    \A q \in Queries :
       queries[q].step = "answered" /\ queries[q].answer \in {200, 403, 404} /\ queries[q].id # "padded"
       => \E r \in queries[q].witnessed : Said(queries[q]) = Truth(queries[q], r)

\* The key behind a DPS is shown to parties of the NFS-e only, although connections are
\* kept for reuse and the certificate is the connection's.
ActorsOnly ==
    \A q \in Queries :
       queries[q].step = "answered" /\ queries[q].answer = 200 /\ queries[q].op = "lookup"
       => queries[q].holder \subseteq Actors

\* A failure that passes, of the network, of the government or for lack of time, is never
\* told as the client's own (4xx), for an integrator gives up on those.
TransientNotFinal ==
    \A q \in Queries :
       queries[q].step = "answered" /\ calls[q].phase = "returned"
       => LET result == calls[q].result
          IN "failure" \in DOMAIN result /\ result.failure \notin {"notFound", "forbidden"}
             => queries[q].answer \in {500, 503, 504}

\* Whatever the government does, every query is answered: the time limit of the query's
\* HTTP client is all that ends one for a DPS.
QueriesEnd == \A q \in Queries : queries[q].step = "asking" ~> queries[q].step = "answered"
===============================================================================
