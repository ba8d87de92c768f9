----------------------------- MODULE SefinQueries ------------------------------
(***************************************************************************)
(* The four queries of ProductionClient: QueryNFSe, QueryEvents, LookupDPS *)
(* and CheckDPSExists, each with an HTTP client of its own, and the        *)
(* government's registry that they ask.                                    *)
(*                                                                         *)
(* The registry is one NFS-e with its DPS.  A query asks for it ("right"), *)
(* for another one, or for it with white space around the identifier.      *)
(***************************************************************************)
EXTENDS Integers, Sequences

CONSTANTS
    Queries,
    Holders,        \* of certificates
    Actors,         \* the holders that are parties to the NFS-e
    MaxEvents,      \* bound on the events registered
    Times           \* what the NFS-e's emission may be dated, as [hour, offset]

VARIABLES
    registry,       \* no NFS-e, or the one there is: its status, events and date
    idle,           \* connections kept open for reuse
    calls

clientVars == <<registry, idle, calls>>

Ops == {"nfse", "events", "lookup", "exists"}
Ids == {"right", "padded", "other"}

\* A call is made by the holder of a certificate, or by nobody in particular: {}.  The
\* answer to it has an HTTP status, and 200 a body that is whole or is not JSON.
\* A query returns what was found or a failure: "notFound", "forbidden", "unavailable",
\* "timeout", "error", or "deadline", an error of reading the body that wraps
\* context.DeadlineExceeded.
NoCall == [phase |-> "idle"]

ClientInit ==
    /\ registry = {}
    /\ idle = {}
    /\ calls = [q \in Queries |-> NoCall]

-------------------------------------------------------------------------------
\* Mutant: one transport for all queries.
SharedTransport(q) == "shared"

\* createQueryHTTPClient makes a transport for each query.
TransportOf(q) == q

\* The call is made on an idle connection of its transport, if there is one, and then in
\* the name of whoever opened it.
Connect(q, op, id, holder) ==
    LET open == {c \in idle : c.transport = TransportOf(q)}
    IN /\ calls' = [calls EXCEPT ![q] =
              [phase |-> "sent", op |-> op, id |-> id,
               holder |-> IF open = {} THEN holder ELSE (CHOOSE c \in open : TRUE).holder]]
       /\ idle' = idle \ open

\* The call returns; a connection that served it to the end is kept.
Return(q, result, kept) ==
    /\ calls' = [calls EXCEPT ![q] = [phase |-> "returned", result |-> result]]
    /\ idle' = IF kept THEN idle \cup {[transport |-> TransportOf(q), holder |-> calls[q].holder]}
               ELSE idle
    /\ UNCHANGED registry

\* The government's answer to a call at this moment.
Reply(call) ==
    IF call.id # "right" \/ registry = {} THEN [status |-> 404]
    ELSE IF call.op = "lookup" /\ call.holder \cap Actors = {} THEN [status |-> 403]
    ELSE [status |-> 200, body |-> "whole", found |-> CHOOSE n \in registry : TRUE]

GovernmentAnswers(q) ==
    /\ calls[q].phase = "sent"
    /\ \E reply \in {Reply(calls[q]), [status |-> 500], [status |-> 503]} :
          calls' = [calls EXCEPT ![q] = [phase |-> "answered", op |-> @.op, id |-> @.id,
                                         holder |-> @.holder, reply |-> reply]]
    /\ UNCHANGED <<registry, idle>>

\* A proxy on the way answers in its place; the answer to HEAD has no body.
ProxyAnswers(q) ==
    /\ calls[q].phase = "answered" /\ calls[q].reply.status = 200
    /\ calls[q].op # "exists" /\ calls[q].reply.body = "whole"
    /\ calls' = [calls EXCEPT ![q].reply = [status |-> 200, body |-> "garbled"]]
    /\ UNCHANGED <<registry, idle>>

\* httpClient.Do fails: the connection is refused or breaks, ...
DoFails(q) == calls[q].phase = "sent" /\ Return(q, [failure |-> "error"], FALSE)

\* Mutant: the HTTP client has no timeout, only the handlers of NFS-e have one.
DoTimesOutSometimes(q) ==
    /\ calls[q].phase = "sent" /\ calls[q].op \in {"nfse", "events"}
    /\ Return(q, [failure |-> "timeout"], FALSE)

\* ... or QueryTimeout has passed.
DoTimesOut(q) == calls[q].phase = "sent" /\ Return(q, [failure |-> "timeout"], FALSE)

BodyBreaks(q) ==
    /\ calls[q].phase = "answered" /\ calls[q].op # "exists"
    /\ Return(q, [failure |-> "error"], FALSE)

BodyTimesOut(q) ==
    /\ calls[q].phase = "answered" /\ calls[q].op # "exists"
    /\ Return(q, [failure |-> "deadline"], FALSE)

\* Mutant: whatever is not 200, 403 or 503 is a 404.
ResultOfOptimistic(op, reply) ==
    CASE reply.status = 200 /\ (op = "exists" \/ reply.body = "whole") -> [found |-> reply.found]
      [] reply.status = 403 -> [failure |-> "forbidden"]
      [] reply.status = 503 -> [failure |-> "unavailable"]
      [] OTHER              -> [failure |-> "notFound"]

\* The status, and the parsing of the body; only LookupDPS knows 403.
ResultOf(op, reply) ==
    CASE reply.status = 200 /\ (op = "exists" \/ reply.body = "whole") -> [found |-> reply.found]
      [] reply.status = 404                   -> [failure |-> "notFound"]
      [] reply.status = 403 /\ op = "lookup"  -> [failure |-> "forbidden"]
      [] reply.status = 503                   -> [failure |-> "unavailable"]
      [] OTHER                                -> [failure |-> "error"]

ReadAnswer(q) ==
    /\ calls[q].phase = "answered"
    /\ Return(q, ResultOf(calls[q].op, calls[q].reply), TRUE)

-------------------------------------------------------------------------------
\* The NFS-e comes into being, and events are registered for it.
Issue ==
    /\ registry = {}
    /\ \E t \in Times :
          registry' = {[status |-> "active", events |-> <<"issue">>, emitted |-> t]}
    /\ UNCHANGED <<idle, calls>>

RegisterEvent(event) ==
    /\ \E n \in registry :
          /\ Len(n.events) < MaxEvents
          /\ registry' = {[n EXCEPT !.events = Append(@, event),
                                    !.status = IF event = "cancel" THEN "cancelled" ELSE @]}
    /\ UNCHANGED <<idle, calls>>

\* IdleConnTimeout.
CloseIdle(c) ==
    /\ c \in idle
    /\ idle' = idle \ {c}
    /\ UNCHANGED <<registry, calls>>

GovernmentStep == Issue \/ \E event \in {"issue", "cancel"} : RegisterEvent(event)

CallStep(q) ==
    \/ GovernmentAnswers(q) \/ ProxyAnswers(q) \/ DoFails(q) \/ DoTimesOut(q)
    \/ BodyBreaks(q) \/ BodyTimesOut(q) \/ ReadAnswer(q)
===============================================================================
