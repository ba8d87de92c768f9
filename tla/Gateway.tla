------------------------------- MODULE Gateway -------------------------------
(***************************************************************************)
(* The API process: HTTP requests that pass authentication, rate limiting  *)
(* and a handler concurrently, each step one call to MongoDB or Redis;     *)
(* the operator who changes API keys meanwhile; and the shutdown, which    *)
(* drains the requests and closes the clients they use.                    *)
(*                                                                         *)
(* Two handlers stand for all: the one that creates an emission request    *)
(* and the one that reads its status.                                      *)
(***************************************************************************)
EXTENDS RateLimiter, FiniteSets

CONSTANTS
    Requests,       \* HTTP requests
    Intents(_),     \* what a request may come for
    Keys,           \* documents of the collection api_keys
    PrefixOf(_),    \* key_prefix, the name of a key's bucket
    RpmOf(_),       \* rate_limit.requests_per_minute
    Revocable,      \* bound: the keys that the operator changes
    MaxTime,        \* bound: the last tick
    MaxUnanswered   \* bound: the runs of the limiter's script nobody is told of

ASSUME GatewayAssumption ==
    /\ MaxTime \in Nat
    /\ MaxUnanswered \in Nat
    /\ Revocable \subseteq Keys
    /\ \A k \in Keys : RpmOf(k) \in Nat

\* The library divides a minute by the rate without a remainder; ticks are fine enough to
\* do the same.
ASSUME IntervalAssumption ==
    \A k \in Keys : EffectiveRpm(RpmOf(k)) * Interval(EffectiveRpm(RpmOf(k))) = Period

VARIABLES
    keys,           \* each API key: active, inactive or deleted
    tat,            \* the value of each bucket in Redis
    clock,
    http,           \* the HTTP requests
    owned,          \* emission requests stored, each with its api_key_id
    phase,          \* the shutdown phase the process is in
    open,           \* the clients that are not closed
    moved,          \* for the properties only: the refused whose bucket was moved since
    unanswered      \* for the bound only: the runs of the script nobody was told of

vars == <<keys, tat, clock, http, owned, phase, open, moved, unanswered>>

None == "none"

Intent == [key : Keys, asks : Requests \cup {None}]

Clients == {"job_client", "redis_connection", "mongodb_connection"}

Phases == {"serving", "http_server", "exited"} \cup Clients

\* "error" stands for 500, and for 400 where nothing depends on which it is.
Answers == {None, "202", "200", "401", "404", "429", "error"}

\* at: when the limiter decided; wait: the Retry-After header.  Two facts about
\* the past: live, the key was active at some time since the request came;
\* promised, the client had been given the status URL it now asks for.
Http == [pc : {"idle", "auth", "limit", "handle", "enqueue", "done"},
         key : Keys, asks : Requests \cup {None},
         limited : {None, "unchecked", "passed", "refused"}, at : Nat, wait : Nat,
         answer : Answers, live : BOOLEAN, promised : BOOLEAN]

\* Every value is of its kind, and the clock within its bound.
TypeOK ==
    /\ keys \in [Keys -> {"active", "inactive", "deleted"}]
    /\ tat \in [{PrefixOf(k) : k \in Keys} -> Nat]
    /\ clock \in 0..MaxTime
    /\ http \in [Requests -> Http]
    /\ owned \subseteq [id : Requests, by : Keys]
    /\ phase \in Phases
    /\ open \subseteq Clients
    /\ moved \subseteq Requests
    /\ unanswered \in 0..MaxUnanswered

Init ==
    /\ keys = [k \in Keys |-> "active"]
    /\ tat = [b \in {PrefixOf(k) : k \in Keys} |-> 0]
    /\ clock = 0
    /\ http \in [Requests -> {[pc |-> "idle", key |-> intent.key, asks |-> intent.asks,
                               limited |-> None, at |-> 0, wait |-> 0, answer |-> None,
                               live |-> FALSE, promised |-> FALSE] : intent \in Intent}]
    /\ \A q \in Requests : [key |-> http[q].key, asks |-> http[q].asks] \in Intents(q)
    /\ owned = {}
    /\ phase = "serving"
    /\ open = Clients
    /\ moved = {}
    /\ unanswered = 0

Up == phase # "exited"

InProgress(q) == http[q].pc \notin {"idle", "done"}

At(q, pc) == Up /\ http[q].pc = pc

GoTo(q, pc) == http' = [http EXCEPT ![q].pc = pc]

Answer(q, status) == http' = [http EXCEPT ![q].pc = "done", ![q].answer = status]

process == <<phase, open>>
limiter == <<tat, moved, unanswered>>

-------------------------------------------------------------------------------
(***************************************************************************)
(* A request on its way through the chain of routes.go.                    *)
(***************************************************************************)

\* A connection accepted before the shutdown may still bring a request during
\* the drain.
Arrive(q) ==
    /\ phase \in {"serving", "http_server"}
    /\ http[q].pc = "idle"
    /\ http' = [http EXCEPT
                    ![q].pc = "auth",
                    ![q].live = (keys[http[q].key] = "active"),
                    ![q].promised = /\ http[q].asks # None
                                    /\ http[http[q].asks].answer = "202"
                                    /\ http[http[q].asks].key = http[q].key]
    /\ UNCHANGED <<keys, limiter, clock, owned, process>>

\* Mutant: an inactive key is good enough.
AuthenticateInactive(q) ==
    /\ At(q, "auth")
    /\ IF keys[http[q].key] = "deleted" THEN Answer(q, "401") ELSE GoTo(q, "limit")
    /\ UNCHANGED <<keys, limiter, clock, owned, process>>

\* The key is looked up by the hash of the secret.
Authenticate(q) ==
    /\ At(q, "auth")
    /\ \/ keys[http[q].key] = "active" /\ GoTo(q, "limit")
       \/ keys[http[q].key] # "active" /\ Answer(q, "401")
       \/ Answer(q, "error")
    /\ UNCHANGED <<keys, limiter, clock, owned, process>>

\* The script of redis_rate runs, and its bucket is moved.
Move(bucket, rpm) ==
    /\ Allows(tat[bucket], clock, rpm)
    /\ tat' = [tat EXCEPT ![bucket] = NewTat(@, clock, rpm)]
    /\ moved' = moved \cup {p \in Requests : /\ http[p].limited = "refused"
                                             /\ PrefixOf(http[p].key) = bucket}

\* The limit is that of the key the request was authenticated with, the bucket
\* that of its prefix.  Without an answer from Redis the request passes.
RateLimit(q) ==
    /\ At(q, "limit")
    /\ LET bucket == PrefixOf(http[q].key)
           rpm    == EffectiveRpm(RpmOf(http[q].key))
       IN \/ /\ http' = [http EXCEPT ![q].pc = "handle", ![q].limited = "unchecked"]
             /\ UNCHANGED limiter
          \/ /\ Move(bucket, rpm)
             /\ http' = [http EXCEPT ![q].pc = "handle", ![q].limited = "passed", ![q].at = clock]
             /\ UNCHANGED unanswered
          \/ /\ ~Allows(tat[bucket], clock, rpm)
             /\ http' = [http EXCEPT ![q].pc = "done", ![q].limited = "refused", ![q].at = clock,
                                     ![q].wait = RetryAfterSeconds(tat[bucket], clock, rpm),
                                     ![q].answer = "429"]
             /\ UNCHANGED limiter
    /\ UNCHANGED <<keys, clock, owned, process>>

\* The script runs in Redis for a request and the answer is lost: after that the request passes
\* unchecked, or go-redis, which retries by default, has sent the script again and its answer
\* counts.  A copy that was given up may run late, whatever has become of the request.
RunUnanswered(q) ==
    /\ http[q].pc = "limit" \/ http[q].limited # None
    /\ Move(PrefixOf(http[q].key), EffectiveRpm(RpmOf(http[q].key)))
    /\ unanswered < MaxUnanswered
    /\ unanswered' = unanswered + 1
    /\ UNCHANGED <<keys, clock, http, owned, process>>

\* Mutant: the document belongs to whichever key of the prefix is found.
CreateForPrefix(q) ==
    /\ At(q, "handle")
    /\ http[q].asks = None
    /\ \E k \in Keys :
          /\ PrefixOf(k) = PrefixOf(http[q].key)
          /\ owned' = owned \cup {[id |-> q, by |-> k]}
    /\ GoTo(q, "enqueue")
    /\ UNCHANGED <<keys, limiter, clock, process>>

\* Mutant: an insert that failed is answered like a failed enqueue.
CreateAnyway(q) ==
    /\ At(q, "handle")
    /\ http[q].asks = None
    /\ owned' \in {owned, owned \cup {[id |-> q, by |-> http[q].key]}}
    /\ GoTo(q, "enqueue")
    /\ UNCHANGED <<keys, limiter, clock, process>>

\* Mutant: the document does not say whose it is.
CreateOwnerless(q) ==
    /\ At(q, "handle")
    /\ http[q].asks = None
    /\ owned' = owned \cup {[id |-> q, by |-> None]}
    /\ GoTo(q, "enqueue")
    /\ UNCHANGED <<keys, limiter, clock, process>>

\* EmissionHandler.Create: the body is invalid, or the insert succeeds, fails, or
\* is applied and reported as failed.
Create(q) ==
    /\ At(q, "handle")
    /\ http[q].asks = None
    /\ \/ Answer(q, "error") /\ owned' = owned
       \/ Answer(q, "error") /\ owned' = owned \cup {[id |-> q, by |-> http[q].key]}
       \/ GoTo(q, "enqueue") /\ owned' = owned \cup {[id |-> q, by |-> http[q].key]}
    /\ UNCHANGED <<keys, limiter, clock, process>>

Enqueue(q) ==
    /\ At(q, "enqueue")
    /\ Answer(q, "202")
    /\ UNCHANGED <<keys, limiter, clock, owned, process>>

\* StatusHandler.Get: somebody else's request is not found.
Get(q) ==
    /\ At(q, "handle")
    /\ http[q].asks # None
    /\ \/ Answer(q, IF [id |-> http[q].asks, by |-> http[q].key] \in owned THEN "200" ELSE "404")
       \/ Answer(q, "error")
    /\ UNCHANGED <<keys, limiter, clock, owned, process>>

-------------------------------------------------------------------------------
(***************************************************************************)
(* The operator, and time.                                                 *)
(***************************************************************************)

\* APIKeyRepository.SetActive and Update; a request that waits for its lookup may
\* profit from it.
SetActive(k, status) ==
    /\ status \in {"active", "inactive"}
    /\ keys[k] \notin {status, "deleted"}
    /\ keys' = [keys EXCEPT ![k] = status]
    /\ http' = [q \in Requests |->
                    [http[q] EXCEPT !.live = @ \/ (status = "active" /\ http[q].key = k
                                                    /\ http[q].pc = "auth")]]
    /\ UNCHANGED <<limiter, clock, owned, process>>

Delete(k) ==
    /\ keys[k] # "deleted"
    /\ keys' = [keys EXCEPT ![k] = "deleted"]
    /\ UNCHANGED <<limiter, clock, http, owned, process>>

Tick ==
    /\ clock < MaxTime
    /\ clock' = clock + 1
    /\ UNCHANGED <<keys, limiter, http, owned, process>>

-------------------------------------------------------------------------------
(***************************************************************************)
(* The shutdown phases of cmd/api/main.go.                                 *)
(***************************************************************************)

unserved == <<keys, limiter, clock, http, owned>>

Signal ==
    /\ phase = "serving"
    /\ phase' = "http_server"
    /\ UNCHANGED <<open, unserved>>

\* server.Shutdown returns: no request is in progress.
Drained ==
    /\ phase = "http_server"
    /\ \A q \in Requests : ~InProgress(q)
    /\ phase' = "job_client"
    /\ UNCHANGED <<open, unserved>>

\* Mutant: a drain that timed out is only one of the errors.
TimedOutGoesOn ==
    /\ phase \notin {"serving", "exited"}
    /\ phase' = IF phase = "http_server" THEN "job_client" ELSE "exited"
    /\ UNCHANGED <<open, unserved>>

\* Mutant: server.Shutdown is given no deadline.
TimedOutAfterDrain ==
    /\ phase \in Clients
    /\ phase' = "exited"
    /\ UNCHANGED <<open, unserved>>

\* shutdownTimeout has passed: Shutdown returns the context's error, or the next
\* phase finds it, and log.Fatal cuts off what is in progress.
TimedOut ==
    /\ phase \notin {"serving", "exited"}
    /\ phase' = "exited"
    /\ UNCHANGED <<open, unserved>>

Following == [job_client         |-> "redis_connection",
              redis_connection   |-> "mongodb_connection",
              mongodb_connection |-> "exited"]

CloseClient ==
    /\ phase \in Clients
    /\ open' = open \ {phase}
    /\ phase' = Following[phase]
    /\ UNCHANGED unserved

-------------------------------------------------------------------------------
Serve(q) ==
    Authenticate(q) \/ RateLimit(q) \/ Create(q) \/ Enqueue(q) \/ Get(q)

Operate == \E k \in Revocable : Delete(k) \/ \E status \in {"active", "inactive"} : SetActive(k, status)

Terminate == Drained \/ TimedOut \/ CloseClient

\* Bounds: the signal comes at the last tick, and after it no key changes and no script runs
\* without an answer; nothing in a shutdown asks for the time.
Next ==
    \/ \E q \in Requests : Arrive(q) \/ Serve(q)
    \/ phase = "serving" /\ (Operate \/ Tick \/ \E q \in Requests : RunUnanswered(q))
    \/ clock = MaxTime /\ Signal
    \/ Terminate

\* The main goroutine goes on: a phase is done, or its time is up.  Nothing is
\* assumed of the handlers: a call to MongoDB has no timeout.
Fairness == WF_vars(Terminate)

Spec == Init /\ [][Next]_vars /\ Fairness

-------------------------------------------------------------------------------
\* A revoked key is of no use at once: no request gets past authentication whose
\* key was inactive or deleted all the time since it came, although the chain
\* keeps the key it looked up and reads it no more.
ServedWasActive ==
    \A q \in Requests : http[q].limited # None => http[q].live

\* Whoever shares its bucket and however requests overlap, a key gets less than
\* twice its rate past the limiter in any minute: a full burst, and the rate.
\* Requests that pass unchecked are not counted.
RateHeld ==
    \A k \in Keys, t \in 0..MaxTime :
        Cardinality({q \in Requests : /\ http[q].key = k
                                      /\ http[q].limited = "passed"
                                      /\ http[q].at \in t..(t + Period - 1)})
            < 2 * EffectiveRpm(RpmOf(k))

WaitSuffices ==
    \A q \in Requests :
        http[q].limited = None /\ http'[q].limited = "refused" =>
            \A p \in Requests :
                /\ http[p].limited = "refused"
                /\ http[p].key = http[q].key
                /\ clock >= http[p].at + (http[p].wait + 1) * TicksPerSecond - 1
                => p \in moved

\* Retry-After, rounded down, is short by less than a second: who waits a tick less
\* than a second longer than told is refused again only if its bucket was moved since,
\* for a request that passed or in a run of the script whose answer was lost.
RetryAfterSuffices == [][WaitSuffices]_vars

\* A status is shown to the key that created the request and to no other, whatever the
\* document says of its owner: who is answered has the key of the POST that the limiter let in.
OnlyCreatorSees ==
    \A q \in Requests :
        http[q].answer = "200" =>
            LET p == http[q].asks
            IN /\ http[p].asks = None
               /\ http[p].limited \in {"passed", "unchecked"}
               /\ http[p].key = http[q].key

\* The status URL of a 202 works from then on: its owner never gets a 404.
StatusUrlWorks ==
    \A q \in Requests : http[q].promised => http[q].answer # "404"

\* As long as a request is in progress and the process runs, no client it may
\* use is closed.
ClientsOpenWhileServing ==
    Up /\ (\E q \in Requests : InProgress(q)) => open = Clients

\* The process ends after a signal even if a handler never returns.
ShutdownEnds == phase = "http_server" ~> phase = "exited"
===============================================================================
