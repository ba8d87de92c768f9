-------------------------- MODULE EmissionProperties --------------------------
(***************************************************************************)
(* What the emission pipeline guarantees, under which faults, and what the *)
(* repository's documents say of it that the code does not do.             *)
(***************************************************************************)
EXTENDS EmissionPipeline

-------------------------------------------------------------------------------
(***************************************************************************)
(* Under every fault, calls that arrive late included.                     *)
(***************************************************************************)

\* A request shows success, or the integrator was told that it completed, only
\* if its result is stored and the government did issue its NFS-e: the order of
\* SubmitDPS, UpdateResult and sendWebhook in ProcessEmission.
OutcomeGrounded ==
    \A r \in Requests :
        /\ docs[r].status = "success" => docs[r].result
        /\ "completed" \in told[r] => docs[r].result
        /\ docs[r].result => r \in issued

\* A request with a certificate is put before the government unsigned only
\* when an earlier execution has recorded that it signed: the three-way
\* condition on Certificate in ProcessEmission.
UnsignedOnlyAfterSigning ==
    \A r \in Requests :
        At(r, "submit") /\ content[r].kind = "certificate" /\ exec[r].xml = "unsigned"
            => docs[r].isSigned /\ RunNumber(task[r]) > 0

\* retry_count, incremented both by IncrementRetryCount and by UpdateRejection,
\* never exceeds the number of executions the request has had.
RetryCountHonest ==
    \A r \in Requests :
        docs[r].retryCount <= RunNumber(task[r]) + (IF task[r].state = "queued" THEN 0 ELSE 1)

\* A delivery row marked success belongs to an event that the integrator has
\* received: Send comes before MarkSuccess, and the row is the execution's own.
DeliveryGrounded ==
    \A row \in deliveries : row.status = "success" => row.event \in told[row.req]

\* Of the requests for one DPS, at most one succeeds, however often executions and
\* submissions are repeated.
OneSuccessPerDps ==
    \A q, r \in Requests :
        /\ docs[q].status = "success" /\ docs[r].status = "success"
        /\ content[q].dps = content[r].dps
        => q = r

-------------------------------------------------------------------------------
(***************************************************************************)
(* Without calls that arrive late.                                         *)
(***************************************************************************)

\* A settled request is never taken up or settled again: no repository update
\* checks the status, so this rests on Load's skip and on asynq running one
\* execution of a task at a time.
TerminalIsFinal ==
    [][\A r \in Requests : docs[r].status \in Terminal => docs'[r].status = docs[r].status]_docs

-------------------------------------------------------------------------------
(***************************************************************************)
(* Without late calls and with a store that does what it reports.          *)
(***************************************************************************)

\* Whatever executions were cut short or repeated, one of them at most
\* announces an outcome, and the outcome the integrator hears is the one stored.
OneOutcomeTold ==
    /\ \A x, y \in deliveries : x.req = y.req => x = y
    /\ \A r \in Requests :
          /\ "completed" \in told[r] => docs[r].status = "success"
          /\ "failed" \in told[r] => docs[r].status = "failed"

\* The queue forgets a request only when it is settled: every return of nil in
\* ProcessEmission comes after a terminal status was written or read.
CompletedMeansSettled ==
    \A r \in Requests : task[r].state = "completed" => docs[r].status \in Terminal

\* The pipeline implements the contract.
Contract == INSTANCE EmissionContract
                WITH status <- [r \in Requests |-> docs[r].status], nfse <- issued

ImplementsContract == Contract!Spec

-------------------------------------------------------------------------------
(***************************************************************************)
(* Progress: what a request may still cost.                                *)
(***************************************************************************)

LateOf(r) == {call \in late : call.req = r}

\* The steps an execution has before it, itself included.
StepsAhead(e) ==
    CASE e.pc = "idle"                       -> 0
      [] e.pc \in {"ok", "err"}              -> 1
      [] e.pc = "close"                      -> 2
      [] e.pc = "send"                       -> 3
      [] e.pc = "notify"                     -> 4
      [] e.pc \in {"bump", "save", "reject"} -> 5
      [] e.pc = "submit"                     -> 6
      [] e.pc = "record"                     -> 7
      [] e.pc = "prepare"                    -> 8
      [] e.pc = "mark"                       -> 9
      [] e.pc = "load"                       -> 10

\* The executions that the queue may yet start for a task, and for one not yet enqueued.
Unspent(t) == (MaxRetry - t.retried) + (MaxRequeue - t.requeued)

ExecutionsAhead(r) ==
    CASE task[r].state = "none"   ->
            IF api[r] \in {"idle", "enqueue"} THEN MaxRetry + MaxRequeue + 1 ELSE 0
      [] task[r].state = "queued" -> Unspent(task[r]) + 1
      [] task[r].state = "active" -> Unspent(task[r])
      [] task[r].state \in {"completed", "archived"} -> 0

PostAhead(r) == CASE api[r] = "idle" -> 2 [] api[r] = "enqueue" -> 1 [] OTHER -> 0

\* An execution has ten steps and may leave a call behind at each, which arrives once.
Budget(r) ==
    PostAhead(r) + 21 * ExecutionsAhead(r) + 2 * StepsAhead(exec[r]) + Cardinality(LateOf(r))

\* Nothing is done without end: every step, a fault's and a late call's included, spends of
\* one request's budget and touches no other's.  The handler has no loop, whatever fails;
\* repetition comes from the queue alone, which counts what it repeats.
EveryStepSpends ==
    [][\E r \in Requests :
          /\ Budget(r)' < Budget(r)
          /\ \A q \in Requests \ {r} : Budget(q)' = Budget(q)]_vars

-------------------------------------------------------------------------------
(***************************************************************************)
(* Liveness.                                                               *)
(***************************************************************************)

\* Every task that is enqueued leaves the queue: done, or archived when its
\* retries are used up, whatever fails on the way.
EveryTaskEnds ==
    \A r \in Requests :
        task[r].state = "queued" ~> task[r].state \in {"completed", "archived"}

\* A request answered 202 whose task is enqueued ends settled, unless its
\* retries were used up.
AcceptedSettles ==
    \A r \in Requests :
        task[r].state = "queued" ~> \/ docs[r].status \in Terminal
                                    \/ task[r].state = "archived"

\* When no execution is cut short, a settled request with a webhook has its
\* delivery recorded and closed.
SettledIsDelivered ==
    \A r \in Requests :
        docs[r].status \in Terminal /\ content[r].webhook
            ~> \E row \in deliveries : row.req = r /\ row.status # "pending"

-------------------------------------------------------------------------------
(***************************************************************************)
(* What the repository says and the code does not do.                      *)
(***************************************************************************)

\* FR-010: the DPS is signed when a certificate is provided.  A retry after
\* UpdateSigningStatus finds no certificate data and submits a fresh DPS unsigned.
CertificateMeansSigned ==
    \A r \in Requests :
        At(r, "submit") /\ content[r].kind = "certificate" => exec[r].xml = "signed"
===============================================================================
