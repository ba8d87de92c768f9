--------------------------- MODULE EmissionPipeline ---------------------------
(***************************************************************************)
(* The life of an emission request: the POST handlers insert a document    *)
(* and enqueue a task, the worker executes the task against the document   *)
(* store, the government's SEFIN service and the integrator's webhook.     *)
(*                                                                         *)
(* An execution is ProcessEmission running once.  It is cut into the steps *)
(* between which another actor can act: one step per call that leaves the  *)
(* process.  asynq runs a task at least once: it executes it again after   *)
(* an error, and after it took it away from a live execution (a shutdown   *)
(* that does not wait, an expired lease or deadline, a crash).  The        *)
(* context of an execution that lost its task is cancelled, so every       *)
(* further call fails before it leaves the process; what may still happen  *)
(* is the call that was in flight, which reaches its destination late.     *)
(***************************************************************************)
EXTENDS EmissionStore, EmissionQueue, SubmissionOutcome, FiniteSets

CONSTANTS
    Requests,       \* emission requests, one POST each
    DpsIds,         \* DPS identifiers (provider, series, number)
    Concurrency,    \* WORKER_CONCURRENCY
    Faults,         \* which of FaultKinds may happen
    MaxRequeue,     \* bound: executions of a task pushed back by a shutdown
    MaxLate         \* bound: calls in flight after their execution is gone

FaultKinds ==
    {"store",       \* a MongoDB call fails, or is applied and reported failed
     "api",         \* the enqueue fails, or the API process dies before it
     "gov",         \* a SEFIN call fails or is misread, before or after its effect
     "hook",        \* a webhook POST fails, before or after it is received
     "abort",       \* the worker shuts down without waiting for an execution
     "expire",      \* an execution loses its lease, times out or crashes
     "late"}        \* a call in flight outlives the execution that made it,
                    \* or outlives the wait of the execution for its answer

ASSUME PipelineAssumption ==
    /\ Concurrency \in Nat \ {0}
    /\ MaxRequeue \in Nat
    /\ MaxLate \in Nat
    /\ Faults \subseteq FaultKinds

VARIABLES
    content,        \* what the integrator of each request sends
    docs,           \* collection emission_requests
    api,            \* progress and answer of each request's POST
    task,           \* each request's task in the queue
    exec,           \* the execution of each request's task, if there is one
    deliveries,     \* collection webhook_deliveries
    told,           \* the events that have reached the integrator, per request
    issued,         \* requests whose submission became an NFS-e
    late            \* calls in flight that nobody waits for any more

vars == <<content, docs, api, task, exec, deliveries, told, issued, late>>

Content == [kind : Kinds, dps : DpsIds, webhook : BOOLEAN]

Steps == {"load", "mark", "prepare", "record", "submit", "bump", "save",
          "reject", "notify", "send", "close", "ok", "err"}

Verdicts == {"none", "issued"} \cup Causes

\* An execution: its next step, its number, the IsSigned flag it loaded, the
\* XML it holds, what became of the submission, and how the POST ended.
Exec == [pc : {"idle"} \cup Steps, run : Nat, wasSigned : BOOLEAN,
         xml : {"none", "unsigned", "signed"}, verdict : Verdicts,
         delivered : BOOLEAN]

NoExec == [pc |-> "idle", run |-> 0, wasSigned |-> FALSE, xml |-> "none",
           verdict |-> "none", delivered |-> FALSE]

Call == [req : Requests, exec : Exec]

TypeOK ==
    /\ content \in [Requests -> Content]
    /\ docs \in [Requests -> EmissionDoc]
    /\ api \in [Requests -> {"idle", "enqueue", "accepted", "refused", "dropped"}]
    /\ task \in [Requests -> Task]
    /\ exec \in [Requests -> Exec]
    /\ deliveries \subseteq Delivery(Requests)
    /\ told \in [Requests -> SUBSET Events]
    /\ issued \subseteq Requests
    /\ late \subseteq Call

Init ==
    /\ content \in [Requests -> Content]
    /\ docs = [r \in Requests |-> NoDoc]
    /\ api = [r \in Requests |-> "idle"]
    /\ task = [r \in Requests |-> NoTask]
    /\ exec = [r \in Requests |-> NoExec]
    /\ deliveries = {}
    /\ told = [r \in Requests |-> {}]
    /\ issued = {}
    /\ late = {}

-------------------------------------------------------------------------------
(***************************************************************************)
(* What a call to a store can do, and the calls themselves.                *)
(***************************************************************************)

\* Applied and acknowledged, applied but reported as an error, or not applied.
StoreOutcomes == {"acked"} \cup IF "store" \in Faults THEN {"lost", "refused"} ELSE {}

At(r, step) == exec[r].pc = step

GoTo(r, step) == exec' = [exec EXCEPT ![r].pc = step]

\* The document update that an execution at one of its writing steps makes.
PendingWrite(doc, e) ==
    CASE e.pc = "mark"   -> UpdateStatus(doc, "processing")
      [] e.pc = "record" -> UpdateSigningStatus(doc)
      [] e.pc = "bump"   -> IncrementRetryCount(doc)
      [] e.pc = "save"   -> UpdateResult(doc)
      [] e.pc = "reject" -> UpdateRejection(doc, e.verdict)
      [] OTHER           -> doc

WriteDoc(r, outcome) ==
    docs' = IF outcome = "refused" THEN docs
            ELSE [docs EXCEPT ![r] = PendingWrite(@, exec[r])]

\* The event sendWebhook derives from having a result or not.
EventOf(e) == IF e.verdict = "issued" THEN "completed" ELSE "failed"

\* The event of an execution reaches the integrator, for the first time or again.
Tell(r, e) == [told EXCEPT ![r] = @ \cup {EventOf(e)}]

\* The call an execution was making may still be on its way.
MayLinger(r) ==
    \/ late' = late
    \/ /\ "late" \in Faults
       /\ Cardinality(late) < MaxLate
       /\ late' = late \cup {[req |-> r, exec |-> exec[r]]}

\* A DPS is used up once the government has issued an NFS-e for it.
DpsTaken(r) == \E q \in issued : content[q].dps = content[r].dps

-------------------------------------------------------------------------------
(***************************************************************************)
(* The API: EmissionHandler.Create and EmissionXMLHandler.Create.  Request *)
(* validation happens before anything is stored and is not part of this    *)
(* module.                                                                 *)
(***************************************************************************)

Insert(r) ==
    /\ api[r] = "idle"
    /\ \E outcome \in StoreOutcomes :
        /\ docs' = IF outcome = "refused" THEN docs
                   ELSE [docs EXCEPT ![r] = NewDoc(content[r].kind)]
        /\ api' = [api EXCEPT ![r] = IF outcome = "acked" THEN "enqueue" ELSE "refused"]
    /\ UNCHANGED <<content, task, exec, deliveries, told, issued, late>>

CreateFromJson(r) == content[r].kind \in {"plain", "certificate"} /\ Insert(r)

CreateFromXml(r) == content[r].kind = "presigned" /\ Insert(r)

\* An enqueue error is logged and the answer is 202 all the same.
EnqueueTask(r) ==
    /\ api[r] = "enqueue"
    /\ \/ task' = [task EXCEPT ![r] = Enqueued]
       \/ "api" \in Faults /\ task' = task
    /\ api' = [api EXCEPT ![r] = "accepted"]
    /\ UNCHANGED <<content, docs, exec, deliveries, told, issued, late>>

\* The API process dies between the insert and the enqueue.
ApiCrash(r) ==
    /\ "api" \in Faults
    /\ api[r] = "enqueue"
    /\ api' = [api EXCEPT ![r] = "dropped"]
    /\ UNCHANGED <<content, docs, task, exec, deliveries, told, issued, late>>

-------------------------------------------------------------------------------
(***************************************************************************)
(* The worker: EmissionProcessor.ProcessEmission, step by step.            *)
(***************************************************************************)

Dispatch(r) ==
    /\ task[r].state = "queued"
    /\ Cardinality({q \in Requests : task[q].state = "active"}) < Concurrency
    /\ task' = [task EXCEPT ![r] = Dequeue(@)]
    /\ exec' = [exec EXCEPT ![r] = [NoExec EXCEPT !.pc = "load", !.run = RunNumber(task[r])]]
    /\ UNCHANGED <<content, docs, api, deliveries, told, issued, late>>

\* Mutant: no skip of a settled request.
LoadWithoutSkip(r) ==
    /\ At(r, "load")
    /\ exec' = [exec EXCEPT ![r].pc = "mark", ![r].wasSigned = docs[r].isSigned]
    /\ UNCHANGED <<content, docs, api, task, deliveries, told, issued, late>>

\* FindByRequestID; a request that is already settled is skipped.
Load(r) ==
    /\ At(r, "load")
    /\ \/ "store" \in Faults /\ GoTo(r, "err")
       \/ docs[r].status \in Terminal /\ GoTo(r, "ok")
       \/ /\ docs[r].status \notin Terminal
          /\ exec' = [exec EXCEPT ![r].pc = "mark", ![r].wasSigned = docs[r].isSigned]
    /\ UNCHANGED <<content, docs, api, task, deliveries, told, issued, late>>

\* Mutant: after an error the handler starts over by itself.
MarkProcessingStartingOver(r) ==
    /\ At(r, "mark")
    /\ \E outcome \in StoreOutcomes :
        /\ WriteDoc(r, outcome)
        /\ GoTo(r, IF outcome = "acked" THEN "prepare" ELSE "load")
    /\ UNCHANGED <<content, api, task, deliveries, told, issued, late>>

MarkProcessing(r) ==
    /\ At(r, "mark")
    /\ \E outcome \in StoreOutcomes :
        /\ WriteDoc(r, outcome)
        /\ GoTo(r, IF outcome = "acked" THEN "prepare" ELSE "err")
    /\ UNCHANGED <<content, api, task, deliveries, told, issued, late>>

UsePreSigned(r) ==
    /\ At(r, "prepare")
    /\ content[r].kind = "presigned"
    /\ exec' = [exec EXCEPT ![r].pc = "submit", ![r].xml = "signed"]
    /\ UNCHANGED <<content, docs, api, task, deliveries, told, issued, late>>

\* Mutant: the certificate is not looked at.
BuildUnsignedAlways(r) ==
    /\ At(r, "prepare")
    /\ content[r].kind \in {"plain", "certificate"}
    /\ exec' = [exec EXCEPT ![r].pc = "submit", ![r].xml = "unsigned"]
    /\ UNCHANGED <<content, docs, api, task, deliveries, told, issued, late>>

\* The DPS is built again by every execution and stays unsigned when there is
\* no certificate, and when the document says that it was signed before.
BuildUnsigned(r) ==
    /\ At(r, "prepare")
    /\ \/ content[r].kind = "plain"
       \/ content[r].kind = "certificate" /\ exec[r].wasSigned
    /\ exec' = [exec EXCEPT ![r].pc = "submit", ![r].xml = "unsigned"]
    /\ UNCHANGED <<content, docs, api, task, deliveries, told, issued, late>>

\* Built and signed, or refused for good (the certificate has expired since the
\* POST, the signer fails).
BuildAndSign(r) ==
    /\ At(r, "prepare")
    /\ content[r].kind = "certificate"
    /\ ~exec[r].wasSigned
    /\ \/ exec' = [exec EXCEPT ![r].pc = "record", ![r].xml = "signed"]
       \/ exec' = [exec EXCEPT ![r].pc = "reject", ![r].verdict = "certificate"]
    /\ UNCHANGED <<content, docs, api, task, deliveries, told, issued, late>>

\* UpdateSigningStatus: an error is only logged.
RecordSigning(r) ==
    /\ At(r, "record")
    /\ \E outcome \in StoreOutcomes : WriteDoc(r, outcome)
    /\ GoTo(r, "submit")
    /\ UNCHANGED <<content, api, task, deliveries, told, issued, late>>

\* Mutant: the test of sefinResponse.Success is inverted.
SubmitInverted(r) ==
    /\ At(r, "submit")
    /\ \E verdict \in {"issued", "duplicate", "government"} :
        /\ verdict = "issued" => ~DpsTaken(r)
        /\ verdict = "duplicate" => DpsTaken(r)
        /\ issued' = IF verdict = "issued" THEN issued \cup {r} ELSE issued
        /\ exec' = [exec EXCEPT ![r].verdict = verdict,
                                ![r].pc = IF verdict = "issued" THEN "reject" ELSE "save"]
    /\ UNCHANGED <<content, docs, api, task, deliveries, told, late>>

\* Mutant: a duplicate is taken for the answer to an earlier submission.
SubmitTrustingDuplicates(r) ==
    /\ At(r, "submit")
    /\ issued' = IF DpsTaken(r) THEN issued ELSE issued \cup {r}
    /\ exec' = [exec EXCEPT ![r].verdict = "issued", ![r].pc = "save"]
    /\ UNCHANGED <<content, docs, api, task, deliveries, told, late>>

\* SubmitDPS returns a verdict.  The client submits again by itself after a
\* retryable error and reports an answer it cannot parse as a rejection, so a
\* submission that became an NFS-e can come back as refused, and an attempt the
\* client gave up may still be on its way.
Submit(r) ==
    /\ At(r, "submit")
    /\ \E verdict \in {"issued", "duplicate", "government"}, grants \in BOOLEAN :
        /\ Possible(DpsTaken(r), grants, verdict)
        /\ grants /\ verdict # "issued" => "gov" \in Faults
        /\ issued' = IF grants THEN issued \cup {r} ELSE issued
        /\ exec' = [exec EXCEPT ![r].verdict = verdict,
                                ![r].pc = IF verdict = "issued" THEN "save" ELSE "reject"]
        /\ verdict = "issued" => late' = late
    /\ MayLinger(r)
    /\ UNCHANGED <<content, docs, api, task, deliveries, told>>

\* Mutant: after an error the handler submits again by itself.
SubmitErrorAgain(r) ==
    /\ At(r, "submit")
    /\ "gov" \in Faults
    /\ \/ issued' = issued
       \/ ~DpsTaken(r) /\ issued' = issued \cup {r}
    /\ MayLinger(r)
    /\ UNCHANGED <<content, docs, api, task, exec, deliveries, told>>

\* SubmitDPS returns an error; the government may have issued the NFS-e, or may
\* yet do so.
SubmitError(r) ==
    /\ At(r, "submit")
    /\ "gov" \in Faults
    /\ \E grants \in BOOLEAN :
        /\ Possible(DpsTaken(r), grants, "error")
        /\ issued' = IF grants THEN issued \cup {r} ELSE issued
    /\ GoTo(r, "bump")
    /\ MayLinger(r)
    /\ UNCHANGED <<content, docs, api, task, deliveries, told>>

\* Mutant: the error stays in the handler, which returns nil.
BumpRetryCountAndReturn(r) ==
    /\ At(r, "bump")
    /\ \E outcome \in StoreOutcomes : WriteDoc(r, outcome)
    /\ GoTo(r, "ok")
    /\ UNCHANGED <<content, api, task, deliveries, told, issued, late>>

\* IncrementRetryCount, then the error goes back to asynq.
BumpRetryCount(r) ==
    /\ At(r, "bump")
    /\ \E outcome \in StoreOutcomes : WriteDoc(r, outcome)
    /\ GoTo(r, "err")
    /\ UNCHANGED <<content, api, task, deliveries, told, issued, late>>

\* Mutant: an error of UpdateResult is only logged.
SaveResultUnchecked(r) ==
    /\ At(r, "save")
    /\ \E outcome \in StoreOutcomes : WriteDoc(r, outcome)
    /\ GoTo(r, "notify")
    /\ UNCHANGED <<content, api, task, deliveries, told, issued, late>>

\* UpdateResult: on an error asynq will execute the task again.
SaveResult(r) ==
    /\ At(r, "save")
    /\ \E outcome \in StoreOutcomes :
        /\ WriteDoc(r, outcome)
        /\ GoTo(r, IF outcome = "acked" THEN "notify" ELSE "err")
    /\ UNCHANGED <<content, api, task, deliveries, told, issued, late>>

\* UpdateRejection: an error is only logged.
SaveRejection(r) ==
    /\ At(r, "reject")
    /\ \E outcome \in StoreOutcomes : WriteDoc(r, outcome)
    /\ GoTo(r, "notify")
    /\ UNCHANGED <<content, api, task, deliveries, told, issued, late>>

\* Mutant: only completed emissions are announced.
CreateDeliveryOnSuccess(r) ==
    /\ At(r, "notify")
    /\ IF content[r].webhook /\ EventOf(exec[r]) = "completed"
       THEN /\ deliveries' = deliveries \cup {NewDelivery(r, exec[r].run, "completed")}
            /\ GoTo(r, "send")
       ELSE deliveries' = deliveries /\ GoTo(r, "ok")
    /\ UNCHANGED <<content, docs, api, task, told, issued, late>>

\* sendWebhook: no URL, no delivery; no delivery row, no POST.
CreateDelivery(r) ==
    /\ At(r, "notify")
    /\ \/ /\ ~content[r].webhook
          /\ deliveries' = deliveries
          /\ GoTo(r, "ok")
       \/ /\ content[r].webhook
          /\ \E outcome \in StoreOutcomes :
              /\ deliveries' = IF outcome = "refused" THEN deliveries
                               ELSE deliveries \cup
                                    {NewDelivery(r, exec[r].run, EventOf(exec[r]))}
              /\ GoTo(r, IF outcome = "acked" THEN "send" ELSE "ok")
    /\ UNCHANGED <<content, docs, api, task, told, issued, late>>

\* Sender.Send, its retries included: an event reported as undelivered may have
\* been received, and one that was received may have been posted several times.
SendWebhook(r) ==
    /\ At(r, "send")
    /\ \E received, delivered \in BOOLEAN :
        /\ delivered => received
        /\ ~delivered => "hook" \in Faults
        /\ told' = IF received THEN Tell(r, exec[r]) ELSE told
        /\ exec' = [exec EXCEPT ![r].pc = "close", ![r].delivered = delivered]
        /\ delivered => late' = late
    /\ MayLinger(r)
    /\ UNCHANGED <<content, docs, api, task, deliveries, issued>>

\* Mutant: the result of Send is not looked at.
CloseDeliveryAsSuccess(r) ==
    /\ At(r, "close")
    /\ \E outcome \in StoreOutcomes :
        deliveries' = IF outcome = "refused" THEN deliveries
                      ELSE MarkDelivery(deliveries, r, exec[r].run, "success")
    /\ GoTo(r, "ok")
    /\ UNCHANGED <<content, docs, api, task, told, issued, late>>

\* MarkSuccess or MarkFailed: an error is only logged.
CloseDelivery(r) ==
    /\ At(r, "close")
    /\ \E outcome \in StoreOutcomes :
        deliveries' = IF outcome = "refused" THEN deliveries
                      ELSE MarkDelivery(deliveries, r, exec[r].run,
                                        IF exec[r].delivered THEN "success" ELSE "failed")
    /\ GoTo(r, "ok")
    /\ UNCHANGED <<content, docs, api, task, told, issued, late>>

-------------------------------------------------------------------------------
(***************************************************************************)
(* asynq: the end of an execution, expected or not.                        *)
(***************************************************************************)

Ack(r) ==
    /\ At(r, "ok")
    /\ task' = [task EXCEPT ![r] = MarkDone(@)]
    /\ exec' = [exec EXCEPT ![r] = NoExec]
    /\ UNCHANGED <<content, docs, api, deliveries, told, issued, late>>

Nack(r) ==
    /\ At(r, "err")
    /\ task' = [task EXCEPT ![r] = RetryOrArchive(@)]
    /\ exec' = [exec EXCEPT ![r] = NoExec]
    /\ UNCHANGED <<content, docs, api, deliveries, told, issued, late>>

\* The steps that are calls with an effect elsewhere.
CallSteps == {"mark", "record", "submit", "bump", "save", "reject", "notify", "send", "close"}

\* The execution is over; the call it was making may still be on its way.
LeaveBehind(r) ==
    /\ exec' = [exec EXCEPT ![r] = NoExec]
    /\ MayLinger(r)
    /\ \/ late' = late
       \/ /\ exec[r].pc \in CallSteps
          /\ exec[r].pc = "notify" => content[r].webhook

\* A shutdown pushes the task back without charging a retry.
Abort(r) ==
    /\ "abort" \in Faults
    /\ task[r].state = "active"
    /\ task[r].requeued < MaxRequeue
    /\ task' = [task EXCEPT ![r] = Requeue(@)]
    /\ LeaveBehind(r)
    /\ UNCHANGED <<content, docs, api, deliveries, told, issued>>

\* Crash, lost lease or passed deadline: asynq's recoverer charges a retry.
Expire(r) ==
    /\ "expire" \in Faults
    /\ task[r].state = "active"
    /\ task' = [task EXCEPT ![r] = RetryOrArchive(@)]
    /\ LeaveBehind(r)
    /\ UNCHANGED <<content, docs, api, deliveries, told, issued>>

\* A call left behind takes effect; nobody reads its answer.
Arrive(call) ==
    /\ call \in late
    /\ late' = late \ {call}
    /\ LET r == call.req
           e == call.exec
       IN /\ docs' = [docs EXCEPT ![r] = PendingWrite(@, e)]
          /\ issued' = IF e.pc = "submit" /\ ~DpsTaken(r) THEN issued \cup {r} ELSE issued
          /\ told' = IF e.pc = "send" THEN Tell(r, e) ELSE told
          /\ deliveries' =
                CASE e.pc = "notify" -> deliveries \cup {NewDelivery(r, e.run, EventOf(e))}
                  [] e.pc = "close"  -> MarkDelivery(deliveries, r, e.run,
                                            IF e.delivered THEN "success" ELSE "failed")
                  [] OTHER           -> deliveries
    /\ UNCHANGED <<content, api, task, exec>>

-------------------------------------------------------------------------------
ApiStep(r) == CreateFromJson(r) \/ CreateFromXml(r) \/ EnqueueTask(r)

HandlerStep(r) ==
    \/ Load(r) \/ MarkProcessing(r)
    \/ UsePreSigned(r) \/ BuildUnsigned(r) \/ BuildAndSign(r) \/ RecordSigning(r)
    \/ Submit(r) \/ SubmitError(r) \/ BumpRetryCount(r)
    \/ SaveResult(r) \/ SaveRejection(r)
    \/ CreateDelivery(r) \/ SendWebhook(r) \/ CloseDelivery(r)

QueueStep(r) == Dispatch(r) \/ Ack(r) \/ Nack(r)

Disturbance(r) == ApiCrash(r) \/ Abort(r) \/ Expire(r)

Next ==
    \/ \E r \in Requests : ApiStep(r) \/ HandlerStep(r) \/ QueueStep(r) \/ Disturbance(r)
    \/ \E call \in late : Arrive(call)

Spec == Init /\ [][Next]_vars

\* A POST handler that has inserted goes on to enqueue, the worker's server
\* serves its queue, and a handler goroutine keeps running.
Fairness ==
    \A r \in Requests : /\ WF_vars(EnqueueTask(r))
                        /\ WF_vars(HandlerStep(r))
                        /\ WF_vars(QueueStep(r))

FairSpec == Spec /\ Fairness
===============================================================================
