----------------------------- MODULE EmissionRuns -----------------------------
(***************************************************************************)
(* What can be told from the number of executions a request has had, under *)
(* every fault, calls that arrive late included: when it may be submitted  *)
(* unsigned, how far its retry count has come, and that a delivery row     *)
(* speaks of the event of its own execution.                               *)
(***************************************************************************)
EXTENDS EmissionProofs, FiniteSetTheorems

Over(r) == task[r].state \in {"completed", "archived"}

\* The number of an execution of r that has ended.
Past(r, run) == run < RunNumber(task[r]) \/ Over(r)

\* The first execution is running or still to come.
First(r) == RunNumber(task[r]) = 0 /\ ~Over(r)

RowsOf(r) == {row \in deliveries : row.req = r}

\* The POST, the queue and the worker agree on how far a request has come.
InStep(r) ==
    /\ api[r] \in {"idle", "enqueue"} => task[r].state = "none"
    /\ task[r].state = "none" => task[r] = NoTask /\ LateOf(r) = {}
    /\ exec[r].pc = "idle" <=> task[r].state # "active"
    /\ exec[r].pc # "idle" => exec[r].run = RunNumber(task[r])

BeforeRecord == {"idle", "load", "mark", "prepare", "record"}

\* Until the first execution has recorded that it signed, no document says so.
SignedInTurn(r) ==
    /\ exec[r].pc \in {"idle", "load"} => exec[r].xml = "none"
    /\ content[r].kind = "certificate" =>
          /\ First(r) /\ exec[r].pc \in BeforeRecord => ~docs[r].isSigned
          /\ First(r) => \A call \in LateOf(r) : call.exec.pc # "record"
          /\ exec[r].wasSigned => docs[r].isSigned /\ ~First(r)
          /\ exec[r].xml = "unsigned" => exec[r].wasSigned

\* Calls left behind that will count a retry when they arrive.
CountingCalls(r) == {call \in LateOf(r) : call.exec.pc \in {"bump", "reject"}}

\* An execution may yet count one retry as long as it is at one of these steps.
MayCount == {"load", "mark", "prepare", "record", "submit", "bump", "save", "reject"}

\* Every execution counts one retry at most: now, later, or after its end.
Counted(r) ==
    /\ IsFiniteSet(CountingCalls(r))
    /\ docs[r].retryCount + Cardinality(CountingCalls(r))
         + (IF exec[r].pc \in MayCount THEN 1 ELSE 0)
       <= RunNumber(task[r]) + (IF task[r].state \in {"none", "queued"} THEN 0 ELSE 1)

\* What is marked delivered was received.
HeardOf(r, e) == e.pc = "close" /\ e.delivered => EventOf(e) \in told[r]

\* Calls left behind that write a row.
RowCalls(r) == {call \in LateOf(r) : call.exec.pc \in {"notify", "close"}}

\* A row bears the number and the event of the execution that inserted it.
RowsInTurn(r) ==
    /\ \A row \in RowsOf(r) :
          \/ Past(r, row.run)
          \/ /\ exec[r].pc \in {"send", "close", "ok"}
             /\ row.run = exec[r].run
             /\ exec[r].pc \in {"send", "close"} => row.event = EventOf(exec[r])
    /\ HeardOf(r, exec[r])
    /\ \A call \in RowCalls(r) :
          /\ Past(r, call.exec.run)
          /\ HeardOf(r, call.exec)
          /\ \A row \in RowsOf(r) : row.run = call.exec.run => row.event = EventOf(call.exec)
          /\ \A other \in RowCalls(r) : other.exec.run = call.exec.run => other = call
    /\ \A row \in RowsOf(r) : row.status = "success" => row.event \in told[r]

Counting(r) == InStep(r) /\ SignedInTurn(r) /\ Counted(r) /\ RowsInTurn(r)

RInv == TypeInv /\ AllFresh /\ \A r \in Requests : Counting(r)

-------------------------------------------------------------------------------
(***************************************************************************)
(* What a step changes.                                                    *)
(***************************************************************************)

\* Nothing that the invariant says of r has changed.
Untouched(r) ==
    /\ UNCHANGED <<content[r], docs[r], api[r], task[r], exec[r], told[r]>>
    /\ UNCHANGED <<LateOf(r), RowsOf(r)>>

LEMMA UntouchedKeeps ==
    ASSUME NEW r \in Requests, Counting(r), Untouched(r)
    PROVE  Counting(r)'
<1>1. InStep(r)'
  BY DEF Counting, Untouched, InStep
<1>2. SignedInTurn(r)'
  BY DEF Counting, Untouched, SignedInTurn, First, Over
<1>3. Counted(r)'
  BY DEF Counting, Untouched, Counted, CountingCalls
<1>4. RowsInTurn(r)'
  BY DEF Counting, Untouched, RowsInTurn, RowCalls, Past, Over, HeardOf
<1>. QED
  BY <1>1, <1>2, <1>3, <1>4 DEF Counting

\* A new row, or the mark on one, belongs to its request.
LEMMA OtherRows ==
    ASSUME NEW r, NEW q, q # r, NEW run, NEW event, NEW status
    PROVE  /\ deliveries' = deliveries \cup {NewDelivery(r, run, event)}
                => RowsOf(q)' = RowsOf(q)
           /\ deliveries \subseteq Delivery(Requests)
              /\ deliveries' = MarkDelivery(deliveries, r, run, status)
                => RowsOf(q)' = RowsOf(q)
<1>1. ASSUME deliveries' = deliveries \cup {NewDelivery(r, run, event)}
      PROVE  RowsOf(q)' = RowsOf(q)
  BY <1>1 DEF NewDelivery, RowsOf
<1>2. ASSUME deliveries \subseteq Delivery(Requests),
             deliveries' = MarkDelivery(deliveries, r, run, status)
      PROVE  RowsOf(q)' = RowsOf(q)
  <2>1. \A row \in deliveries : [row EXCEPT !.status = status].req = row.req
    BY <1>2 DEF Delivery
  <2>. QED
    BY <1>2, <2>1 DEF MarkDelivery, RowsOf
<1>. QED
  BY <1>1, <1>2

\* The fields of a document that this module is about, after a write.
LEMMA PendingWriteCounts ==
    ASSUME NEW doc \in EmissionDoc, NEW e \in Exec
    PROVE  /\ doc.isSigned => PendingWrite(doc, e).isSigned
           /\ PendingWrite(doc, e).isSigned => doc.isSigned \/ e.pc = "record"
           /\ e.pc \notin {"bump", "reject"} => PendingWrite(doc, e).retryCount = doc.retryCount
           /\ e.pc \in {"bump", "reject"} =>
                PendingWrite(doc, e).retryCount = doc.retryCount + 1
<1>1. CASE e.pc = "mark"
  <2>1. PendingWrite(doc, e) = UpdateStatus(doc, "processing")
    BY <1>1, PendingWriteCases
  <2>. QED
    BY <1>1, <2>1 DEF UpdateStatus, EmissionDoc
<1>2. CASE e.pc = "record"
  <2>1. PendingWrite(doc, e) = UpdateSigningStatus(doc)
    BY <1>2, PendingWriteCases
  <2>. QED
    BY <1>2, <2>1 DEF UpdateSigningStatus, EmissionDoc
<1>3. CASE e.pc = "bump"
  <2>1. PendingWrite(doc, e) = IncrementRetryCount(doc)
    BY <1>3, PendingWriteCases
  <2>. QED
    BY <1>3, <2>1 DEF IncrementRetryCount, EmissionDoc
<1>4. CASE e.pc = "save"
  <2>1. PendingWrite(doc, e) = UpdateResult(doc)
    BY <1>4, PendingWriteCases
  <2>. QED
    BY <1>4, <2>1 DEF UpdateResult, EmissionDoc
<1>5. CASE e.pc = "reject"
  <2>1. PendingWrite(doc, e) = UpdateRejection(doc, e.verdict)
    BY <1>5, PendingWriteCases
  <2>. QED
    BY <1>5, <2>1 DEF UpdateRejection, EmissionDoc
<1>6. CASE e.pc \notin {"mark", "record", "bump", "save", "reject"}
  BY <1>6, PendingWriteCases
<1>. QED
  BY <1>1, <1>2, <1>3, <1>4, <1>5, <1>6

\* Where an execution goes from where it is, and what it remembers.
LEMMA HandlerMoves ==
    ASSUME TypeInv, NEW r \in Requests, HandlerStep(r)
    PROVE  /\ exec'[r] \in Exec
           /\ exec'[r].pc # "idle" /\ exec'[r].pc # "load"
           /\ exec'[r].run = exec[r].run
           /\ exec'[r].pc \in BeforeRecord => exec[r].pc \in BeforeRecord \ {"record"}
           /\ exec'[r].pc \in MayCount => exec[r].pc \in MayCount \ {"bump", "reject"}
           /\ exec'[r].pc = "send" => exec[r].pc = "notify"
           /\ exec'[r].pc = "close" => exec[r].pc = "send"
           /\ exec[r].pc \in {"notify", "send", "close"} => exec'[r].verdict = exec[r].verdict
           /\ exec[r].pc \in {"notify", "send", "close"} => exec'[r].pc \in {"send", "close", "ok"}
           /\ exec[r].pc # "ok"
           /\ exec'[r].wasSigned =>
                exec[r].wasSigned \/ (exec[r].pc = "load" /\ docs[r].isSigned)
           /\ exec[r].wasSigned => exec'[r].wasSigned \/ exec[r].pc = "load"
           /\ exec'[r].xml = "unsigned" =>
                \/ exec[r].xml = "unsigned"
                \/ content[r].kind = "certificate" => exec[r].wasSigned /\ exec[r].pc = "prepare"
<1>. USE DEF At, GoTo, BeforeRecord, MayCount
<1>1. exec \in [Requests -> Exec] /\ exec[r] \in Exec
  BY DEF TypeInv, TypeOK
<1>2. exec'[r] \in Exec
  BY TypeInvStep DEF TypeInv, TypeOK, Next
<1>3. CASE Load(r)
  BY <1>1, <1>2, <1>3 DEF Load, Exec
<1>4. CASE MarkProcessing(r)
  BY <1>1, <1>2, <1>4 DEF MarkProcessing
<1>5. CASE UsePreSigned(r)
  BY <1>1, <1>2, <1>5 DEF UsePreSigned, Exec
<1>6. CASE BuildUnsigned(r)
  BY <1>1, <1>2, <1>6 DEF BuildUnsigned, Exec
<1>7. CASE BuildAndSign(r)
  <2>1. CASE exec' = [exec EXCEPT ![r].pc = "record", ![r].xml = "signed"]
    BY <1>1, <1>2, <1>7, <2>1 DEF BuildAndSign, Exec
  <2>2. CASE exec' = [exec EXCEPT ![r].pc = "reject", ![r].verdict = "certificate"]
    BY <1>1, <1>2, <1>7, <2>2 DEF BuildAndSign, Exec
  <2>. QED
    BY <1>7, <2>1, <2>2 DEF BuildAndSign
<1>8. CASE RecordSigning(r)
  BY <1>1, <1>2, <1>8 DEF RecordSigning
<1>9. CASE Submit(r)
  BY <1>1, <1>2, <1>9 DEF Submit, Exec
<1>10. CASE SubmitError(r)
  BY <1>1, <1>2, <1>10 DEF SubmitError
<1>11. CASE BumpRetryCount(r)
  BY <1>1, <1>2, <1>11 DEF BumpRetryCount
<1>12. CASE SaveResult(r)
  BY <1>1, <1>2, <1>12 DEF SaveResult
<1>13. CASE SaveRejection(r)
  BY <1>1, <1>2, <1>13 DEF SaveRejection
<1>14. CASE CreateDelivery(r)
  <2>1. PICK step \in {"ok", "send"} : GoTo(r, step)
    BY <1>14 DEF CreateDelivery
  <2>2. exec[r].pc = "notify"
    BY <1>14 DEF CreateDelivery
  <2>. QED
    BY <1>1, <1>2, <2>1, <2>2
<1>15. CASE SendWebhook(r)
  BY <1>1, <1>2, <1>15 DEF SendWebhook, Exec
<1>16. CASE CloseDelivery(r)
  BY <1>1, <1>2, <1>16 DEF CloseDelivery
<1>. QED
  BY <1>3, <1>4, <1>5, <1>6, <1>7, <1>8, <1>9, <1>10, <1>11, <1>12, <1>13, <1>14, <1>15, <1>16
  DEF HandlerStep

\* What an execution writes to its document, and what it leaves behind.
LEMMA HandlerWrites ==
    ASSUME TypeInv, NEW r \in Requests, HandlerStep(r)
    PROVE  /\ docs[r].isSigned => docs'[r].isSigned
           /\ docs'[r].isSigned => docs[r].isSigned \/ exec[r].pc = "record"
           /\ exec[r].pc \notin {"bump", "reject"} => docs'[r].retryCount = docs[r].retryCount
           /\ exec[r].pc \in {"bump", "reject"} =>
                docs'[r].retryCount \in {docs[r].retryCount, docs[r].retryCount + 1}
           /\ \/ late' = late
              \/ /\ exec[r].pc \in {"submit", "send"}
                 /\ late' = late \cup {[req |-> r, exec |-> exec[r]]}
<1>. USE DEF At
<1>1. docs[r] \in EmissionDoc /\ exec[r] \in Exec
  BY DEF TypeInv, TypeOK
<1>2. CASE docs' = docs
  <2>1. \/ late' = late
        \/ /\ exec[r].pc \in {"submit", "send"}
           /\ late' = late \cup {[req |-> r, exec |-> exec[r]]}
    BY DEF HandlerStep, Load, MarkProcessing, UsePreSigned, BuildUnsigned, BuildAndSign,
           RecordSigning, Submit, SubmitError, BumpRetryCount, SaveResult, SaveRejection,
           CreateDelivery, SendWebhook, CloseDelivery, MayLinger
  <2>. QED
    BY <1>2, <2>1
<1>3. ASSUME Written(r, exec[r]), late' = late
      PROVE  /\ docs[r].isSigned => docs'[r].isSigned
             /\ docs'[r].isSigned => docs[r].isSigned \/ exec[r].pc = "record"
             /\ exec[r].pc \notin {"bump", "reject"} => docs'[r].retryCount = docs[r].retryCount
             /\ exec[r].pc \in {"bump", "reject"} =>
                  docs'[r].retryCount \in {docs[r].retryCount, docs[r].retryCount + 1}
  <2>1. docs'[r] = docs[r] \/ docs'[r] = PendingWrite(docs[r], exec[r])
    BY <1>3 DEF Written, TypeInv, TypeOK
  <2>2. CASE docs'[r] = docs[r]
    BY <2>2
  <2>3. CASE docs'[r] = PendingWrite(docs[r], exec[r])
    <3>1. docs[r].isSigned => docs'[r].isSigned
      BY <1>1, <2>3, PendingWriteCounts
    <3>2. docs'[r].isSigned => docs[r].isSigned \/ exec[r].pc = "record"
      BY <1>1, <2>3, PendingWriteCounts
    <3>3. /\ exec[r].pc \notin {"bump", "reject"} => docs'[r].retryCount = docs[r].retryCount
          /\ exec[r].pc \in {"bump", "reject"} => docs'[r].retryCount = docs[r].retryCount + 1
      BY <1>1, <2>3, PendingWriteCounts
    <3>. QED
      BY <3>1, <3>2, <3>3
  <2>. QED
    BY <2>1, <2>2, <2>3
<1>4. CASE docs' # docs
  <2>1. late' = late /\ \E outcome \in StoreOutcomes : WriteDoc(r, outcome)
    BY <1>4 DEF HandlerStep, Load, MarkProcessing, UsePreSigned, BuildUnsigned, BuildAndSign,
           RecordSigning, Submit, SubmitError, BumpRetryCount, SaveResult, SaveRejection,
           CreateDelivery, SendWebhook, CloseDelivery
  <2>2. Written(r, exec[r])
    BY <2>1, WriteDocWritten
  <2>. QED
    BY <1>3, <2>1, <2>2
<1>. QED
  BY <1>2, <1>4

\* What an execution tells, and writes of it.
LEMMA HandlerTells ==
    ASSUME TypeInv, NEW r \in Requests, HandlerStep(r)
    PROVE  /\ told[r] \subseteq told'[r]
           /\ exec'[r].pc = "close" /\ exec'[r].delivered => EventOf(exec[r]) \in told'[r]
           /\ \/ deliveries' = deliveries
              \/ /\ exec[r].pc = "notify"
                 /\ deliveries' = deliveries \cup {NewDelivery(r, exec[r].run, EventOf(exec[r]))}
              \/ /\ exec[r].pc = "close"
                 /\ deliveries' = MarkDelivery(deliveries, r, exec[r].run,
                                               IF exec[r].delivered THEN "success" ELSE "failed")
<1>. USE DEF At, GoTo
<1>1. exec \in [Requests -> Exec] /\ exec[r] \in Exec /\ told \in [Requests -> SUBSET Events]
  BY DEF TypeInv, TypeOK
<1>2. CASE SendWebhook(r)
  <2>1. PICK received \in BOOLEAN, delivered \in BOOLEAN :
            /\ delivered => received
            /\ told' = IF received THEN Tell(r, exec[r]) ELSE told
            /\ exec' = [exec EXCEPT ![r].pc = "close", ![r].delivered = delivered]
    BY <1>2 DEF SendWebhook
  <2>2. exec'[r].delivered => delivered
    BY <1>1, <2>1 DEF Exec
  <2>3. deliveries' = deliveries
    BY <1>2 DEF SendWebhook
  <2>4. /\ told[r] \subseteq told'[r]
        /\ delivered => EventOf(exec[r]) \in told'[r]
    BY <1>1, <2>1 DEF Tell
  <2>. QED
    BY <2>2, <2>3, <2>4
<1>3. CASE ~SendWebhook(r)
  <2>1. told' = told
    BY <1>3 DEF HandlerStep, Load, MarkProcessing, UsePreSigned, BuildUnsigned, BuildAndSign,
           RecordSigning, Submit, SubmitError, BumpRetryCount, SaveResult, SaveRejection,
           CreateDelivery, CloseDelivery
  <2>2. exec'[r].pc # "close"
    <3>1. exec[r].pc # "send"
      BY <1>3 DEF HandlerStep, Load, MarkProcessing, UsePreSigned, BuildUnsigned, BuildAndSign,
             RecordSigning, Submit, SubmitError, BumpRetryCount, SaveResult, SaveRejection,
             CreateDelivery, CloseDelivery
    <3>. QED
      BY <3>1, HandlerMoves
  <2>3. \/ deliveries' = deliveries
        \/ /\ exec[r].pc = "notify"
           /\ deliveries' = deliveries \cup {NewDelivery(r, exec[r].run, EventOf(exec[r]))}
        \/ /\ exec[r].pc = "close"
           /\ deliveries' = MarkDelivery(deliveries, r, exec[r].run,
                                         IF exec[r].delivered THEN "success" ELSE "failed")
    <3>1. CASE CreateDelivery(r)
      BY <3>1 DEF CreateDelivery
    <3>2. CASE CloseDelivery(r)
      BY <3>2 DEF CloseDelivery
    <3>. QED
      BY <1>3, <3>1, <3>2
      DEF HandlerStep, Load, MarkProcessing, UsePreSigned, BuildUnsigned, BuildAndSign,
          RecordSigning, Submit, SubmitError, BumpRetryCount, SaveResult, SaveRejection
  <2>. QED
    BY <2>1, <2>2, <2>3
<1>. QED
  BY <1>2, <1>3

\* An execution ends, as it should or not.
Ends(r) == Ack(r) \/ Nack(r) \/ Abort(r) \/ Expire(r)

LEMMA TaskRuns ==
    ASSUME NEW t \in Task
    PROVE  /\ RunNumber(t) \in Nat
           /\ RunNumber(Dequeue(t)) = RunNumber(t) /\ Dequeue(t).state = "active"
           /\ RunNumber(MarkDone(t)) = RunNumber(t) /\ MarkDone(t).state = "completed"
           /\ RunNumber(Requeue(t)) = RunNumber(t) + 1 /\ Requeue(t).state = "queued"
           /\ \/ /\ RunNumber(RetryOrArchive(t)) = RunNumber(t) + 1
                 /\ RetryOrArchive(t).state = "queued"
              \/ /\ RunNumber(RetryOrArchive(t)) = RunNumber(t)
                 /\ RetryOrArchive(t).state = "archived"
BY DEF Task, RunNumber, Dequeue, MarkDone, Requeue, RetryOrArchive

LEMMA ExecutionEnds ==
    ASSUME TypeInv, NEW r \in Requests, InStep(r), Ends(r)
    PROVE  /\ exec[r].pc # "idle" /\ exec'[r] = NoExec
           /\ UNCHANGED <<content, docs, api, deliveries, told>>
           /\ \/ task'[r].state = "queued" /\ RunNumber(task'[r]) = RunNumber(task[r]) + 1
              \/ Over(r)' /\ RunNumber(task'[r]) = RunNumber(task[r])
           /\ late' = late \/ late' = late \cup {[req |-> r, exec |-> exec[r]]}
           /\ \A q \in Requests \ {r} : exec'[q] = exec[q] /\ task'[q] = task[q]
<1>1. task[r] \in Task /\ task \in [Requests -> Task] /\ exec \in [Requests -> Exec]
  BY DEF TypeInv, TypeOK
<1>2. CASE Ack(r)
  BY <1>1, <1>2, TaskRuns DEF Ack, At, Over
<1>3. CASE Nack(r)
  BY <1>1, <1>3, TaskRuns DEF Nack, At, Over
<1>4. CASE Abort(r)
  BY <1>1, <1>4, TaskRuns DEF Abort, LeaveBehind, MayLinger, InStep
<1>5. CASE Expire(r)
  BY <1>1, <1>5, TaskRuns DEF Expire, LeaveBehind, MayLinger, InStep, Over
<1>. QED
  BY <1>2, <1>3, <1>4, <1>5 DEF Ends

\* A row after a mark is a row from before it, with or without the mark.
LEMMA MarkedRow ==
    ASSUME deliveries \subseteq Delivery(Requests), NEW r, NEW run, NEW status,
           NEW new \in MarkDelivery(deliveries, r, run, status)
    PROVE  \E row \in deliveries :
              /\ new.req = row.req /\ new.run = row.run /\ new.event = row.event
              /\ \/ new.status = row.status
                 \/ row.req = r /\ row.run = run /\ new.status = status
<1>1. PICK row \in deliveries :
          new = IF row.req = r /\ row.run = run THEN [row EXCEPT !.status = status] ELSE row
  BY DEF MarkDelivery
<1>. QED
  BY <1>1 DEF Delivery

\* A step leaves alone the requests it is not about.
LEMMA OthersUntouched ==
    ASSUME TypeInv, NEW r \in Requests, NEW q \in Requests \ {r}, InStep(r),
           ApiStep(r) \/ ApiCrash(r) \/ HandlerStep(r) \/ Dispatch(r) \/ Ends(r)
    PROVE  Untouched(q)
<1>1. CASE ApiStep(r) \/ ApiCrash(r)
  BY <1>1 DEF ApiStep, ApiCrash, CreateFromJson, CreateFromXml, Insert, EnqueueTask, Untouched,
              LateOf, RowsOf, TypeInv, TypeOK
<1>2. CASE HandlerStep(r)
  <2>1. RowsOf(q)' = RowsOf(q)
    <3>1. deliveries \subseteq Delivery(Requests)
      BY DEF TypeInv, TypeOK
    <3>2. CASE deliveries' = deliveries
      BY <3>2 DEF RowsOf
    <3>3. CASE deliveries' = deliveries \cup {NewDelivery(r, exec[r].run, EventOf(exec[r]))}
      BY <3>3, OtherRows
    <3>4. CASE deliveries' = MarkDelivery(deliveries, r, exec[r].run,
                                          IF exec[r].delivered THEN "success" ELSE "failed")
      BY <3>1, <3>4, OtherRows
    <3>. QED
      BY <1>2, <3>2, <3>3, <3>4, HandlerTells
  <2>2. LateOf(q)' = LateOf(q)
    BY <1>2, HandlerStepLocal DEF LateOf
  <2>. QED
    BY <1>2, <2>1, <2>2, HandlerStepLocal DEF Untouched
<1>3. CASE Dispatch(r)
  BY <1>3 DEF Dispatch, Untouched, LateOf, RowsOf, TypeInv, TypeOK
<1>4. CASE Ends(r)
  <2>1. LateOf(q)' = LateOf(q)
    BY <1>4, ExecutionEnds DEF LateOf
  <2>. QED
    BY <1>4, <2>1, ExecutionEnds DEF Untouched, RowsOf
<1>. QED
  BY <1>1, <1>2, <1>3, <1>4

LEMMA GrowsByOne ==
    ASSUME NEW S, IsFiniteSet(S), NEW x
    PROVE  /\ IsFiniteSet(S \cup {x})
           /\ Cardinality(S) \in Nat /\ Cardinality(S \cup {x}) \in Nat
           /\ Cardinality(S \cup {x}) <= Cardinality(S) + 1
<1>1. /\ IsFiniteSet(S \cup {x})
      /\ Cardinality(S \cup {x}) = Cardinality(S) \/ Cardinality(S \cup {x}) = Cardinality(S) + 1
  BY FS_AddElement
<1>2. Cardinality(S) \in Nat
  BY FS_CardinalityType
<1>. QED
  BY <1>1, <1>2

-------------------------------------------------------------------------------
(***************************************************************************)
(* The invariant is inductive: one lemma for each kind of step.            *)
(***************************************************************************)

LEMMA CountingInit == Init => \A r \in Requests : Counting(r)
<1>. SUFFICES ASSUME Init, NEW r \in Requests PROVE Counting(r)
  OBVIOUS
<1>1. /\ LateOf(r) = {} /\ RowsOf(r) = {} /\ CountingCalls(r) = {} /\ RowCalls(r) = {}
  BY DEF Init, LateOf, RowsOf, CountingCalls, RowCalls
<1>2. InStep(r)
  BY <1>1 DEF Init, InStep, NoTask, NoExec
<1>3. SignedInTurn(r)
  BY <1>1 DEF Init, SignedInTurn, NoExec, NoDoc
<1>4. Counted(r)
  <2>1. IsFiniteSet(CountingCalls(r)) /\ Cardinality(CountingCalls(r)) = 0
    BY <1>1, FS_EmptySet
  <2>2. docs[r].retryCount = 0 /\ RunNumber(task[r]) = 0 /\ exec[r].pc \notin MayCount
    BY DEF Init, NoDoc, NoTask, NoExec, RunNumber, MayCount
  <2>3. task[r].state = "none"
    BY DEF Init, NoTask
  <2>. QED
    BY <2>1, <2>2, <2>3 DEF Counted
<1>5. RowsInTurn(r)
  BY <1>1 DEF Init, RowsInTurn, HeardOf, NoExec
<1>. QED
  BY <1>2, <1>3, <1>4, <1>5 DEF Counting

LEMMA ApiCounting ==
    ASSUME RInv, NEW r \in Requests, ApiStep(r) \/ ApiCrash(r)
    PROVE  Counting(r)'
<1>1. Counting(r) /\ TypeInv /\ Fresh(r)
  BY DEF RInv, AllFresh
<1>2. LateOf(r)' = LateOf(r) /\ RowsOf(r)' = RowsOf(r) /\ UNCHANGED <<content, exec, told>>
  BY DEF ApiStep, ApiCrash, CreateFromJson, CreateFromXml, Insert, EnqueueTask, LateOf, RowsOf
<1>3. CASE Insert(r)
  <2>1. task' = task /\ docs[r] = NoDoc /\ api[r] = "idle"
    BY <1>1, <1>3 DEF Insert, Fresh
  <2>2. docs'[r] = docs[r] \/ docs'[r] = NewDoc(content[r].kind)
    BY <1>1, <1>3 DEF Insert, TypeInv, TypeOK
  <2>3. /\ docs'[r].retryCount = docs[r].retryCount
        /\ content[r].kind = "certificate" /\ ~docs[r].isSigned => ~docs'[r].isSigned
        /\ ~docs[r].isSigned
    <3>1. NewDoc(content[r].kind).retryCount = 0 /\ NoDoc.retryCount = 0 /\ ~NoDoc.isSigned
      BY DEF NewDoc, NoDoc
    <3>2. content[r].kind = "certificate" => ~NewDoc(content[r].kind).isSigned
      BY DEF NewDoc, NoDoc
    <3>. QED
      BY <2>1, <2>2, <3>1, <3>2
  <2>4. InStep(r)'
    BY <1>1, <1>2, <2>1 DEF Counting, InStep
  <2>5. SignedInTurn(r)'
    BY <1>1, <1>2, <2>1, <2>3 DEF Counting, SignedInTurn, First, Over
  <2>6. Counted(r)'
    BY <1>1, <1>2, <2>1, <2>3 DEF Counting, Counted, CountingCalls
  <2>7. RowsInTurn(r)'
    BY <1>1, <1>2, <2>1 DEF Counting, RowsInTurn, RowCalls, Past, Over, HeardOf
  <2>. QED
    BY <2>4, <2>5, <2>6, <2>7 DEF Counting
<1>4. CASE (EnqueueTask(r) \/ ApiCrash(r)) /\ task' = task
  <2>1. docs' = docs /\ api'[r] \notin {"idle", "enqueue"}
    BY <1>1, <1>4 DEF EnqueueTask, ApiCrash, TypeInv, TypeOK
  <2>2. InStep(r)'
    BY <1>1, <1>2, <1>4, <2>1 DEF Counting, InStep
  <2>3. SignedInTurn(r)'
    BY <1>1, <1>2, <1>4, <2>1 DEF Counting, SignedInTurn, First, Over
  <2>4. Counted(r)'
    BY <1>1, <1>2, <1>4, <2>1 DEF Counting, Counted, CountingCalls
  <2>5. RowsInTurn(r)'
    BY <1>1, <1>2, <1>4, <2>1 DEF Counting, RowsInTurn, RowCalls, Past, Over, HeardOf
  <2>. QED
    BY <2>2, <2>3, <2>4, <2>5 DEF Counting
<1>5. CASE EnqueueTask(r) /\ task' = [task EXCEPT ![r] = Enqueued]
  <2>1. /\ docs' = docs /\ api'[r] = "accepted" /\ api[r] = "enqueue"
        /\ task'[r].state = "queued" /\ RunNumber(task'[r]) = 0
    BY <1>1, <1>5 DEF EnqueueTask, TypeInv, TypeOK, Enqueued, NoTask, RunNumber
  <2>2. task[r] = NoTask /\ task[r].state = "none" /\ LateOf(r) = {} /\ exec[r].pc = "idle"
    BY <1>1, <2>1 DEF Counting, InStep
  <2>3. RunNumber(task[r]) = 0
    BY <2>2 DEF NoTask, RunNumber
  <2>4. InStep(r)'
    BY <1>2, <2>1, <2>2 DEF InStep
  <2>5. SignedInTurn(r)'
    BY <1>1, <1>2, <2>1, <2>2, <2>3 DEF Counting, SignedInTurn, First, Over
  <2>6. Counted(r)'
    BY <1>1, <1>2, <2>1, <2>2, <2>3 DEF Counting, Counted, CountingCalls
  <2>7. RowsOf(r) = {}
    <3>1. \A row \in RowsOf(r) : row.run \in Nat
      BY <1>1 DEF RowsOf, TypeInv, TypeOK, Delivery
    <3>2. \A row \in RowsOf(r) : row.run < 0
      BY <1>1, <2>2, <2>3 DEF Counting, RowsInTurn, Past, Over
    <3>. QED
      BY <3>1, <3>2
  <2>8. RowsInTurn(r)'
    BY <1>2, <2>2, <2>7 DEF RowsInTurn, RowCalls, HeardOf
  <2>. QED
    BY <2>4, <2>5, <2>6, <2>8 DEF Counting
<1>. QED
  BY <1>3, <1>4, <1>5 DEF ApiStep, CreateFromJson, CreateFromXml, EnqueueTask, ApiCrash

LEMMA DispatchCounting ==
    ASSUME RInv, NEW r \in Requests, Dispatch(r)
    PROVE  Counting(r)'
<1>1. Counting(r) /\ TypeInv
  BY DEF RInv
<1>2. /\ LateOf(r)' = LateOf(r) /\ RowsOf(r)' = RowsOf(r) /\ UNCHANGED <<content, docs, api, told>>
      /\ task[r].state = "queued" /\ task'[r].state = "active"
      /\ RunNumber(task'[r]) = RunNumber(task[r]) /\ RunNumber(task[r]) \in Nat
      /\ exec[r].pc = "idle"
  BY <1>1, TaskRuns DEF Dispatch, LateOf, RowsOf, TypeInv, TypeOK, Counting, InStep
<1>3. /\ exec'[r].pc = "load" /\ exec'[r].run = RunNumber(task[r])
      /\ exec'[r].xml = "none" /\ ~exec'[r].wasSigned
  BY <1>1 DEF Dispatch, NoExec, TypeInv, TypeOK
<1>4. InStep(r)'
  BY <1>1, <1>2, <1>3 DEF Counting, InStep
<1>5. SignedInTurn(r)'
  BY <1>1, <1>2, <1>3 DEF Counting, SignedInTurn, First, Over, BeforeRecord
<1>6. Counted(r)'
  <2>1. docs[r].retryCount \in Nat
    BY <1>1 DEF TypeInv, TypeOK, EmissionDoc
  <2>2. IsFiniteSet(CountingCalls(r)) /\ Cardinality(CountingCalls(r)) \in Nat
    BY <1>1, FS_CardinalityType DEF Counting, Counted
  <2>3. docs[r].retryCount + Cardinality(CountingCalls(r)) <= RunNumber(task[r])
    BY <1>1, <1>2, <2>1, <2>2 DEF Counting, Counted, MayCount
  <2>4. CountingCalls(r)' = CountingCalls(r)
    BY <1>2 DEF CountingCalls
  <2>. QED
    BY <1>2, <1>3, <2>1, <2>2, <2>3, <2>4 DEF Counted, MayCount
<1>7. RowsInTurn(r)'
  BY <1>1, <1>2, <1>3 DEF Counting, RowsInTurn, RowCalls, Past, Over, HeardOf
<1>. QED
  BY <1>4, <1>5, <1>6, <1>7 DEF Counting

LEMMA EndCounting ==
    ASSUME RInv, NEW r \in Requests, Ends(r)
    PROVE  Counting(r)'
<1>. DEFINE left == [req |-> r, exec |-> exec[r]]
<1>1. Counting(r) /\ TypeInv /\ InStep(r)
  BY DEF RInv, Counting
<1>2. /\ exec[r].pc # "idle" /\ exec[r].run = RunNumber(task[r]) /\ task[r].state = "active"
      /\ exec[r] \in Exec /\ docs[r] \in EmissionDoc
      /\ RunNumber(task[r]) \in Nat /\ RunNumber(task'[r]) \in Nat
  <2>1. task[r] \in Task /\ task[r].state = "active" /\ exec[r].pc # "idle"
    BY <1>1, ExecutionEnds DEF InStep, TypeInv, TypeOK
  <2>2. RunNumber(task[r]) \in Nat
    BY <2>1, TaskRuns
  <2>. QED
    BY <1>1, <2>1, <2>2, ExecutionEnds DEF InStep, TypeInv, TypeOK
<1>3. /\ exec'[r] = NoExec /\ exec'[r].pc = "idle"
      /\ UNCHANGED <<content, docs, api, deliveries, told>> /\ RowsOf(r)' = RowsOf(r)
      /\ \/ task'[r].state = "queued" /\ RunNumber(task'[r]) = RunNumber(task[r]) + 1
         \/ Over(r)' /\ RunNumber(task'[r]) = RunNumber(task[r])
      /\ LateOf(r)' = LateOf(r) \/ LateOf(r)' = LateOf(r) \cup {left}
  BY <1>1, ExecutionEnds DEF NoExec, RowsOf, LateOf
<1>4. ~Over(r) /\ ~First(r)'
  BY <1>2, <1>3 DEF Over, First
<1>. HIDE DEF left
<1>5. left.req = r /\ left.exec = exec[r]
  BY DEF left
<1>6. InStep(r)'
  BY <1>1, <1>2, <1>3 DEF InStep, Over
<1>7. SignedInTurn(r)'
  <2>1. exec'[r].xml = "none" /\ ~exec'[r].wasSigned
    BY <1>3 DEF NoExec
  <2>. QED
    BY <1>4, <2>1 DEF SignedInTurn
<1>8. Counted(r)'
  <2>. DEFINE calls == CountingCalls(r)
              own   == IF exec[r].pc \in MayCount THEN 1 ELSE 0
  <2>1. IsFiniteSet(calls) /\ Cardinality(calls) \in Nat /\ docs[r].retryCount \in Nat
    BY <1>1, <1>2, FS_CardinalityType DEF Counting, Counted, EmissionDoc
  <2>2. docs[r].retryCount + Cardinality(calls) + own <= RunNumber(task[r]) + 1
    BY <1>1, <1>2 DEF Counting, Counted
  <2>3. /\ IsFiniteSet(CountingCalls(r)') /\ Cardinality(CountingCalls(r)') \in Nat
        /\ Cardinality(CountingCalls(r)') <= Cardinality(calls) + own
    <3>1. CASE exec[r].pc \in {"bump", "reject"}
      <4>1. CountingCalls(r)' = calls \/ CountingCalls(r)' = calls \cup {left}
        BY <1>3, <1>5, <3>1 DEF CountingCalls
      <4>2. own = 1
        BY <3>1 DEF MayCount
      <4>. HIDE DEF calls, own
      <4>3. /\ IsFiniteSet(calls \cup {left}) /\ Cardinality(calls \cup {left}) \in Nat
            /\ Cardinality(calls \cup {left}) <= Cardinality(calls) + 1
        BY <2>1, GrowsByOne
      <4>4. Cardinality(calls) <= Cardinality(calls) + 1
        BY <2>1
      <4>5. CASE CountingCalls(r)' = calls
        BY <2>1, <4>2, <4>4, <4>5
      <4>6. CASE CountingCalls(r)' = calls \cup {left}
        BY <4>2, <4>3, <4>6
      <4>. QED
        BY <4>1, <4>5, <4>6
    <3>2. CASE exec[r].pc \notin {"bump", "reject"}
      <4>1. CountingCalls(r)' = calls
        BY <1>3, <1>5, <3>2 DEF CountingCalls
      <4>. HIDE DEF calls
      <4>. QED
        BY <2>1, <4>1
    <3>. QED
      BY <3>1, <3>2
  <2>4. RunNumber(task[r]) + 1 <=
            RunNumber(task'[r]) + (IF task'[r].state \in {"none", "queued"} THEN 0 ELSE 1)
    BY <1>2, <1>3 DEF Over
  <2>5. exec'[r].pc \notin MayCount
    BY <1>3 DEF MayCount
  <2>6. docs'[r].retryCount = docs[r].retryCount /\ own \in Nat
    BY <1>3
  <2>. HIDE DEF calls, own
  <2>. QED
    BY <1>2, <2>1, <2>2, <2>3, <2>4, <2>5, <2>6 DEF Counted
<1>9. RowsInTurn(r)'
  <2>1. \A row \in RowsOf(r) : row.run \in Nat
    BY <1>1 DEF RowsOf, TypeInv, TypeOK, Delivery
  <2>2. \A call \in RowCalls(r) : call.exec.run \in Nat
    BY <1>1 DEF RowCalls, LateOf, TypeInv, TypeOK, Call, Exec
  <2>3. \A run \in Nat : Past(r, run) \/ run = exec[r].run => Past(r, run)'
    BY <1>2, <1>3, <1>4 DEF Past, Over
  <2>4. ~Past(r, exec[r].run)
    BY <1>2, <1>4 DEF Past
  <2>5. \A row \in RowsOf(r) : Past(r, row.run)'
    BY <1>1, <2>1, <2>3 DEF Counting, RowsInTurn
  <2>6. HeardOf(r, exec[r])' /\ HeardOf(r, exec[r])
    BY <1>1, <1>3 DEF HeardOf, Counting, RowsInTurn
  <2>7. RowCalls(r)' \subseteq RowCalls(r) \cup {left}
    BY <1>3 DEF RowCalls
  <2>8. \A e : HeardOf(r, e) => HeardOf(r, e)'
    BY <1>3 DEF HeardOf
  <2>9. left \in RowCalls(r)' =>
          \A row \in RowsOf(r) : row.run = left.exec.run => row.event = EventOf(left.exec)
    <3>1. ASSUME exec[r].pc \in {"notify", "close"}, NEW row \in RowsOf(r), row.run = exec[r].run
          PROVE  row.event = EventOf(exec[r])
      BY <1>1, <2>4, <3>1 DEF Counting, RowsInTurn
    <3>. QED
      BY <1>5, <3>1 DEF RowCalls
  <2>10. \A call \in RowCalls(r) : call.exec.run # left.exec.run
    BY <1>1, <1>5, <2>4 DEF Counting, RowsInTurn
  <2>11. ASSUME NEW call \in RowCalls(r)'
         PROVE  /\ Past(r, call.exec.run)'
                /\ HeardOf(r, call.exec)'
                /\ \A row \in RowsOf(r) : row.run = call.exec.run => row.event = EventOf(call.exec)
                /\ \A other \in RowCalls(r)' : other.exec.run = call.exec.run => other = call
    <3>1. CASE call \in RowCalls(r)
      BY <1>1, <2>2, <2>3, <2>7, <2>8, <2>10, <3>1 DEF Counting, RowsInTurn
    <3>2. CASE call = left
      <4>1. exec[r].run \in Nat
        BY <1>2
      <4>. QED
        BY <1>5, <2>3, <2>6, <2>7, <2>8, <2>9, <2>10, <2>11, <3>2, <4>1
    <3>. QED
      BY <2>7, <2>11, <3>1, <3>2
  <2>12. \A row \in RowsOf(r) : row.status = "success" => row.event \in told[r]
    BY <1>1 DEF Counting, RowsInTurn
  <2>. QED
    BY <1>3, <2>5, <2>6, <2>11, <2>12 DEF RowsInTurn
<1>. QED
  BY <1>6, <1>7, <1>8, <1>9 DEF Counting

LEMMA HandlerCounting ==
    ASSUME RInv, NEW r \in Requests, HandlerStep(r)
    PROVE  Counting(r)'
<1>. DEFINE left == [req |-> r, exec |-> exec[r]]
<1>1. Counting(r) /\ TypeInv /\ exec[r] \in Exec /\ docs[r] \in EmissionDoc
  BY DEF RInv, TypeInv, TypeOK
<1>2. /\ UNCHANGED <<content, api, task>>
      /\ exec[r].pc # "idle" /\ exec'[r].pc # "idle" /\ exec'[r].pc # "load"
      /\ exec'[r].run = exec[r].run
  BY <1>1, HandlerStepLocal, HandlerMoves
<1>3. /\ task[r].state = "active" /\ exec[r].run = RunNumber(task[r])
      /\ RunNumber(task[r]) \in Nat /\ ~Over(r) /\ ~Past(r, exec[r].run)
  BY <1>1, <1>2, TaskRuns DEF Counting, InStep, Over, Past, TypeInv, TypeOK
<1>4. \/ LateOf(r)' = LateOf(r)
      \/ exec[r].pc \in {"submit", "send"} /\ LateOf(r)' = LateOf(r) \cup {left}
  BY <1>1, HandlerWrites DEF LateOf
<1>. HIDE DEF left
<1>5. left.req = r /\ left.exec = exec[r]
  BY DEF left
<1>6. RowCalls(r)' = RowCalls(r) /\ CountingCalls(r)' = CountingCalls(r)
  BY <1>4, <1>5 DEF RowCalls, CountingCalls
<1>7. InStep(r)'
  BY <1>1, <1>2, <1>3 DEF Counting, InStep
<1>8. SignedInTurn(r)'
  <2>1. ASSUME content[r].kind = "certificate", First(r)
        PROVE  \A call \in LateOf(r)' : call.exec.pc # "record"
    BY <1>1, <1>4, <1>5, <2>1 DEF Counting, SignedInTurn
  <2>2. ASSUME content[r].kind = "certificate", First(r), exec'[r].pc \in BeforeRecord
        PROVE  ~docs'[r].isSigned
    <3>1. exec[r].pc \in BeforeRecord \ {"record"}
      BY <1>1, <2>2, HandlerMoves
    <3>2. ~docs[r].isSigned
      BY <1>1, <2>2, <3>1 DEF Counting, SignedInTurn
    <3>. QED
      BY <1>1, <3>1, <3>2, HandlerWrites
  <2>3. ASSUME content[r].kind = "certificate", exec'[r].wasSigned
        PROVE  docs'[r].isSigned /\ ~First(r)
    <3>1. docs[r].isSigned => docs'[r].isSigned
      BY <1>1, HandlerWrites
    <3>2. CASE exec[r].wasSigned
      BY <1>1, <2>3, <3>1, <3>2 DEF Counting, SignedInTurn
    <3>3. CASE exec[r].pc = "load" /\ docs[r].isSigned
      BY <1>1, <2>3, <3>1, <3>3 DEF Counting, SignedInTurn, BeforeRecord
    <3>. QED
      BY <1>1, <2>3, <3>2, <3>3, HandlerMoves
  <2>4. ASSUME content[r].kind = "certificate", exec'[r].xml = "unsigned"
        PROVE  exec'[r].wasSigned
    <3>1. exec[r].wasSigned /\ exec[r].pc # "load"
      <4>1. CASE exec[r].xml = "unsigned"
        BY <1>1, <2>4, <4>1 DEF Counting, SignedInTurn
      <4>2. CASE exec[r].wasSigned /\ exec[r].pc = "prepare"
        BY <4>2
      <4>. QED
        BY <1>1, <2>4, <4>1, <4>2, HandlerMoves
    <3>. QED
      BY <1>1, <3>1, HandlerMoves
  <2>5. First(r)' = First(r)
    BY <1>2 DEF First, Over
  <2>. QED
    BY <1>2, <2>1, <2>2, <2>3, <2>4, <2>5 DEF SignedInTurn
<1>9. Counted(r)'
  <2>. DEFINE calls == CountingCalls(r)
              own   == IF exec[r].pc \in MayCount THEN 1 ELSE 0
              after == IF exec'[r].pc \in MayCount THEN 1 ELSE 0
  <2>1. IsFiniteSet(calls) /\ Cardinality(calls) \in Nat /\ docs[r].retryCount \in Nat
    BY <1>1, FS_CardinalityType DEF Counting, Counted, EmissionDoc
  <2>2. docs[r].retryCount + Cardinality(calls) + own <= RunNumber(task[r]) + 1
    BY <1>1, <1>3 DEF Counting, Counted
  <2>3. docs'[r].retryCount + after <= docs[r].retryCount + own /\ docs'[r].retryCount \in Nat
    <3>1. CASE exec[r].pc \in {"bump", "reject"}
      <4>1. own = 1 /\ after = 0
        BY <1>1, <3>1, HandlerMoves DEF MayCount
      <4>2. docs'[r].retryCount \in {docs[r].retryCount, docs[r].retryCount + 1}
        BY <1>1, <3>1, HandlerWrites
      <4>. HIDE DEF own, after
      <4>. QED
        BY <2>1, <4>1, <4>2
    <3>2. CASE exec[r].pc \notin {"bump", "reject"}
      <4>1. after <= own /\ after \in Nat /\ own \in Nat
        BY <1>1, HandlerMoves
      <4>2. docs'[r].retryCount = docs[r].retryCount
        BY <1>1, <3>2, HandlerWrites
      <4>. HIDE DEF own, after
      <4>. QED
        BY <2>1, <4>1, <4>2
    <3>. QED
      BY <3>1, <3>2
  <2>4. after \in Nat /\ own \in Nat
    OBVIOUS
  <2>5. docs'[r].retryCount + Cardinality(calls) + after <= RunNumber(task[r]) + 1
    <3>. HIDE DEF calls, own, after
    <3>. QED
      BY <1>3, <2>1, <2>2, <2>3, <2>4
  <2>. QED
    BY <1>2, <1>3, <1>6, <2>1, <2>5 DEF Counted
<1>10. RowsInTurn(r)'
  <2>1. told[r] \subseteq told'[r] /\ \A e : HeardOf(r, e) => HeardOf(r, e)'
    BY <1>1, HandlerTells DEF HeardOf
  <2>2. \A run : Past(r, run)' <=> Past(r, run)
    BY <1>2 DEF Past, Over
  <2>3. exec[r].pc \in {"notify", "send", "close"} =>
          EventOf(exec'[r]) = EventOf(exec[r]) /\ exec'[r].pc \in {"send", "close", "ok"}
    BY <1>1, HandlerMoves DEF EventOf
  <2>4. HeardOf(r, exec[r])'
    BY <1>1, <2>3, HandlerMoves, HandlerTells DEF HeardOf
  <2>5. ASSUME NEW row \in RowsOf(r), ~Past(r, row.run)
        PROVE  /\ exec[r].pc \in {"send", "close"} /\ row.run = exec[r].run
               /\ row.event = EventOf(exec[r])
    BY <1>1, <2>5, HandlerMoves DEF Counting, RowsInTurn
  <2>6. \A row \in RowsOf(r) : row.run = exec[r].run => row.event = EventOf(exec[r])
    BY <1>3, <2>5
  <2>7. \A call \in RowCalls(r) : Past(r, call.exec.run)
    BY <1>1 DEF Counting, RowsInTurn
  \* Every row there is now has its number and event from a row that was there before, or
  \* from the execution that has just inserted it.
  <2>8. ASSUME NEW new \in RowsOf(r)'
        PROVE  /\ \/ \E row \in RowsOf(r) : new.run = row.run /\ new.event = row.event
                  \/ /\ exec[r].pc = "notify"
                     /\ new.run = exec[r].run /\ new.event = EventOf(exec[r])
               /\ new.status = "success" => new.event \in told'[r]
    <3>1. new \in deliveries' /\ new.req = r
      BY <2>8 DEF RowsOf
    <3>2. \A row \in RowsOf(r) : row.status = "success" => row.event \in told'[r]
      BY <1>1, <2>1 DEF Counting, RowsInTurn
    <3>3. CASE new \in deliveries
      BY <3>1, <3>2, <3>3 DEF RowsOf
    <3>4. CASE exec[r].pc = "notify" /\ new = NewDelivery(r, exec[r].run, EventOf(exec[r]))
      BY <3>4 DEF NewDelivery
    <3>5. ASSUME exec[r].pc = "close",
                 new \in MarkDelivery(deliveries, r, exec[r].run,
                                      IF exec[r].delivered THEN "success" ELSE "failed")
          PROVE  /\ \E row \in RowsOf(r) : new.run = row.run /\ new.event = row.event
                 /\ new.status = "success" => new.event \in told'[r]
      <4>1. PICK row \in deliveries :
                /\ new.req = row.req /\ new.run = row.run /\ new.event = row.event
                /\ \/ new.status = row.status
                   \/ /\ row.req = r /\ row.run = exec[r].run
                      /\ new.status = IF exec[r].delivered THEN "success" ELSE "failed"
        BY <1>1, <3>5, MarkedRow DEF TypeInv, TypeOK
      <4>2. row \in RowsOf(r)
        BY <3>1, <4>1 DEF RowsOf
      <4>3. CASE new.status = row.status
        BY <3>2, <4>1, <4>2, <4>3
      <4>4. CASE row.run = exec[r].run
                 /\ new.status = IF exec[r].delivered THEN "success" ELSE "failed"
        <5>1. row.event = EventOf(exec[r])
          BY <2>6, <4>2, <4>4
        <5>2. new.status = "success" => exec[r].delivered
          BY <4>4
        <5>3. exec[r].delivered => EventOf(exec[r]) \in told[r]
          BY <1>1, <3>5 DEF Counting, RowsInTurn, HeardOf
        <5>. QED
          BY <2>1, <4>1, <4>2, <5>1, <5>2, <5>3
      <4>. QED
        BY <4>1, <4>3, <4>4
    <3>. QED
      BY <1>1, <3>1, <3>3, <3>4, <3>5, HandlerTells
  <2>9. ASSUME NEW new \in RowsOf(r)'
        PROVE  \/ Past(r, new.run)
               \/ /\ exec'[r].pc \in {"send", "close", "ok"}
                  /\ new.run = exec'[r].run
                  /\ exec'[r].pc \in {"send", "close"} => new.event = EventOf(exec'[r])
    <3>1. CASE \E row \in RowsOf(r) : new.run = row.run /\ new.event = row.event
      BY <1>2, <2>3, <2>5, <3>1
    <3>2. CASE /\ exec[r].pc = "notify"
               /\ new.run = exec[r].run /\ new.event = EventOf(exec[r])
      BY <1>2, <2>3, <3>2
    <3>. QED
      BY <2>8, <3>1, <3>2
  <2>10. ASSUME NEW call \in RowCalls(r), NEW new \in RowsOf(r)', new.run = call.exec.run
         PROVE  new.event = EventOf(call.exec)
    <3>1. new.run # exec[r].run
      BY <1>3, <2>7, <2>10
    <3>2. PICK row \in RowsOf(r) : new.run = row.run /\ new.event = row.event
      BY <2>8, <3>1
    <3>. QED
      BY <1>1, <2>10, <3>2 DEF Counting, RowsInTurn
  <2>11. \A call \in RowCalls(r) :
            /\ HeardOf(r, call.exec)'
            /\ \A other \in RowCalls(r) : other.exec.run = call.exec.run => other = call
    BY <1>1, <2>1 DEF Counting, RowsInTurn
  <2>. QED
    BY <1>6, <2>2, <2>4, <2>7, <2>8, <2>9, <2>10, <2>11 DEF RowsInTurn
<1>. QED
  BY <1>7, <1>8, <1>9, <1>10 DEF Counting

LEMMA ArriveCounting ==
    ASSUME RInv, NEW call \in late, Arrive(call)
    PROVE  \A q \in Requests : Counting(q)'
<1>. DEFINE r == call.req
            e == call.exec
            run == e.run
            status == IF e.delivered THEN "success" ELSE "failed"
<1>1. /\ r \in Requests /\ e \in Exec /\ call \in LateOf(r)
      /\ Counting(r) /\ TypeInv /\ docs[r] \in EmissionDoc
  BY DEF RInv, TypeInv, TypeOK, Call, LateOf
<1>2. /\ UNCHANGED <<content, api, task, exec>>
      /\ late' = late \ {call}
      /\ docs' = [docs EXCEPT ![r] = PendingWrite(docs[r], e)]
      /\ told' = told \/ (e.pc = "send" /\ told' = Tell(r, e))
      /\ \/ deliveries' = deliveries
         \/ e.pc = "notify" /\ deliveries' = deliveries \cup {NewDelivery(r, run, EventOf(e))}
         \/ e.pc = "close" /\ deliveries' = MarkDelivery(deliveries, r, run, status)
  BY DEF Arrive
<1>. HIDE DEF r, e, run, status
<1>3. docs'[r] = PendingWrite(docs[r], e)
  BY <1>1, <1>2 DEF TypeInv, TypeOK
<1>4. ASSUME NEW q \in Requests \ {r}
      PROVE  Counting(q)'
  <2>1. docs'[q] = docs[q] /\ told'[q] = told[q]
    BY <1>1, <1>2 DEF Tell, TypeInv, TypeOK
  <2>2. LateOf(q)' = LateOf(q)
    BY <1>2, <1>4 DEF LateOf, r
  <2>3. RowsOf(q)' = RowsOf(q)
    <3>1. CASE deliveries' = deliveries
      BY <3>1 DEF RowsOf
    <3>2. CASE deliveries' = deliveries \cup {NewDelivery(r, run, EventOf(e))}
      BY <1>4, <3>2, OtherRows
    <3>3. CASE deliveries' = MarkDelivery(deliveries, r, run, status)
      <4>1. deliveries \subseteq Delivery(Requests)
        BY <1>1 DEF TypeInv, TypeOK
      <4>. QED
        BY <1>4, <3>3, <4>1, OtherRows
    <3>. QED
      BY <1>2, <3>1, <3>2, <3>3
  <2>4. Untouched(q) /\ Counting(q)
    BY <1>2, <2>1, <2>2, <2>3 DEF Untouched, RInv
  <2>. QED
    BY <2>4, UntouchedKeeps
<1>5. LateOf(r)' = LateOf(r) \ {call}
  BY <1>2 DEF LateOf
<1>6. task[r].state # "none"
  BY <1>1 DEF Counting, InStep
<1>7. InStep(r)'
  BY <1>1, <1>2, <1>5, <1>6 DEF Counting, InStep
<1>8. SignedInTurn(r)'
  <2>1. docs[r].isSigned => docs'[r].isSigned
    BY <1>1, <1>3, PendingWriteCounts
  <2>2. content[r].kind = "certificate" /\ First(r) => (docs'[r].isSigned => docs[r].isSigned)
    <3>1. docs'[r].isSigned => docs[r].isSigned \/ e.pc = "record"
      BY <1>1, <1>3, PendingWriteCounts
    <3>2. content[r].kind = "certificate" /\ First(r) => e.pc # "record"
      BY <1>1 DEF Counting, SignedInTurn, e
    <3>. QED
      BY <3>1, <3>2
  <2>. QED
    BY <1>1, <1>2, <1>5, <2>1, <2>2 DEF Counting, SignedInTurn, First, Over
<1>9. Counted(r)'
  <2>1. /\ IsFiniteSet(CountingCalls(r)) /\ Cardinality(CountingCalls(r)) \in Nat
        /\ docs[r].retryCount \in Nat
    BY <1>1, FS_CardinalityType DEF Counting, Counted, EmissionDoc
  <2>2. CASE e.pc \in {"bump", "reject"}
    <3>1. call \in CountingCalls(r) /\ CountingCalls(r)' = CountingCalls(r) \ {call}
      BY <1>1, <1>5, <2>2 DEF CountingCalls, e
    <3>2. /\ IsFiniteSet(CountingCalls(r)')
          /\ Cardinality(CountingCalls(r)') = Cardinality(CountingCalls(r)) - 1
      BY <2>1, <3>1, FS_RemoveElement
    <3>3. docs'[r].retryCount = docs[r].retryCount + 1
      BY <1>1, <1>3, <2>2, PendingWriteCounts
    <3>4. docs'[r].retryCount + Cardinality(CountingCalls(r)')
            = docs[r].retryCount + Cardinality(CountingCalls(r))
      BY <2>1, <3>2, <3>3
    <3>. QED
      BY <1>1, <1>2, <3>2, <3>4 DEF Counting, Counted
  <2>3. CASE e.pc \notin {"bump", "reject"}
    <3>1. CountingCalls(r)' = CountingCalls(r)
      BY <1>5, <2>3 DEF CountingCalls, e
    <3>2. docs'[r].retryCount = docs[r].retryCount
      BY <1>1, <1>3, <2>3, PendingWriteCounts
    <3>. QED
      BY <1>1, <1>2, <3>1, <3>2 DEF Counting, Counted
  <2>. QED
    BY <2>2, <2>3
<1>10. RowsInTurn(r)'
  <2>1. told[r] \subseteq told'[r] /\ \A x : HeardOf(r, x) => HeardOf(r, x)'
    BY <1>1, <1>2 DEF HeardOf, Tell, TypeInv, TypeOK
  <2>2. \A n : Past(r, n)' <=> Past(r, n)
    BY <1>2 DEF Past, Over
  <2>3. RowCalls(r)' = RowCalls(r) \ {call}
    BY <1>5 DEF RowCalls
  <2>4. e.pc \in {"notify", "close"} =>
          /\ call \in RowCalls(r) /\ Past(r, run) /\ HeardOf(r, e)
          /\ \A row \in RowsOf(r) : row.run = run => row.event = EventOf(e)
          /\ \A other \in RowCalls(r)' : other.exec.run # run
    BY <1>1, <2>3 DEF Counting, RowsInTurn, RowCalls, e, run
  \* Every row there is now has its number and event from a row that was there before, or
  \* from the call that has just inserted it.
  <2>5. ASSUME NEW new \in RowsOf(r)'
        PROVE  /\ \/ \E row \in RowsOf(r) : new.run = row.run /\ new.event = row.event
                  \/ e.pc = "notify" /\ new.run = run
               /\ new.status = "success" => new.event \in told'[r]
    <3>1. new \in deliveries' /\ new.req = r
      BY <2>5, <1>1 DEF RowsOf
    <3>2. \A row \in RowsOf(r) : row.status = "success" => row.event \in told'[r]
      BY <1>1, <2>1 DEF Counting, RowsInTurn
    <3>3. CASE new \in deliveries
      BY <3>1, <3>2, <3>3 DEF RowsOf
    <3>4. CASE e.pc = "notify" /\ new = NewDelivery(r, run, EventOf(e))
      BY <3>4 DEF NewDelivery
    <3>5. ASSUME e.pc = "close", new \in MarkDelivery(deliveries, r, run, status)
          PROVE  /\ \E row \in RowsOf(r) : new.run = row.run /\ new.event = row.event
                 /\ new.status = "success" => new.event \in told'[r]
      <4>1. PICK row \in deliveries :
                /\ new.req = row.req /\ new.run = row.run /\ new.event = row.event
                /\ \/ new.status = row.status
                   \/ row.req = r /\ row.run = run /\ new.status = status
        BY <1>1, <3>5, MarkedRow DEF TypeInv, TypeOK
      <4>2. row \in RowsOf(r)
        BY <3>1, <4>1 DEF RowsOf
      <4>3. CASE new.status = row.status
        BY <3>2, <4>1, <4>2, <4>3
      <4>4. CASE row.run = run /\ new.status = status
        <5>1. row.event = EventOf(e)
          BY <2>4, <3>5, <4>2, <4>4
        <5>2. new.status = "success" => e.delivered
          BY <4>4 DEF status
        <5>3. e.delivered => EventOf(e) \in told[r]
          BY <2>4, <3>5 DEF HeardOf
        <5>. QED
          BY <2>1, <4>1, <4>2, <5>1, <5>2, <5>3
      <4>. QED
        BY <4>1, <4>3, <4>4
    <3>. QED
      BY <1>2, <3>1, <3>3, <3>4, <3>5
  <2>6. ASSUME NEW new \in RowsOf(r)'
        PROVE  \/ Past(r, new.run)
               \/ /\ exec[r].pc \in {"send", "close", "ok"}
                  /\ new.run = exec[r].run
                  /\ exec[r].pc \in {"send", "close"} => new.event = EventOf(exec[r])
    BY <1>1, <2>4, <2>5 DEF Counting, RowsInTurn
  <2>7. ASSUME NEW c \in RowCalls(r)', NEW new \in RowsOf(r)', new.run = c.exec.run
        PROVE  new.event = EventOf(c.exec)
    <3>1. ~(e.pc = "notify" /\ new.run = run)
      BY <2>4, <2>7
    <3>2. PICK row \in RowsOf(r) : new.run = row.run /\ new.event = row.event
      BY <2>5, <3>1
    <3>. QED
      BY <1>1, <2>3, <2>7, <3>2 DEF Counting, RowsInTurn
  <2>8. \A c \in RowCalls(r)' :
            /\ Past(r, c.exec.run)
            /\ HeardOf(r, c.exec)'
            /\ \A other \in RowCalls(r)' : other.exec.run = c.exec.run => other = c
    BY <1>1, <2>1, <2>3 DEF Counting, RowsInTurn
  <2>9. HeardOf(r, exec[r])'
    BY <1>1, <1>2, <2>1 DEF Counting, RowsInTurn
  <2>. QED
    BY <1>2, <2>2, <2>5, <2>6, <2>7, <2>8, <2>9 DEF RowsInTurn
<1>11. Counting(r)'
  BY <1>7, <1>8, <1>9, <1>10 DEF Counting
<1>. QED
  BY <1>4, <1>11

LEMMA RInvStep ==
    ASSUME RInv, [Next]_vars
    PROVE  RInv'
<1>1. ASSUME NEW r \in Requests,
             ApiStep(r) \/ ApiCrash(r) \/ HandlerStep(r) \/ Dispatch(r) \/ Ends(r)
      PROVE  \A q \in Requests : Counting(q)'
  <2>1. Counting(r)'
    BY <1>1, ApiCounting, HandlerCounting, DispatchCounting, EndCounting
  <2>2. ASSUME NEW q \in Requests \ {r}
        PROVE  Counting(q)'
    <3>1. Untouched(q)
      BY <1>1, OthersUntouched DEF RInv, Counting
    <3>. QED
      BY <3>1, UntouchedKeeps DEF RInv
  <2>. QED
    BY <2>1, <2>2
<1>2. ASSUME UNCHANGED vars, NEW q \in Requests
      PROVE  Counting(q)'
  BY <1>2, UntouchedKeeps DEF RInv, Untouched, LateOf, RowsOf, vars
<1>3. \A q \in Requests : Counting(q)'
  BY <1>1, <1>2, ArriveCounting DEF Next, QueueStep, Disturbance, Ends
<1>. QED
  BY <1>3, TypeInvStep, FreshStep DEF RInv

LEMMA RInvAlways == Spec => []RInv
<1>1. Init => RInv
  BY TypeInvInit, FreshInit, CountingInit DEF RInv
<1>2. RInv /\ [Next]_vars => RInv'
  BY RInvStep
<1>. QED
  BY <1>1, <1>2, PTL DEF Spec

-------------------------------------------------------------------------------
\* A request with a certificate is put before the government unsigned only when an earlier
\* execution has recorded that it signed.
THEOREM UnsignedComesLater == Spec => []UnsignedOnlyAfterSigning
<1>1. RInv => UnsignedOnlyAfterSigning
  <2>. SUFFICES ASSUME RInv, NEW r \in Requests, At(r, "submit"),
                       content[r].kind = "certificate", exec[r].xml = "unsigned"
                PROVE  docs[r].isSigned /\ RunNumber(task[r]) > 0
    BY DEF UnsignedOnlyAfterSigning
  <2>1. docs[r].isSigned /\ ~First(r) /\ task[r].state = "active"
    BY DEF RInv, Counting, SignedInTurn, InStep, At
  <2>2. RunNumber(task[r]) \in Nat
    BY TaskRuns DEF RInv, TypeInv, TypeOK
  <2>. QED
    BY <2>1, <2>2 DEF First, Over
<1>. QED
  BY <1>1, RInvAlways, PTL

\* retry_count never exceeds the number of executions the request has had.
THEOREM RetriesAreCounted == Spec => []RetryCountHonest
<1>1. RInv => RetryCountHonest
  <2>. SUFFICES ASSUME RInv, NEW r \in Requests
                PROVE  docs[r].retryCount <=
                         RunNumber(task[r]) + (IF task[r].state = "queued" THEN 0 ELSE 1)
    BY DEF RetryCountHonest
  <2>1. /\ docs[r].retryCount \in Nat /\ Cardinality(CountingCalls(r)) \in Nat
        /\ RunNumber(task[r]) \in Nat
    BY FS_CardinalityType, TaskRuns DEF RInv, TypeInv, TypeOK, EmissionDoc, Counting, Counted
  <2>2. docs[r].retryCount + Cardinality(CountingCalls(r))
          + (IF exec[r].pc \in MayCount THEN 1 ELSE 0)
        <= RunNumber(task[r]) + (IF task[r].state \in {"none", "queued"} THEN 0 ELSE 1)
    BY DEF RInv, Counting, Counted
  <2>. QED
    BY <2>1, <2>2
<1>. QED
  BY <1>1, RInvAlways, PTL

\* A delivery row marked success belongs to an event that the integrator has received.
THEOREM DeliveriesGrounded == Spec => []DeliveryGrounded
<1>1. RInv => DeliveryGrounded
  BY DEF RInv, TypeInv, TypeOK, Delivery, Counting, RowsInTurn, RowsOf, DeliveryGrounded
<1>. QED
  BY <1>1, RInvAlways, PTL
-------------------------------------------------------------------------------
(***************************************************************************)
(* What a request may still cost is spent by every step.                   *)
(***************************************************************************)

\* The queue repeats within its limits.
WithinLimits(r) == task[r].retried <= MaxRetry /\ task[r].requeued <= MaxRequeue

BInv == RInv /\ IsFiniteSet(late) /\ \A r \in Requests : WithinLimits(r)

LEMMA RetriesWithin ==
    ASSUME NEW t \in Task, t.retried <= MaxRetry
    PROVE  /\ RetryOrArchive(t).retried <= MaxRetry
           /\ RetryOrArchive(t).requeued = t.requeued
           /\ \/ /\ RetryOrArchive(t).state = "queued"
                 /\ RetryOrArchive(t).retried = t.retried + 1
              \/ RetryOrArchive(t).state = "archived"
BY MaxRetryAssumption DEF RetryOrArchive, Task

LEMMA LimitsKept ==
    ASSUME BInv, NEW r \in Requests,
           ApiStep(r) \/ ApiCrash(r) \/ HandlerStep(r) \/ Dispatch(r) \/ Ends(r)
    PROVE  WithinLimits(r)'
<1>. USE DEF WithinLimits, BInv, RInv, TypeInv, TypeOK, Task
<1>1. task \in [Requests -> Task] /\ task[r] \in Task /\ MaxRetry \in Nat /\ MaxRequeue \in Nat
  BY MaxRetryAssumption, PipelineAssumption
<1>2. CASE ApiStep(r) \/ ApiCrash(r)
  BY <1>1, <1>2 DEF ApiStep, ApiCrash, CreateFromJson, CreateFromXml, Insert, EnqueueTask,
                    Enqueued, NoTask
<1>3. CASE HandlerStep(r)
  BY <1>3, HandlerStepLocal
<1>4. CASE Dispatch(r)
  BY <1>1, <1>4 DEF Dispatch, Dequeue
<1>5. CASE Ack(r)
  BY <1>1, <1>5 DEF Ack, MarkDone
<1>6. CASE Nack(r) \/ Expire(r)
  <2>1. task'[r] = RetryOrArchive(task[r])
    BY <1>1, <1>6 DEF Nack, Expire
  <2>. QED
    BY <1>1, <2>1, RetriesWithin
<1>7. CASE Abort(r)
  BY <1>1, <1>7 DEF Abort, Requeue
<1>. QED
  BY <1>2, <1>3, <1>4, <1>5, <1>6, <1>7 DEF Ends

\* At most the call that was being made is left behind.
LEMMA LateGrows ==
    ASSUME RInv, NEW r \in Requests,
           ApiStep(r) \/ ApiCrash(r) \/ HandlerStep(r) \/ Dispatch(r) \/ Ends(r)
    PROVE  late' = late \/ late' = late \cup {[req |-> r, exec |-> exec[r]]}
<1>1. CASE ApiStep(r) \/ ApiCrash(r) \/ Dispatch(r)
  BY <1>1 DEF ApiStep, ApiCrash, CreateFromJson, CreateFromXml, Insert, EnqueueTask, Dispatch
<1>2. CASE HandlerStep(r)
  BY <1>2, HandlerStepLocal DEF RInv
<1>3. CASE Ends(r)
  BY <1>3, ExecutionEnds DEF RInv, Counting
<1>. QED
  BY <1>1, <1>2, <1>3

LEMMA BInvStep ==
    ASSUME BInv, [Next]_vars
    PROVE  BInv'
<1>1. RInv'
  BY RInvStep DEF BInv
<1>2. ASSUME NEW r \in Requests,
             ApiStep(r) \/ ApiCrash(r) \/ HandlerStep(r) \/ Dispatch(r) \/ Ends(r)
      PROVE  IsFiniteSet(late)' /\ \A q \in Requests : WithinLimits(q)'
  <2>1. IsFiniteSet(late')
    BY <1>2, LateGrows, GrowsByOne DEF BInv
  <2>2. \A q \in Requests \ {r} : WithinLimits(q)'
    BY <1>2, OthersUntouched DEF BInv, RInv, Counting, Untouched, WithinLimits
  <2>. QED
    BY <1>2, <2>1, <2>2, LimitsKept
<1>3. ASSUME NEW call \in late, Arrive(call)
      PROVE  IsFiniteSet(late)' /\ \A q \in Requests : WithinLimits(q)'
  <2>1. late' = late \ {call} /\ task' = task
    BY <1>3 DEF Arrive
  <2>. QED
    BY <2>1, FS_Subset DEF BInv, WithinLimits
<1>4. ASSUME UNCHANGED vars
      PROVE  IsFiniteSet(late)' /\ \A q \in Requests : WithinLimits(q)'
  BY <1>4 DEF BInv, WithinLimits, vars
<1>. QED
  BY <1>1, <1>2, <1>3, <1>4 DEF BInv, Next, QueueStep, Disturbance, Ends

LEMMA BInvAlways == Spec => []BInv
<1>1. Init => BInv
  <2>. SUFFICES ASSUME Init PROVE BInv
    OBVIOUS
  <2>1. RInv
    BY TypeInvInit, FreshInit, CountingInit DEF RInv
  <2>2. IsFiniteSet(late) /\ \A r \in Requests : WithinLimits(r)
    BY FS_EmptySet, MaxRetryAssumption, PipelineAssumption DEF Init, WithinLimits, NoTask
  <2>. QED
    BY <2>1, <2>2 DEF BInv
<1>2. BInv /\ [Next]_vars => BInv'
  BY BInvStep
<1>. QED
  BY <1>1, <1>2, PTL DEF Spec

LEMMA StepsAheadType ==
    ASSUME NEW e \in Exec
    PROVE  /\ StepsAhead(e) \in Nat
           /\ e.pc = "idle" => StepsAhead(e) = 0
           /\ e.pc # "idle" => StepsAhead(e) > 0
<1>1. e.pc \in {"idle"} \cup Steps
  BY DEF Exec
<1>2. StepsAhead(e) \in Nat
  BY <1>1 DEF StepsAhead, Steps
<1>3. e.pc = "idle" => StepsAhead(e) = 0
  BY DEF StepsAhead
<1>4. e.pc \in Steps => StepsAhead(e) > 0
  BY DEF StepsAhead, Steps
<1>. QED
  BY <1>1, <1>2, <1>3, <1>4

\* A budget is a number.
BudgetTyped ==
    \A r \in Requests :
        /\ PostAhead(r) \in Nat
        /\ ExecutionsAhead(r) \in Nat
        /\ StepsAhead(exec[r]) \in Nat
        /\ IsFiniteSet(LateOf(r)) /\ Cardinality(LateOf(r)) \in Nat

LEMMA BudgetIsNumber == BInv => BudgetTyped
<1>. SUFFICES ASSUME BInv, NEW r \in Requests
              PROVE  /\ PostAhead(r) \in Nat
                     /\ ExecutionsAhead(r) \in Nat
                     /\ StepsAhead(exec[r]) \in Nat
                     /\ IsFiniteSet(LateOf(r)) /\ Cardinality(LateOf(r)) \in Nat
  BY DEF BudgetTyped
<1>1. task[r] \in Task /\ exec[r] \in Exec
  BY DEF BInv, RInv, TypeInv, TypeOK
<1>2. PostAhead(r) \in Nat
  BY DEF PostAhead
<1>3. ExecutionsAhead(r) \in Nat
  <2>1. Unspent(task[r]) \in Nat
    BY <1>1, MaxRetryAssumption, PipelineAssumption DEF BInv, WithinLimits, Unspent, Task
  <2>. QED
    BY <1>1, <2>1, MaxRetryAssumption, PipelineAssumption DEF ExecutionsAhead, Task, TaskStates
<1>4. StepsAhead(exec[r]) \in Nat
  BY <1>1, StepsAheadType
<1>5. IsFiniteSet(LateOf(r)) /\ Cardinality(LateOf(r)) \in Nat
  BY FS_Subset, FS_CardinalityType DEF BInv, LateOf
<1>. QED
  BY <1>2, <1>3, <1>4, <1>5

\* The handler only goes forward.
LEMMA HandlerGoesOn ==
    ASSUME TypeInv, NEW r \in Requests, HandlerStep(r)
    PROVE  StepsAhead(exec'[r]) < StepsAhead(exec[r])
<1>. USE DEF At, GoTo, StepsAhead
<1>1. exec \in [Requests -> Exec] /\ exec[r] \in Exec
  BY DEF TypeInv, TypeOK
<1>2. CASE Load(r)
  BY <1>1, <1>2 DEF Load, Exec
<1>3. CASE MarkProcessing(r)
  BY <1>1, <1>3 DEF MarkProcessing, Exec
<1>4. CASE UsePreSigned(r) \/ BuildUnsigned(r)
  BY <1>1, <1>4 DEF UsePreSigned, BuildUnsigned, Exec
<1>5. CASE BuildAndSign(r)
  BY <1>1, <1>5 DEF BuildAndSign, Exec
<1>6. CASE RecordSigning(r)
  BY <1>1, <1>6 DEF RecordSigning, Exec
<1>7. CASE Submit(r)
  BY <1>1, <1>7 DEF Submit, Exec
<1>8. CASE SubmitError(r)
  BY <1>1, <1>8 DEF SubmitError, Exec
<1>9. CASE BumpRetryCount(r)
  BY <1>1, <1>9 DEF BumpRetryCount, Exec
<1>10. CASE SaveResult(r)
  BY <1>1, <1>10 DEF SaveResult, Exec
<1>11. CASE SaveRejection(r)
  BY <1>1, <1>11 DEF SaveRejection, Exec
<1>12. CASE CreateDelivery(r)
  <2>1. PICK step \in {"ok", "send"} : GoTo(r, step)
    BY <1>12 DEF CreateDelivery
  <2>2. exec[r].pc = "notify"
    BY <1>12 DEF CreateDelivery
  <2>. QED
    BY <1>1, <2>1, <2>2 DEF Exec
<1>13. CASE SendWebhook(r)
  BY <1>1, <1>13 DEF SendWebhook, Exec
<1>14. CASE CloseDelivery(r)
  BY <1>1, <1>14 DEF CloseDelivery, Exec
<1>. QED
  BY <1>2, <1>3, <1>4, <1>5, <1>6, <1>7, <1>8, <1>9, <1>10, <1>11, <1>12, <1>13, <1>14
  DEF HandlerStep

\* The POST goes forward, and owes no execution that it did not owe before.
LEMMA ApiSpends ==
    ASSUME BInv, NEW r \in Requests, ApiStep(r) \/ ApiCrash(r)
    PROVE  /\ PostAhead(r)' < PostAhead(r)
           /\ ExecutionsAhead(r)' <= ExecutionsAhead(r)
           /\ UNCHANGED <<exec, late>>
<1>1. /\ task \in [Requests -> Task] /\ api \in [Requests -> {"idle", "enqueue", "accepted", "refused", "dropped"}]
      /\ InStep(r) /\ MaxRetry \in Nat /\ MaxRequeue \in Nat
  BY MaxRetryAssumption, PipelineAssumption DEF BInv, RInv, Counting, TypeInv, TypeOK
<1>2. CASE Insert(r)
  <2>1. /\ api[r] = "idle" /\ api'[r] \in {"enqueue", "refused"}
        /\ UNCHANGED <<task, exec, late>> /\ task[r].state = "none"
    BY <1>1, <1>2 DEF Insert, InStep
  <2>. QED
    BY <1>1, <2>1 DEF PostAhead, ExecutionsAhead
<1>3. CASE EnqueueTask(r)
  <2>1. /\ api[r] = "enqueue" /\ api'[r] = "accepted" /\ UNCHANGED <<exec, late>>
        /\ task[r].state = "none"
        /\ task'[r] = task[r] \/ task'[r] = [state |-> "queued", retried |-> 0, requeued |-> 0]
    BY <1>1, <1>3 DEF EnqueueTask, InStep, Enqueued, NoTask
  <2>. QED
    BY <1>1, <2>1 DEF PostAhead, ExecutionsAhead, Unspent
<1>4. CASE ApiCrash(r)
  <2>1. /\ api[r] = "enqueue" /\ api'[r] = "dropped"
        /\ UNCHANGED <<task, exec, late>> /\ task[r].state = "none"
    BY <1>1, <1>4 DEF ApiCrash, InStep
  <2>. QED
    BY <1>1, <2>1 DEF PostAhead, ExecutionsAhead
<1>. QED
  BY <1>2, <1>3, <1>4 DEF ApiStep, CreateFromJson, CreateFromXml

\* The queue pays for an execution when it starts it, and for the next when it repeats one.
LEMMA QueueSpends ==
    ASSUME BInv, NEW r \in Requests
    PROVE  /\ Dispatch(r) => /\ ExecutionsAhead(r)' + 1 = ExecutionsAhead(r)
                             /\ StepsAhead(exec'[r]) = 10
                             /\ UNCHANGED <<api, late>>
           /\ Ends(r) => /\ ExecutionsAhead(r)' <= ExecutionsAhead(r)
                         /\ StepsAhead(exec'[r]) = 0 /\ StepsAhead(exec[r]) > 0
                         /\ UNCHANGED api
<1>1. /\ task \in [Requests -> Task] /\ exec \in [Requests -> Exec] /\ TypeInv
      /\ task[r] \in Task /\ exec[r] \in Exec
      /\ InStep(r) /\ WithinLimits(r) /\ MaxRetry \in Nat /\ MaxRequeue \in Nat
  BY MaxRetryAssumption, PipelineAssumption DEF BInv, RInv, Counting, TypeInv, TypeOK
<1>2. ASSUME Dispatch(r)
      PROVE  /\ ExecutionsAhead(r)' + 1 = ExecutionsAhead(r)
             /\ StepsAhead(exec'[r]) = 10
             /\ UNCHANGED <<api, late>>
  <2>1. /\ task[r].state = "queued" /\ task'[r] = [task[r] EXCEPT !.state = "active"]
        /\ exec'[r].pc = "load" /\ UNCHANGED <<api, late>>
    BY <1>1, <1>2 DEF Dispatch, Dequeue, NoExec
  <2>. QED
    BY <1>1, <2>1 DEF ExecutionsAhead, StepsAhead, Unspent, Task
<1>3. ASSUME Ends(r)
      PROVE  /\ ExecutionsAhead(r)' <= ExecutionsAhead(r)
             /\ StepsAhead(exec'[r]) = 0 /\ StepsAhead(exec[r]) > 0
             /\ UNCHANGED api
  <2>1. exec[r].pc # "idle" /\ exec'[r] = NoExec /\ UNCHANGED api /\ task[r].state = "active"
    BY <1>1, <1>3, ExecutionEnds DEF InStep
  <2>2. StepsAhead(exec[r]) > 0 /\ StepsAhead(exec'[r]) = 0
    BY <1>1, <2>1, StepsAheadType, NoExecType DEF NoExec
  <2>3. ExecutionsAhead(r) = Unspent(task[r]) /\ Unspent(task[r]) \in Nat
    BY <1>1, <2>1 DEF ExecutionsAhead, Unspent, Task, WithinLimits
  <2>4. CASE Ack(r)
    <3>1. task'[r].state = "completed"
      BY <1>1, <2>4 DEF Ack, MarkDone, Task
    <3>. QED
      BY <2>1, <2>2, <2>3, <3>1 DEF ExecutionsAhead
  <2>5. CASE Nack(r) \/ Expire(r)
    <3>1. task'[r] = RetryOrArchive(task[r])
      BY <1>1, <2>5 DEF Nack, Expire
    <3>2. \/ Unspent(task'[r]) + 1 = Unspent(task[r]) /\ task'[r].state = "queued"
          \/ task'[r].state = "archived"
      BY <1>1, <3>1, RetriesWithin DEF Unspent, Task, WithinLimits
    <3>. QED
      BY <2>1, <2>2, <2>3, <3>2 DEF ExecutionsAhead
  <2>6. CASE Abort(r)
    <3>1. task'[r] = Requeue(task[r])
      BY <1>1, <2>6 DEF Abort
    <3>2. Unspent(task'[r]) + 1 = Unspent(task[r]) /\ task'[r].state = "queued"
      BY <1>1, <3>1 DEF Requeue, Unspent, Task
    <3>. QED
      BY <2>1, <2>2, <2>3, <3>2 DEF ExecutionsAhead
  <2>. QED
    BY <1>3, <2>1, <2>2, <2>4, <2>5, <2>6 DEF Ends
<1>. QED
  BY <1>2, <1>3

\* A step spends of its own request's budget.
LEMMA OwnBudgetSpent ==
    ASSUME BInv, BudgetTyped, BudgetTyped', NEW r \in Requests,
           ApiStep(r) \/ ApiCrash(r) \/ HandlerStep(r) \/ Dispatch(r) \/ Ends(r)
    PROVE  Budget(r)' < Budget(r)
<1>1. /\ PostAhead(r) \in Nat /\ ExecutionsAhead(r) \in Nat
      /\ StepsAhead(exec[r]) \in Nat
      /\ IsFiniteSet(LateOf(r)) /\ Cardinality(LateOf(r)) \in Nat
  BY DEF BudgetTyped
<1>2. /\ PostAhead(r)' \in Nat /\ ExecutionsAhead(r)' \in Nat
      /\ StepsAhead(exec'[r]) \in Nat /\ Cardinality(LateOf(r)') \in Nat
  BY DEF BudgetTyped
<1>3. Cardinality(LateOf(r)') <= Cardinality(LateOf(r)) + 1
  <2>1. \/ LateOf(r)' = LateOf(r)
        \/ LateOf(r)' = LateOf(r) \cup {[req |-> r, exec |-> exec[r]]}
    BY LateGrows DEF BInv, LateOf
  <2>2. CASE LateOf(r)' = LateOf(r)
    BY <1>1, <2>2
  <2>3. CASE LateOf(r)' = LateOf(r) \cup {[req |-> r, exec |-> exec[r]]}
    BY <1>1, <2>3, GrowsByOne
  <2>. QED
    BY <2>1, <2>2, <2>3
<1>. HIDE DEF PostAhead, ExecutionsAhead, StepsAhead, LateOf
<1>4. CASE ApiStep(r) \/ ApiCrash(r)
  <2>1. /\ PostAhead(r)' < PostAhead(r) /\ ExecutionsAhead(r)' <= ExecutionsAhead(r)
        /\ exec' = exec /\ LateOf(r)' = LateOf(r)
    BY <1>4, ApiSpends DEF LateOf
  <2>. QED
    BY <1>1, <1>2, <2>1 DEF Budget
<1>5. CASE HandlerStep(r)
  <2>1. /\ PostAhead(r)' = PostAhead(r) /\ ExecutionsAhead(r)' = ExecutionsAhead(r)
        /\ StepsAhead(exec'[r]) < StepsAhead(exec[r])
    BY <1>5, HandlerStepLocal, HandlerGoesOn DEF BInv, RInv, PostAhead, ExecutionsAhead
  <2>. QED
    BY <1>1, <1>2, <1>3, <2>1 DEF Budget
<1>6. CASE Dispatch(r)
  <2>1. /\ PostAhead(r)' = PostAhead(r) /\ ExecutionsAhead(r)' + 1 = ExecutionsAhead(r)
        /\ StepsAhead(exec'[r]) = 10 /\ LateOf(r)' = LateOf(r)
    BY <1>6, QueueSpends DEF PostAhead, LateOf
  <2>. QED
    BY <1>1, <1>2, <2>1 DEF Budget
<1>7. CASE Ends(r)
  <2>1. /\ PostAhead(r)' = PostAhead(r) /\ ExecutionsAhead(r)' <= ExecutionsAhead(r)
        /\ StepsAhead(exec'[r]) = 0 /\ StepsAhead(exec[r]) > 0
    BY <1>7, QueueSpends DEF PostAhead
  <2>. QED
    BY <1>1, <1>2, <1>3, <2>1 DEF Budget
<1>. QED
  BY <1>4, <1>5, <1>6, <1>7

\* Every step, whatever has failed, spends of one request's budget and touches no other's.
THEOREM NothingGoesOnForever == Spec => EveryStepSpends
<1>. DEFINE Spends(r) == /\ Budget(r)' < Budget(r)
                         /\ \A q \in Requests \ {r} : Budget(q)' = Budget(q)
<1>1. ASSUME BInv, BudgetTyped, BudgetTyped', NEW r \in Requests,
             ApiStep(r) \/ ApiCrash(r) \/ HandlerStep(r) \/ Dispatch(r) \/ Ends(r)
      PROVE  Spends(r)
  <2>1. ASSUME NEW q \in Requests \ {r}
        PROVE  Budget(q)' = Budget(q)
    <3>1. Untouched(q)
      BY <1>1, OthersUntouched DEF BInv, RInv, Counting
    <3>. QED
      BY <3>1 DEF Untouched, Budget, PostAhead, ExecutionsAhead
  <2>. QED
    BY <1>1, <2>1, OwnBudgetSpent
<1>2. ASSUME BInv, BudgetTyped, BudgetTyped', NEW call \in late, Arrive(call)
      PROVE  \E r \in Requests : Spends(r)
  <2>1. call.req \in Requests
    BY <1>2 DEF BInv, RInv, TypeInv, TypeOK, Call
  <2>2. UNCHANGED <<api, task, exec>> /\ late' = late \ {call}
    BY <1>2 DEF Arrive
  <2>3. \A q \in Requests : /\ PostAhead(q)' = PostAhead(q)
                            /\ ExecutionsAhead(q)' = ExecutionsAhead(q)
    BY <2>2 DEF PostAhead, ExecutionsAhead
  <2>4. \A q \in Requests \ {call.req} : LateOf(q)' = LateOf(q)
    BY <2>2 DEF LateOf
  <2>5. Cardinality(LateOf(call.req)') < Cardinality(LateOf(call.req))
    <3>1. LateOf(call.req)' = LateOf(call.req) \ {call} /\ call \in LateOf(call.req)
      BY <1>2, <2>2 DEF LateOf
    <3>2. IsFiniteSet(LateOf(call.req)) /\ Cardinality(LateOf(call.req)) \in Nat
      BY <1>2, <2>1 DEF BudgetTyped
    <3>3. Cardinality(LateOf(call.req) \ {call}) = Cardinality(LateOf(call.req)) - 1
      BY <3>1, <3>2, FS_RemoveElement
    <3>. QED
      BY <3>1, <3>2, <3>3
  <2>6. /\ PostAhead(call.req) \in Nat /\ ExecutionsAhead(call.req) \in Nat
        /\ StepsAhead(exec[call.req]) \in Nat /\ Cardinality(LateOf(call.req)) \in Nat
    BY <1>2, <2>1 DEF BudgetTyped
  <2>7. Cardinality(LateOf(call.req)') \in Nat
    BY <1>2, <2>1 DEF BudgetTyped
  <2>8. Budget(call.req)' < Budget(call.req)
    BY <2>1, <2>2, <2>3, <2>5, <2>6, <2>7 DEF Budget
  <2>9. \A q \in Requests \ {call.req} : Budget(q)' = Budget(q)
    BY <2>2, <2>3, <2>4 DEF Budget
  <2>. QED
    BY <2>1, <2>8, <2>9
<1>3. BInv /\ BudgetTyped /\ BudgetTyped' /\ Next => \E r \in Requests : Spends(r)
  BY <1>1, <1>2 DEF Next, QueueStep, Disturbance, Ends
<1>4. BInv /\ BudgetTyped /\ BudgetTyped' /\ [Next]_vars => [\E r \in Requests : Spends(r)]_vars
  BY <1>3
<1>. QED
  BY <1>4, BInvAlways, BudgetIsNumber, PTL DEF Spec, EveryStepSpends

-------------------------------------------------------------------------------
(***************************************************************************)
(* Nobody waits for what does not come.                                    *)
(***************************************************************************)

Running == {r \in Requests : task[r].state = "active"}

\* A fair action of r can be taken: to enqueue, to dispatch, or a step of its execution, for
\* at each of Steps the handler or the queue has one that depends on nothing else.
CanGoOn(r) ==
    \/ api[r] = "enqueue"
    \/ task[r].state = "queued" /\ Cardinality(Running) < Concurrency
    \/ exec[r].pc \in Steps

\* What is running goes on, and a task that waits finds a slot of the worker free or one held
\* by an execution that goes on: no slot stays with an execution that has ended.
NobodyIsStuck ==
    \A r \in Requests :
        /\ task[r].state = "active" => CanGoOn(r)
        /\ task[r].state = "queued" => CanGoOn(r) \/ \E q \in Running : CanGoOn(q)

\* As long as a task is in the queue, it or one that holds a slot can go on.
THEOREM SlotsAreFreed == Spec => []NobodyIsStuck
<1>1. RInv => NobodyIsStuck
  <2>. SUFFICES ASSUME RInv PROVE NobodyIsStuck
    OBVIOUS
  <2>1. \A q \in Running : CanGoOn(q)
    BY DEF RInv, TypeInv, TypeOK, Exec, Counting, InStep, Running, CanGoOn
  <2>2. Running = {} => Cardinality(Running) < Concurrency
    BY FS_EmptySet, PipelineAssumption
  <2>. QED
    BY <2>1, <2>2 DEF NobodyIsStuck, CanGoOn, Running
<1>. QED
  BY <1>1, RInvAlways, PTL
===============================================================================
