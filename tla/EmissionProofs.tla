---------------------------- MODULE EmissionProofs ----------------------------
(***************************************************************************)
(* Theorems about the emission pipeline, for every set of requests and DPS *)
(* identifiers, every retry budget and every combination of faults: types, *)
(* and that what is settled is grounded in what the government did, and    *)
(* stays settled when no call outlives its execution.                      *)
(***************************************************************************)
EXTENDS EmissionProperties, TLAPS

-------------------------------------------------------------------------------
(***************************************************************************)
(* Types of the operators that the actions are built from.                 *)
(***************************************************************************)

\* Whoever is about to write a rejection has a cause to write.
CauseKnown(e) == e.pc = "reject" => e.verdict \in Causes

\* What an execution at each step writes.
LEMMA PendingWriteCases ==
    ASSUME NEW doc, NEW e
    PROVE  /\ e.pc = "mark"   => PendingWrite(doc, e) = UpdateStatus(doc, "processing")
           /\ e.pc = "record" => PendingWrite(doc, e) = UpdateSigningStatus(doc)
           /\ e.pc = "bump"   => PendingWrite(doc, e) = IncrementRetryCount(doc)
           /\ e.pc = "save"   => PendingWrite(doc, e) = UpdateResult(doc)
           /\ e.pc = "reject" => PendingWrite(doc, e) = UpdateRejection(doc, e.verdict)
           /\ e.pc \notin {"mark", "record", "bump", "save", "reject"}
                => PendingWrite(doc, e) = doc
<1>1. CASE e.pc = "mark"   BY <1>1 DEF PendingWrite
<1>2. CASE e.pc = "record" BY <1>2 DEF PendingWrite
<1>3. CASE e.pc = "bump"   BY <1>3 DEF PendingWrite
<1>4. CASE e.pc = "save"   BY <1>4 DEF PendingWrite
<1>5. CASE e.pc = "reject" BY <1>5 DEF PendingWrite
<1>6. CASE e.pc \notin {"mark", "record", "bump", "save", "reject"}
  BY <1>6 DEF PendingWrite
<1>. QED
  BY <1>1, <1>2, <1>3, <1>4, <1>5, <1>6

\* The repository updates keep a document a document.
LEMMA PendingWriteType ==
    ASSUME NEW doc \in EmissionDoc, NEW e, CauseKnown(e)
    PROVE  PendingWrite(doc, e) \in EmissionDoc
<1>1. UpdateStatus(doc, "processing") \in EmissionDoc
  BY DEF UpdateStatus, EmissionDoc
<1>2. UpdateSigningStatus(doc) \in EmissionDoc
  BY DEF UpdateSigningStatus, EmissionDoc
<1>3. IncrementRetryCount(doc) \in EmissionDoc
  BY DEF IncrementRetryCount, EmissionDoc
<1>4. UpdateResult(doc) \in EmissionDoc
  BY DEF UpdateResult, EmissionDoc, Terminal
<1>5. ASSUME NEW cause \in Causes
      PROVE  UpdateRejection(doc, cause) \in EmissionDoc
  <2>1. doc.retryCount + 1 \in Nat
    BY DEF EmissionDoc
  <2>2. ASSUME NEW n \in Nat
        PROVE  [doc EXCEPT !.status = "failed", !.rejection = cause, !.retryCount = n]
                   \in EmissionDoc
    BY <1>5 DEF EmissionDoc, Terminal
  <2>3. UpdateRejection(doc, cause) =
          [doc EXCEPT !.status = "failed", !.rejection = cause,
                      !.retryCount = doc.retryCount + 1]
    BY DEF UpdateRejection, EmissionDoc
  <2>. QED
    BY <2>1, <2>2, <2>3
<1>6. e.pc = "reject" => PendingWrite(doc, e) \in EmissionDoc
  BY <1>5, PendingWriteCases DEF CauseKnown
<1>. QED
  BY <1>1, <1>2, <1>3, <1>4, <1>6, PendingWriteCases

LEMMA NewDocType ==
    ASSUME NEW kind \in Kinds
    PROVE  NewDoc(kind) \in EmissionDoc
BY DEF NewDoc, NoDoc, EmissionDoc, Kinds, Terminal, Causes

\* The queue's operators keep a task a task.
LEMMA TaskOperatorTypes ==
    ASSUME NEW t \in Task
    PROVE  /\ Dequeue(t) \in Task
           /\ MarkDone(t) \in Task
           /\ RetryOrArchive(t) \in Task
           /\ Requeue(t) \in Task
           /\ RunNumber(t) \in Nat
<1>1. Dequeue(t) \in Task /\ MarkDone(t) \in Task /\ RunNumber(t) \in Nat
  BY DEF Task, TaskStates, Dequeue, MarkDone, RunNumber
<1>2. t.retried + 1 \in Nat /\ t.requeued + 1 \in Nat
  BY DEF Task
<1>3. ASSUME NEW n \in Nat
      PROVE  /\ [t EXCEPT !.state = "queued", !.retried = n] \in Task
             /\ [t EXCEPT !.state = "queued", !.requeued = n] \in Task
             /\ [t EXCEPT !.state = "archived"] \in Task
  BY DEF Task, TaskStates
<1>4. Requeue(t) = [t EXCEPT !.state = "queued", !.requeued = t.requeued + 1]
  BY DEF Requeue, Task
<1>5. RetryOrArchive(t) \in {[t EXCEPT !.state = "queued", !.retried = t.retried + 1],
                             [t EXCEPT !.state = "archived"]}
  BY DEF RetryOrArchive, Task
<1>. QED
  BY <1>1, <1>2, <1>3, <1>4, <1>5, ZenonT(40)

LEMMA DeliveryTypes ==
    ASSUME NEW rows \in SUBSET Delivery(Requests), NEW r \in Requests, NEW run \in Nat
    PROVE  /\ \A event \in Events : NewDelivery(r, run, event) \in Delivery(Requests)
           /\ \A status \in {"success", "failed"} :
                 MarkDelivery(rows, r, run, status) \subseteq Delivery(Requests)
<1>1. ASSUME NEW event \in Events
      PROVE  NewDelivery(r, run, event) \in Delivery(Requests)
  BY <1>1 DEF NewDelivery, Delivery
<1>2. ASSUME NEW status \in {"success", "failed"}, NEW row \in rows
      PROVE  [row EXCEPT !.status = status] \in Delivery(Requests)
  BY <1>2 DEF Delivery
<1>3. ASSUME NEW status \in {"success", "failed"}
      PROVE  MarkDelivery(rows, r, run, status) \subseteq Delivery(Requests)
  BY <1>2, <1>3 DEF MarkDelivery
<1>. QED
  BY <1>1, <1>3

LEMMA EventOfType ==
    ASSUME NEW e
    PROVE  EventOf(e) \in Events
BY DEF EventOf, Events

LEMMA NoExecType == NoExec \in Exec /\ CauseKnown(NoExec)
BY DEF NoExec, Exec, Verdicts, CauseKnown

\* The steps that change an execution in more than its step.
LEMMA ExecUpdateTypes ==
    ASSUME NEW e \in Exec, NEW step \in Steps
    PROVE  /\ \A b \in BOOLEAN : [e EXCEPT !.pc = step, !.wasSigned = b] \in Exec
           /\ \A b \in BOOLEAN : [e EXCEPT !.pc = step, !.delivered = b] \in Exec
           /\ \A xml \in {"unsigned", "signed"} : [e EXCEPT !.pc = step, !.xml = xml] \in Exec
           /\ \A v \in Verdicts : [e EXCEPT !.pc = step, !.verdict = v] \in Exec
<1>1. \A b \in BOOLEAN : [e EXCEPT !.pc = step, !.wasSigned = b] \in Exec
  BY DEF Exec
<1>2. \A b \in BOOLEAN : [e EXCEPT !.pc = step, !.delivered = b] \in Exec
  BY DEF Exec
<1>3. \A xml \in {"unsigned", "signed"} : [e EXCEPT !.pc = step, !.xml = xml] \in Exec
  BY DEF Exec
<1>4. \A v \in Verdicts : [e EXCEPT !.pc = step, !.verdict = v] \in Exec
  BY DEF Exec
<1>. QED
  BY <1>1, <1>2, <1>3, <1>4

-------------------------------------------------------------------------------
(***************************************************************************)
(* Type correctness.  TypeOK alone is not inductive: that a rejection is   *)
(* written with a cause depends on the execution that writes it.           *)
(***************************************************************************)

RejectionHasCause ==
    /\ \A r \in Requests : CauseKnown(exec[r])
    /\ \A call \in late : CauseKnown(call.exec)

TypeInv == TypeOK /\ RejectionHasCause

ExecTypeOK ==
    /\ exec \in [Requests -> Exec]
    /\ \A r \in Requests : CauseKnown(exec[r])

\* An execution replaced by a well-formed one.
LEMMA ExecReplaced ==
    ASSUME TypeInv, NEW r \in Requests, NEW e \in Exec, CauseKnown(e),
           exec' = [exec EXCEPT ![r] = e]
    PROVE  ExecTypeOK'
BY DEF TypeInv, TypeOK, RejectionHasCause, ExecTypeOK

\* An execution that moves on and keeps everything else.
LEMMA ExecGoesTo ==
    ASSUME TypeInv, NEW r \in Requests, NEW step \in Steps, GoTo(r, step),
           step = "reject" => exec[r].verdict \in Causes
    PROVE  ExecTypeOK'
<1>. DEFINE e == [exec[r] EXCEPT !.pc = step]
<1>1. exec[r] \in Exec
  BY DEF TypeInv, TypeOK
<1>2. e \in Exec /\ CauseKnown(e)
  BY <1>1 DEF Exec, CauseKnown
<1>3. exec' = [exec EXCEPT ![r] = e]
  BY DEF GoTo
<1>. HIDE DEF e
<1>. QED
  BY <1>2, <1>3, ExecReplaced

\* A write of an execution keeps the collection well typed.
LEMMA WriteDocType ==
    ASSUME TypeInv, NEW r \in Requests, NEW outcome, WriteDoc(r, outcome)
    PROVE  docs' \in [Requests -> EmissionDoc]
<1>1. PendingWrite(docs[r], exec[r]) \in EmissionDoc
  BY PendingWriteType DEF TypeInv, TypeOK, RejectionHasCause
<1>. QED
  BY <1>1 DEF WriteDoc, TypeInv, TypeOK

\* One more event received.
LEMMA ToldType ==
    ASSUME TypeInv, NEW r \in Requests, NEW e
    PROVE  Tell(r, e) \in [Requests -> SUBSET Events]
BY EventOfType DEF Tell, TypeInv, TypeOK

\* A call that may be left on its way.
LEMMA LingerType ==
    ASSUME TypeInv, NEW r \in Requests, MayLinger(r)
    PROVE  /\ late' \subseteq Call
           /\ \A call \in late' : CauseKnown(call.exec)
<1>1. [req |-> r, exec |-> exec[r]] \in Call
  BY DEF Call, TypeInv, TypeOK
<1>. QED
  BY <1>1 DEF MayLinger, TypeInv, TypeOK, RejectionHasCause

\* An execution that ends, and the call it may leave on its way.
LEMMA LeaveBehindType ==
    ASSUME TypeInv, NEW r \in Requests, LeaveBehind(r)
    PROVE  /\ ExecTypeOK'
           /\ late' \subseteq Call
           /\ \A call \in late' : CauseKnown(call.exec)
<1>1. ExecTypeOK'
  BY NoExecType, ExecReplaced DEF LeaveBehind
<1>. QED
  BY <1>1, LingerType DEF LeaveBehind

LEMMA TypeInvInit == Init => TypeInv
<1>. SUFFICES ASSUME Init PROVE TypeInv
  OBVIOUS
<1>1. docs \in [Requests -> EmissionDoc]
  BY DEF Init, NoDoc, EmissionDoc
<1>2. task \in [Requests -> Task]
  BY DEF Init, NoTask, Task, TaskStates
<1>3. ExecTypeOK
  BY NoExecType DEF Init, ExecTypeOK
<1>. QED
  BY <1>1, <1>2, <1>3 DEF Init, TypeInv, TypeOK, RejectionHasCause, ExecTypeOK

\* Every step keeps the types: one case per action.
LEMMA TypeInvStep ==
    ASSUME TypeInv, [Next]_vars
    PROVE  TypeInv'
<1>. USE DEF ExecTypeOK
<1>1. ASSUME NEW r \in Requests, ApiStep(r)
      PROVE  TypeInv'
  <2>1. CASE Insert(r)
    <3>1. NewDoc(content[r].kind) \in EmissionDoc
      BY NewDocType DEF TypeInv, TypeOK, Content
    <3>. QED
      BY <2>1, <3>1 DEF Insert, TypeInv, TypeOK, RejectionHasCause
  <2>2. CASE EnqueueTask(r)
    <3>1. Enqueued \in Task
      BY DEF Enqueued, NoTask, Task, TaskStates
    <3>. QED
      BY <2>2, <3>1 DEF EnqueueTask, TypeInv, TypeOK, RejectionHasCause
  <2>. QED
    BY <1>1, <2>1, <2>2 DEF ApiStep, CreateFromJson, CreateFromXml
<1>2. ASSUME NEW r \in Requests, HandlerStep(r)
      PROVE  TypeInv'
  <2>1. CASE Load(r)
    <3>1. ExecTypeOK'
      <4>1. [exec[r] EXCEPT !.pc = "mark", !.wasSigned = docs[r].isSigned] \in Exec
        <5>1. exec[r] \in Exec /\ docs[r].isSigned \in BOOLEAN /\ "mark" \in Steps
          BY DEF TypeInv, TypeOK, EmissionDoc, Steps
        <5>. QED
          BY <5>1, ExecUpdateTypes
      <4>2. CauseKnown([exec[r] EXCEPT !.pc = "mark", !.wasSigned = docs[r].isSigned])
        BY DEF TypeInv, TypeOK, Exec, CauseKnown
      <4>3. CASE \E step \in {"ok", "err"} : GoTo(r, step)
        BY <4>3, ExecGoesTo DEF Steps
      <4>4. CASE exec' = [exec EXCEPT ![r].pc = "mark", ![r].wasSigned = docs[r].isSigned]
        <5>1. exec' = [exec EXCEPT ![r] =
                          [exec[r] EXCEPT !.pc = "mark", !.wasSigned = docs[r].isSigned]]
          BY <4>4 DEF TypeInv, TypeOK
        <5>. QED
          BY <4>1, <4>2, <5>1, ExecReplaced
      <4>. QED
        BY SMTT(30), <2>1, <4>3, <4>4 DEF Load
    <3>. QED
      BY <2>1, <3>1 DEF Load, TypeInv, TypeOK, RejectionHasCause
  <2>2. CASE MarkProcessing(r)
    <3>1. PICK outcome \in StoreOutcomes :
              WriteDoc(r, outcome) /\ GoTo(r, IF outcome = "acked" THEN "prepare" ELSE "err")
      BY <2>2 DEF MarkProcessing
    <3>2. ExecTypeOK'
      BY <3>1, ExecGoesTo DEF Steps
    <3>. QED
      BY <2>2, <3>1, <3>2, WriteDocType DEF MarkProcessing, TypeInv, TypeOK, RejectionHasCause
  <2>3. CASE UsePreSigned(r) \/ BuildUnsigned(r)
    <3>1. ASSUME NEW xml \in {"unsigned", "signed"},
                 exec' = [exec EXCEPT ![r].pc = "submit", ![r].xml = xml]
          PROVE  ExecTypeOK'
      <4>1. [exec[r] EXCEPT !.pc = "submit", !.xml = xml] \in Exec
        <5>1. exec[r] \in Exec /\ "submit" \in Steps
          BY DEF TypeInv, TypeOK, Steps
        <5>. QED
          BY <5>1, ExecUpdateTypes
      <4>2. CauseKnown([exec[r] EXCEPT !.pc = "submit", !.xml = xml])
        BY DEF TypeInv, TypeOK, Exec, CauseKnown
      <4>. QED
        BY <3>1, <4>1, <4>2, ExecReplaced DEF TypeInv, TypeOK
    <3>. QED
      BY <2>3, <3>1 DEF UsePreSigned, BuildUnsigned, TypeInv, TypeOK, RejectionHasCause
  <2>4. CASE BuildAndSign(r)
    <3>1. /\ [exec[r] EXCEPT !.pc = "record", !.xml = "signed"] \in Exec
          /\ [exec[r] EXCEPT !.pc = "reject", !.verdict = "certificate"] \in Exec
      <4>1. exec[r] \in Exec /\ {"record", "reject"} \subseteq Steps /\ "certificate" \in Verdicts
        BY DEF TypeInv, TypeOK, Steps, Verdicts, Causes
      <4>. QED
        BY <4>1, ExecUpdateTypes
    <3>2. /\ CauseKnown([exec[r] EXCEPT !.pc = "record", !.xml = "signed"])
          /\ CauseKnown([exec[r] EXCEPT !.pc = "reject", !.verdict = "certificate"])
      BY DEF TypeInv, TypeOK, Exec, CauseKnown, Causes
    <3>3. \/ exec' = [exec EXCEPT ![r] = [exec[r] EXCEPT !.pc = "record", !.xml = "signed"]]
          \/ exec' = [exec EXCEPT ![r] = [exec[r] EXCEPT !.pc = "reject",
                                                        !.verdict = "certificate"]]
      BY <2>4 DEF BuildAndSign, TypeInv, TypeOK
    <3>4. ExecTypeOK'
      BY <3>1, <3>2, <3>3, ExecReplaced
    <3>. QED
      BY SMTT(30), <2>4, <3>4 DEF BuildAndSign, TypeInv, TypeOK, RejectionHasCause
  <2>5. CASE RecordSigning(r)
    <3>1. ExecTypeOK'
      BY <2>5, ExecGoesTo DEF RecordSigning, Steps
    <3>. QED
      BY <2>5, <3>1, WriteDocType DEF RecordSigning, TypeInv, TypeOK, RejectionHasCause
  <2>6. CASE Submit(r)
    <3>1. PICK verdict \in {"issued", "duplicate", "government"} :
              exec' = [exec EXCEPT ![r].verdict = verdict,
                                   ![r].pc = IF verdict = "issued" THEN "save" ELSE "reject"]
      BY <2>6 DEF Submit
    <3>. DEFINE step == IF verdict = "issued" THEN "save" ELSE "reject"
                e == [exec[r] EXCEPT !.verdict = verdict, !.pc = step]
    <3>2. e \in Exec /\ CauseKnown(e)
      <4>1. step \in Steps /\ verdict \in Verdicts
        BY DEF Steps, Verdicts, Causes
      <4>2. step = "reject" => verdict \in Causes
        BY DEF Causes
      <4>3. exec[r] \in Exec
        BY DEF TypeInv, TypeOK
      <4>. HIDE DEF step
      <4>. QED
        BY <4>1, <4>2, <4>3 DEF Exec, CauseKnown
    <3>3. exec' = [exec EXCEPT ![r] = e]
      BY <3>1 DEF TypeInv, TypeOK
    <3>. HIDE DEF e
    <3>4. ExecTypeOK'
      BY <3>2, <3>3, ExecReplaced
    <3>. QED
      BY <2>6, <3>4, LingerType DEF Submit, Possible, TypeInv, TypeOK, RejectionHasCause
  <2>7. CASE SubmitError(r)
    <3>1. ExecTypeOK'
      BY <2>7, ExecGoesTo DEF SubmitError, Steps
    <3>. QED
      BY <2>7, <3>1, LingerType DEF SubmitError, TypeInv, TypeOK, RejectionHasCause
  <2>8. CASE BumpRetryCount(r)
    <3>1. ExecTypeOK'
      BY <2>8, ExecGoesTo DEF BumpRetryCount, Steps
    <3>. QED
      BY <2>8, <3>1, WriteDocType DEF BumpRetryCount, TypeInv, TypeOK, RejectionHasCause
  <2>9. CASE SaveResult(r)
    <3>1. PICK outcome \in StoreOutcomes :
              WriteDoc(r, outcome) /\ GoTo(r, IF outcome = "acked" THEN "notify" ELSE "err")
      BY <2>9 DEF SaveResult
    <3>2. ExecTypeOK'
      BY <3>1, ExecGoesTo DEF Steps
    <3>. QED
      BY <2>9, <3>1, <3>2, WriteDocType DEF SaveResult, TypeInv, TypeOK, RejectionHasCause
  <2>10. CASE SaveRejection(r)
    <3>1. ExecTypeOK'
      BY <2>10, ExecGoesTo DEF SaveRejection, Steps
    <3>. QED
      BY <2>10, <3>1, WriteDocType DEF SaveRejection, TypeInv, TypeOK, RejectionHasCause
  <2>11. CASE CreateDelivery(r)
    <3>1. PICK step \in {"ok", "send"} : GoTo(r, step)
      BY <2>11 DEF CreateDelivery
    <3>2. ExecTypeOK'
      BY <3>1, ExecGoesTo DEF Steps
    <3>3. NewDelivery(r, exec[r].run, EventOf(exec[r])) \in Delivery(Requests)
      BY EventOfType, DeliveryTypes DEF TypeInv, TypeOK, Exec
    <3>4. deliveries' \subseteq Delivery(Requests)
      BY <2>11, <3>3 DEF CreateDelivery, TypeInv, TypeOK
    <3>. QED
      BY <2>11, <3>2, <3>4 DEF CreateDelivery, TypeInv, TypeOK, RejectionHasCause
  <2>12. CASE SendWebhook(r)
    <3>1. PICK delivered \in BOOLEAN :
              exec' = [exec EXCEPT ![r].pc = "close", ![r].delivered = delivered]
      BY <2>12 DEF SendWebhook
    <3>2. [exec[r] EXCEPT !.pc = "close", !.delivered = delivered] \in Exec
      <4>1. exec[r] \in Exec /\ "close" \in Steps
        BY DEF TypeInv, TypeOK, Steps
      <4>. QED
        BY <4>1, ExecUpdateTypes
    <3>3. CauseKnown([exec[r] EXCEPT !.pc = "close", !.delivered = delivered])
      BY DEF TypeInv, TypeOK, Exec, CauseKnown
    <3>4. ExecTypeOK'
      BY <3>1, <3>2, <3>3, ExecReplaced DEF TypeInv, TypeOK
    <3>5. told' \in [Requests -> SUBSET Events]
      BY <2>12, ToldType DEF SendWebhook, TypeInv, TypeOK
    <3>. QED
      BY <2>12, <3>4, <3>5, LingerType DEF SendWebhook, TypeInv, TypeOK, RejectionHasCause
  <2>13. CASE CloseDelivery(r)
    <3>1. ExecTypeOK'
      BY <2>13, ExecGoesTo DEF CloseDelivery, Steps
    <3>2. \A status \in {"success", "failed"} :
              MarkDelivery(deliveries, r, exec[r].run, status) \subseteq Delivery(Requests)
      BY DeliveryTypes DEF TypeInv, TypeOK, Exec
    <3>3. deliveries' \subseteq Delivery(Requests)
      BY <2>13, <3>2 DEF CloseDelivery, TypeInv, TypeOK
    <3>. QED
      BY <2>13, <3>1, <3>3 DEF CloseDelivery, TypeInv, TypeOK, RejectionHasCause
  <2>. QED
    BY <1>2, <2>1, <2>2, <2>3, <2>4, <2>5, <2>6, <2>7, <2>8, <2>9, <2>10, <2>11, <2>12, <2>13
    DEF HandlerStep
<1>3. ASSUME NEW r \in Requests, QueueStep(r)
      PROVE  TypeInv'
  <2>1. task[r] \in Task
    BY DEF TypeInv, TypeOK
  <2>2. CASE Dispatch(r)
    <3>1. /\ [NoExec EXCEPT !.pc = "load", !.run = RunNumber(task[r])] \in Exec
          /\ CauseKnown([NoExec EXCEPT !.pc = "load", !.run = RunNumber(task[r])])
      BY <2>1, TaskOperatorTypes DEF NoExec, Exec, Steps, Verdicts, CauseKnown
    <3>2. ExecTypeOK'
      BY <2>2, <3>1, ExecReplaced DEF Dispatch
    <3>. QED
      BY <2>1, <2>2, <3>2, TaskOperatorTypes
      DEF Dispatch, TypeInv, TypeOK, RejectionHasCause
  <2>3. CASE Ack(r) \/ Nack(r)
    <3>1. ExecTypeOK'
      BY <2>3, NoExecType, ExecReplaced DEF Ack, Nack
    <3>. QED
      BY <2>1, <2>3, <3>1, TaskOperatorTypes
      DEF Ack, Nack, TypeInv, TypeOK, RejectionHasCause
  <2>. QED
    BY <1>3, <2>2, <2>3 DEF QueueStep
<1>4. ASSUME NEW r \in Requests, Disturbance(r)
      PROVE  TypeInv'
  <2>1. CASE ApiCrash(r)
    BY <2>1 DEF ApiCrash, TypeInv, TypeOK, RejectionHasCause
  <2>2. CASE Abort(r) \/ Expire(r)
    <3>1. task' \in [Requests -> Task]
      BY <2>2, TaskOperatorTypes DEF Abort, Expire, TypeInv, TypeOK
    <3>. QED
      BY <2>2, <3>1, LeaveBehindType DEF Abort, Expire, TypeInv, TypeOK, RejectionHasCause
  <2>. QED
    BY <1>4, <2>1, <2>2 DEF Disturbance
<1>5. ASSUME NEW call \in late, Arrive(call)
      PROVE  TypeInv'
  <2>1. call.req \in Requests /\ call.exec \in Exec /\ CauseKnown(call.exec)
    BY <1>5 DEF TypeInv, TypeOK, RejectionHasCause, Call
  <2>2. docs' \in [Requests -> EmissionDoc]
    BY <1>5, <2>1, PendingWriteType DEF Arrive, TypeInv, TypeOK
  <2>3. told' \in [Requests -> SUBSET Events]
    BY <1>5, <2>1, ToldType DEF Arrive, TypeInv, TypeOK
  <2>4. deliveries' \subseteq Delivery(Requests)
    <3>1. call.exec.run \in Nat
      BY <2>1 DEF Exec
    <3>2. /\ NewDelivery(call.req, call.exec.run, EventOf(call.exec)) \in Delivery(Requests)
          /\ \A status \in {"success", "failed"} :
                MarkDelivery(deliveries, call.req, call.exec.run, status)
                    \subseteq Delivery(Requests)
      BY <2>1, <3>1, EventOfType, DeliveryTypes DEF TypeInv, TypeOK
    <3>3. deliveries \subseteq Delivery(Requests)
      BY DEF TypeInv, TypeOK
    <3>4. CASE call.exec.pc = "notify"
      BY <1>5, <3>2, <3>3, <3>4 DEF Arrive
    <3>5. CASE call.exec.pc = "close"
      BY <1>5, <3>2, <3>5 DEF Arrive
    <3>6. CASE call.exec.pc \notin {"notify", "close"}
      BY <1>5, <3>3, <3>6 DEF Arrive
    <3>. QED
      BY <3>4, <3>5, <3>6
  <2>. QED
    BY <1>5, <2>1, <2>2, <2>3, <2>4 DEF Arrive, TypeInv, TypeOK, RejectionHasCause
<1>6. CASE UNCHANGED vars
  BY <1>6 DEF vars, TypeInv, TypeOK, RejectionHasCause
<1>. QED
  BY <1>1, <1>2, <1>3, <1>4, <1>5, <1>6 DEF Next

\* Every value the pipeline stores, queues or holds has its type, whatever fails.
THEOREM TypeCorrect == Spec => []TypeOK
<1>1. TypeInv /\ [Next]_vars => TypeInv'
  BY TypeInvStep
<1>2. TypeInv => TypeOK
  BY DEF TypeInv
<1>. QED
  BY <1>1, <1>2, TypeInvInit, PTL DEF Spec

-------------------------------------------------------------------------------
(***************************************************************************)
(* Who touches what.                                                       *)
(***************************************************************************)

\* A step of an execution leaves every other request alone, and the API, the
\* queue and the calls left behind.
LEMMA HandlerStepLocal ==
    ASSUME TypeInv, NEW r \in Requests, HandlerStep(r)
    PROVE  /\ exec[r].pc # "idle"
           /\ UNCHANGED <<content, api, task>>
           /\ late' = late \/ late' = late \cup {[req |-> r, exec |-> exec[r]]}
           /\ "late" \notin Faults => late' = late
           /\ \A q \in Requests \ {r} :
                 docs'[q] = docs[q] /\ exec'[q] = exec[q] /\ told'[q] = told[q]
<1>. USE DEF At, GoTo, WriteDoc, MayLinger, TypeInv, TypeOK
<1>1. CASE Load(r) \/ UsePreSigned(r) \/ BuildUnsigned(r) \/ BuildAndSign(r)
  BY <1>1 DEF Load, UsePreSigned, BuildUnsigned, BuildAndSign
<1>2. CASE MarkProcessing(r) \/ RecordSigning(r) \/ BumpRetryCount(r)
  BY <1>2 DEF MarkProcessing, RecordSigning, BumpRetryCount
<1>3. CASE SaveResult(r) \/ SaveRejection(r)
  BY <1>3 DEF SaveResult, SaveRejection
<1>4. CASE Submit(r)
  BY <1>4 DEF Submit
<1>5. CASE SubmitError(r)
  BY <1>5 DEF SubmitError
<1>6. CASE CreateDelivery(r)
  BY <1>6 DEF CreateDelivery
<1>7. CASE SendWebhook(r) \/ CloseDelivery(r)
  BY <1>7 DEF SendWebhook, CloseDelivery, Tell
<1>. QED
  BY <1>1, <1>2, <1>3, <1>4, <1>5, <1>6, <1>7 DEF HandlerStep

\* Until its POST has inserted it, nothing else knows of a request.
Fresh(r) ==
    api[r] = "idle" => /\ docs[r] = NoDoc
                       /\ task[r].state = "none"
                       /\ exec[r].pc = "idle"
                       /\ told[r] = {}
                       /\ \A call \in late : call.req # r

AllFresh == \A r \in Requests : Fresh(r)

LEMMA FreshInit == Init => AllFresh
BY DEF Init, AllFresh, Fresh, NoTask, NoExec

LEMMA FreshStep ==
    ASSUME TypeInv, AllFresh, [Next]_vars
    PROVE  AllFresh'
<1>1. ASSUME NEW r \in Requests, ApiStep(r) \/ ApiCrash(r)
      PROVE  AllFresh'
  BY <1>1 DEF ApiStep, ApiCrash, CreateFromJson, CreateFromXml, Insert, EnqueueTask,
              AllFresh, Fresh, TypeInv, TypeOK
<1>2. ASSUME NEW r \in Requests, HandlerStep(r)
      PROVE  AllFresh'
  <2>1. api[r] # "idle"
    BY <1>2, HandlerStepLocal DEF AllFresh, Fresh
  <2>. QED
    BY <1>2, <2>1, HandlerStepLocal DEF AllFresh, Fresh
<1>3. ASSUME NEW r \in Requests, QueueStep(r)
      PROVE  AllFresh'
  BY <1>3 DEF QueueStep, Dispatch, Ack, Nack, At, AllFresh, Fresh, TypeInv, TypeOK
<1>4. ASSUME NEW r \in Requests, Abort(r) \/ Expire(r)
      PROVE  AllFresh'
  BY <1>4 DEF Abort, Expire, LeaveBehind, MayLinger, AllFresh, Fresh, TypeInv, TypeOK
<1>5. ASSUME NEW call \in late, Arrive(call)
      PROVE  AllFresh'
  <2>1. call.req \in Requests /\ api[call.req] # "idle"
    BY DEF AllFresh, Fresh, TypeInv, TypeOK, Call
  <2>2. \A q \in Requests \ {call.req} : docs'[q] = docs[q] /\ told'[q] = told[q]
    BY <1>5, <2>1 DEF Arrive, Tell, TypeInv, TypeOK
  <2>. QED
    BY <1>5, <2>1, <2>2 DEF Arrive, AllFresh, Fresh
<1>6. CASE UNCHANGED vars
  BY <1>6 DEF vars, AllFresh, Fresh
<1>. QED
  BY <1>1, <1>2, <1>3, <1>4, <1>5, <1>6 DEF Next, Disturbance

-------------------------------------------------------------------------------
(***************************************************************************)
(* Outcomes are grounded, under every fault.  The invariant follows the    *)
(* verdict of the government through the execution that received it, and   *)
(* through the calls that executions left behind.                          *)
(***************************************************************************)

Grounded(r, e) ==
    /\ e.verdict = "issued" => r \in issued
    /\ e.pc = "save" => e.verdict = "issued"
    /\ e.pc \in {"notify", "send", "close"} /\ e.verdict = "issued" => docs[r].result

GroundedInv ==
    /\ OutcomeGrounded
    /\ \A r \in Requests : Grounded(r, exec[r])
    /\ \A call \in late : Grounded(call.req, call.exec)

GInv == TypeInv /\ AllFresh /\ GroundedInv

\* What the update of an execution does to the fields that OutcomeGrounded
\* speaks of.
LEMMA PendingWriteOutcome ==
    ASSUME NEW doc \in EmissionDoc, NEW e \in Exec
    PROVE  /\ e.pc # "save" => PendingWrite(doc, e).result = doc.result
           /\ e.pc = "save" => PendingWrite(doc, e).result = TRUE
           /\ e.pc = "save" => PendingWrite(doc, e).status = "success"
           /\ e.pc = "mark" => PendingWrite(doc, e).status = "processing"
           /\ e.pc = "reject" => PendingWrite(doc, e).status = "failed"
           /\ e.pc \notin {"mark", "save", "reject"} => PendingWrite(doc, e).status = doc.status
<1>1. CASE e.pc = "mark"
  <2>1. PendingWrite(doc, e) = UpdateStatus(doc, "processing")
    BY <1>1, PendingWriteCases
  <2>2. PendingWrite(doc, e).status = "processing"
    BY <2>1 DEF UpdateStatus, EmissionDoc
  <2>3. PendingWrite(doc, e).result = doc.result
    BY <2>1 DEF UpdateStatus, EmissionDoc
  <2>. QED
    BY <1>1, <2>2, <2>3
<1>2. CASE e.pc = "record"
  <2>1. PendingWrite(doc, e) = UpdateSigningStatus(doc)
    BY <1>2, PendingWriteCases
  <2>2. PendingWrite(doc, e).status = doc.status
    BY <2>1 DEF UpdateSigningStatus, EmissionDoc
  <2>3. PendingWrite(doc, e).result = doc.result
    BY <2>1 DEF UpdateSigningStatus, EmissionDoc
  <2>. QED
    BY <1>2, <2>2, <2>3
<1>3. CASE e.pc = "bump"
  <2>1. PendingWrite(doc, e) = IncrementRetryCount(doc)
    BY <1>3, PendingWriteCases
  <2>2. PendingWrite(doc, e).status = doc.status
    BY <2>1 DEF IncrementRetryCount, EmissionDoc
  <2>3. PendingWrite(doc, e).result = doc.result
    BY <2>1 DEF IncrementRetryCount, EmissionDoc
  <2>. QED
    BY <1>3, <2>2, <2>3
<1>4. CASE e.pc = "save"
  <2>1. PendingWrite(doc, e) = UpdateResult(doc)
    BY <1>4, PendingWriteCases
  <2>2. PendingWrite(doc, e).status = "success"
    BY <2>1 DEF UpdateResult, EmissionDoc
  <2>3. PendingWrite(doc, e).result = TRUE
    BY <2>1 DEF UpdateResult, EmissionDoc
  <2>. QED
    BY <1>4, <2>2, <2>3
<1>5. CASE e.pc = "reject"
  <2>1. PendingWrite(doc, e) = UpdateRejection(doc, e.verdict)
    BY <1>5, PendingWriteCases
  <2>2. PendingWrite(doc, e).status = "failed"
    BY <2>1 DEF UpdateRejection, EmissionDoc
  <2>3. PendingWrite(doc, e).result = doc.result
    BY <2>1 DEF UpdateRejection, EmissionDoc
  <2>. QED
    BY <1>5, <2>2, <2>3
<1>6. CASE e.pc \notin {"mark", "record", "bump", "save", "reject"}
  BY <1>6, PendingWriteCases
<1>. QED
  BY <1>1, <1>2, <1>3, <1>4, <1>5, <1>6

\* A document that an execution may have written on behalf of r.
Written(r, e) ==
    \/ docs' = docs
    \/ docs' = [docs EXCEPT ![r] = PendingWrite(docs[r], e)]

LEMMA WriteDocWritten ==
    ASSUME TypeInv, NEW r \in Requests, NEW outcome, WriteDoc(r, outcome)
    PROVE  /\ Written(r, exec[r])
           /\ outcome = "acked" => docs'[r] = PendingWrite(docs[r], exec[r])
BY DEF WriteDoc, Written, TypeInv, TypeOK

\* Such a write keeps the outcome grounded, and the results there are.
LEMMA WrittenGrounded ==
    ASSUME GInv, NEW r \in Requests, NEW e \in Exec, Grounded(r, e), Written(r, e)
    PROVE  \A q \in Requests :
              /\ docs[q].result => docs'[q].result
              /\ docs'[q].result => q \in issued
              /\ docs'[q].status = "success" => docs'[q].result
<1>1. docs[r] \in EmissionDoc
  BY DEF GInv, TypeInv, TypeOK
<1>2. /\ docs[r].result => docs'[r].result
      /\ docs'[r].result => r \in issued
      /\ docs'[r].status = "success" => docs'[r].result
  <2>1. /\ docs[r].status = "success" => docs[r].result
        /\ docs[r].result => r \in issued
    BY DEF GInv, GroundedInv, OutcomeGrounded
  <2>2. CASE docs' = docs
    BY <2>1, <2>2
  <2>3. CASE docs' = [docs EXCEPT ![r] = PendingWrite(docs[r], e)]
    <3>1. docs'[r] = PendingWrite(docs[r], e)
      BY <2>3 DEF GInv, TypeInv, TypeOK
    <3>2. CASE e.pc = "save"
      BY <1>1, <3>1, <3>2, PendingWriteOutcome DEF Grounded
    <3>3. CASE e.pc # "save"
      <4>1. docs'[r].result = docs[r].result
        <5>1. PendingWrite(docs[r], e).result = docs[r].result
          BY <1>1, <3>3, PendingWriteOutcome, Zenon
        <5>. QED
          BY <3>1, <5>1, Zenon
      <4>2. docs'[r].status = "success" => docs[r].status = "success"
        BY <1>1, <3>1, <3>3, PendingWriteOutcome
      <4>. QED
        BY <2>1, <4>1, <4>2
    <3>. QED
      BY <3>2, <3>3
  <2>. QED
    BY <2>2, <2>3 DEF Written
<1>3. \A q \in Requests \ {r} : docs'[q] = docs[q]
  BY DEF Written, GInv, TypeInv, TypeOK
<1>. QED
  BY <1>2, <1>3 DEF GInv, GroundedInv, OutcomeGrounded

\* A step of an execution that tells nothing new and submits nothing preserves
\* the invariant when its new state is grounded.
LEMMA GroundedFrame ==
    ASSUME GInv, NEW r \in Requests, HandlerStep(r), NEW e \in Exec, Grounded(r, e),
           Written(r, e), told' = told, issued' = issued, Grounded(r, exec[r])'
    PROVE  GroundedInv'
<1>1. \A q \in Requests :
              /\ docs[q].result => docs'[q].result
              /\ docs'[q].result => q \in issued
              /\ docs'[q].status = "success" => docs'[q].result
  BY WrittenGrounded
<1>2. OutcomeGrounded'
  BY <1>1 DEF OutcomeGrounded, GInv, GroundedInv
<1>3. /\ late' = late \/ late' = late \cup {[req |-> r, exec |-> exec[r]]}
      /\ \A q \in Requests \ {r} : exec'[q] = exec[q]
  BY HandlerStepLocal DEF GInv
<1>4. \A call \in late : call.req \in Requests
  BY DEF GInv, TypeInv, TypeOK, Call
<1>. QED
  BY <1>1, <1>2, <1>3, <1>4 DEF GInv, GroundedInv, Grounded

LEMMA GroundedInit == Init => GroundedInv
BY DEF Init, GroundedInv, OutcomeGrounded, Grounded, NoDoc, NoExec

LEMMA GroundedHandlerStep ==
    ASSUME GInv, NEW r \in Requests, HandlerStep(r)
    PROVE  GroundedInv'
<1>. USE DEF At, GoTo
<1>1. /\ exec[r] \in Exec /\ exec \in [Requests -> Exec]
      /\ docs[r] \in EmissionDoc
      /\ Grounded(r, exec[r])
      /\ CauseKnown(exec[r])
  BY DEF GInv, TypeInv, TypeOK, GroundedInv, RejectionHasCause
<1>2. CASE Load(r) \/ UsePreSigned(r) \/ BuildUnsigned(r) \/ BuildAndSign(r)
  <2>1. docs' = docs /\ told' = told /\ issued' = issued
    BY <1>2 DEF Load, UsePreSigned, BuildUnsigned, BuildAndSign
  <2>2. /\ exec'[r].pc \notin {"save", "notify", "send", "close"}
        /\ exec'[r].verdict = "issued" => exec[r].verdict = "issued"
    <3>1. CASE Load(r)
      BY <1>1, <3>1 DEF Load, Exec
    <3>2. CASE UsePreSigned(r) \/ BuildUnsigned(r)
      BY <1>1, <3>2 DEF UsePreSigned, BuildUnsigned, Exec
    <3>3. CASE BuildAndSign(r)
      BY <1>1, <3>3 DEF BuildAndSign, Exec
    <3>. QED
      BY <1>2, <3>1, <3>2, <3>3
  <2>3. Grounded(r, exec[r])'
    BY <1>1, <2>1, <2>2 DEF Grounded
  <2>. QED
    BY <1>1, <2>1, <2>3, GroundedFrame DEF Written
<1>3. CASE MarkProcessing(r) \/ RecordSigning(r) \/ BumpRetryCount(r) \/ SaveRejection(r)
  <2>1. Written(r, exec[r]) /\ told' = told /\ issued' = issued
    BY <1>3, WriteDocWritten
    DEF MarkProcessing, RecordSigning, BumpRetryCount, SaveRejection, GInv
  <2>2. /\ exec'[r].verdict = exec[r].verdict
        /\ exec'[r].pc \in {"prepare", "err", "submit", "notify"}
        /\ exec'[r].pc = "notify" => exec[r].pc = "reject"
    <3>1. CASE MarkProcessing(r)
      BY <1>1, <3>1 DEF MarkProcessing
    <3>2. CASE RecordSigning(r)
      BY <1>1, <3>2 DEF RecordSigning
    <3>3. CASE BumpRetryCount(r)
      BY <1>1, <3>3 DEF BumpRetryCount
    <3>4. CASE SaveRejection(r)
      BY <1>1, <3>4 DEF SaveRejection
    <3>. QED
      BY <1>3, <3>1, <3>2, <3>3, <3>4
  <2>3. Grounded(r, exec[r])'
    BY <1>1, <2>1, <2>2 DEF Grounded, CauseKnown, Causes
  <2>. QED
    BY <1>1, <2>1, <2>3, GroundedFrame
<1>4. CASE SaveResult(r)
  <2>1. PICK outcome \in StoreOutcomes :
            WriteDoc(r, outcome) /\ GoTo(r, IF outcome = "acked" THEN "notify" ELSE "err")
    BY <1>4 DEF SaveResult
  <2>2. Written(r, exec[r]) /\ told' = told /\ issued' = issued
    BY <1>4, <2>1, WriteDocWritten DEF SaveResult, GInv
  <2>3. outcome = "acked" => docs'[r].result
    <3>1. exec[r].pc = "save"
      BY <1>4 DEF SaveResult
    <3>2. PendingWrite(docs[r], exec[r]).result = TRUE
      BY <1>1, <3>1, PendingWriteOutcome
    <3>. QED
      BY <2>1, <3>2, WriteDocWritten DEF GInv
  <2>4. /\ exec'[r].verdict = exec[r].verdict
        /\ exec'[r].pc = IF outcome = "acked" THEN "notify" ELSE "err"
    BY <1>1, <2>1
  <2>5. Grounded(r, exec[r])'
    BY <1>1, <2>2, <2>3, <2>4 DEF Grounded
  <2>. QED
    BY <1>1, <2>2, <2>5, GroundedFrame
<1>5. CASE Submit(r) \/ SubmitError(r)
  <2>1. /\ docs' = docs /\ told' = told
        /\ late' = late \/ late' = late \cup {[req |-> r, exec |-> exec[r]]}
        /\ issued \subseteq issued'
        /\ \A q \in Requests \ {r} : exec'[q] = exec[q]
    BY <1>1, <1>5 DEF Submit, SubmitError, Possible, MayLinger
  <2>2. Grounded(r, exec[r])'
    <3>1. CASE Submit(r)
      BY <1>1, <2>1, <3>1 DEF Submit, Possible, Grounded
    <3>2. CASE SubmitError(r)
      BY <1>1, <2>1, <3>2 DEF SubmitError, Possible, Grounded
    <3>. QED
      BY <1>5, <3>1, <3>2
  <2>. QED
    BY <2>1, <2>2 DEF GInv, GroundedInv, OutcomeGrounded, Grounded
<1>6. CASE CreateDelivery(r) \/ CloseDelivery(r)
  <2>1. docs' = docs /\ told' = told /\ issued' = issued
    BY <1>6 DEF CreateDelivery, CloseDelivery
  <2>2. /\ exec[r].pc \in {"notify", "close"}
        /\ exec'[r].verdict = exec[r].verdict
        /\ exec'[r].pc \in {"send", "ok"}
    <3>1. CASE CreateDelivery(r)
      BY <1>1, <3>1 DEF CreateDelivery, Exec
    <3>2. CASE CloseDelivery(r)
      BY <1>1, <3>2 DEF CloseDelivery
    <3>. QED
      BY <1>6, <3>1, <3>2
  <2>3. Grounded(r, exec[r])'
    BY <1>1, <2>1, <2>2 DEF Grounded
  <2>. QED
    BY <1>1, <2>1, <2>3, GroundedFrame DEF Written
<1>7. CASE SendWebhook(r)
  <2>1. /\ docs' = docs /\ issued' = issued
        /\ late' = late \/ late' = late \cup {[req |-> r, exec |-> exec[r]]}
    BY <1>7 DEF SendWebhook, MayLinger
  <2>2. Grounded(r, exec[r])'
    BY <1>1, <1>7, <2>1 DEF SendWebhook, Grounded
  <2>3. \A q \in Requests : "completed" \in told'[q] => docs[q].result
    <3>1. told' = told \/ told' = Tell(r, exec[r])
      BY <1>7 DEF SendWebhook
    <3>2. EventOf(exec[r]) = "completed" => docs[r].result
      BY <1>1, <1>7 DEF SendWebhook, EventOf, Grounded
    <3>. QED
      BY <3>1, <3>2 DEF Tell, GInv, GroundedInv, OutcomeGrounded, TypeInv, TypeOK
  <2>4. \A q \in Requests \ {r} : exec'[q] = exec[q]
    BY HandlerStepLocal DEF GInv
  <2>. QED
    BY <2>1, <2>2, <2>3, <2>4 DEF GInv, GroundedInv, OutcomeGrounded, Grounded
<1>. QED
  BY <1>2, <1>3, <1>4, <1>5, <1>6, <1>7 DEF HandlerStep

LEMMA GroundedStep ==
    ASSUME GInv, [Next]_vars
    PROVE  GroundedInv'
<1>. USE DEF GInv, GroundedInv, TypeInv, TypeOK
<1>1. ASSUME NEW r \in Requests, ApiStep(r) \/ ApiCrash(r)
      PROVE  GroundedInv'
  <2>1. CASE Insert(r)
    <3>1. /\ ~docs[r].result /\ told[r] = {} /\ exec[r].pc = "idle"
          /\ \A call \in late : call.req # r
      BY <2>1 DEF Insert, AllFresh, Fresh, NoDoc
    <3>2. /\ ~NewDoc(content[r].kind).result
          /\ NewDoc(content[r].kind).status = "pending"
      BY DEF NewDoc, NoDoc
    <3>3. docs' = docs \/ docs' = [docs EXCEPT ![r] = NewDoc(content[r].kind)]
      BY <2>1 DEF Insert
    <3>4. UNCHANGED <<exec, told, issued, late>>
      BY <2>1 DEF Insert
    <3>. QED
      BY <3>1, <3>2, <3>3, <3>4 DEF OutcomeGrounded, Grounded, Call
  <2>2. CASE EnqueueTask(r) \/ ApiCrash(r)
    BY <2>2 DEF EnqueueTask, ApiCrash, OutcomeGrounded, Grounded
  <2>. QED
    BY <1>1, <2>1, <2>2 DEF ApiStep, CreateFromJson, CreateFromXml
<1>2. ASSUME NEW r \in Requests, QueueStep(r)
      PROVE  GroundedInv'
  <2>1. UNCHANGED <<docs, told, issued, late>>
    BY <1>2 DEF QueueStep, Dispatch, Ack, Nack
  <2>2. \A q \in Requests \ {r} : exec'[q] = exec[q]
    BY <1>2 DEF QueueStep, Dispatch, Ack, Nack
  <2>3. exec'[r].pc \in {"idle", "load"} /\ exec'[r].verdict = "none"
    <3>1. CASE Dispatch(r)
      BY <3>1 DEF Dispatch, NoExec
    <3>2. CASE Ack(r) \/ Nack(r)
      BY <3>2 DEF Ack, Nack, NoExec
    <3>. QED
      BY <1>2, <3>1, <3>2 DEF QueueStep
  <2>. QED
    BY <2>1, <2>2, <2>3 DEF OutcomeGrounded, Grounded
<1>3. ASSUME NEW r \in Requests, Abort(r) \/ Expire(r)
      PROVE  GroundedInv'
  BY <1>3 DEF Abort, Expire, LeaveBehind, MayLinger, NoExec, OutcomeGrounded, Grounded
<1>4. ASSUME NEW call \in late, Arrive(call)
      PROVE  GroundedInv'
  <2>. DEFINE r == call.req
              e == call.exec
  <2>1. r \in Requests /\ e \in Exec /\ Grounded(r, e)
    BY DEF Call
  <2>2. Written(r, e)
    BY <1>4 DEF Arrive, Written
  <2>3. /\ issued \subseteq issued' /\ late' \subseteq late /\ exec' = exec
        /\ told' = told \/ (e.pc = "send" /\ told' = Tell(r, e))
    BY <1>4 DEF Arrive
  <2>. HIDE DEF r, e
  <2>4. \A q \in Requests :
            /\ docs[q].result => docs'[q].result
            /\ docs'[q].result => q \in issued
            /\ docs'[q].status = "success" => docs'[q].result
    BY <2>1, <2>2, WrittenGrounded
  <2>5. \A q \in Requests : "completed" \in told'[q] => docs'[q].result
    <3>1. e.pc = "send" /\ EventOf(e) = "completed" => docs[r].result
      BY <2>1 DEF EventOf, Grounded
    <3>. QED
      BY <2>1, <2>3, <2>4, <3>1 DEF Tell, OutcomeGrounded
  <2>6. OutcomeGrounded'
    BY <2>3, <2>4, <2>5 DEF OutcomeGrounded
  <2>. QED
    BY <2>3, <2>4, <2>6 DEF Grounded, Call
<1>5. CASE UNCHANGED vars
  BY <1>5 DEF vars, OutcomeGrounded, Grounded
<1>. QED
  BY <1>1, <1>2, <1>3, <1>4, <1>5, GroundedHandlerStep DEF Next, Disturbance

\* Success is shown, and a completion announced, only with the result stored and
\* the NFS-e issued, whatever calls fail, repeat or arrive late.
THEOREM OutcomesGrounded == Spec => []OutcomeGrounded
<1>1. Init => GInv
  BY TypeInvInit, FreshInit, GroundedInit DEF GInv
<1>2. GInv /\ [Next]_vars => GInv'
  BY TypeInvStep, FreshStep, GroundedStep DEF GInv
<1>3. GInv => OutcomeGrounded
  BY DEF GInv, GroundedInv
<1>. QED
  BY <1>1, <1>2, <1>3, PTL DEF Spec
-------------------------------------------------------------------------------
(***************************************************************************)
(* A settled request stays as it is, if no call outlives its execution:    *)
(* whatever executions were aborted or repeated, one that is still ahead   *)
(* of a status-changing write found the request unsettled, and no other    *)
(* execution has settled it since.                                         *)
(***************************************************************************)

\* The steps of an execution that come before, or are, its last update.
BeforeSettling == {"mark", "prepare", "record", "submit", "bump", "save", "reject"}

Unsettled(r) == exec[r].pc \in BeforeSettling => docs[r].status \notin Terminal

FinalInv == late = {} /\ \A r \in Requests : Unsettled(r)

FInv == TypeInv /\ AllFresh /\ FinalInv

StatusKept ==
    \A r \in Requests : docs[r].status \in Terminal => docs'[r].status = docs[r].status

\* A step of an execution: where it can go from where it is, and what it writes.
LEMMA HandlerStepEffect ==
    ASSUME TypeInv, NEW r \in Requests, HandlerStep(r)
    PROVE  /\ exec[r].pc \notin BeforeSettling => docs' = docs
           /\ exec'[r].pc \in BeforeSettling \ {"mark"} =>
                 /\ exec[r].pc \in {"mark", "prepare", "record", "submit"}
                 /\ docs' = docs \/ docs'[r] = PendingWrite(docs[r], exec[r])
           /\ exec'[r].pc = "mark" => docs' = docs /\ docs[r].status \notin Terminal
<1>. USE DEF At, GoTo, BeforeSettling
<1>1. exec \in [Requests -> Exec] /\ exec[r] \in Exec
  BY DEF TypeInv, TypeOK
<1>2. CASE Load(r)
  BY <1>1, <1>2 DEF Load, Exec
<1>3. CASE MarkProcessing(r)
  BY <1>1, <1>3, WriteDocWritten DEF MarkProcessing, Written, TypeInv, TypeOK
<1>4. CASE UsePreSigned(r) \/ BuildUnsigned(r)
  BY <1>1, <1>4 DEF UsePreSigned, BuildUnsigned, Exec
<1>5. CASE BuildAndSign(r)
  BY <1>1, <1>5 DEF BuildAndSign, Exec
<1>6. CASE RecordSigning(r)
  BY <1>1, <1>6, WriteDocWritten DEF RecordSigning, Written, TypeInv, TypeOK
<1>7. CASE Submit(r)
  BY <1>1, <1>7 DEF Submit, Exec
<1>8. CASE SubmitError(r)
  BY <1>1, <1>8 DEF SubmitError
<1>9. CASE BumpRetryCount(r) \/ SaveRejection(r)
  <2>1. exec[r].pc \in {"bump", "reject"} /\ exec'[r].pc \in {"notify", "err"}
    <3>1. CASE BumpRetryCount(r)
      BY <1>1, <3>1 DEF BumpRetryCount
    <3>2. CASE SaveRejection(r)
      BY <1>1, <3>2 DEF SaveRejection
    <3>. QED
      BY <1>9, <3>1, <3>2
  <2>. QED
    BY <2>1
<1>10. CASE SaveResult(r)
  <2>1. exec[r].pc = "save" /\ exec'[r].pc \in {"notify", "err"}
    BY <1>1, <1>10 DEF SaveResult
  <2>. QED
    BY <2>1
<1>11. CASE CreateDelivery(r)
  <2>1. exec[r].pc = "notify" /\ docs' = docs /\ exec'[r].pc \in {"send", "ok"}
    BY <1>1, <1>11 DEF CreateDelivery, Exec
  <2>. QED
    BY <2>1
<1>12. CASE CloseDelivery(r)
  BY <1>1, <1>12 DEF CloseDelivery
<1>13. CASE SendWebhook(r)
  BY <1>1, <1>13 DEF SendWebhook, Exec
<1>. QED
  BY <1>2, <1>3, <1>4, <1>5, <1>6, <1>7, <1>8, <1>9, <1>10, <1>11, <1>12, <1>13
  DEF HandlerStep

LEMMA FinalInit == Init => FinalInv
BY DEF Init, FinalInv, Unsettled, NoDoc, NoExec, BeforeSettling

LEMMA FinalStep ==
    ASSUME FInv, [Next]_vars, "late" \notin Faults
    PROVE  FinalInv' /\ StatusKept
<1>. USE DEF FInv, FinalInv
<1>1. ASSUME NEW r \in Requests, ApiStep(r) \/ ApiCrash(r)
      PROVE  FinalInv' /\ StatusKept
  <2>1. CASE Insert(r)
    <3>1. docs[r].status = "absent" /\ exec[r].pc = "idle"
      BY <2>1 DEF Insert, AllFresh, Fresh, NoDoc
    <3>. QED
      BY <2>1, <3>1 DEF Insert, Unsettled, StatusKept, BeforeSettling, Terminal, TypeInv, TypeOK
  <2>2. CASE EnqueueTask(r) \/ ApiCrash(r)
    BY <2>2 DEF EnqueueTask, ApiCrash, Unsettled, StatusKept
  <2>. QED
    BY <1>1, <2>1, <2>2 DEF ApiStep, CreateFromJson, CreateFromXml
<1>2. ASSUME NEW r \in Requests, HandlerStep(r)
      PROVE  FinalInv' /\ StatusKept
  <2>1. docs[r] \in EmissionDoc /\ exec[r] \in Exec
    BY DEF TypeInv, TypeOK
  <2>2. /\ late' = late
        /\ \A q \in Requests \ {r} : docs'[q] = docs[q] /\ exec'[q] = exec[q]
    BY <1>2, HandlerStepLocal
  <2>3. docs[r].status \in Terminal => docs'[r].status = docs[r].status
    BY <1>2, HandlerStepEffect DEF Unsettled
  <2>4. ASSUME exec'[r].pc \in BeforeSettling
        PROVE  docs'[r].status \notin Terminal
    <3>1. CASE exec'[r].pc = "mark"
      BY <1>2, <3>1, HandlerStepEffect
    <3>2. CASE exec'[r].pc # "mark"
      <4>1. /\ exec[r].pc \in {"mark", "prepare", "record", "submit"}
            /\ docs' = docs \/ docs'[r] = PendingWrite(docs[r], exec[r])
        BY <1>2, <2>4, <3>2, HandlerStepEffect
      <4>2. docs[r].status \notin Terminal
        BY <4>1 DEF Unsettled, BeforeSettling
      <4>3. PendingWrite(docs[r], exec[r]).status \in {"processing", docs[r].status}
        BY <2>1, <4>1, PendingWriteOutcome
      <4>. QED
        BY <4>1, <4>2, <4>3 DEF Terminal
    <3>. QED
      BY <3>1, <3>2
  <2>. QED
    BY <2>2, <2>3, <2>4 DEF Unsettled, StatusKept
<1>3. ASSUME NEW r \in Requests, QueueStep(r)
      PROVE  FinalInv' /\ StatusKept
  <2>1. CASE Dispatch(r)
    BY <2>1 DEF Dispatch, NoExec, Unsettled, StatusKept, BeforeSettling, TypeInv, TypeOK
  <2>2. CASE Ack(r) \/ Nack(r)
    BY <2>2 DEF Ack, Nack, NoExec, Unsettled, StatusKept, BeforeSettling, TypeInv, TypeOK
  <2>. QED
    BY <1>3, <2>1, <2>2 DEF QueueStep
<1>4. ASSUME NEW r \in Requests, Abort(r) \/ Expire(r)
      PROVE  FinalInv' /\ StatusKept
  BY <1>4 DEF Abort, Expire, LeaveBehind, MayLinger, NoExec, Unsettled, StatusKept, BeforeSettling,
              TypeInv, TypeOK
<1>5. CASE UNCHANGED vars
  BY <1>5 DEF vars, Unsettled, StatusKept
<1>6. CASE \E call \in late : Arrive(call)
  BY <1>6
<1>. QED
  BY <1>1, <1>2, <1>3, <1>4, <1>5, <1>6 DEF Next, Disturbance

\* A settled request is never taken up or settled again: the status read by
\* Load is still the status when the execution writes.
THEOREM SettledStays ==
    ASSUME "late" \notin Faults
    PROVE  Spec => TerminalIsFinal
<1>1. Init => FInv
  BY TypeInvInit, FreshInit, FinalInit DEF FInv
<1>2. FInv /\ [Next]_vars => FInv' /\ [StatusKept]_docs
  BY TypeInvStep, FreshStep, FinalStep DEF FInv
<1>. QED
  BY <1>1, <1>2, PTL DEF Spec, TerminalIsFinal, StatusKept

-------------------------------------------------------------------------------
(***************************************************************************)
(* One NFS-e for a DPS, under every fault.                                 *)
(***************************************************************************)

OneNfsePerDps ==
    /\ \A q, r \in issued : content[q].dps = content[r].dps => q = r
    /\ issued \subseteq Requests

\* Whatever step grants an NFS-e grants it to a DPS that has none.
LEMMA GrantedOnce ==
    ASSUME [Next]_vars
    PROVE  /\ content' = content
           /\ \/ issued' = issued
              \/ \E r \in Requests : ~DpsTaken(r) /\ issued' = issued \cup {r}
              \/ \E call \in late : ~DpsTaken(call.req) /\ issued' = issued \cup {call.req}
<1>1. ASSUME NEW r \in Requests, Submit(r) \/ SubmitError(r)
      PROVE  /\ content' = content
             /\ \/ issued' = issued
                \/ ~DpsTaken(r) /\ issued' = issued \cup {r}
  BY <1>1 DEF Submit, SubmitError, Possible
<1>2. ASSUME NEW r \in Requests, HandlerStep(r), ~Submit(r), ~SubmitError(r)
      PROVE  content' = content /\ issued' = issued
  BY <1>2 DEF HandlerStep, Load, MarkProcessing, UsePreSigned, BuildUnsigned, BuildAndSign,
              RecordSigning, BumpRetryCount, SaveResult, SaveRejection, CreateDelivery,
              SendWebhook, CloseDelivery
<1>3. ASSUME NEW r \in Requests, ApiStep(r) \/ QueueStep(r) \/ Disturbance(r)
      PROVE  content' = content /\ issued' = issued
  BY <1>3 DEF ApiStep, CreateFromJson, CreateFromXml, Insert, EnqueueTask, QueueStep, Dispatch,
              Ack, Nack, Disturbance, ApiCrash, Abort, Expire
<1>4. ASSUME NEW call \in late, Arrive(call)
      PROVE  /\ content' = content
             /\ \/ issued' = issued
                \/ ~DpsTaken(call.req) /\ issued' = issued \cup {call.req}
  BY <1>4 DEF Arrive
<1>5. CASE UNCHANGED vars
  BY <1>5 DEF vars
<1>. QED
  BY <1>1, <1>2, <1>3, <1>4, <1>5 DEF Next

\* Of the requests for one DPS at most one succeeds, however executions and submissions are
\* repeated: a success has its NFS-e, and the government issues one for a DPS.
THEOREM OneSuccess == Spec => []OneSuccessPerDps
<1>. DEFINE Inv == GInv /\ OneNfsePerDps
<1>1. Init => Inv
  BY TypeInvInit, FreshInit, GroundedInit DEF Init, GInv, OneNfsePerDps
<1>2. Inv /\ [Next]_vars => Inv'
  <2>. SUFFICES ASSUME Inv, [Next]_vars PROVE Inv'
    OBVIOUS
  <2>1. \A call \in late : call.req \in Requests
    BY DEF GInv, TypeInv, TypeOK, Call
  <2>2. ASSUME NEW r \in Requests, ~DpsTaken(r), issued' = issued \cup {r}, content' = content
        PROVE  OneNfsePerDps'
    BY <2>2 DEF DpsTaken, OneNfsePerDps
  <2>3. OneNfsePerDps'
    BY <2>1, <2>2, GrantedOnce DEF OneNfsePerDps
  <2>. QED
    BY <2>3, TypeInvStep, FreshStep, GroundedStep DEF GInv
<1>3. Inv => OneSuccessPerDps
  BY DEF GInv, GroundedInv, OutcomeGrounded, OneNfsePerDps, OneSuccessPerDps
<1>. QED
  BY <1>1, <1>2, <1>3, PTL DEF Spec
===============================================================================
