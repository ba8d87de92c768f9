-------------------------- MODULE EmissionRefinement --------------------------
(***************************************************************************)
(* With a store that does what it reports and without calls that outlive   *)
(* their execution, the pipeline implements the contract, whatever the     *)
(* API, the government, the webhook and the worker do.                     *)
(***************************************************************************)
EXTENDS EmissionProofs

-------------------------------------------------------------------------------
(***************************************************************************)
(* The invariant: what an execution at each step may rely on.              *)
(***************************************************************************)

Rows(r) == {row \in deliveries : row.req = r}

\* The status an execution has written when it announces its outcome.
Announced(e) == IF e.verdict = "issued" THEN "success" ELSE "failed"

\* The status of a request, the step of its execution and its task.
StatusFollowsStep(r) ==
    /\ api[r] # "idle" => docs[r].status # "absent"
    /\ api[r] = "enqueue" => task[r].state = "none"
    /\ exec[r].pc # "idle" => task[r].state = "active"
    /\ exec[r].pc = "mark" => docs[r].status \in {"pending", "processing"}
    /\ exec[r].pc \in BeforeSettling \ {"mark"} => docs[r].status = "processing"
    /\ exec[r].pc = "save" => exec[r].verdict = "issued" /\ r \in issued
    /\ exec[r].pc \in {"notify", "send", "close"} => docs[r].status = Announced(exec[r])
    /\ exec[r].pc = "ok" => docs[r].status \in Terminal
    /\ task[r].state = "completed" => docs[r].status \in Terminal

\* One delivery and one outcome at most, not before the request is settled.
AnnouncedOnce(r) ==
    /\ docs[r].status \notin Terminal \/ exec[r].pc = "notify" => Rows(r) = {}
    /\ docs[r].status \notin Terminal \/ exec[r].pc \in {"notify", "send"} => told[r] = {}
    /\ \A x, y \in Rows(r) : x = y
    /\ "completed" \in told[r] => docs[r].status = "success"
    /\ "failed" \in told[r] => docs[r].status = "failed"

SoundInv == late = {} /\ \A r \in Requests : StatusFollowsStep(r) /\ AnnouncedOnce(r)

SInv == TypeInv /\ AllFresh /\ SoundInv

SoundFaults == "late" \notin Faults /\ "store" \notin Faults

LEMMA OneStoreOutcome ==
    ASSUME SoundFaults, NEW outcome \in StoreOutcomes
    PROVE  outcome = "acked"
BY DEF SoundFaults, StoreOutcomes

\* A write of an execution, with nothing lost.
LEMMA SoundWrite ==
    ASSUME SInv, SoundFaults, NEW r \in Requests, NEW outcome \in StoreOutcomes,
           WriteDoc(r, outcome)
    PROVE  docs' = [docs EXCEPT ![r] = PendingWrite(docs[r], exec[r])]
BY OneStoreOutcome DEF WriteDoc, SInv, TypeInv, TypeOK

\* Whoever leaves a request alone preserves what is known of it.
LEMMA OthersKept ==
    ASSUME SInv, NEW q \in Requests,
           docs'[q] = docs[q], exec'[q] = exec[q], task'[q] = task[q], told'[q] = told[q],
           api'[q] = api[q], Rows(q)' = Rows(q), issued \subseteq issued'
    PROVE  StatusFollowsStep(q)' /\ AnnouncedOnce(q)'
<1>1. StatusFollowsStep(q) /\ AnnouncedOnce(q)
  BY DEF SInv, SoundInv
<1>2. StatusFollowsStep(q)'
  BY <1>1 DEF StatusFollowsStep, Announced
<1>3. AnnouncedOnce(q)'
  BY <1>1 DEF AnnouncedOnce
<1>. QED
  BY <1>2, <1>3

LEMMA SoundInit == Init => SoundInv
BY DEF Init, SoundInv, StatusFollowsStep, AnnouncedOnce, Rows, NoDoc, NoExec, NoTask,
       BeforeSettling, Terminal

-------------------------------------------------------------------------------
(***************************************************************************)
(* What each step of an execution does, in terms of the contract.          *)
(***************************************************************************)

\* The step moves the status of r to the given one, and tells nobody.
Moves(r, status) ==
    /\ docs' = [docs EXCEPT ![r] = PendingWrite(docs[r], exec[r])]
    /\ docs'[r].status = status
    /\ UNCHANGED <<told, issued, deliveries>>

\* The step changes neither a document, nor what is told or delivered.
Rests == UNCHANGED <<docs, told, deliveries>>

LEMMA RestingStep ==
    ASSUME SInv, NEW r \in Requests,
           Load(r) \/ UsePreSigned(r) \/ BuildUnsigned(r) \/ BuildAndSign(r)
    PROVE  /\ Rests /\ issued' = issued
           /\ exec'[r].pc \in {"ok", "err", "mark", "submit", "record", "reject"}
           /\ exec'[r].pc = "ok" => docs[r].status \in Terminal
           /\ exec'[r].pc = "mark" => docs[r].status \notin Terminal
           /\ exec'[r].pc \in {"submit", "record", "reject"} => exec[r].pc = "prepare"
<1>. USE DEF At, GoTo
<1>1. exec \in [Requests -> Exec] /\ exec[r] \in Exec
  BY DEF SInv, TypeInv, TypeOK
<1>2. CASE Load(r)
  BY <1>1, <1>2 DEF Load, Exec, Rests
<1>3. CASE UsePreSigned(r)
  BY <1>1, <1>3 DEF UsePreSigned, Exec, Rests
<1>4. CASE BuildUnsigned(r)
  BY <1>1, <1>4 DEF BuildUnsigned, Exec, Rests
<1>5. CASE BuildAndSign(r)
  BY <1>1, <1>5 DEF BuildAndSign, Exec, Rests
<1>. QED
  BY <1>2, <1>3, <1>4, <1>5

LEMMA WritingStep ==
    ASSUME SInv, SoundFaults, NEW r \in Requests
    PROVE  /\ MarkProcessing(r) => /\ Moves(r, "processing")
                                   /\ exec[r].pc = "mark" /\ exec'[r].pc = "prepare"
           /\ RecordSigning(r) => /\ Moves(r, docs[r].status)
                                  /\ exec[r].pc = "record" /\ exec'[r].pc = "submit"
           /\ BumpRetryCount(r) => /\ Moves(r, docs[r].status)
                                   /\ exec[r].pc = "bump" /\ exec'[r].pc = "err"
           /\ SaveResult(r) => /\ Moves(r, "success")
                               /\ exec[r].pc = "save" /\ exec'[r].pc = "notify"
                               /\ exec'[r].verdict = exec[r].verdict
           /\ SaveRejection(r) => /\ Moves(r, "failed")
                                  /\ exec[r].pc = "reject" /\ exec'[r].pc = "notify"
                                  /\ exec'[r].verdict = exec[r].verdict
<1>. USE DEF At, GoTo
<1>1. /\ exec \in [Requests -> Exec] /\ exec[r] \in Exec
      /\ docs \in [Requests -> EmissionDoc] /\ docs[r] \in EmissionDoc
  BY DEF SInv, TypeInv, TypeOK
<1>2. ASSUME NEW status, docs' = [docs EXCEPT ![r] = PendingWrite(docs[r], exec[r])],
             PendingWrite(docs[r], exec[r]).status = status,
             UNCHANGED <<told, issued, deliveries>>
      PROVE  Moves(r, status)
  BY <1>1, <1>2 DEF Moves
<1>3. ASSUME MarkProcessing(r)
      PROVE  /\ Moves(r, "processing")
             /\ exec[r].pc = "mark" /\ exec'[r].pc = "prepare"
  <2>1. PICK outcome \in StoreOutcomes :
            WriteDoc(r, outcome) /\ GoTo(r, IF outcome = "acked" THEN "prepare" ELSE "err")
    BY <1>3 DEF MarkProcessing
  <2>2. exec[r].pc = "mark" /\ exec'[r].pc = "prepare"
    BY <1>1, <1>3, <2>1, OneStoreOutcome DEF MarkProcessing
  <2>3. docs' = [docs EXCEPT ![r] = PendingWrite(docs[r], exec[r])]
    BY <2>1, SoundWrite
  <2>4. PendingWrite(docs[r], exec[r]).status = "processing"
    BY <1>1, <2>2, PendingWriteOutcome
  <2>5. UNCHANGED <<told, issued, deliveries>>
    BY <1>3 DEF MarkProcessing
  <2>. QED
    BY <1>2, <2>2, <2>3, <2>4, <2>5
<1>4. ASSUME RecordSigning(r)
      PROVE  /\ Moves(r, docs[r].status)
             /\ exec[r].pc = "record" /\ exec'[r].pc = "submit"
  <2>1. exec[r].pc = "record" /\ exec'[r].pc = "submit"
    BY <1>1, <1>4 DEF RecordSigning
  <2>2. docs' = [docs EXCEPT ![r] = PendingWrite(docs[r], exec[r])]
    BY <1>4, SoundWrite DEF RecordSigning
  <2>3. PendingWrite(docs[r], exec[r]).status = docs[r].status
    BY <1>1, <2>1, PendingWriteOutcome
  <2>4. UNCHANGED <<told, issued, deliveries>>
    BY <1>4 DEF RecordSigning
  <2>. QED
    BY <1>2, <2>1, <2>2, <2>3, <2>4
<1>5. ASSUME BumpRetryCount(r)
      PROVE  /\ Moves(r, docs[r].status)
             /\ exec[r].pc = "bump" /\ exec'[r].pc = "err"
  <2>1. exec[r].pc = "bump" /\ exec'[r].pc = "err"
    BY <1>1, <1>5 DEF BumpRetryCount
  <2>2. docs' = [docs EXCEPT ![r] = PendingWrite(docs[r], exec[r])]
    BY <1>5, SoundWrite DEF BumpRetryCount
  <2>3. PendingWrite(docs[r], exec[r]).status = docs[r].status
    BY <1>1, <2>1, PendingWriteOutcome
  <2>4. UNCHANGED <<told, issued, deliveries>>
    BY <1>5 DEF BumpRetryCount
  <2>. QED
    BY <1>2, <2>1, <2>2, <2>3, <2>4
<1>6. ASSUME SaveResult(r)
      PROVE  /\ Moves(r, "success")
             /\ exec[r].pc = "save" /\ exec'[r].pc = "notify"
             /\ exec'[r].verdict = exec[r].verdict
  <2>1. PICK outcome \in StoreOutcomes :
            WriteDoc(r, outcome) /\ GoTo(r, IF outcome = "acked" THEN "notify" ELSE "err")
    BY <1>6 DEF SaveResult
  <2>2. /\ exec[r].pc = "save" /\ exec'[r].pc = "notify"
        /\ exec'[r].verdict = exec[r].verdict
    BY <1>1, <1>6, <2>1, OneStoreOutcome DEF SaveResult
  <2>3. docs' = [docs EXCEPT ![r] = PendingWrite(docs[r], exec[r])]
    BY <2>1, SoundWrite
  <2>4. PendingWrite(docs[r], exec[r]).status = "success"
    BY <1>1, <2>2, PendingWriteOutcome
  <2>5. UNCHANGED <<told, issued, deliveries>>
    BY <1>6 DEF SaveResult
  <2>. QED
    BY <1>2, <2>2, <2>3, <2>4, <2>5
<1>7. ASSUME SaveRejection(r)
      PROVE  /\ Moves(r, "failed")
             /\ exec[r].pc = "reject" /\ exec'[r].pc = "notify"
             /\ exec'[r].verdict = exec[r].verdict
  <2>1. /\ exec[r].pc = "reject" /\ exec'[r].pc = "notify"
        /\ exec'[r].verdict = exec[r].verdict
    BY <1>1, <1>7 DEF SaveRejection
  <2>2. docs' = [docs EXCEPT ![r] = PendingWrite(docs[r], exec[r])]
    BY <1>7, SoundWrite DEF SaveRejection
  <2>3. PendingWrite(docs[r], exec[r]).status = "failed"
    BY <1>1, <2>1, PendingWriteOutcome
  <2>4. UNCHANGED <<told, issued, deliveries>>
    BY <1>7 DEF SaveRejection
  <2>. QED
    BY <1>2, <2>1, <2>2, <2>3, <2>4
<1>. QED
  BY <1>3, <1>4, <1>5, <1>6, <1>7

LEMMA SubmittingStep ==
    ASSUME SInv, NEW r \in Requests, Submit(r) \/ SubmitError(r)
    PROVE  /\ Rests
           /\ issued' = issued \/ issued' = issued \cup {r}
           /\ exec[r].pc = "submit" /\ exec'[r].pc \in {"save", "reject", "bump"}
           /\ exec'[r].pc = "save" => exec'[r].verdict = "issued" /\ r \in issued'
<1>. USE DEF At, GoTo
<1>1. exec \in [Requests -> Exec] /\ exec[r] \in Exec
  BY DEF SInv, TypeInv, TypeOK
<1>2. CASE Submit(r)
  <2>1. PICK verdict \in {"issued", "duplicate", "government"}, grants \in BOOLEAN :
            /\ verdict = "issued" => grants
            /\ issued' = IF grants THEN issued \cup {r} ELSE issued
            /\ exec' = [exec EXCEPT ![r].verdict = verdict,
                                    ![r].pc = IF verdict = "issued" THEN "save" ELSE "reject"]
    BY <1>2 DEF Submit, Possible
  <2>2. /\ exec'[r].verdict = verdict
        /\ exec'[r].pc = IF verdict = "issued" THEN "save" ELSE "reject"
    BY <1>1, <2>1 DEF Exec
  <2>. QED
    BY <1>2, <2>1, <2>2 DEF Submit, Possible, Rests
<1>3. CASE SubmitError(r)
  BY <1>1, <1>3 DEF SubmitError, Rests
<1>. QED
  BY <1>2, <1>3
LEMMA AnnouncingStep ==
    ASSUME SInv, SoundFaults, NEW r \in Requests
    PROVE  /\ CreateDelivery(r) =>
                 /\ UNCHANGED <<docs, told, issued>>
                 /\ exec[r].pc = "notify" /\ exec'[r].pc \in {"ok", "send"}
                 /\ exec'[r].verdict = exec[r].verdict
                 /\ \/ deliveries' = deliveries
                    \/ \E row : row.req = r /\ deliveries' = deliveries \cup {row}
           /\ SendWebhook(r) =>
                 /\ UNCHANGED <<docs, issued, deliveries>>
                 /\ exec[r].pc = "send" /\ exec'[r].pc = "close"
                 /\ exec'[r].verdict = exec[r].verdict
                 /\ told' = told \/ told' = Tell(r, exec[r])
           /\ CloseDelivery(r) =>
                 /\ UNCHANGED <<docs, told, issued>>
                 /\ exec[r].pc = "close" /\ exec'[r].pc = "ok"
                 /\ \E status \in {"success", "failed"} :
                       deliveries' = MarkDelivery(deliveries, r, exec[r].run, status)
<1>. USE DEF At, GoTo
<1>1. exec \in [Requests -> Exec] /\ exec[r] \in Exec
  BY DEF SInv, TypeInv, TypeOK
<1>2. ASSUME CreateDelivery(r)
      PROVE  /\ UNCHANGED <<docs, told, issued>>
             /\ exec[r].pc = "notify" /\ exec'[r].pc \in {"ok", "send"}
             /\ exec'[r].verdict = exec[r].verdict
             /\ \/ deliveries' = deliveries
                \/ \E row : row.req = r /\ deliveries' = deliveries \cup {row}
  <2>1. PICK step \in {"ok", "send"} : GoTo(r, step)
    BY <1>2 DEF CreateDelivery
  <2>2. NewDelivery(r, exec[r].run, EventOf(exec[r])).req = r
    BY DEF NewDelivery
  <2>3. \/ deliveries' = deliveries
        \/ deliveries' = deliveries \cup {NewDelivery(r, exec[r].run, EventOf(exec[r]))}
    BY <1>2 DEF CreateDelivery
  <2>4. exec'[r].pc = step /\ exec'[r].verdict = exec[r].verdict
    BY <1>1, <2>1 DEF Exec
  <2>. QED
    BY <1>2, <2>2, <2>3, <2>4 DEF CreateDelivery
<1>3. ASSUME SendWebhook(r)
      PROVE  /\ UNCHANGED <<docs, issued, deliveries>>
             /\ exec[r].pc = "send" /\ exec'[r].pc = "close"
             /\ exec'[r].verdict = exec[r].verdict
             /\ told' = told \/ told' = Tell(r, exec[r])
  BY <1>1, <1>3 DEF SendWebhook, Exec
<1>4. ASSUME CloseDelivery(r)
      PROVE  /\ UNCHANGED <<docs, told, issued>>
             /\ exec[r].pc = "close" /\ exec'[r].pc = "ok"
             /\ \E status \in {"success", "failed"} :
                   deliveries' = MarkDelivery(deliveries, r, exec[r].run, status)
  <2>1. exec[r].pc = "close" /\ exec'[r].pc = "ok"
    BY <1>1, <1>4 DEF CloseDelivery
  <2>2. PICK outcome \in StoreOutcomes :
            deliveries' = IF outcome = "refused" THEN deliveries
                          ELSE MarkDelivery(deliveries, r, exec[r].run,
                                            IF exec[r].delivered THEN "success" ELSE "failed")
    BY <1>4 DEF CloseDelivery
  <2>3. outcome = "acked"
    BY OneStoreOutcome
  <2>. QED
    BY <1>4, <2>1, <2>2, <2>3 DEF CloseDelivery
<1>. QED
  BY <1>2, <1>3, <1>4

\* Closing a delivery keeps the rows of a request apart, and adds none.
LEMMA MarkedRows ==
    ASSUME SInv, NEW r \in Requests, NEW run, NEW status,
           deliveries' = MarkDelivery(deliveries, r, run, status)
    PROVE  /\ \A q \in Requests \ {r} : Rows(q)' = Rows(q)
           /\ (\A x, y \in Rows(r) : x = y) => \A x, y \in Rows(r)' : x = y
<1>. DEFINE M(row) == IF row.req = r /\ row.run = run
                      THEN [row EXCEPT !.status = status] ELSE row
<1>1. \A row \in deliveries : M(row).req = row.req
  <2>. SUFFICES ASSUME NEW row \in deliveries PROVE M(row).req = row.req
    OBVIOUS
  <2>1. row \in Delivery(Requests)
    BY DEF SInv, TypeInv, TypeOK
  <2>2. [row EXCEPT !.status = status].req = row.req
    BY <2>1 DEF Delivery
  <2>. QED
    BY <2>2
<1>2. deliveries' = {M(row) : row \in deliveries}
  BY DEF MarkDelivery
<1>3. \A row \in deliveries : row.req # r => M(row) = row
  OBVIOUS
<1>. HIDE DEF M
<1>. QED
  BY <1>1, <1>2, <1>3 DEF Rows

-------------------------------------------------------------------------------
(***************************************************************************)
(* Every step preserves the invariant.                                     *)
(***************************************************************************)
LEMMA SoundHandlerStep ==
    ASSUME SInv, SoundFaults, NEW r \in Requests, HandlerStep(r)
    PROVE  SoundInv'
<1>1. /\ docs[r] \in EmissionDoc /\ CauseKnown(exec[r])
      /\ StatusFollowsStep(r) /\ AnnouncedOnce(r) /\ late = {}
  BY DEF SInv, SoundInv, TypeInv, TypeOK, RejectionHasCause
<1>2. /\ UNCHANGED <<api, task, late>> /\ exec[r].pc # "idle"
      /\ \A q \in Requests \ {r} : docs'[q] = docs[q] /\ exec'[q] = exec[q] /\ told'[q] = told[q]
  BY HandlerStepLocal DEF SInv, SoundFaults
<1>3. api[r] # "idle" /\ task[r].state = "active"
  BY <1>1, <1>2 DEF SInv, AllFresh, Fresh, StatusFollowsStep
<1>4. docs[r].status \in {"pending", "processing"} \cup Terminal
  BY <1>1, <1>3 DEF EmissionDoc, StatusFollowsStep
<1>5. ASSUME \A q \in Requests \ {r} : Rows(q)' = Rows(q), issued \subseteq issued',
             StatusFollowsStep(r)', AnnouncedOnce(r)'
      PROVE  SoundInv'
  BY <1>1, <1>2, <1>5, OthersKept DEF SoundInv
<1>6. ASSUME NEW status \in {"processing"} \cup Terminal, Moves(r, status)
      PROVE  /\ Rows(r)' = Rows(r) /\ told' = told /\ issued' = issued
             /\ \A q \in Requests \ {r} : Rows(q)' = Rows(q)
             /\ docs'[r].status = status
  BY <1>6 DEF Moves, Rows
<1>7. CASE Load(r) \/ UsePreSigned(r) \/ BuildUnsigned(r) \/ BuildAndSign(r)
  <2>1. /\ Rests /\ issued' = issued
        /\ exec'[r].pc \in {"ok", "err", "mark", "submit", "record", "reject"}
        /\ exec'[r].pc = "ok" => docs[r].status \in Terminal
        /\ exec'[r].pc = "mark" => docs[r].status \notin Terminal
        /\ exec'[r].pc \in {"submit", "record", "reject"} => exec[r].pc = "prepare"
    BY <1>7, RestingStep
  <2>2. StatusFollowsStep(r)'
    BY <1>1, <1>2, <1>3, <1>4, <2>1 DEF Rests, StatusFollowsStep, BeforeSettling
  <2>3. AnnouncedOnce(r)'
    BY <1>1, <2>1 DEF Rests, AnnouncedOnce, Rows
  <2>. QED
    BY <1>5, <2>1, <2>2, <2>3 DEF Rests, Rows
<1>8. CASE MarkProcessing(r)
  <2>1. /\ Moves(r, "processing")
        /\ exec[r].pc = "mark" /\ exec'[r].pc = "prepare"
    BY <1>8, WritingStep
  <2>2. StatusFollowsStep(r)'
    BY <1>1, <1>2, <1>3, <1>6, <2>1 DEF StatusFollowsStep, BeforeSettling
  <2>3. AnnouncedOnce(r)'
    BY <1>1, <1>6, <2>1 DEF AnnouncedOnce, StatusFollowsStep, Terminal
  <2>. QED
    BY <1>5, <1>6, <2>1, <2>2, <2>3
<1>9. CASE RecordSigning(r) \/ BumpRetryCount(r)
  <2>1. /\ Moves(r, docs[r].status)
        /\ \/ exec[r].pc = "record" /\ exec'[r].pc = "submit"
           \/ exec[r].pc = "bump" /\ exec'[r].pc = "err"
    BY <1>9, WritingStep
  <2>2. docs[r].status = "processing"
    BY <1>1, <2>1 DEF StatusFollowsStep, BeforeSettling
  <2>3. StatusFollowsStep(r)'
    BY <1>1, <1>2, <1>3, <1>6, <2>1, <2>2 DEF StatusFollowsStep, BeforeSettling
  <2>4. AnnouncedOnce(r)'
    BY <1>1, <1>6, <2>1, <2>2 DEF AnnouncedOnce, Terminal
  <2>. QED
    BY <1>5, <1>6, <2>1, <2>2, <2>3, <2>4
<1>10. CASE SaveResult(r)
  <2>1. /\ Moves(r, "success")
        /\ exec[r].pc = "save" /\ exec'[r].pc = "notify"
        /\ exec'[r].verdict = exec[r].verdict
    BY <1>10, WritingStep
  <2>2. docs[r].status = "processing" /\ exec[r].verdict = "issued"
    BY <1>1, <2>1 DEF StatusFollowsStep, BeforeSettling
  <2>3. StatusFollowsStep(r)'
    BY <1>1, <1>2, <1>3, <1>6, <2>1, <2>2
    DEF StatusFollowsStep, BeforeSettling, Announced, Terminal
  <2>4. AnnouncedOnce(r)'
    BY <1>1, <1>6, <2>1, <2>2 DEF AnnouncedOnce, Terminal
  <2>. QED
    BY <1>5, <1>6, <2>1, <2>3, <2>4 DEF Terminal
<1>11. CASE SaveRejection(r)
  <2>1. /\ Moves(r, "failed")
        /\ exec[r].pc = "reject" /\ exec'[r].pc = "notify"
        /\ exec'[r].verdict = exec[r].verdict
    BY <1>11, WritingStep
  <2>2. docs[r].status = "processing" /\ exec[r].verdict # "issued"
    BY <1>1, <2>1 DEF StatusFollowsStep, BeforeSettling, CauseKnown, Causes
  <2>3. StatusFollowsStep(r)'
    BY <1>1, <1>2, <1>3, <1>6, <2>1, <2>2
    DEF StatusFollowsStep, BeforeSettling, Announced, Terminal
  <2>4. AnnouncedOnce(r)'
    BY <1>1, <1>6, <2>1, <2>2 DEF AnnouncedOnce, Terminal
  <2>. QED
    BY <1>5, <1>6, <2>1, <2>3, <2>4 DEF Terminal
<1>12. CASE Submit(r) \/ SubmitError(r)
  <2>1. /\ Rests /\ issued \subseteq issued'
        /\ exec[r].pc = "submit" /\ exec'[r].pc \in {"save", "reject", "bump"}
        /\ exec'[r].pc = "save" => exec'[r].verdict = "issued" /\ r \in issued'
    BY <1>12, SubmittingStep
  <2>2. StatusFollowsStep(r)'
    BY <1>1, <1>2, <1>3, <2>1 DEF Rests, StatusFollowsStep, BeforeSettling
  <2>3. AnnouncedOnce(r)'
    BY <1>1, <2>1 DEF Rests, AnnouncedOnce, Rows
  <2>. QED
    BY <1>5, <2>1, <2>2, <2>3 DEF Rests, Rows
<1>13. CASE CreateDelivery(r)
  <2>1. /\ UNCHANGED <<docs, told, issued>>
        /\ exec[r].pc = "notify" /\ exec'[r].pc \in {"ok", "send"}
        /\ exec'[r].verdict = exec[r].verdict
        /\ \/ deliveries' = deliveries
           \/ \E row : row.req = r /\ deliveries' = deliveries \cup {row}
    BY <1>13, AnnouncingStep
  <2>2. docs[r].status \in Terminal /\ Rows(r) = {} /\ told[r] = {}
    BY <1>1, <2>1 DEF StatusFollowsStep, AnnouncedOnce, Announced, Terminal
  <2>3. StatusFollowsStep(r)'
    BY <1>1, <1>2, <1>3, <2>1, <2>2 DEF StatusFollowsStep, Announced, BeforeSettling
  <2>4. AnnouncedOnce(r)'
    BY <1>1, <2>1, <2>2 DEF AnnouncedOnce, Rows
  <2>5. \A q \in Requests \ {r} : Rows(q)' = Rows(q)
    BY <2>1 DEF Rows
  <2>. QED
    BY <1>5, <2>1, <2>3, <2>4, <2>5
<1>14. CASE SendWebhook(r)
  <2>1. /\ UNCHANGED <<docs, issued, deliveries>>
        /\ exec[r].pc = "send" /\ exec'[r].pc = "close"
        /\ exec'[r].verdict = exec[r].verdict
        /\ told' = told \/ told' = Tell(r, exec[r])
    BY <1>14, AnnouncingStep
  <2>2. /\ docs[r].status = Announced(exec[r]) /\ docs[r].status \in Terminal /\ told[r] = {}
    BY <1>1, <2>1 DEF StatusFollowsStep, AnnouncedOnce, Announced, Terminal
  <2>3. told'[r] = {} \/ told'[r] = {EventOf(exec[r])}
    BY <2>1, <2>2 DEF Tell, SInv, TypeInv, TypeOK
  <2>4. StatusFollowsStep(r)'
    BY <1>1, <1>2, <1>3, <2>1, <2>2 DEF StatusFollowsStep, Announced, BeforeSettling
  <2>5. AnnouncedOnce(r)'
    BY <1>1, <2>1, <2>2, <2>3 DEF AnnouncedOnce, Rows, EventOf, Announced
  <2>. QED
    BY <1>5, <2>1, <2>4, <2>5 DEF Rows
<1>15. CASE CloseDelivery(r)
  <2>1. /\ UNCHANGED <<docs, told, issued>>
        /\ exec[r].pc = "close" /\ exec'[r].pc = "ok"
        /\ \E status \in {"success", "failed"} :
              deliveries' = MarkDelivery(deliveries, r, exec[r].run, status)
    BY <1>15, AnnouncingStep
  <2>2. docs[r].status \in Terminal
    BY <1>1, <2>1 DEF StatusFollowsStep, Announced, Terminal
  <2>3. /\ \A q \in Requests \ {r} : Rows(q)' = Rows(q)
        /\ \A x, y \in Rows(r)' : x = y
    BY <1>1, <2>1, MarkedRows DEF AnnouncedOnce
  <2>4. StatusFollowsStep(r)'
    BY <1>1, <1>2, <1>3, <2>1, <2>2 DEF StatusFollowsStep, BeforeSettling
  <2>5. AnnouncedOnce(r)'
    BY <1>1, <2>1, <2>2, <2>3 DEF AnnouncedOnce
  <2>. QED
    BY <1>5, <2>1, <2>3, <2>4, <2>5
<1>. QED
  BY <1>7, <1>8, <1>9, <1>10, <1>11, <1>12, <1>13, <1>14, <1>15 DEF HandlerStep

LEMMA SoundStep ==
    ASSUME SInv, SoundFaults, [Next]_vars
    PROVE  SoundInv'
<1>1. late = {} /\ \A q \in Requests : StatusFollowsStep(q) /\ AnnouncedOnce(q)
  BY DEF SInv, SoundInv
<1>. USE DEF SInv, TypeInv, TypeOK
<1>2. ASSUME NEW r \in Requests, ApiStep(r) \/ ApiCrash(r)
      PROVE  SoundInv'
  <2>1. /\ UNCHANGED <<exec, deliveries, told, issued, late>>
        /\ \A q \in Requests \ {r} : /\ api'[q] = api[q] /\ task'[q] = task[q]
                                     /\ docs'[q] = docs[q]
    BY <1>2 DEF ApiStep, ApiCrash, CreateFromJson, CreateFromXml, Insert, EnqueueTask
  <2>2. StatusFollowsStep(r)' /\ AnnouncedOnce(r)'
    <3>1. CASE Insert(r)
      <4>1. PICK outcome \in StoreOutcomes :
                docs' = IF outcome = "refused" THEN docs
                        ELSE [docs EXCEPT ![r] = NewDoc(content[r].kind)]
        BY <3>1 DEF Insert
      <4>2. NewDoc(content[r].kind).status = "pending"
        BY DEF NewDoc, NoDoc
      <4>3. docs'[r].status = "pending"
        BY <4>1, <4>2, <2>1, OneStoreOutcome
      <4>4. /\ exec[r].pc = "idle" /\ task'[r].state = "none" /\ told[r] = {}
            /\ docs[r].status = "absent"
        BY <3>1 DEF Insert, AllFresh, Fresh, NoDoc
      <4>5. StatusFollowsStep(r)'
        BY <2>1, <4>3, <4>4 DEF StatusFollowsStep, BeforeSettling
      <4>6. AnnouncedOnce(r)'
        BY <1>1, <2>1, <4>3, <4>4 DEF AnnouncedOnce, Rows, Terminal
      <4>. QED
        BY <4>5, <4>6
    <3>2. CASE EnqueueTask(r) \/ ApiCrash(r)
      <4>1. /\ docs' = docs /\ api[r] = "enqueue"
            /\ api'[r] \in {"accepted", "dropped"}
            /\ task'[r] = task[r] \/ task'[r].state = "queued"
        BY <3>2 DEF EnqueueTask, ApiCrash, Enqueued, NoTask
      <4>2. exec[r].pc = "idle" /\ task[r].state = "none"
        BY <1>1, <4>1 DEF StatusFollowsStep
      <4>3. StatusFollowsStep(r)'
        BY <1>1, <2>1, <4>1, <4>2 DEF StatusFollowsStep, BeforeSettling
      <4>4. AnnouncedOnce(r)'
        BY <1>1, <2>1, <4>1 DEF AnnouncedOnce, Rows
      <4>. QED
        BY <4>3, <4>4
    <3>. QED
      BY <1>2, <3>1, <3>2 DEF ApiStep, CreateFromJson, CreateFromXml
  <2>. QED
    BY <1>1, <2>1, <2>2, OthersKept DEF SoundInv, Rows
<1>3. ASSUME NEW r \in Requests, QueueStep(r) \/ Abort(r) \/ Expire(r)
      PROVE  SoundInv'
  <2>1. /\ UNCHANGED <<api, docs, deliveries, told, issued, late>>
        /\ \A q \in Requests \ {r} : task'[q] = task[q] /\ exec'[q] = exec[q]
    BY <1>3, <1>1 DEF QueueStep, Dispatch, Ack, Nack, Abort, Expire, LeaveBehind, MayLinger, SoundFaults
  <2>2. task[r] \in Task /\ task[r].state # "none"
    BY <1>3, <1>1 DEF QueueStep, Dispatch, Ack, Nack, Abort, Expire, At, StatusFollowsStep
  <2>3. \/ exec'[r].pc = "idle" /\ task'[r].state \in {"queued", "archived"}
        \/ exec'[r].pc = "idle" /\ task'[r].state = "completed" /\ exec[r].pc = "ok"
        \/ exec'[r].pc = "load" /\ task'[r].state = "active"
    <3>1. CASE Dispatch(r)
      BY <2>2, <3>1 DEF Dispatch, Dequeue, NoExec, Task
    <3>2. CASE Ack(r)
      BY <2>2, <3>2 DEF Ack, At, MarkDone, NoExec, Task
    <3>3. CASE Nack(r) \/ Abort(r) \/ Expire(r)
      <4>1. exec'[r].pc = "idle"
        BY <3>3 DEF Nack, Abort, Expire, LeaveBehind, NoExec
      <4>2. RetryOrArchive(task[r]).state \in {"queued", "archived"}
        <5>1. CASE task[r].retried < MaxRetry
          BY <2>2, <5>1 DEF RetryOrArchive, Task
        <5>2. CASE ~(task[r].retried < MaxRetry)
          BY <2>2, <5>2 DEF RetryOrArchive, Task
        <5>. QED
          BY <5>1, <5>2
      <4>3. Requeue(task[r]).state = "queued"
        BY <2>2 DEF Requeue, Task
      <4>4. task'[r] \in {RetryOrArchive(task[r]), Requeue(task[r])}
        BY <3>3 DEF Nack, Abort, Expire
      <4>. QED
        BY <4>1, <4>2, <4>3, <4>4
    <3>. QED
      BY <1>3, <3>1, <3>2, <3>3 DEF QueueStep
  <2>4. StatusFollowsStep(r)'
    BY <1>1, <2>1, <2>2, <2>3 DEF StatusFollowsStep, BeforeSettling
  <2>5. AnnouncedOnce(r)'
    BY <1>1, <2>1, <2>3 DEF AnnouncedOnce, Rows
  <2>. QED
    BY <1>1, <2>1, <2>4, <2>5, OthersKept DEF SoundInv, Rows
<1>4. ASSUME NEW r \in Requests, HandlerStep(r)
      PROVE  SoundInv'
  BY <1>4, SoundHandlerStep
<1>5. CASE UNCHANGED vars
  BY <1>5, <1>1 DEF vars, SoundInv, StatusFollowsStep, AnnouncedOnce, Rows, Announced
<1>6. CASE \E call \in late : Arrive(call)
  BY <1>1, <1>6
<1>. QED
  BY <1>2, <1>3, <1>4, <1>5, <1>6 DEF Next, Disturbance

\* Every reachable state is sound: the invariant the other theorems rest on.
THEOREM SoundAlways ==
    ASSUME SoundFaults
    PROVE  Spec => []SInv
<1>1. Init => SInv
  BY TypeInvInit, FreshInit, SoundInit DEF SInv
<1>2. SInv /\ [Next]_vars => SInv'
  BY TypeInvStep, FreshStep, SoundStep DEF SInv
<1>. QED
  BY <1>1, <1>2, PTL DEF Spec

\* One execution at most announces an outcome, and the integrator hears the
\* outcome that is stored.
THEOREM OneOutcome ==
    ASSUME SoundFaults
    PROVE  Spec => []OneOutcomeTold
<1>1. SInv => OneOutcomeTold
  <2>. SUFFICES ASSUME SInv PROVE OneOutcomeTold
    OBVIOUS
  <2>1. \A r \in Requests : AnnouncedOnce(r)
    BY DEF SInv, SoundInv
  <2>2. \A row \in deliveries : row.req \in Requests
    BY DEF SInv, TypeInv, TypeOK, Delivery
  <2>. QED
    BY <2>1, <2>2 DEF OneOutcomeTold, AnnouncedOnce, Rows
<1>. QED
  BY <1>1, SoundAlways, PTL

\* The queue forgets a request only when it is settled.
THEOREM ForgottenIsSettled ==
    ASSUME SoundFaults
    PROVE  Spec => []CompletedMeansSettled
<1>1. SInv => CompletedMeansSettled
  BY DEF SInv, SoundInv, StatusFollowsStep, CompletedMeansSettled
<1>. QED
  BY <1>1, SoundAlways, PTL

-------------------------------------------------------------------------------
(***************************************************************************)
(* The refinement: a step of the pipeline is a step of the contract, or    *)
(* one that the contract does not see.                                     *)
(***************************************************************************)

\* A step that leaves the status of every request, the NFS-e and what is told.
LEMMA UnseenStep ==
    ASSUME SInv, \A q \in Requests : docs'[q].status = docs[q].status,
           issued' = issued, told' = told
    PROVE  UNCHANGED Contract!vars
BY DEF Contract!vars

\* A step that changes the status of one request only.
LEMMA StatusStep ==
    ASSUME SInv, NEW r \in Requests, NEW status,
           docs'[r].status = status,
           \A q \in Requests \ {r} : docs'[q] = docs[q]
    PROVE  [q \in Requests |-> docs[q].status]' =
               [[q \in Requests |-> docs[q].status] EXCEPT ![r] = status]
OBVIOUS

LEMMA ContractInit == Init => Contract!Init
BY DEF Init, Contract!Init, NoDoc

LEMMA ContractHandlerStep ==
    ASSUME SInv, SoundFaults, NEW r \in Requests, HandlerStep(r)
    PROVE  [Contract!Next]_(Contract!vars)
<1>1. /\ docs[r] \in EmissionDoc /\ CauseKnown(exec[r])
      /\ StatusFollowsStep(r) /\ AnnouncedOnce(r)
      /\ told \in [Requests -> SUBSET Events]
  BY DEF SInv, SoundInv, TypeInv, TypeOK, RejectionHasCause
<1>2. \A q \in Requests \ {r} : docs'[q] = docs[q]
  BY HandlerStepLocal DEF SInv
<1>3. CASE \/ Load(r) \/ UsePreSigned(r) \/ BuildUnsigned(r) \/ BuildAndSign(r)
           \/ CreateDelivery(r) \/ CloseDelivery(r)
  <2>1. docs' = docs /\ issued' = issued /\ told' = told
    BY <1>3, RestingStep, AnnouncingStep DEF Rests
  <2>. QED
    BY <2>1, UnseenStep
<1>4. CASE MarkProcessing(r)
  <2>1. Moves(r, "processing") /\ exec[r].pc = "mark"
    BY <1>4, WritingStep
  <2>2. docs[r].status \in {"pending", "processing"}
    BY <1>1, <2>1 DEF StatusFollowsStep
  <2>3. CASE docs[r].status = "pending"
    <3>1. Contract!TakeUp(r)
      BY <1>2, <2>1, <2>3, StatusStep DEF Moves, Contract!TakeUp
    <3>. QED
      BY <3>1 DEF Contract!Next
  <2>4. CASE docs[r].status = "processing"
    BY <1>2, <2>1, <2>4, UnseenStep DEF Moves
  <2>. QED
    BY <2>2, <2>3, <2>4
<1>5. CASE RecordSigning(r) \/ BumpRetryCount(r)
  <2>1. Moves(r, docs[r].status)
    BY <1>5, WritingStep
  <2>. QED
    BY <1>2, <2>1, UnseenStep DEF Moves
<1>6. CASE SaveResult(r)
  <2>1. Moves(r, "success") /\ exec[r].pc = "save"
    BY <1>6, WritingStep
  <2>2. docs[r].status = "processing" /\ r \in issued
    BY <1>1, <2>1 DEF StatusFollowsStep, BeforeSettling
  <2>3. Contract!Succeed(r)
    BY <1>2, <2>1, <2>2, StatusStep DEF Moves, Contract!Succeed
  <2>. QED
    BY <2>3 DEF Contract!Next
<1>7. CASE SaveRejection(r)
  <2>1. Moves(r, "failed") /\ exec[r].pc = "reject"
    BY <1>7, WritingStep
  <2>2. docs[r].status = "processing"
    BY <1>1, <2>1 DEF StatusFollowsStep, BeforeSettling
  <2>3. Contract!Fail(r)
    BY <1>2, <2>1, <2>2, StatusStep DEF Moves, Contract!Fail
  <2>. QED
    BY <2>3 DEF Contract!Next
<1>8. CASE Submit(r) \/ SubmitError(r)
  <2>1. /\ Rests /\ exec[r].pc = "submit"
        /\ issued' = issued \/ issued' = issued \cup {r}
    BY <1>8, SubmittingStep
  <2>2. CASE issued' = issued
    BY <2>1, <2>2, UnseenStep DEF Rests
  <2>3. CASE issued' = issued \cup {r} /\ r \notin issued
    <3>1. docs[r].status = "processing"
      BY <1>1, <2>1 DEF StatusFollowsStep, BeforeSettling
    <3>2. Contract!Issue(r)
      BY <2>1, <2>3, <3>1 DEF Rests, Contract!Issue
    <3>. QED
      BY <3>2 DEF Contract!Next
  <2>. QED
    BY <2>1, <2>2, <2>3
<1>9. CASE SendWebhook(r)
  <2>1. /\ UNCHANGED <<docs, issued>> /\ exec[r].pc = "send"
        /\ told' = told \/ told' = Tell(r, exec[r])
    BY <1>9, AnnouncingStep
  <2>2. told[r] = {} /\ docs[r].status = Announced(exec[r])
    BY <1>1, <2>1 DEF StatusFollowsStep, AnnouncedOnce
  <2>3. CASE told' = told
    BY <2>1, <2>3, UnseenStep
  <2>4. CASE told' = Tell(r, exec[r])
    <3>1. told' = [told EXCEPT ![r] = {EventOf(exec[r])}]
      BY <1>1, <2>2, <2>4 DEF Tell
    <3>2. Contract!Tell(r)
      BY <2>1, <2>2, <3>1 DEF Contract!Tell, EventOf, Announced
    <3>. QED
      BY <3>2 DEF Contract!Next
  <2>. QED
    BY <2>1, <2>3, <2>4
<1>. QED
  BY <1>3, <1>4, <1>5, <1>6, <1>7, <1>8, <1>9 DEF HandlerStep

LEMMA ContractStep ==
    ASSUME SInv, SoundFaults, [Next]_vars
    PROVE  [Contract!Next]_(Contract!vars)
<1>1. ASSUME NEW r \in Requests, Insert(r)
      PROVE  [Contract!Next]_(Contract!vars)
  <2>1. PICK outcome \in StoreOutcomes :
            docs' = IF outcome = "refused" THEN docs
                    ELSE [docs EXCEPT ![r] = NewDoc(content[r].kind)]
    BY <1>1 DEF Insert
  <2>2. NewDoc(content[r].kind).status = "pending"
    BY DEF NewDoc, NoDoc
  <2>3. docs[r].status = "absent"
    BY <1>1 DEF Insert, SInv, AllFresh, Fresh, NoDoc
  <2>4. docs'[r].status = "pending" /\ \A q \in Requests \ {r} : docs'[q] = docs[q]
    BY <2>1, <2>2, OneStoreOutcome DEF SInv, TypeInv, TypeOK
  <2>5. Contract!Accept(r)
    BY <1>1, <2>3, <2>4, StatusStep DEF Insert, Contract!Accept
  <2>. QED
    BY <2>5 DEF Contract!Next
<1>2. ASSUME NEW r \in Requests, HandlerStep(r)
      PROVE  [Contract!Next]_(Contract!vars)
  BY <1>2, ContractHandlerStep
<1>3. ASSUME NEW r \in Requests,
             \/ EnqueueTask(r) \/ ApiCrash(r) \/ QueueStep(r) \/ Abort(r) \/ Expire(r)
      PROVE  [Contract!Next]_(Contract!vars)
  BY <1>3, UnseenStep DEF EnqueueTask, ApiCrash, QueueStep, Dispatch, Ack, Nack, Abort, Expire
<1>4. CASE UNCHANGED vars
  BY <1>4, UnseenStep DEF vars
<1>5. CASE \E call \in late : Arrive(call)
  BY <1>5 DEF SInv, SoundInv
<1>. QED
  BY <1>1, <1>2, <1>3, <1>4, <1>5
  DEF Next, ApiStep, CreateFromJson, CreateFromXml, Disturbance

\* The pipeline implements the contract: accepted, taken up, settled once and
\* grounded in an NFS-e, announced after it is settled and as it was settled.
THEOREM PipelineImplementsContract ==
    ASSUME SoundFaults
    PROVE  Spec => ImplementsContract
<1>1. Init => Contract!Init
  BY ContractInit
<1>2. SInv /\ [Next]_vars => [Contract!Next]_(Contract!vars)
  BY ContractStep
<1>. QED
  BY <1>1, <1>2, SoundAlways, PTL DEF Spec, ImplementsContract, Contract!Spec
===============================================================================
