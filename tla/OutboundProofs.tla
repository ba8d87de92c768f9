----------------------------- MODULE OutboundProofs -----------------------------
(***************************************************************************)
(* The outbound calls for any calls, DPS and numbers of retries: both      *)
(* loops keep their types, SubmitDPS implements its contract, a call's own *)
(* NFS-e is refused as a duplicate only after a retry, Send reports what   *)
(* it did, both are the single steps that EmissionPipeline takes them for, *)
(* and no step of either loop is without a price.                          *)
(***************************************************************************)
EXTENDS OutboundCalls, FiniteSetTheorems, TLAPS

-------------------------------------------------------------------------------
\* Types.

LEMMA TypeInit == Init => TypeOK
BY OutboundAssumption
DEF Init, TypeOK, Client!Init, Client!Call, Client!Results, Client!Post, Client!Reply,
    Sender!Init, Sender!Send

LEMMA ClientType ==
    ASSUME TypeOK, NEW c \in Calls, Client!Submit(c) \/ Client!ClientStep(c), UNCHANGED senderVars
    PROVE  TypeOK'
<1>1. /\ call' \in [Calls -> Client!Call]
      /\ posted' \subseteq Client!Post
      /\ replies' \subseteq Client!Reply
      /\ issued' \subseteq Calls
  <2>1. CASE Client!Submit(c) \/ Client!DoSubmit(c)
    BY <2>1, OutboundAssumption
    DEF TypeOK, Client!Submit, Client!DoSubmit, Client!PostOf, Client!Call, Client!Post
  <2>2. CASE Client!ConnectFails(c) \/ Client!ConnectionBreaks(c)
    BY <2>2, OutboundAssumption
    DEF TypeOK, Client!ConnectFails, Client!ConnectionBreaks, Client!RetryOrGiveUp, Client!Finish,
        Client!HangUp, Client!Call, Client!Results
  <2>3. CASE Client!FailsForGood(c)
    BY <2>3 DEF TypeOK, Client!FailsForGood, Client!Finish, Client!HangUp, Client!Call, Client!Results
  <2>4. CASE Client!ReadAnswer(c)
    BY <2>4
    DEF TypeOK, Client!ReadAnswer, Client!Finish, Client!Call, Client!Results, Client!Reply
  <2>. QED
    BY <2>1, <2>2, <2>3, <2>4 DEF Client!ClientStep
<1>. QED
  BY <1>1 DEF TypeOK, senderVars

LEMMA GovernmentType ==
    ASSUME TypeOK, Client!Government, UNCHANGED senderVars
    PROVE  TypeOK'
<1>1. PICK post \in posted : Client!Govern(post) \/ Client!LosePost(post)
  BY DEF Client!Government
<1>2. /\ call' = call
      /\ posted' \subseteq Client!Post
      /\ replies' \subseteq Client!Reply
      /\ issued' \subseteq Calls
  BY <1>1 DEF TypeOK, Client!Govern, Client!LosePost, Client!Post, Client!Reply
<1>. QED
  BY <1>2 DEF TypeOK, senderVars

\* The loop of Send counts its rounds, and reports their number.
Counted(c) ==
    /\ send[c].pc = "idle" => send[c].tries = 0 /\ send[c].attempt = 0
    /\ send[c].pc = "ready" => send[c].tries = send[c].attempt
    /\ send[c].pc = "posting" => send[c].tries = send[c].attempt + 1
    /\ send[c].pc = "done" => send[c].tries = send[c].attempts

CountInv == TypeOK /\ \A c \in Calls : Counted(c)

LEMMA SenderCounts ==
    ASSUME CountInv, NEW c \in Calls, Sender!Begin(c) \/ Sender!SenderStep(c), UNCHANGED clientVars
    PROVE  CountInv'
<1>1. /\ send' \in [Calls -> Sender!Send]
      /\ \A d \in Calls \ {c} : send'[d] = send[d]
      /\ Counted(c)'
  <2>1. CASE Sender!Begin(c)
    BY <2>1 DEF CountInv, Counted, TypeOK, Sender!Begin, Sender!Send
  <2>2. CASE Sender!DoPost(c)
    <3>1. /\ send' = [send EXCEPT ![c] = [send[c] EXCEPT !.pc = "posting",
                                                       !.tries = send[c].tries + 1]]
          /\ send[c].pc = "ready"
      BY <2>2 DEF Sender!DoPost
    <3>2. send[c] \in Sender!Send /\ send[c].tries = send[c].attempt
      BY <3>1 DEF CountInv, Counted, TypeOK
    <3>3. send[c].tries + 1 \in 0..(MaxSendAttempt + 1)
      BY <3>2, OutboundAssumption DEF Sender!Send
    <3>4. [send[c] EXCEPT !.pc = "posting", !.tries = send[c].tries + 1] \in Sender!Send
      BY <3>2, <3>3 DEF Sender!Send
    <3>. QED
      BY <3>1, <3>2, <3>4 DEF CountInv, Counted, TypeOK
  <2>8. ASSUME NEW new \in Sender!Send, send' = [send EXCEPT ![c] = new],
               \/ new.pc = "ready" /\ new.tries = new.attempt
               \/ new.pc = "done" /\ new.tries = new.attempts
        PROVE  /\ send' \in [Calls -> Sender!Send]
               /\ \A d \in Calls \ {c} : send'[d] = send[d]
               /\ Counted(c)'
    BY <2>8 DEF CountInv, Counted, TypeOK
  <2>9. ASSUME NEW n \in 0..(MaxSendAttempt + 1), send[c].tries = n,
               Sender!Return(c, FALSE, n)
        PROVE  /\ send' \in [Calls -> Sender!Send]
               /\ \A d \in Calls \ {c} : send'[d] = send[d]
               /\ Counted(c)'
    <3>. DEFINE new == [send[c] EXCEPT !.pc = "done", !.success = FALSE, !.attempts = n]
    <3>1. send[c] \in Sender!Send
      BY DEF CountInv, TypeOK
    <3>2. new \in Sender!Send
      BY <3>1, Zenon DEF Sender!Send
    <3>3. new.pc = "done" /\ new.tries = new.attempts
      BY <2>9, <3>1 DEF Sender!Send
    <3>4. send' = [send EXCEPT ![c] = new]
      BY <2>9 DEF Sender!Return
    <3>. HIDE DEF new
    <3>. QED
      BY <2>8, <3>2, <3>3, <3>4
  <2>3. CASE Sender!RetryOrGiveUp(c) /\ send[c].pc = "posting"
    <3>1. /\ send[c] \in Sender!Send
          /\ send[c].attempt \in 0..MaxSendAttempt /\ send[c].tries = send[c].attempt + 1
      BY <2>3 DEF CountInv, Counted, TypeOK, Sender!Send
    <3>2. CASE send[c].attempt < MaxSendAttempt
      <4>. DEFINE n == send[c].attempt + 1
                  new == [send[c] EXCEPT !.pc = "ready", !.attempt = n]
      <4>1. n \in 0..MaxSendAttempt
        BY <3>1, <3>2, OutboundAssumption
      <4>2. new \in Sender!Send
        <5>. HIDE DEF n
        <5>. QED
          BY <3>1, <4>1, Zenon DEF Sender!Send
      <4>3. new.pc = "ready" /\ new.tries = new.attempt
        BY <3>1 DEF Sender!Send
      <4>4. send' = [send EXCEPT ![c] = new]
        BY <2>3, <3>2 DEF Sender!RetryOrGiveUp
      <4>. HIDE DEF new
      <4>. QED
        BY <2>8, <4>2, <4>3, <4>4
    <3>3. CASE ~(send[c].attempt < MaxSendAttempt)
      <4>1. send[c].tries = MaxSendAttempt + 1 /\ MaxSendAttempt + 1 \in 0..(MaxSendAttempt + 1)
        BY <3>1, <3>3, OutboundAssumption
      <4>2. Sender!Return(c, FALSE, MaxSendAttempt + 1)
        BY <2>3, <3>3 DEF Sender!RetryOrGiveUp
      <4>. QED
        BY <2>9, <4>1, <4>2
    <3>. QED
      BY <3>2, <3>3
  <2>4. CASE Sender!Cancelled(c)
    <3>1. /\ send[c].tries = send[c].attempt
          /\ send[c].attempt \in 0..MaxSendAttempt
          /\ Sender!Return(c, FALSE, send[c].attempt)
      BY <2>4 DEF Sender!Cancelled, CountInv, Counted, TypeOK, Sender!Send
    <3>2. send[c].attempt \in 0..(MaxSendAttempt + 1)
      BY <3>1, OutboundAssumption
    <3>. QED
      BY <2>9, <3>1, <3>2
  <2>5. ASSUME NEW success \in {TRUE, FALSE},
               Sender!Return(c, success, send[c].attempt + 1), send[c].pc = "posting"
        PROVE  /\ send' \in [Calls -> Sender!Send]
               /\ \A d \in Calls \ {c} : send'[d] = send[d]
               /\ Counted(c)'
    <3>1. send[c] \in Sender!Send
      BY DEF CountInv, TypeOK
    <3>2. send[c].attempt + 1 \in 0..(MaxSendAttempt + 1) /\ send[c].tries = send[c].attempt + 1
      BY <2>5, <3>1, OutboundAssumption DEF CountInv, Counted, Sender!Send
    <3>. DEFINE new == [send[c] EXCEPT !.pc = "done", !.success = success,
                                       !.attempts = send[c].attempt + 1]
    <3>3. new \in Sender!Send
      BY <3>1, <3>2, Zenon DEF Sender!Send
    <3>4. new.pc = "done" /\ new.tries = new.attempts
      BY <3>1, <3>2 DEF Sender!Send
    <3>5. send' = [send EXCEPT ![c] = new]
      BY <2>5 DEF Sender!Return
    <3>. QED
      BY <3>3, <3>4, <3>5 DEF CountInv, Counted, TypeOK
  <2>6. CASE Sender!DoFails(c)
    BY <2>3, <2>6 DEF Sender!DoFails
  <2>7. CASE Sender!ReadStatus(c)
    <3>1. PICK reply \in statuses :
              /\ reply.to.by = c
              /\ Sender!Waiting(reply.to)
              /\ \/ Sender!Return(c, TRUE, send[c].attempt + 1)
                 \/ Sender!Return(c, FALSE, send[c].attempt + 1)
                 \/ Sender!RetryOrGiveUp(c)
      BY <2>7 DEF Sender!ReadStatus
    <3>2. send[c].pc = "posting"
      BY <3>1 DEF Sender!Waiting
    <3>. QED
      BY <2>3, <2>5, <3>1, <3>2
  <2>. QED
    BY <2>1, <2>2, <2>4, <2>6, <2>7 DEF Sender!SenderStep
<1>2. /\ onTheWay' \subseteq [by : Calls, attempt : 0..MaxSendAttempt]
      /\ statuses' \subseteq [to : [by : Calls, attempt : 0..MaxSendAttempt],
                              status : Sender!StatusClasses]
      /\ received' = received
  <2>1. CASE Sender!DoPost(c)
    BY <2>1 DEF CountInv, TypeOK, Sender!DoPost, Sender!PostOf, Sender!Send
  <2>2. CASE Sender!Begin(c) \/ Sender!DoFails(c) \/ Sender!Cancelled(c) \/ Sender!ReadStatus(c)
    <3>1. onTheWay' = onTheWay /\ statuses' \subseteq statuses /\ received' = received
      BY <2>2 DEF Sender!Begin, Sender!DoFails, Sender!Cancelled, Sender!ReadStatus, Sender!HangUp
    <3>. QED
      BY <3>1 DEF CountInv, TypeOK
  <2>. QED
    BY <2>1, <2>2 DEF Sender!SenderStep
<1>3. TypeOK'
  BY <1>1, <1>2 DEF CountInv, TypeOK, clientVars
<1>4. \A d \in Calls : Counted(d)'
  BY <1>1 DEF CountInv, Counted
<1>. QED
  BY <1>3, <1>4 DEF CountInv

\* A POST is at the webhook no more often than a round of the loop has sent one.
OnTheWayOf(c) == {post \in onTheWay : post.by = c}

Received(c) ==
    /\ IsFiniteSet(OnTheWayOf(c))
    /\ received[c] \in Nat
    /\ received[c] + Cardinality(OnTheWayOf(c)) <= send[c].tries
    /\ send[c].success => received[c] > 0
    /\ \A reply \in statuses : reply.to.by = c /\ reply.status = "ok" => received[c] > 0

SendInv == CountInv /\ \A c \in Calls : Received(c)
LEMMA SendInit == Init => SendInv
<1>. SUFFICES ASSUME Init PROVE SendInv
  OBVIOUS
<1>1. \A c \in Calls : Counted(c)
  BY DEF Init, Sender!Init, Counted
<1>2. \A c \in Calls : OnTheWayOf(c) = {}
  BY DEF Init, Sender!Init, OnTheWayOf
<1>3. ASSUME NEW c \in Calls
      PROVE  Received(c)
  <2>1. IsFiniteSet(OnTheWayOf(c)) /\ Cardinality(OnTheWayOf(c)) = 0
    BY <1>2, FS_EmptySet
  <2>. QED
    BY <2>1 DEF Init, Sender!Init, Received
<1>. QED
  BY <1>1, <1>3, TypeInit DEF SendInv, CountInv

\* A set that grows by at most one member grows in size by at most one.
LEMMA GrowsByOne ==
    ASSUME NEW S, IsFiniteSet(S), NEW x
    PROVE  /\ IsFiniteSet(S \cup {x})
           /\ Cardinality(S \cup {x}) \in Nat
           /\ Cardinality(S \cup {x}) <= Cardinality(S) + 1
<1>1. IsFiniteSet(S \cup {x}) /\ Cardinality(S) \in Nat
  BY FS_AddElement, FS_CardinalityType
<1>2. Cardinality(S \cup {x}) = IF x \in S THEN Cardinality(S) ELSE Cardinality(S) + 1
  BY FS_AddElement
<1>. QED
  BY <1>1, <1>2

LEMMA SenderReceives ==
    ASSUME SendInv, NEW c \in Calls, Sender!Begin(c) \/ Sender!SenderStep(c), UNCHANGED clientVars
    PROVE  SendInv'
<1>1. CountInv'
  BY SenderCounts DEF SendInv
<1>2. ASSUME NEW d \in Calls
      PROVE  Received(d)'
  <2>. DEFINE way == OnTheWayOf(d)
  <2>1. /\ IsFiniteSet(way) /\ Cardinality(way) \in Nat
        /\ send[d].tries \in Nat
        /\ send[d].success \in BOOLEAN
    BY FS_CardinalityType DEF SendInv, Received, CountInv, TypeOK, Sender!Send
  <2>2. CASE Sender!DoPost(c)
    <3>1. /\ send'[d].success = send[d].success
          /\ send'[d].tries = IF d = c THEN send[d].tries + 1 ELSE send[d].tries
          /\ statuses' = statuses /\ received' = received
      BY <2>2 DEF SendInv, CountInv, TypeOK, Sender!DoPost, Sender!Send
    <3>2. \/ OnTheWayOf(d)' = way
          \/ d = c /\ OnTheWayOf(d)' = way \cup {Sender!PostOf(c)}
      BY <2>2 DEF Sender!DoPost, Sender!PostOf, OnTheWayOf
    <3>3. /\ IsFiniteSet(OnTheWayOf(d)')
          /\ received'[d] + Cardinality(OnTheWayOf(d)') <= send'[d].tries
      <4>1. received[d] \in Nat /\ received[d] + Cardinality(way) <= send[d].tries
        BY DEF SendInv, Received
      <4>2. CASE OnTheWayOf(d)' = way
        BY <2>1, <3>1, <4>1, <4>2
      <4>3. CASE d = c /\ OnTheWayOf(d)' = way \cup {Sender!PostOf(c)}
        <5>. HIDE DEF way
        <5>1. /\ IsFiniteSet(OnTheWayOf(d)')
              /\ Cardinality(OnTheWayOf(d)') \in Nat
              /\ Cardinality(OnTheWayOf(d)') <= Cardinality(way) + 1
          BY <2>1, <4>3, GrowsByOne
        <5>. QED
          BY <2>1, <3>1, <4>1, <4>3, <5>1
      <4>. QED
        BY <3>2, <4>2, <4>3
    <3>. QED
      BY <3>1, <3>3 DEF SendInv, Received
  <2>3. CASE Sender!Begin(c) \/ Sender!DoFails(c) \/ Sender!Cancelled(c) \/ Sender!ReadStatus(c)
    <3>1. onTheWay' = onTheWay /\ statuses' \subseteq statuses /\ received' = received
      BY <2>3 DEF Sender!Begin, Sender!DoFails, Sender!Cancelled, Sender!ReadStatus, Sender!HangUp
    <3>2. /\ send'[d].tries = send[d].tries
          /\ send'[d].success => send[d].success \/ received[d] > 0
      <4>1. CASE Sender!Begin(c)
        BY <4>1 DEF SendInv, CountInv, TypeOK, Sender!Begin, Sender!Send
      <4>2. CASE Sender!DoFails(c)
        BY <4>2 DEF SendInv, CountInv, TypeOK, Sender!DoFails, Sender!RetryOrGiveUp, Sender!Return,
                    Sender!Send
      <4>3. CASE Sender!Cancelled(c)
        BY <4>3 DEF SendInv, CountInv, TypeOK, Sender!Cancelled, Sender!Return, Sender!Send
      <4>4. CASE Sender!ReadStatus(c)
        BY <4>4 DEF SendInv, Received, CountInv, TypeOK, Sender!ReadStatus, Sender!RetryOrGiveUp,
                    Sender!Return, Sender!Send
      <4>. QED
        BY <2>3, <4>1, <4>2, <4>3, <4>4
    <3>. QED
      BY <3>1, <3>2 DEF SendInv, Received, OnTheWayOf
  <2>. QED
    BY <2>2, <2>3 DEF Sender!SenderStep
<1>. QED
  BY <1>1, <1>2 DEF SendInv

LEMMA WebhookReceives ==
    ASSUME SendInv, Sender!Environment, UNCHANGED clientVars
    PROVE  SendInv'
<1>1. PICK post \in onTheWay : Sender!Receive(post) \/ Sender!LosePost(post)
  BY DEF Sender!Environment
<1>. DEFINE way(d) == OnTheWayOf(d)
<1>2. post.by \in Calls
  BY DEF SendInv, CountInv, TypeOK
<1>3. ASSUME NEW d \in Calls
      PROVE  /\ IsFiniteSet(way(d)) /\ Cardinality(way(d)) \in Nat
             /\ received[d] \in Nat
             /\ send[d].tries \in 0..(MaxSendAttempt + 1)
             /\ send[d].success \in BOOLEAN
  BY FS_CardinalityType DEF SendInv, Received, CountInv, TypeOK, Sender!Send
<1>4. send' = send /\ onTheWay' = onTheWay \ {post}
  BY <1>1 DEF Sender!Receive, Sender!LosePost
<1>5. ASSUME NEW d \in Calls
      PROVE  /\ IsFiniteSet(way(d)')
             /\ Cardinality(way(d)') = IF d = post.by THEN Cardinality(way(d)) - 1
                                       ELSE Cardinality(way(d))
  <2>1. CASE d = post.by
    <3>1. way(d)' = way(d) \ {post} /\ post \in way(d)
      BY <1>4, <2>1 DEF OnTheWayOf
    <3>. QED
      BY <1>3, <2>1, <3>1, FS_RemoveElement
  <2>2. CASE d # post.by
    <3>1. way(d)' = way(d)
      BY <1>4, <2>2 DEF OnTheWayOf
    <3>. QED
      BY <1>3, <2>2, <3>1
  <2>. QED
    BY <2>1, <2>2
<1>6. ASSUME NEW d \in Calls
      PROVE  /\ received'[d] \in {received[d], received[d] + 1}
             /\ received'[d] # received[d] => d = post.by
             /\ \A reply \in statuses' : \/ reply \in statuses
                                         \/ reply.to.by = d /\ reply.status = "ok" => received'[d] > 0
  BY <1>1, <1>2, <1>3 DEF SendInv, CountInv, TypeOK, Sender!Receive, Sender!LosePost
<1>7. ASSUME NEW d \in Calls
      PROVE  Received(d)'
  <2>. HIDE DEF way
  <2>1. received'[d] + Cardinality(way(d)') <= send'[d].tries
    BY <1>2, <1>3, <1>4, <1>5, <1>6 DEF SendInv, Received, way
  <2>. QED
    BY <1>3, <1>4, <1>5, <1>6, <2>1 DEF SendInv, Received, way
<1>8. /\ received' \in [Calls -> 0..(MaxSendAttempt + 1)]
      /\ statuses' \subseteq [to : [by : Calls, attempt : 0..MaxSendAttempt],
                              status : Sender!StatusClasses]
  <2>1. \A d \in Calls : received'[d] \in 0..(MaxSendAttempt + 1)
    <3>. SUFFICES ASSUME NEW d \in Calls
                  PROVE  received'[d] \in 0..(MaxSendAttempt + 1)
      OBVIOUS
    <3>1. Cardinality(way(d)') \in Nat
      BY <1>5, FS_CardinalityType
    <3>. QED
      BY <1>3, <1>4, <1>6, <1>7, <3>1, OutboundAssumption DEF Received
  <2>2. received' = received \/ \E b \in Calls : received' = [received EXCEPT ![b] = @ + 1]
    BY <1>1, <1>2 DEF Sender!Receive, Sender!LosePost
  <2>. QED
    BY <1>1, <2>1, <2>2 DEF SendInv, CountInv, TypeOK, Sender!Receive, Sender!LosePost
<1>9. CountInv'
  BY <1>4, <1>8 DEF SendInv, CountInv, Counted, TypeOK, clientVars
<1>. QED
  BY <1>7, <1>9 DEF SendInv
-------------------------------------------------------------------------------
\* What is known of a call of SubmitDPS: its posts come from attempts it has begun, answers
\* tell the truth, and until it retries it has posted once.
Truthful ==
    \A reply \in replies :
        /\ reply.says = "issued" => reply.to.by \in issued
        /\ reply.says = "duplicate" => \E b \in issued : DpsOf(b) = DpsOf(reply.to.by)

Begun ==
    /\ \A c \in Calls : call[c].pc = "done" => call[c].result # "none"
    /\ \A post \in posted : call[post.by].pc # "idle" /\ post.attempt <= call[post.by].attempt

PostedOf(c) == {post \in posted : post.by = c}

First(c) ==
    call[c].attempt = 0 =>
        /\ call[c].pc \in {"idle", "ready"} => /\ PostedOf(c) = {} /\ c \notin issued
                                               /\ call[c].result = "none"
                                               /\ \A reply \in replies : reply.to.by # c
        /\ PostedOf(c) # {} => /\ c \notin issued /\ call[c].result # "duplicate"
                               /\ \A reply \in replies : reply.to.by # c
        /\ \A reply \in replies : reply.to.by = c /\ reply.says = "duplicate" => c \notin issued
        /\ call[c].result = "duplicate" => c \notin issued

SubmitInv == TypeOK /\ Truthful /\ Begun /\ \A c \in Calls : First(c)

LEMMA SubmitInit == Init => SubmitInv
BY TypeInit DEF Init, Client!Init, SubmitInv, Truthful, Begun, First, PostedOf

LEMMA Finishes ==
    ASSUME TypeOK, NEW c \in Calls, NEW result, Client!Finish(c, result)
    PROVE  /\ \A d \in Calls \ {c} : call'[d] = call[d]
           /\ call'[c].pc = "done" /\ call'[c].result = result
           /\ call'[c].attempt = call[c].attempt /\ call[c].attempt \in Nat
BY OutboundAssumption DEF TypeOK, Client!Finish, Client!Call

LEMMA Retries ==
    ASSUME TypeOK, NEW c \in Calls,
           call' = [call EXCEPT ![c].pc = "ready", ![c].attempt = @ + 1]
    PROVE  /\ \A d \in Calls \ {c} : call'[d] = call[d]
           /\ call'[c].pc = "ready"
           /\ call'[c].attempt = call[c].attempt + 1 /\ call[c].attempt \in Nat
BY OutboundAssumption DEF TypeOK, Client!Call

\* What a step of a call of SubmitDPS does, one case per way it can go: it begins, posts,
\* goes on to the next attempt, fails, or takes what an answer to its post says.
Begins(c) ==
    /\ call[c].pc = "idle" /\ call'[c] = [call[c] EXCEPT !.pc = "ready"]
    /\ posted' = posted

Posts(c) ==
    /\ call[c].pc = "ready" /\ call'[c] = [call[c] EXCEPT !.pc = "posting"]
    /\ posted' = posted \cup {Client!PostOf(c)}

GoesOn(c) ==
    /\ call[c].pc \in {"ready", "posting"} /\ call'[c].pc = "ready"
    /\ call'[c].attempt = call[c].attempt + 1
    /\ posted' = posted

Returns(c, result) ==
    /\ call[c].pc \in {"ready", "posting"} /\ call'[c].pc = "done"
    /\ call'[c].result = result
    /\ call'[c].attempt = call[c].attempt
    /\ posted' = posted

LEMMA ClientMoves ==
    ASSUME TypeOK, NEW c \in Calls, Client!Submit(c) \/ Client!ClientStep(c)
    PROVE  /\ \A d \in Calls \ {c} : call'[d] = call[d]
           /\ call[c].attempt \in Nat
           /\ issued' = issued
           /\ replies' \subseteq replies
           /\ \/ Begins(c) \/ Posts(c) \/ GoesOn(c) \/ Returns(c, "error")
              \/ /\ call[c].pc = "posting"
                 /\ \/ Returns(c, "government")
                    \/ \E reply \in replies :
                           reply.to = Client!PostOf(c) /\ Returns(c, reply.says)
<1>. call[c].attempt \in Nat
  BY OutboundAssumption DEF TypeOK, Client!Call
<1>1. CASE Client!Submit(c) \/ Client!DoSubmit(c)
  BY <1>1 DEF TypeOK, Client!Submit, Client!DoSubmit, Begins, Posts
<1>2. CASE Client!ConnectFails(c) \/ Client!ConnectionBreaks(c)
  <2>1. \/ Client!Finish(c, "error")
        \/ call' = [call EXCEPT ![c].pc = "ready", ![c].attempt = @ + 1]
    BY <1>2 DEF Client!ConnectFails, Client!ConnectionBreaks, Client!RetryOrGiveUp
  <2>2. /\ call[c].pc \in {"ready", "posting"}
        /\ issued' = issued /\ replies' \subseteq replies /\ posted' = posted
    BY <1>2 DEF Client!ConnectFails, Client!ConnectionBreaks, Client!HangUp
  <2>. QED
    BY <2>1, <2>2, Finishes, Retries DEF Returns, GoesOn
<1>3. CASE Client!FailsForGood(c)
  <2>1. /\ call[c].pc \in {"ready", "posting"}
        /\ issued' = issued /\ replies' \subseteq replies /\ posted' = posted
        /\ Client!Finish(c, "error")
    BY <1>3 DEF Client!FailsForGood, Client!HangUp
  <2>. QED
    BY <2>1, Finishes DEF Returns
<1>4. CASE Client!ReadAnswer(c)
  <2>1. PICK reply \in replies :
            /\ reply.to = Client!PostOf(c)
            /\ call[c].pc = "posting"
            /\ Client!Finish(c, reply.says) \/ Client!Finish(c, "government")
            /\ issued' = issued /\ replies' \subseteq replies /\ posted' = posted
    BY <1>4 DEF Client!ReadAnswer, Client!Waiting, Client!PostOf
  <2>. QED
    BY <2>1, Finishes DEF Returns
<1>. QED
  BY <1>1, <1>2, <1>3, <1>4 DEF Client!ClientStep

LEMMA ClientKeeps ==
    ASSUME SubmitInv, NEW c \in Calls, Client!Submit(c) \/ Client!ClientStep(c), UNCHANGED senderVars
    PROVE  SubmitInv'
<1>1. TypeOK'
  BY ClientType DEF SubmitInv
<1>2. /\ issued' = issued /\ replies' \subseteq replies
      /\ \A d \in Calls \ {c} : call'[d] = call[d]
      /\ call[c].attempt \in Nat
  BY ClientMoves DEF SubmitInv
<1>3. /\ call'[c].pc # "idle" /\ call[c].attempt <= call'[c].attempt
      /\ posted' = posted \/ (posted' = posted \cup {Client!PostOf(c)} /\ call[c].pc = "ready")
  <2>1. Begins(c) \/ Posts(c) \/ GoesOn(c) \/ (\E result : Returns(c, result))
    BY ClientMoves DEF SubmitInv
  <2>2. CASE Begins(c)
    BY <1>2, <2>2 DEF SubmitInv, TypeOK, Client!Call, Begins
  <2>3. CASE Posts(c)
    BY <1>2, <2>3 DEF SubmitInv, TypeOK, Client!Call, Posts
  <2>4. CASE GoesOn(c) \/ (\E result : Returns(c, result))
    BY <1>2, <2>4 DEF GoesOn, Returns
  <2>. QED
    BY <2>1, <2>2, <2>3, <2>4
<1>4. Truthful'
  BY <1>2 DEF SubmitInv, Truthful
<1>5. Begun'
  <2>1. ASSUME NEW post \in posted'
        PROVE  call'[post.by].pc # "idle" /\ post.attempt <= call'[post.by].attempt
    <3>1. CASE post \in posted
      <4>1. call[post.by].pc # "idle" /\ post.attempt <= call[post.by].attempt
        BY <3>1 DEF SubmitInv, Begun
      <4>2. post.by \in Calls /\ post.attempt \in Nat
        BY <3>1, OutboundAssumption DEF SubmitInv, TypeOK, Client!Post
      <4>3. call[post.by].attempt \in Nat /\ call'[post.by].attempt \in Nat
        BY <1>1, <4>2, OutboundAssumption DEF SubmitInv, TypeOK, Client!Call
      <4>. QED
        BY <1>2, <1>3, <4>1, <4>2, <4>3
    <3>2. CASE post = Client!PostOf(c)
      BY <1>1, <1>2, <1>3, <3>2, OutboundAssumption DEF Client!PostOf, TypeOK, Client!Call
    <3>. QED
      BY <1>3, <3>1, <3>2
  <2>2. ASSUME NEW d \in Calls, call'[d].pc = "done"
        PROVE  call'[d].result # "none"
    <3>1. CASE d # c
      BY <1>2, <2>2, <3>1 DEF SubmitInv, Begun
    <3>2. CASE d = c
      <4>1. ASSUME NEW result, Returns(c, result), result # "none"
            PROVE  call'[c].result # "none"
        BY <4>1 DEF Returns
      <4>2. ~Begins(c) /\ ~Posts(c) /\ ~GoesOn(c)
        BY <2>2, <3>2 DEF Begins, Posts, GoesOn, SubmitInv, TypeOK, Client!Call
      <4>3. \A reply \in replies : reply.says # "none"
        BY DEF SubmitInv, TypeOK, Client!Reply
      <4>. QED
        BY <3>2, <4>1, <4>2, <4>3, ClientMoves DEF SubmitInv
    <3>. QED
      BY <3>1, <3>2
  <2>. QED
    BY <2>1, <2>2 DEF Begun
<1>6. ASSUME NEW d \in Calls
      PROVE  First(d)'
  <2>1. CASE d # c
    BY <1>2, <1>3, <2>1 DEF SubmitInv, First, PostedOf, Client!PostOf
  <2>2. CASE Begins(c) /\ d = c
    BY <1>2, <2>2 DEF SubmitInv, TypeOK, Client!Call, Begins, First, PostedOf
  <2>3. CASE Posts(c) /\ d = c
    <3>1. /\ call'[c].pc = "posting" /\ call'[c].attempt = call[c].attempt
          /\ call'[c].result = call[c].result
      BY <2>3 DEF SubmitInv, TypeOK, Client!Call, Posts
    <3>2. First(c) /\ call[c].pc = "ready"
      BY <2>3 DEF SubmitInv, Posts
    <3>. QED
      BY <1>2, <2>3, <3>1, <3>2 DEF First
  <2>4. CASE GoesOn(c) /\ d = c
    BY <1>2, <2>4 DEF First, GoesOn
  <2>5. CASE (Returns(c, "error") \/ Returns(c, "government")) /\ d = c
    BY <1>2, <2>5 DEF SubmitInv, First, PostedOf, Returns
  <2>6. ASSUME NEW reply \in replies, reply.to = Client!PostOf(c), Returns(c, reply.says), d = c
        PROVE  First(d)'
    <3>1. /\ reply.to.by = c /\ PostedOf(c)' = PostedOf(c)
          /\ call'[c].pc = "done" /\ call'[c].result = reply.says
          /\ call'[c].attempt = call[c].attempt
      BY <2>6 DEF PostedOf, Client!PostOf, Returns
    <3>2. First(c)
      BY DEF SubmitInv
    <3>. QED
      BY <1>2, <2>6, <3>1, <3>2 DEF First
  <2>. QED
    BY <2>1, <2>2, <2>3, <2>4, <2>5, <2>6, ClientMoves DEF SubmitInv
<1>. QED
  BY <1>1, <1>4, <1>5, <1>6 DEF SubmitInv

LEMMA GovernmentKeeps ==
    ASSUME SubmitInv, Client!Government, UNCHANGED senderVars
    PROVE  SubmitInv'
<1>1. TypeOK'
  BY GovernmentType DEF SubmitInv
<1>2. PICK post \in posted : Client!Govern(post) \/ Client!LosePost(post)
  BY DEF Client!Government
<1>3. /\ call' = call /\ posted' = posted \ {post}
      /\ issued \subseteq issued' /\ issued' \subseteq issued \cup {post.by}
      /\ post.by \in Calls /\ post.attempt \in Nat
      /\ \A reply \in replies' : reply \in replies \/ reply.to = post
  BY <1>2 DEF SubmitInv, TypeOK, Client!Govern, Client!LosePost, Client!Post
<1>4. Truthful'
  <2>1. CASE Client!LosePost(post)
    BY <2>1 DEF SubmitInv, Truthful, Client!LosePost
  <2>2. CASE Client!Govern(post)
    <3>1. PICK says \in {"issued", "duplicate", "government"} :
              /\ says = "duplicate" => \E b \in issued : DpsOf(b) = DpsOf(post.by)
              /\ says = "issued" => post.by \in issued'
              /\ \A reply \in replies' : reply \in replies \/ reply = [to |-> post, says |-> says]
      BY <2>2 DEF Client!Govern
    <3>2. ASSUME NEW reply \in replies'
          PROVE  /\ reply.says = "issued" => reply.to.by \in issued'
                 /\ reply.says = "duplicate" => \E b \in issued : DpsOf(b) = DpsOf(reply.to.by)
      <4>1. CASE reply \in replies
        BY <1>3, <4>1 DEF SubmitInv, Truthful
      <4>2. CASE reply = [to |-> post, says |-> says]
        BY <3>1, <4>2
      <4>. QED
        BY <3>1, <4>1, <4>2
    <3>. QED
      BY <1>3, <3>2 DEF Truthful
  <2>. QED
    BY <1>2, <2>1, <2>2
<1>5. Begun'
  BY <1>3 DEF SubmitInv, Begun
<1>6. ASSUME NEW d \in Calls
      PROVE  First(d)'
  <2>1. CASE d # post.by
    <3>1. PostedOf(d)' = PostedOf(d)
      BY <1>3, <2>1 DEF PostedOf
    <3>2. d \in issued' => d \in issued
      BY <1>3, <2>1
    <3>. QED
      BY <1>3, <2>1, <3>1, <3>2 DEF SubmitInv, First
  <2>2. CASE d = post.by /\ call[d].attempt = 0
    <3>1. PostedOf(d) = {post}
      <4>1. \A p \in PostedOf(d) : p.by = d /\ p.attempt = 0 /\ p \in Client!Post
        BY <2>2, OutboundAssumption DEF SubmitInv, Begun, PostedOf, TypeOK, Client!Post
      <4>. QED
        BY <2>2, <4>1 DEF PostedOf, Client!Post
    <3>2. PostedOf(d)' = {}
      BY <1>3, <3>1 DEF PostedOf
    <3>3. /\ d \notin issued /\ call[d].result # "duplicate"
          /\ call[d].pc \notin {"idle", "ready"}
          /\ \A reply \in replies : reply.to.by # d
      BY <2>2, <3>1 DEF SubmitInv, First
    <3>. QED
      BY <1>2, <1>3, <2>2, <3>2, <3>3 DEF First, Client!Govern, Client!LosePost
  <2>. QED
    BY <1>3, <2>1, <2>2 DEF First
<1>. QED
  BY <1>1, <1>4, <1>5, <1>6 DEF SubmitInv
-------------------------------------------------------------------------------
\* The two loops side by side.

IInv == SendInv /\ SubmitInv

LEMMA InvInit == Init => IInv
BY SendInit, SubmitInit DEF IInv

\* Steps of one loop leave what is known of the other as it is.
LEMMA SendUntouched ==
    ASSUME SendInv, TypeOK', UNCHANGED senderVars
    PROVE  SendInv'
BY DEF senderVars, SendInv, CountInv, Counted, Received, OnTheWayOf

LEMMA SubmitUntouched ==
    ASSUME SubmitInv, TypeOK', UNCHANGED clientVars
    PROVE  SubmitInv'
BY DEF clientVars, SubmitInv, Truthful, Begun, First, PostedOf

LEMMA InvStep == IInv /\ [Next]_vars => IInv'
<1>. SUFFICES ASSUME IInv, [Next]_vars PROVE IInv'
  OBVIOUS
<1>. /\ SendInv /\ SubmitInv
  BY DEF IInv
<1>1. ASSUME NEW c \in Calls, Client!Submit(c) \/ Client!ClientStep(c), UNCHANGED senderVars
      PROVE  IInv'
  <2>1. SubmitInv'
    BY <1>1, ClientKeeps
  <2>. QED
    BY <1>1, <2>1, SendUntouched DEF IInv, SubmitInv
<1>2. CASE Client!Government /\ UNCHANGED senderVars
  <2>1. SubmitInv'
    BY <1>2, GovernmentKeeps
  <2>. QED
    BY <1>2, <2>1, SendUntouched DEF IInv, SubmitInv
<1>3. ASSUME NEW c \in Calls, Sender!Begin(c) \/ Sender!SenderStep(c), UNCHANGED clientVars
      PROVE  IInv'
  <2>1. SendInv'
    BY <1>3, SenderReceives
  <2>. QED
    BY <1>3, <2>1, SubmitUntouched DEF IInv, SendInv, CountInv
<1>4. CASE Sender!Environment /\ UNCHANGED clientVars
  <2>1. SendInv'
    BY <1>4, WebhookReceives
  <2>. QED
    BY <1>4, <2>1, SubmitUntouched DEF IInv, SendInv, CountInv
<1>5. CASE UNCHANGED vars
  BY <1>5, SendUntouched, SubmitUntouched DEF vars, clientVars, senderVars, IInv, SendInv, SubmitInv, CountInv, TypeOK
<1>. QED
  BY <1>1, <1>2, <1>3, <1>4, <1>5
  DEF Next, Submit, Notify, ClientStep, SenderStep

\* Send never reports a delivery that was not received, miscounts its tries, or delivers an
\* event more often than it tried, on any path out of its loop.
THEOREM SendReports == Spec => []SendResultHonest
<1>1. IInv => SendResultHonest
  <2>. SUFFICES ASSUME IInv, NEW c \in Calls
                PROVE  /\ send[c].success => received[c] > 0
                       /\ send[c].pc = "done" => send[c].attempts = send[c].tries
                       /\ received[c] <= send[c].tries
    BY DEF SendResultHonest
  <2>1. Cardinality(OnTheWayOf(c)) \in Nat /\ send[c].tries \in Nat /\ received[c] \in Nat
    BY FS_CardinalityType DEF IInv, SendInv, CountInv, Received, TypeOK, Sender!Send
  <2>2. Received(c) /\ Counted(c)
    BY DEF IInv, SendInv, CountInv
  <2>. QED
    BY <2>1, <2>2 DEF Received, Counted
<1>. QED
  BY InvInit, InvStep, <1>1, PTL DEF Spec

\* A call is told that its own NFS-e is a duplicate only after it has posted again.
THEOREM DuplicateNeedsRetry == Spec => []OwnDuplicateAfterRetry
<1>1. IInv => OwnDuplicateAfterRetry
  BY OutboundAssumption DEF IInv, SubmitInv, First, OwnDuplicateAfterRetry, TypeOK, Client!Call
<1>. QED
  BY InvInit, InvStep, <1>1, PTL DEF Spec

-------------------------------------------------------------------------------
\* SubmitDPS and its contract.

AnswersNow == [c \in Calls |-> AnswerOf(c)]

LEMMA ContractInit == Init => Contract!Init
BY DEF Init, Client!Init, Contract!Init, AnswerOf

LEMMA ContractClient ==
    ASSUME IInv, NEW c \in Calls, Client!Submit(c) \/ Client!ClientStep(c)
    PROVE  [Contract!Next]_(Contract!vars)
<1>1. /\ \A d \in Calls \ {c} : call'[d] = call[d]
      /\ issued' = issued
  BY ClientMoves DEF IInv, SubmitInv
<1>2. ASSUME NEW a, AnswerOf(c)' = a
      PROVE  AnswersNow' = [AnswersNow EXCEPT ![c] = a]
  BY <1>1, <1>2 DEF AnswersNow, AnswerOf
<1>3. CASE Begins(c)
  <2>1. AnswerOf(c) = "none" /\ AnswerOf(c)' = "open"
    BY <1>3 DEF Begins, AnswerOf, IInv, SubmitInv, TypeOK, Client!Call
  <2>. QED
    BY <1>1, <1>2, <2>1 DEF Contract!Next, Contract!Begin, AnswersNow
<1>4. CASE Posts(c) \/ GoesOn(c)
  <2>1. AnswerOf(c) = "open" /\ AnswerOf(c)' = "open"
    BY <1>4 DEF Posts, GoesOn, AnswerOf, IInv, SubmitInv, TypeOK, Client!Call
  <2>. QED
    BY <1>1, <1>2, <2>1 DEF Contract!vars, AnswersNow
<1>5. ASSUME NEW result \in {"issued", "duplicate", "government", "error"}, Returns(c, result),
             result = "issued" => c \in issued,
             result = "duplicate" => \E b \in issued : DpsOf(b) = DpsOf(c)
      PROVE  Contract!Return(c)
  <2>1. AnswerOf(c) = "open" /\ AnswerOf(c)' = result
    BY <1>5 DEF Returns, AnswerOf
  <2>. QED
    BY <1>1, <1>2, <1>5, <2>1 DEF Contract!Return, Contract!Taken, Contract!Answers, AnswersNow
<1>6. ASSUME NEW reply \in replies, reply.to = Client!PostOf(c), Returns(c, reply.says)
      PROVE  Contract!Return(c)
  BY <1>5, <1>6
  DEF IInv, SubmitInv, Truthful, TypeOK, Client!Reply, Client!PostOf
<1>. QED
  BY <1>3, <1>4, <1>5, <1>6, ClientMoves DEF IInv, SubmitInv, Contract!Next

LEMMA ContractGovernment ==
    ASSUME IInv, Client!Government
    PROVE  [Contract!Next]_(Contract!vars)
<1>1. PICK post \in posted : Client!Govern(post) \/ Client!LosePost(post)
  BY DEF Client!Government
<1>2. AnswersNow' = AnswersNow
  BY <1>1 DEF Client!Govern, Client!LosePost, AnswersNow, AnswerOf
<1>3. CASE issued' = issued
  BY <1>2, <1>3 DEF Contract!vars, AnswersNow
<1>4. CASE issued' # issued
  <2>1. /\ issued' = issued \cup {post.by}
        /\ ~\E b \in issued : DpsOf(b) = DpsOf(post.by)
    BY <1>1, <1>4 DEF Client!Govern, Client!LosePost
  <2>2. post.by \in Calls /\ call[post.by].pc # "idle"
    BY DEF IInv, SubmitInv, Begun, TypeOK, Client!Post
  <2>3. AnswersNow[post.by] # "none"
    BY <2>2 DEF AnswersNow, AnswerOf, IInv, SubmitInv, Begun
  <2>4. Contract!Issue(post.by)
    BY <1>2, <2>1, <2>3 DEF Contract!Issue, Contract!Taken, AnswersNow
  <2>. QED
    BY <2>2, <2>4 DEF Contract!Next
<1>. QED
  BY <1>3, <1>4

LEMMA ContractStep == IInv /\ [Next]_vars => [Contract!Next]_(Contract!vars)
<1>. SUFFICES ASSUME IInv, [Next]_vars PROVE [Contract!Next]_(Contract!vars)
  OBVIOUS
<1>1. CASE UNCHANGED clientVars
  BY <1>1 DEF clientVars, Contract!vars, AnswerOf
<1>. QED
  BY <1>1, ContractClient, ContractGovernment
  DEF Next, Submit, Notify, ClientStep, SenderStep, vars, clientVars

\* SubmitDPS, with its retries, broken connections and lost answers, is to its caller one
\* submission that is issued at most once, and answered "issued" or "duplicate" only if so.
THEOREM SubmitRefines == Spec => ImplementsSubmission
BY InvInit, InvStep, ContractInit, ContractStep, PTL DEF Spec, ImplementsSubmission, Contract!Spec

-------------------------------------------------------------------------------
(***************************************************************************)
(* SubmitDPS and the one step that EmissionPipeline takes it for.  The     *)
(* step is where the government issues the NFS-e, or where the call        *)
(* returns if that has not happened by then.  In the first case the        *)
(* pipeline's caller has an answer that the loop has yet to give: Fate is  *)
(* that answer.                                                            *)
(***************************************************************************)

CONSTANT Fate   \* what each call will answer, if it returns

Answered(c) == AnswerOf(c) \in Contract!Answers

Fated == \A c \in Calls : Answered(c) => AnswerOf(c) = Fate[c]

Foretold(c) == IF AnswerOf(c) = "open" /\ c \in issued THEN Fate[c] ELSE AnswerOf(c)

Lingering == {c \in Calls : Answered(c) /\ c \notin issued}

Atomic == INSTANCE AtomicSubmission
              WITH answer <- [c \in Calls |-> Foretold(c)], lingering <- Lingering

\* Who has answered "issued" has the NFS-e, and only who has begun has one.
AnswersTrue ==
    \A c \in Calls : /\ AnswerOf(c) = "issued" => c \in issued
                     /\ c \in issued => AnswerOf(c) # "none"
                     /\ AnswerOf(c) \in Contract!Answers \cup {"none", "open"}

\* A step of the contract, which is what a step of the loop is, keeps that.
LEMMA AnswersTrueStep ==
    ASSUME AnswersTrue, [Contract!Next]_(Contract!vars)
    PROVE  AnswersTrue'
<1>. AnswersNow \in [Calls -> Contract!Answers \cup {"none", "open"}]
  BY DEF AnswersTrue, AnswersNow
<1>1. /\ issued \subseteq issued'
      /\ \A c \in Calls : /\ AnswersNow'[c] = "issued" => c \in issued'
                          /\ c \in issued' => AnswersNow'[c] # "none"
                          /\ AnswersNow'[c] \in Contract!Answers \cup {"none", "open"}
  <2>1. CASE UNCHANGED Contract!vars
    BY <2>1 DEF Contract!vars, AnswersTrue, AnswersNow
  <2>2. ASSUME NEW c \in Calls, Contract!Begin(c) \/ Contract!Issue(c) \/ Contract!Return(c)
        PROVE  <1>1!2
    BY <2>2 DEF Contract!Begin, Contract!Issue, Contract!Return, Contract!Answers, AnswersTrue, AnswersNow
  <2>. QED
    BY <2>1, <2>2 DEF Contract!Next, Contract!Begin, Contract!Issue, Contract!Return
<1>. QED
  BY <1>1 DEF AnswersTrue, AnswersNow

ForetoldNow == [c \in Calls |-> Foretold(c)]

\* The three steps of the contract, as steps of the pipeline's submission.
LEMMA AtomicStep ==
    ASSUME AnswersTrue, Fated, Fated', Fate \in [Calls -> Contract!Answers],
           [Contract!Next]_(Contract!vars)
    PROVE  [Atomic!Next]_(Atomic!vars)
<1>1. ASSUME NEW c \in Calls, \A d \in Calls \ {c} : AnswerOf(d)' = AnswerOf(d),
             issued' = issued \/ issued' = issued \cup {c}
      PROVE  /\ ForetoldNow' = [ForetoldNow EXCEPT ![c] = Foretold(c)']
             /\ Lingering' = IF Answered(c)' /\ c \notin issued' THEN Lingering \cup {c}
                             ELSE Lingering \ {c}
  <2>1. \A d \in Calls \ {c} : /\ Foretold(d)' = Foretold(d)
                               /\ Answered(d)' = Answered(d)
                               /\ d \in issued' <=> d \in issued
    BY <1>1 DEF Foretold, Answered
  <2>2. ForetoldNow' = [ForetoldNow EXCEPT ![c] = Foretold(c)']
    <3>1. ForetoldNow' = [d \in Calls |-> Foretold(d)']
      BY DEF ForetoldNow
    <3>2. \A d \in Calls : Foretold(d)' = IF d = c THEN Foretold(c)' ELSE Foretold(d)
      BY <2>1
    <3>. QED
      BY <3>1, <3>2 DEF ForetoldNow
  <2>3. Lingering' = {d \in Calls : Answered(d)' /\ d \notin issued'}
    BY DEF Lingering
  <2>. QED
    BY <2>1, <2>2, <2>3 DEF Lingering
<1>2. ASSUME NEW c \in Calls, Contract!Begin(c)
      PROVE  Atomic!Begin(c)
  <2>1. /\ AnswerOf(c) = "none" /\ AnswerOf(c)' = "open" /\ issued' = issued
        /\ \A d \in Calls \ {c} : AnswerOf(d)' = AnswerOf(d)
    BY <1>2 DEF Contract!Begin
  <2>2. c \notin issued
    BY <2>1 DEF AnswersTrue
  <2>3. Foretold(c) = "none" /\ Foretold(c)' = "open"
    BY <2>1, <2>2 DEF Foretold
  <2>4. c \notin Lingering /\ ~Answered(c)'
    BY <2>1 DEF Lingering, Answered, Contract!Answers
  <2>. QED
    BY <1>1, <2>1, <2>3, <2>4 DEF Atomic!Begin, ForetoldNow
<1>3. ASSUME NEW c \in Calls, Contract!Issue(c)
      PROVE  Atomic!Submit(c) \/ Atomic!Arrive(c)
  <2>1. /\ AnswerOf(c) # "none" /\ issued' = issued \cup {c}
        /\ \A d \in Calls : AnswerOf(d)' = AnswerOf(d)
        /\ ~Atomic!Taken(c)
    BY <1>3 DEF Contract!Issue, Contract!Taken, Atomic!Taken
  <2>2. c \notin issued
    BY <2>1 DEF Atomic!Taken
  <2>3. CASE AnswerOf(c) = "open"
    <3>1. Foretold(c) = "open" /\ Foretold(c)' = Fate[c] /\ Fate[c] \in Atomic!Answers
      BY <2>1, <2>2, <2>3 DEF Foretold, Contract!Answers, Atomic!Answers
    <3>2. Lingering' = Lingering
      BY <1>1, <2>1, <2>2, <2>3 DEF Lingering, Answered, Contract!Answers
    <3>3. Atomic!Possible(Atomic!Taken(c), TRUE, Fate[c])
      BY <2>1 DEF Atomic!Possible
    <3>4. ForetoldNow' = [ForetoldNow EXCEPT ![c] = Fate[c]]
      BY <1>1, <2>1, <3>1
    <3>. QED
      BY <2>1, <3>1, <3>2, <3>3, <3>4 DEF Atomic!Submit, ForetoldNow
  <2>4. CASE AnswerOf(c) # "open"
    <3>1. Answered(c) /\ Answered(c)' /\ c \in Lingering
      BY <2>1, <2>2, <2>4 DEF AnswersTrue, Answered, Lingering
    <3>2. ForetoldNow' = ForetoldNow /\ Lingering' = Lingering \ {c}
      BY <1>1, <2>1, <2>4 DEF Foretold, ForetoldNow
    <3>. QED
      BY <2>1, <3>1, <3>2 DEF Atomic!Arrive, ForetoldNow
  <2>. QED
    BY <2>3, <2>4
<1>4. ASSUME NEW c \in Calls, Contract!Return(c)
      PROVE  Atomic!Submit(c) \/ UNCHANGED Atomic!vars
  <2>1. PICK a \in Contract!Answers :
            /\ a = "issued" => c \in issued
            /\ a = "duplicate" => Atomic!Taken(c)
            /\ AnswerOf(c) = "open" /\ AnswerOf(c)' = a /\ issued' = issued
            /\ \A d \in Calls \ {c} : AnswerOf(d)' = AnswerOf(d)
    BY <1>4 DEF Contract!Return, Contract!Taken, Atomic!Taken
  <2>2. Answered(c)' /\ ~Answered(c)
    BY <2>1 DEF Answered, Contract!Answers
  <2>3. CASE c \in issued
    <3>1. Fate[c] = a
      BY <2>1, <2>2 DEF Fated
    <3>2. ForetoldNow' = ForetoldNow
      BY <1>1, <2>1, <2>3, <3>1 DEF Foretold, ForetoldNow, Contract!Answers
    <3>3. Lingering' = Lingering
      BY <1>1, <2>1, <2>3 DEF Lingering
    <3>. QED
      BY <2>1, <3>2, <3>3 DEF Atomic!vars, ForetoldNow
  <2>4. CASE c \notin issued
    <3>1. /\ Foretold(c) = "open" /\ ForetoldNow' = [ForetoldNow EXCEPT ![c] = a]
          /\ Lingering' = Lingering \cup {c}
      BY <1>1, <2>1, <2>2, <2>4 DEF Foretold
    <3>2. Atomic!Possible(Atomic!Taken(c), FALSE, a) /\ a # "issued"
      BY <2>1, <2>4 DEF Atomic!Possible
    <3>. QED
      BY <2>1, <3>1, <3>2 DEF Atomic!Submit, Atomic!Answers, Contract!Answers, ForetoldNow
  <2>. QED
    BY <2>3, <2>4
<1>5. CASE UNCHANGED Contract!vars
  <2>1. issued' = issued /\ \A c \in Calls : AnswerOf(c)' = AnswerOf(c)
    BY <1>5 DEF Contract!vars
  <2>. QED
    BY <2>1 DEF Atomic!vars, Foretold, Lingering, Answered
<1>. QED
  BY <1>2, <1>3, <1>4, <1>5 DEF Contract!Next, Atomic!Next

\* A call answers once: what it has answered is what it will have answered, so that every
\* behaviour has a Fate.
LEMMA AnswersStay ==
    ASSUME [Contract!Next]_(Contract!vars), NEW c \in Calls, Answered(c)
    PROVE  AnswerOf(c)' = AnswerOf(c)
<1>1. AnswersNow[c] \notin {"none", "open"}
  BY DEF Answered, AnswersNow, Contract!Answers
<1>2. AnswersNow'[c] = AnswersNow[c]
  BY <1>1 DEF Contract!Next, Contract!Begin, Contract!Issue, Contract!Return, Contract!vars, AnswersNow
<1>. QED
  BY <1>2 DEF AnswersNow

\* SubmitDPS, whose posts, answers and retries the government and other calls come between, is
\* the one step that the pipeline takes it for: every course of the loop is one of a step with
\* the outcomes that Submit and SubmitError have, and of a submission that may arrive late.
THEOREM SubmitIsOneStep ==
    ASSUME Fate \in [Calls -> Contract!Answers]
    PROVE  Spec /\ []Fated => Atomic!Spec
<1>1. Init => AnswersTrue /\ Atomic!Init
  BY DEF Init, Client!Init, AnswersTrue, Atomic!Init, Foretold, Lingering, Answered, AnswerOf,
         Contract!Answers
<1>2. IInv /\ [Next]_vars => [Contract!Next]_(Contract!vars)
  BY ContractStep
<1>3. AnswersTrue /\ [Contract!Next]_(Contract!vars) => AnswersTrue'
  BY AnswersTrueStep
<1>4. AnswersTrue /\ Fated /\ Fated' /\ [Contract!Next]_(Contract!vars) => [Atomic!Next]_(Atomic!vars)
  BY AtomicStep
<1>. QED
  BY InvInit, InvStep, <1>1, <1>2, <1>3, <1>4, PTL DEF Spec, Atomic!Spec

\* An answer that was given is never taken back.
THEOREM AnswersAreFinal ==
    Spec => [][\A c \in Calls : Answered(c) => AnswerOf(c)' = AnswerOf(c)]_vars
<1>1. IInv /\ [Next]_vars => [\A c \in Calls : Answered(c) => AnswerOf(c)' = AnswerOf(c)]_vars
  BY ContractStep, AnswersStay
<1>. QED
  BY InvInit, InvStep, <1>1, PTL DEF Spec

-------------------------------------------------------------------------------
(***************************************************************************)
(* Send and the one step that EmissionPipeline takes it for, likewise: the *)
(* step is where the webhook first receives the event, or where the call   *)
(* returns if it has not by then.                                          *)
(***************************************************************************)

CONSTANT SendFate   \* the result of each call of Send, if it returns

SendResults == {"delivered", "undelivered"}

ResultOf(c) ==
    CASE send[c].pc = "idle" -> "none"
      [] send[c].pc = "done" -> IF send[c].success THEN "delivered" ELSE "undelivered"
      [] OTHER               -> "open"

Told == {c \in Calls : received[c] > 0}

SendFated == \A c \in Calls : ResultOf(c) \in SendResults => ResultOf(c) = SendFate[c]

SendForetold(c) == IF ResultOf(c) = "open" /\ c \in Told THEN SendFate[c] ELSE ResultOf(c)

SendLingering == {c \in Calls : ResultOf(c) \in SendResults /\ c \notin Told}

AtomicSend == INSTANCE AtomicDelivery
                  WITH told <- Told, result <- [c \in Calls |-> SendForetold(c)],
                       lingering <- SendLingering

\* Only who has begun is heard, and who reports a delivery was.
HeardTrue ==
    \A c \in Calls : /\ ResultOf(c) \in SendResults \cup {"none", "open"}
                     /\ ResultOf(c) = "none" => c \notin Told
                     /\ ResultOf(c) = "delivered" => c \in Told

LEMMA HeardIsTrue == SendInv => HeardTrue
<1>. SUFFICES ASSUME SendInv, NEW c \in Calls
              PROVE  /\ ResultOf(c) \in SendResults \cup {"none", "open"}
                     /\ ResultOf(c) = "none" => c \notin Told
                     /\ ResultOf(c) = "delivered" => c \in Told
  BY DEF HeardTrue
<1>1. /\ Cardinality(OnTheWayOf(c)) \in Nat /\ received[c] \in Nat
      /\ received[c] + Cardinality(OnTheWayOf(c)) <= send[c].tries
      /\ send[c].success => received[c] > 0
      /\ send[c].pc = "idle" => send[c].tries = 0
  BY FS_CardinalityType DEF SendInv, CountInv, Counted, Received
<1>. QED
  BY <1>1 DEF ResultOf, SendResults, Told

\* What the loops have in common.
Pcs == {"idle", "ready", "posting", "done"}

Advances(old, new) ==
    \/ old.pc = "idle" /\ new.pc = "ready"
    \/ old.pc \in {"ready", "posting"} /\ new.pc = "ready" /\ new.attempt = old.attempt + 1
    \/ old.pc \in {"ready", "posting"} /\ new.pc = "done"

StartsToPost(old, new) == old.pc = "ready" /\ new.pc = "posting" /\ new.attempt = old.attempt

LEMMA SenderMoves ==
    ASSUME TypeOK, NEW c \in Calls, Sender!Begin(c) \/ Sender!SenderStep(c)
    PROVE  /\ \A d \in Calls \ {c} : send'[d] = send[d]
           /\ \/ Advances(send[c], send'[c]) /\ onTheWay' = onTheWay
              \/ /\ StartsToPost(send[c], send'[c])
                 /\ onTheWay' \in {onTheWay, onTheWay \cup {Sender!PostOf(c)}}
<1>1. CASE Sender!Begin(c)
  BY <1>1 DEF Sender!Begin, Advances, TypeOK, Sender!Send
<1>2. CASE Sender!DoPost(c)
  BY <1>2 DEF Sender!DoPost, StartsToPost, TypeOK, Sender!Send
<1>3. ASSUME NEW success, NEW attempts, Sender!Return(c, success, attempts),
             send[c].pc \in {"ready", "posting"}
      PROVE  (\A d \in Calls \ {c} : send'[d] = send[d]) /\ Advances(send[c], send'[c])
  BY <1>3 DEF Sender!Return, Advances, TypeOK, Sender!Send
<1>4. ASSUME Sender!RetryOrGiveUp(c), send[c].pc = "posting"
      PROVE  (\A d \in Calls \ {c} : send'[d] = send[d]) /\ Advances(send[c], send'[c])
  <2>1. CASE send' = [send EXCEPT ![c].pc = "ready", ![c].attempt = @ + 1]
    BY <1>4, <2>1 DEF Advances, TypeOK, Sender!Send
  <2>. QED
    BY <1>3, <1>4, <2>1 DEF Sender!RetryOrGiveUp
<1>5. CASE Sender!DoFails(c) \/ Sender!Cancelled(c)
  BY <1>3, <1>4, <1>5 DEF Sender!DoFails, Sender!Cancelled
<1>6. CASE Sender!ReadStatus(c)
  <2>1. PICK reply \in statuses :
            /\ reply.to.by = c /\ Sender!Waiting(reply.to)
            /\ \/ \E success, attempts : Sender!Return(c, success, attempts)
               \/ Sender!RetryOrGiveUp(c)
            /\ onTheWay' = onTheWay
    BY <1>6 DEF Sender!ReadStatus
  <2>2. send[c].pc = "posting"
    BY <2>1 DEF Sender!Waiting
  <2>. QED
    BY <1>3, <1>4, <2>1, <2>2
<1>. QED
  BY <1>1, <1>2, <1>5, <1>6 DEF Sender!SenderStep

\* What of a step of the calls can be seen of Send from outside.
SendBegins(c) == ResultOf(c) = "none" /\ ResultOf(c)' = "open" /\ Told' = Told

SendReturns(c) == ResultOf(c) = "open" /\ ResultOf(c)' \in SendResults /\ Told' = Told

SendHeard(c) == ResultOf(c)' = ResultOf(c) /\ c \notin Told /\ Told' = Told \cup {c}

LEMMA SendSeen ==
    ASSUME SendInv, [Next]_vars
    PROVE  \/ Told' = Told /\ \A c \in Calls : ResultOf(c)' = ResultOf(c)
           \/ \E c \in Calls : /\ \A d \in Calls \ {c} : ResultOf(d)' = ResultOf(d)
                               /\ SendBegins(c) \/ SendReturns(c) \/ SendHeard(c)
<1>1. CASE UNCHANGED senderVars
  BY <1>1 DEF senderVars, ResultOf, Told
<1>2. ASSUME NEW c \in Calls, Sender!Begin(c) \/ Sender!SenderStep(c), UNCHANGED clientVars
      PROVE  /\ \A d \in Calls \ {c} : ResultOf(d)' = ResultOf(d)
             /\ SendBegins(c) \/ SendReturns(c) \/ (Told' = Told /\ ResultOf(c)' = ResultOf(c))
  <2>1. /\ \A d \in Calls \ {c} : send'[d] = send[d]
        /\ \/ Advances(send[c], send'[c])
           \/ StartsToPost(send[c], send'[c])
    BY <1>2, SenderMoves DEF SendInv, CountInv
  <2>2. received' = received
    BY <1>2 DEF Sender!Begin, Sender!SenderStep, Sender!DoPost, Sender!DoFails, Sender!Cancelled,
                Sender!ReadStatus
  <2>3. Told' = Told /\ \A d \in Calls \ {c} : ResultOf(d)' = ResultOf(d)
    BY <2>1, <2>2 DEF Told, ResultOf
  <2>. QED
    BY <2>1, <2>3 DEF SendBegins, SendReturns, SendResults, Advances, StartsToPost, ResultOf
<1>3. CASE Sender!Environment
  <2>1. PICK post \in onTheWay : Sender!Receive(post) \/ Sender!LosePost(post)
    BY <1>3 DEF Sender!Environment
  <2>2. /\ send' = send /\ post.by \in Calls
        /\ \/ received' = received
           \/ received' = [received EXCEPT ![post.by] = @ + 1]
    BY <2>1 DEF SendInv, CountInv, TypeOK, Sender!Receive, Sender!LosePost
  <2>3. Told' = Told \/ (post.by \notin Told /\ Told' = Told \cup {post.by})
    BY <2>2 DEF Told, SendInv, CountInv, TypeOK
  <2>4. \A d \in Calls : ResultOf(d)' = ResultOf(d)
    BY <2>2 DEF ResultOf
  <2>. QED
    BY <2>2, <2>3, <2>4 DEF SendHeard
<1>. QED
  BY <1>1, <1>2, <1>3 DEF Next, Submit, Notify, ClientStep, SenderStep, vars

SendForetoldNow == [c \in Calls |-> SendForetold(c)]

LEMMA AtomicSendStep ==
    ASSUME SendInv, SendInv', SendFated, SendFated', SendFate \in [Calls -> SendResults],
           [Next]_vars
    PROVE  [AtomicSend!Next]_(AtomicSend!vars)
<1>. HeardTrue /\ HeardTrue'
  BY HeardIsTrue, PTL
<1>1. ASSUME NEW c \in Calls, \A d \in Calls \ {c} : ResultOf(d)' = ResultOf(d),
             Told' = Told \/ Told' = Told \cup {c}
      PROVE  /\ SendForetoldNow' = [SendForetoldNow EXCEPT ![c] = SendForetold(c)']
             /\ SendLingering' = IF ResultOf(c)' \in SendResults /\ c \notin Told'
                                 THEN SendLingering \cup {c}
                                 ELSE SendLingering \ {c}
  <2>1. \A d \in Calls \ {c} : /\ SendForetold(d)' = SendForetold(d)
                               /\ ResultOf(d)' = ResultOf(d)
                               /\ d \in Told' <=> d \in Told
    BY <1>1 DEF SendForetold
  <2>2. SendForetoldNow' = [SendForetoldNow EXCEPT ![c] = SendForetold(c)']
    <3>1. SendForetoldNow' = [d \in Calls |-> SendForetold(d)']
      BY DEF SendForetoldNow
    <3>2. \A d \in Calls : SendForetold(d)' = IF d = c THEN SendForetold(c)' ELSE SendForetold(d)
      BY <2>1
    <3>. QED
      BY <3>1, <3>2 DEF SendForetoldNow
  <2>3. SendLingering' = {d \in Calls : ResultOf(d)' \in SendResults /\ d \notin Told'}
    BY DEF SendLingering
  <2>. QED
    BY <2>1, <2>2, <2>3 DEF SendLingering
<1>2. ASSUME NEW c \in Calls, \A d \in Calls \ {c} : ResultOf(d)' = ResultOf(d), SendBegins(c)
      PROVE  AtomicSend!Begin(c)
  <2>1. SendForetold(c) = "none" /\ SendForetold(c)' = "open"
    BY <1>2 DEF SendBegins, SendForetold, HeardTrue
  <2>2. c \notin SendLingering /\ ResultOf(c)' \notin SendResults
    BY <1>2 DEF SendBegins, SendLingering, SendResults
  <2>. QED
    BY <1>1, <1>2, <2>1, <2>2 DEF SendBegins, AtomicSend!Begin, SendForetoldNow
<1>3. ASSUME NEW c \in Calls, \A d \in Calls \ {c} : ResultOf(d)' = ResultOf(d), SendReturns(c)
      PROVE  AtomicSend!Send(c) \/ UNCHANGED AtomicSend!vars
  <2>1. /\ ResultOf(c) = "open" /\ ResultOf(c) \notin SendResults
        /\ ResultOf(c)' \in SendResults /\ Told' = Told
    BY <1>3 DEF SendReturns, SendResults
  <2>2. CASE c \in Told
    <3>1. SendForetoldNow' = SendForetoldNow
      BY <1>1, <1>3, <2>1, <2>2 DEF SendForetold, SendForetoldNow, SendFated, SendResults
    <3>2. SendLingering' = SendLingering
      BY <1>1, <1>3, <2>1, <2>2 DEF SendLingering
    <3>. QED
      BY <2>1, <3>1, <3>2 DEF AtomicSend!vars, SendForetoldNow
  <2>3. CASE c \notin Told
    <3>1. ResultOf(c)' = "undelivered"
      BY <2>1, <2>3 DEF HeardTrue, SendResults
    <3>2. /\ SendForetold(c) = "open"
          /\ SendForetoldNow' = [SendForetoldNow EXCEPT ![c] = "undelivered"]
          /\ SendLingering' = SendLingering \cup {c}
      BY <1>1, <1>3, <2>1, <2>3, <3>1 DEF SendForetold
    <3>. QED
      BY <2>1, <3>2 DEF AtomicSend!Send, SendForetoldNow
  <2>. QED
    BY <2>2, <2>3
<1>4. ASSUME NEW c \in Calls, \A d \in Calls \ {c} : ResultOf(d)' = ResultOf(d), SendHeard(c)
      PROVE  AtomicSend!Send(c) \/ AtomicSend!Arrive(c)
  <2>1. ResultOf(c)' = ResultOf(c) /\ c \notin Told /\ Told' = Told \cup {c} /\ c \in Told'
    BY <1>4 DEF SendHeard
  <2>2. CASE ResultOf(c) = "open"
    <3>1. /\ SendForetold(c) = "open" /\ SendForetold(c)' = SendFate[c]
          /\ ResultOf(c) \notin SendResults
      BY <2>1, <2>2 DEF SendForetold, SendResults
    <3>2. SendForetoldNow' = [SendForetoldNow EXCEPT ![c] = SendFate[c]]
      BY <1>1, <1>4, <2>1, <3>1
    <3>3. SendLingering' = SendLingering
      BY <1>1, <1>4, <2>1, <3>1 DEF SendLingering
    <3>4. SendFate[c] \in SendResults
      OBVIOUS
    <3>. QED
      BY <2>1, <3>1, <3>2, <3>3, <3>4 DEF AtomicSend!Send, SendForetoldNow, SendResults
  <2>3. CASE ResultOf(c) # "open"
    <3>1. ResultOf(c) \in SendResults /\ c \in SendLingering
      BY <2>1, <2>3 DEF HeardTrue, SendLingering
    <3>2. SendForetoldNow' = SendForetoldNow /\ SendLingering' = SendLingering \ {c}
      BY <1>1, <1>4, <2>1, <2>3 DEF SendForetold, SendForetoldNow
    <3>. QED
      BY <2>1, <3>1, <3>2 DEF AtomicSend!Arrive, SendForetoldNow
  <2>. QED
    BY <2>2, <2>3
<1>5. CASE Told' = Told /\ \A c \in Calls : ResultOf(c)' = ResultOf(c)
  BY <1>5 DEF AtomicSend!vars, SendForetold, SendLingering
<1>. QED
  BY <1>2, <1>3, <1>4, <1>5, SendSeen DEF AtomicSend!Next

LEMMA ResultsStay ==
    ASSUME SendInv, [Next]_vars, NEW c \in Calls, ResultOf(c) \in SendResults
    PROVE  ResultOf(c)' = ResultOf(c)
BY SendSeen DEF SendBegins, SendReturns, SendHeard, SendResults

\* Send, whose POSTs are lost, received late or received twice, is the one step that the
\* pipeline takes it for: every course of its loop is one of a step that reaches the webhook or
\* not, is never reported as delivered when it did not, and may be received after it returned.
THEOREM SendIsOneStep ==
    ASSUME SendFate \in [Calls -> SendResults]
    PROVE  Spec /\ []SendFated => AtomicSend!Spec
<1>1. Init => AtomicSend!Init
  BY DEF Init, Sender!Init, AtomicSend!Init, SendForetold, SendLingering, ResultOf, Told, SendResults
<1>2. IInv /\ IInv' /\ SendFated /\ SendFated' /\ [Next]_vars => [AtomicSend!Next]_(AtomicSend!vars)
  BY AtomicSendStep DEF IInv
<1>. QED
  BY InvInit, InvStep, <1>1, <1>2, PTL DEF Spec, AtomicSend!Spec

\* The result of Send, once it has returned, is the one it keeps.
THEOREM ResultsAreFinal ==
    Spec => [][\A c \in Calls : ResultOf(c) \in SendResults => ResultOf(c)' = ResultOf(c)]_vars
<1>1. IInv /\ [Next]_vars
        => [\A c \in Calls : ResultOf(c) \in SendResults => ResultOf(c)' = ResultOf(c)]_vars
  BY ResultsStay DEF IInv
<1>. QED
  BY InvInit, InvStep, <1>1, PTL DEF Spec

-------------------------------------------------------------------------------
(***************************************************************************)
(* Both loops come to an end: what a call may still do is a number, and    *)
(* every step lowers it for one call.                                      *)
(***************************************************************************)

\* A round of a loop has at most three steps: it posts, the post is dealt with, and the
\* round ends in the next one or in a result.
RoundsAhead(loop, max) ==
    CASE loop.pc = "idle"    -> 3 * max + 4
      [] loop.pc = "ready"   -> 3 * (max - loop.attempt) + 3
      [] loop.pc = "posting" -> 3 * (max - loop.attempt) + 1
      [] loop.pc = "done"    -> 0

SubmitAhead(c) == RoundsAhead(call[c], MaxSubmitAttempt) + Cardinality(PostedOf(c))

SendAhead(c) == RoundsAhead(send[c], MaxSendAttempt) + Cardinality(OnTheWayOf(c))

Ahead(c) == SubmitAhead(c) + SendAhead(c)

\* No step of a call, of the network or of the other side is without a price: it lowers what
\* one call has ahead, and changes nothing for the others.
EveryRoundCounts ==
    [][\E c \in Calls : /\ Ahead(c)' < Ahead(c)
                        /\ \A d \in Calls \ {c} : Ahead(d)' = Ahead(d)]_vars

FinitelyPosted == IInv /\ \A c \in Calls : IsFiniteSet(PostedOf(c))

LEMMA RoundsType ==
    ASSUME NEW max \in Nat, NEW loop, loop.pc \in Pcs, loop.attempt \in 0..max
    PROVE  RoundsAhead(loop, max) \in Nat
BY DEF RoundsAhead, Pcs

LEMMA RoundsSpent ==
    ASSUME NEW max \in Nat, NEW old, NEW new, old.attempt \in 0..max, new.attempt \in 0..max
    PROVE  /\ Advances(old, new) => RoundsAhead(new, max) < RoundsAhead(old, max)
           /\ StartsToPost(old, new) => RoundsAhead(new, max) = RoundsAhead(old, max) - 2
BY DEF RoundsAhead, Advances, StartsToPost

\* Taking a post from the others leaves the poster one less, and the rest as many.
LEMMA PostTaken ==
    ASSUME NEW posts, NEW post \in posts, NEW c,
           IsFiniteSet({p \in posts : p.by = c})
    PROVE  /\ post.by = c => Cardinality({p \in posts \ {post} : p.by = c})
                             = Cardinality({p \in posts : p.by = c}) - 1
           /\ post.by # c => {p \in posts \ {post} : p.by = c} = {p \in posts : p.by = c}
<1>. DEFINE mine == {p \in posts : p.by = c}
<1>1. ASSUME post.by = c
      PROVE  Cardinality({p \in posts \ {post} : p.by = c}) = Cardinality(mine) - 1
  <2>1. {p \in posts \ {post} : p.by = c} = mine \ {post} /\ post \in mine
    BY <1>1
  <2>2. IsFiniteSet(mine)
    OBVIOUS
  <2>. HIDE DEF mine
  <2>. QED
    BY <2>1, <2>2, FS_RemoveElement
<1>. QED
  BY <1>1

LEMMA AheadType ==
    ASSUME FinitelyPosted, NEW c \in Calls
    PROVE  /\ call[c].attempt \in 0..MaxSubmitAttempt /\ send[c].attempt \in 0..MaxSendAttempt
           /\ RoundsAhead(call[c], MaxSubmitAttempt) \in Nat
           /\ RoundsAhead(send[c], MaxSendAttempt) \in Nat
           /\ IsFiniteSet(PostedOf(c)) /\ Cardinality(PostedOf(c)) \in Nat
           /\ IsFiniteSet(OnTheWayOf(c)) /\ Cardinality(OnTheWayOf(c)) \in Nat
           /\ SubmitAhead(c) \in Nat /\ SendAhead(c) \in Nat
<1>1. /\ call[c].attempt \in 0..MaxSubmitAttempt /\ call[c].pc \in Pcs
      /\ send[c].attempt \in 0..MaxSendAttempt /\ send[c].pc \in Pcs
  BY DEF FinitelyPosted, IInv, SubmitInv, TypeOK, Client!Call, Sender!Send, Pcs
<1>2. IsFiniteSet(PostedOf(c)) /\ IsFiniteSet(OnTheWayOf(c))
  BY DEF FinitelyPosted, IInv, SendInv, Received
<1>3. Cardinality(PostedOf(c)) \in Nat /\ Cardinality(OnTheWayOf(c)) \in Nat
  BY <1>2, FS_CardinalityType
<1>4. /\ RoundsAhead(call[c], MaxSubmitAttempt) \in Nat
      /\ RoundsAhead(send[c], MaxSendAttempt) \in Nat
  BY <1>1, RoundsType, OutboundAssumption
<1>. QED
  BY <1>1, <1>2, <1>3, <1>4 DEF SubmitAhead, SendAhead

\* What a loop's own step does to what is ahead: it moves on, or it starts a post.
LEMMA LoopSpends ==
    ASSUME NEW max \in Nat, NEW old, NEW new, old.attempt \in 0..max, new.attempt \in 0..max,
           old.pc \in Pcs, new.pc \in Pcs,
           NEW before, IsFiniteSet(before), NEW after, NEW post,
           \/ Advances(old, new) /\ after = before
           \/ StartsToPost(old, new) /\ after \in {before, before \cup {post}}
    PROVE  /\ IsFiniteSet(after)
           /\ RoundsAhead(new, max) + Cardinality(after) < RoundsAhead(old, max) + Cardinality(before)
<1>1. /\ RoundsAhead(old, max) \in Nat /\ RoundsAhead(new, max) \in Nat
      /\ Cardinality(before) \in Nat
  BY RoundsType, FS_CardinalityType
<1>2. /\ IsFiniteSet(before \cup {post})
      /\ Cardinality(before \cup {post}) \in Nat
      /\ Cardinality(before \cup {post}) <= Cardinality(before) + 1
  BY GrowsByOne
<1>3. CASE Advances(old, new) /\ after = before
  BY <1>1, <1>3, RoundsSpent
<1>4. CASE StartsToPost(old, new) /\ after \in {before, before \cup {post}}
  <2>1. RoundsAhead(new, max) = RoundsAhead(old, max) - 2
    BY <1>4, RoundsSpent
  <2>2. IsFiniteSet(after) /\ Cardinality(after) \in Nat /\ Cardinality(after) <= Cardinality(before) + 1
    <3>1. CASE after = before
      <4>1. Cardinality(after) = Cardinality(before) /\ IsFiniteSet(after)
        BY <3>1
      <4>. QED
        BY <1>1, <4>1
    <3>2. CASE after = before \cup {post}
      BY <1>2, <3>2, Zenon
    <3>. QED
      BY <1>4, <3>1, <3>2
  <2>. QED
    BY <1>1, <2>1, <2>2
<1>. QED
  BY <1>3, <1>4

LEMMA ClientSpends ==
    ASSUME FinitelyPosted, NEW c \in Calls, Client!Submit(c) \/ Client!ClientStep(c), TypeOK'
    PROVE  /\ IsFiniteSet(PostedOf(c)') /\ SubmitAhead(c)' < SubmitAhead(c)
           /\ \A d \in Calls \ {c} : /\ PostedOf(d)' = PostedOf(d)
                                     /\ SubmitAhead(d)' = SubmitAhead(d)
<1>1. /\ \A d \in Calls \ {c} : call'[d] = call[d]
      /\ Begins(c) \/ Posts(c) \/ GoesOn(c) \/ (\E result : Returns(c, result))
  BY ClientMoves DEF FinitelyPosted, IInv, SubmitInv
<1>2. /\ call[c].attempt \in 0..MaxSubmitAttempt /\ call'[c].attempt \in 0..MaxSubmitAttempt
      /\ call[c].pc \in Pcs /\ call'[c].pc \in Pcs /\ IsFiniteSet(PostedOf(c))
  BY DEF FinitelyPosted, IInv, SubmitInv, TypeOK, Client!Call, Pcs
<1>3. /\ \/ Advances(call[c], call'[c]) /\ PostedOf(c)' = PostedOf(c)
         \/ /\ StartsToPost(call[c], call'[c])
            /\ PostedOf(c)' = PostedOf(c) \cup {Client!PostOf(c)}
      /\ \A d \in Calls \ {c} : PostedOf(d)' = PostedOf(d)
  <2>1. CASE Posts(c)
    <3>1. StartsToPost(call[c], call'[c])
      BY <2>1 DEF Posts, StartsToPost, FinitelyPosted, IInv, SubmitInv, TypeOK, Client!Call
    <3>. QED
      BY <2>1, <3>1 DEF Posts, PostedOf, Client!PostOf
  <2>2. CASE Begins(c) \/ GoesOn(c) \/ (\E result : Returns(c, result))
    <3>1. posted' = posted
      BY <2>2 DEF Begins, GoesOn, Returns
    <3>2. Advances(call[c], call'[c])
      BY <2>2 DEF Begins, GoesOn, Returns, Advances, FinitelyPosted, IInv, SubmitInv, TypeOK, Client!Call
    <3>. QED
      BY <3>1, <3>2 DEF PostedOf
  <2>. QED
    BY <1>1, <2>1, <2>2
<1>4. IsFiniteSet(PostedOf(c)') /\ SubmitAhead(c)' < SubmitAhead(c)
  <2>. DEFINE after == PostedOf(c)'
  <2>1. /\ IsFiniteSet(after)
        /\ RoundsAhead(call'[c], MaxSubmitAttempt) + Cardinality(after)
             < RoundsAhead(call[c], MaxSubmitAttempt) + Cardinality(PostedOf(c))
    <3>. HIDE DEF after
    <3>1. \/ Advances(call[c], call'[c]) /\ after = PostedOf(c)
          \/ /\ StartsToPost(call[c], call'[c])
             /\ after \in {PostedOf(c), PostedOf(c) \cup {Client!PostOf(c)}}
      BY <1>3 DEF after
    <3>. QED
      BY <1>2, <3>1, LoopSpends, OutboundAssumption
  <2>. QED
    BY <2>1 DEF SubmitAhead, RoundsAhead
<1>. QED
  BY <1>1, <1>3, <1>4 DEF SubmitAhead, RoundsAhead

LEMMA GovernmentSpends ==
    ASSUME FinitelyPosted, Client!Government
    PROVE  /\ \A d \in Calls : IsFiniteSet(PostedOf(d)')
           /\ \E c \in Calls : /\ SubmitAhead(c)' < SubmitAhead(c)
                               /\ \A d \in Calls \ {c} : SubmitAhead(d)' = SubmitAhead(d)
<1>1. PICK post \in posted : Client!Govern(post) \/ Client!LosePost(post)
  BY DEF Client!Government
<1>2. call' = call /\ posted' = posted \ {post} /\ post.by \in Calls
  BY <1>1 DEF FinitelyPosted, IInv, SubmitInv, TypeOK, Client!Govern, Client!LosePost, Client!Post
<1>3. ASSUME NEW d \in Calls
      PROVE  /\ IsFiniteSet(PostedOf(d)')
             /\ d = post.by => Cardinality(PostedOf(d)') = Cardinality(PostedOf(d)) - 1
             /\ d # post.by => PostedOf(d)' = PostedOf(d)
  <2>1. IsFiniteSet({p \in posted : p.by = d})
    BY DEF FinitelyPosted, PostedOf
  <2>2. {p \in posted \ {post} : p.by = d} \subseteq {p \in posted : p.by = d}
    OBVIOUS
  <2>3. IsFiniteSet({p \in posted \ {post} : p.by = d})
    BY <2>1, <2>2, FS_Subset
  <2>. QED
    BY <1>2, <2>1, <2>3, PostTaken DEF PostedOf
<1>4. ASSUME NEW d \in Calls
      PROVE  SubmitAhead(d)' = RoundsAhead(call[d], MaxSubmitAttempt) + Cardinality(PostedOf(d)')
  BY <1>2 DEF SubmitAhead, RoundsAhead
<1>5. SubmitAhead(post.by)' < SubmitAhead(post.by)
  BY <1>2, <1>3, <1>4, AheadType DEF SubmitAhead
<1>6. \A d \in Calls \ {post.by} : SubmitAhead(d)' = SubmitAhead(d)
  BY <1>2, <1>3, <1>4 DEF SubmitAhead
<1>. QED
  BY <1>2, <1>3, <1>5, <1>6

LEMMA SenderSpends ==
    ASSUME FinitelyPosted, NEW c \in Calls, Sender!Begin(c) \/ Sender!SenderStep(c), TypeOK'
    PROVE  /\ SendAhead(c)' < SendAhead(c)
           /\ \A d \in Calls \ {c} : SendAhead(d)' = SendAhead(d)
<1>1. /\ \A d \in Calls \ {c} : send'[d] = send[d]
      /\ \/ Advances(send[c], send'[c]) /\ onTheWay' = onTheWay
         \/ /\ StartsToPost(send[c], send'[c])
            /\ onTheWay' \in {onTheWay, onTheWay \cup {Sender!PostOf(c)}}
  BY SenderMoves DEF FinitelyPosted, IInv, SubmitInv
<1>2. /\ send[c].attempt \in 0..MaxSendAttempt /\ send'[c].attempt \in 0..MaxSendAttempt
      /\ send[c].pc \in Pcs /\ send'[c].pc \in Pcs /\ IsFiniteSet(OnTheWayOf(c))
  BY DEF FinitelyPosted, IInv, SendInv, Received, SubmitInv, TypeOK, Sender!Send, Pcs
<1>. DEFINE after == OnTheWayOf(c)'
<1>3. \A d \in Calls \ {c} : OnTheWayOf(d)' = OnTheWayOf(d)
  BY <1>1 DEF OnTheWayOf, Sender!PostOf
<1>4. \/ Advances(send[c], send'[c]) /\ after = OnTheWayOf(c)
      \/ /\ StartsToPost(send[c], send'[c])
         /\ after \in {OnTheWayOf(c), OnTheWayOf(c) \cup {Sender!PostOf(c)}}
  <2>1. onTheWay' = onTheWay => after = OnTheWayOf(c)
    BY DEF OnTheWayOf
  <2>2. onTheWay' = onTheWay \cup {Sender!PostOf(c)} => after = OnTheWayOf(c) \cup {Sender!PostOf(c)}
    BY DEF OnTheWayOf, Sender!PostOf
  <2>. HIDE DEF after
  <2>. QED
    BY <1>1, <2>1, <2>2
<1>5. RoundsAhead(send'[c], MaxSendAttempt) + Cardinality(after)
        < RoundsAhead(send[c], MaxSendAttempt) + Cardinality(OnTheWayOf(c))
  <2>. HIDE DEF after
  <2>. QED
    BY <1>2, <1>4, LoopSpends, OutboundAssumption
<1>. QED
  BY <1>1, <1>3, <1>5 DEF SendAhead, RoundsAhead

LEMMA WebhookSpends ==
    ASSUME FinitelyPosted, Sender!Environment
    PROVE  \E c \in Calls : /\ SendAhead(c)' < SendAhead(c)
                            /\ \A d \in Calls \ {c} : SendAhead(d)' = SendAhead(d)
<1>1. PICK post \in onTheWay : Sender!Receive(post) \/ Sender!LosePost(post)
  BY DEF Sender!Environment
<1>2. send' = send /\ onTheWay' = onTheWay \ {post} /\ post.by \in Calls
  BY <1>1 DEF FinitelyPosted, IInv, SubmitInv, TypeOK, Sender!Receive, Sender!LosePost
<1>3. ASSUME NEW d \in Calls
      PROVE  /\ d = post.by => Cardinality(OnTheWayOf(d)') = Cardinality(OnTheWayOf(d)) - 1
             /\ d # post.by => OnTheWayOf(d)' = OnTheWayOf(d)
  <2>1. IsFiniteSet({p \in onTheWay : p.by = d})
    BY AheadType DEF OnTheWayOf
  <2>2. OnTheWayOf(d)' = {p \in onTheWay \ {post} : p.by = d}
    BY <1>2 DEF OnTheWayOf
  <2>3. /\ post.by = d => Cardinality({p \in onTheWay \ {post} : p.by = d})
                          = Cardinality({p \in onTheWay : p.by = d}) - 1
        /\ post.by # d => {p \in onTheWay \ {post} : p.by = d} = {p \in onTheWay : p.by = d}
    BY <1>1, <2>1, PostTaken
  <2>. QED
    BY <2>2, <2>3, Zenon DEF OnTheWayOf
<1>4. ASSUME NEW d \in Calls
      PROVE  SendAhead(d)' = RoundsAhead(send[d], MaxSendAttempt) + Cardinality(OnTheWayOf(d)')
  BY <1>2 DEF SendAhead, RoundsAhead
<1>5. SendAhead(post.by)' < SendAhead(post.by)
  BY <1>2, <1>3, <1>4, AheadType DEF SendAhead
<1>6. \A d \in Calls \ {post.by} : SendAhead(d)' = SendAhead(d)
  BY <1>2, <1>3, <1>4 DEF SendAhead
<1>. QED
  BY <1>2, <1>5, <1>6

LEMMA SendAheadStays ==
    ASSUME UNCHANGED senderVars, NEW c \in Calls
    PROVE  SendAhead(c)' = SendAhead(c)
BY DEF senderVars, SendAhead, RoundsAhead, OnTheWayOf

LEMMA SubmitAheadStays ==
    ASSUME UNCHANGED clientVars, NEW c \in Calls
    PROVE  PostedOf(c)' = PostedOf(c) /\ SubmitAhead(c)' = SubmitAhead(c)
BY DEF clientVars, SubmitAhead, RoundsAhead, PostedOf

AheadNumbers == \A c \in Calls : SubmitAhead(c) \in Nat /\ SendAhead(c) \in Nat

LEMMA AheadIsNumber == FinitelyPosted => AheadNumbers
BY AheadType DEF AheadNumbers

LEMMA RoundSpent ==
    ASSUME FinitelyPosted, Next
    PROVE  /\ FinitelyPosted'
           /\ \E c \in Calls : /\ Ahead(c)' < Ahead(c)
                               /\ \A d \in Calls \ {c} : Ahead(d)' = Ahead(d)
<1>. IInv' /\ TypeOK'
  BY InvStep DEF FinitelyPosted, IInv, SubmitInv
<1>a. \A c \in Calls : SubmitAhead(c) \in Nat /\ SendAhead(c) \in Nat
  BY AheadType
<1>1. ASSUME NEW c \in Calls, SubmitAhead(c)' < SubmitAhead(c),
             \A d \in Calls \ {c} : SubmitAhead(d)' = SubmitAhead(d),
             \A d \in Calls : IsFiniteSet(PostedOf(d)'),
             UNCHANGED senderVars
      PROVE  /\ FinitelyPosted'
             /\ Ahead(c)' < Ahead(c) /\ \A d \in Calls \ {c} : Ahead(d)' = Ahead(d)
  <2>1. FinitelyPosted'
    BY <1>1 DEF FinitelyPosted
  <2>2. AheadNumbers'
    BY <2>1, AheadIsNumber, PTL
  <2>3. SubmitAhead(c)' \in Nat
    BY <2>2 DEF AheadNumbers
  <2>. QED
    BY <1>a, <1>1, <2>1, <2>3, SendAheadStays DEF Ahead
<1>2. ASSUME NEW c \in Calls, SendAhead(c)' < SendAhead(c),
             \A d \in Calls \ {c} : SendAhead(d)' = SendAhead(d),
             UNCHANGED clientVars
      PROVE  /\ FinitelyPosted'
             /\ Ahead(c)' < Ahead(c) /\ \A d \in Calls \ {c} : Ahead(d)' = Ahead(d)
  <2>1. FinitelyPosted'
    BY SubmitAheadStays, <1>2 DEF FinitelyPosted
  <2>2. AheadNumbers'
    BY <2>1, AheadIsNumber, PTL
  <2>3. SendAhead(c)' \in Nat
    BY <2>2 DEF AheadNumbers
  <2>. QED
    BY <1>a, <1>2, <2>1, <2>3, SubmitAheadStays DEF Ahead
<1>3. ASSUME NEW c \in Calls, Submit(c) \/ ClientStep(c)
      PROVE  /\ FinitelyPosted'
             /\ Ahead(c)' < Ahead(c) /\ \A d \in Calls \ {c} : Ahead(d)' = Ahead(d)
  <2>1. \A d \in Calls : IsFiniteSet(PostedOf(d)')
    BY <1>3, ClientSpends, AheadType DEF Submit, ClientStep
  <2>. QED
    BY <1>1, <1>3, <2>1, ClientSpends DEF Submit, ClientStep
<1>4. ASSUME NEW c \in Calls, Notify(c) \/ SenderStep(c)
      PROVE  /\ FinitelyPosted'
             /\ Ahead(c)' < Ahead(c) /\ \A d \in Calls \ {c} : Ahead(d)' = Ahead(d)
  BY <1>2, <1>4, SenderSpends DEF Notify, SenderStep
<1>5. CASE Client!Government /\ UNCHANGED senderVars
  BY <1>1, <1>5, GovernmentSpends
<1>6. CASE Sender!Environment /\ UNCHANGED clientVars
  BY <1>2, <1>6, WebhookSpends
<1>. QED
  BY <1>3, <1>4, <1>5, <1>6 DEF Next

\* Neither loop goes on for ever, whatever the network and the other sides do: every round of
\* SubmitDPS and of Send uses up one of the attempts configured, and no post is dealt with twice.
THEOREM LoopsComeToAnEnd == Spec => EveryRoundCounts
<1>1. Init => FinitelyPosted
  <2>. SUFFICES ASSUME Init PROVE FinitelyPosted
    OBVIOUS
  <2>1. \A c \in Calls : PostedOf(c) = {}
    BY DEF Init, Client!Init, PostedOf
  <2>. QED
    BY <2>1, InvInit, FS_EmptySet DEF FinitelyPosted
<1>2. FinitelyPosted /\ UNCHANGED vars => FinitelyPosted'
  <2>. SUFFICES ASSUME FinitelyPosted, UNCHANGED vars PROVE FinitelyPosted'
    OBVIOUS
  <2>1. UNCHANGED clientVars
    BY DEF vars
  <2>. QED
    BY <2>1, InvStep, SubmitAheadStays DEF FinitelyPosted
<1>3. FinitelyPosted /\ [Next]_vars =>
        /\ FinitelyPosted'
        /\ [\E c \in Calls : /\ Ahead(c)' < Ahead(c)
                             /\ \A d \in Calls \ {c} : Ahead(d)' = Ahead(d)]_vars
  BY <1>2, RoundSpent
<1>. QED
  BY <1>1, <1>3, PTL DEF Spec, EveryRoundCounts
=============================================================================
