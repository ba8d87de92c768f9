---------------------------- MODULE WebhookSender ----------------------------
(***************************************************************************)
(* Sender.Send: the loop that posts an event to the integrator's webhook   *)
(* until it gets a 2xx, a 4xx other than 429, or has no attempts left.     *)
(* Each POST and the wait for its answer have separate fates, as in        *)
(* SefinClient.                                                            *)
(***************************************************************************)
EXTENDS Naturals

CONSTANTS
    Calls,          \* calls of Send
    MaxAttempt      \* SenderConfig.MaxRetries

VARIABLES
    send,           \* each call of Send
    onTheWay,       \* POSTs that the webhook has yet to receive
    statuses,       \* HTTP statuses on their way back
    received        \* how often the webhook has received each call's event

vars == <<send, onTheWay, statuses, received>>

\* 2xx; 4xx except 429; everything else.
StatusClasses == {"ok", "refused", "retryable"}

\* tries and attempts: the rounds of the loop that began, and SendResult.Attempts.
Send == [pc : {"idle", "ready", "posting", "done"}, attempt : 0..MaxAttempt,
         tries : 0..(MaxAttempt + 1), attempts : 0..(MaxAttempt + 1),
         success : BOOLEAN]

Init ==
    /\ send = [c \in Calls |-> [pc |-> "idle", attempt |-> 0, tries |-> 0, attempts |-> 0,
                                success |-> FALSE]]
    /\ onTheWay = {}
    /\ statuses = {}
    /\ received = [c \in Calls |-> 0]

PostOf(c) == [by |-> c, attempt |-> send[c].attempt]

Waiting(post) == send[post.by].pc = "posting" /\ PostOf(post.by) = post

Return(c, success, attempts) ==
    send' = [send EXCEPT ![c].pc = "done", ![c].success = success, ![c].attempts = attempts]

HangUp(c) == statuses' = {reply \in statuses : reply.to.by # c}

-------------------------------------------------------------------------------
Begin(c) ==
    /\ send[c].pc = "idle"
    /\ send' = [send EXCEPT ![c].pc = "ready"]
    /\ UNCHANGED <<onTheWay, statuses, received>>

\* Nothing is sent when no request can be made of the URL, or the context is done.
DoPost(c) ==
    /\ send[c].pc = "ready"
    /\ send' = [send EXCEPT ![c].pc = "posting", ![c].tries = @ + 1]
    /\ onTheWay' \in {onTheWay, onTheWay \cup {PostOf(c)}}
    /\ UNCHANGED <<statuses, received>>

\* The next attempt, or the result after the last one.
RetryOrGiveUp(c) ==
    IF send[c].attempt < MaxAttempt
    THEN send' = [send EXCEPT ![c].pc = "ready", ![c].attempt = @ + 1]
    ELSE Return(c, FALSE, MaxAttempt + 1)

\* NewRequest fails, or client.Do does, before or after the webhook has received
\* the event.
DoFails(c) ==
    /\ send[c].pc = "posting"
    /\ RetryOrGiveUp(c)
    /\ HangUp(c)
    /\ UNCHANGED <<onTheWay, received>>

\* Mutant: the attempt that is being waited for is counted as made.
CancelledMiscounted(c) ==
    /\ send[c].pc = "ready"
    /\ send[c].attempt > 0
    /\ Return(c, FALSE, send[c].attempt + 1)
    /\ UNCHANGED <<onTheWay, statuses, received>>

\* The context of the execution is done during the wait before a retry.
Cancelled(c) ==
    /\ send[c].pc = "ready"
    /\ send[c].attempt > 0
    /\ Return(c, FALSE, send[c].attempt)
    /\ UNCHANGED <<onTheWay, statuses, received>>

ReadStatus(c) ==
    \E reply \in statuses :
        /\ reply.to.by = c
        /\ Waiting(reply.to)
        /\ statuses' = statuses \ {reply}
        /\ \/ reply.status = "ok"        /\ Return(c, TRUE, send[c].attempt + 1)
           \/ reply.status = "refused"   /\ Return(c, FALSE, send[c].attempt + 1)
           \/ reply.status = "retryable" /\ RetryOrGiveUp(c)
        /\ UNCHANGED <<onTheWay, received>>

\* The webhook gets a POST and answers it; something in front of it may answer
\* in its place, with anything but a 2xx.
Receive(post) ==
    /\ onTheWay' = onTheWay \ {post}
    /\ \E status \in StatusClasses, reaches \in BOOLEAN :
        /\ status = "ok" => reaches
        /\ received' = IF reaches THEN [received EXCEPT ![post.by] = @ + 1] ELSE received
        /\ statuses' = IF Waiting(post) THEN statuses \cup {[to |-> post, status |-> status]}
                       ELSE statuses
    /\ UNCHANGED send

LosePost(post) ==
    /\ onTheWay' = onTheWay \ {post}
    /\ UNCHANGED <<send, statuses, received>>

SenderStep(c) ==
    DoPost(c) \/ DoFails(c) \/ Cancelled(c) \/ ReadStatus(c)

Environment == \E post \in onTheWay : Receive(post) \/ LosePost(post)
===============================================================================
