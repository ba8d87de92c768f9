---------------------------- MODULE OutboundCalls ----------------------------
(***************************************************************************)
(* The two calls by which an execution of ProcessEmission leaves the       *)
(* service, one after the other: SubmitDPS, and with a verdict, Send.      *)
(* EmissionPipeline makes one step of each; here are the loops inside,     *)
(* and what those steps rest on.                                           *)
(***************************************************************************)
EXTENDS Naturals

CONSTANTS
    Calls, DpsOf(_),    \* executions, and the DPS each submits
    Notified,           \* those whose request has a webhook URL
    MaxSubmitAttempt, MaxSendAttempt

ASSUME OutboundAssumption ==
    MaxSubmitAttempt \in Nat /\ MaxSendAttempt \in Nat /\ Notified \subseteq Calls

VARIABLES call, posted, replies, issued, send, onTheWay, statuses, received

Client == INSTANCE SefinClient WITH MaxAttempt <- MaxSubmitAttempt
Sender == INSTANCE WebhookSender WITH MaxAttempt <- MaxSendAttempt

clientVars == <<call, posted, replies, issued>>
senderVars == <<send, onTheWay, statuses, received>>
vars == <<clientVars, senderVars>>

\* The state of both loops stays within their types: no attempt past the configured
\* retries of SubmitDPS and Send, no answer for a call that is not theirs.
TypeOK ==
    /\ call \in [Calls -> Client!Call]
    /\ posted \subseteq Client!Post
    /\ replies \subseteq Client!Reply
    /\ issued \subseteq Calls
    /\ send \in [Calls -> Sender!Send]
    /\ onTheWay \subseteq [by : Calls, attempt : 0..MaxSendAttempt]
    /\ statuses \subseteq [to : [by : Calls, attempt : 0..MaxSendAttempt],
                           status : Sender!StatusClasses]
    /\ received \in [Calls -> 0..(MaxSendAttempt + 1)]

Init == Client!Init /\ Sender!Init

Submit(c) == Client!Submit(c) /\ UNCHANGED senderVars

\* The webhook is told once the submission has a verdict, never of an error.
Notify(c) ==
    /\ c \in Notified
    /\ call[c].pc = "done"
    /\ call[c].result # "error"
    /\ Sender!Begin(c)
    /\ UNCHANGED clientVars

ClientStep(c) == Client!ClientStep(c) /\ UNCHANGED senderVars

SenderStep(c) == Sender!SenderStep(c) /\ UNCHANGED clientVars

Next ==
    \/ \E c \in Calls : Submit(c) \/ ClientStep(c) \/ Notify(c) \/ SenderStep(c)
    \/ Client!Government /\ UNCHANGED senderVars
    \/ Sender!Environment /\ UNCHANGED clientVars

\* A running call goes on by itself: the clients' timeouts end every wait.
Fairness == \A c \in Calls : WF_vars(ClientStep(c)) /\ WF_vars(SenderStep(c))

Spec == Init /\ [][Next]_vars /\ Fairness

-------------------------------------------------------------------------------
\* Only a call that has posted again is told that its own NFS-e is a duplicate:
\* the rejection that ends a request the government has accepted.
OwnDuplicateAfterRetry ==
    \A c \in Calls : call[c].result = "duplicate" /\ c \in issued => call[c].attempt > 0

\* SendResult says what happened: a delivery reported as successful was received, Attempts
\* is the number of tries made, on every path out of the loop of Send, and the webhook
\* receives the event no more often than that, late and repeated POSTs included.
SendResultHonest ==
    \A c \in Calls :
        /\ send[c].success => received[c] > 0
        /\ send[c].pc = "done" => send[c].attempts = send[c].tries
        /\ received[c] <= send[c].tries

\* A call that runs returns, whatever the network and the other side do.
CallsReturn ==
    \A c \in Calls : /\ call[c].pc = "ready" ~> call[c].pc = "done"
                     /\ send[c].pc = "ready" ~> send[c].pc = "done"

\* SubmitDPS implements what the pipeline takes it for: an NFS-e is issued once for a DPS,
\* and the caller hears "issued" or "duplicate" only with reason, whatever was lost between.
AnswerOf(c) ==
    CASE call[c].pc = "idle" -> "none"
      [] call[c].pc = "done" -> call[c].result
      [] OTHER               -> "open"

Contract == INSTANCE SubmissionContract WITH answer <- [c \in Calls |-> AnswerOf(c)]

ImplementsSubmission == Contract!Spec
===============================================================================
