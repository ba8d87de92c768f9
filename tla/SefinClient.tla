----------------------------- MODULE SefinClient -----------------------------
(***************************************************************************)
(* ProductionClient.SubmitDPS: the loop that posts a DPS to the            *)
(* government and posts it again after an error it takes for a network     *)
(* error.  Calls run concurrently and share nothing but the government.    *)
(*                                                                         *)
(* A posted DPS and the wait for its answer have separate fates: when the  *)
(* connection breaks or the HTTP client times out, the post may be lost,   *)
(* may have been processed, or may still be processed while the client is  *)
(* already posting again.                                                  *)
(***************************************************************************)
EXTENDS Naturals

CONSTANTS
    Calls,          \* calls of SubmitDPS
    DpsOf(_),       \* the DPS a call submits
    MaxAttempt      \* ClientConfig.MaxRetries

VARIABLES
    call,           \* each call of SubmitDPS
    posted,         \* posts on their way to the government
    replies,        \* answers on their way back
    issued          \* calls whose DPS became an NFS-e

vars == <<call, posted, replies, issued>>

Results == {"none", "issued", "duplicate", "government", "error"}

Call == [pc : {"idle", "ready", "posting", "done"}, attempt : 0..MaxAttempt, result : Results]

Post == [by : Calls, attempt : 0..MaxAttempt]

Reply == [to : Post, says : {"issued", "duplicate", "government"}]

Init ==
    /\ call = [c \in Calls |-> [pc |-> "idle", attempt |-> 0, result |-> "none"]]
    /\ posted = {}
    /\ replies = {}
    /\ issued = {}

PostOf(c) == [by |-> c, attempt |-> call[c].attempt]

Waiting(post) == call[post.by].pc = "posting" /\ PostOf(post.by) = post

Finish(c, result) == call' = [call EXCEPT ![c].pc = "done", ![c].result = result]

\* Whoever answers the post now finds the connection closed.
HangUp(c) == replies' = {reply \in replies : reply.to.by # c}

-------------------------------------------------------------------------------
Submit(c) ==
    /\ call[c].pc = "idle"
    /\ call' = [call EXCEPT ![c].pc = "ready"]
    /\ UNCHANGED <<posted, replies, issued>>

DoSubmit(c) ==
    /\ call[c].pc = "ready"
    /\ call' = [call EXCEPT ![c].pc = "posting"]
    /\ posted' = posted \cup {PostOf(c)}
    /\ UNCHANGED <<replies, issued>>

\* Mutant: the loop does not count its attempts.
RetryUncounted(c) == call' = [call EXCEPT ![c].pc = "ready"]

\* An error that isRetryableError recognises.
RetryOrGiveUp(c) ==
    IF call[c].attempt < MaxAttempt
    THEN call' = [call EXCEPT ![c].pc = "ready", ![c].attempt = @ + 1]
    ELSE Finish(c, "error")

\* The connection cannot be made: refused, no such host.  Nothing is posted.
ConnectFails(c) ==
    /\ call[c].pc = "ready"
    /\ RetryOrGiveUp(c)
    /\ UNCHANGED <<posted, replies, issued>>

\* The wait for the answer ends without one: connection reset, EOF in the
\* headers or the body, Client.Timeout.
ConnectionBreaks(c) ==
    /\ call[c].pc = "posting"
    /\ RetryOrGiveUp(c)
    /\ HangUp(c)
    /\ UNCHANGED <<posted, issued>>

\* A status other than 200, a TLS error, the context of the execution done, in
\* the backoff or during the post: no pattern matches, there is no retry.
FailsForGood(c) ==
    /\ call[c].pc \in {"ready", "posting"}
    /\ Finish(c, "error")
    /\ HangUp(c)
    /\ UNCHANGED <<posted, issued>>

\* Mutant: an answer that cannot be parsed counts as a success.
ReadAnswerOptimistically(c) ==
    \E reply \in replies, parses \in BOOLEAN :
        /\ reply.to = PostOf(c) /\ Waiting(reply.to)
        /\ replies' = replies \ {reply}
        /\ Finish(c, IF parses THEN reply.says ELSE "issued")
        /\ UNCHANGED <<posted, issued>>

\* parseSOAPResponse, and parseRawResponse when the body is no SOAP envelope: then
\* a success is recognised by its literal tag, and all else is a rejection.
ReadAnswer(c) ==
    \E reply \in replies :
        /\ reply.to = PostOf(c)
        /\ Waiting(reply.to)
        /\ replies' = replies \ {reply}
        /\ Finish(c, reply.says) \/ Finish(c, "government")
        /\ UNCHANGED <<posted, issued>>

\* The government takes a post: it issues the NFS-e, or rejects it by one of its
\* rules, or because the DPS was used.  Its answer reaches a call that waits.
Govern(post) ==
    /\ posted' = posted \ {post}
    /\ \E says \in {"issued", "duplicate", "government"} :
        /\ (says = "duplicate") <=> (\E b \in issued : DpsOf(b) = DpsOf(post.by))
        /\ issued' = IF says = "issued" THEN issued \cup {post.by} ELSE issued
        /\ replies' = IF Waiting(post) THEN replies \cup {[to |-> post, says |-> says]}
                      ELSE replies
    /\ UNCHANGED call

LosePost(post) ==
    /\ posted' = posted \ {post}
    /\ UNCHANGED <<call, replies, issued>>

ClientStep(c) ==
    DoSubmit(c) \/ ConnectFails(c) \/ ConnectionBreaks(c) \/ FailsForGood(c) \/ ReadAnswer(c)

Government == \E post \in posted : Govern(post) \/ LosePost(post)
===============================================================================
