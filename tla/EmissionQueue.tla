---------------------------- MODULE EmissionQueue ----------------------------
(***************************************************************************)
(* The asynq task of an emission request, as the API enqueues it (queue    *)
(* "default", MaxRetry 3, no TaskID, no Timeout) and as the worker's       *)
(* server treats it.  asynq is a library: what it does with a task is      *)
(* modelled from its contract (at-least-once, retried until MaxRetry, then *)
(* archived without calling the handler again).                            *)
(***************************************************************************)
EXTENDS Naturals

CONSTANT MaxRetry       \* asynq.MaxRetry of the enqueued task

ASSUME MaxRetryAssumption == MaxRetry \in Nat

TaskStates == {"none", "queued", "active", "completed", "archived"}

\* retried counts what asynq charges against MaxRetry; requeued counts the
\* executions a shutting-down server pushed back without charging them.
Task == [state : TaskStates, retried : Nat, requeued : Nat]

NoTask == [state |-> "none", retried |-> 0, requeued |-> 0]

Enqueued == [NoTask EXCEPT !.state = "queued"]

Dequeue(task) == [task EXCEPT !.state = "active"]

MarkDone(task) == [task EXCEPT !.state = "completed"]

\* A failed execution: another attempt while the budget lasts, the archive
\* afterwards.  The delay before the next attempt is not modelled here.
RetryOrArchive(task) ==
    IF task.retried < MaxRetry
    THEN [task EXCEPT !.state = "queued", !.retried = @ + 1]
    ELSE [task EXCEPT !.state = "archived"]

Requeue(task) == [task EXCEPT !.state = "queued", !.requeued = @ + 1]

\* The number of the execution that a task is in, or is about to be in.
RunNumber(task) == task.retried + task.requeued
===============================================================================
