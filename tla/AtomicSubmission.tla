--------------------------- MODULE AtomicSubmission ---------------------------
(***************************************************************************)
(* SubmitDPS as a single step, as EmissionPipeline has it: in Submit and   *)
(* SubmitError the government decides and the caller is answered at once,  *)
(* and a submission whose caller was not told "issued" may linger, to      *)
(* arrive at any later time.                                               *)
(***************************************************************************)
EXTENDS SubmissionOutcome

CONSTANTS
    Calls,          \* calls of SubmitDPS
    DpsOf(_)        \* the DPS a call submits

VARIABLES
    issued,         \* calls whose submission became an NFS-e
    answer,         \* what each caller knows
    lingering       \* calls with a submission that nobody waits for any more

vars == <<issued, answer, lingering>>

Answers == {"issued", "duplicate", "government", "error"}

Taken(c) == \E b \in issued : DpsOf(b) = DpsOf(c)

Init ==
    /\ issued = {}
    /\ answer = [c \in Calls |-> "none"]
    /\ lingering = {}

Begin(c) ==
    /\ answer[c] = "none"
    /\ answer' = [answer EXCEPT ![c] = "open"]
    /\ UNCHANGED <<issued, lingering>>

Submit(c) ==
    /\ answer[c] = "open"
    /\ \E a \in Answers, grants \in BOOLEAN :
        /\ Possible(Taken(c), grants, a)
        /\ issued' = IF grants THEN issued \cup {c} ELSE issued
        /\ answer' = [answer EXCEPT ![c] = a]
        /\ lingering' \in {lingering, IF a = "issued" THEN lingering ELSE lingering \cup {c}}

Arrive(c) ==
    /\ c \in lingering
    /\ lingering' = lingering \ {c}
    /\ issued' = IF Taken(c) THEN issued ELSE issued \cup {c}
    /\ UNCHANGED answer

Next == \E c \in Calls : Begin(c) \/ Submit(c) \/ Arrive(c)

Spec == Init /\ [][Next]_vars
===============================================================================
