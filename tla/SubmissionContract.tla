-------------------------- MODULE SubmissionContract --------------------------
(***************************************************************************)
(* What SubmitDPS means to its caller, and what the emission pipeline      *)
(* takes it for: a submission may become an NFS-e once, from its start on  *)
(* and even after its caller has stopped waiting; the caller gets one      *)
(* answer.  It is "issued" or "duplicate" only with reason; "government",  *)
(* a rejection, may be the answer to anything, an NFS-e that was issued    *)
(* included: SubmitDPS makes it of what it cannot read.  There are no      *)
(* attempts, connections or lost answers here.                             *)
(***************************************************************************)
CONSTANTS
    Calls,          \* calls of SubmitDPS
    DpsOf(_)        \* the DPS a call submits

VARIABLES
    issued,         \* calls whose submission became an NFS-e
    answer          \* what each caller knows

vars == <<issued, answer>>

Answers == {"issued", "duplicate", "government", "error"}

Taken(c) == \E b \in issued : DpsOf(b) = DpsOf(c)

Init ==
    /\ issued = {}
    /\ answer = [c \in Calls |-> "none"]

Begin(c) ==
    /\ answer[c] = "none"
    /\ answer' = [answer EXCEPT ![c] = "open"]
    /\ UNCHANGED issued

Issue(c) ==
    /\ answer[c] # "none"
    /\ ~Taken(c)
    /\ issued' = issued \cup {c}
    /\ UNCHANGED answer

Return(c) ==
    /\ answer[c] = "open"
    /\ \E a \in Answers :
        /\ a = "issued" => c \in issued
        /\ a = "duplicate" => Taken(c)
        /\ answer' = [answer EXCEPT ![c] = a]
    /\ UNCHANGED issued

Next == \E c \in Calls : Begin(c) \/ Issue(c) \/ Return(c)

Spec == Init /\ [][Next]_vars
===============================================================================
