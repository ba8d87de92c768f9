--------------------------- MODULE EmissionContract ---------------------------
(***************************************************************************)
(* What the service promises about a request, without saying how: a        *)
(* request is accepted, taken up, and settled at most once; it succeeds    *)
(* only if the government has issued its NFS-e; the integrator hears of    *)
(* one outcome, after it is settled, and hears what was settled.  There    *)
(* are no tasks, executions, retries or deliveries here.                   *)
(***************************************************************************)
EXTENDS Naturals

CONSTANT Requests

VARIABLES
    status,         \* where each request is
    nfse,           \* requests the government has issued an NFS-e for
    told            \* the outcomes the integrator has heard of

vars == <<status, nfse, told>>

Init ==
    /\ status = [r \in Requests |-> "absent"]
    /\ nfse = {}
    /\ told = [r \in Requests |-> {}]

Accept(r) ==
    /\ status[r] = "absent"
    /\ status' = [status EXCEPT ![r] = "pending"]
    /\ UNCHANGED <<nfse, told>>

TakeUp(r) ==
    /\ status[r] = "pending"
    /\ status' = [status EXCEPT ![r] = "processing"]
    /\ UNCHANGED <<nfse, told>>

\* The government issues an NFS-e only for a request that is being processed.
Issue(r) ==
    /\ status[r] = "processing"
    /\ r \notin nfse
    /\ nfse' = nfse \cup {r}
    /\ UNCHANGED <<status, told>>

Succeed(r) ==
    /\ status[r] = "processing"
    /\ r \in nfse
    /\ status' = [status EXCEPT ![r] = "success"]
    /\ UNCHANGED <<nfse, told>>

Fail(r) ==
    /\ status[r] = "processing"
    /\ status' = [status EXCEPT ![r] = "failed"]
    /\ UNCHANGED <<nfse, told>>

Tell(r) ==
    /\ told[r] = {}
    /\ \/ status[r] = "success" /\ told' = [told EXCEPT ![r] = {"completed"}]
       \/ status[r] = "failed"  /\ told' = [told EXCEPT ![r] = {"failed"}]
    /\ UNCHANGED <<status, nfse>>

Next ==
    \E r \in Requests :
        Accept(r) \/ TakeUp(r) \/ Issue(r) \/ Succeed(r) \/ Fail(r) \/ Tell(r)

Spec == Init /\ [][Next]_vars
===============================================================================
