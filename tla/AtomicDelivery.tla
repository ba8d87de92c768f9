---------------------------- MODULE AtomicDelivery ----------------------------
(***************************************************************************)
(* Send as a single step, as EmissionPipeline has it: in SendWebhook the   *)
(* event is received or not and its caller has the result at once, and an  *)
(* event whose delivery was not confirmed may linger, to arrive at any     *)
(* later time.  To hear an event again changes nothing.                    *)
(***************************************************************************)
CONSTANTS
    Calls           \* calls of Send

VARIABLES
    told,           \* calls whose event the webhook has received
    result,         \* what each caller knows
    lingering       \* calls with a POST that nobody waits for any more

vars == <<told, result, lingering>>

Init ==
    /\ told = {}
    /\ result = [c \in Calls |-> "none"]
    /\ lingering = {}

Begin(c) ==
    /\ result[c] = "none"
    /\ result' = [result EXCEPT ![c] = "open"]
    /\ UNCHANGED <<told, lingering>>

Send(c) ==
    /\ result[c] = "open"
    /\ \E received, delivered \in BOOLEAN :
        /\ delivered => received
        /\ told' = IF received THEN told \cup {c} ELSE told
        /\ result' = [result EXCEPT ![c] = IF delivered THEN "delivered" ELSE "undelivered"]
        /\ lingering' \in {lingering, IF delivered THEN lingering ELSE lingering \cup {c}}

Arrive(c) ==
    /\ c \in lingering
    /\ lingering' = lingering \ {c}
    /\ told' = told \cup {c}
    /\ UNCHANGED result

Next == \E c \in Calls : Begin(c) \/ Send(c) \/ Arrive(c)

Spec == Init /\ [][Next]_vars
===============================================================================
