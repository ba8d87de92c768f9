-------------------------- MODULE SubmissionOutcome --------------------------
(***************************************************************************)
(* What a call of SubmitDPS can come to, seen as one step: whether the     *)
(* government makes an NFS-e of it, and what the caller is answered.       *)
(* EmissionPipeline takes it for such a step, and so does                  *)
(* AtomicSubmission, which the loop in SefinClient implements.             *)
(***************************************************************************)

\* taken: the DPS was used before; grants: it is used now.
Possible(taken, grants, answer) ==
    /\ grants => ~taken
    /\ answer = "issued" => grants
    /\ answer = "duplicate" => taken \/ grants
===============================================================================
