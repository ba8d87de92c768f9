------------------------------ MODULE MCEmission ------------------------------
(***************************************************************************)
(* Values for TLC's runs of the emission pipeline.                         *)
(***************************************************************************)
EXTENDS EmissionProperties, TLC

CONSTANTS r1, r2, d1

OneRequest == {r1}
TwoRequests == {r1, r2}
OneDps == {d1}

AllFaults == FaultKinds
NoLateCalls == FaultKinds \ {"late"}
SoundStore == FaultKinds \ {"late", "store"}
GovOnly == {"gov"}
LateAbort == {"abort", "late"}

Symmetry == Permutations(TwoRequests)
===============================================================================
