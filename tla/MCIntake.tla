------------------------------- MODULE MCIntake --------------------------------
(***************************************************************************)
(* The two ways in for TLC.  A behaviour is the course of a JSON request,  *)
(* whose DPS the worker builds, or of a document that comes signed.        *)
(***************************************************************************)
EXTENDS MCAcceptance, MCDocuments

VARIABLE door

IntakeInit ==
    \/ /\ door = "json" /\ Init
       /\ plan = PlainPlan /\ document = plan.unsigned /\ xmlStage = "unsigned" /\ rows = {}
    \/ /\ door = "xml" /\ DocumentInit
       /\ request = Good /\ stage = "received" /\ docs = {} /\ dps = {}

IntakeNext ==
    \/ door = "json" /\ Next /\ UNCHANGED <<door, documentVars>>
    \/ door = "xml" /\ DocumentNext /\ UNCHANGED <<door, vars>>

IntakeSpec == IntakeInit /\ [][IntakeNext]_<<door, vars, documentVars>>
===============================================================================
