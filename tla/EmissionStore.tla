---------------------------- MODULE EmissionStore ----------------------------
(***************************************************************************)
(* The documents of the MongoDB collections emission_requests and          *)
(* webhook_deliveries, and the updates their repositories perform.  Every  *)
(* update filters on request_id (or on the delivery's _id) alone: no       *)
(* repository operation is conditional on what the document holds, so each *)
(* one is a total operator on documents.                                   *)
(*                                                                         *)
(* A document keeps what control depends on: the status, whether the PFX   *)
(* and its password are stored, whether the certificate is marked as used, *)
(* the presence of a result, the cause of a rejection and the retry count. *)
(***************************************************************************)
EXTENDS Naturals

\* How the integrator hands the DPS over: JSON without a certificate, JSON
\* with a PFX certificate, or a DPS that is already signed.
Kinds == {"plain", "certificate", "presigned"}

Terminal == {"success", "failed"}

\* Why a request was refused: by the signing step, by a rule of the
\* government, or by the government because the DPS was already used.
Causes == {"certificate", "government", "duplicate"}

EmissionDoc ==
    [status      : {"absent", "pending", "processing"} \cup Terminal,
     credentials : BOOLEAN,
     isSigned    : BOOLEAN,
     result      : BOOLEAN,
     rejection   : {"none"} \cup Causes,
     retryCount  : Nat]

\* Before the insert there is no document.
NoDoc == [status |-> "absent", credentials |-> FALSE, isSigned |-> FALSE,
          result |-> FALSE, rejection |-> "none", retryCount |-> 0]

\* The document each POST handler builds.  Only the JSON handler stores a PFX
\* and a password; only the XML handler stores a certificate already used.
NewDoc(kind) ==
    [NoDoc EXCEPT !.status      = "pending",
                  !.credentials = (kind = "certificate"),
                  !.isSigned    = (kind = "presigned")]

\* Mutant: taking a request up counts as a retry.
UpdateStatusCounting(doc, status) == [doc EXCEPT !.status = status, !.retryCount = @ + 1]

UpdateStatus(doc, status) == [doc EXCEPT !.status = status]

UpdateResult(doc) == [doc EXCEPT !.status = "success", !.result = TRUE]

UpdateRejection(doc, cause) ==
    [doc EXCEPT !.status = "failed", !.rejection = cause, !.retryCount = @ + 1]

UpdateSigningStatus(doc) == [doc EXCEPT !.isSigned = TRUE, !.credentials = FALSE]

IncrementRetryCount(doc) == [doc EXCEPT !.retryCount = @ + 1]

Events == {"completed", "failed"}

\* A webhook_deliveries row: the execution that inserted it is its identity.
Delivery(Requests) ==
    [req    : Requests,
     run    : Nat,
     event  : Events,
     status : {"pending", "success", "failed"}]

NewDelivery(req, run, event) ==
    [req |-> req, run |-> run, event |-> event, status |-> "pending"]

\* MarkSuccess and MarkFailed replace the status of one row.
MarkDelivery(rows, req, run, status) ==
    {IF row.req = req /\ row.run = run THEN [row EXCEPT !.status = status] ELSE row :
        row \in rows}
===============================================================================
