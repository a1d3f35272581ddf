-------------------------- MODULE ConfirmationProof --------------------------
(***************************************************************************)
(* What a poll says about a submission, and when a reconciliation believes *)
(* it: _validate_rpc_poll_result (adapters/attestation.py) and the proof   *)
(* contract and transition table of services/orchestrator.py.              *)
(***************************************************************************)
CONSTANT NoId      \* a confirmation_id of None

ConfirmationStatuses == {"still_pending", "confirmed", "rejected_or_dropped", "unknown"}
Finalities == {"finalized", "not_finalized", "rejected", "unknown"}

(* result.status as the provider may send it.  "absent" is a result object *)
(* without a status, "unlisted" a string the adapter does not know.        *)
ThronosStatuses == {"submitted", "pending", "confirmed", "finalized", "rejected",
                    "dropped", "unlisted", "absent"}
ProviderStatuses == ThronosStatuses \cup {"generic_rpc_unavailable"}

(* A proof object is told apart by provider_status and confirmation_id.    *)
(* wellFormed stands for: an object with the three required fields and no  *)
(* field outside the schema, with the one proof_source and proof_kind.     *)
Proof(status, id) == [wellFormed |-> TRUE, status |-> status, id |-> id]
NoProof == [wellFormed |-> FALSE, status |-> "absent", id |-> NoId]

Poll(confirmation, finality, lifecycle, id, proof) ==
  [confirmation |-> confirmation, finality |-> finality, lifecycle |-> lifecycle,
   id |-> id, proof |-> proof]

(* Defect: the confirmation status is reported as lifecycle state.         *)
PollOfOneStatus(status, id) ==
  IF status = "confirmed"
  THEN Poll("confirmed", "not_finalized", "confirmed", id, Proof(status, id))
  ELSE Poll("unknown", "unknown", "submission_unknown", NoId, Proof(status, NoId))

(* Defect: the lifecycle of a pending transaction kept for a dropped one.  *)
PollOfStaleLifecycle(status, id) ==
  CASE status = "finalized" ->
         Poll("confirmed", "finalized", "confirmed_finalized", id, Proof(status, id))
    [] status = "confirmed" ->
         Poll("confirmed", "not_finalized", "confirmed_not_finalized", id, Proof(status, id))
    [] status \in {"rejected", "dropped"} ->
         Poll("rejected_or_dropped", "rejected", "submitted_not_finalized", NoId, Proof(status, NoId))
    [] OTHER ->
         Poll("still_pending", "not_finalized", "submitted_not_finalized", NoId, Proof(status, NoId))

(* _validate_rpc_poll_result, for a well-formed envelope and result        *)
PollOf(status, id) ==
  CASE status = "finalized" ->
         Poll("confirmed", "finalized", "confirmed_finalized", id, Proof(status, id))
    [] status = "confirmed" ->
         Poll("confirmed", "not_finalized", "confirmed_not_finalized", id, Proof(status, id))
    [] status \in {"pending", "submitted"} ->
         Poll("still_pending", "not_finalized", "submitted_not_finalized", NoId, Proof(status, NoId))
    [] status \in {"rejected", "dropped"} ->
         Poll("rejected_or_dropped", "rejected", "submission_rejected", NoId, Proof(status, NoId))
    [] OTHER ->
         Poll("unknown", "unknown", "submission_unknown", NoId, Proof(status, NoId))

(* The adapters that ask nobody.                                           *)
LocalPoll(adapter) ==
  CASE adapter = "rpc_generic"   ->
         Poll("unknown", "unknown", "submission_unknown", NoId, Proof("generic_rpc_unavailable", NoId))
    [] adapter = "dry_run_chain" ->
         Poll("still_pending", "not_finalized", "submitted_not_finalized", NoId, NoProof)
    [] adapter = "fake"          ->
         Poll("unknown", "unknown", "submission_unknown", NoId, NoProof)

(* Defect: the provider status is not compared with the outcome.           *)
ProofShapeOnly(confirmation, finality, id, proof) ==
  proof.wellFormed /\ proof.status # "absent" /\ id = proof.id

(* _validate_confirmation_proof_contract finds nothing to object to        *)
ProofHolds(confirmation, finality, id, proof) ==
  /\ proof.wellFormed
  /\ proof.status # "absent"      \* provider_status must be a string
  /\ confirmation = "confirmed" =>
       proof.status = IF finality = "finalized" THEN "finalized" ELSE "confirmed"
  /\ confirmation = "still_pending" => proof.status \in {"pending", "submitted"}
  /\ confirmation = "rejected_or_dropped" => proof.status \in {"rejected", "dropped"}
  /\ id = proof.id

(* Defect: a rejection may be taken back.                                  *)
TransitionsFromRejected(status) ==
  IF status = "confirmed" THEN {"confirmed"} ELSE ConfirmationStatuses

(* _ALLOWED_CONFIRMATION_TRANSITIONS                                       *)
Transitions(status) ==
  IF status \in {"confirmed", "rejected_or_dropped"} THEN {status} ELSE ConfirmationStatuses
=============================================================================
