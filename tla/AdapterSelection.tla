-------------------------- MODULE AdapterSelection --------------------------
(***************************************************************************)
(* The wiring a process is left with when routes.py has been imported:     *)
(* adapters/config.py (allow-lists and the execution policy),              *)
(* adapters/execution_gating.py (the gates) and the adapter selection at   *)
(* the top of routes.py, as functions of the environment it starts in.     *)
(*                                                                         *)
(* An environment is a record: the four backends, the execution mode, the  *)
(* ENABLE_REAL_EXECUTION and SIMULATE_ATTESTATION_FAILURE flags, and       *)
(* whether the signer reference has the "<pubkey>::<signature>" form       *)
(* without which the Thronos adapter cannot build a request body.  The     *)
(* other provider settings are complete: the provider boundary refuses to  *)
(* start otherwise (load_provider_config_boundary).                        *)
(***************************************************************************)

ManifestStores == {"in_memory"}
Identities == {"static"}
BlobBackends == {"in_memory", "local_fs", "s3", "gcs", "azure_blob"}
CloudLikeBlob == {"s3", "gcs", "azure_blob"}
AttestationBackends == {"fake", "thronos_network", "rpc_generic"}
ExecutionModes == {"dry_run", "execute"}

Environments ==
  [manifest : ManifestStores, blob : BlobBackends, attestation : AttestationBackends,
   identity : Identities, mode : ExecutionModes, enable : BOOLEAN, simulateFailure : BOOLEAN,
   signerPair : BOOLEAN]

blob_policy_allowed(backend, mode) ==
  backend \in CloudLikeBlob => mode = "dry_run"

attestation_policy_allowed(backend, mode) ==
  backend \in AttestationBackends /\ mode \in ExecutionModes

startup_allowed(e) == /\ blob_policy_allowed(e.blob, e.mode)
                      /\ attestation_policy_allowed(e.attestation, e.mode)

(* routes.py passes True for the two provider gates, which leaves the mode *)
(* and the policy.                                                         *)
execution_ready(e) == e.mode = "execute" /\ startup_allowed(e)

execution_enabled(e) == e.enable /\ execution_ready(e)

(* The import succeeds: the policy allows the pairs, and an operator who   *)
(* asked for real execution gets it (real_execution_gate_denied).          *)
Starts(e) == startup_allowed(e) /\ (e.enable => execution_enabled(e))

(* _ATTESTATION.  "thronos_unsigned" is the real Thronos adapter whose     *)
(* signer reference carries no signature, "dry_run_chain_exec" the dry-run *)
(* chain adapter with exec_enabled, which refuses every submission.        *)
AttestationAdapter(e) ==
  CASE e.attestation = "fake" -> "fake"
    [] e.attestation = "rpc_generic" ->
         IF execution_enabled(e) THEN "rpc_generic" ELSE "rpc_generic_dry_run"
    [] e.attestation = "thronos_network" /\ execution_enabled(e) ->
         IF e.signerPair THEN "thronos_network" ELSE "thronos_unsigned"
    [] OTHER ->
         IF e.mode = "execute" THEN "dry_run_chain_exec"
         ELSE IF e.simulateFailure THEN "dry_run_chain_failing"
         ELSE "dry_run_chain"

BlobAdapter(e) == IF e.blob \in CloudLikeBlob THEN "cloud_like" ELSE e.blob

(* The orchestrator's constructor arguments.  No retry policy is passed    *)
(* (RetryPolicy's default is one attempt) and the only manifest store the  *)
(* configuration allows is the in-memory one, which raises nothing.        *)
Wired(e) ==
  [executionEnabled |-> execution_enabled(e),
   blob             |-> BlobAdapter(e),
   attestation      |-> AttestationAdapter(e),
   maxAttempts      |-> 1,
   storeRaises      |-> {}]

WiredConfigs == {Wired(e) : e \in {x \in Environments : Starts(x)}}
=============================================================================
