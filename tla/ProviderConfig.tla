--------------------------- MODULE ProviderConfig ---------------------------
(***************************************************************************)
(* The import of routes.py up to the adapters: resolve_adapter_config      *)
(* (adapters/config.py), the provider boundary with its refusals and its   *)
(* redacted report (adapters/provider_config.py), the execution gates and  *)
(* the checks routes.py and the adapters make once more.  Settings are a   *)
(* pair: selection, an environment of AdapterSelection whose backends and  *)
(* mode may also be "unset", "empty" or unknown, and env, which says of    *)
(* every other variable whether it is unset, set to "" or set to something *)
(* valid.  PORT is left out: only the entry point reads it, after this.    *)
(***************************************************************************)
EXTENDS AdapterSelection

BlobFields ==
  {"provider", "bucket", "region", "endpoint_url", "local_root_path", "access_key_ref",
   "secret_key_ref"}
AttestationFields ==
  {"target_network", "rpc_url", "chain_id", "contract_address", "signer_ref", "gas_policy_ref",
   "backend_label", "rpc_submit_method", "rpc_poll_method", "auth_header_name",
   "auth_header_ref", "auth_header_prefix"}
Fields == BlobFields \cup AttestationFields

ForbiddenRaw ==
  {"BLOB_ACCESS_KEY", "BLOB_SECRET_KEY", "ATTESTATION_SIGNER_KEY", "ATTESTATION_SIGNER_RAW",
   "ATTESTATION_AUTH_HEADER_VALUE"}

(* The variables: one per field, the older name of signer_ref, those that  *)
(* must not be set, and MAX_BLOB_BYTES.                                    *)
Variables == Fields \cup {"signer_key_ref", "max_blob_bytes"} \cup ForbiddenRaw
Values == {"unset", "empty", "set"}

Given(cfg, f) == cfg[f] = "set"
AllGiven(cfg, fs) == \A f \in fs : Given(cfg, f)
SomeGiven(cfg, fs) == \E f \in fs : Given(cfg, f)

(* Defect: the older name counts only when the newer one is not there.     *)
LoadedHidingTheOlderName(env) ==
  [f \in Fields |-> IF f = "signer_ref" /\ env[f] = "unset" THEN env["signer_key_ref"] ELSE env[f]]

(* load_provider_config_boundary                                           *)
Loaded(env) ==
  [f \in Fields |-> IF f = "signer_ref" /\ env[f] # "set" THEN env["signer_key_ref"] ELSE env[f]]

-----------------------------------------------------------------------------
(* Backends and mode: the defaults, and what is refused                    *)

Or(value, default) == IF value = "unset" THEN default ELSE value

(* env.get(name, default): the default is for a variable that is not set.  *)
Resolved(raw) ==
  [manifest    |-> Or(raw.manifest, "in_memory"), blob     |-> Or(raw.blob, "in_memory"),
   attestation |-> Or(raw.attestation, "fake"),   identity |-> Or(raw.identity, "static"),
   mode        |-> Or(raw.mode, "dry_run"),       enable   |-> raw.enable,
   simulateFailure |-> raw.simulateFailure,       signerPair |-> raw.signerPair]

Unsupported ==
  {"unsupported_manifest_store_backend", "unsupported_blob_storage_backend",
   "unsupported_attestation_backend", "unsupported_identity_backend",
   "unsupported_adapter_execution_mode"}

ResolveError(e) ==
  IF e.manifest \notin ManifestStores THEN "unsupported_manifest_store_backend"
  ELSE IF e.blob \notin BlobBackends THEN "unsupported_blob_storage_backend"
  ELSE IF e.attestation \notin AttestationBackends THEN "unsupported_attestation_backend"
  ELSE IF e.identity \notin Identities THEN "unsupported_identity_backend"
  ELSE IF e.mode \notin ExecutionModes THEN "unsupported_adapter_execution_mode"
  ELSE IF ~startup_allowed(e) THEN "forbidden_backend_execution_combination"
  ELSE "ok"

-----------------------------------------------------------------------------
(* Fields that contradict a backend, and fields a backend needs            *)

(* A backend that runs inside the process has no provider settings.        *)
Unwanted(e) ==
  (IF e.blob = "in_memory" THEN BlobFields ELSE {}) \cup
  (IF e.attestation = "fake" THEN AttestationFields ELSE {})

(* Settings of the other chain backend.                                    *)
Misplaced(e) ==
  CASE e.attestation = "fake"            -> {}
    [] e.attestation = "thronos_network" -> {"backend_label", "rpc_submit_method", "rpc_poll_method"}
    [] e.attestation = "rpc_generic"     -> {"contract_address"}

RequiredBlob(e) ==
  CASE e.blob = "in_memory" -> {}
    [] e.blob = "local_fs"  -> {"local_root_path"}
    [] OTHER                -> {"provider", "bucket", "region"}

(* Defect: the Thronos and RPC backends were given one list of fields.     *)
RequiredAttestationShared(e) ==
  IF e.attestation = "fake" THEN {} ELSE {"target_network", "rpc_url", "chain_id", "signer_ref"}

RequiredAttestation(e) ==
  CASE e.attestation = "fake" -> {}
    [] e.attestation = "thronos_network" ->
         {"target_network", "rpc_url", "chain_id", "contract_address", "signer_ref"}
    [] e.attestation = "rpc_generic" ->
         {"target_network", "rpc_url", "chain_id", "signer_ref", "backend_label",
          "rpc_submit_method"}

(* The pair is compared with None, the header pair as true or false: an    *)
(* empty reference to a key counts as one.                                 *)
KeyPairBroken(cfg) == (cfg["access_key_ref"] = "unset") # (cfg["secret_key_ref"] = "unset")
HeaderPairBroken(cfg) == Given(cfg, "auth_header_name") # Given(cfg, "auth_header_ref")

(* validate_consistency, then validate_completeness.  Contradictions are   *)
(* one code here; the source has one for each backend.                     *)
BoundaryError(e, env) ==
  LET cfg == Loaded(env) IN
  IF SomeGiven(env, ForbiddenRaw) THEN "forbidden_plaintext_secret"
  ELSE IF SomeGiven(cfg, Unwanted(e)) THEN "contradictory"
  ELSE IF KeyPairBroken(cfg) THEN "incomplete_blob_secret_ref_pair"
  ELSE IF SomeGiven(cfg, Misplaced(e)) THEN "contradictory"
  ELSE IF HeaderPairBroken(cfg) THEN "incomplete_attestation_auth_header_pair"
  ELSE IF ~AllGiven(cfg, RequiredBlob(e)) THEN "incomplete_blob_provider_config"
  ELSE IF ~AllGiven(cfg, RequiredAttestation(e)) THEN "incomplete_attestation_provider_config"
  ELSE "ok"

(* Building the adapters: what routes.py checks once more before each, and *)
(* what the constructor of the blob storage reads for itself.              *)
AdapterError(e, env) ==
  LET cfg == Loaded(env) IN
  IF e.blob = "local_fs" /\ ~Given(cfg, "local_root_path") THEN "blob_local_root_required"
  ELSE IF e.blob = "local_fs" /\ env["max_blob_bytes"] = "empty" THEN "invalid_max_blob_bytes"
  ELSE IF /\ e.attestation = "rpc_generic"
          /\ ~AllGiven(cfg, {"rpc_url", "chain_id", "signer_ref", "target_network",
                             "backend_label", "rpc_submit_method"})
       THEN "incomplete_rpc_generic_attestation_provider_config"
  ELSE IF /\ e.attestation = "thronos_network" /\ execution_enabled(e)
          /\ ~AllGiven(cfg, {"rpc_url", "chain_id", "contract_address", "signer_ref",
                             "target_network"})
       THEN "incomplete_thronos_attestation_provider_config"
  ELSE "ok"

Rechecks ==
  {"blob_local_root_required", "incomplete_rpc_generic_attestation_provider_config",
   "incomplete_thronos_attestation_provider_config"}

(* Defect: a gate that failed turns real execution off instead.            *)
StartErrorFailingOpen(e, env) ==
  IF ResolveError(e) # "ok" THEN ResolveError(e)
  ELSE IF BoundaryError(e, env) # "ok" THEN BoundaryError(e, env)
  ELSE AdapterError(e, env)

(* The import: "ok", or why the process does not start.                    *)
StartError(e, env) ==
  IF ResolveError(e) # "ok" THEN ResolveError(e)
  ELSE IF BoundaryError(e, env) # "ok" THEN BoundaryError(e, env)
  ELSE IF e.enable /\ ~execution_enabled(e) THEN "real_execution_gate_denied"
  ELSE AdapterError(e, env)

-----------------------------------------------------------------------------
(* to_redacted_dict, as /v1/config and /v1/capabilities show it.  The      *)
(* gas_policy_ref is shown as it is (provider_config.py 198), although     *)
(* docs/m6 shows *_REF fields redacted only.                               *)
RedactedReport(cfg) ==
  [f \in Fields |->
     IF f \in {"access_key_ref", "secret_key_ref", "signer_ref", "auth_header_ref"}
     THEN IF Given(cfg, f) THEN "redacted" ELSE "unset"
     ELSE cfg[f]]
=============================================================================
