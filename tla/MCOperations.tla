---------------------------- MODULE MCOperations ----------------------------
(* Operations with the settings a deployment may have got wrong: every     *)
(* choice of backends, mode and flag with the variables it needs, and such *)
(* a choice with one variable changed, or two of those the code compares   *)
(* with each other or reads outside the boundary, or with a backend or the *)
(* mode left out, left empty or mistyped.                                  *)
EXTENDS Operations

Selections ==
  [manifest : ManifestStores, blob : {"in_memory", "local_fs", "s3"},
   attestation : AttestationBackends, identity : Identities, mode : ExecutionModes,
   enable : BOOLEAN, simulateFailure : {FALSE}, signerPair : {TRUE}]

LeftOut ==
  {[e EXCEPT ![s] = x] : e \in {c \in Selections : c.attestation # "rpc_generic"},
                         s \in Selectors, x \in {"unset", "empty", "mistyped"}}

Complete(e) ==
  [v \in Variables |-> IF v \in RequiredBlob(e) \cup RequiredAttestation(e) THEN "set" ELSE "unset"]

Changed(e) == {[Complete(e) EXCEPT ![v] = x] : v \in Variables, x \in Values}

Compared ==
  {"access_key_ref", "secret_key_ref", "auth_header_name", "auth_header_ref", "signer_ref",
   "signer_key_ref", "max_blob_bytes", "local_root_path"}

ChangedTwice(e) ==
  {[Complete(e) EXCEPT ![v] = x, ![w] = y] : v, w \in Compared, x, y \in Values}

Everything == <<"data_root", "blobs", "manifests">>

Tried ==
  UNION {{[selection |-> e, env |-> env, named |-> {"data_root", "blobs", "manifests"}] :
            env \in Changed(e) \cup ChangedTwice(e)} :
         e \in Selections} \cup
  {[selection |-> e, env |-> [v \in Variables |-> x], named |-> {"data_root", "blobs", "manifests"}] :
     e \in LeftOut, x \in {"unset", "empty"}} \cup
  {[selection |-> [s \in Selectors \cup {"enable", "simulateFailure", "signerPair"} |->
                     IF s \in Selectors THEN "unset" ELSE FALSE],
    env |-> [v \in Variables |-> "unset"], named |-> {"data_root", "manifests"}]}
=============================================================================
