-------------------------- MODULE OperationsProofs --------------------------
(***************************************************************************)
(* Proofs about Operations: what the settings a process starts with imply  *)
(* (lemmas about StartError and RedactedReport, for any variables), the    *)
(* readiness probe on a changing disk, and the diagnosis script.  The      *)
(* invariant has a part for each of the three, and no part mentions the    *)
(* state of another, but that a probe is answered by a serving process.    *)
(***************************************************************************)
EXTENDS Operations, TLAPS

-----------------------------------------------------------------------------
(* Settings                                                                *)

(* What a backend asks for or refuses are fields.                          *)
LEMMA FieldLists ==
  ASSUME NEW e, ResolveError(e) = "ok"
  PROVE  /\ Unwanted(e) \subseteq Fields /\ Misplaced(e) \subseteq Fields
         /\ RequiredBlob(e) \subseteq Fields /\ RequiredAttestation(e) \subseteq Fields
<1>1. e.attestation \in AttestationBackends
  BY DEF ResolveError
<1>2. CASE e.attestation = "fake"
  BY <1>2 DEF Unwanted, Misplaced, RequiredBlob, RequiredAttestation, Fields, BlobFields,
              AttestationFields
<1>3. CASE e.attestation = "thronos_network"
  BY <1>3 DEF Unwanted, Misplaced, RequiredBlob, RequiredAttestation, Fields, BlobFields,
              AttestationFields
<1>4. CASE e.attestation = "rpc_generic"
  BY <1>4 DEF Unwanted, Misplaced, RequiredBlob, RequiredAttestation, Fields, BlobFields,
              AttestationFields
<1> QED
  BY <1>1, <1>2, <1>3, <1>4 DEF AttestationBackends

(* The checks of routes.py follow from those of the boundary, which leaves *)
(* what the blob storage reads for itself.                                 *)
LEMMA RechecksImplied ==
  ASSUME NEW e, NEW env, ResolveError(e) = "ok", BoundaryError(e, env) = "ok"
  PROVE  AdapterError(e, env) = IF e.blob = "local_fs" /\ env["max_blob_bytes"] = "empty"
                                THEN "invalid_max_blob_bytes" ELSE "ok"
<1> DEFINE cfg == Loaded(env)
<1>1. AllGiven(cfg, RequiredBlob(e)) /\ AllGiven(cfg, RequiredAttestation(e))
  BY DEF BoundaryError
<1> HIDE DEF cfg
<1>2. e.blob = "local_fs" => Given(cfg, "local_root_path")
  BY <1>1 DEF RequiredBlob, AllGiven
<1>3. e.attestation = "rpc_generic" =>
        AllGiven(cfg, {"rpc_url", "chain_id", "signer_ref", "target_network", "backend_label",
                       "rpc_submit_method"})
  BY <1>1 DEF RequiredAttestation, AllGiven
<1>4. e.attestation = "thronos_network" =>
        AllGiven(cfg, {"rpc_url", "chain_id", "contract_address", "signer_ref", "target_network"})
  BY <1>1 DEF RequiredAttestation, AllGiven
<1> QED
  BY <1>2, <1>3, <1>4 DEF AdapterError, cfg

LEMMA NoRecheckStops ==
  ASSUME NEW e, NEW env
  PROVE  StartError(e, env) \notin Rechecks
<1>1. CASE ResolveError(e) # "ok"
  BY <1>1 DEF StartError, ResolveError, Rechecks
<1>2. CASE ResolveError(e) = "ok" /\ BoundaryError(e, env) # "ok"
  <2>1. StartError(e, env) = BoundaryError(e, env)
    BY <1>2 DEF StartError
  <2> QED
    BY <2>1 DEF BoundaryError, Rechecks
<1>3. CASE ResolveError(e) = "ok" /\ BoundaryError(e, env) = "ok"
  <2>1. AdapterError(e, env) \in {"ok", "invalid_max_blob_bytes"}
    BY <1>3, RechecksImplied
  <2> QED
    BY <1>3, <2>1 DEF StartError, Rechecks
<1> QED
  BY <1>1, <1>2, <1>3

(* What a process that starts was asked for and given.                     *)
LEMMA StartedWith ==
  ASSUME NEW e, NEW env, StartError(e, env) = "ok"
  PROVE  /\ ResolveError(e) = "ok" /\ BoundaryError(e, env) = "ok"
         /\ startup_allowed(e) /\ (e.enable => execution_enabled(e))
         /\ ~SomeGiven(env, ForbiddenRaw)
         /\ AllGiven(Loaded(env), RequiredAttestation(e))
<1>1. ResolveError(e) = "ok" /\ BoundaryError(e, env) = "ok"
  BY DEF StartError
<1>2. e.enable => execution_enabled(e)
  BY <1>1 DEF StartError
<1>3. startup_allowed(e)
  BY <1>1 DEF ResolveError
<1>4. ~SomeGiven(env, ForbiddenRaw) /\ AllGiven(Loaded(env), RequiredAttestation(e))
  BY <1>1 DEF BoundaryError
<1> QED
  BY <1>1, <1>2, <1>3, <1>4

(* An empty variable and one that is not set give the same fields.         *)
LEMMA EmptyIsNotGiven ==
  ASSUME NEW env \in [Variables -> Values], NEW f \in Fields
  PROVE  Given(Loaded(Unset(env)), f) = Given(Loaded(env), f)
<1>1. Fields \subseteq Variables /\ "signer_key_ref" \in Variables
  BY DEF Variables
<1>2. \A v \in Variables : (Unset(env)[v] = "set") = (env[v] = "set")
  BY DEF Unset
<1>3. CASE f = "signer_ref"
  BY <1>1, <1>2, <1>3 DEF Given, Loaded
<1>4. CASE f # "signer_ref"
  BY <1>1, <1>2, <1>4 DEF Given, Loaded
<1> QED
  BY <1>3, <1>4

(* The one comparison with None that tells them apart.                     *)
LEMMA EmptyKeyPair ==
  ASSUME NEW env \in [Variables -> Values],
         ~ \E f, g \in {"access_key_ref", "secret_key_ref"} : env[f] = "empty" /\ env[g] # "empty"
  PROVE  KeyPairBroken(Loaded(Unset(env))) = KeyPairBroken(Loaded(env))
<1> DEFINE a == env["access_key_ref"]
           s == env["secret_key_ref"]
<1>1. "access_key_ref" \in Fields /\ "secret_key_ref" \in Fields /\ Fields \subseteq Variables
  BY DEF Fields, BlobFields, Variables
<1>2. /\ Loaded(env)["access_key_ref"] = a /\ Loaded(env)["secret_key_ref"] = s
      /\ Loaded(Unset(env))["access_key_ref"] = (IF a = "empty" THEN "unset" ELSE a)
      /\ Loaded(Unset(env))["secret_key_ref"] = (IF s = "empty" THEN "unset" ELSE s)
  BY <1>1 DEF Loaded, Unset
<1>3. (a = "empty") <=> (s = "empty")
  OBVIOUS
<1> HIDE DEF a, s
<1>4. CASE a = "empty"
  BY <1>2, <1>3, <1>4 DEF KeyPairBroken
<1>5. CASE a # "empty"
  BY <1>2, <1>3, <1>5 DEF KeyPairBroken
<1> QED
  BY <1>4, <1>5

(* An empty provider variable: what the boundary makes of it, part by part. *)
LEMMA EmptyAtTheBoundary ==
  ASSUME NEW e, NEW env \in [Variables -> Values], ResolveError(e) = "ok"
  PROVE  \/ BoundaryError(e, Unset(env)) = BoundaryError(e, env)
         \/ /\ \E f, g \in {"access_key_ref", "secret_key_ref"} :
                 env[f] = "empty" /\ env[g] # "empty"
            /\ \/ BoundaryError(e, env) = "incomplete_blob_secret_ref_pair"
               \/ BoundaryError(e, Unset(env)) = "incomplete_blob_secret_ref_pair"
<1> DEFINE cfg == Loaded(env)
           cfu == Loaded(Unset(env))
<1>1. \A f \in Fields : Given(cfu, f) = Given(cfg, f)
  BY EmptyIsNotGiven
<1>2. SomeGiven(Unset(env), ForbiddenRaw) = SomeGiven(env, ForbiddenRaw)
  <2>1. ForbiddenRaw \subseteq Variables
    BY DEF Variables
  <2>2. \A v \in ForbiddenRaw : Given(Unset(env), v) = Given(env, v)
    BY <2>1 DEF Given, Unset
  <2> QED
    BY <2>2 DEF SomeGiven
<1>3. KeyPairBroken(cfu) = KeyPairBroken(cfg) \/
      \E f, g \in {"access_key_ref", "secret_key_ref"} : env[f] = "empty" /\ env[g] # "empty"
  BY EmptyKeyPair
<1>4. KeyPairBroken(cfu) \in BOOLEAN /\ KeyPairBroken(cfg) \in BOOLEAN
  BY DEF KeyPairBroken
<1> HIDE DEF cfg, cfu
<1>5. \A fs \in SUBSET Fields : /\ SomeGiven(cfu, fs) = SomeGiven(cfg, fs)
                                /\ AllGiven(cfu, fs) = AllGiven(cfg, fs)
  BY <1>1 DEF SomeGiven, AllGiven
<1>6. HeaderPairBroken(cfu) = HeaderPairBroken(cfg)
  <2>1. "auth_header_name" \in Fields /\ "auth_header_ref" \in Fields
    BY DEF Fields, AttestationFields
  <2> QED
    BY <1>1, <2>1 DEF HeaderPairBroken
<1>7. /\ SomeGiven(cfu, Unwanted(e)) = SomeGiven(cfg, Unwanted(e))
      /\ SomeGiven(cfu, Misplaced(e)) = SomeGiven(cfg, Misplaced(e))
      /\ AllGiven(cfu, RequiredBlob(e)) = AllGiven(cfg, RequiredBlob(e))
      /\ AllGiven(cfu, RequiredAttestation(e)) = AllGiven(cfg, RequiredAttestation(e))
  BY <1>5, FieldLists
<1>8. CASE KeyPairBroken(cfu) = KeyPairBroken(cfg)
  BY <1>2, <1>6, <1>7, <1>8 DEF BoundaryError, cfg, cfu
<1>9. CASE KeyPairBroken(cfu) # KeyPairBroken(cfg)
  <2>1. CASE SomeGiven(env, ForbiddenRaw) \/ SomeGiven(cfg, Unwanted(e))
    BY <1>2, <1>7, <2>1 DEF BoundaryError, cfg, cfu
  <2>2. CASE ~SomeGiven(env, ForbiddenRaw) /\ ~SomeGiven(cfg, Unwanted(e))
    <3>1. KeyPairBroken(cfg) => BoundaryError(e, env) = "incomplete_blob_secret_ref_pair"
      BY <2>2 DEF BoundaryError, cfg
    <3>2. KeyPairBroken(cfu) => BoundaryError(e, Unset(env)) = "incomplete_blob_secret_ref_pair"
      BY <1>2, <1>7, <2>2 DEF BoundaryError, cfu
    <3> QED
      BY <1>3, <1>4, <1>9, <3>1, <3>2
  <2> QED
    BY <2>1, <2>2
<1> QED
  BY <1>8, <1>9

LEMMA EmptyDecides ==
  ASSUME NEW e, NEW env \in [Variables -> Values]
  PROVE  \/ StartError(e, env) = StartError(e, Unset(env))
         \/ /\ env["max_blob_bytes"] = "empty" /\ e.blob = "local_fs"
            /\ StartError(e, env) = "invalid_max_blob_bytes"
         \/ /\ \E f, g \in {"access_key_ref", "secret_key_ref"} :
                 env[f] = "empty" /\ env[g] # "empty"
            /\ "incomplete_blob_secret_ref_pair" \in
                 {StartError(e, env), StartError(e, Unset(env))}
<1>1. CASE ResolveError(e) # "ok"
  BY <1>1 DEF StartError
<1>2. CASE ResolveError(e) = "ok" /\ BoundaryError(e, Unset(env)) # BoundaryError(e, env)
  <2>1. \/ BoundaryError(e, env) = "incomplete_blob_secret_ref_pair"
        \/ BoundaryError(e, Unset(env)) = "incomplete_blob_secret_ref_pair"
    BY <1>2, EmptyAtTheBoundary
  <2>2. /\ BoundaryError(e, env) # "ok" => StartError(e, env) = BoundaryError(e, env)
        /\ BoundaryError(e, Unset(env)) # "ok"
             => StartError(e, Unset(env)) = BoundaryError(e, Unset(env))
    BY <1>2 DEF StartError
  <2> QED
    BY <1>2, <2>1, <2>2, EmptyAtTheBoundary
<1>3. CASE /\ ResolveError(e) = "ok" /\ BoundaryError(e, Unset(env)) = BoundaryError(e, env)
           /\ BoundaryError(e, env) # "ok"
  BY <1>3 DEF StartError
<1>4. CASE /\ ResolveError(e) = "ok" /\ BoundaryError(e, Unset(env)) = "ok"
           /\ BoundaryError(e, env) = "ok"
  <2>1. Unset(env)["max_blob_bytes"] # "empty"
    BY DEF Unset, Variables
  <2>2. AdapterError(e, Unset(env)) = "ok"
    BY <1>4, <2>1, RechecksImplied
  <2>3. AdapterError(e, env) = IF e.blob = "local_fs" /\ env["max_blob_bytes"] = "empty"
                               THEN "invalid_max_blob_bytes" ELSE "ok"
    BY <1>4, RechecksImplied
  <2> QED
    BY <1>4, <2>2, <2>3 DEF StartError
<1> QED
  BY <1>1, <1>2, <1>3, <1>4

(* A backend or a mode set to "" is refused.                               *)
LEMMA EmptySelects ==
  ASSUME NEW raw, NEW env, \E s \in Selectors : raw[s] = "empty"
  PROVE  StartError(Resolved(raw), env) \in Unsupported
<1> DEFINE e == Resolved(raw)
<1>1. /\ raw.manifest = "empty" => e.manifest \notin ManifestStores
      /\ raw.blob = "empty" => e.blob \notin BlobBackends
      /\ raw.attestation = "empty" => e.attestation \notin AttestationBackends
      /\ raw.identity = "empty" => e.identity \notin Identities
      /\ raw.mode = "empty" => e.mode \notin ExecutionModes
  BY DEF Resolved, Or, ManifestStores, BlobBackends, AttestationBackends, Identities,
         ExecutionModes
<1>2. \/ raw.manifest = "empty" \/ raw.blob = "empty" \/ raw.attestation = "empty"
      \/ raw.identity = "empty" \/ raw.mode = "empty"
  BY DEF Selectors
<1> HIDE DEF e
<1>3. ResolveError(e) \in Unsupported
  BY <1>1, <1>2 DEF ResolveError, Unsupported
<1>4. ResolveError(e) # "ok"
  BY <1>3 DEF Unsupported
<1> QED
  BY <1>3, <1>4 DEF StartError, e

LEMMA ReportTyped ==
  ASSUME NEW env \in [Variables -> Values]
  PROVE  RedactedReport(Loaded(env)) \in [Fields -> Values \cup {"redacted"}]
<1>1. Fields \subseteq Variables /\ "signer_key_ref" \in Variables
  BY DEF Variables
<1>2. Loaded(env) \in [Fields -> Values]
  BY <1>1 DEF Loaded
<1> QED
  BY <1>2 DEF RedactedReport, Values

(* What AskedMeansEnabled says of a process, for any settings.             *)
LEMMA AskedAndStarted ==
  ASSUME NEW e, NEW env, e.enable \in BOOLEAN, StartError(e, env) = "ok"
  PROVE  LET w == Wired(e)
             report == RedactedReport(Loaded(env))
         IN /\ w.executionEnabled = e.enable
            /\ (w.attestation \in {"thronos_network", "thronos_unsigned", "rpc_generic"}) =
                 (e.enable /\ e.attestation # "fake")
            /\ e.enable => /\ e.mode = "execute" /\ w.blob # "cloud_like"
                           /\ e.attestation # "fake" => report["rpc_url"] = "set"
                                                        /\ report["signer_ref"] = "redacted"
<1>1. /\ startup_allowed(e) /\ (e.enable => execution_enabled(e))
      /\ AllGiven(Loaded(env), RequiredAttestation(e)) /\ ResolveError(e) = "ok"
  BY StartedWith
<1>2. execution_enabled(e) = e.enable
  BY <1>1 DEF execution_enabled, execution_ready
<1>3. e.attestation \in AttestationBackends
  BY <1>1 DEF ResolveError
<1>4. (AttestationAdapter(e) \in {"thronos_network", "thronos_unsigned", "rpc_generic"}) =
        (e.enable /\ e.attestation # "fake")
  <2>1. CASE e.attestation = "fake"
    BY <2>1 DEF AttestationAdapter
  <2>2. CASE e.attestation = "rpc_generic"
    BY <1>2, <2>2 DEF AttestationAdapter
  <2>3. CASE e.attestation = "thronos_network"
    BY <1>2, <2>3 DEF AttestationAdapter
  <2> QED
    BY <1>3, <2>1, <2>2, <2>3 DEF AttestationBackends
<1>5. e.enable => e.mode = "execute" /\ BlobAdapter(e) # "cloud_like"
  <2> SUFFICES ASSUME e.enable
               PROVE  e.mode = "execute" /\ BlobAdapter(e) # "cloud_like"
    OBVIOUS
  <2>1. e.mode = "execute"
    BY <1>1 DEF execution_enabled, execution_ready
  <2>2. e.blob \in BlobBackends /\ e.blob \notin CloudLikeBlob
    BY <1>1, <2>1 DEF startup_allowed, blob_policy_allowed, ResolveError
  <2> QED
    BY <2>1, <2>2 DEF BlobAdapter, BlobBackends, CloudLikeBlob
<1>6. e.attestation # "fake" => /\ RedactedReport(Loaded(env))["rpc_url"] = "set"
                                /\ RedactedReport(Loaded(env))["signer_ref"] = "redacted"
  <2> SUFFICES ASSUME e.attestation # "fake"
               PROVE  /\ RedactedReport(Loaded(env))["rpc_url"] = "set"
                      /\ RedactedReport(Loaded(env))["signer_ref"] = "redacted"
    OBVIOUS
  <2>1. {"rpc_url", "signer_ref"} \subseteq RequiredAttestation(e)
    BY <1>3 DEF RequiredAttestation, AttestationBackends
  <2>2. Given(Loaded(env), "rpc_url") /\ Given(Loaded(env), "signer_ref")
    BY <1>1, <2>1 DEF AllGiven
  <2>3. "rpc_url" \in Fields /\ "signer_ref" \in Fields
    BY DEF Fields, AttestationFields
  <2> QED
    BY <2>2, <2>3 DEF RedactedReport, Given
<1> QED
  BY <1>2, <1>4, <1>5, <1>6 DEF Wired

-----------------------------------------------------------------------------
(* The process                                                             *)

(* What is recorded of a process is what its settings lead to.             *)
StartOf(d) ==
  /\ process.settings = d /\ process.report = RedactedReport(Loaded(d.env))
  /\ \/ /\ process.state = "imported"
        /\ StartError(Resolved(d.selection), d.env) = "ok"
     \/ /\ process.state = "refused"
        /\ process.error \in {StartError(Resolved(d.selection), d.env), "blob_root_blocked"}

ProcessOK ==
  \/ process = NoProcess
  \/ process.state = "serving" /\ process.named \subseteq Paths
  \/ \E d \in Deployments : StartOf(d)

LEMMA ProcessSafe ==
  ASSUME ProcessOK
  PROVE  RechecksNeverFire /\ EmptyCountsAsUnset /\ AskedMeansEnabled
<1>1. CASE process = NoProcess \/ process.state = "serving"
  BY <1>1 DEF NoProcess, RechecksNeverFire, EmptyCountsAsUnset, AskedMeansEnabled
<1>2. ASSUME NEW d \in Deployments, StartOf(d)
      PROVE  RechecksNeverFire /\ EmptyCountsAsUnset /\ AskedMeansEnabled
  <2>1. d.env \in [Variables -> Values] /\ d.selection.enable \in BOOLEAN
    BY StartupAssumption
  <2>2. RechecksNeverFire
    <3>1. StartError(Resolved(d.selection), d.env) \notin Rechecks
      BY NoRecheckStops
    <3>2. "blob_root_blocked" \notin Rechecks
      BY DEF Rechecks
    <3> QED
      BY <1>2, <3>1, <3>2 DEF StartOf, RechecksNeverFire
  <2>3. EmptyCountsAsUnset
    <3>1. process.settings = d
      BY <1>2 DEF StartOf
    <3>2. CASE \E s \in Selectors : d.selection[s] = "empty"
      BY <3>1, <3>2, EmptySelects DEF EmptyCountsAsUnset
    <3>3. CASE ~ \E s \in Selectors : d.selection[s] = "empty"
      <4> DEFINE e == Resolved(d.selection)
      <4>1. \/ StartError(e, d.env) = StartError(e, Unset(d.env))
            \/ /\ d.env["max_blob_bytes"] = "empty" /\ e.blob = "local_fs"
               /\ StartError(e, d.env) = "invalid_max_blob_bytes"
            \/ /\ \E f, g \in {"access_key_ref", "secret_key_ref"} :
                    d.env[f] = "empty" /\ d.env[g] # "empty"
               /\ "incomplete_blob_secret_ref_pair" \in
                    {StartError(e, d.env), StartError(e, Unset(d.env))}
        BY <2>1, EmptyDecides
      <4> QED
        BY <3>1, <3>3, <4>1 DEF EmptyCountsAsUnset
    <3> QED
      BY <3>2, <3>3
  <2>4. AskedMeansEnabled
    <3> SUFFICES ASSUME process.state = "imported"
                 PROVE  AskedMeansEnabled
      BY DEF AskedMeansEnabled
    <3>1. process.settings = d /\ process.report = RedactedReport(Loaded(d.env))
          /\ StartError(Resolved(d.selection), d.env) = "ok"
      BY <1>2 DEF StartOf
    <3>2. Resolved(d.selection).enable \in BOOLEAN
      BY <2>1 DEF Resolved
    <3> QED
      BY <3>1, <3>2, AskedAndStarted DEF AskedMeansEnabled
  <2> QED
    BY <2>2, <2>3, <2>4
<1> QED
  BY <1>1, <1>2 DEF ProcessOK

-----------------------------------------------------------------------------
(* The readiness probe                                                     *)

LEMMA PathFacts ==
  /\ Len(RequiredPaths) \in Nat /\ Len(RequiredPaths) > 1
  /\ \A i \in 1..Len(RequiredPaths) : RequiredPaths[i] \in Paths
  /\ \A p \in Paths : \E i \in 1..Len(RequiredPaths) : p = RequiredPaths[i]
  /\ DataRoot \in Paths /\ BlobRoot \in Paths
<1>1. RequiredPaths \in Seq(Paths) /\ Len(RequiredPaths) > 1
  BY StartupAssumption
<1>2. Len(RequiredPaths) \in Nat /\ DOMAIN RequiredPaths = 1..Len(RequiredPaths)
  BY <1>1
<1>3. \A i \in 1..Len(RequiredPaths) : RequiredPaths[i] \in Paths
  BY <1>1, <1>2
<1>4. \A p \in Paths : \E i \in 1..Len(RequiredPaths) : p = RequiredPaths[i]
  BY <1>2 DEF Paths, ToSet
<1> QED
  BY <1>1, <1>2, <1>3, <1>4 DEF DataRoot, BlobRoot

CheckType ==
  [at : 0..Len(RequiredPaths), step : {"exists", "is_dir"},
   answer : {"none", "ready", "missing_env", "missing_path", "path_not_directory", "raised"},
   path : Paths, seen : [Paths -> SUBSET Kinds]]

(* A path the probe has passed.                                            *)
Passed(p) == p \in process.named /\ "directory" \in check.seen[p]

CheckOK ==
  /\ disk \in Disks /\ check \in CheckType
  /\ process.state # "serving" => check = NoCheck
  /\ check.at # 0 =>
       /\ check.answer = "none"
       /\ \A p \in Paths : disk[p] \in check.seen[p]
       /\ \A i \in 1..Len(RequiredPaths) : i < check.at => Passed(RequiredPaths[i])
       /\ check.step = "is_dir" =>
            /\ RequiredPaths[check.at] \in process.named
            /\ \E k \in check.seen[RequiredPaths[check.at]] : k \in {"file", "directory"}
  /\ ReadinessHonest

LEMMA NoCheckOK ==
  NoCheck \in CheckType /\ (check = NoCheck => ReadinessHonest)
<1>1. NoCheck \in CheckType
  BY PathFacts DEF NoCheck, CheckType
<1> QED
  BY <1>1 DEF NoCheck, ReadinessHonest

(* A new look at the disk is one more thing seen.                          *)
LEMMA DiskChangeSafe ==
  ASSUME CheckOK, NEW now \in Disks, Becomes(now), UNCHANGED process
  PROVE  CheckOK'
<1> USE DEF CheckOK
<1>1. disk' = now /\ now \in [Paths -> Kinds]
  BY DEF Becomes, Disks
<1>2. CASE check.at = 0
  <2>1. check' = check
    BY <1>2 DEF Becomes
  <2> QED
    BY <1>1, <1>2, <2>1 DEF ReadinessHonest, Disks
<1>3. CASE check.at # 0
  <2>1. check' = [check EXCEPT !.seen = [p \in Paths |-> @[p] \cup {now[p]}]]
    BY <1>3 DEF Becomes
  <2>2. /\ check' \in CheckType /\ check'.at = check.at /\ check'.step = check.step
        /\ check'.answer = "none"
        /\ \A p \in Paths : check'.seen[p] = check.seen[p] \cup {now[p]}
    BY <1>1, <1>3, <2>1 DEF CheckType
  <2>3. process.state = "serving"
    BY <1>3 DEF NoCheck
  <2>4. \A i \in 1..Len(RequiredPaths) : i < check.at => Passed(RequiredPaths[i])'
    BY <1>3, <2>2, PathFacts DEF Passed
  <2>5. check.step = "is_dir" =>
          \E k \in check'.seen[RequiredPaths[check.at]] : k \in {"file", "directory"}
    BY <1>3, <2>2, PathFacts DEF CheckType
  <2>6. ReadinessHonest'
    BY <2>2 DEF ReadinessHonest
  <2> QED
    BY <1>1, <1>3, <2>2, <2>3, <2>4, <2>5, <2>6
<1> QED
  BY <1>2, <1>3

LEMMA BeginCheckSafe ==
  ASSUME CheckOK, BeginCheck
  PROVE  CheckOK'
<1>1. /\ process.state = "serving" /\ process' = process /\ disk' = disk
      /\ check' = [at |-> 1, step |-> "exists", answer |-> "none", path |-> DataRoot,
                   seen |-> [p \in Paths |-> {disk[p]}]]
  BY DEF BeginCheck
<1>2. disk \in [Paths -> Kinds]
  BY DEF CheckOK, Disks
<1>3. check' \in CheckType
  BY <1>1, <1>2, PathFacts DEF CheckType
<1>4. \A p \in Paths : disk'[p] \in check'.seen[p]
  BY <1>1
<1>5. ReadinessHonest'
  BY <1>1 DEF ReadinessHonest
<1>6. \A i \in 1..Len(RequiredPaths) : ~(i < check'.at)
  BY <1>1
<1>7. disk' \in Disks
  BY <1>1 DEF CheckOK
<1> QED
  BY <1>1, <1>3, <1>4, <1>5, <1>6, <1>7 DEF CheckOK

LEMMA LookSafe ==
  ASSUME CheckOK, Look
  PROVE  CheckOK'
<1> DEFINE p == RequiredPaths[check.at]
<1>1. /\ check.at # 0 /\ check.answer = "none" /\ check \in CheckType /\ process.state = "serving"
      /\ \A q \in Paths : disk[q] \in check.seen[q]
      /\ \A i \in 1..Len(RequiredPaths) : i < check.at => Passed(RequiredPaths[i])
      /\ process' = process /\ disk' = disk /\ disk \in Disks
  BY DEF CheckOK, Look, NoCheck
<1>2. /\ check.at \in 1..Len(RequiredPaths) /\ p \in Paths
      /\ check.seen \in [Paths -> SUBSET Kinds]
  BY <1>1, PathFacts DEF CheckType
<1>3. disk' \in Disks /\ (process'.state # "serving" => check' = NoCheck)
  BY <1>1
<1> HIDE DEF p
(* An answer: only what it says has to be shown.                           *)
<1>4. ASSUME NEW code \in {"missing_env", "missing_path", "path_not_directory", "raised"},
             Answered(code),
             \/ code = "missing_env" /\ p \notin process.named
             \/ code = "missing_path" /\ "absent" \in check.seen[p]
             \/ /\ code = "path_not_directory"
                /\ "file" \in check.seen[p] \/ {"absent", "directory"} \subseteq check.seen[p]
             \/ code = "raised" /\ "unreadable" \in check.seen[p]
      PROVE  CheckOK'
  <2>1. check' = [check EXCEPT !.at = 0, !.step = "exists", !.answer = code, !.path = p]
    BY <1>4 DEF Answered, p
  <2>2. /\ check' \in CheckType /\ check'.at = 0 /\ check'.answer = code /\ check'.path = p
        /\ check'.seen = check.seen
    <3>1. check' = [at |-> 0, step |-> "exists", answer |-> code, path |-> p, seen |-> check.seen]
      BY <1>1, <2>1 DEF CheckType
    <3>2. 0 \in 0..Len(RequiredPaths)
      BY PathFacts
    <3> QED
      BY <1>2, <3>1, <3>2 DEF CheckType
  <2>3. ReadinessHonest'
    BY <1>1, <1>4, <2>2 DEF ReadinessHonest
  <2> QED
    BY <1>3, <2>2, <2>3 DEF CheckOK
(* The path is a directory: the next one, or the answer "ready".           *)
<1>5. ASSUME NextPath, Passed(p)
      PROVE  CheckOK'
  <2>1. CASE check.at = Len(RequiredPaths)
    <3>1. check' = [check EXCEPT !.at = 0, !.step = "exists", !.answer = "ready",
                                 !.path = DataRoot]
      BY <1>5, <2>1 DEF NextPath, Answered
    <3>2. /\ check' \in CheckType /\ check'.at = 0 /\ check'.answer = "ready"
          /\ check'.seen = check.seen
      <4>1. check' = [at |-> 0, step |-> "exists", answer |-> "ready", path |-> DataRoot,
                      seen |-> check.seen]
        BY <1>1, <3>1 DEF CheckType
      <4>2. 0 \in 0..Len(RequiredPaths)
        BY PathFacts
      <4> QED
        BY <1>2, <4>1, <4>2, PathFacts DEF CheckType
    <3>3. \A i \in 1..Len(RequiredPaths) : Passed(RequiredPaths[i])
      <4> TAKE i \in 1..Len(RequiredPaths)
      <4>1. i < check.at \/ i = check.at
        BY <2>1, PathFacts
      <4> QED
        BY <1>1, <1>5, <4>1 DEF p
    <3>4. \A q \in Paths : Passed(q)
      BY <3>3, PathFacts
    <3>5. ReadinessHonest'
      BY <1>1, <3>2, <3>4 DEF ReadinessHonest, Passed
    <3> QED
      BY <1>3, <3>2, <3>5 DEF CheckOK
  <2>2. CASE check.at # Len(RequiredPaths)
    <3>1. check' = [check EXCEPT !.at = @ + 1, !.step = "exists"]
      BY <1>5, <2>2 DEF NextPath
    <3>2. check.at + 1 \in 1..Len(RequiredPaths)
      BY <1>2, <2>2, PathFacts
    <3>3. /\ check' \in CheckType /\ check'.at = check.at + 1 /\ check'.step = "exists"
          /\ check'.answer = "none" /\ check'.seen = check.seen
      <4>1. check' = [at |-> check.at + 1, step |-> "exists", answer |-> "none",
                      path |-> check.path, seen |-> check.seen]
        BY <1>1, <3>1 DEF CheckType
      <4>2. check.path \in Paths /\ check.at + 1 \in 0..Len(RequiredPaths)
        BY <1>1, <3>2 DEF CheckType
      <4> QED
        BY <1>2, <4>1, <4>2 DEF CheckType
    <3>4. \A i \in 1..Len(RequiredPaths) : i < check'.at => Passed(RequiredPaths[i])'
      <4> SUFFICES ASSUME NEW i \in 1..Len(RequiredPaths), i < check'.at
                   PROVE  Passed(RequiredPaths[i])
        BY <1>1, <3>3 DEF Passed
      <4>1. i < check.at \/ i = check.at
        BY <1>2, <3>3
      <4> QED
        BY <1>1, <1>5, <4>1 DEF p
    <3>5. ReadinessHonest'
      BY <3>3 DEF ReadinessHonest
    <3> QED
      BY <1>1, <1>3, <3>3, <3>4, <3>5 DEF CheckOK
  <2> QED
    BY <2>1, <2>2
<1>6. CASE check.step = "exists" /\ p \notin process.named /\ Answered("missing_env")
  BY <1>4, <1>6
<1>7. CASE check.step = "exists" /\ p \in process.named /\ disk[p] = "absent"
           /\ Answered("missing_path")
  <2>1. "absent" \in check.seen[p]
    BY <1>1, <1>2, <1>7
  <2> QED
    BY <1>4, <1>7, <2>1
<1>8. CASE /\ check.step = "exists" /\ p \in process.named
           /\ disk[p] \notin {"absent", "unreadable"}
           /\ check' = [check EXCEPT !.step = "is_dir"]
  <2>1. /\ check' \in CheckType /\ check'.at = check.at /\ check'.step = "is_dir"
        /\ check'.answer = "none" /\ check'.seen = check.seen
    BY <1>1, <1>8 DEF CheckType
  <2>2. \E k \in check.seen[p] : k \in {"file", "directory"}
    <3>1. disk[p] \in Kinds
      BY <1>1, <1>2 DEF Disks
    <3> QED
      BY <1>1, <1>2, <1>8, <3>1 DEF Kinds
  <2>3. \A i \in 1..Len(RequiredPaths) : i < check'.at => Passed(RequiredPaths[i])'
    BY <1>1, <2>1 DEF Passed
  <2>4. ReadinessHonest'
    BY <2>1 DEF ReadinessHonest
  <2> QED
    BY <1>1, <1>3, <1>8, <2>1, <2>2, <2>3, <2>4 DEF CheckOK, p
<1>9. CASE check.step = "is_dir" /\ disk[p] = "directory" /\ NextPath
  <2>1. p \in process.named
    BY <1>1, <1>9 DEF CheckOK, p
  <2>2. Passed(p)
    BY <1>1, <1>2, <1>9, <2>1 DEF Passed
  <2> QED
    BY <1>5, <1>9, <2>2
<1>10. CASE /\ check.step = "is_dir" /\ disk[p] \notin {"directory", "unreadable"}
            /\ Answered("path_not_directory")
  <2>1. \E k \in check.seen[p] : k \in {"file", "directory"}
    BY <1>1, <1>10 DEF CheckOK, p
  <2>2. disk[p] \in check.seen[p] /\ disk[p] \in {"absent", "file"}
    BY <1>1, <1>2, <1>10 DEF Disks, Kinds
  <2>3. "file" \in check.seen[p] \/ {"absent", "directory"} \subseteq check.seen[p]
    BY <2>1, <2>2
  <2> QED
    BY <1>4, <1>10, <2>3
<1>11. CASE disk[p] = "unreadable" /\ Answered("raised")
  <2>1. "unreadable" \in check.seen[p]
    BY <1>1, <1>2, <1>11
  <2> QED
    BY <1>4, <1>11, <2>1
<1> QED
  BY <1>6, <1>7, <1>8, <1>9, <1>10, <1>11 DEF Look, p

-----------------------------------------------------------------------------
(* A process and its readiness probe                                       *)

LEMMA ImportSafe ==
  ASSUME ProcessOK, CheckOK, process = NoProcess, NEW d \in Deployments, Import(d)
  PROVE  ProcessOK' /\ CheckOK'
<1>1. check = NoCheck /\ check' = check
  BY DEF CheckOK, NoProcess, Import
<1>2. StartOf(d)'
  BY DEF Import, StartOf
<1>3. disk' \in Disks
  <2>1. disk \in Disks
    BY DEF CheckOK
  <2>2. [disk EXCEPT ![DataRoot] = "directory", ![BlobRoot] = "directory"] \in Disks
    BY <2>1, PathFacts DEF Disks, Kinds
  <2> QED
    BY <2>1, <2>2 DEF Import
<1>4. check'.at = 0 /\ check' \in CheckType /\ ReadinessHonest'
  BY <1>1, NoCheckOK DEF NoCheck, ReadinessHonest
<1> QED
  BY <1>1, <1>2, <1>3, <1>4 DEF ProcessOK, CheckOK

LEMMA StartupSafe ==
  ASSUME ProcessOK, CheckOK, StartupNext
  PROVE  ProcessOK' /\ CheckOK'
<1>1. CASE Deploy
  <2>1. process = NoProcess
    BY <1>1 DEF Deploy, ProcessOK, StartOf
  <2> QED
    BY <1>1, <2>1, ImportSafe DEF Deploy
<1>2. CASE Serve
  <2>1. check = NoCheck /\ check' = check /\ disk' = disk
    BY <1>2 DEF Serve, CheckOK
  <2>2. process'.state = "serving" /\ process'.named \subseteq Paths
    <3>1. PICK d \in Deployments : StartOf(d)
      BY <1>2 DEF Serve, ProcessOK, NoProcess
    <3>2. process'.named = d.named /\ process'.state = "serving"
      BY <1>2, <3>1 DEF Serve, StartOf
    <3> QED
      BY <3>2, StartupAssumption
  <2>3. check'.at = 0 /\ check' \in CheckType /\ ReadinessHonest' /\ disk' \in Disks
    BY <2>1, NoCheckOK DEF NoCheck, ReadinessHonest, CheckOK
  <2> QED
    BY <2>2, <2>3 DEF ProcessOK, CheckOK
<1>3. CASE Stop
  <2>1. process' = NoProcess /\ check' = NoCheck /\ disk' = disk
    BY <1>3 DEF Stop
  <2>2. check'.at = 0 /\ check' \in CheckType /\ ReadinessHonest' /\ disk' \in Disks
    BY <2>1, NoCheckOK DEF NoCheck, ReadinessHonest, CheckOK
  <2> QED
    BY <2>1, <2>2 DEF ProcessOK, CheckOK
<1>4. CASE DiskChanges
  <2>1. CheckOK'
    BY <1>4, DiskChangeSafe DEF DiskChanges
  <2> QED
    BY <1>4, <2>1 DEF DiskChanges, ProcessOK, StartOf
<1>5. CASE BeginCheck
  <2>1. process' = process
    BY <1>5 DEF BeginCheck
  <2> QED
    BY <1>5, <2>1, BeginCheckSafe DEF ProcessOK, StartOf
<1>6. CASE Look
  <2>1. process' = process
    BY <1>6 DEF Look
  <2> QED
    BY <1>6, <2>1, LookSafe DEF ProcessOK, StartOf
<1> QED
  BY <1>1, <1>2, <1>3, <1>4, <1>5, <1>6 DEF StartupNext

-----------------------------------------------------------------------------
(* The diagnosis                                                           *)

Verdicts ==
  {"upstream_service_suspended", "upstream_unavailable", "edge_method_forbidden",
   "registry_unregistered_service", "registry_missing_scope", "attestation_submitted", "unknown"}

(* The verdicts a condition can lead to, by method.                        *)
LEMMA GetVerdicts ==
  ASSUME NEW c \in Conditions, NEW a \in AnswersTo(c, "GET")
  PROVE  \/ c = "suspended" /\ Classify(a) = "upstream_service_suspended"
         \/ c = "down" /\ Classify(a) \in {"upstream_unavailable", "unknown"}
         \/ c \notin {"suspended", "down"} /\ Classify(a) = "unknown"
<1>1. CASE c = "suspended"
  <2>1. a = Says(503, {"service_suspended"})
    BY <1>1 DEF AnswersTo
  <2>2. a.status = 503 /\ a.texts = {"service_suspended"}
    BY <2>1 DEF Says
  <2>3. Classify(a) = "upstream_service_suspended"
    BY <2>2 DEF Classify
  <2> QED
    BY <1>1, <2>3
<1>2. CASE c = "down"
  <2>1. a = Says(503, {}) \/ a = Says(0, {})
    BY <1>2 DEF AnswersTo
  <2>2. a.status \in {0, 503} /\ a.texts = {}
    BY <2>1 DEF Says
  <2>3. Classify(a) \in {"upstream_unavailable", "unknown"}
    BY <2>2 DEF Classify
  <2> QED
    BY <1>2, <2>3
<1>3. CASE c \in Conditions \ {"suspended", "down"}
  <2>1. a = Says(404, {})
    BY <1>3 DEF AnswersTo
  <2>2. a.status = 404 /\ a.texts = {}
    BY <2>1 DEF Says
  <2>3. Classify(a) = "unknown"
    BY <2>2 DEF Classify
  <2> QED
    BY <1>3, <2>3
<1> QED
  BY <1>1, <1>2, <1>3

LEMMA PostVerdicts ==
  ASSUME NEW c \in Conditions, NEW a \in AnswersTo(c, "POST")
  PROVE  \/ c = "suspended" /\ Classify(a) \in {"upstream_service_suspended",
                                                "edge_method_forbidden"}
         \/ c = "down" /\ Classify(a) \in {"upstream_unavailable", "unknown"}
         \/ c = "forbidding" /\ Classify(a) = "edge_method_forbidden"
         \/ c = "unregistered" /\ Classify(a) = "registry_unregistered_service"
         \/ c = "unscoped" /\ Classify(a) = "registry_missing_scope"
         \/ c = "healthy" /\ Classify(a) \in {"attestation_submitted", "unknown"}
<1>1. CASE c = "suspended"
  <2>1. a = Says(503, {"service_suspended"}) \/ a = Says(403, {"method_forbidden"})
    BY <1>1 DEF AnswersTo
  <2>2. \/ a.status = 503 /\ a.texts = {"service_suspended"}
        \/ a.status = 403 /\ a.texts = {"method_forbidden"}
    BY <2>1 DEF Says
  <2>3. Classify(a) \in {"upstream_service_suspended", "edge_method_forbidden"}
    BY <2>2 DEF Classify
  <2> QED
    BY <1>1, <2>3
<1>2. CASE c = "down"
  <2>1. a = Says(503, {}) \/ a = Says(0, {})
    BY <1>2 DEF AnswersTo
  <2>2. a.status \in {0, 503} /\ a.texts = {}
    BY <2>1 DEF Says
  <2>3. Classify(a) \in {"upstream_unavailable", "unknown"}
    BY <2>2 DEF Classify
  <2> QED
    BY <1>2, <2>3
<1>3. CASE c = "forbidding"
  <2>1. a = Says(403, {"method_forbidden"})
    BY <1>3 DEF AnswersTo
  <2>2. a.status = 403 /\ a.texts = {"method_forbidden"}
    BY <2>1 DEF Says
  <2>3. Classify(a) = "edge_method_forbidden"
    BY <2>2 DEF Classify
  <2> QED
    BY <1>3, <2>3
<1>4. CASE c = "unregistered"
  <2>1. a = Says(400, {"unregistered_service"}) \/ a = Says(403, {"unregistered_service"})
    BY <1>4 DEF AnswersTo
  <2>2. a.status \in {400, 403} /\ a.texts = {"unregistered_service"}
    BY <2>1 DEF Says
  <2>3. Classify(a) = "registry_unregistered_service"
    BY <2>2 DEF Classify
  <2> QED
    BY <1>4, <2>3
<1>5. CASE c = "unscoped"
  <2>1. a = Says(400, {"missing_scope"}) \/ a = Says(403, {"missing_scope"})
    BY <1>5 DEF AnswersTo
  <2>2. a.status \in {400, 403} /\ a.texts = {"missing_scope"}
    BY <2>1 DEF Says
  <2>3. Classify(a) = "registry_missing_scope"
    BY <2>2 DEF Classify
  <2> QED
    BY <1>5, <2>3
<1>6. CASE c = "healthy"
  <2>1. a = Says(200, {"receipt"}) \/ a = Says(400, {})
    BY <1>6 DEF AnswersTo
  <2>2. \/ a.status = 200 /\ a.texts = {"receipt"}
        \/ a.status = 400 /\ a.texts = {}
    BY <2>1 DEF Says
  <2>3. Classify(a) \in {"attestation_submitted", "unknown"}
    BY <2>2 DEF Classify
  <2> QED
    BY <1>6, <2>3
<1> QED
  BY <1>1, <1>2, <1>3, <1>4, <1>5, <1>6 DEF Conditions

(* The summary of a GET answered in condition c and a POST answered in d.  *)
LEMMA SummaryFits ==
  ASSUME NEW c \in Conditions, NEW d \in Conditions,
         NEW a \in AnswersTo(c, "GET"), NEW b \in AnswersTo(d, "POST")
  PROVE  LET s == Summary(Classify(a), Classify(b)) IN
         \/ s \in Truthful[c] \/ s \in Truthful[d]
         \/ /\ c # d
            /\ \/ s = "needs_manual_upstream_triage"
               \/ s = "upstream_gateway_method_policy_or_route_mapping" /\ d = "suspended"
<1> DEFINE g == Classify(a)
           h == Classify(b)
<1>1. \/ c = "suspended" /\ g = "upstream_service_suspended"
      \/ c = "down" /\ g \in {"upstream_unavailable", "unknown"}
      \/ c \notin {"suspended", "down"} /\ g = "unknown"
  BY GetVerdicts
<1>2. \/ d = "suspended" /\ h \in {"upstream_service_suspended", "edge_method_forbidden"}
      \/ d = "down" /\ h \in {"upstream_unavailable", "unknown"}
      \/ d = "forbidding" /\ h = "edge_method_forbidden"
      \/ d = "unregistered" /\ h = "registry_unregistered_service"
      \/ d = "unscoped" /\ h = "registry_missing_scope"
      \/ d = "healthy" /\ h \in {"attestation_submitted", "unknown"}
  BY PostVerdicts
<1> HIDE DEF g, h
<1> DEFINE incident == "upstream_availability_incident"
           gateway  == "upstream_gateway_method_policy_or_route_mapping"
           registry == "registry_prerequisite_not_met"
           healthy  == "submit_path_healthy"
           triage   == "needs_manual_upstream_triage"
<1>3. /\ Truthful["suspended"] = {incident} /\ Truthful["down"] = {incident, triage}
      /\ Truthful["forbidding"] = {gateway}
      /\ Truthful["unregistered"] = {registry} /\ Truthful["unscoped"] = {registry}
      /\ Truthful["healthy"] = {healthy, triage}
  BY DEF Truthful
<1>4. /\ g \in {"upstream_service_suspended", "upstream_unavailable"} => Summary(g, h) = incident
      /\ g = "unknown" =>
           /\ h = "edge_method_forbidden" => Summary(g, h) = gateway
           /\ h \in {"registry_unregistered_service", "registry_missing_scope"} =>
                Summary(g, h) = registry
           /\ h = "attestation_submitted" => Summary(g, h) = healthy
           /\ h \in {"upstream_service_suspended", "upstream_unavailable", "unknown"} =>
                Summary(g, h) = triage
  BY DEF Summary
<1> DEFINE s == Summary(g, h)
           Fits == \/ s \in Truthful[c] \/ s \in Truthful[d]
                   \/ c # d /\ (s = triage \/ (s = gateway /\ d = "suspended"))
<1> SUFFICES Fits
  BY DEF g, h
<1> HIDE DEF incident, gateway, registry, healthy, triage
<1>5. CASE c \in {"suspended", "down"} /\ g # "unknown"
  BY <1>1, <1>3, <1>4, <1>5
<1>6. CASE g = "unknown"
  <2>1. CASE d = "suspended"
    BY <1>1, <1>2, <1>4, <1>6, <2>1
  <2>2. CASE d = "down"
    BY <1>2, <1>3, <1>4, <1>6, <2>2
  <2>3. CASE d = "forbidding"
    BY <1>2, <1>3, <1>4, <1>6, <2>3
  <2>4. CASE d \in {"unregistered", "unscoped"}
    BY <1>2, <1>3, <1>4, <1>6, <2>4
  <2>5. CASE d = "healthy"
    BY <1>2, <1>3, <1>4, <1>6, <2>5
  <2> QED
    BY <1>2, <2>1, <2>2, <2>3, <2>4, <2>5
<1> QED
  BY <1>1, <1>5, <1>6

ProbeType ==
  [stage : {"idle", "GET", "POST", "done", "raised"}, get : Verdicts \cup {"none"},
   summary : {"none", "upstream_availability_incident", "registry_prerequisite_not_met",
              "upstream_gateway_method_policy_or_route_mapping", "submit_path_healthy",
              "needs_manual_upstream_triage"},
   seen : SUBSET Conditions]

(* A run of the script: the condition there is has been seen, and the GET  *)
(* was answered in one that has.                                           *)
ProbeOK ==
  /\ upstream \in Conditions /\ probe \in ProbeType
  /\ probe.summary # "none" <=> probe.stage = "done"
  /\ probe.stage \in {"GET", "POST"} => upstream \in probe.seen
  /\ probe.stage = "POST" =>
       \E c \in probe.seen : \E a \in AnswersTo(c, "GET") : probe.get = Classify(a)
  /\ DiagnosisFits

LEMMA ProbeSafe ==
  ASSUME ProbeOK, ProbeNext
  PROVE  ProbeOK'
<1>1. /\ upstream \in Conditions /\ probe \in ProbeType
      /\ probe.summary # "none" <=> probe.stage = "done"
  BY DEF ProbeOK
<1>2. CASE UpstreamChanges
  <2>1. CASE probe.stage \in {"GET", "POST"}
    <3>1. /\ upstream' \in Conditions
          /\ probe' = [stage |-> probe.stage, get |-> probe.get, summary |-> probe.summary,
                       seen |-> probe.seen \cup {upstream'}]
      BY <1>1, <1>2, <2>1 DEF UpstreamChanges, ProbeType
    <3> QED
      BY <1>1, <2>1, <3>1 DEF ProbeOK, ProbeType, DiagnosisFits
  <2>2. CASE probe.stage \notin {"GET", "POST"}
    BY <1>2, <2>2 DEF UpstreamChanges, ProbeOK, DiagnosisFits
  <2> QED
    BY <2>1, <2>2
<1>3. CASE BeginDiagnosis
  <2>1. /\ upstream' = upstream
        /\ probe' = [stage |-> "GET", get |-> "none", summary |-> "none", seen |-> {upstream}]
    BY <1>3 DEF BeginDiagnosis, NoProbe
  <2> QED
    BY <1>1, <2>1 DEF ProbeOK, ProbeType, DiagnosisFits
<1>4. CASE GetAnswered
  <2>1. PICK a \in AnswersTo(upstream, "GET") :
          probe' = [probe EXCEPT !.stage = "POST", !.get = Classify(a)]
    BY <1>4 DEF GetAnswered
  <2>2. Classify(a) \in Verdicts
    BY <1>1, GetVerdicts DEF Verdicts
  <2>3. /\ probe' = [stage |-> "POST", get |-> Classify(a), summary |-> probe.summary,
                     seen |-> probe.seen]
        /\ upstream' = upstream /\ upstream \in probe.seen /\ probe.summary = "none"
    BY <1>1, <1>4, <2>1 DEF GetAnswered, ProbeOK, ProbeType
  <2> HIDE DEF Verdicts
  <2> QED
    BY <1>1, <2>2, <2>3 DEF ProbeOK, ProbeType, DiagnosisFits
<1>5. CASE PostAnswered
  <2>1. PICK b \in AnswersTo(upstream, "POST") :
          probe' = [probe EXCEPT !.stage = "done", !.summary = Summary(probe.get, Classify(b))]
    BY <1>5 DEF PostAnswered
  <2>2. upstream \in probe.seen /\ upstream' = upstream
    BY <1>5 DEF PostAnswered, ProbeOK
  <2>3. PICK c \in probe.seen : \E a \in AnswersTo(c, "GET") : probe.get = Classify(a)
    BY <1>5 DEF PostAnswered, ProbeOK
  <2>4. PICK a \in AnswersTo(c, "GET") : probe.get = Classify(a)
    BY <2>3
  <2> DEFINE s == Summary(probe.get, Classify(b))
  <2>5. c \in Conditions
    BY <1>1, <2>3 DEF ProbeType
  <2>6. \/ s \in Truthful[c] \/ s \in Truthful[upstream]
        \/ /\ c # upstream
           /\ \/ s = "needs_manual_upstream_triage"
              \/ s = "upstream_gateway_method_policy_or_route_mapping" /\ upstream = "suspended"
    BY <1>1, <2>4, <2>5, SummaryFits
  <2>7. s \in {"upstream_availability_incident", "registry_prerequisite_not_met",
               "upstream_gateway_method_policy_or_route_mapping", "submit_path_healthy",
               "needs_manual_upstream_triage"}
    BY DEF Summary
  <2> HIDE DEF s
  <2>8. probe' = [stage |-> "done", get |-> probe.get, summary |-> s, seen |-> probe.seen]
    BY <1>1, <2>1 DEF ProbeType, s
  <2>9. DiagnosisFits'
    BY <2>2, <2>3, <2>6, <2>8 DEF DiagnosisFits
  <2>10. probe' \in ProbeType
    BY <1>1, <2>7, <2>8 DEF ProbeType
  <2> QED
    BY <1>1, <2>2, <2>7, <2>8, <2>9, <2>10 DEF ProbeOK
<1>6. CASE ReadTimesOut
  <2>1. /\ probe' = [stage |-> "raised", get |-> probe.get, summary |-> probe.summary,
                     seen |-> probe.seen]
        /\ upstream' = upstream /\ probe.summary = "none"
    BY <1>1, <1>6 DEF ReadTimesOut, ProbeType
  <2> QED
    BY <1>1, <2>1 DEF ProbeOK, ProbeType, DiagnosisFits
<1> QED
  BY <1>2, <1>3, <1>4, <1>5, <1>6 DEF ProbeNext

-----------------------------------------------------------------------------
(* The composition                                                         *)

OperationsInv == ProcessOK /\ CheckOK /\ ProbeOK

LEMMA InitSafe == Init => OperationsInv
<1> SUFFICES ASSUME Init
             PROVE  OperationsInv
  OBVIOUS
<1>1. /\ process = NoProcess /\ disk \in Disks /\ check = NoCheck
      /\ upstream \in Conditions /\ probe = NoProbe
  BY DEF Init, StartupInit, ProbeInit
<1>2. CheckOK
  BY <1>1, NoCheckOK DEF CheckOK, NoCheck
<1>3. ProbeOK
  BY <1>1 DEF ProbeOK, ProbeType, NoProbe, DiagnosisFits
<1> QED
  BY <1>1, <1>2, <1>3 DEF OperationsInv, ProcessOK

LEMMA StartupStutters ==
  ASSUME ProcessOK, CheckOK, UNCHANGED startupVars
  PROVE  ProcessOK' /\ CheckOK'
<1>1. process' = process /\ disk' = disk /\ check' = check
  BY DEF startupVars
<1>2. ReadinessHonest'
  BY <1>1 DEF CheckOK, ReadinessHonest
<1> QED
  BY <1>1, <1>2 DEF ProcessOK, StartOf, CheckOK, Passed

LEMMA ProbeStutters ==
  ASSUME ProbeOK, UNCHANGED probeVars
  PROVE  ProbeOK'
BY DEF ProbeOK, probeVars, DiagnosisFits

LEMMA StepSafe == OperationsInv /\ [Next]_vars => OperationsInv'
<1> SUFFICES ASSUME OperationsInv, [Next]_vars
             PROVE  OperationsInv'
  OBVIOUS
<1> USE DEF OperationsInv
<1>1. CASE StartupNext /\ UNCHANGED probeVars
  BY <1>1, StartupSafe, ProbeStutters
<1>2. CASE ProbeNext /\ UNCHANGED startupVars
  BY <1>2, ProbeSafe, StartupStutters
<1>3. CASE UNCHANGED vars
  BY <1>3, StartupStutters, ProbeStutters DEF vars
<1> QED
  BY <1>1, <1>2, <1>3 DEF Next

LEMMA InvImpliesTypeOK == OperationsInv => TypeOK
<1> SUFFICES ASSUME OperationsInv
             PROVE  TypeOK
  OBVIOUS
<1>1. /\ check.at \in 0..Len(RequiredPaths) /\ check.step \in {"exists", "is_dir"}
      /\ check.answer \in {"none", "ready", "missing_env", "missing_path", "path_not_directory",
                          "raised"}
      /\ check.path \in Paths /\ check.seen \in [Paths -> SUBSET Kinds]
  BY DEF OperationsInv, CheckOK, CheckType
<1>2. check.at # 0 => process.state = "serving" /\ check.answer = "none"
  BY DEF OperationsInv, CheckOK, NoCheck
<1>3. \/ process = NoProcess
      \/ process.state = "serving" /\ process.named \subseteq Paths
      \/ /\ process.state \in {"refused", "imported"}
         /\ process.settings.env \in [Variables -> Values]
         /\ process.report \in [Fields -> Values \cup {"redacted"}]
  <2>1. ASSUME NEW d \in Deployments, StartOf(d)
        PROVE  /\ process.state \in {"refused", "imported"}
               /\ process.settings.env \in [Variables -> Values]
               /\ process.report \in [Fields -> Values \cup {"redacted"}]
    <3>1. d.env \in [Variables -> Values]
      BY StartupAssumption
    <3>2. RedactedReport(Loaded(d.env)) \in [Fields -> Values \cup {"redacted"}]
      BY <3>1, ReportTyped
    <3> QED
      BY <2>1, <3>1, <3>2 DEF StartOf
  <2> QED
    BY <2>1 DEF OperationsInv, ProcessOK
<1>4. StartupTypeOK
  BY <1>1, <1>2, <1>3 DEF StartupTypeOK, OperationsInv, CheckOK
<1>5. ProbeTypeOK
  BY DEF OperationsInv, ProbeOK, ProbeType, ProbeTypeOK, Verdicts
<1> QED
  BY <1>4, <1>5 DEF TypeOK

-----------------------------------------------------------------------------
(* Type correctness, for any deployments and any list of required paths.   *)
THEOREM TypeCorrect == Spec => []TypeOK
  BY InitSafe, StepSafe, InvImpliesTypeOK, PTL DEF Spec

(* routes.py's own checks of provider settings never stop the import: the  *)
(* boundary has refused such settings before (provider_config.py 95-119).  *)
THEOREM RechecksAreIdle == Spec => []RechecksNeverFire
<1>1. OperationsInv => RechecksNeverFire
  BY ProcessSafe DEF OperationsInv
<1> QED
  BY <1>1, InitSafe, StepSafe, PTL DEF Spec

(* Setting a variable to "" decides the start as not setting it does, with *)
(* the three exceptions EmptyCountsAsUnset names, and no other, whatever   *)
(* the variables of a deployment (config.py 115-130, blob_storage.py 98,   *)
(* provider_config.py 155).                                                *)
THEOREM EmptyIsUnset == Spec => []EmptyCountsAsUnset
<1>1. OperationsInv => EmptyCountsAsUnset
  BY ProcessSafe DEF OperationsInv
<1> QED
  BY <1>1, InitSafe, StepSafe, PTL DEF Spec

(* The boundary, the gates and the choice of adapters agree: real          *)
(* execution is what was asked for, with all it needs, or there is no      *)
(* process (routes.py 35-117).                                             *)
THEOREM AskedIsEnabled == Spec => []AskedMeansEnabled
<1>1. OperationsInv => AskedMeansEnabled
  BY ProcessSafe DEF OperationsInv
<1> QED
  BY <1>1, InitSafe, StepSafe, PTL DEF Spec

(* Readiness describes the disk during the probe, path by path, however    *)
(* the disk changes and however many paths there are.                      *)
THEOREM ReadinessIsHonest == Spec => []ReadinessHonest
<1>1. OperationsInv => ReadinessHonest
  BY DEF OperationsInv, CheckOK
<1> QED
  BY <1>1, InitSafe, StepSafe, PTL DEF Spec

(* The summary of a diagnosis is true of a condition the upstream was in   *)
(* during the run, with the two exceptions DiagnosisFits names.            *)
THEOREM DiagnosesFit == Spec => []DiagnosisFits
<1>1. OperationsInv => DiagnosisFits
  BY DEF OperationsInv, ProbeOK
<1> QED
  BY <1>1, InitSafe, StepSafe, PTL DEF Spec
=============================================================================
