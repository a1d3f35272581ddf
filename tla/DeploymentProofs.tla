--------------------------- MODULE DeploymentProofs ---------------------------
(***************************************************************************)
(* What the theorems about Orchestrator come to in a deployment: the       *)
(* processes routes.py lets start are those Orchestrator is assumed to be  *)
(* wired as, and in them each request reaches the provider at most once.   *)
(* With it, the limits of the two counterexamples the runs show: which     *)
(* wirings and which circumstances they need.                              *)
(***************************************************************************)
EXTENDS AttemptsProofs

Boundary == INSTANCE ProviderConfig

-----------------------------------------------------------------------------
(* The wirings                                                             *)

(* What an environment that starts comes to.                               *)
LEMMA ExecutionNeedsMode ==
  ASSUME NEW e \in Boundary!Environments, Boundary!execution_enabled(e)
  PROVE  e.mode = "execute" /\ e.blob \notin Boundary!CloudLikeBlob
BY DEF Boundary!execution_enabled, Boundary!execution_ready, Boundary!startup_allowed,
       Boundary!blob_policy_allowed, Boundary!Environments

(* Network adapters come with an open gate only, and cloud backends with a *)
(* closed one: every wiring of routes.py satisfies ConfigsAssumption, and  *)
(* has one attempt and a store that raises nothing.                        *)
THEOREM WiringsFit ==
  \A c \in Boundary!WiredConfigs :
     /\ c \in ConfigType
     /\ c.attestation \in NetworkAdapters => c.executionEnabled
     /\ c.blob = "cloud_like" => ~c.executionEnabled
     /\ c.attestation = "dry_run_chain_failing" => ~c.executionEnabled
     /\ c.maxAttempts = 1 /\ c.storeRaises = {}
<1> SUFFICES ASSUME NEW e \in Boundary!Environments
             PROVE  LET c == Boundary!Wired(e) IN
                    /\ c \in ConfigType
                    /\ c.attestation \in NetworkAdapters => c.executionEnabled
                    /\ c.blob = "cloud_like" => ~c.executionEnabled
                    /\ c.attestation = "dry_run_chain_failing" => ~c.executionEnabled
                    /\ c.maxAttempts = 1 /\ c.storeRaises = {}
  BY DEF Boundary!WiredConfigs
<1> DEFINE on == Boundary!execution_enabled(e)
           blob == Boundary!BlobAdapter(e)
           attestation == Boundary!AttestationAdapter(e)
<1>1. on \in BOOLEAN
  BY DEF Boundary!execution_enabled, Boundary!Environments, Boundary!execution_ready
<1>2. blob \in BlobAdapters /\ (blob = "cloud_like" => ~on)
  BY ExecutionNeedsMode DEF Boundary!BlobAdapter, Boundary!Environments, Boundary!BlobBackends,
     Boundary!CloudLikeBlob, BlobAdapters
<1>3. /\ attestation \in NetworkAdapters \cup LocalReceiptAdapters \cup LocalFailureAdapters
      /\ attestation \in NetworkAdapters => on
      /\ attestation = "dry_run_chain_failing" => ~on
  BY ExecutionNeedsMode DEF Boundary!AttestationAdapter, Boundary!Environments,
     Boundary!AttestationBackends, NetworkAdapters, LocalReceiptAdapters, LocalFailureAdapters
<1>4. Boundary!Wired(e) = [executionEnabled |-> on, blob |-> blob, attestation |-> attestation,
                           maxAttempts |-> 1, storeRaises |-> {}]
  BY DEF Boundary!Wired
<1> HIDE DEF on, blob, attestation
<1> QED
  BY <1>1, <1>2, <1>3, <1>4 DEF ConfigType

(* The settings an environment needs, and no others.                       *)
Enough(e) ==
  [v \in Boundary!Variables |->
     IF v \in Boundary!RequiredBlob(e) \cup Boundary!RequiredAttestation(e) THEN "set" ELSE "unset"]

LEMMA RequiredFits ==
  ASSUME NEW e \in Boundary!Environments
  PROVE  /\ Boundary!RequiredBlob(e) \subseteq Boundary!BlobFields
         /\ Boundary!RequiredAttestation(e) \subseteq Boundary!AttestationFields
         /\ Boundary!RequiredBlob(e) \cap {"access_key_ref", "secret_key_ref"} = {}
         /\ Boundary!RequiredAttestation(e) \cap {"auth_header_name", "auth_header_ref"} = {}
         /\ Boundary!RequiredAttestation(e) \cap Boundary!Misplaced(e) = {}
         /\ e.blob = "in_memory" => Boundary!RequiredBlob(e) = {}
         /\ e.attestation = "fake" => Boundary!RequiredAttestation(e) = {}
         /\ Boundary!Misplaced(e) \subseteq Boundary!AttestationFields
         /\ Boundary!BlobFields \cap Boundary!AttestationFields = {}
         /\ Boundary!ForbiddenRaw \cap Boundary!Fields = {}
         /\ "signer_key_ref" \notin Boundary!Fields
         /\ e.blob = "local_fs" => "local_root_path" \in Boundary!RequiredBlob(e)
BY DEF Boundary!Environments, Boundary!BlobBackends, Boundary!AttestationBackends,
       Boundary!RequiredBlob, Boundary!RequiredAttestation, Boundary!Misplaced,
       Boundary!BlobFields, Boundary!AttestationFields, Boundary!Fields, Boundary!ForbiddenRaw

LEMMA EnoughLoaded ==
  ASSUME NEW e \in Boundary!Environments
  PROVE  LET needed == Boundary!RequiredBlob(e) \cup Boundary!RequiredAttestation(e) IN
         /\ Enough(e) \in [Boundary!Variables -> Boundary!Values]
         /\ \A v \in Boundary!ForbiddenRaw : Enough(e)[v] = "unset"
         /\ \A f \in Boundary!Fields :
               Boundary!Loaded(Enough(e))[f] = IF f \in needed THEN "set" ELSE "unset"
<1> DEFINE needed == Boundary!RequiredBlob(e) \cup Boundary!RequiredAttestation(e)
<1>1. needed \subseteq Boundary!Fields /\ "signer_key_ref" \notin needed
      /\ Boundary!ForbiddenRaw \cap needed = {}
  BY RequiredFits DEF Boundary!Fields
<1>2. \A v \in Boundary!Variables : Enough(e)[v] = IF v \in needed THEN "set" ELSE "unset"
  BY DEF Enough
<1>3. /\ Enough(e) \in [Boundary!Variables -> Boundary!Values]
      /\ Boundary!Fields \subseteq Boundary!Variables
      /\ Boundary!ForbiddenRaw \subseteq Boundary!Variables
      /\ "signer_key_ref" \in Boundary!Variables
  BY DEF Enough, Boundary!Variables, Boundary!Values
<1> HIDE DEF needed
<1>4. \A f \in Boundary!Fields :
         Boundary!Loaded(Enough(e))[f] = IF f \in needed THEN "set" ELSE "unset"
  BY <1>1, <1>2, <1>3 DEF Boundary!Loaded
<1> QED
  BY <1>1, <1>2, <1>3, <1>4 DEF needed

LEMMA EnoughStarts ==
  ASSUME NEW e \in Boundary!Environments, Boundary!Starts(e)
  PROVE  Boundary!StartError(e, Enough(e)) = "ok"
<1> DEFINE cfg == Boundary!Loaded(Enough(e))
           needed == Boundary!RequiredBlob(e) \cup Boundary!RequiredAttestation(e)
<1>1. /\ \A f \in Boundary!Fields : cfg[f] = IF f \in needed THEN "set" ELSE "unset"
      /\ \A v \in Boundary!ForbiddenRaw : Enough(e)[v] = "unset"
  BY EnoughLoaded
<1>2. /\ Boundary!BlobFields \subseteq Boundary!Fields
      /\ Boundary!AttestationFields \subseteq Boundary!Fields
      /\ {"access_key_ref", "secret_key_ref"} \subseteq Boundary!BlobFields
      /\ {"auth_header_name", "auth_header_ref"} \subseteq Boundary!AttestationFields
  BY DEF Boundary!Fields, Boundary!BlobFields, Boundary!AttestationFields
<1> HIDE DEF cfg
<1>3. ~Boundary!SomeGiven(Enough(e), Boundary!ForbiddenRaw)
  BY <1>1 DEF Boundary!SomeGiven, Boundary!Given
<1>4. \A f \in Boundary!Unwanted(e) \cup Boundary!Misplaced(e) : f \in Boundary!Fields \ needed
  BY <1>2, RequiredFits DEF Boundary!Unwanted
<1>5. /\ ~Boundary!SomeGiven(cfg, Boundary!Unwanted(e))
      /\ ~Boundary!SomeGiven(cfg, Boundary!Misplaced(e))
  BY <1>1, <1>4 DEF Boundary!SomeGiven, Boundary!Given
<1>6. {"access_key_ref", "secret_key_ref", "auth_header_name", "auth_header_ref"}
        \subseteq Boundary!Fields \ needed
  BY <1>2, RequiredFits
<1>7. ~Boundary!KeyPairBroken(cfg) /\ ~Boundary!HeaderPairBroken(cfg)
  BY <1>1, <1>6 DEF Boundary!KeyPairBroken, Boundary!HeaderPairBroken, Boundary!Given
<1>8. \A f \in needed : Boundary!Given(cfg, f)
  BY <1>1, <1>2, RequiredFits DEF Boundary!Given
<1>9. Boundary!BoundaryError(e, Enough(e)) = "ok"
  BY <1>3, <1>5, <1>7, <1>8 DEF Boundary!BoundaryError, Boundary!AllGiven, cfg
<1>10. Boundary!AdapterError(e, Enough(e)) = "ok"
  <2>1. Enough(e)["max_blob_bytes"] # "empty"
    BY DEF Enough, Boundary!Variables
  <2> QED
    BY <1>8, <2>1, RequiredFits
    DEF Boundary!AdapterError, Boundary!AllGiven, Boundary!RequiredAttestation, cfg
<1>11. Boundary!ResolveError(e) = "ok"
  BY DEF Boundary!ResolveError, Boundary!Starts, Boundary!Environments
<1> QED
  BY <1>9, <1>10, <1>11 DEF Boundary!StartError, Boundary!Starts, cfg

(* The wirings the runs enumerate are those of the processes that start:   *)
(* each one starts with some settings, and no settings start another.      *)
THEOREM StartedIsWired ==
  Boundary!WiredConfigs =
    {Boundary!Wired(e) : e \in {x \in Boundary!Environments :
       \E env \in [Boundary!Variables -> Boundary!Values] : Boundary!StartError(x, env) = "ok"}}
<1>1. ASSUME NEW e \in Boundary!Environments, NEW env, Boundary!StartError(e, env) = "ok"
      PROVE  Boundary!Starts(e)
  <2>1. Boundary!ResolveError(e) = "ok"
    BY <1>1 DEF Boundary!StartError
  <2>2. Boundary!startup_allowed(e)
    BY <2>1 DEF Boundary!ResolveError
  <2>3. Boundary!BoundaryError(e, env) = "ok"
    BY <1>1, <2>1 DEF Boundary!StartError
  <2>4. ~(e.enable /\ ~Boundary!execution_enabled(e))
    BY <1>1, <2>1, <2>3 DEF Boundary!StartError
  <2> QED
    BY <2>2, <2>4 DEF Boundary!Starts
<1>2. ASSUME NEW e \in Boundary!Environments
      PROVE  Boundary!Starts(e) <=>
               \E env \in [Boundary!Variables -> Boundary!Values] : Boundary!StartError(e, env) = "ok"
  BY <1>1, EnoughLoaded, EnoughStarts
<1> QED
  BY <1>2 DEF Boundary!WiredConfigs

-----------------------------------------------------------------------------
(* What the mismatch of a blob needs                                       *)

(* A read-back that does not match was written by another program: the     *)
(* processes of the service, however they interleave, cause none.          *)
MismatchIsForeign ==
  foreign = 0 => \A w \in Workers : blobReceipt[w].error # "blob_hash_mismatch"

LEMMA MismatchStep ==
  ASSUME IInv, ContentAddressed, MismatchIsForeign, [Next]_vars
  PROVE  MismatchIsForeign'
<1>t. TypeOK
  BY DEF IInv
<1> SUFFICES ASSUME foreign' = 0, NEW w \in Workers
             PROVE  blobReceipt'[w].error # "blob_hash_mismatch"
  BY DEF MismatchIsForeign
<1> USE DEF TypeOK, FinishBlob, BlobReceipt
<1>1. foreign' = foreign \/ \E g \in Manifests, c \in {NoBlob, Foreign} : ForeignWrite(g, c)
  BY BlobsEffect DEF vars, ReplaceBlob, Crash
<1>2. foreign = 0
  BY <1>t, <1>1, ForeignEffect
<1>3. blobReceipt[w].error # "blob_hash_mismatch"
  BY <1>2 DEF MismatchIsForeign
<1>4. ASSUME NEW v \in Workers, CheckExisting(v)
      PROVE  \E r : r.error = "none" /\ blobReceipt' = [blobReceipt EXCEPT ![v] = r]
  <2>1. BindingHolds(cmd[v])
    BY <1>4 DEF IInv, BoundBeforeSideEffects, CheckExisting, At, BindingHolds
  <2> QED
    BY <1>4, <2>1 DEF CheckExisting
<1>5. ASSUME NEW v \in Workers, VerifyBlob(v)
      PROVE  \E r : r.error # "blob_hash_mismatch" /\ blobReceipt' = [blobReceipt EXCEPT ![v] = r]
  <2>1. Root(v) \in Workers \cup {SharedRoot} /\ cmd[v].hash \in Manifests
    BY <1>t, CommandsAssumption DEF Root
  <2>2. blobs[Root(v)][cmd[v].hash] \in {NoBlob, cmd[v].hash}
    BY <1>2, <2>1 DEF ContentAddressed
  <2> QED
    BY <1>5, <2>2 DEF VerifyBlob
<1>6. ASSUME NEW v \in Workers, SkipBlob(v) \/ BlobAdapterRaises(v)
      PROVE  \E r : r.error # "blob_hash_mismatch" /\ blobReceipt' = [blobReceipt EXCEPT ![v] = r]
  BY <1>6 DEF SkipBlob, BlobAdapterRaises
<1>7. ASSUME NEW v \in Workers, Crash(v) \/ \E c \in Commands : Receive(v, c)
      PROVE  \E r : r.error # "blob_hash_mismatch" /\ blobReceipt' = [blobReceipt EXCEPT ![v] = r]
  BY <1>7 DEF Crash, Receive, NoReceipt
<1>8. ASSUME NEW v \in Workers, NEW r, r.error # "blob_hash_mismatch",
             blobReceipt' = [blobReceipt EXCEPT ![v] = r]
      PROVE  blobReceipt'[w].error # "blob_hash_mismatch"
  BY <1>t, <1>3, <1>8
<1>9. CASE blobReceipt' = blobReceipt
  BY <1>3, <1>9
<1> QED
  BY <1>4, <1>5, <1>6, <1>7, <1>8, <1>9
  DEF Next, Step, CheckIntegrity, Persist, PersistRaises, LoopFallsThrough, ReplaceBlob,
      AttestLocally, Submit, ReceiveReceipt, ReceiveFailure, ProviderDecides, ForeignWrite,
      BlobFrame, AttestFrame, workerVars, vars

(* No interleaving and no death of the service's own processes makes a     *)
(* post-write verification fail (orchestrator.py 254-264): the run         *)
(* orchestrator_mismatch needs its foreign write, and without one the      *)
(* documented rule, that a mismatch never ends in a receipt, holds.        *)
THEOREM MismatchNeedsForeignWrite ==
  Spec => [](MismatchIsForeign /\ (foreign = 0 => MismatchFailsHard))
<1>1. Init => MismatchIsForeign
  BY DEF Init, MismatchIsForeign, NoReceipt, BlobReceipt
<1>2. StoreInv => IInv /\ ContentAddressed
  BY DEF StoreInv
<1>3. MismatchIsForeign => (foreign = 0 => MismatchFailsHard)
  BY DEF MismatchIsForeign, MismatchFailsHard
<1> QED
  BY <1>1, <1>2, <1>3, MismatchStep, StoreInvHolds, PTL DEF Spec

-----------------------------------------------------------------------------
(* What a transient failure with an unknown lifecycle needs                *)

Documented(r) ==
  r.stage = "attestation" /\ r.class = "transient" => r.lifecycle = "submission_failed_retryable"

(* Only the dry run chain that simulates a failure says otherwise.         *)
OnlySimulatedDiffers == config.attestation # "dry_run_chain_failing" => TransientIsRetryable

LEMMA DocumentedFailures ==
  ASSUME NEW a, NEW f, a # "dry_run_chain_failing", f.class = "transient",
         \/ a \in LocalFailureAdapters /\ f = LocalFailure(a)
         \/ \E state \in {"in_flight", "accepted", "refused"} : f \in FailedAnswers(a, state)
  PROVE  f.lifecycle = "submission_failed_retryable"
BY DEF LocalFailureAdapters, LocalFailure, BoundaryError, AdapterError, classify_failure,
       FailedAnswers, LostAnswers, MalformedAnswer, UnlistedStatus, Refusals

LEMMA DifferStep ==
  ASSUME IInv, OnlySimulatedDiffers, [Next]_vars
  PROVE  OnlySimulatedDiffers'
<1>t. TypeOK /\ AwaitsOwnSubmission
  BY DEF IInv
<1>c. config' = config
  BY ConfigFixed DEF vars
<1> SUFFICES ASSUME config.attestation # "dry_run_chain_failing", NEW w \in Workers
             PROVE  Documented(response'[w])
  BY <1>c DEF OnlySimulatedDiffers, TransientIsRetryable, Documented
<1>1. Documented(response[w])
  BY DEF OnlySimulatedDiffers, TransientIsRetryable, Documented
<1>2. ASSUME NEW v \in Workers, NEW r, Documented(r), response' = [response EXCEPT ![v] = r]
      PROVE  Documented(response'[w])
  BY <1>t, <1>1, <1>2 DEF TypeOK
<1>3. /\ Documented(NoResponse) /\ Documented(Raised) /\ \A tx : Documented(ReceiptOf(tx))
      /\ \A stage, class, lifecycle :
            \/ stage # "attestation"
            \/ class = "transient" => lifecycle = "submission_failed_retryable"
            => Documented(ErrorAt(stage, class, lifecycle))
  BY DEF Documented, NoResponse, Raised, ReceiptOf, ErrorAt
<1>4. ASSUME NEW v \in Workers, NEW f, NEW n, SubmitFailed(v, f, n),
             f.class = "transient" => f.lifecycle = "submission_failed_retryable"
      PROVE  Documented(response'[w])
  BY <1>1, <1>2, <1>3, <1>4 DEF SubmitFailed, Respond
<1>5. ASSUME NEW v \in Workers, AttestLocally(v) PROVE Documented(response'[w])
  <2>1. CASE config.attestation \in LocalReceiptAdapters
    BY <1>2, <1>3, <1>5, <2>1 DEF AttestLocally, Respond
  <2>2. CASE config.attestation \notin LocalReceiptAdapters
    <3>1. config.attestation \in LocalFailureAdapters
      BY <1>t, <1>5, <2>2, ConfigsAssumption DEF AttestLocally, TypeOK, ConfigType
    <3> QED
      BY <1>4, <1>5, <2>2, <3>1, DocumentedFailures DEF AttestLocally
  <2> QED
    BY <2>1, <2>2
<1>6. ASSUME NEW v \in Workers, NEW f \in FailureType, ReceiveFailure(v, f)
      PROVE  Documented(response'[w])
  <2>1. /\ current[v] \in DOMAIN submissions
        /\ submissions[current[v]].state \in {"in_flight", "accepted", "refused"}
    <3>1. current[v] \in DOMAIN submissions
      BY <1>t, <1>6 DEF AwaitsOwnSubmission, ReceiveFailure, At
    <3>2. \A i \in DOMAIN submissions : submissions[i] \in SubmissionType
      BY <1>t DEF TypeOK
    <3> QED
      BY <3>1, <3>2 DEF SubmissionType
  <2>2. f.class = "transient" => f.lifecycle = "submission_failed_retryable"
    BY <1>6, <2>1, DocumentedFailures DEF ReceiveFailure
  <2> QED
    BY <1>4, <1>6, <2>2 DEF ReceiveFailure
<1>7. ASSUME NEW v \in Workers,
             \/ CheckIntegrity(v) \/ LoopFallsThrough(v) \/ ReceiveReceipt(v) \/ Crash(v)
             \/ \E exc \in config.storeRaises : PersistRaises(v, exc)
             \/ \E c \in Commands : Receive(v, c)
      PROVE  Documented(response'[w])
  BY <1>1, <1>2, <1>3, <1>7
  DEF CheckIntegrity, LoopFallsThrough, ReceiveReceipt, Crash, PersistRaises, Receive, Respond
<1>8. CASE response' = response
  BY <1>1, <1>8
<1> QED
  BY <1>5, <1>6, <1>7, <1>8
  DEF Next, Step, Persist, SkipBlob, CheckExisting, ReplaceBlob, VerifyBlob, BlobAdapterRaises,
      Submit, ProviderDecides, ForeignWrite, BlobFrame, AttestFrame, workerVars, vars

(* docs/m10.2 holds of every adapter but the simulated failure of the dry  *)
(* run: whatever is lost, late or malformed, a transient failure of the    *)
(* attestation is answered with submission_failed_retryable.               *)
THEOREM OnlySimulationDiffers == Spec => []OnlySimulatedDiffers
<1>1. Init => OnlySimulatedDiffers
  BY DEF Init, OnlySimulatedDiffers, TransientIsRetryable, NoResponse
<1> QED
  BY <1>1, DifferStep, IInvHolds, PTL DEF Spec

-----------------------------------------------------------------------------
(* The deployment                                                          *)

(* What a client may rely on in the processes routes.py starts: a request  *)
(* is sent to the provider once at most, an answer that calls the failure  *)
(* permanent leaves no transaction behind, no request ends in the loops'   *)
(* RuntimeError, and where execution is real a transient failure has the   *)
(* documented lifecycle.                                                   *)
DeployedGuarantees ==
  /\ \A r \in 1 .. requests : Cardinality(SubmissionsOf(r)) <= 1
  /\ \A w \in Workers :
        /\ response[w].lifecycle = "submission_failed_permanent"
             => \A i \in SubmissionsOf(req[w]) : submissions[i].state = "refused"
        /\ response[w].kind # "raised"
  /\ config.executionEnabled => TransientIsRetryable

(* For any number of processes started by routes.py with the same settings *)
(* (one attempt each, no retry policy): what holds under a policy of       *)
(* Orchestrator's choice holds of them without condition.                  *)
THEOREM DeployedProcesses ==
  ASSUME Configs \subseteq Boundary!WiredConfigs
  PROVE  Spec => []DeployedGuarantees
<1> DEFINE Shown == /\ TypeOK /\ SubmissionsWithinPolicy /\ PermanentFailureLeavesNothing
                    /\ LoopsNeverFallThrough /\ OnlySimulatedDiffers
<1>1. Shown => DeployedGuarantees
  <2> SUFFICES ASSUME Shown PROVE DeployedGuarantees
    OBVIOUS
  <2>1. /\ config.maxAttempts = 1
        /\ config.attestation = "dry_run_chain_failing" => ~config.executionEnabled
    BY WiringsFit DEF TypeOK
  <2> QED
    BY <2>1 DEF DeployedGuarantees, SubmissionsWithinPolicy, PermanentFailureLeavesNothing,
                LoopsNeverFallThrough, OnlySimulatedDiffers
<1>2. Spec => []Shown
  BY TypeCorrect, AttemptsAreBounded, PermanentIsFinal, LoopsEnd, OnlySimulationDiffers, PTL
<1> QED
  BY <1>1, <1>2, PTL
=============================================================================
