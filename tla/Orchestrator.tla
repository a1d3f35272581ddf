---------------------------- MODULE Orchestrator ----------------------------
(***************************************************************************)
(* CommandOrchestrator.execute (services/orchestrator.py) in every process *)
(* of a deployment, with what it touches: the manifest store and blob      *)
(* store adapters, and the attestation provider behind the network.        *)
(*                                                                         *)
(* One worker is one gunicorn process ("-w 1": it serves one request at a  *)
(* time); several workers are several instances.  A worker's program       *)
(* counter names the call it is about to make:                             *)
(*                                                                         *)
(*   idle -> integrity -> persist -> blob_check -> blob_write ->           *)
(*           blob_verify -> attest -> await -> done -> (next request)      *)
(*                                                                         *)
(* A manifest stands for its own SHA-256: two manifests have the same hash *)
(* only when they are equal.  A command pairs the manifest hash with the   *)
(* content its canonical_bytes decode to.                                  *)
(***************************************************************************)
EXTENDS Naturals, Sequences, FiniteSets, RetrySemantics

CONSTANTS
  Workers,          \* the processes that serve requests
  Manifests,        \* manifests, each standing for its hash
  Undecodable,      \* canonical_bytes that are not base64 of anything
  Commands,         \* the command results execute() may be called with
  Configs,          \* the wirings the deployment may be started with
  SharedRoot,       \* the local_fs root directory, on a volume all workers mount
  NoBlob, Foreign,  \* no file; a file with bytes this service did not write
  MaxRequests,      \* bound: requests received
  MaxCrashes,       \* bound: process deaths
  MaxForeign        \* bound: changes to the root directory by other programs

BlobAdapters == {"none", "in_memory", "local_fs", "cloud_like"}

(* Adapters that contact a provider, that answer locally with a receipt,   *)
(* and that fail locally; the names are those of AdapterSelection.         *)
NetworkAdapters == {"thronos_network", "rpc_generic"}
LocalReceiptAdapters == {"fake", "dry_run_chain", "rpc_generic_dry_run"}
LocalFailureAdapters == {"thronos_unsigned", "dry_run_chain_exec", "dry_run_chain_failing"}

ConfigType ==
  [executionEnabled : BOOLEAN, blob : BlobAdapters,
   attestation : NetworkAdapters \cup LocalReceiptAdapters \cup LocalFailureAdapters,
   maxAttempts : Nat, storeRaises : SUBSET Exceptions]

ASSUME CommandsAssumption ==
  /\ Commands \subseteq [hash : Manifests, bytes : Manifests \cup {Undecodable}]
  /\ Commands # {}

ASSUME ConfigsAssumption ==
  /\ Configs \subseteq ConfigType
  /\ \A c \in Configs :
        /\ c.attestation \in NetworkAdapters => c.executionEnabled
        /\ c.blob = "cloud_like" => ~c.executionEnabled

ASSUME DistinctAssumption ==
  /\ SharedRoot \notin Workers
  /\ Undecodable \notin Manifests
  /\ NoBlob \notin Manifests /\ Foreign \notin Manifests /\ NoBlob # Foreign

ASSUME BoundsAssumption ==
  MaxRequests \in Nat /\ MaxCrashes \in Nat /\ MaxForeign \in Nat

VARIABLES
  config,       \* the constructor arguments, the same in every process
  pc,           \* [worker -> the call it makes next]
  cmd,          \* [worker -> the command result it executes]
  req,          \* [worker -> the number of the request it serves]
  attempts,     \* [worker -> attempts of the retry loop it is in]
  stored,       \* [worker -> status of the persistence receipt]
  blobReceipt,  \* [worker -> the blob receipt]
  current,      \* [worker -> its latest submission, 0 before the first]
  response,     \* [worker -> what execute returned]
  manifests,    \* [worker -> the hashes in its InMemoryManifestStore]
  blobs,        \* [root -> [blob id -> content]]
  submissions,  \* every submission sent to the provider, in order of sending
  requests, crashes, foreign    \* the counters the bounds apply to

workerVars == <<pc, cmd, req, attempts, stored, blobReceipt, current, response>>
vars == <<config, workerVars, manifests, blobs, submissions, requests, crashes, foreign>>

-----------------------------------------------------------------------------
(* Receipts and responses                                                  *)

(* verified is FALSE both for the source's False and for its None.         *)
BlobReceipt(status, verified, error) ==
  [status |-> status, verified |-> verified, error |-> error]

BlobStatuses == {"none", "not_configured", "skipped_gate", "created",
                 "duplicate", "overwritten", "failed"}
BlobReceiptType ==
  [status : BlobStatuses, verified : BOOLEAN,
   error : {"none", "blob_hash_mismatch", "adapter_error"}]

NoReceipt == BlobReceipt("none", FALSE, "none")

Lifecycles == {"none", "submitted_not_finalized", "submission_rejected",
               "submission_unknown", "submission_failed_retryable",
               "submission_failed_permanent"}

ResponseType ==
  [kind : {"none", "receipt", "error", "raised"},
   stage : {"none", "integrity_binding", "persistence", "attestation"},
   class : FailureClasses \cup {"none"}, lifecycle : Lifecycles, tx : Nat]

NoResponse == [kind |-> "none", stage |-> "none", class |-> "none",
               lifecycle |-> "none", tx |-> 0]
ErrorAt(stage, class, lifecycle) ==
  [kind |-> "error", stage |-> stage, class |-> class, lifecycle |-> lifecycle, tx |-> 0]
ReceiptOf(tx) ==
  [kind |-> "receipt", stage |-> "none", class |-> "none",
   lifecycle |-> "submitted_not_finalized", tx |-> tx]
Raised == [NoResponse EXCEPT !.kind = "raised"]

(* What a failed submit_attestation tells the retry loop.                  *)
FailureType == [class : FailureClasses, lifecycle : Lifecycles, retryable : BOOLEAN]

AdapterError(class, lifecycle) ==
  [class |-> class, lifecycle |-> lifecycle, retryable |-> class = "transient"]
BoundaryError(exc) ==
  [class |-> classify_failure(exc), lifecycle |-> "submission_unknown",
   retryable |-> is_retryable(exc)]

-----------------------------------------------------------------------------
(* The provider, as far as an answer of it can be told apart.              *)
(* A submission is in flight until the provider accepts or refuses it,     *)
(* whether or not anybody still waits for the answer.                      *)

SubmissionType ==
  [req : Nat, cmd : Commands, state : {"in_flight", "accepted", "refused"},
   seen : {"waiting", "receipt", "abandoned"} \cup FailureClasses]

(* Defect: a lost answer reported as a permanent failure.                  *)
LostAnswersArePermanent ==
  {AdapterError("permanent", "submission_failed_permanent"),
   AdapterError("unknown", "submission_unknown")}

(* Timeout, URLError or HTTP 5xx; a reset connection or a body that is not *)
(* JSON.  None of them says what became of the submission.                 *)
LostAnswers == {AdapterError("transient", "submission_failed_retryable"),
                AdapterError("unknown", "submission_unknown")}

(* A document that came back and fails the response validation.            *)
MalformedAnswer == AdapterError("permanent", "submission_unknown")

(* An accepted submission answered with a status outside the list that     *)
(* _validate_rest_submission_result knows.                                 *)
UnlistedStatus == AdapterError("permanent", "submission_rejected")

(* Thronos: HTTP 400, other 4xx and status "rejected".  The generic RPC    *)
(* adapter has no HTTPError branch: an HTTP 4xx is a URLError to it (in    *)
(* LostAnswers), and a refusal is the JSON-RPC error object.               *)
Refusals(adapter) ==
  {AdapterError("permanent", "submission_failed_permanent")} \cup
  (IF adapter = "thronos_network"
   THEN {AdapterError("permanent", "submission_rejected")} ELSE {})

FailedAnswers(adapter, state) ==
  LostAnswers \cup
  (CASE state = "in_flight" -> {}
     [] state = "accepted"  -> {MalformedAnswer} \cup
          (IF adapter = "thronos_network" THEN {UnlistedStatus} ELSE {})
     [] state = "refused"   -> {MalformedAnswer} \cup Refusals(adapter))

(* Defect: a lifecycle state outside the receipt contract.                 *)
LocalFailureUntyped(adapter) ==
  CASE adapter = "thronos_unsigned" -> AdapterError("permanent", "submission_failed")
    [] OTHER                        -> BoundaryError("other")

(* The failures raised before anything is sent.                            *)
LocalFailure(adapter) ==
  CASE adapter = "thronos_unsigned"      -> AdapterError("permanent", "submission_failed_permanent")
    [] adapter = "dry_run_chain_exec"    -> BoundaryError("other")
    [] adapter = "dry_run_chain_failing" -> BoundaryError("TimeoutError")

-----------------------------------------------------------------------------
Root(w) == IF config.blob = "local_fs" THEN SharedRoot ELSE w

(* Defect: the execution gate is forgotten.                                *)
GuardedUngated == config.blob # "none"

Guarded == config.blob # "none" /\ config.executionEnabled

(* Defect: the check only decodes the bytes and hashes nothing.            *)
BindingDecodes(c) == c.bytes # Undecodable

(* _validate_manifest_binding                                              *)
BindingHolds(c) == c.bytes = c.hash

(* Defects: off by one; the failure class is ignored.                      *)
MayTryOnceMore(retryable, n) == retryable /\ n <= config.maxAttempts
MayAlwaysTryAgain(retryable, n) == n < config.maxAttempts

MayTryAgain(retryable, n) == retryable /\ n < config.maxAttempts

Labels == {"idle", "integrity", "persist", "blob_check", "blob_write", "blob_verify",
           "attest", "await", "done"}

TypeOK ==
  /\ config \in Configs
  /\ pc \in [Workers -> Labels]
  /\ cmd \in [Workers -> Commands]
  /\ req \in [Workers -> Nat]
  /\ attempts \in [Workers -> Nat]
  /\ stored \in [Workers -> {"none", "created", "duplicate"}]
  /\ blobReceipt \in [Workers -> BlobReceiptType]
  /\ current \in [Workers -> Nat]
  /\ response \in [Workers -> ResponseType]
  /\ manifests \in [Workers -> SUBSET Manifests]
  /\ blobs \in [Workers \cup {SharedRoot} -> [Manifests -> Manifests \cup {NoBlob, Foreign}]]
  /\ submissions \in Seq(SubmissionType)
  /\ requests \in Nat /\ crashes \in Nat /\ foreign \in Nat

AnyCommand == CHOOSE c \in Commands : TRUE    \* of a worker that has served none
EmptyRoot == [h \in Manifests |-> NoBlob]

Init ==
  /\ config \in Configs
  /\ pc = [w \in Workers |-> "idle"]
  /\ cmd = [w \in Workers |-> AnyCommand]
  /\ req = [w \in Workers |-> 0]
  /\ attempts = [w \in Workers |-> 0]
  /\ stored = [w \in Workers |-> "none"]
  /\ blobReceipt = [w \in Workers |-> NoReceipt]
  /\ current = [w \in Workers |-> 0]
  /\ response = [w \in Workers |-> NoResponse]
  /\ manifests = [w \in Workers |-> {}]
  /\ blobs = [r \in Workers \cup {SharedRoot} |-> EmptyRoot]
  /\ submissions = <<>>
  /\ requests = 0 /\ crashes = 0 /\ foreign = 0

At(w, label) == pc[w] = label
Goto(w, label) == pc' = [pc EXCEPT ![w] = label]

Respond(w, r) == Goto(w, "done") /\ response' = [response EXCEPT ![w] = r]

-----------------------------------------------------------------------------
(* execute: a request arrives, and the integrity check                     *)

Receive(w, c) ==
  /\ pc[w] \in {"idle", "done"}
  /\ requests < MaxRequests
  /\ requests' = requests + 1
  /\ req' = [req EXCEPT ![w] = requests + 1]
  /\ cmd' = [cmd EXCEPT ![w] = c]
  /\ attempts' = [attempts EXCEPT ![w] = 0]
  /\ stored' = [stored EXCEPT ![w] = "none"]
  /\ blobReceipt' = [blobReceipt EXCEPT ![w] = NoReceipt]
  /\ current' = [current EXCEPT ![w] = 0]
  /\ response' = [response EXCEPT ![w] = NoResponse]
  /\ Goto(w, "integrity")
  /\ UNCHANGED <<config, manifests, blobs, submissions, crashes, foreign>>

(* Defect: with the gate closed, the manifest is not persisted either.     *)
CheckIntegritySkipsStore(w) ==
  /\ At(w, "integrity")
  /\ Goto(w, IF Guarded THEN "persist" ELSE "blob_check")
  /\ UNCHANGED <<config, cmd, req, attempts, stored, blobReceipt, current, response,
                 manifests, blobs, submissions, requests, crashes, foreign>>

CheckIntegrity(w) ==
  /\ At(w, "integrity")
  /\ IF Guarded /\ ~BindingHolds(cmd[w])
     THEN Respond(w, ErrorAt("integrity_binding", "permanent", "none"))
     ELSE Goto(w, "persist") /\ UNCHANGED response
  /\ UNCHANGED <<config, cmd, req, attempts, stored, blobReceipt, current, manifests,
                 blobs, submissions, requests, crashes, foreign>>

-----------------------------------------------------------------------------
(* _persist_with_policy                                                    *)

(* put_manifest_if_absent returns: the loop is left with a receipt, and    *)
(* the attestation loop will count its own attempts.                       *)
Persist(w) ==
  /\ At(w, "persist")
  /\ attempts[w] < config.maxAttempts
  /\ stored' = [stored EXCEPT ![w] =
                  IF cmd[w].hash \in manifests[w] THEN "duplicate" ELSE "created"]
  /\ manifests' = [manifests EXCEPT ![w] = @ \cup {cmd[w].hash}]
  /\ attempts' = [attempts EXCEPT ![w] = 0]
  /\ Goto(w, "blob_check")
  /\ UNCHANGED <<config, cmd, req, blobReceipt, current, response, blobs, submissions,
                 requests, crashes, foreign>>

PersistRaises(w, exc) ==
  /\ At(w, "persist")
  /\ attempts[w] < config.maxAttempts
  /\ attempts' = [attempts EXCEPT ![w] = @ + 1]
  /\ IF MayTryAgain(is_retryable(exc), attempts[w] + 1)
     THEN UNCHANGED <<pc, response>>
     ELSE Respond(w, ErrorAt("persistence", classify_failure(exc), "none"))
  /\ UNCHANGED <<config, cmd, req, stored, blobReceipt, current, manifests, blobs,
                 submissions, requests, crashes, foreign>>

(* Either loop ends without an answer: raise RuntimeError("unreachable..."). *)
(* routes.py catches only ValueError, so the request ends in HTTP 500.     *)
LoopFallsThrough(w) ==
  /\ pc[w] \in {"persist", "attest"}
  /\ ~(attempts[w] < config.maxAttempts)
  /\ Respond(w, Raised)
  /\ UNCHANGED <<config, cmd, req, attempts, stored, blobReceipt, current, manifests,
                 blobs, submissions, requests, crashes, foreign>>

-----------------------------------------------------------------------------
(* _maybe_write_blob.  Its receipt is never looked at: whatever it says,   *)
(* the worker goes on to the attestation.                                  *)

FinishBlob(w, status, verified, error) ==
  /\ blobReceipt' = [blobReceipt EXCEPT ![w] = BlobReceipt(status, verified, error)]
  /\ Goto(w, "attest")

(* What every blob step leaves alone.                                      *)
BlobFrame == <<config, cmd, req, attempts, stored, current, response, manifests,
               submissions, requests, crashes>>

SkipBlob(w) ==
  /\ At(w, "blob_check")
  /\ ~Guarded
  /\ FinishBlob(w, IF config.blob = "none" THEN "not_configured" ELSE "skipped_gate",
                FALSE, "none")
  /\ UNCHANGED <<BlobFrame, blobs, foreign>>

(* The second comparison of the hash, then the first half of put_blob:     *)
(* what is stored under the blob id decides the status, and equal bytes    *)
(* are not written again.                                                  *)
CheckExisting(w) ==
  /\ At(w, "blob_check")
  /\ Guarded
  /\ LET existing == blobs[Root(w)][cmd[w].hash] IN
     IF ~BindingHolds(cmd[w])
     THEN FinishBlob(w, "failed", FALSE, "blob_hash_mismatch")
     ELSE /\ blobReceipt' = [blobReceipt EXCEPT ![w] = BlobReceipt(
                CASE existing = NoBlob      -> "created"
                  [] existing = cmd[w].hash -> "duplicate"
                  [] OTHER                  -> "overwritten", FALSE, "none")]
          /\ Goto(w, IF existing = cmd[w].hash THEN "blob_verify" ELSE "blob_write")
  /\ UNCHANGED <<BlobFrame, blobs, foreign>>

(* Defect: the old file is removed before the new one is in place.         *)
ReplaceBlobInPlace(w) ==
  /\ At(w, "blob_write")
  /\ LET there == blobs[Root(w)][cmd[w].hash] IN
     /\ blobs' = [blobs EXCEPT ![Root(w)][cmd[w].hash] =
                     IF there = NoBlob THEN cmd[w].bytes ELSE NoBlob]
     /\ Goto(w, IF there = NoBlob THEN "blob_verify" ELSE "blob_write")
  /\ UNCHANGED <<BlobFrame, blobReceipt, foreign>>

(* The second half of put_blob: os.replace, or the dict assignment.        *)
ReplaceBlob(w) ==
  /\ At(w, "blob_write")
  /\ blobs' = [blobs EXCEPT ![Root(w)][cmd[w].hash] = cmd[w].bytes]
  /\ Goto(w, "blob_verify")
  /\ UNCHANGED <<BlobFrame, blobReceipt, foreign>>

(* get_blob and the comparison of the hash of what it read.                *)
VerifyBlob(w) ==
  /\ At(w, "blob_verify")
  /\ LET read == blobs[Root(w)][cmd[w].hash] IN
     CASE read = NoBlob      -> FinishBlob(w, "failed", FALSE, "adapter_error")
       [] read = cmd[w].hash -> FinishBlob(w, blobReceipt[w].status, TRUE, "none")
       [] OTHER              -> FinishBlob(w, "failed", FALSE, "blob_hash_mismatch")
  /\ UNCHANGED <<BlobFrame, blobs, foreign>>

(* local_fs only: a blob over the size limit, a directory that cannot be   *)
(* read or written (LocalFileBlobStorage raises from put_blob or get_blob). *)
BlobAdapterRaises(w) ==
  /\ pc[w] \in {"blob_check", "blob_write", "blob_verify"}
  /\ Guarded /\ config.blob = "local_fs"
  /\ FinishBlob(w, "failed", FALSE, "adapter_error")
  /\ UNCHANGED <<BlobFrame, blobs, foreign>>

-----------------------------------------------------------------------------
(* _attest_with_policy                                                     *)

AttestFrame == <<config, cmd, req, stored, blobReceipt, manifests, blobs, requests,
                 crashes, foreign>>

(* submit_attestation failed: the next turn of the loop, or the error.     *)
SubmitFailed(w, failure, n) ==
  IF MayTryAgain(failure.retryable, n)
  THEN Goto(w, "attest") /\ UNCHANGED response
  ELSE Respond(w, ErrorAt("attestation", failure.class, failure.lifecycle))

(* Defect: the loop goes around without counting.                          *)
AttestLocallyUncounted(w) ==
  /\ At(w, "attest")
  /\ attempts[w] < config.maxAttempts
  /\ config.attestation \notin NetworkAdapters
  /\ attempts' = attempts
  /\ IF config.attestation \in LocalReceiptAdapters
     THEN Respond(w, ReceiptOf(0))
     ELSE SubmitFailed(w, LocalFailure(config.attestation), attempts[w])
  /\ UNCHANGED <<AttestFrame, current, submissions>>

(* An adapter that contacts nobody.                                        *)
AttestLocally(w) ==
  /\ At(w, "attest")
  /\ attempts[w] < config.maxAttempts
  /\ config.attestation \notin NetworkAdapters
  /\ attempts' = [attempts EXCEPT ![w] = @ + 1]
  /\ IF config.attestation \in LocalReceiptAdapters
     THEN Respond(w, ReceiptOf(0))
     ELSE SubmitFailed(w, LocalFailure(config.attestation), attempts[w] + 1)
  /\ UNCHANGED <<AttestFrame, current, submissions>>

Submission(w) ==
  [req |-> req[w], cmd |-> cmd[w], state |-> "in_flight", seen |-> "waiting"]

(* Defect: attempts on the network are not counted.                        *)
SubmitUncounted(w) ==
  /\ At(w, "attest")
  /\ config.attestation \in NetworkAdapters
  /\ submissions' = Append(submissions, Submission(w))
  /\ current' = [current EXCEPT ![w] = Len(submissions) + 1]
  /\ Goto(w, "await")
  /\ UNCHANGED <<AttestFrame, attempts, response>>

(* The POST leaves for the provider.                                       *)
Submit(w) ==
  /\ At(w, "attest")
  /\ attempts[w] < config.maxAttempts
  /\ config.attestation \in NetworkAdapters
  /\ attempts' = [attempts EXCEPT ![w] = @ + 1]
  /\ submissions' = Append(submissions, Submission(w))
  /\ current' = [current EXCEPT ![w] = Len(submissions) + 1]
  /\ Goto(w, "await")
  /\ UNCHANGED <<AttestFrame, response>>

(* Defect: the answer may be that of an attempt that was given up.         *)
ReceiveReceiptOfAnyAttempt(w) ==
  /\ At(w, "await")
  /\ \E i \in DOMAIN submissions :
       /\ submissions[i].req = req[w] /\ submissions[i].state = "accepted"
       /\ submissions' = [submissions EXCEPT ![i].seen = "receipt"]
       /\ Respond(w, ReceiptOf(i))
  /\ UNCHANGED <<AttestFrame, attempts, current>>

(* A validated answer; its tx_hash names the submission that was accepted. *)
ReceiveReceipt(w) ==
  /\ At(w, "await")
  /\ submissions[current[w]].state = "accepted"
  /\ submissions' = [submissions EXCEPT ![current[w]].seen = "receipt"]
  /\ Respond(w, ReceiptOf(current[w]))
  /\ UNCHANGED <<AttestFrame, attempts, current>>

ReceiveFailure(w, failure) ==
  /\ At(w, "await")
  /\ failure \in FailedAnswers(config.attestation, submissions[current[w]].state)
  /\ submissions' = [submissions EXCEPT ![current[w]].seen = failure.class]
  /\ SubmitFailed(w, failure, attempts[w])
  /\ UNCHANGED <<AttestFrame, attempts, current>>

-----------------------------------------------------------------------------
(* The world around the workers                                            *)

ProviderDecides(i, verdict) ==
  /\ submissions[i].state = "in_flight"
  /\ submissions' = [submissions EXCEPT ![i].state = verdict]
  /\ UNCHANGED <<config, workerVars, manifests, blobs, requests, crashes, foreign>>

(* The process dies: killed by gunicorn's timeout, by a deployment or by   *)
(* the platform.  Its memory goes; files and submissions stay.             *)
Crash(w) ==
  /\ crashes < MaxCrashes
  /\ crashes' = crashes + 1
  /\ Goto(w, "idle")
  /\ manifests' = [manifests EXCEPT ![w] = {}]
  /\ blobs' = [blobs EXCEPT ![w] = EmptyRoot]
  /\ attempts' = [attempts EXCEPT ![w] = 0]
  /\ stored' = [stored EXCEPT ![w] = "none"]
  /\ blobReceipt' = [blobReceipt EXCEPT ![w] = NoReceipt]
  /\ current' = [current EXCEPT ![w] = 0]
  /\ response' = [response EXCEPT ![w] = NoResponse]
  /\ submissions' = IF At(w, "await")
                    THEN [submissions EXCEPT ![current[w]].seen = "abandoned"]
                    ELSE submissions
  /\ UNCHANGED <<config, cmd, req, requests, foreign>>

(* Another program with access to the volume replaces or removes a file.   *)
ForeignWrite(h, content) ==
  /\ config.blob = "local_fs"
  /\ foreign < MaxForeign
  /\ foreign' = foreign + 1
  /\ blobs' = [blobs EXCEPT ![SharedRoot][h] = content]
  /\ UNCHANGED <<config, workerVars, manifests, submissions, requests, crashes>>

Step(w) ==
  \/ CheckIntegrity(w)
  \/ Persist(w)
  \/ \E exc \in config.storeRaises : PersistRaises(w, exc)
  \/ LoopFallsThrough(w)
  \/ SkipBlob(w) \/ CheckExisting(w) \/ ReplaceBlob(w) \/ VerifyBlob(w)
  \/ BlobAdapterRaises(w)
  \/ AttestLocally(w) \/ Submit(w) \/ ReceiveReceipt(w)
  \/ \E failure \in FailureType : ReceiveFailure(w, failure)

Next ==
  \/ \E w \in Workers : Step(w)
  \/ \E w \in Workers, c \in Commands : Receive(w, c)
  \/ \E i \in DOMAIN submissions, verdict \in {"accepted", "refused"} :
        ProviderDecides(i, verdict)
  \/ \E w \in Workers : Crash(w)
  \/ \E h \in Manifests, content \in {NoBlob, Foreign} : ForeignWrite(h, content)

Spec == Init /\ [][Next]_vars

(* A running process keeps executing its request, and urlopen(timeout=10)  *)
(* turns the wait for an answer into an answer or an exception.  Nothing   *)
(* is assumed of clients, of the provider or of crashes.                   *)
Fairness == \A w \in Workers : WF_vars(Step(w))
FairSpec == Spec /\ Fairness

-----------------------------------------------------------------------------
(* Properties                                                              *)

(* What is written to a blob store or reaches the provider has been        *)
(* persisted first: a worker past _persist_with_policy holds the manifest  *)
(* in its store (and no later step of any worker takes it away).           *)
PersistedBeforeSubmitted ==
  \A w \in Workers :
     pc[w] \in {"blob_check", "blob_write", "blob_verify", "attest", "await"}
       => stored[w] # "none" /\ cmd[w].hash \in manifests[w]

(* docs/m8.2: the integrity binding runs before any side effect.  With a   *)
(* blob store and the gate open, no submission of any request, past or     *)
(* present, carries a hash other than that of its canonical bytes, and a   *)
(* worker past the check never reaches the second comparison's failure.    *)
BoundBeforeSideEffects ==
  Guarded =>
    /\ \A i \in DOMAIN submissions : submissions[i].cmd.bytes = submissions[i].cmd.hash
    /\ \A w \in Workers :
          pc[w] \notin {"idle", "integrity", "done"} => cmd[w].bytes = cmd[w].hash

(* The blob store is content addressed: whatever the interleaving of the   *)
(* processes sharing a root, a file holds the bytes its name is the hash   *)
(* of, unless another program changed it.                                  *)
ContentAddressed ==
  \A r \in Workers \cup {SharedRoot}, h \in Manifests :
     blobs[r][h] \in {NoBlob, h} \cup (IF foreign = 0 THEN {} ELSE {Foreign})

(* docs/m7, m8.1: a closed gate means no write and no provider contact,    *)
(* in whichever wiring the process was started.                            *)
GateClosedIsInert ==
  ~config.executionEnabled =>
    /\ submissions = <<>>
    /\ \A r \in Workers \cup {SharedRoot}, h \in Manifests : blobs[r][h] \in {NoBlob, Foreign}

(* A verified blob receipt tells of a blob that is there: no interleaving  *)
(* of the other processes takes it away while the request is alive.        *)
VerifiedBlobStays ==
  foreign = 0 =>
    \A w \in Workers :
       blobReceipt[w].verified => blobs[Root(w)][cmd[w].hash] = cmd[w].hash

(* A receipt is of an accepted submission of this very request, and of the *)
(* one whose answer was read.                                              *)
ReceiptOnRecord ==
  \A w \in Workers :
     response[w].tx # 0 =>
       /\ response[w].tx \in DOMAIN submissions
       /\ submissions[response[w].tx].state = "accepted"
       /\ submissions[response[w].tx].req = req[w]
       /\ submissions[response[w].tx].cmd = cmd[w]
       /\ submissions[response[w].tx].seen = "receipt"

SubmissionsOf(r) == {i \in DOMAIN submissions : submissions[i].req = r}

(* A receipt with a transaction hash is backed by a transaction of this    *)
(* very request on the provider's side, and by its last attempt: every     *)
(* other one came before and was given up as a transient failure, and      *)
(* although the provider may accept it later, its transaction is never the *)
(* one in the receipt.                                                     *)
ReceiptBacked ==
  /\ ReceiptOnRecord
  /\ \A w \in Workers :
       response[w].tx # 0 =>
         \A i \in SubmissionsOf(req[w]) \ {response[w].tx} :
            i < response[w].tx /\ submissions[i].seen = "transient"

(* No request, served, answered or lost with its process, ever sends more  *)
(* submissions than the policy's attempts, whatever is lost or late.       *)
SubmissionsWithinPolicy ==
  \A r \in 1 .. requests : Cardinality(SubmissionsOf(r)) <= config.maxAttempts

(* A request submits again only after an attempt that failed transiently:  *)
(* never after a receipt, a refusal, an unknown outcome or a crash, and    *)
(* never while an answer is still awaited.                                 *)
RetriedOnlyWhenTransient ==
  \A i, j \in DOMAIN submissions :
     i < j /\ submissions[i].req = submissions[j].req
       => submissions[i].seen = "transient"

(* docs/m10.2: submission_failed_permanent is final.  With the default     *)
(* policy of one attempt such a response leaves no transaction behind,     *)
(* now or when the provider gets to a delayed submission.                  *)
PermanentFailureLeavesNothing ==
  config.maxAttempts = 1 =>
    \A w \in Workers :
       response[w].lifecycle = "submission_failed_permanent"
         => \A i \in SubmissionsOf(req[w]) : submissions[i].state = "refused"

(* The code's own claim, raise RuntimeError("unreachable_..._loop"), for   *)
(* any policy that allows an attempt.                                      *)
LoopsNeverFallThrough ==
  config.maxAttempts # 0 => \A w \in Workers : response[w].kind # "raised"

(* A request that was received is answered, unless its process dies.       *)
EveryRequestAnswered ==
  \A w \in Workers : pc[w] = "integrity" ~> pc[w] \in {"done", "idle"}

(* docs/m8.2: "Post-write verification reads the blob and re-hashes it;    *)
(* mismatch fails hard."  A request that saw the mismatch does not end in  *)
(* an attestation receipt.                                                 *)
MismatchFailsHard ==
  \A w \in Workers :
     blobReceipt[w].error = "blob_hash_mismatch" => response[w].kind # "receipt"

(* docs/m10.2: submission_failed_retryable is the lifecycle of a transient *)
(* failure.                                                                *)
TransientIsRetryable ==
  \A w \in Workers :
     response[w].stage = "attestation" /\ response[w].class = "transient"
       => response[w].lifecycle = "submission_failed_retryable"

(* The orchestrator implements RequestLifecycle: with every adapter, retry *)
(* policy, lost answer and death of a process, a request is sent only when *)
(* its manifest is kept, again only when all its earlier attempts failed   *)
(* transiently and the policy has one left, and is answered with no more   *)
(* than the provider said of its own attempts.                             *)
PhaseOf(label) ==
  CASE label = "idle"                   -> "idle"
    [] label \in {"integrity", "persist"} -> "received"
    [] label = "done"                   -> "answered"
    [] OTHER                            -> "kept"

AnswerOf(r) ==
  [outcome |-> CASE r.kind = "none"                               -> "none"
                 [] r.kind = "receipt"                            -> "receipt"
                 [] r.lifecycle = "submission_failed_permanent"   -> "refused"
                 [] OTHER                                         -> "error",
   tx |-> r.tx]

LedgerEntry(s) ==
  [req |-> s.req, cmd |-> s.cmd, state |-> s.state,
   fate |-> IF s.seen = "transient" THEN "given_up" ELSE "standing"]

Phases == [w \in Workers |-> PhaseOf(pc[w])]
Answers == [w \in Workers |-> AnswerOf(response[w])]
Ledger == [i \in DOMAIN submissions |-> LedgerEntry(submissions[i])]

Promised == INSTANCE RequestLifecycle WITH
  limit <- config.maxAttempts, received <- requests, phase <- Phases, number <- req,
  doing <- cmd, kept <- manifests, answer <- Answers, ledger <- Ledger

LifecycleImplemented == Promised!Spec

-----------------------------------------------------------------------------
(* The inductive strengthening the proofs use                              *)

BeforeAttest == {"integrity", "persist", "blob_check", "blob_write", "blob_verify"}

(* A waiting worker waits for a submission of its own request.             *)
AwaitsOwnSubmission ==
  \A w \in Workers :
     pc[w] = "await" =>
       /\ current[w] \in DOMAIN submissions
       /\ submissions[current[w]].req = req[w]
       /\ submissions[current[w]].cmd = cmd[w]
       /\ submissions[current[w]].seen = "waiting"

(* Request numbers tell the requests of all workers apart.                 *)
RequestsNumbered ==
  /\ \A w \in Workers : req[w] <= requests /\ (pc[w] # "idle" => req[w] # 0)
  /\ \A i \in DOMAIN submissions :
        submissions[i].req # 0 /\ submissions[i].req <= requests
  /\ \A v, w \in Workers : v # w /\ req[v] = req[w] => req[v] = 0

(* What a request has sent before the step it is at.                       *)
EarlierAttemptsFailed ==
  \A w \in Workers, i \in DOMAIN submissions :
     submissions[i].req = req[w] =>
       /\ pc[w] \notin BeforeAttest
       /\ pc[w] = "attest" => submissions[i].seen = "transient"
       /\ pc[w] = "await" /\ i # current[w] => submissions[i].seen = "transient"

(* The steps of put_blob and get_blob are reached past both checks.        *)
BlobStepsGuarded ==
  \A w \in Workers :
     pc[w] \in {"blob_write", "blob_verify"} => Guarded /\ BindingHolds(cmd[w])

(* The attempt counter of the loop a worker is in, or about to enter.      *)
AttemptsLeft ==
  config.maxAttempts # 0 =>
    \A w \in Workers :
      /\ pc[w] \in BeforeAttest \ {"persist"} => attempts[w] = 0
      /\ pc[w] \in {"persist", "attest"} => attempts[w] < config.maxAttempts

IInv ==
  /\ TypeOK
  /\ AwaitsOwnSubmission
  /\ BlobStepsGuarded
  /\ RequestsNumbered
  /\ EarlierAttemptsFailed
  /\ RetriedOnlyWhenTransient
  /\ ReceiptOnRecord
  /\ PersistedBeforeSubmitted
  /\ BoundBeforeSideEffects
  /\ AttemptsLeft
  /\ LoopsNeverFallThrough
=============================================================================
