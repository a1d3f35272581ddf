------------------------- MODULE OrchestratorProofs -------------------------
(***************************************************************************)
(* Proofs about Orchestrator, for every set of workers, manifests and      *)
(* wirings and every value of the bounds.                                  *)
(***************************************************************************)
EXTENDS Orchestrator, TLAPS

(* Replacing an element of a sequence leaves a sequence of the same length. *)
LEMMA SeqUpdate ==
  ASSUME NEW S, NEW s \in Seq(S), NEW i \in DOMAIN s, NEW e \in S
  PROVE  /\ [s EXCEPT ![i] = e] \in Seq(S)
         /\ DOMAIN [s EXCEPT ![i] = e] = DOMAIN s
         /\ Len([s EXCEPT ![i] = e]) = Len(s)
  OBVIOUS

(* Appending adds one index and leaves the others as they were.            *)
LEMMA SeqAppend ==
  ASSUME NEW S, NEW s \in Seq(S), NEW e \in S
  PROVE  /\ Append(s, e) \in Seq(S)
         /\ DOMAIN Append(s, e) = DOMAIN s \cup {Len(s) + 1}
         /\ Len(s) + 1 \notin DOMAIN s
         /\ Append(s, e)[Len(s) + 1] = e
         /\ \A i \in DOMAIN s : Append(s, e)[i] = s[i]
  OBVIOUS

(* A worker's own steps fall into those that leave the submissions alone   *)
(* and the three that talk to the provider.                                *)
LEMMA ConfigFixed ==
  Next => config' = config
  BY DEF Next, Step, CheckIntegrity, Persist, PersistRaises, LoopFallsThrough, SkipBlob,
         CheckExisting, ReplaceBlob, VerifyBlob, BlobAdapterRaises, AttestLocally, Submit,
         ReceiveReceipt, ReceiveFailure, Receive, ProviderDecides, Crash, ForeignWrite,
         BlobFrame, AttestFrame, workerVars

LEMMA AnyCommandType == AnyCommand \in Commands
  BY CommandsAssumption DEF AnyCommand

LEMMA FailureTyped ==
  /\ \A exc \in Exceptions : classify_failure(exc) \in FailureClasses
  /\ \A exc \in Exceptions : BoundaryError(exc) \in FailureType
  /\ \A a \in LocalFailureAdapters : LocalFailure(a) \in FailureType
  BY DEF Exceptions, classify_failure, FailureClasses, BoundaryError, FailureType,
         is_retryable, Lifecycles, LocalFailureAdapters, LocalFailure, AdapterError

(* What the record constructors return.                                    *)
LEMMA RecordsTyped ==
  /\ \A stage \in {"integrity_binding", "persistence", "attestation"},
        class \in FailureClasses, lifecycle \in Lifecycles :
        ErrorAt(stage, class, lifecycle) \in ResponseType
  /\ \A n \in Nat : ReceiptOf(n) \in ResponseType
  /\ Raised \in ResponseType /\ NoResponse \in ResponseType
  /\ \A status \in BlobStatuses, verified \in BOOLEAN,
        error \in {"none", "blob_hash_mismatch", "adapter_error"} :
        BlobReceipt(status, verified, error) \in BlobReceiptType
  /\ NoReceipt \in BlobReceiptType
  BY DEF ErrorAt, ReceiptOf, Raised, NoResponse, ResponseType, Lifecycles, FailureClasses,
         BlobReceipt, BlobReceiptType, BlobStatuses, NoReceipt

LEMMA SubmissionsTyped ==
  ASSUME NEW s \in SubmissionType
  PROVE  /\ \A x \in {"waiting", "receipt", "abandoned"} \cup FailureClasses :
               [s EXCEPT !.seen = x] \in SubmissionType
         /\ \A x \in {"accepted", "refused"} : [s EXCEPT !.state = x] \in SubmissionType
  BY DEF SubmissionType

(* The ways in which a worker's part of the state is updated.              *)
LEMMA RespondTyped ==
  ASSUME TypeOK, NEW w \in Workers, NEW r \in ResponseType, Respond(w, r)
  PROVE  /\ pc' \in [Workers -> Labels]
         /\ response' \in [Workers -> ResponseType]
  BY DEF TypeOK, Respond, Goto, Labels

LEMMA FinishBlobTyped ==
  ASSUME TypeOK, NEW w \in Workers, NEW status \in BlobStatuses, NEW verified \in BOOLEAN,
         NEW error \in {"none", "blob_hash_mismatch", "adapter_error"},
         FinishBlob(w, status, verified, error)
  PROVE  /\ pc' \in [Workers -> Labels]
         /\ blobReceipt' \in [Workers -> BlobReceiptType]
<1>1. BlobReceipt(status, verified, error) \in BlobReceiptType
  BY RecordsTyped
<1> QED
  BY <1>1 DEF TypeOK, FinishBlob, Goto, Labels

LEMMA SeenTyped ==
  ASSUME TypeOK, NEW i \in DOMAIN submissions,
         NEW x \in {"waiting", "receipt", "abandoned"} \cup FailureClasses
  PROVE  [submissions EXCEPT ![i].seen = x] \in Seq(SubmissionType)
<1>1. submissions[i] \in SubmissionType
  BY DEF TypeOK
<1>2. [submissions[i] EXCEPT !.seen = x] \in SubmissionType
  BY <1>1, SubmissionsTyped
<1>3. [submissions EXCEPT ![i] = [submissions[i] EXCEPT !.seen = x]] \in Seq(SubmissionType)
  BY <1>2, SeqUpdate DEF TypeOK
<1> QED
  BY <1>3

LEMMA StateTyped ==
  ASSUME TypeOK, NEW i \in DOMAIN submissions, NEW x \in {"accepted", "refused"}
  PROVE  [submissions EXCEPT ![i].state = x] \in Seq(SubmissionType)
<1>1. submissions[i] \in SubmissionType
  BY DEF TypeOK
<1>2. [submissions[i] EXCEPT !.state = x] \in SubmissionType
  BY <1>1, SubmissionsTyped
<1>3. [submissions EXCEPT ![i] = [submissions[i] EXCEPT !.state = x]] \in Seq(SubmissionType)
  BY <1>2, SeqUpdate DEF TypeOK
<1> QED
  BY <1>3

-----------------------------------------------------------------------------
(* Type correctness *)

LEMMA TypeInit == Init => TypeOK
  BY AnyCommandType, ConfigsAssumption, RecordsTyped DEF Init, TypeOK, EmptyRoot, Labels

LEMMA TypeStep ==
  ASSUME TypeOK, AwaitsOwnSubmission, BlobStepsGuarded, [Next]_vars
  PROVE  TypeOK'
<1>c. config \in ConfigType
  BY ConfigsAssumption DEF TypeOK
<1>d. /\ {"permanent", "transient", "unknown"} \subseteq FailureClasses
      /\ "none" \in Lifecycles
      /\ BlobStatuses = {"none", "not_configured", "skipped_gate", "created",
                 "duplicate", "overwritten", "failed"}
  BY DEF FailureClasses, Lifecycles, BlobStatuses
<1>1. ASSUME NEW w \in Workers, CheckIntegrity(w) PROVE TypeOK'
  <2> DEFINE r == ErrorAt("integrity_binding", "permanent", "none")
  <2>1. r \in ResponseType
    BY <1>d, RecordsTyped
  <2> HIDE DEF r
  <2>2. CASE Respond(w, r)
    BY <1>1, <2>1, <2>2, RespondTyped DEF CheckIntegrity, TypeOK
  <2>3. CASE Goto(w, "persist") /\ UNCHANGED response
    BY <1>1, <2>3 DEF CheckIntegrity, TypeOK, Goto, Labels
  <2> QED
    BY <1>1, <2>2, <2>3 DEF CheckIntegrity, r
<1>2. ASSUME NEW w \in Workers, Persist(w) PROVE TypeOK'
  BY <1>2, CommandsAssumption DEF Persist, TypeOK, Goto, Labels
<1>3. ASSUME NEW w \in Workers, NEW exc \in config.storeRaises, PersistRaises(w, exc) PROVE TypeOK'
  <2> DEFINE r == ErrorAt("persistence", classify_failure(exc), "none")
  <2>1. r \in ResponseType
    BY <1>c, <1>d, RecordsTyped, FailureTyped DEF ConfigType
  <2> HIDE DEF r
  <2>2. CASE Respond(w, r)
    BY <1>3, <2>1, <2>2, RespondTyped DEF PersistRaises, TypeOK
  <2>3. CASE UNCHANGED <<pc, response>>
    BY <1>3, <2>3 DEF PersistRaises, TypeOK
  <2> QED
    BY <1>3, <2>2, <2>3 DEF PersistRaises, r
<1>4. ASSUME NEW w \in Workers, LoopFallsThrough(w) PROVE TypeOK'
  BY <1>4, RecordsTyped, RespondTyped DEF LoopFallsThrough, TypeOK
<1>5. ASSUME NEW w \in Workers, SkipBlob(w) PROVE TypeOK'
  <2>1. PICK status \in BlobStatuses : FinishBlob(w, status, FALSE, "none")
    BY <1>5, <1>d DEF SkipBlob
  <2> QED
    BY <1>5, <2>1, FinishBlobTyped DEF SkipBlob, BlobFrame, TypeOK
<1>6. ASSUME NEW w \in Workers, CheckExisting(w) PROVE TypeOK'
  <2> DEFINE status == CASE blobs[Root(w)][cmd[w].hash] = NoBlob      -> "created"
                         [] blobs[Root(w)][cmd[w].hash] = cmd[w].hash -> "duplicate"
                         [] OTHER                                     -> "overwritten"
  <2>1. status \in BlobStatuses
    BY <1>d
  <2>2. CASE ~BindingHolds(cmd[w])
    <3>1. FinishBlob(w, "failed", FALSE, "blob_hash_mismatch")
      BY <1>6, <2>2 DEF CheckExisting
    <3> QED
      BY <1>6, <1>d, <3>1, FinishBlobTyped DEF CheckExisting, BlobFrame, TypeOK
  <2>3. CASE BindingHolds(cmd[w])
    <3>1. BlobReceipt(status, FALSE, "none") \in BlobReceiptType
      BY <2>1, RecordsTyped
    <3>2. PICK r \in BlobReceiptType : blobReceipt' = [blobReceipt EXCEPT ![w] = r]
      BY <1>6, <2>3, <3>1 DEF CheckExisting
    <3>3. PICK l \in {"blob_verify", "blob_write"} : pc' = [pc EXCEPT ![w] = l]
      BY <1>6, <2>3 DEF CheckExisting, Goto, Labels
    <3> QED
      BY <1>6, <3>2, <3>3 DEF CheckExisting, BlobFrame, TypeOK, Labels
  <2> QED
    BY <2>2, <2>3
<1>7. ASSUME NEW w \in Workers, ReplaceBlob(w) PROVE TypeOK'
  <2>1. Root(w) \in Workers \cup {SharedRoot}
    BY DEF Root
  <2>2. cmd[w].hash \in Manifests
    BY CommandsAssumption DEF TypeOK
  <2>3. cmd[w].bytes = cmd[w].hash
    BY <1>7 DEF ReplaceBlob, At, BlobStepsGuarded, BindingHolds
  <2>4. blobs' \in [Workers \cup {SharedRoot} -> [Manifests -> Manifests \cup {NoBlob, Foreign}]]
    BY <1>7, <2>1, <2>2, <2>3 DEF ReplaceBlob, TypeOK
  <2> QED
    BY <1>7, <2>4 DEF ReplaceBlob, BlobFrame, TypeOK, Goto, Labels
<1>8. ASSUME NEW w \in Workers, VerifyBlob(w) PROVE TypeOK'
  <2>1. blobReceipt[w].status \in BlobStatuses
    BY DEF TypeOK, BlobReceiptType
  <2>2. PICK status \in BlobStatuses, verified \in BOOLEAN,
             error \in {"none", "blob_hash_mismatch", "adapter_error"} :
               FinishBlob(w, status, verified, error)
    BY <1>8, <1>d, <2>1 DEF VerifyBlob
  <2> QED
    BY <1>8, <2>2, FinishBlobTyped DEF VerifyBlob, BlobFrame, TypeOK
<1>9. ASSUME NEW w \in Workers, BlobAdapterRaises(w) PROVE TypeOK'
  BY <1>9, <1>d, FinishBlobTyped DEF BlobAdapterRaises, BlobFrame, TypeOK
<1>10. ASSUME NEW w \in Workers, AttestLocally(w) PROVE TypeOK'
  <2>1. /\ ReceiptOf(0) \in ResponseType
        /\ config.attestation \notin LocalReceiptAdapters =>
              LocalFailure(config.attestation) \in FailureType
    BY <1>10, <1>c, FailureTyped, RecordsTyped DEF AttestLocally, ConfigType
  <2>2. \A f \in FailureType : ErrorAt("attestation", f.class, f.lifecycle) \in ResponseType
    BY RecordsTyped DEF FailureType
  <2>3. \/ \E r \in ResponseType : Respond(w, r)
        \/ Goto(w, "attest") /\ UNCHANGED response
    BY <1>10, <2>1, <2>2 DEF AttestLocally, SubmitFailed
  <2>4. CASE \E r \in ResponseType : Respond(w, r)
    BY <1>10, <2>4, RespondTyped DEF AttestLocally, AttestFrame, TypeOK
  <2>5. CASE Goto(w, "attest") /\ UNCHANGED response
    BY <1>10, <2>5 DEF AttestLocally, AttestFrame, TypeOK, Goto, Labels
  <2> QED
    BY <2>3, <2>4, <2>5
<1>11. ASSUME NEW w \in Workers, Submit(w) PROVE TypeOK'
  BY <1>11, SeqAppend DEF Submit, Submission, SubmissionType, AttestFrame, TypeOK, Goto, Labels
<1>12. ASSUME NEW w \in Workers, ReceiveReceipt(w) PROVE TypeOK'
  <2>1. current[w] \in DOMAIN submissions /\ current[w] \in Nat
    BY <1>12 DEF ReceiveReceipt, At, AwaitsOwnSubmission, TypeOK
  <2>2. submissions' \in Seq(SubmissionType)
    BY <1>12, <2>1, SeenTyped DEF ReceiveReceipt
  <2>3. ReceiptOf(current[w]) \in ResponseType
    BY <2>1, RecordsTyped
  <2> QED
    BY <1>12, <2>2, <2>3, RespondTyped DEF ReceiveReceipt, AttestFrame, TypeOK
<1>13. ASSUME NEW w \in Workers, NEW f \in FailureType, ReceiveFailure(w, f) PROVE TypeOK'
  <2>1. current[w] \in DOMAIN submissions
    BY <1>13 DEF ReceiveFailure, At, AwaitsOwnSubmission
  <2>2. f.class \in FailureClasses
    BY DEF FailureType
  <2>3. submissions' \in Seq(SubmissionType)
    BY <1>13, <2>1, <2>2, SeenTyped DEF ReceiveFailure
  <2>4. ErrorAt("attestation", f.class, f.lifecycle) \in ResponseType
    BY RecordsTyped DEF FailureType
  <2>5. CASE Goto(w, "attest") /\ UNCHANGED response
    BY <1>13, <2>3, <2>5 DEF ReceiveFailure, AttestFrame, TypeOK, Goto, Labels
  <2>6. CASE Respond(w, ErrorAt("attestation", f.class, f.lifecycle))
    BY <1>13, <2>3, <2>4, <2>6, RespondTyped DEF ReceiveFailure, AttestFrame, TypeOK
  <2> QED
    BY <1>13, <2>5, <2>6 DEF ReceiveFailure, SubmitFailed
<1>14. ASSUME NEW w \in Workers, NEW c \in Commands, Receive(w, c) PROVE TypeOK'
  BY <1>14, RecordsTyped DEF Receive, TypeOK, Goto, Labels
<1>15. ASSUME NEW i \in DOMAIN submissions, NEW v \in {"accepted", "refused"},
              ProviderDecides(i, v)
       PROVE  TypeOK'
  BY <1>15, StateTyped DEF ProviderDecides, workerVars, TypeOK
<1>16. ASSUME NEW w \in Workers, Crash(w) PROVE TypeOK'
  <2>1. submissions' \in Seq(SubmissionType)
    <3>1. CASE pc[w] = "await"
      BY <1>16, <3>1, SeenTyped DEF Crash, At, AwaitsOwnSubmission
    <3>2. CASE pc[w] # "await"
      BY <1>16, <3>2 DEF Crash, At, TypeOK
    <3> QED
      BY <3>1, <3>2
  <2>2. blobs' \in [Workers \cup {SharedRoot} -> [Manifests -> Manifests \cup {NoBlob, Foreign}]]
    BY <1>16 DEF Crash, EmptyRoot, TypeOK
  <2> QED
    BY <1>16, <2>1, <2>2, RecordsTyped DEF Crash, TypeOK, Goto, Labels
<1>17. ASSUME NEW h \in Manifests, NEW c \in {NoBlob, Foreign}, ForeignWrite(h, c) PROVE TypeOK'
  <2>1. blobs' \in [Workers \cup {SharedRoot} -> [Manifests -> Manifests \cup {NoBlob, Foreign}]]
    BY <1>17 DEF ForeignWrite, TypeOK
  <2> QED
    BY <1>17, <2>1 DEF ForeignWrite, workerVars, TypeOK
<1>18. CASE UNCHANGED vars
  BY <1>18 DEF vars, workerVars, TypeOK
<1> QED
  BY <1>1, <1>2, <1>3, <1>4, <1>5, <1>6, <1>7, <1>8, <1>9, <1>10, <1>11, <1>12, <1>13,
     <1>14, <1>15, <1>16, <1>17, <1>18 DEF Next, Step

-----------------------------------------------------------------------------
(* What a step does to the submissions, as far as the invariants look      *)

LEMMA SeenEffect ==
  ASSUME TypeOK, NEW i \in DOMAIN submissions, NEW x,
         submissions' = [submissions EXCEPT ![i].seen = x]
  PROVE  /\ DOMAIN submissions' = DOMAIN submissions
         /\ \A j \in DOMAIN submissions :
               /\ submissions'[j].req = submissions[j].req
               /\ submissions'[j].cmd = submissions[j].cmd
               /\ submissions'[j].state = submissions[j].state
               /\ submissions'[j].seen = IF j = i THEN x ELSE submissions[j].seen
<1>1. \A j \in DOMAIN submissions : submissions[j] \in SubmissionType
  BY DEF TypeOK
<1> QED
  BY <1>1 DEF TypeOK, SubmissionType

LEMMA StateEffect ==
  ASSUME TypeOK, NEW i \in DOMAIN submissions, NEW x,
         submissions' = [submissions EXCEPT ![i].state = x]
  PROVE  /\ DOMAIN submissions' = DOMAIN submissions
         /\ \A j \in DOMAIN submissions :
               /\ submissions'[j].req = submissions[j].req
               /\ submissions'[j].cmd = submissions[j].cmd
               /\ submissions'[j].seen = submissions[j].seen
               /\ submissions'[j].state = IF j = i THEN x ELSE submissions[j].state
<1>1. \A j \in DOMAIN submissions : submissions[j] \in SubmissionType
  BY DEF TypeOK
<1> QED
  BY <1>1 DEF TypeOK, SubmissionType

LEMMA SubmitEffect ==
  ASSUME TypeOK, NEW w \in Workers, Submit(w)
  PROVE  \E n \in Nat :
         /\ n = Len(submissions) + 1 /\ n \notin DOMAIN submissions /\ n # 0
         /\ \A j \in DOMAIN submissions : j \in Nat /\ j < n
         /\ DOMAIN submissions' = DOMAIN submissions \cup {n}
         /\ \A j \in DOMAIN submissions : submissions'[j] = submissions[j]
         /\ submissions'[n] = Submission(w)
         /\ current' = [current EXCEPT ![w] = n]
         /\ pc' = [pc EXCEPT ![w] = "await"]
<1>1. Submission(w) \in SubmissionType
  BY DEF TypeOK, Submission, SubmissionType
<1>2. submissions' = Append(submissions, Submission(w)) /\ submissions \in Seq(SubmissionType)
  BY DEF Submit, TypeOK
<1>3. /\ Len(submissions) + 1 \in Nat /\ Len(submissions) + 1 # 0
      /\ \A j \in DOMAIN submissions : j \in Nat /\ j < Len(submissions) + 1
  BY <1>2
<1> HIDE DEF Submission
<1>4. /\ DOMAIN submissions' = DOMAIN submissions \cup {Len(submissions) + 1}
      /\ Len(submissions) + 1 \notin DOMAIN submissions
      /\ submissions'[Len(submissions) + 1] = Submission(w)
      /\ \A j \in DOMAIN submissions : submissions'[j] = submissions[j]
  BY <1>1, <1>2, SeqAppend
<1> QED
  BY <1>3, <1>4 DEF Submit, Goto

(* The steps of a worker that leave the submissions alone: they take it    *)
(* towards the attestation, or to a response without a transaction.        *)
Quiet(w) ==
  /\ UNCHANGED <<config, cmd, req, current, submissions, requests>>
  /\ \E l \in BeforeAttest \cup {"attest", "done"} :
        /\ pc' = [pc EXCEPT ![w] = l]
        /\ pc[w] \in BeforeAttest \/ (pc[w] = "attest" /\ l \in {"attest", "done"})
  /\ \/ response' = response
     \/ \E r \in ResponseType : r.tx = 0 /\ response' = [response EXCEPT ![w] = r]

LEMMA QuietSteps ==
  ASSUME TypeOK, NEW w \in Workers,
         \/ CheckIntegrity(w) \/ Persist(w) \/ LoopFallsThrough(w) \/ SkipBlob(w)
         \/ CheckExisting(w) \/ ReplaceBlob(w) \/ VerifyBlob(w) \/ BlobAdapterRaises(w)
         \/ AttestLocally(w) \/ \E exc \in config.storeRaises : PersistRaises(w, exc)
  PROVE  Quiet(w)
<1> USE DEF At, Goto, Respond, BeforeAttest
<1>c. config \in ConfigType /\ pc \in [Workers -> Labels]
  BY ConfigsAssumption DEF TypeOK
<1>d. /\ {"permanent", "transient", "unknown"} \subseteq FailureClasses
      /\ "none" \in Lifecycles
  BY DEF FailureClasses, Lifecycles
<1>e. /\ \A st \in {"integrity_binding", "persistence", "attestation"},
            class \in FailureClasses, lifecycle \in Lifecycles :
            ErrorAt(st, class, lifecycle) \in ResponseType /\ ErrorAt(st, class, lifecycle).tx = 0
      /\ Raised \in ResponseType /\ Raised.tx = 0
      /\ ReceiptOf(0) \in ResponseType /\ ReceiptOf(0).tx = 0
  BY RecordsTyped DEF ErrorAt, Raised, NoResponse, ReceiptOf
<1>1. CASE CheckIntegrity(w)
  BY <1>1, <1>c, <1>d, <1>e DEF CheckIntegrity, Quiet
<1>2. CASE Persist(w)
  BY <1>2, <1>c DEF Persist, Quiet
<1>3. ASSUME NEW exc \in config.storeRaises, PersistRaises(w, exc) PROVE Quiet(w)
  <2>1. classify_failure(exc) \in FailureClasses
    BY <1>c, FailureTyped DEF ConfigType
  <2>2. CASE UNCHANGED <<pc, response>>
    BY <1>3, <1>c, <2>2 DEF PersistRaises, Quiet
  <2>3. CASE Respond(w, ErrorAt("persistence", classify_failure(exc), "none"))
    BY <1>3, <1>c, <1>d, <1>e, <2>1, <2>3 DEF PersistRaises, Quiet
  <2> QED
    BY <1>3, <2>2, <2>3 DEF PersistRaises
<1>4. CASE LoopFallsThrough(w)
  BY <1>4, <1>c, <1>e DEF LoopFallsThrough, Quiet
<1>5. CASE SkipBlob(w)
  BY <1>5, <1>c DEF SkipBlob, Quiet, FinishBlob, BlobFrame
<1>6. CASE CheckExisting(w)
  <2>1. \E l \in {"blob_write", "blob_verify", "attest"} : pc' = [pc EXCEPT ![w] = l]
    BY <1>6 DEF CheckExisting, FinishBlob
  <2> QED
    BY <1>6, <1>c, <2>1 DEF CheckExisting, Quiet, BlobFrame
<1>7. CASE ReplaceBlob(w)
  BY <1>7, <1>c DEF ReplaceBlob, Quiet, BlobFrame
<1>8. CASE VerifyBlob(w)
  <2>1. pc' = [pc EXCEPT ![w] = "attest"]
    BY <1>8 DEF VerifyBlob, FinishBlob
  <2> QED
    BY <1>8, <1>c, <2>1 DEF VerifyBlob, Quiet, BlobFrame
<1>9. CASE BlobAdapterRaises(w)
  BY <1>9, <1>c DEF BlobAdapterRaises, Quiet, FinishBlob, BlobFrame
<1>10. CASE AttestLocally(w)
  <2>1. config.attestation \notin LocalReceiptAdapters => LocalFailure(config.attestation) \in FailureType
    BY <1>10, <1>c, FailureTyped DEF AttestLocally, ConfigType
  <2>2. \A f \in FailureType : /\ ErrorAt("attestation", f.class, f.lifecycle) \in ResponseType
                               /\ ErrorAt("attestation", f.class, f.lifecycle).tx = 0
    BY <1>e DEF FailureType
  <2>3. \/ \E r \in ResponseType : r.tx = 0 /\ Respond(w, r)
        \/ Goto(w, "attest") /\ UNCHANGED response
    BY <1>10, <1>e, <2>1, <2>2 DEF AttestLocally, SubmitFailed
  <2>4. CASE \E r \in ResponseType : r.tx = 0 /\ Respond(w, r)
    BY <1>10, <1>c, <2>4 DEF AttestLocally, AttestFrame, Quiet
  <2>5. CASE Goto(w, "attest") /\ UNCHANGED response
    BY <1>10, <1>c, <2>5 DEF AttestLocally, AttestFrame, Quiet
  <2> QED
    BY <2>3, <2>4, <2>5
<1> QED
  BY <1>1, <1>2, <1>3, <1>4, <1>5, <1>6, <1>7, <1>8, <1>9, <1>10

LEMMA NextCases ==
  ASSUME TypeOK, Next
  PROVE  \/ \E w \in Workers : \/ Quiet(w) \/ Submit(w) \/ ReceiveReceipt(w) \/ Crash(w)
                               \/ \E f \in FailureType : ReceiveFailure(w, f)
                               \/ \E c \in Commands : Receive(w, c)
         \/ \E i \in DOMAIN submissions, v \in {"accepted", "refused"} : ProviderDecides(i, v)
         \/ \E h \in Manifests, c \in {NoBlob, Foreign} : ForeignWrite(h, c)
  BY QuietSteps DEF Next, Step

-----------------------------------------------------------------------------
(* Who waits for what *)

(* Two workers that wait do not wait for the same submission.              *)
LEMMA CurrentDistinct ==
  ASSUME AwaitsOwnSubmission, RequestsNumbered,
         NEW v \in Workers, NEW w \in Workers, v # w, pc[v] = "await", pc[w] = "await"
  PROVE  current[v] # current[w]
  BY DEF AwaitsOwnSubmission, RequestsNumbered

LEMMA AwaitsStep ==
  ASSUME TypeOK, AwaitsOwnSubmission, RequestsNumbered, [Next]_vars
  PROVE  AwaitsOwnSubmission'
<1> USE DEF AwaitsOwnSubmission
<1>t. /\ pc \in [Workers -> Labels] /\ current \in [Workers -> Nat]
      /\ req \in [Workers -> Nat] /\ cmd \in [Workers -> Commands]
  BY DEF TypeOK
<1>1. ASSUME NEW w \in Workers, Quiet(w) PROVE AwaitsOwnSubmission'
  BY <1>t, <1>1 DEF Quiet, BeforeAttest
<1>2. ASSUME NEW w \in Workers, Submit(w) PROVE AwaitsOwnSubmission'
  <2>1. req' = req /\ cmd' = cmd
    BY <1>2 DEF Submit, AttestFrame
  <2>2. PICK n \in Nat : /\ n \notin DOMAIN submissions
                         /\ DOMAIN submissions' = DOMAIN submissions \cup {n}
                         /\ \A j \in DOMAIN submissions : submissions'[j] = submissions[j]
                         /\ submissions'[n] = Submission(w)
                         /\ current' = [current EXCEPT ![w] = n]
                         /\ pc' = [pc EXCEPT ![w] = "await"]
    BY <1>2, SubmitEffect
  <2> QED
    BY <1>t, <2>1, <2>2 DEF Submission
<1>3. ASSUME NEW w \in Workers, pc[w] = "await", NEW x,
             submissions' = [submissions EXCEPT ![current[w]].seen = x],
             pc' \in {[pc EXCEPT ![w] = l] : l \in {"attest", "done", "idle"}},
             UNCHANGED <<req, cmd>>, \A v \in Workers \ {w} : current'[v] = current[v]
      PROVE  AwaitsOwnSubmission'
  <2>1. ASSUME NEW v \in Workers, pc'[v] = "await"
        PROVE  v # w /\ pc[v] = "await" /\ current[v] # current[w]
    BY <1>t, <1>3, <2>1, CurrentDistinct
  <2> QED
    BY <1>3, <2>1, SeenEffect
<1>4. ASSUME NEW w \in Workers, ReceiveReceipt(w) PROVE AwaitsOwnSubmission'
  BY <1>3, <1>4 DEF ReceiveReceipt, At, Goto, Respond, AttestFrame
<1>5. ASSUME NEW w \in Workers, NEW f \in FailureType, ReceiveFailure(w, f) PROVE AwaitsOwnSubmission'
  BY <1>3, <1>5 DEF ReceiveFailure, SubmitFailed, At, Goto, Respond, AttestFrame
<1>6. ASSUME NEW w \in Workers, NEW c \in Commands, Receive(w, c) PROVE AwaitsOwnSubmission'
  BY <1>t, <1>6 DEF Receive, Goto
<1>7. ASSUME NEW i \in DOMAIN submissions, NEW v \in {"accepted", "refused"}, ProviderDecides(i, v)
      PROVE  AwaitsOwnSubmission'
  BY <1>7, StateEffect DEF ProviderDecides, workerVars
<1>8. ASSUME NEW w \in Workers, Crash(w) PROVE AwaitsOwnSubmission'
  <2>1. CASE pc[w] = "await"
    BY <1>t, <1>3, <1>8, <2>1 DEF Crash, At, Goto
  <2>2. CASE pc[w] # "await"
    BY <1>t, <1>8, <2>2 DEF Crash, At, Goto
  <2> QED
    BY <2>1, <2>2
<1>9. ASSUME NEW h \in Manifests, NEW c \in {NoBlob, Foreign}, ForeignWrite(h, c)
      PROVE  AwaitsOwnSubmission'
  BY <1>9 DEF ForeignWrite, workerVars
<1>10. CASE UNCHANGED vars
  BY <1>10 DEF vars, workerVars
<1> QED
  BY <1>1, <1>2, <1>4, <1>5, <1>6, <1>7, <1>8, <1>9, <1>10, NextCases

LEMMA RequestsStep ==
  ASSUME TypeOK, AwaitsOwnSubmission, RequestsNumbered, [Next]_vars
  PROVE  RequestsNumbered'
<1> USE DEF RequestsNumbered
<1>t. /\ pc \in [Workers -> Labels] /\ req \in [Workers -> Nat] /\ requests \in Nat
      /\ \A i \in DOMAIN submissions : submissions[i].req \in Nat
  <2>1. \A i \in DOMAIN submissions : submissions[i] \in SubmissionType
    BY DEF TypeOK
  <2> QED
    BY <2>1 DEF TypeOK, SubmissionType
<1>1. ASSUME NEW w \in Workers, Quiet(w) PROVE RequestsNumbered'
  BY <1>t, <1>1 DEF Quiet, BeforeAttest
<1>2. ASSUME NEW w \in Workers, Submit(w) PROVE RequestsNumbered'
  <2>1. req' = req /\ requests' = requests /\ req[w] # 0
    BY <1>2 DEF Submit, AttestFrame, At
  <2>2. \A i \in DOMAIN submissions' : submissions'[i].req # 0 /\ submissions'[i].req <= requests
    <3>1. PICK n \in Nat : /\ DOMAIN submissions' = DOMAIN submissions \cup {n}
                           /\ \A j \in DOMAIN submissions : submissions'[j] = submissions[j]
                           /\ submissions'[n] = Submission(w)
      BY <1>2, SubmitEffect
    <3> QED
      BY <1>t, <2>1, <3>1 DEF Submission
  <2>3. \A v \in Workers : pc'[v] # "idle" => pc[v] # "idle"
    BY <1>t, <1>2, SubmitEffect DEF Submit, At
  <2> QED
    BY <1>t, <2>1, <2>2, <2>3
<1>3. ASSUME NEW w \in Workers, pc[w] = "await", NEW x,
             submissions' = [submissions EXCEPT ![current[w]].seen = x],
             pc' \in {[pc EXCEPT ![w] = l] : l \in {"attest", "done", "idle"}},
             UNCHANGED <<req, requests>>
      PROVE  RequestsNumbered'
  <2>1. current[w] \in DOMAIN submissions
    BY <1>3 DEF AwaitsOwnSubmission
  <2> QED
    BY <1>t, <1>3, <2>1, SeenEffect
<1>4. ASSUME NEW w \in Workers, ReceiveReceipt(w) PROVE RequestsNumbered'
  BY <1>3, <1>4 DEF ReceiveReceipt, At, Goto, Respond, AttestFrame
<1>5. ASSUME NEW w \in Workers, NEW f \in FailureType, ReceiveFailure(w, f) PROVE RequestsNumbered'
  BY <1>3, <1>5 DEF ReceiveFailure, SubmitFailed, At, Goto, Respond, AttestFrame
<1>6. ASSUME NEW w \in Workers, NEW c \in Commands, Receive(w, c) PROVE RequestsNumbered'
  BY <1>t, <1>6 DEF Receive, Goto
<1>7. ASSUME NEW i \in DOMAIN submissions, NEW v \in {"accepted", "refused"}, ProviderDecides(i, v)
      PROVE  RequestsNumbered'
  BY <1>7, StateEffect DEF ProviderDecides, workerVars
<1>8. ASSUME NEW w \in Workers, Crash(w) PROVE RequestsNumbered'
  <2>1. CASE pc[w] = "await"
    BY <1>t, <1>3, <1>8, <2>1 DEF Crash, At, Goto
  <2>2. CASE pc[w] # "await"
    BY <1>t, <1>8, <2>2 DEF Crash, At, Goto
  <2> QED
    BY <2>1, <2>2
<1>9. ASSUME NEW h \in Manifests, NEW c \in {NoBlob, Foreign}, ForeignWrite(h, c)
      PROVE  RequestsNumbered'
  BY <1>9 DEF ForeignWrite, workerVars
<1>10. CASE UNCHANGED vars
  BY <1>10 DEF vars, workerVars
<1> QED
  BY <1>1, <1>2, <1>4, <1>5, <1>6, <1>7, <1>8, <1>9, <1>10, NextCases

-----------------------------------------------------------------------------
(* What has been sent before *)

(* Only a transient failure sends the loop around.                         *)
LEMMA RetryableIsTransient ==
  ASSUME NEW a, NEW st, NEW f \in FailedAnswers(a, st), st \in {"in_flight", "accepted", "refused"},
         f.retryable
  PROVE  f.class = "transient"
<1>1. PICK class, lifecycle : f = AdapterError(class, lifecycle)
  BY DEF FailedAnswers, LostAnswers, MalformedAnswer, UnlistedStatus, Refusals
<1>2. f.retryable = (class = "transient") /\ f.class = class
  BY <1>1 DEF AdapterError
<1> QED
  BY <1>2

LEMMA FailureEffect ==
  ASSUME TypeOK, AwaitsOwnSubmission, NEW w \in Workers, NEW f \in FailureType,
         ReceiveFailure(w, f)
  PROVE  \E l \in {"attest", "done"} :
           /\ pc' = [pc EXCEPT ![w] = l]
           /\ l = "attest" => f.class = "transient" /\ response' = response
           /\ l = "done" =>
                 response' = [response EXCEPT ![w] = ErrorAt("attestation", f.class, f.lifecycle)]
<1>1. submissions[current[w]] \in SubmissionType
  BY DEF ReceiveFailure, At, AwaitsOwnSubmission, TypeOK
<1>2. f.retryable => f.class = "transient"
  BY <1>1, RetryableIsTransient DEF ReceiveFailure, SubmissionType
<1> QED
  BY <1>2 DEF ReceiveFailure, SubmitFailed, MayTryAgain, Goto, Respond

(* A submission of a request in progress belongs to nobody else.           *)
LEMMA OwnRequest ==
  ASSUME RequestsNumbered, NEW v \in Workers, NEW w \in Workers, v # w, pc[w] # "idle"
  PROVE  req[v] # req[w]
  BY DEF RequestsNumbered

LEMMA EarlierStep ==
  ASSUME TypeOK, AwaitsOwnSubmission, RequestsNumbered, EarlierAttemptsFailed, [Next]_vars
  PROVE  EarlierAttemptsFailed'
<1> USE DEF EarlierAttemptsFailed
<1>t. /\ pc \in [Workers -> Labels] /\ req \in [Workers -> Nat] /\ requests \in Nat
      /\ current \in [Workers -> Nat]
      /\ \A i \in DOMAIN submissions : submissions[i].req \in Nat
  <2>1. \A i \in DOMAIN submissions : submissions[i] \in SubmissionType
    BY DEF TypeOK
  <2> QED
    BY <2>1 DEF TypeOK, SubmissionType
<1>1. ASSUME NEW w \in Workers, Quiet(w) PROVE EarlierAttemptsFailed'
  BY <1>t, <1>1 DEF Quiet, BeforeAttest
<1>2. ASSUME NEW w \in Workers, Submit(w) PROVE EarlierAttemptsFailed'
  <2>1. req' = req /\ pc[w] = "attest"
    BY <1>2 DEF Submit, AttestFrame, At
  <2>2. PICK n \in Nat : /\ n \notin DOMAIN submissions
                         /\ DOMAIN submissions' = DOMAIN submissions \cup {n}
                         /\ \A j \in DOMAIN submissions : submissions'[j] = submissions[j]
                         /\ submissions'[n] = Submission(w)
                         /\ current' = [current EXCEPT ![w] = n]
                         /\ pc' = [pc EXCEPT ![w] = "await"]
    BY <1>2, SubmitEffect
  <2>3. submissions'[n].req = req[w]
    BY <2>2 DEF Submission
  <2>4. \A v \in Workers \ {w} : req[v] # req[w]
    BY <2>1, OwnRequest
  <2> QED
    BY <1>t, <2>1, <2>2, <2>3, <2>4 DEF BeforeAttest
<1>3. ASSUME NEW w \in Workers, pc[w] = "await", NEW x, NEW l \in {"attest", "done", "idle"},
             submissions' = [submissions EXCEPT ![current[w]].seen = x],
             pc' = [pc EXCEPT ![w] = l], l = "attest" => x = "transient",
             req' = req, \A v \in Workers \ {w} : current'[v] = current[v]
      PROVE  EarlierAttemptsFailed'
  <2>1. current[w] \in DOMAIN submissions /\ submissions[current[w]].req = req[w]
    BY <1>3 DEF AwaitsOwnSubmission
  <2>2. \A v \in Workers \ {w} : req[v] # req[w]
    BY <1>3, OwnRequest
  <2>3. /\ DOMAIN submissions' = DOMAIN submissions
        /\ \A j \in DOMAIN submissions :
              /\ submissions'[j].req = submissions[j].req
              /\ submissions'[j].seen = IF j = current[w] THEN x ELSE submissions[j].seen
    BY <1>3, <2>1, SeenEffect
  <2>4. ASSUME NEW v \in Workers, NEW i \in DOMAIN submissions, v # w,
               submissions'[i].req = req'[v]
        PROVE  /\ pc'[v] \notin BeforeAttest
               /\ pc'[v] = "attest" => submissions'[i].seen = "transient"
               /\ pc'[v] = "await" /\ i # current'[v] => submissions'[i].seen = "transient"
    BY <1>t, <1>3, <2>1, <2>2, <2>3, <2>4
  <2>5. ASSUME NEW i \in DOMAIN submissions, submissions'[i].req = req'[w]
        PROVE  /\ pc'[w] \notin BeforeAttest
               /\ pc'[w] = "attest" => submissions'[i].seen = "transient"
               /\ pc'[w] # "await"
    BY <1>t, <1>3, <2>1, <2>3, <2>5 DEF BeforeAttest
  <2> QED
    BY <2>3, <2>4, <2>5
<1>4. ASSUME NEW w \in Workers, ReceiveReceipt(w) PROVE EarlierAttemptsFailed'
  BY <1>3, <1>4 DEF ReceiveReceipt, At, Goto, Respond, AttestFrame
<1>5. ASSUME NEW w \in Workers, NEW f \in FailureType, ReceiveFailure(w, f)
      PROVE  EarlierAttemptsFailed'
  <2>1. PICK l \in {"attest", "done"} : /\ pc' = [pc EXCEPT ![w] = l]
                                        /\ l = "attest" => f.class = "transient"
    BY <1>5, FailureEffect
  <2> QED
    BY <1>3, <1>5, <2>1 DEF ReceiveFailure, At, AttestFrame
<1>6. ASSUME NEW w \in Workers, NEW c \in Commands, Receive(w, c) PROVE EarlierAttemptsFailed'
  BY <1>t, <1>6 DEF Receive, Goto, RequestsNumbered
<1>7. ASSUME NEW i \in DOMAIN submissions, NEW v \in {"accepted", "refused"}, ProviderDecides(i, v)
      PROVE  EarlierAttemptsFailed'
  BY <1>7, StateEffect DEF ProviderDecides, workerVars
<1>8. ASSUME NEW w \in Workers, Crash(w) PROVE EarlierAttemptsFailed'
  <2>1. CASE pc[w] = "await"
    BY <1>t, <1>3, <1>8, <2>1 DEF Crash, At, Goto
  <2>2. CASE pc[w] # "await"
    BY <1>t, <1>8, <2>2 DEF Crash, At, Goto, BeforeAttest
  <2> QED
    BY <2>1, <2>2
<1>9. ASSUME NEW h \in Manifests, NEW c \in {NoBlob, Foreign}, ForeignWrite(h, c)
      PROVE  EarlierAttemptsFailed'
  BY <1>9 DEF ForeignWrite, workerVars
<1>10. CASE UNCHANGED vars
  BY <1>10 DEF vars, workerVars
<1> QED
  BY <1>1, <1>2, <1>4, <1>5, <1>6, <1>7, <1>8, <1>9, <1>10, NextCases

-----------------------------------------------------------------------------
(* The invariants about submissions and receipts *)

LEMMA RetriedStep ==
  ASSUME TypeOK, AwaitsOwnSubmission, RequestsNumbered, EarlierAttemptsFailed,
         RetriedOnlyWhenTransient, [Next]_vars
  PROVE  RetriedOnlyWhenTransient'
<1> USE DEF RetriedOnlyWhenTransient
<1>t. DOMAIN submissions \subseteq Nat
  BY DEF TypeOK
<1>1. ASSUME NEW w \in Workers, Submit(w) PROVE RetriedOnlyWhenTransient'
  <2>1. pc[w] = "attest"
    BY <1>1 DEF Submit, At
  <2>2. PICK n \in Nat : /\ n \notin DOMAIN submissions
                         /\ \A j \in DOMAIN submissions : j \in Nat /\ j < n
                         /\ DOMAIN submissions' = DOMAIN submissions \cup {n}
                         /\ \A j \in DOMAIN submissions : submissions'[j] = submissions[j]
                         /\ submissions'[n] = Submission(w)
    BY <1>1, SubmitEffect
  <2>3. submissions'[n].req = req[w]
    BY <2>2 DEF Submission
  <2>4. \A i \in DOMAIN submissions : submissions[i].req = req[w] => submissions[i].seen = "transient"
    BY <2>1 DEF EarlierAttemptsFailed
  <2> QED
    BY <2>2, <2>3, <2>4
<1>2. ASSUME NEW w \in Workers, pc[w] = "await", NEW x,
             submissions' = [submissions EXCEPT ![current[w]].seen = x]
      PROVE  RetriedOnlyWhenTransient'
  <2>1. current[w] \in DOMAIN submissions /\ submissions[current[w]].seen = "waiting"
    BY <1>2 DEF AwaitsOwnSubmission
  <2>2. /\ DOMAIN submissions' = DOMAIN submissions
        /\ \A j \in DOMAIN submissions :
              /\ submissions'[j].req = submissions[j].req
              /\ submissions'[j].seen = IF j = current[w] THEN x ELSE submissions[j].seen
    BY <1>2, <2>1, SeenEffect
  <2> QED
    BY <2>1, <2>2
<1>3. CASE submissions' = submissions
  BY <1>3
<1>4. ASSUME NEW i \in DOMAIN submissions, NEW v \in {"accepted", "refused"}, ProviderDecides(i, v)
      PROVE  RetriedOnlyWhenTransient'
  BY <1>4, StateEffect DEF ProviderDecides
<1>5. ASSUME NEW w \in Workers, Crash(w) PROVE RetriedOnlyWhenTransient'
  BY <1>2, <1>3, <1>5 DEF Crash, At
<1> QED
  BY <1>1, <1>2, <1>3, <1>4, <1>5, NextCases
  DEF Quiet, ReceiveReceipt, ReceiveFailure, Receive, ForeignWrite, At, vars

(* What a receipt on record needs a step to keep of a submission.          *)
RecordKept(i) ==
  /\ submissions'[i].req = submissions[i].req
  /\ submissions'[i].cmd = submissions[i].cmd
  /\ submissions[i].state = "accepted" => submissions'[i].state = "accepted"
  /\ submissions[i].seen = "receipt" => submissions'[i].seen = "receipt"

(* An answer, or a death while waiting for one, is noted once, at the      *)
(* submission the worker waits for.                                        *)
LEMMA AnswerEffect ==
  ASSUME TypeOK, AwaitsOwnSubmission, NEW w \in Workers, pc[w] = "await", NEW x,
         submissions' = [submissions EXCEPT ![current[w]].seen = x]
  PROVE  /\ current[w] \in DOMAIN submissions
         /\ submissions'[current[w]].seen = x
         /\ DOMAIN submissions' = DOMAIN submissions
         /\ \A j \in DOMAIN submissions : RecordKept(j)
<1>1. current[w] \in DOMAIN submissions /\ submissions[current[w]].seen = "waiting"
  BY DEF AwaitsOwnSubmission
<1> DEFINE i == current[w]
<1>2. /\ DOMAIN submissions' = DOMAIN submissions
      /\ \A j \in DOMAIN submissions :
            /\ submissions'[j].req = submissions[j].req
            /\ submissions'[j].cmd = submissions[j].cmd
            /\ submissions'[j].state = submissions[j].state
            /\ submissions'[j].seen = IF j = i THEN x ELSE submissions[j].seen
  <2> HIDE DEF i
  <2> QED
    BY <1>1, SeenEffect DEF i
<1>3. /\ submissions'[i].seen = x
      /\ \A j \in DOMAIN submissions :
            submissions[j].seen = "receipt" => submissions'[j].seen = "receipt"
  BY <1>1, <1>2
<1> QED
  BY <1>1, <1>2, <1>3 DEF RecordKept

LEMMA ReceiptStep ==
  ASSUME TypeOK, AwaitsOwnSubmission, ReceiptOnRecord, [Next]_vars
  PROVE  ReceiptOnRecord'
<1> USE DEF ReceiptOnRecord
<1>t. response \in [Workers -> ResponseType] /\ req \in [Workers -> Nat] /\ cmd \in [Workers -> Commands]
  BY DEF TypeOK
<1>1. ASSUME NEW w \in Workers, NEW r \in ResponseType, r.tx = 0,
             response' = [response EXCEPT ![w] = r],
             \A v \in Workers \ {w} : req'[v] = req[v] /\ cmd'[v] = cmd[v],
             DOMAIN submissions' = DOMAIN submissions,
             \A i \in DOMAIN submissions : RecordKept(i)
      PROVE  ReceiptOnRecord'
  BY <1>t, <1>1 DEF RecordKept
<1>2. ASSUME response' = response, req' = req, cmd' = cmd,
             DOMAIN submissions \subseteq DOMAIN submissions',
             \A i \in DOMAIN submissions : RecordKept(i)
      PROVE  ReceiptOnRecord'
  BY <1>2 DEF RecordKept
<1>3. ASSUME NEW w \in Workers, Quiet(w) PROVE ReceiptOnRecord'
  BY <1>1, <1>2, <1>3 DEF Quiet, RecordKept
<1>4. ASSUME NEW w \in Workers, Submit(w) PROVE ReceiptOnRecord'
  <2>1. /\ DOMAIN submissions \subseteq DOMAIN submissions'
        /\ \A j \in DOMAIN submissions : submissions'[j] = submissions[j]
    BY <1>4, SubmitEffect
  <2> QED
    BY <1>2, <1>4, <2>1 DEF Submit, AttestFrame, RecordKept
<1>5. ASSUME NEW w \in Workers, ReceiveReceipt(w) PROVE ReceiptOnRecord'
  <2>1. /\ current[w] \in DOMAIN submissions
        /\ submissions[current[w]].req = req[w] /\ submissions[current[w]].cmd = cmd[w]
        /\ submissions[current[w]].state = "accepted"
    BY <1>5 DEF ReceiveReceipt, At, AwaitsOwnSubmission
  <2>2. /\ DOMAIN submissions' = DOMAIN submissions
        /\ \A j \in DOMAIN submissions : RecordKept(j)
        /\ submissions'[current[w]].seen = "receipt"
        /\ RecordKept(current[w])
    BY <1>5, <2>1, AnswerEffect DEF ReceiveReceipt, At
  <2>3. response' = [response EXCEPT ![w] = ReceiptOf(current[w])] /\ req' = req /\ cmd' = cmd
    BY <1>5 DEF ReceiveReceipt, Respond, AttestFrame
  <2>4. ReceiptOf(current[w]).tx = current[w]
    BY DEF ReceiptOf
  <2> QED
    BY <1>t, <2>1, <2>2, <2>3, <2>4 DEF RecordKept
<1>6. ASSUME NEW w \in Workers, NEW f \in FailureType, ReceiveFailure(w, f) PROVE ReceiptOnRecord'
  <2>2. /\ DOMAIN submissions' = DOMAIN submissions
        /\ \A j \in DOMAIN submissions : RecordKept(j)
    BY <1>6, AnswerEffect DEF ReceiveFailure, At
  <2> DEFINE r == ErrorAt("attestation", f.class, f.lifecycle)
  <2>3. r \in ResponseType /\ r.tx = 0
    <3>1. f.class \in FailureClasses /\ f.lifecycle \in Lifecycles
      BY DEF FailureType
    <3> QED
      BY <3>1, RecordsTyped DEF ErrorAt
  <2>4. response' = response \/ response' = [response EXCEPT ![w] = r]
    BY <1>6, FailureEffect
  <2>5. req' = req /\ cmd' = cmd
    BY <1>6 DEF ReceiveFailure, AttestFrame
  <2> HIDE DEF r
  <2> QED
    BY <1>1, <1>2, <2>2, <2>3, <2>4, <2>5
<1>7. ASSUME NEW w \in Workers, NEW c \in Commands, Receive(w, c) PROVE ReceiptOnRecord'
  <2>1. NoResponse \in ResponseType /\ NoResponse.tx = 0
    BY RecordsTyped DEF NoResponse
  <2> QED
    BY <1>1, <1>t, <1>7, <2>1 DEF Receive, RecordKept
<1>8. ASSUME NEW i \in DOMAIN submissions, NEW v \in {"accepted", "refused"}, ProviderDecides(i, v)
      PROVE  ReceiptOnRecord'
  BY <1>2, <1>8, StateEffect DEF ProviderDecides, workerVars, RecordKept
<1>9. ASSUME NEW w \in Workers, Crash(w) PROVE ReceiptOnRecord'
  <2>1. NoResponse \in ResponseType /\ NoResponse.tx = 0
    BY RecordsTyped DEF NoResponse
  <2>2. /\ DOMAIN submissions' = DOMAIN submissions
        /\ \A j \in DOMAIN submissions : RecordKept(j)
    <3>1. CASE pc[w] = "await"
      BY <1>9, <3>1, AnswerEffect DEF Crash, At
    <3>2. CASE pc[w] # "await"
      BY <1>9, <3>2 DEF Crash, At, RecordKept
    <3> QED
      BY <3>1, <3>2
  <2> QED
    <3>1. /\ response' = [response EXCEPT ![w] = NoResponse] /\ req' = req /\ cmd' = cmd
      BY <1>9 DEF Crash
    <3> QED
      BY <1>1, <2>1, <2>2, <3>1
<1>10. ASSUME NEW h \in Manifests, NEW c \in {NoBlob, Foreign}, ForeignWrite(h, c) PROVE ReceiptOnRecord'
  BY <1>10 DEF ForeignWrite, workerVars
<1>11. CASE UNCHANGED vars
  BY <1>11 DEF vars, workerVars
<1> QED
  BY <1>3, <1>4, <1>5, <1>6, <1>7, <1>8, <1>9, <1>10, <1>11, NextCases

-----------------------------------------------------------------------------
(* The invariants about one worker at a time *)

WorkerInv(w) ==
  /\ pc[w] \in {"blob_write", "blob_verify"} => Guarded /\ BindingHolds(cmd[w])
  /\ pc[w] \in {"blob_check", "blob_write", "blob_verify", "attest", "await"}
       => stored[w] # "none" /\ cmd[w].hash \in manifests[w]
  /\ Guarded /\ pc[w] \notin {"idle", "integrity", "done"} => BindingHolds(cmd[w])
  /\ config.maxAttempts # 0 =>
       /\ pc[w] \in BeforeAttest \ {"persist"} => attempts[w] = 0
       /\ pc[w] \in {"persist", "attest"} => attempts[w] < config.maxAttempts
       /\ response[w].kind # "raised"

(* What a step of w leaves to another worker.                              *)
Untouched(v) ==
  /\ pc'[v] = pc[v] /\ cmd'[v] = cmd[v] /\ stored'[v] = stored[v]
  /\ attempts'[v] = attempts[v] /\ response'[v] = response[v]
  /\ manifests'[v] = manifests[v]

LEMMA WorkerFrame ==
  ASSUME NEW v \in Workers, WorkerInv(v), config' = config, Untouched(v)
  PROVE  WorkerInv(v)'
  BY DEF WorkerInv, Untouched, Guarded, BindingHolds

LEMMA OthersUntouched ==
  ASSUME TypeOK, NEW w \in Workers, NEW v \in Workers, v # w,
         Step(w) \/ Crash(w) \/ \E c \in Commands : Receive(w, c)
  PROVE  Untouched(v)
<1> USE DEF Untouched, Goto, Respond, TypeOK
<1>1. CASE Step(w)
  <2> USE <1>1
  <2>1. ASSUME NEW exc \in config.storeRaises, PersistRaises(w, exc) PROVE Untouched(v)
    BY <2>1 DEF PersistRaises
  <2>2. CASE CheckIntegrity(w) \/ Persist(w) \/ LoopFallsThrough(w)
    BY <2>2 DEF CheckIntegrity, Persist, LoopFallsThrough
  <2>3. CASE SkipBlob(w) \/ CheckExisting(w) \/ ReplaceBlob(w) \/ BlobAdapterRaises(w)
    BY <2>3 DEF SkipBlob, CheckExisting, ReplaceBlob, BlobAdapterRaises, FinishBlob, BlobFrame
  <2>4. CASE VerifyBlob(w)
    BY <2>4 DEF VerifyBlob, FinishBlob, BlobFrame
  <2>5. CASE AttestLocally(w) \/ Submit(w) \/ ReceiveReceipt(w)
    BY <2>5 DEF AttestLocally, Submit, ReceiveReceipt, SubmitFailed, AttestFrame
  <2>6. ASSUME NEW f \in FailureType, ReceiveFailure(w, f) PROVE Untouched(v)
    BY <2>6 DEF ReceiveFailure, SubmitFailed, AttestFrame
  <2> QED
    BY <2>1, <2>2, <2>3, <2>4, <2>5, <2>6 DEF Step
<1>2. CASE Crash(w)
  BY <1>2 DEF Crash
<1>3. CASE \E c \in Commands : Receive(w, c)
  BY <1>3 DEF Receive
<1> QED
  BY <1>1, <1>2, <1>3

LEMMA WorkerStep ==
  ASSUME TypeOK, NEW w \in Workers, WorkerInv(w),
         Step(w) \/ Crash(w) \/ \E c \in Commands : Receive(w, c)
  PROVE  WorkerInv(w)'
<1> USE DEF WorkerInv, Goto, At, BeforeAttest, Guarded, BindingHolds
<1>t. /\ pc \in [Workers -> Labels] /\ cmd \in [Workers -> Commands]
      /\ attempts \in [Workers -> Nat] /\ response \in [Workers -> ResponseType]
      /\ stored \in [Workers -> {"none", "created", "duplicate"}]
      /\ manifests \in [Workers -> SUBSET Manifests]
  BY DEF TypeOK
<1>m. config.maxAttempts \in Nat
  BY ConfigsAssumption DEF TypeOK, ConfigType
<1>k. /\ \A stage, class, lifecycle : ErrorAt(stage, class, lifecycle).kind # "raised"
      /\ \A tx : ReceiptOf(tx).kind # "raised"
      /\ NoResponse.kind # "raised"
  BY DEF ErrorAt, ReceiptOf, NoResponse
<1>1. CASE CheckIntegrity(w)
  <2>1. CASE Guarded /\ ~BindingHolds(cmd[w])
    BY <1>1, <1>t, <1>k, <2>1 DEF CheckIntegrity, Respond
  <2>2. CASE ~(Guarded /\ ~BindingHolds(cmd[w]))
    BY <1>1, <1>t, <1>m, <2>2 DEF CheckIntegrity
  <2> QED
    BY <2>1, <2>2
<1>2. CASE Persist(w)
  BY <1>2, <1>t, <1>m DEF Persist
<1>3. ASSUME NEW exc \in config.storeRaises, PersistRaises(w, exc) PROVE WorkerInv(w)'
  <2>1. CASE MayTryAgain(is_retryable(exc), attempts[w] + 1)
    BY <1>3, <1>t, <1>m, <2>1 DEF PersistRaises, MayTryAgain
  <2>2. CASE ~MayTryAgain(is_retryable(exc), attempts[w] + 1)
    BY <1>3, <1>t, <1>k, <2>2 DEF PersistRaises, Respond
  <2> QED
    BY <2>1, <2>2
<1>4. CASE LoopFallsThrough(w)
  BY <1>4, <1>t, <1>m DEF LoopFallsThrough, Respond
<1>5. CASE SkipBlob(w) \/ BlobAdapterRaises(w)
  <2>1. /\ pc[w] \in {"blob_check", "blob_write", "blob_verify"}
        /\ pc' = [pc EXCEPT ![w] = "attest"]
        /\ UNCHANGED <<config, cmd, attempts, stored, response, manifests>>
    BY <1>5 DEF SkipBlob, BlobAdapterRaises, FinishBlob, BlobFrame
  <2> QED
    BY <1>t, <1>m, <2>1
<1>6. CASE CheckExisting(w)
  BY <1>6, <1>t, <1>m DEF CheckExisting, FinishBlob, BlobFrame
<1>7. CASE ReplaceBlob(w)
  BY <1>7, <1>t, <1>m DEF ReplaceBlob, BlobFrame
<1>8. CASE VerifyBlob(w)
  <2>1. pc' = [pc EXCEPT ![w] = "attest"]
    BY <1>8 DEF VerifyBlob, FinishBlob
  <2> QED
    BY <1>8, <1>t, <1>m, <2>1 DEF VerifyBlob, BlobFrame
<1>9. CASE AttestLocally(w)
  <2>1. \/ \E r : r.kind # "raised" /\ Respond(w, r)
        \/ /\ Goto(w, "attest") /\ UNCHANGED response
           /\ attempts[w] + 1 < config.maxAttempts
    BY <1>9, <1>k DEF AttestLocally, SubmitFailed, MayTryAgain
  <2> QED
    BY <1>9, <1>t, <1>m, <2>1 DEF AttestLocally, AttestFrame, Respond
<1>10. CASE Submit(w)
  BY <1>10, <1>t DEF Submit, AttestFrame
<1>11. CASE ReceiveReceipt(w)
  BY <1>11, <1>t, <1>k DEF ReceiveReceipt, AttestFrame, Respond
<1>12. ASSUME NEW f \in FailureType, ReceiveFailure(w, f) PROVE WorkerInv(w)'
  <2>1. CASE MayTryAgain(f.retryable, attempts[w])
    BY <1>12, <1>t, <1>m, <2>1 DEF ReceiveFailure, SubmitFailed, MayTryAgain, AttestFrame
  <2>2. CASE ~MayTryAgain(f.retryable, attempts[w])
    BY <1>12, <1>t, <1>k, <2>2 DEF ReceiveFailure, SubmitFailed, Respond, AttestFrame
  <2> QED
    BY <2>1, <2>2
<1>13. CASE Crash(w)
  BY <1>13, <1>t, <1>k DEF Crash
<1>14. ASSUME NEW c \in Commands, Receive(w, c) PROVE WorkerInv(w)'
  BY <1>14, <1>t, <1>m, <1>k DEF Receive
<1> QED
  BY <1>1, <1>2, <1>3, <1>4, <1>5, <1>6, <1>7, <1>8, <1>9, <1>10, <1>11, <1>12, <1>13, <1>14
  DEF Step

LEMMA AllWorkersStep ==
  ASSUME TypeOK, \A w \in Workers : WorkerInv(w), [Next]_vars
  PROVE  \A w \in Workers : WorkerInv(w)'
<1>1. CASE Next
  <2>c. config' = config
    BY <1>1, ConfigFixed
  <2>1. ASSUME NEW w \in Workers,
               Step(w) \/ Crash(w) \/ \E c \in Commands : Receive(w, c)
        PROVE  \A v \in Workers : WorkerInv(v)'
    BY <2>c, <2>1, WorkerStep, OthersUntouched, WorkerFrame
  <2>2. CASE UNCHANGED workerVars /\ manifests' = manifests
    BY <2>c, <2>2, WorkerFrame DEF workerVars, Untouched
  <2> QED
    BY <1>1, <2>1, <2>2 DEF Next, ProviderDecides, ForeignWrite
<1>2. CASE UNCHANGED vars
  BY <1>2, WorkerFrame DEF vars, workerVars, Untouched
<1> QED
  BY <1>1, <1>2

LEMMA WorkerInvMeans ==
  /\ (\A w \in Workers : WorkerInv(w)) <=>
       /\ BlobStepsGuarded
       /\ PersistedBeforeSubmitted
       /\ Guarded => \A w \in Workers :
            pc[w] \notin {"idle", "integrity", "done"} => BindingHolds(cmd[w])
       /\ AttemptsLeft
       /\ LoopsNeverFallThrough
  BY DEF WorkerInv, BlobStepsGuarded, PersistedBeforeSubmitted, AttemptsLeft,
         LoopsNeverFallThrough

(* What has been sent was checked before.                                  *)
SubmissionsBound == Guarded => \A i \in DOMAIN submissions : BindingHolds(submissions[i].cmd)

LEMMA SubmissionsBoundStep ==
  ASSUME TypeOK, AwaitsOwnSubmission, \A w \in Workers : WorkerInv(w), SubmissionsBound, [Next]_vars
  PROVE  SubmissionsBound'
<1> USE DEF SubmissionsBound
<1>c. Guarded' <=> Guarded
  BY ConfigFixed DEF Guarded, vars
<1>1. ASSUME DOMAIN submissions' = DOMAIN submissions,
             \A i \in DOMAIN submissions : submissions'[i].cmd = submissions[i].cmd
      PROVE  SubmissionsBound'
  BY <1>c, <1>1 DEF BindingHolds
<1>2. ASSUME NEW w \in Workers, Submit(w) PROVE SubmissionsBound'
  <2>1. PICK n \in Nat : /\ DOMAIN submissions' = DOMAIN submissions \cup {n}
                         /\ \A j \in DOMAIN submissions : submissions'[j] = submissions[j]
                         /\ submissions'[n] = Submission(w)
    BY <1>2, SubmitEffect
  <2>2. submissions'[n].cmd = cmd[w]
    BY <2>1 DEF Submission
  <2>3. Guarded => BindingHolds(cmd[w])
    BY <1>2 DEF Submit, At, WorkerInv
  <2> QED
    BY <1>c, <2>1, <2>2, <2>3 DEF BindingHolds
<1>3. ASSUME NEW w \in Workers, pc[w] = "await", NEW x,
             submissions' = [submissions EXCEPT ![current[w]].seen = x]
      PROVE  SubmissionsBound'
  BY <1>1, <1>3, SeenEffect DEF AwaitsOwnSubmission
<1>4. ASSUME NEW i \in DOMAIN submissions, NEW v \in {"accepted", "refused"}, ProviderDecides(i, v)
      PROVE  SubmissionsBound'
  BY <1>1, <1>4, StateEffect DEF ProviderDecides
<1>5. CASE submissions' = submissions
  BY <1>1, <1>5
<1>6. ASSUME NEW w \in Workers, Crash(w) PROVE SubmissionsBound'
  BY <1>3, <1>5, <1>6 DEF Crash, At
<1> QED
  BY <1>2, <1>3, <1>4, <1>5, <1>6, NextCases
  DEF Quiet, ReceiveReceipt, ReceiveFailure, Receive, ForeignWrite, At, vars

-----------------------------------------------------------------------------
(* The inductive invariant *)

LEMMA IInvInit == Init => IInv
<1> SUFFICES ASSUME Init PROVE IInv
  OBVIOUS
<1>1. /\ \A w \in Workers : pc[w] = "idle" /\ req[w] = 0 /\ response[w] = NoResponse
      /\ submissions = <<>> /\ requests = 0
  BY DEF Init
<1>2. NoResponse.tx = 0 /\ NoResponse.kind # "raised"
  BY DEF NoResponse
<1>3. DOMAIN submissions = {}
  BY <1>1
<1>4. \A w \in Workers : WorkerInv(w)
  BY <1>1, <1>2 DEF WorkerInv, BeforeAttest
<1> QED
  BY <1>1, <1>2, <1>3, <1>4, TypeInit, WorkerInvMeans
  DEF IInv, AwaitsOwnSubmission, RequestsNumbered, EarlierAttemptsFailed,
      RetriedOnlyWhenTransient, ReceiptOnRecord, BoundBeforeSideEffects

LEMMA IInvStep ==
  ASSUME IInv, [Next]_vars
  PROVE  IInv'
<1> USE DEF IInv
<1>1. (\A w \in Workers : WorkerInv(w)) /\ SubmissionsBound
  BY WorkerInvMeans DEF BoundBeforeSideEffects, SubmissionsBound, BindingHolds
<1>2. (\A w \in Workers : WorkerInv(w)') /\ SubmissionsBound'
  BY <1>1, AllWorkersStep, SubmissionsBoundStep
<1>3. (\A w \in Workers : WorkerInv(w))'
  BY <1>2
<1>4. /\ BlobStepsGuarded' /\ PersistedBeforeSubmitted' /\ AttemptsLeft'
      /\ LoopsNeverFallThrough' /\ BoundBeforeSideEffects'
  BY <1>2, <1>3, WorkerInvMeans, PTL DEF BoundBeforeSideEffects, SubmissionsBound, BindingHolds
<1> QED
  BY <1>4, TypeStep, AwaitsStep, RequestsStep, EarlierStep, RetriedStep, ReceiptStep

LEMMA IInvHolds == Spec => []IInv
  BY IInvInit, IInvStep, PTL DEF Spec

-----------------------------------------------------------------------------
(* The invariants about the blob stores *)

LEMMA BlobsEffect ==
  ASSUME Next
  PROVE  \/ \E w \in Workers : ReplaceBlob(w) \/ Crash(w)
         \/ \E h \in Manifests, c \in {NoBlob, Foreign} : ForeignWrite(h, c)
         \/ blobs' = blobs /\ foreign' = foreign
  BY DEF Next, Step, CheckIntegrity, Persist, PersistRaises, LoopFallsThrough, SkipBlob,
         CheckExisting, VerifyBlob, BlobAdapterRaises, AttestLocally, Submit,
         ReceiveReceipt, ReceiveFailure, Receive, ProviderDecides, BlobFrame, AttestFrame

(* What ReplaceBlob and a crash do to the files.                           *)
LEMMA ReplaceEffect ==
  ASSUME TypeOK, BlobStepsGuarded, NEW w \in Workers, ReplaceBlob(w)
  PROVE  /\ config.executionEnabled /\ foreign' = foreign
         /\ \A r \in Workers \cup {SharedRoot}, h \in Manifests :
               blobs'[r][h] = blobs[r][h] \/ blobs'[r][h] = h
<1>1. /\ Root(w) \in Workers \cup {SharedRoot} /\ cmd[w].hash \in Manifests
      /\ cmd[w].bytes = cmd[w].hash /\ config.executionEnabled
  BY CommandsAssumption DEF Root, TypeOK, ReplaceBlob, At, BlobStepsGuarded, BindingHolds, Guarded
<1> QED
  BY <1>1 DEF ReplaceBlob, TypeOK

LEMMA CrashEffect ==
  ASSUME TypeOK, NEW w \in Workers, Crash(w)
  PROVE  /\ foreign' = foreign
         /\ \A h \in Manifests : blobs'[w][h] = NoBlob
         /\ \A r \in (Workers \cup {SharedRoot}) \ {w} : blobs'[r] = blobs[r]
  BY DEF Crash, TypeOK, EmptyRoot

LEMMA ForeignEffect ==
  ASSUME TypeOK, NEW g \in Manifests, NEW c \in {NoBlob, Foreign}, ForeignWrite(g, c)
  PROVE  /\ foreign' = foreign + 1 /\ foreign' # 0
         /\ \A r \in Workers \cup {SharedRoot}, h \in Manifests :
               blobs'[r][h] \in {blobs[r][h], NoBlob, Foreign}
<1>1. foreign + 1 # 0
  BY DEF TypeOK
<1> QED
  BY <1>1 DEF ForeignWrite, TypeOK

LEMMA ContentStep ==
  ASSUME TypeOK, BlobStepsGuarded, ContentAddressed, [Next]_vars
  PROVE  ContentAddressed'
<1> USE DEF ContentAddressed
<1>1. ASSUME NEW w \in Workers, ReplaceBlob(w) PROVE ContentAddressed'
  BY <1>1, ReplaceEffect
<1>2. ASSUME NEW w \in Workers, Crash(w) PROVE ContentAddressed'
  BY <1>2, CrashEffect
<1>3. ASSUME NEW h \in Manifests, NEW c \in {NoBlob, Foreign}, ForeignWrite(h, c) PROVE ContentAddressed'
  BY <1>3, ForeignEffect
<1>4. CASE UNCHANGED <<blobs, foreign>>
  BY <1>4
<1> QED
  BY <1>1, <1>2, <1>3, <1>4, BlobsEffect DEF vars

LEMMA GateStep ==
  ASSUME TypeOK, AwaitsOwnSubmission, BlobStepsGuarded, GateClosedIsInert, [Next]_vars
  PROVE  GateClosedIsInert'
<1>c. config' = config
  BY ConfigFixed DEF vars
<1> SUFFICES ASSUME ~config.executionEnabled
             PROVE  /\ submissions' = <<>>
                    /\ \A r \in Workers \cup {SharedRoot}, h \in Manifests :
                          blobs'[r][h] \in {NoBlob, Foreign}
  BY <1>c DEF GateClosedIsInert
<1>1. /\ submissions = <<>>
      /\ \A r \in Workers \cup {SharedRoot}, h \in Manifests : blobs[r][h] \in {NoBlob, Foreign}
  BY DEF GateClosedIsInert
<1>2. submissions' = <<>>
  <2>1. DOMAIN submissions = {}
    BY <1>1
  <2>2. \A w \in Workers : ~Submit(w)
    BY ConfigsAssumption DEF Submit, TypeOK
  <2>3. \A w \in Workers : pc[w] # "await"
    BY <2>1 DEF AwaitsOwnSubmission
  <2> QED
    BY <1>1, <2>1, <2>2, <2>3, NextCases
    DEF Quiet, ReceiveReceipt, ReceiveFailure, Crash, Receive, ForeignWrite, At, vars
<1>3. \A r \in Workers \cup {SharedRoot}, h \in Manifests : blobs'[r][h] \in {NoBlob, Foreign}
  <2>1. \A w \in Workers : ~ReplaceBlob(w)
    BY ReplaceEffect
  <2>2. ASSUME NEW w \in Workers, Crash(w)
        PROVE  \A r \in Workers \cup {SharedRoot}, h \in Manifests : blobs'[r][h] \in {NoBlob, Foreign}
    BY <1>1, <2>2, CrashEffect
  <2>3. ASSUME NEW g \in Manifests, NEW c \in {NoBlob, Foreign}, ForeignWrite(g, c)
        PROVE  \A r \in Workers \cup {SharedRoot}, h \in Manifests : blobs'[r][h] \in {NoBlob, Foreign}
    BY <1>1, <2>3, ForeignEffect
  <2> QED
    BY <1>1, <2>1, <2>2, <2>3, BlobsEffect DEF vars
<1> QED
  BY <1>2, <1>3

(* A receipt is marked verified only by a read that found the bytes.       *)
LEMMA VerifiedEffect ==
  ASSUME TypeOK, [Next]_vars, NEW w \in Workers, blobReceipt'[w].verified
  PROVE  /\ cmd'[w] = cmd[w]
         /\ blobReceipt[w].verified \/ blobs[Root(w)][cmd[w].hash] = cmd[w].hash
         /\ ~Crash(w)
         /\ blobReceipt[w].verified \/ UNCHANGED <<blobs, foreign>>
<1> USE DEF TypeOK, FinishBlob, BlobReceipt
<1>n. NoReceipt.verified = FALSE
  BY DEF NoReceipt
<1>1. ASSUME NEW v \in Workers, VerifyBlob(v)
      PROVE  /\ cmd' = cmd /\ UNCHANGED <<blobs, foreign>>
             /\ blobReceipt[w].verified \/ blobs[Root(w)][cmd[w].hash] = cmd[w].hash
  <2>0. cmd' = cmd /\ UNCHANGED <<blobs, foreign>>
    BY <1>1 DEF VerifyBlob, BlobFrame
  <2>1. CASE v # w
    BY <1>1, <2>0, <2>1 DEF VerifyBlob
  <2>2. CASE v = w
    <3>1. blobReceipt'[w].verified => blobs[Root(w)][cmd[w].hash] = cmd[w].hash
      BY <1>1, <2>2 DEF VerifyBlob
    <3> QED
      BY <2>0, <3>1
  <2> QED
    BY <2>1, <2>2
<1>2. ASSUME NEW v \in Workers, VerifyBlob(v) PROVE ~Crash(w)
  BY <1>n, <1>2 DEF Crash
<1>3. ASSUME NEW v \in Workers, SkipBlob(v) \/ CheckExisting(v) \/ BlobAdapterRaises(v)
      PROVE  cmd' = cmd /\ blobReceipt[w].verified
  <2>1. cmd' = cmd
    BY <1>3 DEF SkipBlob, CheckExisting, BlobAdapterRaises, BlobFrame
  <2>2. \E r : r.verified = FALSE /\ blobReceipt' = [blobReceipt EXCEPT ![v] = r]
    BY <1>3 DEF SkipBlob, CheckExisting, BlobAdapterRaises
  <2> QED
    BY <2>1, <2>2
<1>4. ASSUME NEW v \in Workers, NEW c \in Commands, Receive(v, c)
      PROVE  cmd'[w] = cmd[w] /\ blobReceipt[w].verified
  BY <1>n, <1>4 DEF Receive
<1>5. ASSUME NEW v \in Workers, Crash(v) PROVE cmd' = cmd /\ blobReceipt[w].verified
  BY <1>n, <1>5 DEF Crash
<1>6. ~Crash(w)
  BY <1>n DEF Crash
<1>7. CASE cmd' = cmd /\ blobReceipt' = blobReceipt
  BY <1>6, <1>7
<1> QED
  BY <1>1, <1>3, <1>4, <1>5, <1>6, <1>7
  DEF Next, Step, CheckIntegrity, Persist, PersistRaises, LoopFallsThrough, ReplaceBlob,
      AttestLocally, Submit, ReceiveReceipt, ReceiveFailure, ProviderDecides, ForeignWrite,
      BlobFrame, AttestFrame, workerVars, vars

LEMMA VerifiedStep ==
  ASSUME TypeOK, BlobStepsGuarded, VerifiedBlobStays, [Next]_vars
  PROVE  VerifiedBlobStays'
<1>c. config' = config
  BY ConfigFixed DEF vars
<1> SUFFICES ASSUME foreign' = 0, NEW w \in Workers, blobReceipt'[w].verified
             PROVE  blobs'[Root(w)][cmd'[w].hash] = cmd'[w].hash
  BY <1>c DEF VerifiedBlobStays, Root
<1>1. /\ cmd'[w] = cmd[w] /\ ~Crash(w)
      /\ blobReceipt[w].verified \/ blobs[Root(w)][cmd[w].hash] = cmd[w].hash
      /\ blobReceipt[w].verified \/ UNCHANGED <<blobs, foreign>>
  BY VerifiedEffect
<1>2. cmd[w].hash \in Manifests /\ Root(w) \in {w, SharedRoot}
  BY CommandsAssumption DEF TypeOK, Root
<1>3. foreign = 0 => blobs[Root(w)][cmd[w].hash] = cmd[w].hash
  BY <1>1 DEF VerifiedBlobStays
<1>4. ASSUME NEW v \in Workers, ReplaceBlob(v) PROVE blobs'[Root(w)][cmd[w].hash] = cmd[w].hash
  BY <1>2, <1>3, <1>4, ReplaceEffect
<1>5. ASSUME NEW v \in Workers, Crash(v) PROVE blobs'[Root(w)][cmd[w].hash] = cmd[w].hash
  <2>1. v # w /\ Root(w) # v
    BY <1>1, <1>2, <1>5, DistinctAssumption
  <2> QED
    BY <1>2, <1>3, <1>5, <2>1, CrashEffect
<1>6. ASSUME NEW g \in Manifests, NEW c \in {NoBlob, Foreign}, ForeignWrite(g, c) PROVE FALSE
  BY <1>6, ForeignEffect
<1>7. CASE UNCHANGED <<blobs, foreign>>
  BY <1>1, <1>3, <1>7
<1> QED
  BY <1>1, <1>4, <1>5, <1>6, <1>7, BlobsEffect DEF vars

StoreInv == IInv /\ ContentAddressed /\ GateClosedIsInert /\ VerifiedBlobStays

LEMMA StoreInit == Init => StoreInv
<1> SUFFICES ASSUME Init PROVE ContentAddressed /\ GateClosedIsInert /\ VerifiedBlobStays
  BY IInvInit DEF StoreInv
<1>1. /\ \A r \in Workers \cup {SharedRoot}, h \in Manifests : blobs[r][h] = NoBlob
      /\ submissions = <<>>
      /\ \A w \in Workers : blobReceipt[w].verified = FALSE
  BY DEF Init, EmptyRoot, NoReceipt, BlobReceipt
<1> QED
  BY <1>1 DEF ContentAddressed, GateClosedIsInert, VerifiedBlobStays

LEMMA StoreInvHolds == Spec => []StoreInv
<1>1. StoreInv /\ [Next]_vars => StoreInv'
  BY IInvStep, ContentStep, GateStep, VerifiedStep DEF StoreInv, IInv
<1> QED
  BY <1>1, StoreInit, PTL DEF Spec

-----------------------------------------------------------------------------
(* The theorems *)

(* The state is well typed: in particular a response of the orchestrator   *)
(* never has a lifecycle or a failure class outside its contract.          *)
THEOREM TypeCorrect == Spec => []TypeOK
<1>1. IInv => TypeOK
  BY DEF IInv
<1> QED
  BY <1>1, IInvHolds, PTL

(* Nothing is written or submitted before the manifest is persisted.       *)
THEOREM PersistedFirst == Spec => []PersistedBeforeSubmitted
<1>1. IInv => PersistedBeforeSubmitted
  BY DEF IInv
<1> QED
  BY <1>1, IInvHolds, PTL

(* With a blob store and the gate open, only bytes that hash to the        *)
(* manifest hash get past the integrity check of execute.                  *)
THEOREM IntegrityFirst == Spec => []BoundBeforeSideEffects
<1>1. IInv => BoundBeforeSideEffects
  BY DEF IInv
<1> QED
  BY <1>1, IInvHolds, PTL

(* A receipt with a transaction hash is backed by the last submission of   *)
(* the same request, which was accepted, and all the earlier ones had      *)
(* failed transiently, whatever the provider did with them since.          *)
THEOREM ReceiptsAreBacked == Spec => []ReceiptBacked
<1>1. IInv => ReceiptBacked
  <2> SUFFICES ASSUME IInv, NEW w \in Workers, response[w].tx # 0,
                      NEW i \in SubmissionsOf(req[w]) \ {response[w].tx}
               PROVE  i < response[w].tx /\ submissions[i].seen = "transient"
    BY DEF IInv, ReceiptBacked
  <2>1. /\ response[w].tx \in DOMAIN submissions /\ i \in DOMAIN submissions
        /\ submissions[i].req = submissions[response[w].tx].req
        /\ submissions[response[w].tx].seen = "receipt"
    BY DEF IInv, ReceiptOnRecord, SubmissionsOf
  <2>2. DOMAIN submissions \subseteq Nat
    BY DEF IInv, TypeOK
  <2> QED
    BY <2>1, <2>2 DEF IInv, RetriedOnlyWhenTransient
<1> QED
  BY <1>1, IInvHolds, PTL

(* The retry loop of the attestation sends again only after a transient    *)
(* failure.                                                                *)
THEOREM RetriesAreTransient == Spec => []RetriedOnlyWhenTransient
<1>1. IInv => RetriedOnlyWhenTransient
  BY DEF IInv
<1> QED
  BY <1>1, IInvHolds, PTL

(* The lines marked unreachable are unreachable, for every policy of at    *)
(* least one attempt.                                                      *)
THEOREM LoopsEnd == Spec => []LoopsNeverFallThrough
<1>1. IInv => LoopsNeverFallThrough
  BY DEF IInv
<1> QED
  BY <1>1, IInvHolds, PTL

(* A blob file holds the bytes its name is the hash of.                    *)
THEOREM BlobsAreContentAddressed == Spec => []ContentAddressed
<1>1. StoreInv => ContentAddressed
  BY DEF StoreInv
<1> QED
  BY <1>1, StoreInvHolds, PTL

(* A closed gate means no blob and no submission.                          *)
THEOREM ClosedGateIsInert == Spec => []GateClosedIsInert
<1>1. StoreInv => GateClosedIsInert
  BY DEF StoreInv
<1> QED
  BY <1>1, StoreInvHolds, PTL

(* A verified blob is there for as long as its request lives.              *)
THEOREM VerifiedBlobsStay == Spec => []VerifiedBlobStays
<1>1. StoreInv => VerifiedBlobStays
  BY DEF StoreInv
<1> QED
  BY <1>1, StoreInvHolds, PTL
=============================================================================
