--------------------------- MODULE AttemptsProofs ---------------------------
(***************************************************************************)
(* The two properties of Orchestrator that count: how many submissions one *)
(* request sends, and what a permanent failure leaves at the provider.     *)
(* The invariant compares, for each worker, the submissions of its request *)
(* with the attempt counter of the loop; it needs the invariant IInv of    *)
(* Orchestrator, which says whose request a submission can be.             *)
(***************************************************************************)
EXTENDS OrchestratorProofs, FiniteSetTheorems

(* The submissions of request r, in any sequence of submissions.           *)
Sent(s, r) == {i \in DOMAIN s : s[i].req = r}

LEMMA SentFinite ==
  ASSUME TypeOK, NEW r
  PROVE  IsFiniteSet(Sent(submissions, r)) /\ Cardinality(Sent(submissions, r)) \in Nat
<1>1. Len(submissions) \in Nat /\ DOMAIN submissions = 1..Len(submissions)
  BY DEF TypeOK
<1>2. IsFiniteSet(1..Len(submissions))
  BY <1>1, FS_Interval
<1>3. Sent(submissions, r) \in SUBSET (1..Len(submissions))
  BY <1>1 DEF Sent
<1> QED
  BY <1>2, <1>3, FS_Subset, FS_CardinalityType

(* Only Submit adds a submission.                                          *)
LEMMA NothingSent ==
  ASSUME IInv, [Next]_vars, \A w \in Workers : ~Submit(w), NEW r
  PROVE  Sent(submissions', r) = Sent(submissions, r)
<1>t. TypeOK /\ AwaitsOwnSubmission
  BY DEF IInv
<1>1. CASE submissions' = submissions
  BY <1>1
<1>2. ASSUME NEW i \in DOMAIN submissions, NEW x,
             submissions' = [submissions EXCEPT ![i].seen = x]
      PROVE  Sent(submissions', r) = Sent(submissions, r)
  BY <1>t, <1>2, SeenEffect DEF Sent
<1>3. ASSUME NEW i \in DOMAIN submissions, NEW v, ProviderDecides(i, v)
      PROVE  Sent(submissions', r) = Sent(submissions, r)
  BY <1>t, <1>3, StateEffect DEF Sent, ProviderDecides
<1>4. ASSUME NEW w \in Workers, Crash(w) PROVE Sent(submissions', r) = Sent(submissions, r)
  BY <1>t, <1>1, <1>2, <1>4 DEF Crash, At, AwaitsOwnSubmission
<1>5. ASSUME NEW w \in Workers, ReceiveReceipt(w)
      PROVE  Sent(submissions', r) = Sent(submissions, r)
  BY <1>t, <1>2, <1>5 DEF ReceiveReceipt, At, AwaitsOwnSubmission
<1>6. ASSUME NEW w \in Workers, NEW f \in FailureType, ReceiveFailure(w, f)
      PROVE  Sent(submissions', r) = Sent(submissions, r)
  BY <1>t, <1>2, <1>6 DEF ReceiveFailure, At, AwaitsOwnSubmission
<1> QED
  BY <1>t, <1>1, <1>3, <1>4, <1>5, <1>6, NextCases DEF Quiet, Receive, ForeignWrite, vars

LEMMA OneSent ==
  ASSUME IInv, NEW w \in Workers, Submit(w), NEW r
  PROVE  /\ r # req[w] => Sent(submissions', r) = Sent(submissions, r)
         /\ r = req[w] => Cardinality(Sent(submissions', r)) = Cardinality(Sent(submissions, r)) + 1
<1>t. TypeOK
  BY DEF IInv
<1>1. PICK n \in Nat : /\ n \notin DOMAIN submissions
                       /\ DOMAIN submissions' = DOMAIN submissions \cup {n}
                       /\ \A j \in DOMAIN submissions : submissions'[j] = submissions[j]
                       /\ submissions'[n] = Submission(w)
  BY <1>t, SubmitEffect
<1>2. submissions'[n].req = req[w]
  BY <1>1 DEF Submission
<1>3. r # req[w] => Sent(submissions', r) = Sent(submissions, r)
  BY <1>1, <1>2 DEF Sent
<1>4. r = req[w] => Sent(submissions', r) = Sent(submissions, r) \cup {n}
  BY <1>1, <1>2 DEF Sent
<1>5. n \notin Sent(submissions, r)
  BY <1>1 DEF Sent
<1> QED
  BY <1>t, <1>3, <1>4, <1>5, SentFinite, FS_AddElement

(* A worker's request changes when it receives one, and is new then.       *)
LEMMA RequestStep ==
  ASSUME IInv, NEW w \in Workers, [Next]_vars
  PROVE  \/ req'[w] = req[w]
         \/ /\ \E c \in Commands : Receive(w, c)
            /\ Sent(submissions', req'[w]) = {}
<1>t. TypeOK /\ RequestsNumbered
  BY DEF IInv
<1>1. ASSUME NEW v \in Workers, NEW c \in Commands, Receive(v, c), v # w
      PROVE  req'[w] = req[w]
  BY <1>t, <1>1 DEF Receive, TypeOK
<1>2. ASSUME NEW c \in Commands, Receive(w, c)
      PROVE  Sent(submissions', req'[w]) = {}
  <2>1. req'[w] = requests + 1 /\ submissions' = submissions
    BY <1>t, <1>2 DEF Receive, TypeOK
  <2>2. \A i \in DOMAIN submissions : submissions[i].req # requests + 1
    <3>1. \A i \in DOMAIN submissions : submissions[i] \in SubmissionType
      BY <1>t DEF TypeOK
    <3>2. \A i \in DOMAIN submissions : submissions[i].req \in Nat /\ submissions[i].req <= requests
      BY <1>t, <3>1 DEF SubmissionType, RequestsNumbered
    <3>3. requests \in Nat
      BY <1>t DEF TypeOK
    <3> QED
      BY <3>2, <3>3
  <2> QED
    BY <2>1, <2>2 DEF Sent
<1> QED
  BY <1>t, <1>1, <1>2, NextCases
  DEF Quiet, Submit, ReceiveReceipt, ReceiveFailure, AttestFrame, Crash, ProviderDecides,
      ForeignWrite, workerVars, vars

(* What others do adds nothing to a request.                               *)
LEMMA SentKept ==
  ASSUME IInv, NEW w \in Workers, [Next]_vars, req'[w] = req[w], ~Submit(w)
  PROVE  Sent(submissions', req'[w]) = Sent(submissions, req[w])
<1>1. ASSUME NEW v \in Workers, Submit(v)
      PROVE  Sent(submissions', req'[w]) = Sent(submissions, req[w])
  <2>1. req[v] # req[w]
    BY <1>1, OwnRequest DEF IInv, Submit, At
  <2> QED
    BY <1>1, <2>1, OneSent
<1>2. CASE \A v \in Workers : ~Submit(v)
  BY <1>2, NothingSent
<1> QED
  BY <1>1, <1>2

-----------------------------------------------------------------------------
(* How many submissions                                                    *)

Counted(w) ==
  LET n == Cardinality(Sent(submissions, req[w])) IN
  /\ n <= config.maxAttempts
  /\ pc[w] \in {"attest", "await"} => n <= attempts[w]

(* Within the attestation loop the counter only grows.                     *)
LEMMA AttemptsGrow ==
  ASSUME TypeOK, NEW w \in Workers, Step(w), pc[w] \in {"attest", "await"}
  PROVE  attempts'[w] >= attempts[w]
<1>t. attempts \in [Workers -> Nat]
  BY DEF TypeOK
<1>1. \/ LoopFallsThrough(w) \/ AttestLocally(w) \/ Submit(w) \/ ReceiveReceipt(w)
      \/ \E f \in FailureType : ReceiveFailure(w, f)
  BY DEF Step, At, CheckIntegrity, Persist, PersistRaises, SkipBlob, CheckExisting, ReplaceBlob,
         VerifyBlob, BlobAdapterRaises
<1>2. attempts' = attempts \/ attempts' = [attempts EXCEPT ![w] = @ + 1]
  BY <1>1 DEF LoopFallsThrough, AttestLocally, Submit, ReceiveReceipt, ReceiveFailure
<1> QED
  BY <1>t, <1>2

LEMMA CountedStep ==
  ASSUME IInv, IInv', NEW w \in Workers, Counted(w), [Next]_vars
  PROVE  Counted(w)'
<1>t. /\ TypeOK /\ TypeOK' /\ RequestsNumbered /\ EarlierAttemptsFailed
      /\ attempts' \in [Workers -> Nat] /\ attempts \in [Workers -> Nat]
  BY DEF IInv, TypeOK
<1>c. config' = config /\ config.maxAttempts \in Nat
  BY <1>t, ConfigFixed, ConfigsAssumption DEF vars, TypeOK, ConfigType
<1> DEFINE n == Cardinality(Sent(submissions, req[w]))
           m == Cardinality(Sent(submissions', req'[w]))
<1>n. n \in Nat
  BY <1>t, SentFinite
<1>d. n <= config.maxAttempts /\ (pc[w] \in {"attest", "await"} => n <= attempts[w])
  BY DEF Counted
<1>g. SUFFICES m <= config.maxAttempts /\ (pc'[w] \in {"attest", "await"} => m <= attempts'[w])
  BY <1>c DEF Counted
<1>1. ASSUME NEW c \in Commands, Receive(w, c), Sent(submissions', req'[w]) = {}
      PROVE  m <= config.maxAttempts /\ (pc'[w] \in {"attest", "await"} => m <= attempts'[w])
  BY <1>t, <1>c, <1>1, FS_EmptySet
<1>2. ASSUME Submit(w)
      PROVE  m <= config.maxAttempts /\ (pc'[w] \in {"attest", "await"} => m <= attempts'[w])
  <2>1. req'[w] = req[w] /\ pc[w] = "attest" /\ attempts[w] < config.maxAttempts
        /\ attempts'[w] = attempts[w] + 1
    BY <1>t, <1>2 DEF Submit, At, AttestFrame
  <2>2. m = n + 1
    BY <1>2, <2>1, OneSent
  <2> HIDE DEF n, m
  <2> QED
    BY <1>t, <1>c, <1>n, <1>d, <2>1, <2>2
<1>3. ASSUME m = n,
             pc'[w] \in {"attest", "await"} =>
               (pc[w] \in {"attest", "await"} /\ attempts'[w] >= attempts[w]) \/ n = 0
      PROVE  m <= config.maxAttempts /\ (pc'[w] \in {"attest", "await"} => m <= attempts'[w])
  <2> HIDE DEF n, m
  <2> QED
    BY <1>t, <1>c, <1>n, <1>d, <1>3
<1>4. ASSUME req'[w] = req[w], ~Submit(w) PROVE m = n
  BY <1>4, SentKept
<1> HIDE DEF n, m
<1>5. ASSUME Step(w), req'[w] = req[w], ~Submit(w)
      PROVE  m <= config.maxAttempts /\ (pc'[w] \in {"attest", "await"} => m <= attempts'[w])
  <2>1. CASE pc[w] \in {"attest", "await"}
    BY <1>t, <1>3, <1>4, <1>5, <2>1, AttemptsGrow
  <2>2. CASE pc[w] \notin {"attest", "await"}
    <3>1. pc[w] \in BeforeAttest
      BY <1>5, <2>2 DEF Step, At, CheckIntegrity, Persist, PersistRaises, LoopFallsThrough,
        SkipBlob, CheckExisting, ReplaceBlob, VerifyBlob, BlobAdapterRaises, AttestLocally,
        Submit, ReceiveReceipt, ReceiveFailure, BeforeAttest
    <3>2. Sent(submissions, req[w]) = {}
      BY <1>t, <3>1 DEF EarlierAttemptsFailed, Sent
    <3>3. n = 0
      BY <3>2, FS_EmptySet DEF n
    <3> QED
      BY <1>3, <1>4, <1>5, <3>3
  <2> QED
    BY <2>1, <2>2
<1>6. ASSUME Crash(w), req'[w] = req[w], ~Submit(w)
      PROVE  m <= config.maxAttempts /\ (pc'[w] \in {"attest", "await"} => m <= attempts'[w])
  <2>1. pc'[w] = "idle"
    BY <1>t, <1>6 DEF Crash, Goto, TypeOK
  <2> QED
    BY <1>3, <1>4, <1>6, <2>1
<1>7. ASSUME pc'[w] = pc[w], attempts'[w] = attempts[w], req'[w] = req[w], ~Submit(w)
      PROVE  m <= config.maxAttempts /\ (pc'[w] \in {"attest", "await"} => m <= attempts'[w])
  BY <1>t, <1>3, <1>4, <1>7
<1>8. ASSUME pc'[w] = pc[w] PROVE ~Submit(w)
  BY <1>t, <1>8 DEF Submit, At, Goto, TypeOK
<1>9. CASE \E c \in Commands : Receive(w, c) /\ Sent(submissions', req'[w]) = {}
  BY <1>1, <1>9
<1>10. CASE req'[w] = req[w]
  <2>1. ASSUME NEW v \in Workers, v # w,
               Step(v) \/ Crash(v) \/ \E c \in Commands : Receive(v, c)
        PROVE  pc'[w] = pc[w] /\ attempts'[w] = attempts[w]
    BY <1>t, <2>1, OthersUntouched DEF Untouched
  <2>2. ASSUME NEW c \in Commands, Receive(w, c)
        PROVE  pc'[w] \notin {"attest", "await"} /\ ~Submit(w)
    BY <1>t, <2>2 DEF Receive, Goto, TypeOK, Submit, At
  <2>3. CASE \E c \in Commands : Receive(w, c)
    BY <1>3, <1>4, <1>10, <2>2, <2>3
  <2>4. ASSUME Crash(w) PROVE ~Submit(w)
    BY <1>t, <2>4 DEF Crash, Goto, TypeOK, Submit
  <2>5. CASE UNCHANGED workerVars
    BY <1>7, <1>8, <1>10, <2>5 DEF workerVars
  <2>6. CASE Step(w) \/ Crash(w)
    BY <1>2, <1>5, <1>6, <1>10, <2>4, <2>6
  <2>7. CASE \E v \in Workers \ {w} : Step(v) \/ Crash(v) \/ \E c \in Commands : Receive(v, c)
    BY <1>7, <1>8, <1>10, <2>1, <2>7
  <2>8. [Next]_vars => \/ UNCHANGED workerVars
                       \/ \E v \in Workers : Step(v) \/ Crash(v) \/ \E c \in Commands : Receive(v, c)
    BY DEF Next, ProviderDecides, ForeignWrite, vars
  <2> QED
    BY <2>3, <2>5, <2>6, <2>7, <2>8
<1> QED
  BY <1>9, <1>10, RequestStep

-----------------------------------------------------------------------------
(* What a permanent failure leaves                                         *)

Permanent(w) == response[w].lifecycle = "submission_failed_permanent"

(* Only an answered request has a response, and a permanent failure under  *)
(* the default policy means that all its submissions were refused.         *)
Final(w) ==
  /\ pc[w] # "done" => ~Permanent(w)
  /\ config.maxAttempts = 1 /\ Permanent(w) =>
       \A i \in Sent(submissions, req[w]) : submissions[i].state = "refused"

(* The provider does not take a refusal back.                              *)
LEMMA RefusedStays ==
  ASSUME IInv, [Next]_vars, NEW i \in DOMAIN submissions, submissions[i].state = "refused"
  PROVE  i \in DOMAIN submissions' /\ submissions'[i].state = "refused"
<1>t. TypeOK /\ AwaitsOwnSubmission
  BY DEF IInv
<1>1. CASE submissions' = submissions
  BY <1>1
<1>2. ASSUME NEW j \in DOMAIN submissions, NEW x,
             submissions' = [submissions EXCEPT ![j].seen = x]
      PROVE  i \in DOMAIN submissions' /\ submissions'[i].state = "refused"
  BY <1>t, <1>2, SeenEffect
<1>3. ASSUME NEW j \in DOMAIN submissions, NEW v, ProviderDecides(j, v)
      PROVE  i \in DOMAIN submissions' /\ submissions'[i].state = "refused"
  BY <1>t, <1>3, StateEffect DEF ProviderDecides
<1>4. ASSUME NEW w \in Workers, Crash(w)
      PROVE  i \in DOMAIN submissions' /\ submissions'[i].state = "refused"
  BY <1>t, <1>1, <1>2, <1>4 DEF Crash, At, AwaitsOwnSubmission
<1>5. ASSUME NEW w \in Workers, ReceiveReceipt(w)
      PROVE  i \in DOMAIN submissions' /\ submissions'[i].state = "refused"
  BY <1>t, <1>2, <1>5 DEF ReceiveReceipt, At, AwaitsOwnSubmission
<1>6. ASSUME NEW w \in Workers, NEW f \in FailureType, ReceiveFailure(w, f)
      PROVE  i \in DOMAIN submissions' /\ submissions'[i].state = "refused"
  BY <1>t, <1>2, <1>6 DEF ReceiveFailure, At, AwaitsOwnSubmission
<1>7. ASSUME NEW w \in Workers, Submit(w)
      PROVE  i \in DOMAIN submissions' /\ submissions'[i].state = "refused"
  BY <1>t, <1>7, SubmitEffect
<1> QED
  BY <1>t, <1>1, <1>3, <1>4, <1>5, <1>6, <1>7, NextCases DEF Quiet, Receive, ForeignWrite, vars

(* A permanent failure of an adapter is a refusal, or nothing was sent.    *)
LEMMA PermanentMeansRefused ==
  ASSUME NEW a, NEW st \in {"in_flight", "accepted", "refused"}, NEW f \in FailedAnswers(a, st),
         f.lifecycle = "submission_failed_permanent"
  PROVE  st = "refused"
BY DEF FailedAnswers, LostAnswers, MalformedAnswer, UnlistedStatus, AdapterError

(* The steps that answer a request, by what they can answer.               *)
LEMMA Answering ==
  ASSUME TypeOK, NEW w \in Workers, Step(w), pc[w] # "done", ~Permanent(w)
  PROVE  /\ pc'[w] # "done" => response'[w] = response[w]
         /\ response'[w].lifecycle = "submission_failed_permanent" =>
              \/ AttestLocally(w)
              \/ \E f \in FailureType : ReceiveFailure(w, f)
                                        /\ f.lifecycle = "submission_failed_permanent"
<1>t. pc \in [Workers -> Labels] /\ response \in [Workers -> ResponseType]
  BY DEF TypeOK
<1>k. /\ \A stage, class, lifecycle : ErrorAt(stage, class, lifecycle).lifecycle = lifecycle
      /\ \A tx : ReceiptOf(tx).lifecycle = "submitted_not_finalized"
      /\ Raised.lifecycle = "none"
  BY DEF ErrorAt, ReceiptOf, Raised, NoResponse
<1> USE DEF Goto, Respond, Permanent
<1>1. CASE CheckIntegrity(w)
  BY <1>t, <1>k, <1>1 DEF CheckIntegrity
<1>2. CASE Persist(w) \/ SkipBlob(w) \/ CheckExisting(w) \/ ReplaceBlob(w) \/ VerifyBlob(w)
           \/ BlobAdapterRaises(w) \/ Submit(w)
  BY <1>2 DEF Persist, SkipBlob, CheckExisting, ReplaceBlob, VerifyBlob, BlobAdapterRaises,
              Submit, BlobFrame
<1>3. ASSUME NEW exc \in config.storeRaises, PersistRaises(w, exc)
      PROVE  /\ pc'[w] # "done" => response'[w] = response[w]
             /\ response'[w].lifecycle # "submission_failed_permanent"
  BY <1>t, <1>k, <1>3 DEF PersistRaises
<1>4. CASE LoopFallsThrough(w) \/ ReceiveReceipt(w)
  BY <1>t, <1>k, <1>4 DEF LoopFallsThrough, ReceiveReceipt
<1>5. CASE AttestLocally(w)
  BY <1>t, <1>5 DEF AttestLocally, SubmitFailed
<1>6. ASSUME NEW f \in FailureType, ReceiveFailure(w, f)
      PROVE  /\ pc'[w] # "done" => response'[w] = response[w]
             /\ response'[w].lifecycle = "submission_failed_permanent" =>
                  f.lifecycle = "submission_failed_permanent"
  BY <1>t, <1>k, <1>6 DEF ReceiveFailure, SubmitFailed
<1> QED
  BY <1>1, <1>2, <1>3, <1>4, <1>5, <1>6 DEF Step

LEMMA FinalStep ==
  ASSUME IInv, NEW w \in Workers, Counted(w), Final(w), [Next]_vars
  PROVE  Final(w)'
<1>t. /\ TypeOK /\ AwaitsOwnSubmission /\ AttemptsLeft
      /\ pc \in [Workers -> Labels] /\ response \in [Workers -> ResponseType]
      /\ req \in [Workers -> Nat] /\ attempts \in [Workers -> Nat]
  BY DEF IInv, TypeOK
<1>c. config' = config /\ config.maxAttempts \in Nat
  BY <1>t, ConfigFixed, ConfigsAssumption DEF vars, TypeOK, ConfigType
<1> DEFINE S == Sent(submissions, req[w])
<1>f. IsFiniteSet(S) /\ Cardinality(S) \in Nat
  BY <1>t, SentFinite
<1>1. ASSUME req'[w] = req[w], ~Submit(w), \A i \in S : submissions[i].state = "refused"
      PROVE  \A i \in Sent(submissions', req'[w]) : submissions'[i].state = "refused"
  <2>1. Sent(submissions', req'[w]) = S
    BY <1>1, SentKept
  <2>2. S \subseteq DOMAIN submissions
    BY DEF Sent
  <2> HIDE DEF S
  <2> QED
    BY <1>1, <2>1, <2>2, RefusedStays
(* The worker's own steps towards an answer.                               *)
<1>2. ASSUME Step(w), req'[w] = req[w] PROVE Final(w)'
  <2>1. pc[w] # "done" /\ ~Permanent(w)
    <3>1. pc[w] # "done"
      BY <1>2 DEF Step, At, CheckIntegrity, Persist, PersistRaises, LoopFallsThrough, SkipBlob,
        CheckExisting, ReplaceBlob, VerifyBlob, BlobAdapterRaises, AttestLocally, Submit,
        ReceiveReceipt, ReceiveFailure
    <3> QED
      BY <3>1 DEF Final
  <2>2. pc'[w] # "done" => ~(Permanent(w)')
    BY <1>2, <1>t, <2>1, Answering DEF Permanent
  <2>3. ASSUME config.maxAttempts = 1, Permanent(w)'
        PROVE  \A i \in Sent(submissions', req'[w]) : submissions'[i].state = "refused"
    <3>1. CASE AttestLocally(w)
      <4>1. attempts[w] = 0 /\ pc[w] = "attest" /\ ~Submit(w)
        BY <1>t, <2>3, <3>1 DEF AttestLocally, At, AttemptsLeft, Submit
      <4>2. Cardinality(S) <= 0
        BY <4>1 DEF Counted
      <4>3. Cardinality(S) = 0
        BY <1>f, <4>2
      <4>4. S = {}
        BY <1>f, <4>3, FS_EmptySet
      <4> QED
        BY <1>1, <1>2, <4>1, <4>4
    <3>2. ASSUME NEW f \in FailureType, ReceiveFailure(w, f),
                 f.lifecycle = "submission_failed_permanent"
          PROVE  \A i \in Sent(submissions', req'[w]) : submissions'[i].state = "refused"
      <4>1. /\ pc[w] = "await" /\ current[w] \in DOMAIN submissions
            /\ submissions[current[w]].req = req[w] /\ ~Submit(w)
        BY <1>t, <3>2 DEF ReceiveFailure, At, AwaitsOwnSubmission, Submit
      <4>2. submissions[current[w]] \in SubmissionType
        BY <1>t, <4>1 DEF TypeOK
      <4>3. submissions[current[w]].state = "refused"
        BY <3>2, <4>2, PermanentMeansRefused DEF ReceiveFailure, SubmissionType
      <4>4. current[w] \in S
        BY <4>1 DEF Sent
      <4>5. Cardinality(S) = 1
        <5>1. Cardinality(S) <= 1
          BY <2>3 DEF Counted
        <5>2. Cardinality(S) # 0
          BY <1>f, <4>4, FS_EmptySet
        <5> HIDE DEF S
        <5> QED
          BY <1>f, <5>1, <5>2
      <4>6. S = {current[w]}
        <5> HIDE DEF S
        <5>1. PICK x : S = {x}
          BY <1>f, <4>5, FS_Singleton
        <5> QED
          BY <4>4, <5>1
      <4>7. \A i \in S : submissions[i].state = "refused"
        BY <4>3, <4>6
      <4> QED
        BY <1>1, <1>2, <4>1, <4>7
    <3> QED
      BY <1>2, <1>t, <2>1, <2>3, <3>1, <3>2, Answering DEF Permanent
  <2> QED
    BY <1>c, <2>2, <2>3 DEF Final
<1>3. ASSUME response'[w] = NoResponse PROVE Final(w)'
  BY <1>3 DEF Final, Permanent, NoResponse
<1>4. ASSUME pc'[w] = pc[w], response'[w] = response[w], req'[w] = req[w] PROVE Final(w)'
  <2>1. Permanent(w)' <=> Permanent(w)
    BY <1>4 DEF Permanent
  <2>2. ~Submit(w)
    BY <1>4, <1>t DEF Submit, At, Goto
  <2> QED
    BY <1>1, <1>4, <1>c, <2>1, <2>2 DEF Final
<1>5. ASSUME NEW v \in Workers, v # w,
             Step(v) \/ Crash(v) \/ \E c \in Commands : Receive(v, c)
      PROVE  pc'[w] = pc[w] /\ response'[w] = response[w]
  BY <1>t, <1>5, OthersUntouched DEF Untouched
<1>6. CASE Crash(w) \/ \E c \in Commands : Receive(w, c)
  BY <1>3, <1>6, <1>t DEF Crash, Receive
<1>7. CASE req'[w] = req[w] /\ UNCHANGED workerVars
  BY <1>4, <1>7 DEF workerVars
<1>8. CASE req'[w] = req[w] /\ Step(w)
  BY <1>2, <1>8
<1>9. CASE req'[w] = req[w] /\ \E v \in Workers \ {w} :
             Step(v) \/ Crash(v) \/ \E c \in Commands : Receive(v, c)
  BY <1>4, <1>5, <1>9
<1>10. [Next]_vars => \/ UNCHANGED workerVars
                      \/ \E v \in Workers : Step(v) \/ Crash(v) \/ \E c \in Commands : Receive(v, c)
  BY DEF Next, ProviderDecides, ForeignWrite, vars
<1> QED
  BY <1>6, <1>7, <1>8, <1>9, <1>10, RequestStep

-----------------------------------------------------------------------------
(* The invariant                                                           *)

(* Requests no worker serves any more send nothing, so the bound a worker  *)
(* has kept stays.                                                         *)
AllCounted == \A r \in Nat : Cardinality(Sent(submissions, r)) <= config.maxAttempts

LEMMA AllCountedStep ==
  ASSUME IInv, \A w \in Workers : Counted(w), AllCounted, [Next]_vars
  PROVE  AllCounted'
<1>t. TypeOK /\ attempts \in [Workers -> Nat]
  BY DEF IInv, TypeOK
<1>c. config' = config /\ config.maxAttempts \in Nat
  BY <1>t, ConfigFixed, ConfigsAssumption DEF vars, TypeOK, ConfigType
<1> SUFFICES ASSUME NEW r \in Nat
             PROVE  Cardinality(Sent(submissions', r)) <= config.maxAttempts
  BY <1>c DEF AllCounted
<1>1. ASSUME NEW w \in Workers, Submit(w)
      PROVE  Cardinality(Sent(submissions', r)) <= config.maxAttempts
  <2> DEFINE n == Cardinality(Sent(submissions, r))
             m == Cardinality(Sent(submissions', r))
  <2>1. CASE r # req[w]
    BY <1>1, <2>1, OneSent DEF AllCounted
  <2>2. CASE r = req[w]
    <3>1. n \in Nat /\ n <= attempts[w] /\ attempts[w] < config.maxAttempts
      BY <1>t, <1>1, <2>2, SentFinite DEF Counted, Submit, At
    <3>2. m = n + 1
      BY <1>1, <2>2, OneSent
    <3> HIDE DEF n, m
    <3>3. m <= config.maxAttempts
      BY <1>t, <1>c, <3>1, <3>2
    <3> QED
      BY <3>3 DEF m
  <2> QED
    BY <2>1, <2>2
<1>2. CASE \A w \in Workers : ~Submit(w)
  BY <1>2, NothingSent DEF AllCounted
<1> QED
  BY <1>1, <1>2

AttemptsInv == IInv /\ AllCounted /\ \A w \in Workers : Counted(w) /\ Final(w)

LEMMA AttemptsInit == Init => AttemptsInv
<1> SUFFICES ASSUME Init
             PROVE  AttemptsInv
  OBVIOUS
<1>1. config.maxAttempts \in Nat
  BY ConfigsAssumption DEF Init, ConfigType
<1>2. ASSUME NEW w \in Workers PROVE Counted(w) /\ Final(w)
  <2>1. pc[w] = "idle" /\ response[w] = NoResponse /\ submissions = <<>>
    BY DEF Init
  <2>2. Sent(submissions, req[w]) = {}
    BY <2>1 DEF Sent
  <2>3. Cardinality(Sent(submissions, req[w])) = 0
    BY <2>2, FS_EmptySet
  <2>4. Counted(w)
    BY <1>1, <2>1, <2>3 DEF Counted
  <2>5. Final(w)
    BY <2>1 DEF Final, Permanent, NoResponse
  <2> QED
    BY <2>4, <2>5
<1>3. AllCounted
  <2>1. \A r : Sent(submissions, r) = {}
    BY DEF Init, Sent
  <2> QED
    BY <1>1, <2>1, FS_EmptySet DEF AllCounted
<1> QED
  BY <1>2, <1>3, IInvInit DEF AttemptsInv

LEMMA AttemptsStep == AttemptsInv /\ [Next]_vars => AttemptsInv'
<1> SUFFICES ASSUME AttemptsInv, [Next]_vars
             PROVE  AttemptsInv'
  OBVIOUS
<1>1. IInv /\ IInv'
  BY IInvStep DEF AttemptsInv
<1>2. ASSUME NEW w \in Workers PROVE Counted(w)' /\ Final(w)'
  BY <1>1, CountedStep, FinalStep DEF AttemptsInv
<1>3. (\A w \in Workers : Counted(w) /\ Final(w))'
  BY <1>2
<1>4. AllCounted'
  BY <1>1, AllCountedStep DEF AttemptsInv
<1> QED
  BY <1>1, <1>3, <1>4 DEF AttemptsInv

LEMMA AttemptsInvHolds == Spec => []AttemptsInv
  BY AttemptsInit, AttemptsStep, PTL DEF Spec

-----------------------------------------------------------------------------
(* No request ever received, whether its worker still serves it, answered  *)
(* it or died with it, has more than maxAttempts submissions, whatever is  *)
(* lost, late or refused: the retry loop of _attest_with_policy            *)
(* (orchestrator.py 338-422).                                              *)
THEOREM AttemptsAreBounded == Spec => []SubmissionsWithinPolicy
<1>1. AttemptsInv => SubmissionsWithinPolicy
  BY DEF AttemptsInv, AllCounted, SubmissionsWithinPolicy, SubmissionsOf, Sent
<1> QED
  BY <1>1, AttemptsInvHolds, PTL

(* With the default policy submission_failed_permanent leaves no           *)
(* transaction at the provider, now or later (attestation.py 253-314).     *)
THEOREM PermanentIsFinal == Spec => []PermanentFailureLeavesNothing
<1>1. AttemptsInv => PermanentFailureLeavesNothing
  BY DEF AttemptsInv, Final, Permanent, PermanentFailureLeavesNothing, SubmissionsOf, Sent
<1> QED
  BY <1>1, AttemptsInvHolds, PTL

-----------------------------------------------------------------------------
(* A request runs out of steps                                             *)

(* The steps a worker has left, at most: three places before each of the   *)
(* loops' turns, and the turns of the two loops.                           *)
StepsLeft(w) ==
  LET M == config.maxAttempts
      turns == M - attempts[w]
  IN CASE pc[w] = "integrity"   -> 3 * M + 6
       [] pc[w] = "persist"     -> 2 * M + 5 + turns
       [] pc[w] = "blob_check"  -> 2 * M + 4
       [] pc[w] = "blob_write"  -> 2 * M + 3
       [] pc[w] = "blob_verify" -> 2 * M + 2
       [] pc[w] = "await"       -> 2 * turns + 2
       [] pc[w] = "attest"      -> 2 * turns + 1
       [] OTHER                 -> 0

(* A step of a worker uses up one of those it has left; whatever happens   *)
(* around it takes none away and gives it none, but for a new request or   *)
(* its death.                                                              *)
StepsRunOut ==
  \A w \in Workers :
     /\ StepsLeft(w) \in 0 .. 3 * config.maxAttempts + 6
     /\ StepsLeft(w)' = StepsLeft(w)
        \/ (Step(w) /\ StepsLeft(w)' < StepsLeft(w))
        \/ Crash(w) \/ \E c \in Commands : Receive(w, c)

WithinPolicy == \A w \in Workers : attempts[w] <= config.maxAttempts

LEMMA AttemptsEffect ==
  ASSUME TypeOK, NEW w \in Workers, Step(w)
  PROVE  \/ attempts'[w] = attempts[w] \/ attempts'[w] = 0
         \/ attempts[w] < config.maxAttempts /\ attempts'[w] = attempts[w] + 1
<1>t. attempts \in [Workers -> Nat]
  BY DEF TypeOK
<1>1. ASSUME NEW exc, PersistRaises(w, exc)
      PROVE  attempts[w] < config.maxAttempts /\ attempts'[w] = attempts[w] + 1
  BY <1>t, <1>1 DEF PersistRaises
<1>2. CASE AttestLocally(w) \/ Submit(w)
  BY <1>t, <1>2 DEF AttestLocally, Submit
<1>3. CASE Persist(w)
  BY <1>t, <1>3 DEF Persist
<1>4. CASE attempts' = attempts
  BY <1>4
<1> QED
  BY <1>1, <1>2, <1>3, <1>4
  DEF Step, CheckIntegrity, LoopFallsThrough, SkipBlob, CheckExisting, ReplaceBlob, VerifyBlob,
      BlobAdapterRaises, ReceiveReceipt, ReceiveFailure, BlobFrame

LEMMA WithinPolicyStep ==
  ASSUME TypeOK, WithinPolicy, [Next]_vars
  PROVE  WithinPolicy'
<1>t. /\ attempts \in [Workers -> Nat] /\ config.maxAttempts \in Nat
      /\ config' = config
  BY ConfigFixed, ConfigsAssumption DEF vars, TypeOK, ConfigType
<1> SUFFICES ASSUME NEW w \in Workers PROVE attempts'[w] <= config.maxAttempts
  BY <1>t DEF WithinPolicy
<1>1. attempts[w] \in Nat /\ attempts[w] <= config.maxAttempts
  BY <1>t DEF WithinPolicy
<1>2. CASE Step(w)
  BY <1>t, <1>1, <1>2, AttemptsEffect
<1>3. CASE Crash(w) \/ \E c \in Commands : Receive(w, c)
  BY <1>t, <1>3 DEF Crash, Receive
<1>4. ASSUME NEW v \in Workers, v # w, Step(v) \/ Crash(v) \/ \E c \in Commands : Receive(v, c)
      PROVE  attempts'[w] = attempts[w]
  BY <1>4, OthersUntouched DEF Untouched
<1>5. CASE attempts' = attempts
  BY <1>1, <1>5
<1> QED
  BY <1>1, <1>2, <1>3, <1>4, <1>5 DEF Next, ProviderDecides, ForeignWrite, workerVars, vars

(* Which step takes a worker from which label to which.                    *)
LEMMA Moves ==
  ASSUME TypeOK, NEW w \in Workers, Step(w)
  PROVE  \/ /\ pc[w] = "integrity" /\ pc'[w] \in {"persist", "done"}
         \/ /\ pc[w] = "persist"
            /\ pc'[w] \in {"blob_check", "done"}
               \/ (pc'[w] = "persist" /\ attempts'[w] = attempts[w] + 1)
         \/ /\ pc[w] = "blob_check" /\ pc'[w] \in {"blob_write", "blob_verify", "attest"}
         \/ /\ pc[w] = "blob_write" /\ pc'[w] \in {"blob_verify", "attest"}
         \/ /\ pc[w] = "blob_verify" /\ pc'[w] = "attest"
         \/ /\ pc[w] = "attest"
            /\ pc'[w] = "done"
               \/ (pc'[w] \in {"attest", "await"} /\ attempts'[w] = attempts[w] + 1)
         \/ /\ pc[w] = "await"
            /\ pc'[w] = "done" \/ (pc'[w] = "attest" /\ attempts'[w] = attempts[w])
<1> USE DEF At, Goto, Respond
<1>t. pc \in [Workers -> Labels] /\ attempts \in [Workers -> Nat]
  BY DEF TypeOK
<1>1. CASE CheckIntegrity(w)
  BY <1>t, <1>1 DEF CheckIntegrity
<1>2. CASE Persist(w)
  BY <1>t, <1>2 DEF Persist
<1>3. ASSUME NEW exc, PersistRaises(w, exc)
      PROVE  /\ pc[w] = "persist"
             /\ pc'[w] = "done" \/ (pc'[w] = "persist" /\ attempts'[w] = attempts[w] + 1)
  BY <1>t, <1>3 DEF PersistRaises
<1>4. CASE LoopFallsThrough(w)
  BY <1>t, <1>4 DEF LoopFallsThrough
<1>5. CASE SkipBlob(w) \/ CheckExisting(w) \/ ReplaceBlob(w) \/ VerifyBlob(w)
  BY <1>t, <1>5 DEF SkipBlob, CheckExisting, ReplaceBlob, VerifyBlob, FinishBlob
<1>6. CASE BlobAdapterRaises(w)
  BY <1>t, <1>6 DEF BlobAdapterRaises, FinishBlob
<1>7. CASE AttestLocally(w) \/ Submit(w)
  BY <1>t, <1>7 DEF AttestLocally, Submit, SubmitFailed
<1>8. CASE ReceiveReceipt(w)
  BY <1>t, <1>8 DEF ReceiveReceipt
<1>9. ASSUME NEW f, ReceiveFailure(w, f)
      PROVE  /\ pc[w] = "await"
             /\ pc'[w] = "done" \/ (pc'[w] = "attest" /\ attempts'[w] = attempts[w])
  BY <1>t, <1>9 DEF ReceiveFailure, SubmitFailed
<1> QED
  BY <1>1, <1>2, <1>3, <1>4, <1>5, <1>6, <1>7, <1>8, <1>9 DEF Step

(* Every step of execute brings its request nearer to an answer: with a    *)
(* policy of M attempts a request takes 3 * M + 6 steps at most, whatever  *)
(* the store raises, the provider loses or other processes do              *)
(* (orchestrator.py 86-422).  That a worker does take the steps it has is  *)
(* the fairness under which TLC checks EveryRequestAnswered.               *)
THEOREM RequestsRunOut == Spec => [][StepsRunOut]_vars
<1>1. ASSUME TypeOK, WithinPolicy, WithinPolicy', TypeOK', [Next]_vars
      PROVE  StepsRunOut
  <2> SUFFICES ASSUME NEW w \in Workers
               PROVE  /\ StepsLeft(w) \in 0 .. 3 * config.maxAttempts + 6
                      /\ \/ StepsLeft(w)' = StepsLeft(w)
                         \/ Step(w) /\ StepsLeft(w)' < StepsLeft(w)
                         \/ Crash(w) \/ \E c \in Commands : Receive(w, c)
    BY DEF StepsRunOut
  <2> DEFINE M == config.maxAttempts
             a == attempts[w]
             b == attempts'[w]
  <2>1. /\ M \in Nat /\ a \in Nat /\ b \in Nat /\ a <= M /\ b <= M
        /\ config' = config /\ config'.maxAttempts = M
    BY <1>1, ConfigFixed, ConfigsAssumption DEF vars, TypeOK, ConfigType, WithinPolicy
  <2>2. StepsLeft(w) = CASE pc[w] = "integrity"   -> 3 * M + 6
                         [] pc[w] = "persist"     -> 2 * M + 5 + (M - a)
                         [] pc[w] = "blob_check"  -> 2 * M + 4
                         [] pc[w] = "blob_write"  -> 2 * M + 3
                         [] pc[w] = "blob_verify" -> 2 * M + 2
                         [] pc[w] = "await"       -> 2 * (M - a) + 2
                         [] pc[w] = "attest"      -> 2 * (M - a) + 1
                         [] OTHER                 -> 0
    BY DEF StepsLeft
  <2>3. StepsLeft(w)' = CASE pc'[w] = "integrity"   -> 3 * M + 6
                          [] pc'[w] = "persist"     -> 2 * M + 5 + (M - b)
                          [] pc'[w] = "blob_check"  -> 2 * M + 4
                          [] pc'[w] = "blob_write"  -> 2 * M + 3
                          [] pc'[w] = "blob_verify" -> 2 * M + 2
                          [] pc'[w] = "await"       -> 2 * (M - b) + 2
                          [] pc'[w] = "attest"      -> 2 * (M - b) + 1
                          [] OTHER                  -> 0
    BY <2>1 DEF StepsLeft
  <2>4. CASE Step(w)
    <3>1. \/ pc[w] = "integrity" /\ pc'[w] \in {"persist", "done"}
          \/ pc[w] = "persist" /\ (pc'[w] \in {"blob_check", "done"} \/ (pc'[w] = "persist" /\ b = a + 1))
          \/ pc[w] = "blob_check" /\ pc'[w] \in {"blob_write", "blob_verify", "attest"}
          \/ pc[w] = "blob_write" /\ pc'[w] \in {"blob_verify", "attest"}
          \/ pc[w] = "blob_verify" /\ pc'[w] = "attest"
          \/ pc[w] = "attest" /\ (pc'[w] = "done" \/ (pc'[w] \in {"attest", "await"} /\ b = a + 1))
          \/ pc[w] = "await" /\ (pc'[w] = "done" \/ (pc'[w] = "attest" /\ b = a))
      BY <1>1, <2>4, Moves
    <3> HIDE DEF M, a, b
    <3>2. StepsLeft(w)' < StepsLeft(w) /\ StepsLeft(w) \in 0 .. 3 * M + 6
      BY <2>1, <2>2, <2>3, <3>1
    <3> QED
      BY <2>4, <3>2 DEF M
  <2>5. StepsLeft(w) \in 0 .. 3 * M + 6
    <3> HIDE DEF M, a
    <3> QED
      BY <2>1, <2>2
  <2>6. ASSUME NEW v \in Workers, v # w, Step(v) \/ Crash(v) \/ \E c \in Commands : Receive(v, c)
        PROVE  pc'[w] = pc[w] /\ b = a
    BY <1>1, <2>6, OthersUntouched DEF Untouched
  <2>7. \/ Step(w) \/ Crash(w) \/ \E c \in Commands : Receive(w, c)
        \/ pc'[w] = pc[w] /\ b = a
    BY <1>1, <2>6 DEF Next, ProviderDecides, ForeignWrite, workerVars, vars
  <2>8. ASSUME pc'[w] = pc[w], b = a PROVE StepsLeft(w)' = StepsLeft(w)
    <3> HIDE DEF M, a, b
    <3> QED
      BY <2>2, <2>3, <2>8
  <2> QED
    BY <2>4, <2>5, <2>7, <2>8
<1>2. Init => WithinPolicy
  <2>1. Init => config.maxAttempts \in Nat
    BY ConfigsAssumption DEF Init, ConfigType
  <2> QED
    BY <2>1 DEF Init, WithinPolicy
<1> QED
  BY <1>1, <1>2, WithinPolicyStep, TypeCorrect, PTL DEF Spec
=============================================================================
