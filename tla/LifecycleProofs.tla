--------------------------- MODULE LifecycleProofs ---------------------------
(***************************************************************************)
(* Orchestrator implements RequestLifecycle.  Every step of a worker is    *)
(* one step of the abstract request, or changes nothing of it; the guards  *)
(* of Send and Answer come from the invariants of Orchestrator and from    *)
(* the count of attempts in AttemptsProofs.                                *)
(***************************************************************************)
EXTENDS AttemptsProofs

-----------------------------------------------------------------------------
(* The mapping                                                             *)

LEMMA PhaseStep ==
  ASSUME TypeOK, NEW w \in Workers, NEW l, pc' = [pc EXCEPT ![w] = l]
  PROVE  /\ Phases' = [Phases EXCEPT ![w] = PhaseOf(l)]
         /\ PhaseOf(l) = PhaseOf(pc[w]) => Phases' = Phases
<1>1. pc \in [Workers -> Labels]
  BY DEF TypeOK
<1> QED
  BY <1>1 DEF Phases

LEMMA AnswerStep ==
  ASSUME TypeOK, NEW w \in Workers, NEW r, response' = [response EXCEPT ![w] = r]
  PROVE  Answers' = [Answers EXCEPT ![w] = AnswerOf(r)]
<1>1. response \in [Workers -> ResponseType]
  BY DEF TypeOK
<1> QED
  BY <1>1 DEF Answers

LEMMA PhaseKept == pc' = pc => Phases' = Phases
BY DEF Phases

LEMMA AnswerKept == response' = response => Answers' = Answers
BY DEF Answers

LEMMA LedgerKept == submissions' = submissions => Ledger' = Ledger
BY DEF Ledger

LEMMA LedgerTyped ==
  ASSUME TypeOK
  PROVE  /\ DOMAIN Ledger = DOMAIN submissions
         /\ \A i \in DOMAIN submissions :
              /\ Ledger[i] = [req |-> submissions[i].req, cmd |-> submissions[i].cmd,
                              state |-> submissions[i].state,
                              fate |-> IF submissions[i].seen = "transient"
                                       THEN "given_up" ELSE "standing"]
              /\ Ledger[i].req = submissions[i].req
              /\ Ledger[i].state = submissions[i].state
              /\ Ledger[i].fate = "standing" <=> submissions[i].seen # "transient"
BY DEF Ledger, LedgerEntry

(* What the worker saw of an attempt shows in the ledger only if it gave   *)
(* the attempt up.                                                         *)
LEMMA LedgerSeen ==
  ASSUME TypeOK, NEW i \in DOMAIN submissions, NEW x,
         submissions' = [submissions EXCEPT ![i].seen = x]
  PROVE  /\ x # "transient" /\ submissions[i].seen # "transient" => Ledger' = Ledger
         /\ x = "transient" => Ledger' = [Ledger EXCEPT ![i].fate = "given_up"]
<1>1. /\ DOMAIN submissions' = DOMAIN submissions
      /\ \A j \in DOMAIN submissions :
            /\ submissions'[j].req = submissions[j].req
            /\ submissions'[j].cmd = submissions[j].cmd
            /\ submissions'[j].state = submissions[j].state
            /\ submissions'[j].seen = IF j = i THEN x ELSE submissions[j].seen
  BY SeenEffect
<1>2. ASSUME x # "transient", submissions[i].seen # "transient" PROVE Ledger' = Ledger
  <2>1. \A j \in DOMAIN submissions : LedgerEntry(submissions'[j]) = LedgerEntry(submissions[j])
    BY <1>1, <1>2 DEF LedgerEntry
  <2> QED
    BY <1>1, <2>1 DEF Ledger
<1>3. ASSUME x = "transient" PROVE Ledger' = [Ledger EXCEPT ![i].fate = "given_up"]
  <2>1. \A j \in DOMAIN submissions \ {i} : LedgerEntry(submissions'[j]) = LedgerEntry(submissions[j])
    BY <1>1 DEF LedgerEntry
  <2>2. LedgerEntry(submissions'[i]) = [LedgerEntry(submissions[i]) EXCEPT !.fate = "given_up"]
    <3> DEFINE e == [req |-> submissions[i].req, cmd |-> submissions[i].cmd,
                     state |-> submissions[i].state, fate |-> "given_up"]
    <3>1. /\ submissions'[i].req = submissions[i].req /\ submissions'[i].cmd = submissions[i].cmd
          /\ submissions'[i].state = submissions[i].state /\ submissions'[i].seen = "transient"
      BY <1>1, <1>3
    <3>2. LedgerEntry(submissions'[i]) = e
      BY <3>1 DEF LedgerEntry
    <3>3. [LedgerEntry(submissions[i]) EXCEPT !.fate = "given_up"] = e
      BY DEF LedgerEntry
    <3> QED
      BY <3>2, <3>3
  <2> QED
    BY <1>1, <2>1, <2>2 DEF Ledger
<1> QED
  BY <1>2, <1>3

LEMMA LedgerState ==
  ASSUME TypeOK, NEW i \in DOMAIN submissions, NEW x,
         submissions' = [submissions EXCEPT ![i].state = x]
  PROVE  Ledger' = [Ledger EXCEPT ![i].state = x]
<1>1. /\ DOMAIN submissions' = DOMAIN submissions
      /\ \A j \in DOMAIN submissions :
            /\ submissions'[j].req = submissions[j].req
            /\ submissions'[j].cmd = submissions[j].cmd
            /\ submissions'[j].seen = submissions[j].seen
            /\ submissions'[j].state = IF j = i THEN x ELSE submissions[j].state
  BY StateEffect
<1>2. ASSUME NEW j \in DOMAIN submissions \ {i}
      PROVE  LedgerEntry(submissions'[j]) = LedgerEntry(submissions[j])
  BY <1>1 DEF LedgerEntry
<1>3. LedgerEntry(submissions'[i]) = [LedgerEntry(submissions[i]) EXCEPT !.state = x]
  <2> DEFINE e == [req |-> submissions[i].req, cmd |-> submissions[i].cmd, state |-> x,
                   fate |-> IF submissions[i].seen = "transient" THEN "given_up" ELSE "standing"]
  <2>1. /\ submissions'[i].req = submissions[i].req /\ submissions'[i].cmd = submissions[i].cmd
        /\ submissions'[i].seen = submissions[i].seen /\ submissions'[i].state = x
    BY <1>1
  <2>2. LedgerEntry(submissions'[i]) = e
    BY <2>1 DEF LedgerEntry
  <2>3. [LedgerEntry(submissions[i]) EXCEPT !.state = x] = e
    BY DEF LedgerEntry
  <2> QED
    BY <2>2, <2>3
<1> QED
  BY <1>1, <1>2, <1>3 DEF Ledger

LEMMA LedgerSent ==
  ASSUME TypeOK, NEW w \in Workers, Submit(w)
  PROVE  Ledger' = Append(Ledger, [req |-> req[w], cmd |-> cmd[w], state |-> "in_flight",
                                   fate |-> "standing"])
<1> DEFINE e == [req |-> req[w], cmd |-> cmd[w], state |-> "in_flight", fate |-> "standing"]
           n == Len(submissions)
           S == {LedgerEntry(submissions[i]) : i \in DOMAIN submissions}
<1>1. /\ n \in Nat /\ DOMAIN submissions = 1 .. n
      /\ submissions' = Append(submissions, Submission(w)) /\ submissions \in Seq(SubmissionType)
  BY DEF TypeOK, Submit
<1>2. LedgerEntry(Submission(w)) = e
  BY DEF LedgerEntry, Submission
<1>3. Submission(w) \in SubmissionType
  BY DEF TypeOK, Submission, SubmissionType
<1> HIDE DEF e
<1>4. Ledger \in Seq(S) /\ Len(Ledger) = n
  BY <1>1 DEF Ledger
<1>5. /\ DOMAIN submissions' = 1 .. n + 1
      /\ submissions'[n + 1] = Submission(w)
      /\ \A i \in 1 .. n : submissions'[i] = submissions[i]
  BY <1>1, <1>3
<1> HIDE DEF n, S
<1>6. Ledger' = [i \in 1 .. n + 1 |-> IF i = n + 1 THEN e ELSE Ledger[i]]
  BY <1>1, <1>2, <1>5 DEF Ledger
<1> QED
  BY <1>1, <1>4, <1>6 DEF e

LEMMA AnswersMapped ==
  /\ AnswerOf(NoResponse) = Promised!NoAnswer
  /\ AnswerOf(Raised) = Promised!Error
  /\ \A tx : AnswerOf(ReceiptOf(tx)) = Promised!Receipt(tx)
  /\ \A stage, class, lifecycle :
        AnswerOf(ErrorAt(stage, class, lifecycle)) =
          IF lifecycle = "submission_failed_permanent" THEN Promised!Refused ELSE Promised!Error
BY DEF AnswerOf, NoResponse, Raised, ReceiptOf, ErrorAt, Promised!NoAnswer, Promised!Error,
       Promised!Receipt, Promised!Refused

(* The two modules mean the same by Cardinality.                           *)
LEMMA SameCardinality == \A S : Promised!Cardinality(S) = Cardinality(S)
BY DEF Cardinality, Promised!Cardinality, IsFiniteSet, Promised!IsFiniteSet

LEMMA OwnIsSent ==
  ASSUME TypeOK, NEW w \in Workers
  PROVE  /\ Promised!Own(w) = Sent(submissions, req[w])
         /\ Promised!Standing(w) =
              {i \in Sent(submissions, req[w]) : submissions[i].seen # "transient"}
BY LedgerTyped DEF Promised!Own, Promised!Standing, Sent

-----------------------------------------------------------------------------
(* The invariant                                                           *)

(* An adapter that contacts nobody has sent nothing.                       *)
OnlyNetworkAdaptersSend ==
  \A i \in DOMAIN submissions : config.attestation \in NetworkAdapters

LifecycleInv == AttemptsInv /\ OnlyNetworkAdaptersSend

LEMMA SendersStep ==
  ASSUME IInv, OnlyNetworkAdaptersSend, [Next]_vars
  PROVE  OnlyNetworkAdaptersSend'
<1>t. TypeOK /\ AwaitsOwnSubmission
  BY DEF IInv
<1>c. config' = config
  BY ConfigFixed DEF vars
<1>1. ASSUME NEW w \in Workers, Submit(w) PROVE OnlyNetworkAdaptersSend'
  BY <1>1, <1>c DEF Submit, OnlyNetworkAdaptersSend
<1>2. ASSUME NEW i \in DOMAIN submissions, NEW x, submissions' = [submissions EXCEPT ![i].seen = x]
      PROVE  DOMAIN submissions' = DOMAIN submissions
  BY <1>t, <1>2, SeenEffect
<1>3. ASSUME NEW i \in DOMAIN submissions, NEW v, ProviderDecides(i, v)
      PROVE  DOMAIN submissions' = DOMAIN submissions
  BY <1>t, <1>3, StateEffect DEF ProviderDecides
<1>4. ASSUME NEW w \in Workers, ReceiveReceipt(w) PROVE DOMAIN submissions' = DOMAIN submissions
  BY <1>t, <1>2, <1>4 DEF ReceiveReceipt, At, AwaitsOwnSubmission
<1>5. ASSUME NEW w \in Workers, NEW f \in FailureType, ReceiveFailure(w, f)
      PROVE  DOMAIN submissions' = DOMAIN submissions
  BY <1>t, <1>2, <1>5 DEF ReceiveFailure, At, AwaitsOwnSubmission
<1>6. ASSUME NEW w \in Workers, Crash(w) PROVE DOMAIN submissions' = DOMAIN submissions
  BY <1>t, <1>2, <1>6 DEF Crash, At, AwaitsOwnSubmission
<1>7. DOMAIN submissions' = DOMAIN submissions => OnlyNetworkAdaptersSend'
  BY <1>c DEF OnlyNetworkAdaptersSend
<1> QED
  BY <1>t, <1>1, <1>3, <1>4, <1>5, <1>6, <1>7, NextCases DEF Quiet, Receive, ForeignWrite, vars

LEMMA LifecycleInvHolds == Spec => []LifecycleInv
<1>1. Init => LifecycleInv
  BY AttemptsInit DEF LifecycleInv, Init, OnlyNetworkAdaptersSend
<1>2. LifecycleInv /\ [Next]_vars => LifecycleInv'
  BY AttemptsStep, SendersStep DEF LifecycleInv, AttemptsInv
<1> QED
  BY <1>1, <1>2, PTL DEF Spec

-----------------------------------------------------------------------------
(* The steps                                                               *)

(* What a step changes of the abstract request, but for the worker's phase *)
(* and answer and the ledger.                                              *)
Fixed == UNCHANGED <<config, requests, req, cmd, manifests>>

LEMMA StepFrames ==
  ASSUME TypeOK, NEW w \in Workers
  PROVE  /\ CheckIntegrity(w) \/ LoopFallsThrough(w) => Fixed /\ submissions' = submissions
         /\ \A exc : PersistRaises(w, exc) => Fixed /\ submissions' = submissions
         /\ AttestLocally(w) => Fixed /\ submissions' = submissions
         /\ SkipBlob(w) \/ CheckExisting(w) \/ ReplaceBlob(w) \/ VerifyBlob(w) \/ BlobAdapterRaises(w)
              => Fixed /\ submissions' = submissions /\ response' = response
         /\ Submit(w) => Fixed /\ pc' = [pc EXCEPT ![w] = "await"] /\ response' = response
         /\ ReceiveReceipt(w) \/ (\E f \in FailureType : ReceiveFailure(w, f)) => Fixed
BY DEF Fixed, CheckIntegrity, LoopFallsThrough, PersistRaises, AttestLocally, SkipBlob, CheckExisting,
       ReplaceBlob, VerifyBlob, BlobAdapterRaises, Submit, ReceiveReceipt, ReceiveFailure, BlobFrame,
       AttestFrame, Goto

(* A worker goes on without a change a client or the provider could see.   *)
LEMMA Stutters ==
  ASSUME TypeOK, Fixed, submissions' = submissions, response' = response,
         NEW w \in Workers, NEW l, pc' = [pc EXCEPT ![w] = l], PhaseOf(l) = PhaseOf(pc[w])
  PROVE  UNCHANGED Promised!vars
BY PhaseStep, AnswerKept, LedgerKept DEF Promised!vars, Fixed

LEMMA Responds ==
  ASSUME TypeOK, NEW w \in Workers, NEW r, Respond(w, r)
  PROVE  Promised!Say(w, AnswerOf(r))
<1>1. /\ pc' = [pc EXCEPT ![w] = "done"] /\ response' = [response EXCEPT ![w] = r]
      /\ PhaseOf("done") = "answered"
  BY DEF Respond, Goto, PhaseOf
<1> QED
  BY <1>1, PhaseStep, AnswerStep DEF Promised!Say

LEMMA PhaseIs ==
  ASSUME TypeOK, NEW w \in Workers
  PROVE  Phases[w] = PhaseOf(pc[w])
BY DEF Phases

(* An error is always in order, before or after the manifest is kept.      *)
LEMMA AnswersError ==
  ASSUME TypeOK, Fixed, Ledger' = Ledger, NEW w \in Workers, pc[w] \notin {"idle", "done"},
         NEW r, Respond(w, r), AnswerOf(r) = Promised!Error
  PROVE  Promised!Answer(w)
<1>1. Phases[w] \in {"received", "kept"}
  BY PhaseIs DEF PhaseOf, TypeOK, Labels
<1> QED
  BY <1>1, Responds DEF Promised!Answer, Fixed

LEMMA ReceiveMapped ==
  ASSUME TypeOK, NEW w \in Workers, NEW c \in Commands, Receive(w, c)
  PROVE  Promised!Accept(w, c)
<1>1. Phases[w] \in {"idle", "answered"}
  BY PhaseIs DEF PhaseOf, Receive
<1>2. Phases' = [Phases EXCEPT ![w] = "received"]
  BY PhaseStep DEF Receive, Goto, PhaseOf
<1>3. Answers' = [Answers EXCEPT ![w] = Promised!NoAnswer]
  BY AnswerStep, AnswersMapped DEF Receive
<1>4. Ledger' = Ledger
  BY LedgerKept DEF Receive
<1> QED
  BY <1>1, <1>2, <1>3, <1>4 DEF Promised!Accept, Receive

LEMMA PersistMapped ==
  ASSUME TypeOK, NEW w \in Workers, Persist(w)
  PROVE  Promised!Keep(w)
<1>1. Phases[w] = "received"
  BY PhaseIs DEF PhaseOf, Persist, At
<1>2. Phases' = [Phases EXCEPT ![w] = "kept"]
  <2>1. PhaseOf("blob_check") = "kept"
    BY DEF PhaseOf
  <2> QED
    BY <2>1, PhaseStep DEF Persist, Goto
<1>3. Answers' = Answers /\ Ledger' = Ledger
  BY AnswerKept, LedgerKept DEF Persist
<1> QED
  BY <1>1, <1>2, <1>3 DEF Promised!Keep, Persist

LEMMA SubmitMapped ==
  ASSUME LifecycleInv, NEW w \in Workers, Submit(w)
  PROVE  Promised!Send(w)
<1>t. TypeOK /\ EarlierAttemptsFailed
  BY DEF LifecycleInv, AttemptsInv, IInv
<1>1. pc[w] = "attest" /\ Fixed /\ Phases' = Phases /\ Answers' = Answers
  <2>1. pc[w] = "attest" /\ PhaseOf("attest") = PhaseOf("await")
    BY DEF Submit, At, PhaseOf
  <2> QED
    BY <1>t, <2>1, StepFrames, PhaseStep, AnswerKept
<1>2. Phases[w] = "kept"
  BY <1>t, <1>1, PhaseIs DEF PhaseOf
<1>3. Promised!Standing(w) = {}
  <2>1. \A i \in Sent(submissions, req[w]) : submissions[i].seen = "transient"
    BY <1>t, <1>1 DEF EarlierAttemptsFailed, Sent
  <2> QED
    BY <1>t, <2>1, OwnIsSent
<1>4. Cardinality(Promised!Own(w)) < config.maxAttempts
  <2> DEFINE n == Cardinality(Sent(submissions, req[w]))
  <2>1. n \in Nat /\ n <= attempts[w] /\ attempts[w] < config.maxAttempts
    BY <1>t, <1>1, SentFinite DEF LifecycleInv, AttemptsInv, Counted, Submit
  <2>2. attempts[w] \in Nat /\ config.maxAttempts \in Nat
    BY <1>t, ConfigsAssumption DEF TypeOK, ConfigType
  <2> HIDE DEF n
  <2>3. n < config.maxAttempts
    BY <2>1, <2>2
  <2> QED
    BY <1>t, <2>3, OwnIsSent DEF n
<1>5. Ledger' = Append(Ledger, [req |-> req[w], cmd |-> cmd[w], state |-> "in_flight",
                                fate |-> "standing"])
  BY <1>t, LedgerSent
<1>6. UNCHANGED <<config.maxAttempts, requests, Phases, req, cmd, manifests, Answers>>
  BY <1>1 DEF Fixed
<1> QED
  BY <1>2, <1>3, <1>4, <1>5, <1>6, SameCardinality DEF Promised!Send

(* The steps that only a worker itself can tell from none, or that end the *)
(* request with an error.                                                  *)
LEMMA InternalMapped ==
  ASSUME TypeOK, NEW w \in Workers,
         \/ CheckIntegrity(w) \/ LoopFallsThrough(w) \/ SkipBlob(w) \/ CheckExisting(w)
         \/ ReplaceBlob(w) \/ VerifyBlob(w) \/ BlobAdapterRaises(w)
         \/ \E exc \in config.storeRaises : PersistRaises(w, exc)
  PROVE  Promised!Answer(w) \/ UNCHANGED Promised!vars
<1>f. Fixed /\ submissions' = submissions /\ Ledger' = Ledger
  BY StepFrames, LedgerKept
<1>1. CASE CheckIntegrity(w)
  <2>1. pc[w] = "integrity" /\ PhaseOf("persist") = PhaseOf("integrity")
    BY <1>1 DEF CheckIntegrity, At, PhaseOf
  <2>2. AnswerOf(ErrorAt("integrity_binding", "permanent", "none")) = Promised!Error
    BY AnswersMapped
  <2>3. \/ Respond(w, ErrorAt("integrity_binding", "permanent", "none"))
        \/ pc' = [pc EXCEPT ![w] = "persist"] /\ response' = response
    BY <1>1 DEF CheckIntegrity, Goto
  <2> QED
    BY <1>f, <2>1, <2>2, <2>3, AnswersError, Stutters
<1>2. CASE LoopFallsThrough(w)
  <2>1. pc[w] \notin {"idle", "done"} /\ Respond(w, Raised)
    BY <1>2 DEF LoopFallsThrough
  <2> QED
    BY <1>f, <2>1, AnswersMapped, AnswersError
<1>3. ASSUME NEW exc \in config.storeRaises, PersistRaises(w, exc)
      PROVE  Promised!Answer(w) \/ UNCHANGED Promised!vars
  <2>1. pc[w] = "persist"
    BY <1>3 DEF PersistRaises, At
  <2>2. AnswerOf(ErrorAt("persistence", classify_failure(exc), "none")) = Promised!Error
    BY AnswersMapped
  <2>3. \/ Respond(w, ErrorAt("persistence", classify_failure(exc), "none"))
        \/ pc' = pc /\ response' = response
    BY <1>3 DEF PersistRaises
  <2>4. pc' = pc /\ response' = response => UNCHANGED Promised!vars
    BY <1>f, PhaseKept, AnswerKept DEF Promised!vars, Fixed
  <2> QED
    BY <1>f, <2>1, <2>2, <2>3, <2>4, AnswersError
<1>4. CASE SkipBlob(w) \/ CheckExisting(w) \/ ReplaceBlob(w) \/ VerifyBlob(w) \/ BlobAdapterRaises(w)
  <2>1. /\ pc[w] \in {"blob_check", "blob_write", "blob_verify"}
        /\ \E l \in {"blob_write", "blob_verify", "attest"} : pc' = [pc EXCEPT ![w] = l]
    BY <1>4 DEF SkipBlob, CheckExisting, ReplaceBlob, VerifyBlob, BlobAdapterRaises, FinishBlob, Goto, At
  <2>2. \A l \in {"blob_check", "blob_write", "blob_verify", "attest"} : PhaseOf(l) = "kept"
    BY DEF PhaseOf
  <2>3. response' = response
    BY <1>4, StepFrames
  <2>4. PICK l \in {"blob_write", "blob_verify", "attest"} : pc' = [pc EXCEPT ![w] = l]
    BY <2>1
  <2>5. PhaseOf(l) = PhaseOf(pc[w])
    BY <2>1, <2>2, <2>4
  <2> QED
    BY <1>f, <2>3, <2>4, <2>5, Stutters
<1> QED
  BY <1>1, <1>2, <1>3, <1>4

LEMMA LocalMapped ==
  ASSUME LifecycleInv, NEW w \in Workers, AttestLocally(w)
  PROVE  Promised!Answer(w) \/ UNCHANGED Promised!vars
<1>t. TypeOK
  BY DEF LifecycleInv, AttemptsInv, IInv
<1>f. Fixed /\ submissions' = submissions /\ Ledger' = Ledger
  BY <1>t, StepFrames, LedgerKept
<1>1. pc[w] = "attest" /\ Phases[w] = "kept"
  BY <1>t, PhaseIs DEF AttestLocally, At, PhaseOf
<1>2. Sent(submissions, req[w]) = {}
  BY DEF AttestLocally, LifecycleInv, OnlyNetworkAdaptersSend, Sent
<1>3. Promised!Own(w) = {} /\ Promised!Standing(w) = {}
  BY <1>t, <1>2, OwnIsSent
<1>4. CASE Respond(w, ReceiptOf(0))
  <2>1. Promised!Say(w, Promised!Receipt(0))
    BY <1>t, <1>4, Responds, AnswersMapped
  <2> QED
    BY <1>f, <1>1, <1>3, <2>1 DEF Promised!Answer, Fixed
<1>5. ASSUME NEW f, NEW n, SubmitFailed(w, f, n)
      PROVE  Promised!Answer(w) \/ UNCHANGED Promised!vars
  <2>1. CASE pc' = [pc EXCEPT ![w] = "attest"] /\ response' = response
    BY <1>t, <1>f, <1>1, <2>1, Stutters
  <2>2. CASE Respond(w, ErrorAt("attestation", f.class, f.lifecycle))
    <3>1. CASE f.lifecycle = "submission_failed_permanent"
      <4>1. Promised!Say(w, Promised!Refused)
        BY <1>t, <2>2, <3>1, Responds, AnswersMapped
      <4> QED
        BY <1>f, <1>1, <1>3, <4>1 DEF Promised!Answer, Fixed
    <3>2. CASE f.lifecycle # "submission_failed_permanent"
      <4>1. AnswerOf(ErrorAt("attestation", f.class, f.lifecycle)) = Promised!Error
        BY <3>2, AnswersMapped
      <4> QED
        BY <1>t, <1>f, <1>1, <2>2, <4>1, AnswersError
    <3> QED
      BY <3>1, <3>2
  <2> QED
    BY <1>5, <2>1, <2>2 DEF SubmitFailed, Goto
<1> QED
  BY <1>4, <1>5 DEF AttestLocally

LEMMA ReceiptMapped ==
  ASSUME LifecycleInv, NEW w \in Workers, ReceiveReceipt(w)
  PROVE  Promised!Answer(w)
<1>t. TypeOK /\ AwaitsOwnSubmission
  BY DEF LifecycleInv, AttemptsInv, IInv
<1>1. pc[w] = "await" /\ Phases[w] = "kept"
  BY <1>t, PhaseIs DEF ReceiveReceipt, At, PhaseOf
<1> DEFINE i == current[w]
<1>2. /\ i \in DOMAIN submissions /\ submissions[i].req = req[w]
      /\ submissions[i].seen = "waiting" /\ submissions[i].state = "accepted"
  BY <1>t, <1>1 DEF AwaitsOwnSubmission, ReceiveReceipt
<1>3. Ledger' = Ledger
  <2>1. PICK x : x # "transient" /\ submissions' = [submissions EXCEPT ![i].seen = x]
    BY DEF ReceiveReceipt
  <2>2. i \in DOMAIN submissions /\ submissions[i].seen # "transient"
    BY <1>2
  <2> HIDE DEF i
  <2> QED
    BY <1>t, <2>1, <2>2, LedgerSeen
<1>4. Promised!Say(w, Promised!Receipt(i))
  BY <1>t, Responds, AnswersMapped DEF ReceiveReceipt
<1>5. i \in Promised!Standing(w) /\ Ledger[i].state = "accepted"
  BY <1>t, <1>2, OwnIsSent, LedgerTyped DEF Sent
<1>6. Fixed
  BY <1>t, StepFrames
<1> QED
  BY <1>1, <1>3, <1>4, <1>5, <1>6 DEF Promised!Answer, Fixed

(* An answer that fails: a transient one gives the attempt up, any other   *)
(* ends the request, as a refusal only if every attempt that stands was    *)
(* refused.                                                                *)
LEMMA FailureMapped ==
  ASSUME LifecycleInv, NEW w \in Workers, NEW f \in FailureType, ReceiveFailure(w, f)
  PROVE  Promised!GiveUp(w) \/ Promised!Answer(w)
<1>t. TypeOK /\ AwaitsOwnSubmission /\ EarlierAttemptsFailed
  BY DEF LifecycleInv, AttemptsInv, IInv
<1>1. pc[w] = "await" /\ Phases[w] = "kept"
  BY <1>t, PhaseIs DEF ReceiveFailure, At, PhaseOf
<1>f. Fixed
  BY <1>t, StepFrames
<1> DEFINE i == current[w]
<1>2. /\ i \in DOMAIN submissions /\ submissions[i].req = req[w]
      /\ submissions[i].seen = "waiting"
      /\ submissions[i].state \in {"in_flight", "accepted", "refused"}
      /\ f \in FailedAnswers(config.attestation, submissions[i].state)
      /\ submissions' = [submissions EXCEPT ![i].seen = f.class]
  <2>1. i \in DOMAIN submissions => submissions[i] \in SubmissionType
    BY <1>t DEF TypeOK
  <2> QED
    BY <1>t, <1>1, <2>1 DEF AwaitsOwnSubmission, ReceiveFailure, SubmissionType
<1> HIDE DEF i
<1>3. i \in Promised!Standing(w) /\ Promised!Standing(w) \subseteq {i}
  <2>1. \A j \in Sent(submissions, req[w]) : j # i => submissions[j].seen = "transient"
    BY <1>t, <1>1 DEF EarlierAttemptsFailed, Sent, i
  <2> QED
    BY <1>t, <1>2, <2>1, OwnIsSent DEF Sent
<1>4. \/ pc' = [pc EXCEPT ![w] = "attest"] /\ response' = response /\ f.class = "transient"
      \/ Respond(w, ErrorAt("attestation", f.class, f.lifecycle))
  <2>1. f.retryable => f.class = "transient"
    BY <1>2, RetryableIsTransient
  <2> QED
    BY <2>1 DEF ReceiveFailure, SubmitFailed, MayTryAgain, Goto
<1>5. CASE f.class = "transient"
  <2>1. Ledger' = [Ledger EXCEPT ![i].fate = "given_up"]
    BY <1>t, <1>2, <1>5, LedgerSeen
  <2>2. f.lifecycle # "submission_failed_permanent"
    BY <1>2, <1>5 DEF FailedAnswers, LostAnswers, MalformedAnswer, UnlistedStatus, Refusals, AdapterError
  <2>3. Promised!Say(w, Promised!Error) \/ UNCHANGED <<Phases, Answers>>
    <3>1. CASE pc' = [pc EXCEPT ![w] = "attest"] /\ response' = response
      <4>1. PhaseOf("attest") = PhaseOf("await")
        BY DEF PhaseOf
      <4> QED
        BY <1>t, <1>1, <3>1, <4>1, PhaseStep, AnswerKept
    <3>2. CASE Respond(w, ErrorAt("attestation", f.class, f.lifecycle))
      BY <1>t, <2>2, <3>2, Responds, AnswersMapped
    <3> QED
      BY <1>4, <3>1, <3>2
  <2> QED
    BY <1>1, <1>f, <1>3, <2>1, <2>3 DEF Promised!GiveUp, Fixed
<1>6. CASE f.class # "transient"
  <2>1. Ledger' = Ledger /\ Respond(w, ErrorAt("attestation", f.class, f.lifecycle))
    BY <1>t, <1>2, <1>4, <1>6, LedgerSeen
  <2>2. CASE f.lifecycle = "submission_failed_permanent"
    <3>1. submissions[i].state = "refused"
      BY <1>2, <2>2, PermanentMeansRefused
    <3>2. \A j \in Promised!Standing(w) : Ledger[j].state = "refused"
      BY <1>t, <1>2, <1>3, <3>1, LedgerTyped
    <3>3. Promised!Say(w, Promised!Refused)
      BY <1>t, <2>1, <2>2, Responds, AnswersMapped
    <3> QED
      BY <1>1, <1>f, <2>1, <3>2, <3>3 DEF Promised!Answer, Fixed
  <2>3. CASE f.lifecycle # "submission_failed_permanent"
    <3>1. AnswerOf(ErrorAt("attestation", f.class, f.lifecycle)) = Promised!Error
      BY <2>3, AnswersMapped
    <3> QED
      BY <1>t, <1>f, <1>1, <2>1, <3>1, AnswersError
  <2> QED
    BY <2>2, <2>3
<1> QED
  BY <1>5, <1>6

LEMMA CrashMapped ==
  ASSUME LifecycleInv, NEW w \in Workers, Crash(w)
  PROVE  Promised!Die(w)
<1>t. TypeOK /\ AwaitsOwnSubmission
  BY DEF LifecycleInv, AttemptsInv, IInv
<1>1. Phases' = [Phases EXCEPT ![w] = "idle"]
  <2>1. PhaseOf("idle") = "idle"
    BY DEF PhaseOf
  <2> QED
    BY <1>t, <2>1, PhaseStep DEF Crash, Goto
<1>2. Answers' = [Answers EXCEPT ![w] = Promised!NoAnswer]
  BY <1>t, AnswerStep, AnswersMapped DEF Crash
<1>3. Ledger' = Ledger
  <2>1. CASE pc[w] = "await"
    <3>1. current[w] \in DOMAIN submissions /\ submissions[current[w]].seen = "waiting"
      BY <1>t, <2>1 DEF AwaitsOwnSubmission
    <3>2. PICK x : x # "transient" /\ submissions' = [submissions EXCEPT ![current[w]].seen = x]
      BY <2>1 DEF Crash, At
    <3> QED
      BY <1>t, <3>1, <3>2, LedgerSeen
  <2>2. CASE pc[w] # "await"
    BY <2>2, LedgerKept DEF Crash, At
  <2> QED
    BY <2>1, <2>2
<1> QED
  BY <1>1, <1>2, <1>3 DEF Promised!Die, Crash

LEMMA WorldMapped ==
  ASSUME TypeOK
  PROVE  /\ \A i \in DOMAIN submissions, v \in {"accepted", "refused"} :
              ProviderDecides(i, v) => Promised!Decide(i, v)
         /\ \A h \in Manifests, c \in {NoBlob, Foreign} :
              ForeignWrite(h, c) => UNCHANGED Promised!vars
<1>1. UNCHANGED workerVars => Phases' = Phases /\ Answers' = Answers /\ UNCHANGED <<req, cmd>>
  BY PhaseKept, AnswerKept DEF workerVars
<1>2. ASSUME NEW i \in DOMAIN submissions, NEW v, ProviderDecides(i, v)
      PROVE  Promised!Decide(i, v)
  <2>1. Ledger[i].state = "in_flight"
    BY <1>2, LedgerTyped DEF ProviderDecides
  <2>2. Ledger' = [Ledger EXCEPT ![i].state = v]
    BY <1>2, LedgerState DEF ProviderDecides
  <2> QED
    BY <1>1, <1>2, <2>1, <2>2 DEF Promised!Decide, ProviderDecides
<1>3. ASSUME NEW h, NEW c, ForeignWrite(h, c) PROVE UNCHANGED Promised!vars
  BY <1>1, <1>3, LedgerKept DEF Promised!vars, ForeignWrite
<1> QED
  BY <1>2, <1>3

LEMMA StepsMapped ==
  ASSUME LifecycleInv, Next
  PROVE  Promised!Next \/ UNCHANGED Promised!vars
<1>t. TypeOK
  BY DEF LifecycleInv, AttemptsInv, IInv
<1>1. ASSUME NEW w \in Workers, Step(w) PROVE Promised!Next \/ UNCHANGED Promised!vars
  <2>1. CASE Persist(w)
    BY <1>t, <2>1, PersistMapped DEF Promised!Next
  <2>2. CASE Submit(w)
    BY <2>2, SubmitMapped DEF Promised!Next
  <2>3. CASE AttestLocally(w)
    BY <2>3, LocalMapped DEF Promised!Next
  <2>4. CASE ReceiveReceipt(w)
    BY <2>4, ReceiptMapped DEF Promised!Next
  <2>5. ASSUME NEW f \in FailureType, ReceiveFailure(w, f)
        PROVE  Promised!Next
    BY <2>5, FailureMapped DEF Promised!Next
  <2> QED
    BY <1>t, <1>1, <2>1, <2>2, <2>3, <2>4, <2>5, InternalMapped DEF Step, Promised!Next
<1>2. ASSUME NEW w \in Workers, NEW c \in Commands, Receive(w, c) PROVE Promised!Next
  BY <1>t, <1>2, ReceiveMapped DEF Promised!Next
<1>3. ASSUME NEW w \in Workers, Crash(w) PROVE Promised!Next
  BY <1>3, CrashMapped DEF Promised!Next
<1>4. ASSUME NEW i \in DOMAIN submissions, NEW v \in {"accepted", "refused"}, ProviderDecides(i, v)
      PROVE  Promised!Next
  BY <1>t, <1>4, WorldMapped, LedgerTyped DEF Promised!Next
<1> QED
  BY <1>t, <1>1, <1>2, <1>3, <1>4, WorldMapped DEF Next

LEMMA InitMapped == Init => Promised!Init
<1> SUFFICES ASSUME Init PROVE Promised!Init
  OBVIOUS
<1>1. config.maxAttempts \in Nat
  BY ConfigsAssumption DEF Init, ConfigType
<1>2. Phases = [w \in Workers |-> "idle"]
  BY DEF Init, Phases, PhaseOf
<1>3. Answers = [w \in Workers |-> Promised!NoAnswer]
  BY AnswersMapped DEF Init, Answers
<1>4. Ledger = <<>>
  BY DEF Init, Ledger
<1>5. cmd \in [Workers -> Commands]
  BY AnyCommandType DEF Init
<1> QED
  BY <1>1, <1>2, <1>3, <1>4, <1>5 DEF Init, Promised!Init

-----------------------------------------------------------------------------
(* For any workers, wirings and policies, and however answers are lost and *)
(* processes die, the orchestrator implements RequestLifecycle: every step *)
(* of execute (orchestrator.py 86-259) is a step of the abstract request   *)
(* or one nobody outside the process can see.                              *)
THEOREM ImplementsLifecycle == Spec => LifecycleImplemented
<1>1. LifecycleInv /\ [Next]_vars => [Promised!Next]_(Promised!vars)
  <2> SUFFICES ASSUME LifecycleInv, [Next]_vars PROVE [Promised!Next]_(Promised!vars)
    OBVIOUS
  <2>1. CASE Next
    BY <2>1, StepsMapped
  <2>2. CASE UNCHANGED vars
    BY <2>2, PhaseKept, AnswerKept, LedgerKept DEF vars, workerVars, Promised!vars
  <2> QED
    BY <2>1, <2>2
<1> QED
  BY <1>1, InitMapped, LifecycleInvHolds, PTL DEF Spec, LifecycleImplemented, Promised!Spec
=============================================================================
