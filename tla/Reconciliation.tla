---------------------------- MODULE Reconciliation ----------------------------
(***************************************************************************)
(* CommandOrchestrator.reconcile_attestation_receipt and the polling of    *)
(* the adapters.  The service keeps no receipt: a holder presents one,     *)
(* gets an updated copy or an error, and may hand its copy to others, so   *)
(* that copies of different ages are reconciled at the same time.          *)
(*                                                                         *)
(* Every receipt here descends from what execute returned for one          *)
(* transaction of the Thronos provider.  A holder presents it with that    *)
(* tuple (submission_id, tx_hash, reconciliation_id) or with another.      *)
(***************************************************************************)
EXTENDS Naturals, Sequences, ConfirmationProof

CONSTANTS
  Holders,        \* who holds copies of receipts
  Txs,            \* transactions the provider knows
  Tuples,         \* the tuples receipts are presented with
  Statuses,       \* the statuses the provider reports
  Ids,            \* confirmation ids, None among them
  Adapters,       \* the adapters the service may be started with
  UntrustedPolls, \* what an adapter outside this repository answers
  NoTx, BadTx,    \* None; a value that fails the format checks
  MaxCalls, MaxMoves   \* bounds: reconciliations; changes at the provider

AdapterNames == {"thronos_network", "thronos_gate_closed", "rpc_generic", "dry_run_chain",
                 "fake", "untrusted"}
TupleType == [submission : BOOLEAN, tx : Txs \cup {NoTx, BadTx}, rid : Txs \cup {NoTx, BadTx}]
Lifecycles == {"submitted_not_finalized", "confirmed_not_finalized", "confirmed_finalized",
               "submission_rejected", "submission_unknown"}
ProofType == [wellFormed : BOOLEAN, status : ProviderStatuses, id : Ids]
PollType ==
  [confirmation : ConfirmationStatuses, finality : Finalities \cup {"absent"},
   lifecycle : Lifecycles \cup {"absent"}, id : Ids, proof : ProofType]

ASSUME ReconciliationAssumption ==
  /\ NoTx \notin Txs /\ BadTx \notin Txs /\ NoTx # BadTx
  /\ NoId \in Ids
  /\ Tuples \subseteq TupleType
  /\ Statuses \subseteq ThronosStatuses
  /\ Adapters \subseteq AdapterNames
  /\ UntrustedPolls \subseteq PollType
  /\ MaxCalls \in Nat /\ MaxMoves \in Nat

VARIABLES
  adapter,    \* the attestation adapter of the service
  provider,   \* [tx -> what the provider reports of it]
  past,       \* everything the provider has reported or could have
  receipt,    \* [holder -> the receipt it holds]
  pc,         \* [holder -> where its reconciliation is]
  presented,  \* [holder -> the tuple it presented]
  answer,     \* [holder -> the answer under way to it]
  result,     \* [holder -> how its last reconciliation ended]
  trail,      \* [holder -> the last two observations its receipt took in]
  polled,     \* the tuples sent to the provider
  calls, moves    \* the counters the bounds apply to

world == <<adapter, provider, past, moves>>
vars == <<world, receipt, pc, presented, answer, result, trail, polled, calls>>

-----------------------------------------------------------------------------
Key(tuple) == tuple      \* SHA-256 of the tuple, taken to be injective

Started(tx) == [submission |-> TRUE, tx |-> tx, rid |-> tx]

(* The receipt execute returns for a submission the provider accepted.     *)
SubmittedReceipt(tx) ==
  [tuple |-> Started(tx), confirmation |-> "not_polled", finality |-> "not_finalized",
   lifecycle |-> "submitted_not_finalized", id |-> NoId, proof |-> NoProof,
   key |-> Key(Started(tx)), count |-> 0, replay |-> "not_checked"]

ReplayStates == {"not_checked", "first_observation", "repeated_observation_consistent",
                 "repeated_observation_mismatch"}
ReceiptType ==
  [tuple : TupleType, confirmation : ConfirmationStatuses \cup {"not_polled"},
   finality : Finalities, lifecycle : Lifecycles, id : Ids,
   proof : ProofType, key : TupleType, count : Nat, replay : ReplayStates]

Errors == {"invalid_reconciliation_tuple", "polling_disabled", "poll_invalid_tx_hash",
           "poll_invalid_reconciliation_id", "poll_id_mismatch", "poll_unreachable",
           "poll_failed", "poll_malformed", "poll_rpc_error", "reconciliation_failed",
           "invalid_confirmation_proof", "invalid_confirmation_transition"}

(* Between calls nothing is presented and no answer is under way.          *)
NoTuple == [submission |-> FALSE, tx |-> NoTx, rid |-> NoTx]
NoAnswer == [status |-> "absent", id |-> NoId]

TypeOK ==
  /\ adapter \in Adapters
  /\ provider \in [Txs -> [status : Statuses, id : Ids]]
  /\ past \subseteq Txs \X Statuses \X Ids
  /\ receipt \in [Holders -> ReceiptType]
  /\ pc \in [Holders -> {"idle", "asked", "replied"}]
  /\ presented \in [Holders -> TupleType]
  /\ answer \in [Holders -> [status : Statuses \cup {"absent"}, id : Ids]]
  /\ result \in [Holders -> Errors \cup {"none", "receipt"}]
  /\ \A h \in Holders : Len(trail[h]) <= 2
  /\ polled \subseteq TupleType
  /\ calls \in Nat /\ moves \in Nat

Report(tx, p) == <<tx, p.status, p.id>>

Init ==
  /\ adapter \in Adapters
  /\ provider \in [Txs -> [status : Statuses \cap {"submitted", "pending"}, id : {NoId}]]
  /\ past = {Report(tx, provider[tx]) : tx \in Txs}
  /\ \E tx \in Txs : receipt = [h \in Holders |-> SubmittedReceipt(tx)]
  /\ pc = [h \in Holders |-> "idle"]
  /\ presented = [h \in Holders |-> NoTuple]
  /\ answer = [h \in Holders |-> NoAnswer]
  /\ result = [h \in Holders |-> "none"]
  /\ trail = [h \in Holders |-> <<>>]
  /\ polled = {}
  /\ calls = 0 /\ moves = 0

Return(h, r) ==
  /\ pc' = [pc EXCEPT ![h] = "idle"]
  /\ result' = [result EXCEPT ![h] = r]
  /\ presented' = [presented EXCEPT ![h] = NoTuple]
  /\ answer' = [answer EXCEPT ![h] = NoAnswer]

-----------------------------------------------------------------------------
(* The tuple checks of the orchestrator, then those of the adapter         *)

Identified(t) == t.submission /\ (t.tx # NoTx \/ t.rid # NoTx)

(* Defect: the reconciliation id is not compared with the tx hash.         *)
GuardErrorOfTxOnly(t) ==
  CASE adapter = "thronos_gate_closed" -> "polling_disabled"
    [] OTHER                           ->
         IF t.tx = BadTx THEN "poll_invalid_tx_hash" ELSE "none"

(* RealThronosAttestationAdapter.poll_attestation up to its params; the    *)
(* reconciliation id is "<network>:<tx hash>".                             *)
GuardError(t) ==
  CASE adapter = "thronos_gate_closed"  -> "polling_disabled"
    [] OTHER                            ->
         CASE t.tx = BadTx                                      -> "poll_invalid_tx_hash"
           [] t.tx # BadTx /\ t.rid = BadTx                     -> "poll_invalid_reconciliation_id"
           [] {t.tx, t.rid} \subseteq Txs /\ t.tx # t.rid       -> "poll_id_mismatch"
           [] OTHER                                             -> "none"

Thronos == adapter \in {"thronos_network", "thronos_gate_closed"}

(* The transaction a tuple asks about (normalized_tx_hash).                *)
Target(t) == IF t.tx = NoTx THEN t.rid ELSE t.tx

(* A call that ends before anybody is asked.                               *)
RejectCall(h, t) ==
  /\ pc[h] = "idle" /\ calls < MaxCalls
  /\ \/ ~Identified(t) /\ Return(h, "invalid_reconciliation_tuple")
     \/ Identified(t) /\ Thronos /\ GuardError(t) # "none" /\ Return(h, GuardError(t))
  /\ calls' = calls + 1
  /\ UNCHANGED <<world, receipt, trail, polled>>

(* thronos_getAttestationStatus leaves for the provider.                   *)
SendPoll(h, t) ==
  /\ pc[h] = "idle" /\ calls < MaxCalls
  /\ Identified(t) /\ Thronos /\ GuardError(t) = "none"
  /\ calls' = calls + 1
  /\ presented' = [presented EXCEPT ![h] = t]
  /\ polled' = polled \cup {t}
  /\ pc' = [pc EXCEPT ![h] = "asked"]
  /\ UNCHANGED <<world, receipt, answer, result, trail>>

-----------------------------------------------------------------------------
(* What is done with a poll                                                *)

(* Defect: only the tuples are compared.                                   *)
ReplayStateOfTuple(old, new) ==
  IF old.key = new.key THEN "repeated_observation_consistent"
                       ELSE "repeated_observation_mismatch"

(* _derive_replay_state, for receipts that carry a replay key              *)
ReplayState(old, new) ==
  IF /\ old.key = new.key
     /\ old.confirmation = new.confirmation /\ old.finality = new.finality /\ old.id = new.id
  THEN "repeated_observation_consistent" ELSE "repeated_observation_mismatch"

(* The receipt after an accepted poll.  A poll without a finality or a     *)
(* lifecycle leaves that of the receipt.                                   *)
FinalityOf(old, p) == IF p.finality = "absent" THEN old.finality ELSE p.finality

Updated(old, t, p) ==
  LET new == [tuple |-> t, confirmation |-> p.confirmation, finality |-> FinalityOf(old, p),
              lifecycle |-> IF p.lifecycle = "absent" THEN old.lifecycle ELSE p.lifecycle,
              id |-> p.id, proof |-> p.proof, key |-> Key(t), count |-> old.count + 1,
              replay |-> "not_checked"]
  IN [new EXCEPT !.replay = ReplayState(old, new)]

LastTwo(s) == IF Len(s) > 2 THEN Tail(s) ELSE s

Conclude(h, t, p) ==
  CASE ~ProofHolds(p.confirmation, FinalityOf(receipt[h], p), p.id, p.proof) ->
         Return(h, "invalid_confirmation_proof") /\ UNCHANGED <<receipt, trail>>
    [] OTHER ->
         IF p.confirmation \notin Transitions(receipt[h].confirmation)
         THEN Return(h, "invalid_confirmation_transition") /\ UNCHANGED <<receipt, trail>>
         ELSE /\ receipt' = [receipt EXCEPT ![h] = Updated(@, t, p)]
              /\ trail' = [trail EXCEPT ![h] = LastTwo(Append(@, [tuple |-> t, poll |-> p]))]
              /\ Return(h, "receipt")

(* An adapter that asks nobody, or one from outside this repository.       *)
PollLocally(h, t) ==
  /\ pc[h] = "idle" /\ calls < MaxCalls
  /\ Identified(t) /\ ~Thronos
  /\ calls' = calls + 1
  /\ \E p \in IF adapter = "untrusted" THEN UntrustedPolls ELSE {LocalPoll(adapter)} :
        Conclude(h, t, p)
  /\ UNCHANGED <<world, polled>>

(* It raises: its own error, whose code is passed on, or anything else.    *)
AdapterRaises(h, t) ==
  /\ pc[h] = "idle" /\ calls < MaxCalls
  /\ Identified(t) /\ adapter = "untrusted"
  /\ calls' = calls + 1
  /\ \E error \in {"poll_failed", "reconciliation_failed"} : Return(h, error)
  /\ UNCHANGED <<world, receipt, trail, polled>>

(* The provider reads the status; the answer may be overtaken by changes.  *)
ProviderReplies(h) ==
  /\ pc[h] = "asked"
  /\ pc' = [pc EXCEPT ![h] = "replied"]
  /\ answer' = [answer EXCEPT ![h] = provider[Target(presented[h])]]
  /\ UNCHANGED <<world, receipt, presented, result, trail, polled, calls>>

(* Defect: the answer is filed under the tuple of the receipt held.        *)
ReceiveAnswerForHeld(h) ==
  /\ pc[h] = "replied"
  /\ Conclude(h, receipt[h].tuple, PollOf(answer[h].status, answer[h].id))
  /\ UNCHANGED <<world, polled, calls>>

ReceiveAnswer(h) ==
  /\ pc[h] = "replied"
  /\ Conclude(h, presented[h], PollOf(answer[h].status, answer[h].id))
  /\ UNCHANGED <<world, polled, calls>>

(* No answer (timeout or unreachable; a reset connection or no JSON), or   *)
(* one that fails the validation of envelope, result and types.            *)
PollFails(h, error) ==
  /\ pc[h] \in {"asked", "replied"}
  /\ error \in {"poll_unreachable", "poll_failed"} \/ pc[h] = "replied"
  /\ Return(h, error)
  /\ UNCHANGED <<world, receipt, trail, polled, calls>>

(* The provider changes what it reports.  Nothing is assumed of it: behind *)
(* one URL there may be a reorganised chain or a lagging replica.          *)
ProviderMoves(tx, status, id) ==
  /\ moves < MaxMoves
  /\ moves' = moves + 1
  /\ provider' = [provider EXCEPT ![tx] = [status |-> status, id |-> id]]
  /\ past' = past \cup {<<tx, status, id>>}
  /\ UNCHANGED <<adapter, receipt, pc, presented, answer, result, trail, polled, calls>>

(* A holder takes over the copy of another one.                            *)
TakeOver(h, g) ==
  /\ pc[h] = "idle"
  /\ receipt[h] # receipt[g] \/ trail[h] # trail[g]
  /\ receipt' = [receipt EXCEPT ![h] = receipt[g]]
  /\ trail' = [trail EXCEPT ![h] = trail[g]]
  /\ UNCHANGED <<world, pc, presented, answer, result, polled, calls>>

Next ==
  \/ \E h \in Holders, t \in Tuples \cup {receipt[g].tuple : g \in Holders} :
        RejectCall(h, t) \/ SendPoll(h, t) \/ PollLocally(h, t) \/ AdapterRaises(h, t)
  \/ \E h \in Holders : ProviderReplies(h) \/ ReceiveAnswer(h)
  \/ \E h \in Holders,
        error \in {"poll_unreachable", "poll_failed", "poll_malformed", "poll_rpc_error"} :
        PollFails(h, error)
  \/ \E tx \in Txs, status \in Statuses, id \in Ids : ProviderMoves(tx, status, id)
  \/ \E h, g \in Holders : TakeOver(h, g)

Spec == Init /\ [][Next]_vars

-----------------------------------------------------------------------------
(* Properties                                                              *)

Observed(r) ==
  /\ r.confirmation = "confirmed" => <<Target(r.tuple), r.proof.status, r.id>> \in past
  /\ r.finality = "finalized" => <<Target(r.tuple), "finalized", r.id>> \in past
  /\ r.confirmation = "rejected_or_dropped" =>
       \E id \in Ids : <<Target(r.tuple), r.proof.status, id>> \in past

(* docs/m11, m12: a confirmed receipt proves that the provider reported    *)
(* exactly this (confirmed or finalized, under this confirmation id) of    *)
(* the transaction its tuple names, and a rejected one likewise, however   *)
(* late the answer and whichever copy it was merged into.                  *)
OutcomeWasObserved ==
  adapter = "thronos_network" => \A h \in Holders : Observed(receipt[h])

(* The provider statuses that prove an outcome: the table of docs/m12.1,   *)
(* which asks none of "unknown".                                           *)
Proves(confirmation, finality) ==
  CASE confirmation = "confirmed"           ->
         IF finality = "finalized" THEN {"finalized"} ELSE {"confirmed"}
    [] confirmation = "still_pending"       -> {"pending", "submitted"}
    [] confirmation = "rejected_or_dropped" -> {"rejected", "dropped"}
    [] OTHER                                -> ProviderStatuses \ {"absent"}

Proven(r) ==
  /\ r.proof.wellFormed /\ r.proof.id = r.id
  /\ r.proof.status \in Proves(r.confirmation, r.finality)

(* docs/m12.1: provider_status must match the confirmation/finality        *)
(* outcome.  The outcome and the proof a receipt carries agree in the      *)
(* outcome, in whether it is final, and in the confirmation id, also where *)
(* the finality is one an earlier reconciliation left and the adapter that *)
(* answered this one is not of this repository.                            *)
ProofAgrees == \A h \in Holders : receipt[h].count > 0 => Proven(receipt[h])

(* Of a receipt or a poll.                                                 *)
ViewsAgree(r) ==
  /\ r.lifecycle = "confirmed_finalized" <=> r.finality = "finalized"
  /\ r.lifecycle \in {"confirmed_finalized", "confirmed_not_finalized"}
       <=> r.confirmation = "confirmed"
  /\ r.lifecycle = "submission_rejected" <=> r.confirmation = "rejected_or_dropped"
  /\ r.finality = "rejected" <=> r.confirmation = "rejected_or_dropped"

(* The four views a receipt gives of one transaction never disagree.       *)
LifecycleAgrees == adapter # "untrusted" => \A h \in Holders : ViewsAgree(receipt[h])

SameOutcome(p, q) ==
  p.confirmation = q.confirmation /\ p.finality = q.finality /\ p.id = q.id

(* docs/m12: a repeated observation is labelled consistent when tuple and  *)
(* provider response were stable, and only then: a finality taken back or  *)
(* an answer about another transaction is never passed off as consistent.  *)
ConsistentMeansStable ==
  adapter # "untrusted" =>
    \A h \in Holders :
       Len(trail[h]) = 2 =>
         (receipt[h].replay = "repeated_observation_consistent" <=>
            trail[h][1].tuple = trail[h][2].tuple /\ SameOutcome(trail[h][1].poll, trail[h][2].poll))

(* docs/m11: confirmed and rejected_or_dropped are terminal, whatever the  *)
(* provider says later and with whichever tuple it is asked.               *)
TerminalOutcomeStays ==
  \A h \in Holders :
     Len(trail[h]) = 2 /\ trail[h][1].poll.confirmation \in {"confirmed", "rejected_or_dropped"}
       => receipt[h].confirmation = trail[h][1].poll.confirmation

(* Copies of one receipt age apart, and terminal outcomes stay: two of     *)
(* them can end differently for good.  They do so only when the provider   *)
(* itself has reported both ends of that transaction, never because of an  *)
(* answer that was late, about another transaction, or merged into a copy  *)
(* taken over meanwhile (orchestrator.py 150).                             *)
CopiesPartWithTheProvider ==
  adapter = "thronos_network" =>
    \A h, g \in Holders :
       /\ receipt[h].confirmation = "confirmed"
       /\ receipt[g].confirmation = "rejected_or_dropped"
       /\ Target(receipt[h].tuple) = Target(receipt[g].tuple)
       => \A ends \in {{"confirmed", "finalized"}, {"rejected", "dropped"}} :
            \E status \in ends, id \in Ids : <<Target(receipt[h].tuple), status, id>> \in past

(* docs/m11: invalid tuples are rejected before any provider poll, and     *)
(* behind a closed gate nothing is polled.                                 *)
PollsAreIdentified ==
  /\ polled # {} => adapter = "thronos_network"
  /\ \A t \in polled : /\ t.submission /\ Target(t) \in Txs
                       /\ t.rid \in {NoTx, Target(t)}

(* docs/m11: "unknown means status cannot be proven from current           *)
(* response"; result.status is checked "when present".  What the adapter   *)
(* returns for an answer without a status passes the proof contract.       *)
AnswersPassTheContract ==
  adapter = "thronos_network" =>
    \A h \in Holders : result[h] # "invalid_confirmation_proof"

(* docs/m12: the first reconciliation of a receipt is a first_observation. *)
FirstObservationIsFirst ==
  \A h \in Holders : receipt[h].count = 1 => receipt[h].replay = "first_observation"
=============================================================================
