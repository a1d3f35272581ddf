------------------------ MODULE ReconciliationProofs ------------------------
(***************************************************************************)
(* Proofs about Reconciliation.  Each holder's receipt and trail are a     *)
(* Copy: they say the same, and what they say was observed.  Copies are    *)
(* taken over as they are, and an accepted poll turns one into another     *)
(* (AcceptedCopy), so the invariant needs no relation between holders.     *)
(***************************************************************************)
EXTENDS Reconciliation, SequenceTheorems, TLAPS

-----------------------------------------------------------------------------
(* Polls                                                                   *)

(* A poll whose fields are all there and agree with each other.            *)
Coherent(p) ==
  p \in PollType /\ p.finality # "absent" /\ p.lifecycle # "absent" /\ ViewsAgree(p)

LEMMA ThronosPolls ==
  ASSUME NEW status \in ThronosStatuses, NEW id \in Ids
  PROVE  LET p == PollOf(status, id) IN
         /\ Coherent(p) /\ p.proof.status = status
         /\ p.confirmation = "confirmed" => p.id = id
         /\ p.finality = "finalized" => status = "finalized" /\ p.id = id
<1> USE DEF PollOf, Poll, Proof, Coherent, ViewsAgree, PollType, ProofType, ProviderStatuses,
            ThronosStatuses, ConfirmationStatuses, Finalities, Lifecycles
<1>1. NoId \in Ids
  BY ReconciliationAssumption
<1>2. CASE status = "finalized"
  BY <1>1, <1>2
<1>3. CASE status = "confirmed"
  BY <1>1, <1>3
<1>4. CASE status \in {"pending", "submitted"}
  BY <1>1, <1>4
<1>5. CASE status \in {"rejected", "dropped"}
  BY <1>1, <1>5
<1>6. CASE status \in {"unlisted", "absent"}
  BY <1>1, <1>6
<1> QED
  BY <1>2, <1>3, <1>4, <1>5, <1>6

LEMMA LocalPolls ==
  ASSUME NEW name \in {"rpc_generic", "dry_run_chain", "fake"}
  PROVE  Coherent(LocalPoll(name))
<1> USE DEF LocalPoll, Poll, Proof, NoProof, Coherent, ViewsAgree, PollType, ProofType,
            ProviderStatuses, ThronosStatuses, ConfirmationStatuses, Finalities, Lifecycles
<1>1. NoId \in Ids
  BY ReconciliationAssumption
<1>2. CASE name = "rpc_generic"
  BY <1>1, <1>2
<1>3. CASE name = "dry_run_chain"
  BY <1>1, <1>3
<1>4. CASE name = "fake"
  BY <1>1, <1>4
<1> QED
  BY <1>2, <1>3, <1>4

-----------------------------------------------------------------------------
(* Copies of a receipt                                                     *)

Observation == [tuple : TupleType, poll : PollType]

(* The receipt is what its last observation made of it.                    *)
TakenFrom(r, o) ==
  /\ r.tuple = o.tuple
  /\ r.confirmation = o.poll.confirmation /\ r.id = o.poll.id
  /\ adapter # "untrusted" => r.finality = o.poll.finality

(* The last two observations, and what the receipt says of the two.        *)
Repeats(r, first, last) ==
  /\ last.poll.confirmation \in Transitions(first.poll.confirmation)
  /\ adapter # "untrusted" =>
       (r.replay = "repeated_observation_consistent" <=>
          first.tuple = last.tuple /\ SameOutcome(first.poll, last.poll))

TrailType(s) == s \in Seq(Observation) /\ Len(s) <= 2

Copy(r, s) ==
  /\ r \in ReceiptType /\ r.key = r.tuple
  /\ TrailType(s)
  /\ Len(s) > 0 => TakenFrom(r, s[Len(s)])
  /\ Len(s) = 2 => Repeats(r, s[1], s[2])
  /\ adapter = "thronos_network" => Observed(r)
  /\ r.count > 0 \/ r.confirmation # "not_polled" => Proven(r)
  /\ adapter # "untrusted" => ViewsAgree(r)

(* What execute returned, before any poll.                                 *)
LEMMA SubmittedCopy ==
  ASSUME NEW tx \in Txs
  PROVE  Copy(SubmittedReceipt(tx), <<>>)
<1> DEFINE r == SubmittedReceipt(tx)
<1>1. NoId \in Ids
  BY ReconciliationAssumption
<1>2. r \in ReceiptType /\ r.key = r.tuple
  BY <1>1 DEF SubmittedReceipt, Started, Key, NoProof, ReceiptType, TupleType, ProofType,
              ProviderStatuses, ThronosStatuses, Finalities, Lifecycles, ReplayStates
<1>3. Observed(r) /\ ViewsAgree(r) /\ r.count = 0 /\ r.confirmation = "not_polled"
  BY DEF SubmittedReceipt, Observed, ViewsAgree
<1>4. TrailType(<<>>) /\ Len(<<>>) = 0
  BY DEF TrailType
<1> QED
  BY <1>2, <1>3, <1>4 DEF Copy

(* A poll about tuple t that may be merged into a receipt.                 *)
Answers(t, p) ==
  /\ t \in TupleType /\ p \in PollType
  /\ adapter # "untrusted" => Coherent(p)
  /\ adapter = "thronos_network" =>
       /\ p.confirmation \in {"confirmed", "rejected_or_dropped"} =>
            \E id \in Ids : /\ <<Target(t), p.proof.status, id>> \in past
                            /\ p.confirmation = "confirmed" => id = p.id
       /\ p.finality = "finalized" => <<Target(t), "finalized", p.id>> \in past

LEMMA LastTwoOfTrail ==
  ASSUME NEW s, TrailType(s), NEW o \in Observation
  PROVE  LET new == LastTwo(Append(s, o)) IN
         /\ TrailType(new) /\ new[Len(new)] = o
         /\ Len(s) = 0 => Len(new) = 1
         /\ Len(s) > 0 => Len(new) = 2 /\ new[1] = s[Len(s)] /\ new[2] = o
<1> DEFINE a == Append(s, o)
           k == Len(s)
           new == LastTwo(a)
<1>1. /\ a \in Seq(Observation) /\ Len(a) = k + 1 /\ a[k + 1] = o
      /\ \A i \in 1 .. k : a[i] = s[i]
      /\ k \in Nat /\ k <= 2
  BY DEF TrailType
<1>2. new = IF Len(a) > 2 THEN Tail(a) ELSE a
  BY DEF LastTwo
<1> HIDE DEF a, k, new
<1>3. k = 0 \/ k = 1 \/ k = 2
  BY <1>1
<1>4. CASE k = 0
  <2>1. new = a /\ Len(a) = 1 /\ a[1] = o
    BY <1>1, <1>2, <1>4
  <2> QED
    BY <1>1, <1>4, <2>1 DEF TrailType, k, new, a
<1>5. CASE k = 1
  <2>1. new = a /\ Len(a) = 2 /\ a[1] = s[1] /\ a[2] = o
    BY <1>1, <1>2, <1>5
  <2> QED
    BY <1>1, <1>5, <2>1 DEF TrailType, k, new, a
<1>6. CASE k = 2
  <2>1. new = Tail(a) /\ Len(a) = 3 /\ a[2] = s[2] /\ a[3] = o
    BY <1>1, <1>2, <1>6
  <2>2. a # <<>>
    BY <2>1
  <2>3. /\ Tail(a) \in Seq(Observation) /\ Len(Tail(a)) = Len(a) - 1
        /\ \A i \in 1 .. Len(Tail(a)) : Tail(a)[i] = a[i + 1]
    BY <1>1, <2>2, HeadTailProperties
  <2>4. Len(new) = 2 /\ \A i \in 1 .. 2 : new[i] = a[i + 1]
    <3>1. Len(a) - 1 = 2
      BY <2>1
    <3> QED
      BY <2>1, <2>3, <3>1
  <2>5. new[1] = s[2] /\ new[2] = o
    <3>1. new[1] = a[1 + 1] /\ new[2] = a[2 + 1]
      BY <2>4
    <3>2. 1 + 1 = 2 /\ 2 + 1 = 3
      OBVIOUS
    <3> QED
      BY <2>1, <3>1, <3>2
  <2> QED
    BY <1>6, <2>1, <2>3, <2>4, <2>5 DEF TrailType, k, new, a
<1> QED
  BY <1>3, <1>4, <1>5, <1>6

(* The receipt after an accepted poll (orchestrator.py 266-316).           *)
LEMMA AcceptedReceipt ==
  ASSUME NEW r \in ReceiptType, r.key = r.tuple, adapter # "untrusted" => ViewsAgree(r),
         NEW t, NEW p, Answers(t, p), ProofHolds(p.confirmation, FinalityOf(r, p), p.id, p.proof)
  PROVE  LET new == Updated(r, t, p) IN
         /\ new \in ReceiptType /\ new.key = new.tuple /\ new.tuple = t
         /\ new.confirmation = p.confirmation /\ new.id = p.id /\ new.proof = p.proof
         /\ new.finality = FinalityOf(r, p)
         /\ adapter # "untrusted" => new.finality = p.finality /\ ViewsAgree(new)
         /\ Proven(new)
         /\ new.replay = "repeated_observation_consistent" <=>
              /\ r.tuple = t
              /\ r.confirmation = new.confirmation /\ r.finality = new.finality /\ r.id = new.id
<1> DEFINE lifecycle == IF p.lifecycle = "absent" THEN r.lifecycle ELSE p.lifecycle
           finality == FinalityOf(r, p)
           plain == [tuple |-> t, confirmation |-> p.confirmation, finality |-> finality,
                     lifecycle |-> lifecycle, id |-> p.id, proof |-> p.proof, key |-> Key(t),
                     count |-> r.count + 1, replay |-> "not_checked"]
           replay == ReplayState(r, plain)
           new == Updated(r, t, p)
<1>1. new = [plain EXCEPT !.replay = replay]
  BY DEF Updated
<1>2. /\ t \in TupleType /\ p.confirmation \in ConfirmationStatuses /\ p.id \in Ids
      /\ p.proof \in ProofType /\ r.count \in Nat
  BY DEF Answers, PollType, ReceiptType
<1>3. finality \in Finalities /\ lifecycle \in Lifecycles
  BY DEF Answers, PollType, ReceiptType, FinalityOf
<1>4. adapter # "untrusted" => finality = p.finality /\ lifecycle = p.lifecycle /\ ViewsAgree(p)
  BY DEF Answers, Coherent, FinalityOf
<1>5. /\ plain.key = t /\ plain.confirmation = p.confirmation /\ plain.finality = finality
      /\ plain.id = p.id
  BY DEF Key
<1>6. /\ replay \in {"repeated_observation_consistent", "repeated_observation_mismatch"}
      /\ replay = "repeated_observation_consistent" <=>
           /\ r.tuple = t
           /\ r.confirmation = p.confirmation /\ r.finality = finality /\ r.id = p.id
  BY <1>5 DEF ReplayState
<1> HIDE DEF replay, finality, lifecycle
<1>7. new = [tuple |-> t, confirmation |-> p.confirmation, finality |-> finality,
             lifecycle |-> lifecycle, id |-> p.id, proof |-> p.proof, key |-> t,
             count |-> r.count + 1, replay |-> replay]
  BY <1>1 DEF Key
<1> HIDE DEF new, plain
<1>8. new \in ReceiptType
  BY <1>2, <1>3, <1>6, <1>7 DEF ReceiptType, ReplayStates
<1>9. /\ new.key = t /\ new.tuple = t /\ new.confirmation = p.confirmation /\ new.id = p.id
      /\ new.proof = p.proof /\ new.finality = finality /\ new.lifecycle = lifecycle
      /\ new.replay = replay
  BY <1>7
<1>10. adapter # "untrusted" => ViewsAgree(new)
  BY <1>4, <1>9 DEF ViewsAgree
<1>11. Proven(new)
  <2>1. /\ p.proof.wellFormed /\ p.id = p.proof.id
        /\ p.confirmation = "confirmed" =>
             p.proof.status = IF finality = "finalized" THEN "finalized" ELSE "confirmed"
        /\ p.confirmation = "still_pending" => p.proof.status \in {"pending", "submitted"}
        /\ p.confirmation = "rejected_or_dropped" => p.proof.status \in {"rejected", "dropped"}
        /\ p.proof.status # "absent"
    BY DEF ProofHolds, finality
  <2>2. p.proof.status \in ProviderStatuses
    BY <1>2 DEF ProofType
  <2>3. p.proof.status \in Proves(p.confirmation, finality)
    BY <1>2, <2>1, <2>2 DEF Proves, ConfirmationStatuses
  <2> QED
    BY <1>9, <2>1, <2>3 DEF Proven
<1> QED
  BY <1>4, <1>6, <1>8, <1>9, <1>10, <1>11 DEF new, finality

LEMMA AcceptedCopy ==
  ASSUME NEW r, NEW s, Copy(r, s), NEW t, NEW p, Answers(t, p),
         ProofHolds(p.confirmation, FinalityOf(r, p), p.id, p.proof),
         p.confirmation \in Transitions(r.confirmation)
  PROVE  Copy(Updated(r, t, p), LastTwo(Append(s, [tuple |-> t, poll |-> p])))
<1> DEFINE new == Updated(r, t, p)
           o == [tuple |-> t, poll |-> p]
           trace == LastTwo(Append(s, o))
<1>1. /\ new \in ReceiptType /\ new.key = new.tuple /\ new.tuple = t
      /\ new.confirmation = p.confirmation /\ new.id = p.id /\ new.proof = p.proof
      /\ adapter # "untrusted" => new.finality = p.finality /\ ViewsAgree(new)
      /\ Proven(new)
      /\ new.replay = "repeated_observation_consistent" <=>
           /\ r.tuple = t
           /\ r.confirmation = new.confirmation /\ r.finality = new.finality /\ r.id = new.id
  BY AcceptedReceipt DEF Copy
<1>2. o \in Observation /\ o.tuple = t /\ o.poll = p
  BY DEF Answers, Observation
<1> HIDE DEF new, o
<1>3. /\ TrailType(trace) /\ trace[Len(trace)] = o
      /\ Len(s) = 0 => Len(trace) = 1
      /\ Len(s) > 0 => Len(trace) = 2 /\ trace[1] = s[Len(s)] /\ trace[2] = o
  BY <1>2, LastTwoOfTrail DEF Copy
<1> HIDE DEF trace
<1>4. TakenFrom(new, o)
  BY <1>1, <1>2 DEF TakenFrom
<1>5. ASSUME Len(trace) = 2 PROVE Repeats(new, trace[1], trace[2])
  <2>1. Len(s) > 0
    BY <1>3, <1>5 DEF Copy, TrailType
  <2>2. TakenFrom(r, trace[1]) /\ trace[2] = o
    BY <1>3, <2>1 DEF Copy
  <2>3. p.confirmation \in Transitions(trace[1].poll.confirmation)
    BY <2>2 DEF TakenFrom
  <2> QED
    BY <1>1, <1>2, <2>2, <2>3 DEF Repeats, TakenFrom, SameOutcome
<1>6. adapter = "thronos_network" => Observed(new)
  BY <1>1 DEF Answers, Observed
<1> QED
  BY <1>1, <1>3, <1>4, <1>5, <1>6 DEF Copy, new, trace, o

(* A copy stays one while the adapter is the same and reports are added.   *)
LEMMA CopiesStay ==
  ASSUME adapter' = adapter, past \subseteq past', NEW r, NEW s, Copy(r, s)
  PROVE  Copy(r, s)'
<1>1. Observed(r) => Observed(r)'
  BY DEF Observed, Target
<1>2. (Len(s) > 0 => TakenFrom(r, s[Len(s)])) => (Len(s) > 0 => TakenFrom(r, s[Len(s)]))'
  BY DEF TakenFrom
<1>3. (Len(s) = 2 => Repeats(r, s[1], s[2])) => (Len(s) = 2 => Repeats(r, s[1], s[2]))'
  BY DEF Repeats
<1> QED
  BY <1>1, <1>2, <1>3 DEF Copy

-----------------------------------------------------------------------------
(* The inductive invariant                                                 *)

(* What leaves for the provider asks about one transaction it knows.       *)
Asks(t) ==
  /\ t \in TupleType /\ t.submission
  /\ Target(t) \in Txs /\ t.rid \in {NoTx, Target(t)}

(* A call under way asked through an open gate, and its answer was what    *)
(* the provider reported when it was read.                                 *)
CallOK(h) ==
  /\ pc[h] # "idle" => adapter = "thronos_network" /\ Asks(presented[h])
  /\ pc[h] = "replied" =>
       /\ answer[h].status \in Statuses
       /\ <<Target(presented[h]), answer[h].status, answer[h].id>> \in past

ReportsKept == \A tx \in Txs : Report(tx, provider[tx]) \in past

PolledOK == \A t \in polled : adapter = "thronos_network" /\ Asks(t)

IInv ==
  /\ TypeOK /\ trail \in [Holders -> Seq(Observation)]
  /\ \A h \in Holders : Copy(receipt[h], trail[h])
  /\ \A h \in Holders : CallOK(h)
  /\ ReportsKept
  /\ PolledOK

LEMMA InitIInv == Init => IInv
<1> SUFFICES ASSUME Init PROVE IInv
  OBVIOUS
<1>1. PICK tx \in Txs : receipt = [h \in Holders |-> SubmittedReceipt(tx)]
  BY DEF Init
<1>2. \A h \in Holders : receipt[h] = SubmittedReceipt(tx) /\ trail[h] = <<>>
  BY <1>1 DEF Init
<1>3. \A h \in Holders : Copy(receipt[h], trail[h])
  BY <1>2, SubmittedCopy
<1>4. \A h \in Holders : CallOK(h)
  BY DEF Init, CallOK
<1>5. ReportsKept /\ PolledOK
  BY DEF Init, ReportsKept, PolledOK
<1>6. TypeOK
  <2>1. NoId \in Ids /\ Adapters \subseteq AdapterNames
    BY ReconciliationAssumption
  <2>2. provider \in [Txs -> [status : Statuses, id : Ids]]
    BY <2>1 DEF Init
  <2>3. past \subseteq Txs \X Statuses \X Ids
    BY <2>2 DEF Init, Report
  <2>4. receipt \in [Holders -> ReceiptType]
    BY <1>1, SubmittedCopy DEF Copy
  <2>5. /\ pc \in [Holders -> {"idle", "asked", "replied"}]
        /\ presented \in [Holders -> TupleType]
        /\ answer \in [Holders -> [status : Statuses \cup {"absent"}, id : Ids]]
        /\ result \in [Holders -> Errors \cup {"none", "receipt"}]
        /\ \A h \in Holders : Len(trail[h]) <= 2
    BY <2>1, <1>2 DEF Init, NoTuple, NoAnswer, TupleType
  <2> QED
    BY <2>2, <2>3, <2>4, <2>5 DEF Init, TypeOK
<1>7. trail \in [Holders -> Seq(Observation)]
  BY DEF Init
<1> QED
  BY <1>3, <1>4, <1>5, <1>6, <1>7 DEF IInv

-----------------------------------------------------------------------------
(* Steps                                                                   *)

(* A tuple that passes the checks names one transaction (attestation.py    *)
(* RealThronosAttestationAdapter.poll_attestation).                        *)
LEMMA SentTuplesAsk ==
  ASSUME NEW t \in TupleType, Identified(t), Thronos, GuardError(t) = "none"
  PROVE  adapter = "thronos_network" /\ Asks(t)
<1>1. adapter = "thronos_network"
  BY DEF Thronos, GuardError
<1>2. /\ t.tx # BadTx /\ t.rid # BadTx
      /\ ~({t.tx, t.rid} \subseteq Txs /\ t.tx # t.rid)
  BY <1>1 DEF GuardError
<1>3. t.tx \in Txs \cup {NoTx} /\ t.rid \in Txs \cup {NoTx} /\ (t.tx # NoTx \/ t.rid # NoTx)
  BY <1>2 DEF TupleType, Identified
<1> QED
  BY <1>1, <1>2, <1>3, ReconciliationAssumption DEF Asks, Identified, Target

(* The end of a call, and what else may change with it.                    *)
LEMMA ReturnOK ==
  ASSUME IInv, NEW h \in Holders, NEW r \in Errors \cup {"receipt"}, Return(h, r),
         UNCHANGED world
  PROVE  /\ pc' \in [Holders -> {"idle", "asked", "replied"}]
         /\ presented' \in [Holders -> TupleType]
         /\ answer' \in [Holders -> [status : Statuses \cup {"absent"}, id : Ids]]
         /\ result' \in [Holders -> Errors \cup {"none", "receipt"}]
         /\ \A g \in Holders : CallOK(g)'
<1>1. NoId \in Ids /\ NoTuple \in TupleType
  BY ReconciliationAssumption DEF NoTuple, TupleType
<1>2. /\ pc' = [pc EXCEPT ![h] = "idle"] /\ presented' = [presented EXCEPT ![h] = NoTuple]
      /\ answer' = [answer EXCEPT ![h] = NoAnswer] /\ result' = [result EXCEPT ![h] = r]
      /\ adapter' = adapter /\ past' = past
  BY DEF Return, world
<1>3. ASSUME NEW g \in Holders PROVE CallOK(g)'
  <2>1. CASE g = h
    BY <1>2, <2>1 DEF IInv, TypeOK, CallOK
  <2>2. CASE g # h
    <3>1. pc'[g] = pc[g] /\ presented'[g] = presented[g] /\ answer'[g] = answer[g]
      BY <1>2, <2>2 DEF IInv, TypeOK
    <3> QED
      BY <1>2, <3>1 DEF IInv, CallOK
  <2> QED
    BY <2>1, <2>2
<1> QED
  BY <1>1, <1>2, <1>3 DEF IInv, TypeOK, NoAnswer

(* What a poll leaves of the holders' copies.                              *)
LEMMA ConcludeOK ==
  ASSUME IInv, NEW h \in Holders, NEW t, NEW p, Answers(t, p), Conclude(h, t, p),
         UNCHANGED <<world, polled>>, calls' \in Nat
  PROVE  IInv'
<1> DEFINE o == [tuple |-> t, poll |-> p]
<1>1. adapter' = adapter /\ past' = past
  BY DEF world
<1>2. \E r \in Errors \cup {"receipt"} : Return(h, r)
  BY DEF Conclude, Errors
<1>3. \/ UNCHANGED <<receipt, trail>>
      \/ /\ ProofHolds(p.confirmation, FinalityOf(receipt[h], p), p.id, p.proof)
         /\ p.confirmation \in Transitions(receipt[h].confirmation)
         /\ receipt' = [receipt EXCEPT ![h] = Updated(receipt[h], t, p)]
         /\ trail' = [trail EXCEPT ![h] = LastTwo(Append(trail[h], o))]
  BY DEF Conclude
<1>4. /\ receipt' \in [Holders -> ReceiptType] /\ trail' \in [Holders -> Seq(Observation)]
      /\ \A g \in Holders : Len(trail'[g]) <= 2 /\ Copy(receipt'[g], trail'[g])
  <2>1. CASE UNCHANGED <<receipt, trail>>
    BY <2>1 DEF IInv, TypeOK
  <2>2. CASE ~UNCHANGED <<receipt, trail>>
    <3> DEFINE new == Updated(receipt[h], t, p)
               trace == LastTwo(Append(trail[h], o))
    <3>1. Copy(new, trace)
      BY <1>3, <2>2, AcceptedCopy DEF IInv
    <3>2. receipt' = [receipt EXCEPT ![h] = new] /\ trail' = [trail EXCEPT ![h] = trace]
      BY <1>3, <2>2
    <3> HIDE DEF new, trace
    <3>3. new \in ReceiptType /\ trace \in Seq(Observation) /\ Len(trace) <= 2
      BY <3>1 DEF Copy, TrailType
    <3> QED
      BY <3>1, <3>2, <3>3 DEF IInv, TypeOK
  <2> QED
    BY <2>1, <2>2
<1>5. \A g \in Holders : Copy(receipt[g], trail[g])'
  BY <1>1, <1>4, CopiesStay
<1>6. ReportsKept' /\ PolledOK'
  BY DEF IInv, ReportsKept, PolledOK, world
<1>7. /\ pc' \in [Holders -> {"idle", "asked", "replied"}]
      /\ presented' \in [Holders -> TupleType]
      /\ answer' \in [Holders -> [status : Statuses \cup {"absent"}, id : Ids]]
      /\ result' \in [Holders -> Errors \cup {"none", "receipt"}]
      /\ \A g \in Holders : CallOK(g)'
  BY <1>2, ReturnOK
<1>8. TypeOK'
  BY <1>4, <1>7 DEF IInv, TypeOK, world
<1> QED
  BY <1>4, <1>5, <1>6, <1>7, <1>8 DEF IInv

(* A step that leaves the receipts alone.                                  *)
LEMMA CopiesKept ==
  ASSUME IInv, UNCHANGED <<receipt, trail>>, adapter' = adapter, past \subseteq past'
  PROVE  /\ receipt' \in [Holders -> ReceiptType] /\ trail' \in [Holders -> Seq(Observation)]
         /\ \A g \in Holders : Len(trail'[g]) <= 2
         /\ \A g \in Holders : Copy(receipt[g], trail[g])'
<1>1. \A g \in Holders : Copy(receipt'[g], trail'[g])
  BY DEF IInv
<1> QED
  BY <1>1, CopiesStay DEF IInv, TypeOK

LEMMA RejectCallStep ==
  ASSUME IInv, NEW h \in Holders, NEW t, RejectCall(h, t)
  PROVE  IInv'
<1>1. PICK r \in Errors : Return(h, r)
  BY DEF RejectCall, GuardError, Errors
<1>2. UNCHANGED <<world, receipt, trail, polled>> /\ calls' = calls + 1
  BY DEF RejectCall
<1>3. /\ receipt' \in [Holders -> ReceiptType] /\ trail' \in [Holders -> Seq(Observation)]
      /\ \A g \in Holders : Len(trail'[g]) <= 2
      /\ \A g \in Holders : Copy(receipt[g], trail[g])'
  BY <1>2, CopiesKept DEF world
<1>4. /\ pc' \in [Holders -> {"idle", "asked", "replied"}]
      /\ presented' \in [Holders -> TupleType]
      /\ answer' \in [Holders -> [status : Statuses \cup {"absent"}, id : Ids]]
      /\ result' \in [Holders -> Errors \cup {"none", "receipt"}]
      /\ \A g \in Holders : CallOK(g)'
  BY <1>1, <1>2, ReturnOK
<1>5. TypeOK'
  BY <1>2, <1>3, <1>4 DEF IInv, TypeOK, world
<1>6. ReportsKept' /\ PolledOK'
  BY <1>2 DEF IInv, ReportsKept, PolledOK, world
<1> QED
  BY <1>3, <1>4, <1>5, <1>6 DEF IInv

LEMMA AdapterRaisesStep ==
  ASSUME IInv, NEW h \in Holders, NEW t, AdapterRaises(h, t)
  PROVE  IInv'
<1>1. PICK r \in Errors : Return(h, r)
  BY DEF AdapterRaises, Errors
<1>2. UNCHANGED <<world, receipt, trail, polled>> /\ calls' = calls + 1
  BY DEF AdapterRaises
<1>3. /\ receipt' \in [Holders -> ReceiptType] /\ trail' \in [Holders -> Seq(Observation)]
      /\ \A g \in Holders : Len(trail'[g]) <= 2
      /\ \A g \in Holders : Copy(receipt[g], trail[g])'
  BY <1>2, CopiesKept DEF world
<1>4. /\ pc' \in [Holders -> {"idle", "asked", "replied"}]
      /\ presented' \in [Holders -> TupleType]
      /\ answer' \in [Holders -> [status : Statuses \cup {"absent"}, id : Ids]]
      /\ result' \in [Holders -> Errors \cup {"none", "receipt"}]
      /\ \A g \in Holders : CallOK(g)'
  BY <1>1, <1>2, ReturnOK
<1>5. TypeOK'
  BY <1>2, <1>3, <1>4 DEF IInv, TypeOK, world
<1>6. ReportsKept' /\ PolledOK'
  BY <1>2 DEF IInv, ReportsKept, PolledOK, world
<1> QED
  BY <1>3, <1>4, <1>5, <1>6 DEF IInv

LEMMA PollFailsStep ==
  ASSUME IInv, NEW h \in Holders,
         NEW error \in {"poll_unreachable", "poll_failed", "poll_malformed", "poll_rpc_error"},
         PollFails(h, error)
  PROVE  IInv'
<1>1. error \in Errors /\ Return(h, error)
  BY DEF PollFails, Errors
<1>2. UNCHANGED <<world, receipt, trail, polled, calls>>
  BY DEF PollFails
<1>3. /\ receipt' \in [Holders -> ReceiptType] /\ trail' \in [Holders -> Seq(Observation)]
      /\ \A g \in Holders : Len(trail'[g]) <= 2
      /\ \A g \in Holders : Copy(receipt[g], trail[g])'
  BY <1>2, CopiesKept DEF world
<1>4. /\ pc' \in [Holders -> {"idle", "asked", "replied"}]
      /\ presented' \in [Holders -> TupleType]
      /\ answer' \in [Holders -> [status : Statuses \cup {"absent"}, id : Ids]]
      /\ result' \in [Holders -> Errors \cup {"none", "receipt"}]
      /\ \A g \in Holders : CallOK(g)'
  BY <1>1, <1>2, ReturnOK
<1>5. TypeOK'
  BY <1>2, <1>3, <1>4 DEF IInv, TypeOK, world
<1>6. ReportsKept' /\ PolledOK'
  BY <1>2 DEF IInv, ReportsKept, PolledOK, world
<1> QED
  BY <1>3, <1>4, <1>5, <1>6 DEF IInv

LEMMA SendPollStep ==
  ASSUME IInv, NEW h \in Holders, NEW t \in TupleType, SendPoll(h, t)
  PROVE  IInv'
<1>1. adapter = "thronos_network" /\ Asks(t)
  BY SentTuplesAsk DEF SendPoll
<1>2. /\ presented' = [presented EXCEPT ![h] = t] /\ pc' = [pc EXCEPT ![h] = "asked"]
      /\ polled' = polled \cup {t} /\ calls' = calls + 1
      /\ UNCHANGED <<world, receipt, answer, result, trail>>
  BY DEF SendPoll
<1>3. /\ receipt' \in [Holders -> ReceiptType] /\ trail' \in [Holders -> Seq(Observation)]
      /\ \A g \in Holders : Len(trail'[g]) <= 2
      /\ \A g \in Holders : Copy(receipt[g], trail[g])'
  BY <1>2, CopiesKept DEF world
<1>4. ASSUME NEW g \in Holders PROVE CallOK(g)'
  <2>1. CASE g = h
    <3>1. pc'[g] = "asked" /\ presented'[g] = t
      BY <1>2, <2>1 DEF IInv, TypeOK
    <3> QED
      BY <1>1, <1>2, <3>1 DEF CallOK, world, Asks, Target
  <2>2. CASE g # h
    <3>1. pc'[g] = pc[g] /\ presented'[g] = presented[g] /\ answer'[g] = answer[g]
      BY <1>2, <2>2 DEF IInv, TypeOK
    <3> QED
      BY <1>2, <3>1 DEF IInv, CallOK, world, Asks, Target
  <2> QED
    BY <2>1, <2>2
<1>5. TypeOK'
  BY <1>2, <1>3 DEF IInv, TypeOK, world
<1>6. ReportsKept' /\ PolledOK'
  BY <1>1, <1>2 DEF IInv, ReportsKept, PolledOK, world, Asks, Target
<1> QED
  BY <1>3, <1>4, <1>5, <1>6 DEF IInv

LEMMA PollLocallyStep ==
  ASSUME IInv, NEW h \in Holders, NEW t \in TupleType, PollLocally(h, t)
  PROVE  IInv'
<1>1. PICK p \in IF adapter = "untrusted" THEN UntrustedPolls ELSE {LocalPoll(adapter)} :
        Conclude(h, t, p)
  BY DEF PollLocally
<1>2. adapter \in AdapterNames /\ adapter \notin {"thronos_network", "thronos_gate_closed"}
  BY ReconciliationAssumption DEF IInv, TypeOK, PollLocally, Thronos
<1>3. Answers(t, p)
  <2>1. CASE adapter = "untrusted"
    BY <1>1, <2>1, ReconciliationAssumption DEF Answers
  <2>2. CASE adapter # "untrusted"
    <3>1. adapter \in {"rpc_generic", "dry_run_chain", "fake"}
      BY <1>2, <2>2 DEF AdapterNames
    <3>2. Coherent(p)
      BY <1>1, <2>2, <3>1, LocalPolls
    <3> QED
      BY <3>1, <3>2 DEF Answers, Coherent
  <2> QED
    BY <2>1, <2>2
<1>4. UNCHANGED <<world, polled>> /\ calls' \in Nat
  BY DEF PollLocally, IInv, TypeOK
<1> QED
  BY <1>1, <1>3, <1>4, ConcludeOK

LEMMA ProviderRepliesStep ==
  ASSUME IInv, NEW h \in Holders, ProviderReplies(h)
  PROVE  IInv'
<1> DEFINE tx == Target(presented[h])
<1>1. /\ pc[h] = "asked" /\ pc' = [pc EXCEPT ![h] = "replied"]
      /\ answer' = [answer EXCEPT ![h] = provider[tx]]
      /\ UNCHANGED <<world, receipt, presented, result, trail, polled, calls>>
  BY DEF ProviderReplies
<1>2. adapter = "thronos_network" /\ Asks(presented[h]) /\ tx \in Txs
  BY <1>1 DEF IInv, CallOK, Asks
<1>3. /\ provider[tx] \in [status : Statuses, id : Ids]
      /\ <<tx, provider[tx].status, provider[tx].id>> \in past
  BY <1>2 DEF IInv, TypeOK, ReportsKept, Report
<1>4. /\ receipt' \in [Holders -> ReceiptType] /\ trail' \in [Holders -> Seq(Observation)]
      /\ \A g \in Holders : Len(trail'[g]) <= 2
      /\ \A g \in Holders : Copy(receipt[g], trail[g])'
  BY <1>1, CopiesKept DEF world
<1>5. ASSUME NEW g \in Holders PROVE CallOK(g)'
  <2>1. CASE g = h
    <3>1. pc'[g] = "replied" /\ answer'[g] = provider[tx]
      BY <1>1, <2>1 DEF IInv, TypeOK
    <3> QED
      BY <1>1, <1>2, <1>3, <2>1, <3>1 DEF CallOK, world, Asks, Target
  <2>2. CASE g # h
    <3>1. pc'[g] = pc[g] /\ presented'[g] = presented[g] /\ answer'[g] = answer[g]
      BY <1>1, <2>2 DEF IInv, TypeOK
    <3> QED
      BY <1>1, <3>1 DEF IInv, CallOK, world, Asks, Target
  <2> QED
    BY <2>1, <2>2
<1>6. TypeOK'
  BY <1>1, <1>3, <1>4 DEF IInv, TypeOK, world
<1>7. ReportsKept' /\ PolledOK'
  BY <1>1 DEF IInv, ReportsKept, PolledOK, world, Asks, Target
<1> QED
  BY <1>4, <1>5, <1>6, <1>7 DEF IInv

LEMMA ReceiveAnswerStep ==
  ASSUME IInv, NEW h \in Holders, ReceiveAnswer(h)
  PROVE  IInv'
<1> DEFINE t == presented[h]
           status == answer[h].status
           id == answer[h].id
           p == PollOf(status, id)
<1>1. /\ pc[h] = "replied" /\ Conclude(h, t, p)
      /\ UNCHANGED <<world, polled, calls>>
  BY DEF ReceiveAnswer
<1>2. /\ adapter = "thronos_network" /\ t \in TupleType /\ status \in ThronosStatuses
      /\ id \in Ids /\ <<Target(t), status, id>> \in past
  BY <1>1, ReconciliationAssumption DEF IInv, CallOK, TypeOK, Asks
<1> HIDE DEF t, status, id
<1>3. /\ Coherent(p) /\ p.proof.status = status
      /\ p.confirmation = "confirmed" => p.id = id
      /\ p.finality = "finalized" => status = "finalized" /\ p.id = id
  BY <1>2, ThronosPolls
<1> HIDE DEF p
<1>4. Answers(t, p)
  BY <1>2, <1>3 DEF Answers, Coherent
<1>5. calls' \in Nat
  BY <1>1 DEF IInv, TypeOK
<1> QED
  BY <1>1, <1>4, <1>5, ConcludeOK

LEMMA ProviderMovesStep ==
  ASSUME IInv, NEW tx \in Txs, NEW status \in Statuses, NEW id \in Ids,
         ProviderMoves(tx, status, id)
  PROVE  IInv'
<1>1. /\ provider' = [provider EXCEPT ![tx] = [status |-> status, id |-> id]]
      /\ past' = past \cup {<<tx, status, id>>} /\ moves' = moves + 1
      /\ UNCHANGED <<adapter, receipt, pc, presented, answer, result, trail, polled, calls>>
  BY DEF ProviderMoves
<1>2. /\ receipt' \in [Holders -> ReceiptType] /\ trail' \in [Holders -> Seq(Observation)]
      /\ \A g \in Holders : Len(trail'[g]) <= 2
      /\ \A g \in Holders : Copy(receipt[g], trail[g])'
  BY <1>1, CopiesKept
<1>3. \A g \in Holders : CallOK(g)'
  BY <1>1 DEF IInv, CallOK, Asks, Target
<1>4. TypeOK'
  BY <1>1, <1>2 DEF IInv, TypeOK
<1>5. ReportsKept'
  <2>1. SUFFICES ASSUME NEW u \in Txs PROVE Report(u, provider'[u]) \in past'
    BY DEF ReportsKept, Report
  <2>2. CASE u = tx
    BY <1>1, <2>2 DEF IInv, TypeOK, Report
  <2>3. CASE u # tx
    BY <1>1, <2>3 DEF IInv, TypeOK, ReportsKept, Report
  <2> QED
    BY <2>2, <2>3
<1>6. PolledOK'
  BY <1>1 DEF IInv, PolledOK, Asks, Target
<1> QED
  BY <1>2, <1>3, <1>4, <1>5, <1>6 DEF IInv

LEMMA TakeOverStep ==
  ASSUME IInv, NEW h \in Holders, NEW g \in Holders, TakeOver(h, g)
  PROVE  IInv'
<1>1. /\ receipt' = [receipt EXCEPT ![h] = receipt[g]] /\ trail' = [trail EXCEPT ![h] = trail[g]]
      /\ UNCHANGED <<world, pc, presented, answer, result, polled, calls>>
  BY DEF TakeOver
<1>2. /\ receipt' \in [Holders -> ReceiptType] /\ trail' \in [Holders -> Seq(Observation)]
      /\ \A k \in Holders : Len(trail'[k]) <= 2 /\ Copy(receipt'[k], trail'[k])
  BY <1>1 DEF IInv, TypeOK
<1>3. \A k \in Holders : Copy(receipt[k], trail[k])'
  BY <1>1, <1>2, CopiesStay DEF world
<1>4. \A k \in Holders : CallOK(k)'
  BY <1>1 DEF IInv, CallOK, world, Asks, Target
<1>5. TypeOK'
  BY <1>1, <1>2 DEF IInv, TypeOK, world
<1>6. ReportsKept' /\ PolledOK'
  BY <1>1 DEF IInv, ReportsKept, PolledOK, world, Asks, Target
<1> QED
  BY <1>2, <1>3, <1>4, <1>5, <1>6 DEF IInv

LEMMA NextIInv == IInv /\ [Next]_vars => IInv'
<1> SUFFICES ASSUME IInv, [Next]_vars PROVE IInv'
  OBVIOUS
<1>1. CASE UNCHANGED vars
  <2>1. UNCHANGED <<world, receipt, pc, presented, answer, result, trail, polled, calls>>
    BY <1>1 DEF vars
  <2>2. \A g \in Holders : Copy(receipt[g], trail[g])'
    BY <2>1, CopiesKept DEF world
  <2>3. \A g \in Holders : CallOK(g)'
    BY <2>1 DEF IInv, CallOK, world, Asks, Target
  <2>4. TypeOK' /\ (trail \in [Holders -> Seq(Observation)])'
    BY <2>1 DEF IInv, TypeOK, world
  <2>5. ReportsKept' /\ PolledOK'
    BY <2>1 DEF IInv, ReportsKept, PolledOK, world, Asks, Target
  <2> QED
    BY <2>2, <2>3, <2>4, <2>5 DEF IInv
<1>2. ASSUME NEW h \in Holders, NEW t \in Tuples \cup {receipt[g].tuple : g \in Holders},
             RejectCall(h, t) \/ SendPoll(h, t) \/ PollLocally(h, t) \/ AdapterRaises(h, t)
      PROVE  IInv'
  <2>1. t \in TupleType
    BY ReconciliationAssumption DEF IInv, TypeOK, ReceiptType
  <2> QED
    BY <1>2, <2>1, RejectCallStep, SendPollStep, PollLocallyStep, AdapterRaisesStep
<1>3. ASSUME NEW h \in Holders, ProviderReplies(h) \/ ReceiveAnswer(h) PROVE IInv'
  BY <1>3, ProviderRepliesStep, ReceiveAnswerStep
<1>4. ASSUME NEW h \in Holders,
             NEW error \in {"poll_unreachable", "poll_failed", "poll_malformed", "poll_rpc_error"},
             PollFails(h, error)
      PROVE  IInv'
  BY <1>4, PollFailsStep
<1>5. ASSUME NEW tx \in Txs, NEW status \in Statuses, NEW id \in Ids,
             ProviderMoves(tx, status, id)
      PROVE  IInv'
  BY <1>5, ProviderMovesStep
<1>6. ASSUME NEW h \in Holders, NEW g \in Holders, TakeOver(h, g) PROVE IInv'
  BY <1>6, TakeOverStep
<1> QED
  BY <1>1, <1>2, <1>3, <1>4, <1>5, <1>6 DEF Next

LEMMA Invariance == Spec => []IInv
BY InitIInv, NextIInv, PTL DEF Spec

-----------------------------------------------------------------------------
(* Theorems                                                                *)

(* The state is what the code's types say.                                 *)
THEOREM TypeCorrect == Spec => []TypeOK
<1>1. IInv => TypeOK
  BY DEF IInv
<1> QED
  BY <1>1, Invariance, PTL

(* A confirmed, finalized or rejected receipt proves that the provider     *)
(* reported just that of the transaction its tuple names, for any number   *)
(* of copies, calls, late answers and changes at the provider.             *)
THEOREM OutcomesObserved == Spec => []OutcomeWasObserved
<1>1. IInv => OutcomeWasObserved
  BY DEF IInv, Copy, OutcomeWasObserved
<1> QED
  BY <1>1, Invariance, PTL

(* The proof an accepted receipt carries proves the outcome and the        *)
(* finality that receipt states, whatever adapter answered and wherever    *)
(* the finality came from (_validate_confirmation_proof_contract).         *)
THEOREM ProofsAgree == Spec => []ProofAgrees
<1>1. IInv => ProofAgrees
  BY DEF IInv, Copy, ProofAgrees
<1> QED
  BY <1>1, Invariance, PTL

(* With an adapter of this repository the lifecycle, the finality and the  *)
(* confirmation of a receipt never disagree.                               *)
THEOREM LifecyclesAgree == Spec => []LifecycleAgrees
<1>1. IInv => LifecycleAgrees
  BY DEF IInv, Copy, LifecycleAgrees
<1> QED
  BY <1>1, Invariance, PTL

(* A repeated observation is labelled consistent when the tuple and what   *)
(* the provider said of it stayed the same, and only then.                 *)
THEOREM ConsistentIsStable == Spec => []ConsistentMeansStable
<1>1. IInv => ConsistentMeansStable
  BY DEF IInv, Copy, Repeats, ConsistentMeansStable
<1> QED
  BY <1>1, Invariance, PTL

(* confirmed and rejected_or_dropped are never left again.                 *)
THEOREM TerminalOutcomesStay == Spec => []TerminalOutcomeStays
<1>1. IInv => TerminalOutcomeStays
  <2> SUFFICES ASSUME IInv, NEW h \in Holders, Len(trail[h]) = 2,
                      trail[h][1].poll.confirmation \in {"confirmed", "rejected_or_dropped"}
               PROVE  receipt[h].confirmation = trail[h][1].poll.confirmation
    BY DEF TerminalOutcomeStays
  <2>1. TakenFrom(receipt[h], trail[h][2]) /\ Repeats(receipt[h], trail[h][1], trail[h][2])
    BY DEF IInv, Copy
  <2> QED
    BY <2>1 DEF TakenFrom, Repeats, Transitions
<1> QED
  BY <1>1, Invariance, PTL

(* For any number of copies, two end differently only when the provider    *)
(* has reported both ends of the transaction they are about.               *)
THEOREM CopiesPart == Spec => []CopiesPartWithTheProvider
<1>1. IInv => CopiesPartWithTheProvider
  <2> SUFFICES ASSUME IInv, adapter = "thronos_network", NEW h \in Holders, NEW g \in Holders,
                      receipt[h].confirmation = "confirmed",
                      receipt[g].confirmation = "rejected_or_dropped",
                      Target(receipt[h].tuple) = Target(receipt[g].tuple)
               PROVE  \A ends \in {{"confirmed", "finalized"}, {"rejected", "dropped"}} :
                        \E status \in ends, id \in Ids :
                           <<Target(receipt[h].tuple), status, id>> \in past
    BY DEF CopiesPartWithTheProvider
  <2> DEFINE tx == Target(receipt[h].tuple)
  <2>1. /\ Observed(receipt[h]) /\ Observed(receipt[g])
        /\ Proven(receipt[h]) /\ Proven(receipt[g])
        /\ receipt[h].id \in Ids
    BY DEF IInv, Copy, ReceiptType
  <2>2. \E status \in {"confirmed", "finalized"}, id \in Ids : <<tx, status, id>> \in past
    BY <2>1 DEF Observed, Proven, Proves
  <2>3. \E status \in {"rejected", "dropped"}, id \in Ids : <<tx, status, id>> \in past
    BY <2>1 DEF Observed, Proven, Proves
  <2> QED
    BY <2>2, <2>3
<1> QED
  BY <1>1, Invariance, PTL

(* Only identified tuples about one transaction reach the provider, and    *)
(* none does behind a closed gate.                                         *)
THEOREM PollsIdentified == Spec => []PollsAreIdentified
<1>1. IInv => PollsAreIdentified
  BY DEF IInv, PolledOK, Asks, PollsAreIdentified
<1> QED
  BY <1>1, Invariance, PTL

-----------------------------------------------------------------------------
(* How far the two divergences the runs show reach                         *)

LEMMA ReceiptCases ==
  ASSUME IInv, [Next]_vars
  PROVE  \/ receipt' = receipt
         \/ \E h, g \in Holders : receipt' = [receipt EXCEPT ![h] = receipt[g]]
         \/ \E h \in Holders : \E t, p :
              /\ p.confirmation \in ConfirmationStatuses
              /\ receipt' = [receipt EXCEPT ![h] = Updated(receipt[h], t, p)]
<1>1. ASSUME NEW h \in Holders, NEW t, PollLocally(h, t)
      PROVE  \E p \in PollType : Conclude(h, t, p)
  <2>1. adapter \in AdapterNames \ {"thronos_network", "thronos_gate_closed"}
    BY <1>1, ReconciliationAssumption DEF IInv, TypeOK, PollLocally, Thronos
  <2>2. CASE adapter = "untrusted"
    BY <1>1, <2>2, ReconciliationAssumption DEF PollLocally
  <2>3. CASE adapter # "untrusted"
    <3>1. LocalPoll(adapter) \in PollType
      BY <2>1, <2>3, LocalPolls DEF AdapterNames, Coherent
    <3> QED
      BY <1>1, <2>3, <3>1 DEF PollLocally
  <2> QED
    BY <2>2, <2>3
<1>2. ASSUME NEW h \in Holders, ReceiveAnswer(h)
      PROVE  \E t, p : p \in PollType /\ Conclude(h, t, p)
  <2>1. answer[h].status \in ThronosStatuses /\ answer[h].id \in Ids
    BY <1>2, ReconciliationAssumption DEF IInv, CallOK, TypeOK, ReceiveAnswer
  <2> QED
    BY <1>2, <2>1, ThronosPolls DEF ReceiveAnswer, Coherent
<1>3. ASSUME NEW h \in Holders, NEW t, NEW p, p \in PollType, Conclude(h, t, p)
      PROVE  \/ receipt' = receipt
             \/ /\ p.confirmation \in ConfirmationStatuses
                /\ receipt' = [receipt EXCEPT ![h] = Updated(receipt[h], t, p)]
  BY <1>3 DEF Conclude, PollType
<1>4. ASSUME NEW h \in Holders, NEW g \in Holders, TakeOver(h, g)
      PROVE  receipt' = [receipt EXCEPT ![h] = receipt[g]]
  BY <1>4 DEF TakeOver
<1> QED
  BY <1>1, <1>2, <1>3, <1>4
  DEF Next, RejectCall, SendPoll, AdapterRaises, ProviderReplies, PollFails, ProviderMoves, vars,
      world

(* No label says first_observation, and the first reconciliation of a      *)
(* receipt is always called a mismatch.                                    *)
FirstIsMismatch ==
  \A h \in Holders :
     /\ receipt[h].replay # "first_observation"
     /\ receipt[h].count = 0 => receipt[h].confirmation = "not_polled"
     /\ receipt[h].count = 1 => receipt[h].replay = "repeated_observation_mismatch"

LEMMA UpdatedLabel ==
  ASSUME NEW r \in ReceiptType, NEW t, NEW p, p.confirmation \in ConfirmationStatuses,
         r.count = 0 => r.confirmation = "not_polled"
  PROVE  LET new == Updated(r, t, p) IN
         /\ new.replay # "first_observation" /\ new.count # 0
         /\ new.count = 1 => new.replay = "repeated_observation_mismatch"
<1> DEFINE plain == [tuple |-> t, confirmation |-> p.confirmation, finality |-> FinalityOf(r, p),
                     lifecycle |-> IF p.lifecycle = "absent" THEN r.lifecycle ELSE p.lifecycle,
                     id |-> p.id, proof |-> p.proof, key |-> Key(t),
                     count |-> r.count + 1, replay |-> "not_checked"]
           label == ReplayState(r, plain)
           new == Updated(r, t, p)
<1>1. new = [plain EXCEPT !.replay = label]
  BY DEF Updated
<1>2. r.count \in Nat /\ plain.confirmation = p.confirmation
  BY DEF ReceiptType
<1>3. /\ label \in {"repeated_observation_consistent", "repeated_observation_mismatch"}
      /\ r.confirmation # p.confirmation => label = "repeated_observation_mismatch"
  BY <1>2 DEF ReplayState
<1> HIDE DEF label
<1>4. new.replay = label /\ new.count = r.count + 1
  BY <1>1
<1> HIDE DEF new
<1>5. r.count + 1 = 1 => r.confirmation # p.confirmation
  BY <1>2 DEF ConfirmationStatuses
<1> QED
  BY <1>2, <1>3, <1>4, <1>5 DEF new

(* Every receipt of execute carries a replay key (orchestrator.py 374), so *)
(* _derive_replay_state never answers first_observation and calls each     *)
(* first reconciliation a mismatch, whatever was polled and by whichever   *)
(* adapter: what the run reconciliation_first shows once happens always.   *)
THEOREM FirstIsAlwaysMismatch == Spec => []FirstIsMismatch
<1>1. Init => FirstIsMismatch
  BY DEF Init, FirstIsMismatch, SubmittedReceipt
<1>2. IInv /\ FirstIsMismatch /\ [Next]_vars => FirstIsMismatch'
  <2> SUFFICES ASSUME IInv, FirstIsMismatch, [Next]_vars PROVE FirstIsMismatch'
    OBVIOUS
  <2>0. receipt \in [Holders -> ReceiptType]
    BY DEF IInv, TypeOK
  <2>1. CASE receipt' = receipt
    BY <2>1 DEF FirstIsMismatch
  <2>2. ASSUME NEW h \in Holders, NEW g \in Holders, receipt' = [receipt EXCEPT ![h] = receipt[g]]
        PROVE  FirstIsMismatch'
    BY <2>0, <2>2 DEF FirstIsMismatch
  <2>3. ASSUME NEW h \in Holders, NEW t, NEW p, p.confirmation \in ConfirmationStatuses,
               receipt' = [receipt EXCEPT ![h] = Updated(receipt[h], t, p)]
        PROVE  FirstIsMismatch'
    <3> DEFINE new == Updated(receipt[h], t, p)
    <3>1. /\ new.replay # "first_observation" /\ new.count # 0
          /\ new.count = 1 => new.replay = "repeated_observation_mismatch"
      BY <2>0, <2>3, UpdatedLabel DEF FirstIsMismatch
    <3>2. receipt' = [receipt EXCEPT ![h] = new]
      BY <2>3
    <3> HIDE DEF new
    <3> QED
      BY <2>0, <3>1, <3>2 DEF FirstIsMismatch
  <2> QED
    BY <2>1, <2>2, <2>3, ReceiptCases
<1> QED
  BY <1>1, <1>2, Invariance, PTL DEF Spec

(* Of the network adapter only an answer without a status is refused.      *)
OnlyStatuslessIsRefused ==
  AnswersPassTheContract \/ \E tx \in Txs, id \in Ids : <<tx, "absent", id>> \in past

LEMMA ThronosPollsPass ==
  ASSUME NEW status \in ThronosStatuses, NEW id \in Ids, status # "absent", NEW r
  PROVE  LET p == PollOf(status, id) IN
         ProofHolds(p.confirmation, FinalityOf(r, p), p.id, p.proof)
<1> USE DEF PollOf, Poll, Proof, ProofHolds, FinalityOf, ThronosStatuses
<1>1. CASE status = "finalized"
  BY <1>1
<1>2. CASE status = "confirmed"
  BY <1>2
<1>3. CASE status \in {"pending", "submitted"}
  BY <1>3
<1>4. CASE status \in {"rejected", "dropped"}
  BY <1>4
<1>5. CASE status = "unlisted"
  BY <1>5
<1> QED
  BY <1>1, <1>2, <1>3, <1>4, <1>5

LEMMA RefusedStep ==
  ASSUME IInv, OnlyStatuslessIsRefused, [Next]_vars
  PROVE  OnlyStatuslessIsRefused'
<1> DEFINE bad == "invalid_confirmation_proof"
           Statusless == \E tx \in Txs, id \in Ids : <<tx, "absent", id>> \in past
<1>1. adapter' = adapter /\ past \subseteq past'
  BY DEF Next, RejectCall, SendPoll, PollLocally, AdapterRaises, ProviderReplies, ReceiveAnswer,
         PollFails, ProviderMoves, TakeOver, vars, world
<1>2. Statusless => Statusless'
  BY <1>1
<1> SUFFICES ASSUME ~Statusless, adapter = "thronos_network", NEW k \in Holders
             PROVE  result'[k] # bad
  BY <1>1, <1>2 DEF OnlyStatuslessIsRefused, AnswersPassTheContract
<1>3. result[k] # bad /\ result \in [Holders -> Errors \cup {"none", "receipt"}]
  BY DEF OnlyStatuslessIsRefused, AnswersPassTheContract, IInv, TypeOK
<1>4. ASSUME NEW h \in Holders, NEW r, r # bad, Return(h, r) PROVE result'[k] # bad
  BY <1>3, <1>4 DEF Return
<1>5. ASSUME NEW h \in Holders, ReceiveAnswer(h) PROVE result'[k] # bad
  <2> DEFINE status == answer[h].status
             id == answer[h].id
             p == PollOf(status, id)
  <2>1. /\ status \in ThronosStatuses /\ id \in Ids
        /\ <<Target(presented[h]), status, id>> \in past /\ Target(presented[h]) \in Txs
    BY <1>5, ReconciliationAssumption DEF IInv, CallOK, TypeOK, Asks, ReceiveAnswer
  <2>2. status # "absent"
    BY <2>1
  <2>3. Conclude(h, presented[h], p)
    BY <1>5 DEF ReceiveAnswer
  <2> HIDE DEF status, id
  <2>4. ProofHolds(p.confirmation, FinalityOf(receipt[h], p), p.id, p.proof)
    BY <2>1, <2>2, ThronosPollsPass
  <2> HIDE DEF p
  <2>5. Return(h, "receipt") \/ Return(h, "invalid_confirmation_transition")
    BY <2>3, <2>4 DEF Conclude
  <2> QED
    BY <1>4, <2>5
<1>6. ASSUME NEW h \in Holders, NEW t, RejectCall(h, t) PROVE result'[k] # bad
  BY <1>4, <1>6 DEF RejectCall, GuardError
<1>7. ASSUME NEW h \in Holders, NEW t, PollLocally(h, t) PROVE FALSE
  BY <1>7 DEF PollLocally, Thronos
<1>8. ASSUME NEW h \in Holders, NEW t, AdapterRaises(h, t) PROVE FALSE
  BY <1>8 DEF AdapterRaises
<1>9. CASE result' = result
  BY <1>3, <1>9
<1> QED
  BY <1>4, <1>5, <1>6, <1>7, <1>8, <1>9
  DEF Next, SendPoll, ProviderReplies, PollFails, ProviderMoves, TakeOver, vars, world

(* An answer is refused when, and only when, it is itself one without a    *)
(* status.                                                                 *)
RefusedExactly ==
  \A h \in Holders :
     ReceiveAnswer(h) => (result'[h] = "invalid_confirmation_proof" <=> answer[h].status = "absent")

LEMMA RefusedExactlyStep == IInv /\ [Next]_vars => RefusedExactly
<1> SUFFICES ASSUME IInv, NEW h \in Holders, ReceiveAnswer(h)
             PROVE  result'[h] = "invalid_confirmation_proof" <=> answer[h].status = "absent"
  BY DEF RefusedExactly
<1> DEFINE status == answer[h].status
           id == answer[h].id
           p == PollOf(status, id)
<1>1. /\ status \in ThronosStatuses /\ id \in Ids
      /\ result \in [Holders -> Errors \cup {"none", "receipt"}]
  BY ReconciliationAssumption DEF IInv, CallOK, TypeOK, Asks, ReceiveAnswer
<1>2. Conclude(h, presented[h], p)
  BY DEF ReceiveAnswer
<1> HIDE DEF status, id
<1>3. \A r : Return(h, r) => result'[h] = r
  BY <1>1 DEF Return
<1>4. CASE status = "absent"
  <2>1. p = Poll("unknown", "unknown", "submission_unknown", NoId, Proof("absent", NoId))
    BY <1>4 DEF PollOf
  <2>2. ~ProofHolds(p.confirmation, FinalityOf(receipt[h], p), p.id, p.proof)
    BY <2>1 DEF Poll, Proof, ProofHolds
  <2> HIDE DEF p
  <2> QED
    BY <1>2, <1>3, <1>4, <2>2 DEF Conclude, status
<1>5. CASE status # "absent"
  <2>1. ProofHolds(p.confirmation, FinalityOf(receipt[h], p), p.id, p.proof)
    BY <1>1, <1>5, ThronosPollsPass
  <2> HIDE DEF p
  <2>2. Return(h, "receipt") \/ Return(h, "invalid_confirmation_transition")
    BY <1>2, <2>1 DEF Conclude
  <2> QED
    BY <1>3, <1>5, <2>2 DEF status
<1> QED
  BY <1>4, <1>5

(* The proof contract refuses an answer of the provider when, and only     *)
(* when, it lacks a status (attestation.py 700-772): where the provider    *)
(* reports one of every transaction, listed or not, no call through the    *)
(* network adapter ever ends in the error of the contract of docs/m11.     *)
THEOREM StatuslessAloneIsRefused ==
  Spec => []OnlyStatuslessIsRefused /\ [][RefusedExactly]_vars
<1>1. Init => OnlyStatuslessIsRefused
  BY DEF Init, OnlyStatuslessIsRefused, AnswersPassTheContract
<1> QED
  BY <1>1, RefusedStep, RefusedExactlyStep, Invariance, PTL DEF Spec
=============================================================================
