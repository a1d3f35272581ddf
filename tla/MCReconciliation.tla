--------------------------- MODULE MCReconciliation ---------------------------
(* Instances of Reconciliation for TLC. *)
EXTENDS Reconciliation, TLC

CONSTANTS h1, h2, t1, t2, c1

(* Tuples a caller may present by mistake: without one of the ids, with    *)
(* ids of two transactions, malformed ones, those of another transaction.  *)
AnotherTx == {[submission |-> TRUE, tx |-> t2, rid |-> NoTx]}

Mistaken ==
  {[submission |-> FALSE, tx |-> t1, rid |-> t1],
   [submission |-> TRUE, tx |-> NoTx, rid |-> NoTx],
   [submission |-> TRUE, tx |-> NoTx, rid |-> t1],
   [submission |-> TRUE, tx |-> t1, rid |-> t2],
   [submission |-> TRUE, tx |-> BadTx, rid |-> t1],
   [submission |-> TRUE, tx |-> t1, rid |-> BadTx],
   [submission |-> TRUE, tx |-> t2, rid |-> NoTx]}

AnyPoll ==
  [confirmation : ConfirmationStatuses, finality : {"finalized", "not_finalized", "absent"},
   lifecycle : {"absent"}, id : {NoId, c1},
   proof : [wellFormed : {TRUE}, status : {"pending", "finalized", "confirmed", "rejected"},
            id : {NoId, c1}] \cup {NoProof}]
NoPoll == {}

Symmetry == Permutations(Holders)
=============================================================================
