\* Callers that present a wrong tuple, and adapters that answer what they like.
SPECIFICATION Spec
CONSTANTS
  h1 = h1  h2 = h2  t1 = t1  t2 = t2  c1 = c1
  NoTx = NoTx  BadTx = BadTx  NoId = NoId
  Holders = {h1}
  Txs = {t1, t2}
  Ids = {NoId, c1}
  Tuples <- Mistaken
  Statuses = {"pending", "confirmed"}
  Adapters = {"thronos_network", "thronos_gate_closed", "rpc_generic", "dry_run_chain", "fake",
              "untrusted"}
  UntrustedPolls <- AnyPoll
  MaxCalls = 2
  MaxMoves = 1
SYMMETRY Symmetry
\* The bounds stop the model: once they are spent there may be no step left.
CHECK_DEADLOCK FALSE
INVARIANTS
  ProofAgrees
  PollsAreIdentified
