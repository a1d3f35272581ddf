\* The first reconciliation of a receipt that execute returned.
SPECIFICATION Spec
CONSTANTS
  h1 = h1  h2 = h2  t1 = t1  t2 = t2  c1 = c1
  NoTx = NoTx  BadTx = BadTx  NoId = NoId
  Holders = {h1}
  Txs = {t1, t2}
  Ids = {NoId, c1}
  Tuples <- AnotherTx
  Statuses = {"pending", "confirmed"}
  Adapters = {"thronos_network"}
  UntrustedPolls <- NoPoll
  MaxCalls = 3
  MaxMoves = 2
SYMMETRY Symmetry
\* The bounds stop the model: once they are spent there may be no step left.
CHECK_DEADLOCK FALSE
INVARIANTS
  FirstObservationIsFirst
