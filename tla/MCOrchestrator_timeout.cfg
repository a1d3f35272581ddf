\* The simulated provider timeout of a dry run, and the lifecycle state it is given.
SPECIFICATION Spec
CONSTANTS
  w1 = w1  w2 = w2  m1 = m1  m2 = m2
  Workers = {w1, w2}
  Manifests = {m1, m2}
  Undecodable = Undecodable
  SharedRoot = SharedRoot
  NoBlob = NoBlob
  Foreign = Foreign
  Commands <- OneCommand
  Configs <- SimulatedFailure
  MaxRequests = 1
  MaxCrashes = 1
  MaxForeign = 1
SYMMETRY Symmetry
\* The bounds stop the model: once they are spent there may be no step left.
CHECK_DEADLOCK FALSE
INVARIANT TransientIsRetryable
