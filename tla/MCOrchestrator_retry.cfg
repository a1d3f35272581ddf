\* One or two attempts against a provider that loses, delays and refuses.
SPECIFICATION Spec
CONSTANTS
  w1 = w1  w2 = w2  m1 = m1  m2 = m2
  Workers = {w1, w2}
  Manifests = {m1, m2}
  Undecodable = Undecodable
  SharedRoot = SharedRoot
  NoBlob = NoBlob
  Foreign = Foreign
  Commands <- OneCommand
  Configs <- RetryingNetwork
  MaxRequests = 2
  MaxCrashes = 1
  MaxForeign = 0
SYMMETRY Symmetry
\* The bounds stop the model: once they are spent there may be no step left.
CHECK_DEADLOCK FALSE
INVARIANTS
  ReceiptBacked
  SubmissionsWithinPolicy
  PermanentFailureLeavesNothing
PROPERTIES
  LifecycleImplemented
