\* Two processes in every wiring routes.py produces, sharing a disk and a provider.
SPECIFICATION Spec
CONSTANTS
  w1 = w1  w2 = w2  m1 = m1  m2 = m2
  Workers = {w1, w2}
  Manifests = {m1, m2}
  Undecodable = Undecodable
  SharedRoot = SharedRoot
  NoBlob = NoBlob
  Foreign = Foreign
  Commands <- ThreeCommands
  Configs <- WiredOnly
  MaxRequests = 2
  MaxCrashes = 1
  MaxForeign = 1
SYMMETRY Symmetry
\* The bounds stop the model: once they are spent there may be no step left.
CHECK_DEADLOCK FALSE
INVARIANTS
  TypeOK
  PersistedBeforeSubmitted
  BoundBeforeSideEffects
  ContentAddressed
  GateClosedIsInert
  VerifiedBlobStays
