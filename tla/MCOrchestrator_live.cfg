\* One process in every wiring of the tests, with and without a provider, under fairness.
SPECIFICATION FairSpec
CONSTANTS
  w1 = w1  w2 = w2  m1 = m1  m2 = m2
  Workers = {w1}
  Manifests = {m1, m2}
  Undecodable = Undecodable
  SharedRoot = SharedRoot
  NoBlob = NoBlob
  Foreign = Foreign
  Commands <- TwoCommands
  Configs <- Live
  MaxRequests = 2
  MaxCrashes = 2
  MaxForeign = 0

\* The bounds stop the model: once they are spent there may be no step left.
CHECK_DEADLOCK FALSE
INVARIANTS
  LoopsNeverFallThrough
PROPERTIES
  EveryRequestAnswered
