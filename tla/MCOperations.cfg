\* Starts under every choice of backends with up to two variables changed, readiness, diagnosis.
SPECIFICATION Spec
CONSTANTS
  RequiredPaths <- Everything
  Deployments <- Tried
INVARIANTS
  TypeOK
  RechecksNeverFire
  EmptyCountsAsUnset
  AskedMeansEnabled
  ReadinessHonest
  DiagnosisFits
