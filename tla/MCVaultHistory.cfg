\* Up to three chain nodes of one vault, by clients that claim, forget, repeat and diverge.
SPECIFICATION Spec
CONSTANTS
  i1 = i1  i2 = i2  d1 = d1  v1 = v1  h1 = h1
  Vaults = {v1}
  Ids = {i1, i2}
  Data = {d1}
  None = None
  Missing = Missing
  Malformed = Malformed
  NotFinite = NotFinite
  TooDeep = TooDeep
  NotObject = NotObject
  JsonTrue = JsonTrue
  InitialEntries <- Initially
  NewEntrySet <- NewEntries1
  UpdateSet <- Updates
  ClaimedHashes <- Claimed
  OtherPaths <- Paths
  MaxVersion = 3
  MaxNodes = 3
  MaxAltered = 1
INVARIANTS
  TypeOK
  EveryNodeVerifies
  VerifyChainExact
  ForksReported
  LossesAreExplained
