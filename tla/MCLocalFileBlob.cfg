\* Two processes on one root directory, with failing calls, deaths and power cuts.
SPECIFICATION Spec
CONSTANTS
  Procs = {p1, p2}
  BlobIds = {b1}
  Data = {d1, d2}
  NoBlob = NoBlob
  Torn = Torn
  Gates = {TRUE, FALSE}
  MaxCalls = 4
  MaxFaults = 2
SYMMETRY Symmetry
\* The bounds stop the model: once they are spent there may be no step left.
CHECK_DEADLOCK FALSE
INVARIANTS
  TypeOK
  NoTornBlob
  TempFilesAccountedFor
  AnswersWereTrue
  ClosedGateWritesNothing
PROPERTIES
  BlobStoreImplemented
