CONSTANTS
  Items = {i1, i2}
  Consumers = {c1, c2}
  NoConsumer = NoConsumer
  MaxWorkers = 1
SYMMETRY Symmetry
SPECIFICATION Spec
CHECK_DEADLOCK FALSE
INVARIANTS
  TypeOK
  FinishedMeansAllYielded
  YieldedOnce
  WorkerLimit
  FinalizedIsQuiet
