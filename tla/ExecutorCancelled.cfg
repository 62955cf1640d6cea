CONSTANTS
  Items = {i1}
  Consumers = {c1, c2}
  NoConsumer = NoConsumer
  MaxWorkers = 1
SPECIFICATION Spec
CHECK_DEADLOCK FALSE
INVARIANTS
  CancelledIsExternal
