CONSTANTS
  Items = {i1}
  Consumers = {c1, c2}
  NoConsumer = NoConsumer
  MaxWorkers = 1
SPECIFICATION FairSpec
CHECK_DEADLOCK FALSE
PROPERTIES
  JobEnds
