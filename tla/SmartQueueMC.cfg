CONSTANTS
  Items = {i1, i2}
  Consumers = {c1, c2}
  NoConsumer = NoConsumer
SPECIFICATION FairSpec
CHECK_DEADLOCK FALSE
INVARIANTS
  TypeOK
  ItemInOnePlace
  HandleInProgress
  NoMissedWakeUp
  NoOrphan
PROPERTIES
  AcceptedIsFinal
  ImplementsTaskPool
  FinishedIsNoticed
