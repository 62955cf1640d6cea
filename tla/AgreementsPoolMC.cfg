CONSTANTS
  Providers = {p1}
  Agreements = {a1, a2}
  Workers = {w1, w2}
  NoAgreement = NoAgreement
  NoWorker = NoWorker
SPECIFICATION FairSpec
CHECK_DEADLOCK FALSE
INVARIANTS
  TypeOK
  ExclusiveUse
  ClosedIsEmpty
PROPERTIES
  TerminatingNotReused
  PoolCloses
