CONSTANTS
  Providers = {p1}
  Agreements = {a1, a2}
  Workers = {w1, w2}
  NoAgreement = NoAgreement
  NoWorker = NoWorker
SPECIFICATION Spec
CHECK_DEADLOCK FALSE
INVARIANTS
  RefusedIsRemoved
