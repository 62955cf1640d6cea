CONSTANTS
  Instances = {i1}
  NodeIds = {owner, p1, p2}
  Owner = owner
  NoProvider = NoProvider
  Addresses = 3
  MaxStarts = 2
  MaxSignals = 1
SPECIFICATION ServicesFairSpec
CHECK_DEADLOCK FALSE
INVARIANTS ServicesTypeOK  SuspendedKeepsAgreement 
  
