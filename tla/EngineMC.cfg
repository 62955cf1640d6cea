SPECIFICATION EngineSpec
CONSTANTS
  Callers = {c1, c2}
  Jobs = {j1}
  Consumers = {k1}
  Late = {k1}
  MaxEngines = 2
  MaxEvents = 1
  Ranges <- MCRanges
  MaxPrice <- MCMaxPrice
  MaxFixed = 1
  UsageTime = 2
  MinExpiration = 5
  Proposals = {"p1", "p2", "p3"}
  Offer <- MCOffer
  Platforms = {"glm"}
  Allowed = {"a"}
  MaxHandlers = 1
  MaxSubscriptions = 2
  Notes = {n1, n2}
  Agreements = {a1}
  For <- MCFor
  NoteInterval = 1
  PayInterval = 1
  Grace = 0
  MaxNotes = 1
  MaxCalls = 2
  Never = Never
  MaxTime = 1
  LogJobs = {"j1", "j2"}
  LogAgreements <- MCLogAgreements
  MaxWork = 1
  MaxShutdowns = 1
  Connections = {x1}
  Ports = {s1}
  Responses <- MCResponses
  MaxInstances = 2
INVARIANTS StopInOrder   ShownAsItIs
CHECK_DEADLOCK FALSE
 
