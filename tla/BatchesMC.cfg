SPECIFICATION BatchesFairSpec
CONSTANTS
  Scripts <- MCScripts
  Clients <- MCScripts
  Program <- MCProgram
  Waits <- MCWaits
  Worker <- MCWorker
  Urls = {"u", "v"}
  Files <- Commands
  NoClient = NoClient
  NoSource = NoSource
  MaxSources = 4
  MaxYields <- MCYields
  MaxTries = 2
CHECK_DEADLOCK FALSE
INVARIANTS BatchesTypeOK   
 
