CONSTANTS
  Agreements = {a1}
  Invoices = {i1, i2, i3}
  Payers = {p1, p2}
  Processor = Processor
  MaxStarts = 2
  AwaitPayments = TRUE
SPECIFICATION FairSpec
CHECK_DEADLOCK FALSE
INVARIANTS
  TypeOK
  
  PaidForThisUser
  InvoiceServiceStops

  
