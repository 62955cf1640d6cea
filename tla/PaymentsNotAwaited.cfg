CONSTANTS
  Agreements = {a1}
  Invoices = {i1, i2}
  Payers = {p1, p2}
  Processor = Processor
  MaxStarts = 2
  AwaitPayments = FALSE
SPECIFICATION Spec
CHECK_DEADLOCK FALSE
INVARIANTS
  InvoiceServiceStops
