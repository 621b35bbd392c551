SPECIFICATION Spec
CONSTANTS
  t1 = t1  f1 = f1  i1 = i1  i2 = i2  c1 = c1  c2 = c2  v1 = v1  positive = positive
  None = None
  Tasks <- Document
  FieldTasks <- FieldTask
  InvoiceIds <- TwoInvoices
  Clerks <- TwoClerks
  Verifiers <- OneVerifier
  Outcomes <- OneOutcome
  Requests <- NoRequest
  Endpoints = {}
  CaseChanges = {}
  MaxCycles = 2
INVARIANTS OfferedAgain
CHECK_DEADLOCK FALSE
