SPECIFICATION Spec
CONSTANTS
  e1 = e1  e2 = e2  e3 = e3
  d1 = d1  d2 = d2
  p1 = p1  p2 = p2
  l402 = l402
  None = None
  Procs = {p1, p2}
  Payments = {e1, e2, e3}
  ProcOf <- OneProcess
  SchemeOf <- OneCharge
  DomainOf <- AlternateDomain
  Amount <- Price
  Succeeds = {e1, e2}
  Readers = {p1}
  Limit = 1
  Faults = {"busy", "crash"}
INVARIANTS TypeOK MetadataStaysNear PagingMissesNothing TotalsAgree
CHECK_DEADLOCK FALSE
