SPECIFICATION Spec
CONSTANTS
  r1 = r1  r2 = r2  r3 = r3
  d1 = d1  d2 = d2
  p1 = p1  p2 = p2
  None = None
  Requests = {r1, r2}
  Domains = {d1}
  Procs = {p1, p2}
  DomainOf <- SharedDomain
  ProcOf <- TwoProcesses
  HasBody = {r2}
  Cached = {d1}
  Schemes <- L402First
  Answers <- EveryOffer
  MaxCost = 2
  Faults = {"net", "payfail", "timeout", "mismatch", "log", "io", "crash", "revoke", "remove"}
INVARIANTS TypeOK PaidTokenBacked LedgerBacked ReportedReal
