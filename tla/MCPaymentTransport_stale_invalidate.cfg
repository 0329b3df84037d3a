SPECIFICATION Spec
CONSTANTS
  r1 = r1  r2 = r2  r3 = r3
  d1 = d1  d2 = d2
  p1 = p1  p2 = p2
  None = None
  Requests = {r1, r2}
  Domains = {d1}
  Procs = {p1}
  DomainOf <- SharedDomain
  ProcOf <- OneProcess
  HasBody = {}
  Cached = {d1}
  Schemes <- L402First
  Answers <- OneOffer
  MaxCost = 2
  Faults = {"revoke"}
PROPERTY PaidTokenKept
