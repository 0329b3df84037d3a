SPECIFICATION Spec
CONSTANTS
  r1 = r1  r2 = r2  r3 = r3
  d1 = d1  d2 = d2
  p1 = p1  p2 = p2
  None = None
  Requests = {r1, r2, r3}
  Domains = {d1}
  Procs = {p1}
  DomainOf <- SharedDomain
  ProcOf <- OneProcess
  HasBody = {}
  Cached = {}
  Schemes <- L402First
  Answers <- PaidOffers
  MaxCost = 2
  Faults = {"net", "payfail", "crash"}
SYMMETRY Symmetry
INVARIANTS BoughtOnce LedgerExact EnrichedOwn
PROPERTIES PaidTokenKept PaysOnlyWhenNeeded AccessSpec
