SPECIFICATION FairSpec
CONSTANTS
  r1 = r1  r2 = r2  r3 = r3
  d1 = d1  d2 = d2
  p1 = p1  p2 = p2
  None = None
  Requests = {r1, r2, r3}
  Domains = {d1, d2}
  Procs = {p1}
  DomainOf <- TwoDomains
  ProcOf <- OneProcess
  HasBody = {}
  Cached = {}
  Schemes <- L402First
  Answers <- OneOffer
  MaxCost = 2
  Faults = {"payfail", "io", "log"}
INVARIANTS LockMatchesWork PurchaseKeptOrReported
PROPERTIES BlockedOnlyByOwnDomain
