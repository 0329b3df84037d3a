SPECIFICATION Spec
CONSTANTS
  t1 = t1  t2 = t2
  c1 = c1  c2 = c2  c3 = c3
  None = None
  Domains <- AllDomains
  Tokens = {t1, t2}
  Clients = {c1, c2, c3}
  Programs <- EveryScenario
  DiskFaults = TRUE
INVARIANTS TypeOK LookupsAtomic ListingComplete ClearedAll ListedNamesLeadBack
PROPERTIES StoreSpec
CHECK_DEADLOCK FALSE
