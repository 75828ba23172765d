SPECIFICATION Spec
CONSTANTS
  sub = sub
  site = site
  tld = tld
  r1 = r1
  r2 = r2
  NoReader = NoReader
  Domains = {site}
  Ancestors <- MCAncestors
  Lists = {"pending"}
  Readers = {r1, r2}
  StoredStates <- PendingOrNot
  CacheDuration = 2
  FetchTimeout = 3
  MaxTime = 5
  MaxWrites = 2
  MaxFailures = 1
INVARIANTS
  CacheIInv
PROPERTIES
  ServesRecent
  NeverServesOlder
