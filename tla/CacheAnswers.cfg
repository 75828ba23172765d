SPECIFICATION FairSpec
CONSTANTS
  sub = sub
  site = site
  tld = tld
  r1 = r1
  r2 = r2
  NoReader = NoReader
  Domains = {sub, site, tld}
  Ancestors <- MCAncestors
  Lists = {}
  Readers = {r1, r2}
  StoredStates <- PreloadedOrNot
  CacheDuration = 1
  FetchTimeout = 1
  MaxTime = 1
  MaxWrites = 0
  MaxFailures = 1
INVARIANTS
  CacheIInv
  AnswersFollowDatastore
PROPERTIES
  EveryRequestEnds
