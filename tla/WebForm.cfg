SPECIFICATION WebSpec
CONSTANTS
  d1 = d1
  c1 = c1
  c2 = c2
  u1 = u1
  p1 = p1
  NoDomain = NoDomain
  Domains = {d1}
  Clients = {c1, c2}
  Updaters = {u1}
  Pages = {p1}
  Subdomains = {d1}
  Shards = {}
  ShardOf <- NoShards
  BatchSize = 1
  MaxRequests = 2
  MaxFailures = 1
  MaxEdits = 1
  MaxTime = 0
  RemovalAge = 1
  ListEntries <- BulkAndCustom
INVARIANTS
  WebIInv
  ShowsCurrentDomain
  SuccessIsFounded
