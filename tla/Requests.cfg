SPECIFICATION FairSpec
CONSTANTS
  d1 = d1
  d2 = d2
  c1 = c1
  c2 = c2
  u1 = u1
  u2 = u2
  range1 = range1
  range2 = range2
  BatchSize = 1
  ShardOf <- MCShardOf
  Domains = {d1}
  Clients = {c1, c2}
  Updaters = {u1, u2}
  Shards = {}
  MaxRequests = 3
  MaxFailures = 1
  MaxEdits = 1
  MaxTime = 0
  RemovalAge = 1
  ListEntries <- BulkOnly
INVARIANTS
  StatusIsAccountedFor
PROPERTIES
  DatabaseFollowsList
