SPECIFICATION FairCycleSpec
CONSTANTS
  d1 = d1
  c1 = c1
  c2 = c2
  u1 = u1
  Domains = {d1}
  Sound = {d1}
  Clients = {c1, c2}
  Updaters = {u1}
  Shards = {}
  ShardOf <- NoShards
  BatchSize = 1
  MaxRequests = 2
  MaxFailures = 1
  MaxEdits = 1
  MaxTime = 0
  RemovalAge = 1
  ListEntries <- BulkOnly
INVARIANTS
  CycleIInv
PROPERTIES
  RollsAreAccountedFor
  QueuesDrain
