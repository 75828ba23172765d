SPECIFICATION SerialSpec
CONSTANTS
  d1 = d1
  d2 = d2
  c1 = c1
  c2 = c2
  u1 = u1
  u2 = u2
  range1 = range1
  range2 = range2
  BatchSize = 1
  ShardOf <- OneRange
  Domains = {d1, d2}
  Clients = {c1}
  Updaters = {u1}
  Shards = {range1}
  MaxRequests = 2
  MaxFailures = 1
  MaxEdits = 1
  MaxTime = 2
  RemovalAge = 0
  ListEntries <- BulkOnly
INVARIANTS
  WorksUndisturbed
PROPERTIES
  UpdateInstallsList
  SerialLifecycle
