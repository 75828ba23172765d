SPECIFICATION Spec
CONSTANTS
  d1 = d1
  d2 = d2
  c1 = c1
  c2 = c2
  u1 = u1
  u2 = u2
  range1 = range1
  range2 = range2
  Domains = {d1}
  Clients = {c1}
  Updaters = {u1}
  Shards = {}
  ShardOf <- MCShardOf
  BatchSize = 1
  MaxRequests = 3
  MaxFailures = 0
  MaxEdits = 1
  MaxTime = 0
  RemovalAge = 1
  ListEntries <- BulkOnly
PROPERTIES
  SubmissionIsQueued
