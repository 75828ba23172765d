SPECIFICATION Spec
CONSTANTS
  d1 = d1
  d2 = d2
  c1 = c1
  c2 = c2
  u1 = u1
  u2 = u2
  range1 = range1
  range2 = range2
  BatchSize = 1
  ShardOf <- MCShardOf
  Domains = {d1}
  Clients = {}
  Updaters = {u1}
  Shards = {range1, range2}
  MaxRequests = 0
  MaxFailures = 1
  MaxEdits = 1
  MaxTime = 3
  RemovalAge = 1
  ListEntries <- BulkOnly
INVARIANTS
  TypeOK
  StatusIsAccountedFor
  IneligibleHasState
  IInv
  PassForgetsFailures
  NoSeriesAcrossPass
PROPERTIES
  ScansKeptByOwnRange
