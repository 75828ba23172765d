SPECIFICATION FairSpec
CONSTANTS
  d1 = d1
  d2 = d2
  d3 = d3
  d4 = d4
  w1 = w1
  w2 = w2
  w3 = w3
  PolicyStates = {d1, d2, d3, d4}
  Workers = {w1, w2, w3}
  NoDomain = NoDomain
CHECK_DEADLOCK FALSE
INVARIANTS
  PoolIInv
  NeverSendsOnClosed
PROPERTIES
  CollectsEveryDomain
  EverythingEnds
