SPECIFICATION FairSpec
CONSTANTS
  d1 = d1
  d2 = d2
  d3 = d3
  Domains = {d1, d2, d3}
  InitialLists <- SmallLists
  EndOfBulk = EndOfBulk
  Parallelism = 2
  MaxChanges = 1
  MaxRuns = 2
CHECK_DEADLOCK FALSE
INVARIANTS
  ListIInv
  CommittedListIsSound
PROPERTIES
  CommitsOnlyWhatWasAskedFor
  ImplementsListRoll
  EveryRunEnds
