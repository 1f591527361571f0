SPECIFICATION FairSpec
CONSTANTS
  Name = {n1, n2}
  NoName = no_name
  Func = {f1}
  func = f1
  MaxId = 3
  MaxVersion = 7
  LateId = {1}
CHECK_DEADLOCK FALSE
INVARIANTS
  TypeOK CachedLogIsPrefix LiveCandidateKept TriedAll
PROPERTIES
  LoopEnds
