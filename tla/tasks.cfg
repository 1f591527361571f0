SPECIFICATION FairSpec
CONSTANTS
  Worker = {w1, w2, w3}
  Call = {c1, c2, c3, c4}
  NoCall = no_call
CHECK_DEADLOCK FALSE
INVARIANTS
  TypeOK PopHasTask HeldOnce
PROPERTIES
  EveryTaskRuns TerminateReturns
