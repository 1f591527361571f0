SPECIFICATION Spec
CONSTANTS
  Worker = {w1, w2}
  Call = {c1, c2, c3}
  NoCall = no_call
CHECK_DEADLOCK FALSE
PROPERTIES
  RejectsOnlyWhenBusy
