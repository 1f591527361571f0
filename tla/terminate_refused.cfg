CONSTANTS
  Server = {s1, s2}
  NoServer = NoServer
  Mortal = {}
  Stray = {s1}
  BinderMortal = FALSE
  MaxMessages = 1
SPECIFICATION Spec
INVARIANT TerminatesOnlyIfAgreed
CHECK_DEADLOCK FALSE
