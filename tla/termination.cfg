CONSTANTS
  Server = {s1, s2}
  NoServer = NoServer
  Mortal = {s1}
  Stray = {s1, s2}
  BinderMortal = TRUE
  MaxMessages = 2
SPECIFICATION FairSpec
INVARIANTS TypeOK ExitTellsEveryone StoppedWasAnswered
PROPERTIES BinderComesToEnd AskingEnds
CHECK_DEADLOCK FALSE
