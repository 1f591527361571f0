SPECIFICATION FairSpec
CONSTANTS
  Line <- Lines
  MaxLines = 2
  SOCKET_BUF_SIZE = 3
CHECK_DEADLOCK FALSE
INVARIANTS
  TypeOK RepliesInOrder EndsComplete
PROPERTIES
  ClientEnds
