SPECIFICATION MCSpec
CONSTANTS
  Conn = {c1, c2}
  NoConn = NoConn
  MaxFd = 2
  Parts = 3
  GarbageSize = {1, 2, 9}
  Mortal = {c1}
  Short = {c2}
  Cut = {c2}
  Width <- Sizes
  CarSize = 3
  MaxArgs = 2
CHECK_DEADLOCK FALSE
INVARIANTS
  TypeOK WholeCalls HandledWhileConnected TakenOnce OwnReply
  InputsArrive OutputsArrive ArgumentsKept
PROPERTIES
  QueuedReplyLeaves CallAnswered
