SPECIFICATION Spec
CONSTANTS
  Server = {s1, s2}
  Client = {p1}
  Binder = binder
  Nobody = nobody
  Conn = {c1, c2, c3}
  NoConn = no_conn
  Name = {n1, n2}
  NoName = no_name
  Func = {f1}
  NoFunc = no_func
  Mortal = {s1, s2}
  MaxId = 2
CHECK_DEADLOCK FALSE
SYMMETRY Symmetry
INVARIANTS
  TypeOK NamesFollowLog ReplicaPrefix ApplyAsserts ReplyResolves
  ServerKnowsItself LiveServerListed UpdatesAreAwaited
