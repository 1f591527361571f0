SPECIFICATION FairSpec
CONSTANTS
  Server = {s1}
  Client = {p1}
  Binder = binder
  Nobody = nobody
  Conn = {c1, c2}
  NoConn = no_conn
  Name = {n1}
  NoName = no_name
  Func = {f1, f2}
  NoFunc = no_func
  Mortal = {s1, p1}
  MaxId = 1
CHECK_DEADLOCK FALSE
PROPERTIES
  LocRequestAnswered
