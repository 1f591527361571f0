---------------------------- MODULE DirectoryProofs ----------------------------
(***************************************************************************)
(* Theorems about Directory, for any number of servers, clients, names,    *)
(* functions, connections and ids.  Types first, then the names and logs.  *)
(***************************************************************************)
EXTENDS Directory, NameServiceProofs

-----------------------------------------------------------------------------
(* Types.  TypeOK is not inductive: that a registration carries an id, say, *)
(* rests on rpcRegister running after rpcInit has returned.                 *)

(* What the fields of a message hold, by its state and type; ids is         *)
(* server_id.                                                               *)
MessageOK(k, ids) ==
  /\ k.state \in {"reply", "applying"} => k.src \in Replica
  /\ k.state = "running" => k.dst \in Server
  /\ k.type = "I_AM_SERVER" => k.name \in Name
  /\ k.type \in {"REGISTER", "REGISTER_DONE", "LOC_REQUEST"} => k.func \in Func
  /\ k.type \in {"REGISTER", "SERVER_OK"} => k.id \in Id
  /\ k.type \in {"REGISTER", "REGISTER_DONE"} /\ k.src \in Server
       => ids[k.src] \in Id

MessagesOK == \A c \in Conn : MessageOK(conn[c], server_id)

ReadyHasId == \A s \in Server : phase[s] = "ready" => server_id[s] \in Id

TypeInv == TypeOK /\ MessagesOK /\ ReadyHasId

(* No id, version or position is outside its range at the start. *)
LEMMA EmptyType == EmptyNameService \in Directories
<1>1. 0 \in 0 .. MaxId
  BY NameServiceAssumption
<1> QED
  BY <1>1 DEF EmptyNameService, Directories

(* A closed connection is a connection, and carries no message. *)
LEMMA ClosedType ==
  /\ Closed \in Connection
  /\ \A ids : MessageOK(Closed, ids)
  /\ Closed.src = Nobody /\ Closed.state = "free" /\ Closed.type = "NONE"
BY DEF Closed, Connection, MessageOK

(* A request is a message of its type; src and dst are processes. *)
LEMMA RequestType ==
  ASSUME TypeInv, NEW type \in MessageType, NEW src \in Replica, NEW dst \in Process
  PROVE  Request(type, src, dst) \in Connection
<1>1. ns[src] \in Directories
  BY DEF TypeInv, TypeOK, Process
<1>2. Version(ns[src]) \in Nat
  BY <1>1 DEF Version, Directories
<1>3. <<>> \in Seq(LogItem)
  OBVIOUS
<1> QED
  BY <1>2, <1>3 DEF Request, Connection

(* The fields of a reply, and its type. *)
LEMMA RepliedType ==
  ASSUME NEW k \in Connection, NEW type \in MessageType,
         NEW id \in Id \cup {NoId}, NEW d \in Directories, k.src # Nobody
  PROVE  LET r == Replied(k, type, id, d) IN
         /\ r \in Connection
         /\ r = [state |-> "reply", type |-> type, src |-> k.src, dst |-> k.dst,
                 ver |-> k.ver, id |-> id, func |-> k.func, name |-> k.name,
                 delta |-> GetLogs(d, k.ver)]
<1>1. k.ver \in Nat
  BY DEF Connection
<1>2. GetLogs(d, k.ver) \in Seq(LogItem)
  BY <1>1, GetLogsType
<1>3. Replied(k, type, id, d) =
        [state |-> "reply", type |-> type, src |-> k.src, dst |-> k.dst,
         ver |-> k.ver, id |-> id, func |-> k.func, name |-> k.name,
         delta |-> GetLogs(d, k.ver)]
  BY DEF Replied, Connection
<1> QED
  BY <1>2, <1>3 DEF Connection

(* A reply is sound when its type asks no more of it than the request had. *)
LEMMA RepliedOK ==
  ASSUME NEW k \in Connection, NEW type \in MessageType,
         NEW id \in Id \cup {NoId}, NEW d \in Directories, NEW ids,
         MessageOK(k, ids), type # "I_AM_SERVER",
         type \in {"REGISTER_DONE", "REGISTER", "LOC_REQUEST"} => k.type = "REGISTER",
         type \in {"REGISTER", "SERVER_OK"} => id \in Id
  PROVE  /\ Replied(k, type, id, d) \in Connection
         /\ MessageOK(Replied(k, type, id, d), ids)
<1>1. CASE k.src = Nobody
  <2>1. Replied(k, type, id, d) = Closed
    BY <1>1 DEF Replied
  <2> QED
    BY <2>1, ClosedType
<1>2. CASE k.src # Nobody
  <2> DEFINE r == Replied(k, type, id, d)
  <2>1. /\ r \in Connection
        /\ r.state = "reply" /\ r.type = type /\ r.src = k.src /\ r.id = id
        /\ r.func = k.func
    BY <1>2, RepliedType
  <2>2. k.src \in Replica
    BY <1>2 DEF Connection
  <2>3. type = "REGISTER_DONE" => k.func \in Func /\ (k.src \in Server => ids[k.src] \in Id)
    BY DEF MessageOK
  <2>4. MessageOK(r, ids)
    <3> HIDE DEF r
    <3> QED
      BY <2>1, <2>2, <2>3 DEF MessageOK
  <2> QED
    BY <2>1, <2>4
<1> QED
  BY <1>1, <1>2

(* A step that changes one message. *)
LEMMA OneMessage ==
  ASSUME TypeInv, NEW c \in Conn, NEW k \in Connection, MessageOK(k, server_id),
         conn' = [conn EXCEPT ![c] = k], server_id' = server_id
  PROVE  conn' \in [Conn -> Connection] /\ MessagesOK'
BY DEF TypeInv, TypeOK, MessagesOK

(* A step to a phase that needs no id. *)
LEMMA NextPhase ==
  ASSUME TypeInv, NEW p, NEW next \in Phase \ {"ready"},
         phase' = [phase EXCEPT ![p] = next], server_id' = server_id
  PROVE  phase' \in [Replica -> Phase] /\ ReadyHasId'
BY DEF TypeInv, TypeOK, ReadyHasId, Replica

(* What closing, dropping or losing a peer leaves of a message is sound. *)
LEMMA RemainsOK ==
  ASSUME NEW k \in Connection, NEW ids, MessageOK(k, ids), NEW p
  PROVE  /\ Abandoned(k) \in Connection /\ MessageOK(Abandoned(k), ids)
         /\ Dropped(k) \in Connection /\ MessageOK(Dropped(k), ids)
         /\ AfterDeath(k, p) \in Connection /\ MessageOK(AfterDeath(k, p), ids)
         /\ [k EXCEPT !.state = "spent"] \in Connection
         /\ MessageOK([k EXCEPT !.state = "spent"], ids)
<1> DEFINE left == [k EXCEPT !.src = Nobody]
           stated(st) == [k EXCEPT !.state = st]
<1>1. Nobody \notin Replica /\ Nobody \notin Server
  BY DirectoryAssumption DEF Process, Replica
<1>2. k.state \in {"request", "running"} =>
        left \in Connection /\ MessageOK(left, ids)
  BY <1>1 DEF Connection, MessageOK
<1>3. \A st \in {"ignored", "spent", "eof"} :
        stated(st) \in Connection /\ MessageOK(stated(st), ids)
  BY DEF Connection, MessageOK
<1>4. Closed \in Connection /\ MessageOK(Closed, ids)
  BY ClosedType
<1>5. Abandoned(k) \in {left, Closed}
      /\ (k.state # "request" => Abandoned(k) = Closed)
  BY DEF Abandoned
<1>6. Dropped(k) \in {Closed, stated("ignored"), stated("spent")}
  BY DEF Dropped
<1>7. \/ AfterDeath(k, p) \in {Closed, stated("eof"), k}
      \/ k.state \in {"request", "running"} /\ AfterDeath(k, p) = left
  BY DEF AfterDeath
<1> HIDE DEF left, stated
<1>8. Abandoned(k) \in Connection /\ MessageOK(Abandoned(k), ids)
  BY <1>2, <1>4, <1>5
<1>9. Dropped(k) \in Connection /\ MessageOK(Dropped(k), ids)
  BY <1>3, <1>4, <1>6
<1>10. AfterDeath(k, p) \in Connection /\ MessageOK(AfterDeath(k, p), ids)
  BY <1>2, <1>3, <1>4, <1>7
<1> QED
  BY <1>3, <1>8, <1>9, <1>10 DEF stated

-----------------------------------------------------------------------------
(* One lemma for each group of actions of Next: the step keeps the types. *)

(* Nobody waits for a dead process. *)
LEMMA DeadHasNone ==
  ASSUME NEW k \in Connection, NEW p \in Replica
  PROVE  AfterDeath(k, p).src # p
<1>1. Nobody # p
  BY DirectoryAssumption DEF Process
<1>2. /\ [k EXCEPT !.src = Nobody].src = Nobody
      /\ [k EXCEPT !.state = "eof"].src = k.src
  BY DEF Connection
<1> QED
  BY <1>1, <1>2, ClosedType DEF AfterDeath

(* A process dies. *)
LEMMA DeathTypes ==
  ASSUME TypeInv, NEW p \in Replica,
         \/ p \in Server /\ ServerDies(p)
         \/ p \in Client /\ ClientDies(p)
  PROVE  TypeInv'
<1>1. Die(p) /\ p \in Process
  BY DEF ServerDies, ClientDies, Process
<1>2. \A m \in Conn : conn'[m] = AfterDeath(conn[m], p)
  BY <1>1 DEF Die
<1>3. conn' \in [Conn -> Connection] /\ \A m \in Conn : MessageOK(conn'[m], server_id)
  <2>1. \A m \in Conn : conn[m] \in Connection /\ MessageOK(conn[m], server_id)
    BY DEF TypeInv, TypeOK, MessagesOK
  <2>2. \A m \in Conn : conn'[m] \in Connection /\ MessageOK(conn'[m], server_id)
    BY <1>2, <2>1, RemainsOK
  <2>3. conn' = [m \in Conn |-> conn'[m]]
    BY <1>1 DEF Die
  <2> QED
    BY <2>2, <2>3
<1>4. ns' \in [Process -> Directories]
  BY <1>1, EmptyType DEF Die, TypeInv, TypeOK
<1>5. waits' \in [Replica -> Seq(Conn)]
  BY <1>1 DEF Die, TypeInv, TypeOK
<1>6. /\ server_id' \in [Server -> Id \cup {NoId}]
      /\ \A s \in Server : s = p \/ server_id'[s] = server_id[s]
  BY DEF ServerDies, ClientDies, TypeInv, TypeOK, serverVars
<1>7. MessagesOK'
  <2> SUFFICES ASSUME NEW m \in Conn PROVE MessageOK(conn'[m], server_id')
    BY DEF MessagesOK, MessageOK
  <2>1. MessageOK(conn'[m], server_id)
    BY <1>3
  <2>2. conn'[m].src # p
    BY <1>2, DeadHasNone DEF TypeInv, TypeOK
  <2> QED
    BY <1>6, <2>1, <2>2 DEF MessageOK
<1>8. phase' \in [Replica -> Phase] /\ ReadyHasId'
  <2>1. CASE p \in Server /\ ServerDies(p)
    BY <2>1 DEF ServerDies, TypeInv, TypeOK, ReadyHasId, Phase, Replica
  <2>2. CASE p \in Client /\ ClientDies(p)
    BY <2>2, DirectoryAssumption
       DEF ClientDies, TypeInv, TypeOK, ReadyHasId, Phase, Replica, serverVars
  <2> QED
    BY <2>1, <2>2
<1>9. /\ listen' \in [Server -> Name \cup {NoName}]
      /\ function_map' \in [Server -> SUBSET Func]
      /\ notices' \in [Server -> Nat]
      /\ usurped' \subseteq Server
  <2>1. CASE p \in Server /\ ServerDies(p)
    BY <2>1 DEF ServerDies, TypeInv, TypeOK
  <2>2. CASE p \in Client /\ ClientDies(p)
    BY <2>2 DEF ClientDies, TypeInv, TypeOK, serverVars
  <2> QED
    BY <2>1, <2>2
<1> QED
  BY <1>1, <1>3, <1>4, <1>5, <1>6, <1>7, <1>8, <1>9
     DEF Die, TypeInv, TypeOK, binderVars

(* The library calls of a server, and its reading of requests and notices. *)
LEMMA ServerStepTypes ==
  ASSUME TypeInv, NEW s \in Server, ServerStep(s)
  PROVE  TypeInv'
<1>1. \A c \in Conn : conn[c] \in Connection /\ MessageOK(conn[c], server_id)
  BY DEF TypeInv, TypeOK, MessagesOK
<1>2. s \in Replica /\ Binder \in Process
  BY DEF Replica, Process
<1>3. ASSUME NEW n \in Name, RpcInit(s, n) PROVE TypeInv'
  <2> DEFINE r == Request("I_AM_SERVER", s, Binder)
             k == [r EXCEPT !.name = n]
  <2>1. r \in Connection
    BY <1>2, RequestType DEF MessageType
  <2>2. r.state = "request" /\ r.type = "I_AM_SERVER"
    BY DEF Request
  <2>3. k \in Connection /\ MessageOK(k, server_id)
    <3> HIDE DEF r
    <3> QED
      BY <2>1, <2>2 DEF Connection, MessageOK
  <2>4. PICK m \in Conn : conn' = [conn EXCEPT ![m] = k]
    BY <1>3 DEF RpcInit
  <2>5. server_id' = server_id
    BY <1>3 DEF RpcInit
  <2>6. conn' \in [Conn -> Connection] /\ MessagesOK'
    <3> HIDE DEF k
    <3> QED
      BY <2>3, <2>4, <2>5, OneMessage
  <2>7. phase' \in [Replica -> Phase] /\ ReadyHasId'
    BY <1>3, NextPhase DEF RpcInit, Phase, serverVars
  <2> QED
    BY <1>3, <2>6, <2>7 DEF RpcInit, TypeInv, TypeOK, binderVars
<1>4. ASSUME NEW f \in Func, RpcRegister(s, f) PROVE TypeInv'
  <2> DEFINE r == Request("REGISTER", s, Binder)
             k == [r EXCEPT !.id = server_id[s], !.func = f]
  <2>1. r \in Connection
    BY <1>2, RequestType DEF MessageType
  <2>2. r.state = "request" /\ r.type = "REGISTER" /\ r.src = s
    BY DEF Request
  <2>3. server_id[s] \in Id
    BY <1>4 DEF RpcRegister, TypeInv, ReadyHasId
  <2>4. k \in Connection /\ MessageOK(k, server_id)
    <3> HIDE DEF r
    <3> QED
      BY <2>1, <2>2, <2>3 DEF Connection, MessageOK
  <2>5. PICK m \in Conn : conn' = [conn EXCEPT ![m] = k]
    BY <1>4 DEF RpcRegister
  <2>6. server_id' = server_id
    BY <1>4 DEF RpcRegister, serverVars
  <2>7. conn' \in [Conn -> Connection] /\ MessagesOK'
    <3> HIDE DEF k
    <3> QED
      BY <2>4, <2>5, <2>6, OneMessage
  <2>8. phase' \in [Replica -> Phase] /\ ReadyHasId'
    BY <1>4, NextPhase DEF RpcRegister, Phase, serverVars
  <2> QED
    BY <1>4, <2>7, <2>8 DEF RpcRegister, TypeInv, TypeOK, binderVars, serverVars
<1>5. CASE RpcExecute(s)
  <2> DEFINE r == Request("NEW_SERVER_EXECUTE", s, Binder)
             k == Notification("NEW_SERVER_EXECUTE", s, Binder)
  <2>1. r \in Connection
    BY <1>2, RequestType DEF MessageType
  <2>2. r.state = "request" /\ r.type = "NEW_SERVER_EXECUTE"
    BY DEF Request
  <2>3. k = [r EXCEPT !.src = Nobody]
    BY DEF Notification
  <2>4. k \in Connection /\ MessageOK(k, server_id)
    <3> HIDE DEF r
    <3> QED
      BY <2>1, <2>2, <2>3 DEF Connection, MessageOK
  <2>5. PICK m \in Conn : conn' = [conn EXCEPT ![m] = k]
    BY <1>5 DEF RpcExecute
  <2>6. server_id' = server_id
    BY <1>5 DEF RpcExecute, serverVars
  <2>7. conn' \in [Conn -> Connection] /\ MessagesOK'
    <3> HIDE DEF k
    <3> QED
      BY <2>4, <2>5, <2>6, OneMessage
  <2>8. phase' \in [Replica -> Phase] /\ ReadyHasId'
    BY <1>5, NextPhase DEF RpcExecute, Phase, serverVars
  <2> QED
    BY <1>5, <2>7, <2>8 DEF RpcExecute, TypeInv, TypeOK, binderVars, serverVars
<1>6. CASE RpcExecuteWithoutRegister(s)
  <2>1. phase' \in [Replica -> Phase] /\ ReadyHasId'
    BY <1>6, NextPhase DEF RpcExecuteWithoutRegister, Phase, serverVars
  <2>2. MessagesOK'
    BY <1>6 DEF RpcExecuteWithoutRegister, TypeInv, MessagesOK, MessageOK, serverVars
  <2> QED
    BY <1>6, <2>1, <2>2
       DEF RpcExecuteWithoutRegister, TypeInv, TypeOK, binderVars, serverVars
<1>7. CASE NewServerExecute(s)
  <2>1. PICK m \in Conn :
          /\ conn' = [conn EXCEPT ![m] = Request("ASK_NS_UPDATE", s, Binder)]
          /\ waits' = [waits EXCEPT ![s] = Append(@, m)]
    BY <1>7 DEF NewServerExecute
  <2> DEFINE k == Request("ASK_NS_UPDATE", s, Binder)
  <2>2. k \in Connection /\ MessageOK(k, server_id)
    <3>1. k \in Connection
      BY RequestType DEF Replica, Process, MessageType
    <3> QED
      BY <3>1 DEF Request, MessageOK
  <2>3. conn' \in [Conn -> Connection] /\ MessagesOK'
    <3>1. server_id' = server_id
      BY <1>7 DEF NewServerExecute
    <3> QED
      BY <2>1, <2>2, <3>1, OneMessage
  <2>4. waits' \in [Replica -> Seq(Conn)]
    <3>1. waits \in [Replica -> Seq(Conn)] /\ s \in Replica
      BY DEF TypeInv, TypeOK, Replica
    <3> QED
      BY <2>1, <3>1
  <2>5. notices' \in [Server -> Nat]
    BY <1>7 DEF NewServerExecute, TypeInv, TypeOK
  <2> QED
    BY <1>7, <2>3, <2>4, <2>5 DEF NewServerExecute, TypeInv, TypeOK, ReadyHasId, binderVars
<1>8. ASSUME NEW c \in Conn, AcceptExecute(c, s) PROVE TypeInv'
  <2> DEFINE k == [conn[c] EXCEPT !.state = "running"]
  <2>1. conn[c].type = "EXECUTE" /\ conn[c].dst = s
    BY <1>8 DEF AcceptExecute, Execute
  <2>2. k \in Connection /\ MessageOK(k, server_id)
    BY <1>1, <2>1 DEF Connection, MessageOK
  <2>3. conn' = [conn EXCEPT ![c] = k] /\ server_id' = server_id
    BY <1>8 DEF AcceptExecute, serverVars
  <2>4. conn' \in [Conn -> Connection] /\ MessagesOK'
    <3> HIDE DEF k
    <3> QED
      BY <2>2, <2>3, OneMessage
  <2> QED
    BY <1>8, <2>4 DEF AcceptExecute, TypeInv, TypeOK, ReadyHasId, binderVars, serverVars
<1>9. ASSUME NEW c \in Conn, RefuseExecute(c, s) PROVE TypeInv'
  <2> DEFINE k == Replied(conn[c], "EXECUTE_REPLY", NoId, ns[s])
  <2>1. ns[s] \in Directories
    BY DEF TypeInv, TypeOK, Process, Replica
  <2>2. k \in Connection /\ MessageOK(k, server_id)
    BY <1>1, <2>1, RepliedOK DEF MessageType
  <2>3. conn' = [conn EXCEPT ![c] = k] /\ server_id' = server_id
    BY <1>9 DEF RefuseExecute, Answer, serverVars
  <2> HIDE DEF k
  <2>4. conn' \in [Conn -> Connection] /\ MessagesOK'
    BY <2>2, <2>3, OneMessage
  <2>5. phase' \in [Replica -> Phase] /\ ReadyHasId'
    BY <1>9, <2>3, NextPhase DEF RefuseExecute, Phase
  <2> QED
    BY <1>9, <2>4, <2>5 DEF RefuseExecute, TypeInv, TypeOK, binderVars, serverVars
<1>10. ASSUME NEW c \in Conn, DropOtherRequest(c, s) PROVE TypeInv'
  <2>1. conn' \in [Conn -> Connection] /\ MessagesOK'
    BY <1>1, <1>10, RemainsOK, OneMessage DEF DropOtherRequest, serverVars
  <2> QED
    BY <1>10, <2>1 DEF DropOtherRequest, TypeInv, TypeOK, ReadyHasId, serverVars, binderVars
<1>11. ServerDies(s) => TypeInv'
  BY DeathTypes DEF Replica
<1> QED
  BY <1>3, <1>4, <1>5, <1>6, <1>7, <1>8, <1>9, <1>10, <1>11 DEF ServerStep

(* The calls of a client. *)
LEMMA ClientStepTypes ==
  ASSUME TypeInv, NEW p \in Client, ClientStep(p)
  PROVE  TypeInv'
<1>1. p \in Replica /\ Binder \in Process
  BY DEF Replica, Process
<1>2. ASSUME NEW f \in Func, RpcCall(p, f) PROVE TypeInv'
  <2> DEFINE r == Request("LOC_REQUEST", p, Binder)
             k == [r EXCEPT !.func = f]
  <2>1. r \in Connection
    BY <1>1, RequestType DEF MessageType
  <2>2. r.state = "request" /\ r.type = "LOC_REQUEST"
    BY DEF Request
  <2>3. k \in Connection /\ MessageOK(k, server_id)
    <3> HIDE DEF r
    <3> QED
      BY <2>1, <2>2 DEF Connection, MessageOK
  <2>4. PICK m \in Conn : conn' = [conn EXCEPT ![m] = k]
    BY <1>2 DEF RpcCall
  <2>5. server_id' = server_id
    BY <1>2 DEF RpcCall, serverVars
  <2>6. conn' \in [Conn -> Connection] /\ MessagesOK'
    <3> HIDE DEF k
    <3> QED
      BY <2>3, <2>4, <2>5, OneMessage
  <2>7. phase' \in [Replica -> Phase] /\ ReadyHasId'
    BY <1>2, NextPhase DEF RpcCall, Phase, serverVars
  <2> QED
    BY <1>2, <2>6, <2>7 DEF RpcCall, TypeInv, TypeOK, binderVars, serverVars
<1>3. ClientDies(p) => TypeInv'
  BY DeathTypes DEF Replica
<1> QED
  BY <1>2, <1>3 DEF ClientStep

(* Receiving a reply, and the reply of a worker. *)
LEMMA ReceiveTypes ==
  ASSUME TypeInv, NEW c \in Conn, Receive(c)
  PROVE  TypeInv'
<1>1. conn[c] \in Connection /\ MessageOK(conn[c], server_id)
  BY DEF TypeInv, TypeOK, MessagesOK
<1>2. Receiving(c) => conn[c].src \in Replica
  BY <1>1 DEF Receiving, MessageOK
<1>3. CASE ApplyLogs(c)
  <2> DEFINE k == [conn[c] EXCEPT !.state = "applying", !.delta = Tail(conn[c].delta)]
  <2>1. conn[c].src \in Replica /\ conn[c].delta \in Seq(LogItem) /\ conn[c].delta # <<>>
    BY <1>1, <1>2, <1>3 DEF ApplyLogs, Connection
  <2>2. Head(conn[c].delta) \in LogItem /\ Tail(conn[c].delta) \in Seq(LogItem)
    BY <2>1
  <2>3. k \in Connection /\ MessageOK(k, server_id)
    <3> DEFINE tail == Tail(conn[c].delta)
    <3>1. tail \in Seq(LogItem)
      BY <2>2
    <3> HIDE DEF tail
    <3>2. [conn[c] EXCEPT !.state = "applying", !.delta = tail] \in Connection
      BY <1>1, <3>1 DEF Connection
    <3>3. MessageOK([conn[c] EXCEPT !.state = "applying", !.delta = tail], server_id)
      BY <1>1, <2>1 DEF Connection, MessageOK
    <3> QED
      BY <3>2, <3>3 DEF tail
  <2>4. ns' \in [Process -> Directories]
    <3>1. ns \in [Process -> Directories] /\ ns[conn[c].src] \in Directories
      BY <2>1 DEF TypeInv, TypeOK, Process
    <3>2. ApplyItem(ns[conn[c].src], Head(conn[c].delta)) \in Directories
      BY <2>2, <3>1, ApplyItemType
    <3> QED
      BY <1>3, <3>1, <3>2 DEF ApplyLogs
  <2>5. conn' = [conn EXCEPT ![c] = k] /\ server_id' = server_id
    BY <1>3 DEF ApplyLogs, serverVars
  <2>6. conn' \in [Conn -> Connection] /\ MessagesOK'
    <3> HIDE DEF k
    <3> QED
      BY <2>3, <2>5, OneMessage
  <2> QED
    BY <1>3, <2>4, <2>6 DEF ApplyLogs, TypeInv, TypeOK, ReadyHasId, serverVars, binderVars
<1>4. CASE UpdateDone(c)
  <2> DEFINE spent == [conn[c] EXCEPT !.state = "spent"]
  <2>1. conn[c].src \in Replica
    BY <1>2, <1>4 DEF UpdateDone, Received
  <2>2. \A m \in Conn : conn'[m] \in {spent, Closed, conn[m], Abandoned(conn[m])}
    BY <1>4 DEF UpdateDone
  <2>3. \A m \in Conn : conn'[m] \in Connection /\ MessageOK(conn'[m], server_id)
    <3> TAKE m \in Conn
    <3>1. conn[m] \in Connection /\ MessageOK(conn[m], server_id)
      BY DEF TypeInv, TypeOK, MessagesOK
    <3> QED
      BY <1>1, <2>2, <3>1, RemainsOK, ClosedType
  <2>4. conn' = [m \in Conn |-> conn'[m]]
    BY <1>4 DEF UpdateDone
  <2>5. conn' \in [Conn -> Connection]
    BY <2>3, <2>4
  <2>6. waits' \in [Replica -> Seq(Conn)]
    <3>1. waits[conn[c].src] \in Seq(Conn) /\ waits \in [Replica -> Seq(Conn)]
      BY <2>1 DEF TypeInv, TypeOK
    <3>2. SubSeq(waits[conn[c].src], 1, Len(waits[conn[c].src]) - 1) \in Seq(Conn)
      BY <3>1
    <3> QED
      BY <1>4, <3>1, <3>2 DEF UpdateDone
  <2> QED
    BY <1>4, <2>3, <2>5, <2>6
       DEF UpdateDone, TypeInv, TypeOK, MessagesOK, ReadyHasId, serverVars, binderVars
<1>5. CASE RpcInitDone(c)
  <2>1. conn[c].id \in Id
    BY <1>1, <1>5 DEF RpcInitDone, Received, MessageOK
  <2>2. \A ids : MessageOK(Closed, ids)
    BY ClosedType
  <2>3. server_id' \in [Server -> Id \cup {NoId}]
        /\ \A t \in Server : server_id[t] \in Id => server_id'[t] \in Id
    BY <1>5, <2>1 DEF RpcInitDone, TypeInv, TypeOK
  <2>4. conn' \in [Conn -> Connection]
    BY <1>5, ClosedType DEF RpcInitDone, TypeInv, TypeOK
  <2>5. MessagesOK'
    <3> SUFFICES ASSUME NEW m \in Conn PROVE MessageOK(conn[m], server_id)'
      BY DEF MessagesOK
    <3>1. MessageOK(conn[m], server_id')
      BY <2>3 DEF TypeInv, MessagesOK, MessageOK
    <3>2. conn'[m] \in {conn[m], Closed}
      BY <1>5 DEF RpcInitDone, TypeInv, TypeOK
    <3>3. MessageOK(Closed, server_id')
      BY <2>2
    <3> QED
      BY <3>1, <3>2, <3>3 DEF MessageOK
  <2>6. ReadyHasId'
    BY <1>5, <2>1, <2>3 DEF RpcInitDone, TypeInv, TypeOK, ReadyHasId, Replica
  <2> QED
    BY <1>5, <2>3, <2>4, <2>5, <2>6 DEF RpcInitDone, TypeInv, TypeOK, Phase, binderVars
<1>6. CASE RpcRegisterDone(c)
  <2> DEFINE t == conn[c].src
  <2>1. conn[c].func \in Func /\ (t \in Server => server_id[t] \in Id)
    BY <1>1, <1>6 DEF RpcRegisterDone, Received, MessageOK
  <2>2. server_id' = server_id
    BY <1>6 DEF RpcRegisterDone
  <2>3. conn' \in [Conn -> Connection] /\ MessagesOK'
    BY <1>6, <2>2, ClosedType, OneMessage DEF RpcRegisterDone
  <2>4. function_map' \in [Server -> SUBSET Func]
    BY <1>6, <2>1 DEF RpcRegisterDone, TypeInv, TypeOK
  <2>5. ReadyHasId'
    BY <1>6, <2>1, <2>2 DEF RpcRegisterDone, TypeInv, TypeOK, ReadyHasId, Replica
  <2> QED
    BY <1>6, <2>2, <2>3, <2>4, <2>5
       DEF RpcRegisterDone, TypeInv, TypeOK, Phase, binderVars
<1>7. CASE WorkerReply(c)
  <2> DEFINE k == Replied(conn[c], "EXECUTE_REPLY", NoId, ns[conn[c].dst])
  <2>1. conn[c].dst \in Server
    BY <1>1, <1>7 DEF WorkerReply, MessageOK
  <2>2. ns[conn[c].dst] \in Directories
    BY <2>1 DEF TypeInv, TypeOK, Process, Replica
  <2>3. k \in Connection /\ MessageOK(k, server_id)
    BY <1>1, <2>2, RepliedOK DEF MessageType
  <2>4. conn' = [conn EXCEPT ![c] = k] /\ server_id' = server_id
    BY <1>7 DEF WorkerReply, Answer, serverVars
  <2> HIDE DEF k
  <2>5. conn' \in [Conn -> Connection] /\ MessagesOK'
    BY <2>3, <2>4, OneMessage
  <2> QED
    BY <1>7, <2>5 DEF WorkerReply, TypeInv, TypeOK, ReadyHasId, binderVars, serverVars
<1>8. ASSUME NEW s \in Server, RpcCallHelper(c, s) PROVE TypeInv'
  <2> DEFINE r == Request("EXECUTE", conn[c].src, s)
             k == [r EXCEPT !.func = conn[c].func]
  <2>1. conn[c].src \in Replica
    BY <1>1, <1>8 DEF RpcCallHelper, Located, Received, Receiving, MessageOK
  <2>2. r \in Connection
    BY <2>1, RequestType DEF MessageType, Process, Replica
  <2>3. r.state = "request" /\ r.type = "EXECUTE"
    BY DEF Request
  <2>4. k \in Connection /\ MessageOK(k, server_id)
    <3>1. conn[c].func \in Func \cup {NoFunc}
      BY <1>1 DEF Connection
    <3> HIDE DEF r
    <3> QED
      BY <2>2, <2>3, <3>1 DEF Connection, MessageOK
  <2>5. conn' = [conn EXCEPT ![c] = k] /\ server_id' = server_id
    BY <1>8 DEF RpcCallHelper, serverVars
  <2>6. conn' \in [Conn -> Connection] /\ MessagesOK'
    <3> HIDE DEF k
    <3> QED
      BY <2>4, <2>5, OneMessage
  <2>7. phase' \in [Replica -> Phase] /\ ReadyHasId'
    BY <1>8, NextPhase DEF RpcCallHelper, Phase, serverVars
  <2> QED
    BY <1>8, <2>6, <2>7 DEF RpcCallHelper, TypeInv, TypeOK, binderVars, serverVars
<1>9. CASE RpcCallFails(c) \/ RpcCallDone(c) \/ RemoteDisconnected(c)
  <2>1. /\ conn' = [conn EXCEPT ![c] = Closed]
        /\ phase' = [phase EXCEPT ![conn[c].src] = "idle"]
        /\ UNCHANGED <<ns, binderVars, waits, serverVars>>
    BY <1>9 DEF RpcCallFails, RpcCallDone, RemoteDisconnected
  <2>2. conn' \in [Conn -> Connection] /\ MessagesOK'
    BY <2>1, ClosedType, OneMessage DEF serverVars
  <2>3. phase' \in [Replica -> Phase] /\ ReadyHasId'
    BY <2>1, NextPhase DEF Phase, serverVars
  <2> QED
    BY <2>1, <2>2, <2>3 DEF TypeInv, TypeOK, binderVars, serverVars
<1> QED
  BY <1>3, <1>4, <1>5, <1>6, <1>7, <1>8, <1>9 DEF Receive

(* An unserved announcement takes a fresh id that is in range. *)
LEMMA FreshIdType == ASSUME TypeInv, next_u32 < MaxId PROVE next_u32 \in Id
BY NameServiceAssumption DEF TypeInv, TypeOK, Id

(* The binder picks up a request. *)
LEMMA HandleTypes ==
  ASSUME TypeInv, NEW c \in Conn, Handle(c)
  PROVE  TypeInv'
<1>1. conn[c] \in Connection /\ MessageOK(conn[c], server_id)
  BY DEF TypeInv, TypeOK, MessagesOK
<1>2. ns[Binder] \in Directories /\ ns \in [Process -> Directories]
  BY DEF TypeInv, TypeOK, Process
<1>3. CASE HandleIAmServer(c)
  <2> DEFINE old == KillOldRecord(ns[Binder], conn[c].name)
             d == RegisterName(old, next_u32, conn[c].name)
             k == Replied(conn[c], "SERVER_OK", next_u32, d)
  <2>1. conn[c].type = "I_AM_SERVER" /\ conn[c].name \in Name
    BY <1>1, <1>3 DEF HandleIAmServer, HandleRequest, MessageOK
  <2>2. next_u32 \in Id /\ next_u32 + 1 \in 0 .. MaxId
    <3>1. next_u32 < MaxId
      BY <1>3 DEF HandleIAmServer
    <3> QED
      BY <3>1, FreshIdType, NameServiceAssumption DEF TypeInv, TypeOK
  <2>3. old \in Directories
    <3>1. ns[Binder].name_to_id[conn[c].name] \in Id \cup {NoId}
      BY <1>2, <2>1 DEF Directories
    <3> QED
      BY <1>2, <3>1, KillType DEF KillOldRecord
  <2>4. d \in Directories
    BY <2>1, <2>2, <2>3, RegisterNameType
  <2>5. k \in Connection /\ MessageOK(k, server_id)
    BY <1>1, <2>2, <2>4, RepliedOK DEF MessageType
  <2>6. /\ conn' = [conn EXCEPT ![c] = k] /\ ns' = [ns EXCEPT ![Binder] = d]
        /\ next_u32' = next_u32 + 1
        /\ usurped' = usurped \cup Usurped(c)
        /\ UNCHANGED <<serving, all_names, phase, waits, listen, server_id, function_map,
                       notices>>
    BY <1>3 DEF HandleIAmServer, Answer
  <2> HIDE DEF k, d
  <2>7. conn' \in [Conn -> Connection] /\ MessagesOK'
    BY <2>5, <2>6, OneMessage
  <2>8. usurped' \subseteq Server
    BY <2>6 DEF Usurped, TypeInv, TypeOK
  <2> QED
    BY <1>2, <2>2, <2>4, <2>6, <2>7, <2>8 DEF TypeInv, TypeOK, ReadyHasId
<1>4. CASE HandleRegister(c)
  <2> DEFINE d == RegisterFn(ns[Binder], conn[c].id, conn[c].func)
             k == Replied(conn[c], "REGISTER_DONE", NoId, d)
  <2>1. conn[c].type = "REGISTER" /\ conn[c].id \in Id /\ conn[c].func \in Func
    BY <1>1, <1>4 DEF HandleRegister, HandleRequest, MessageOK
  <2>2. d \in Directories
    BY <1>2, <2>1, RegisterFnType
  <2>3. k \in Connection /\ MessageOK(k, server_id)
    BY <1>1, <2>1, <2>2, RepliedOK DEF MessageType
  <2>4. /\ conn' = [conn EXCEPT ![c] = k] /\ ns' = [ns EXCEPT ![Binder] = d]
        /\ UNCHANGED <<binderVars, phase, waits, serverVars>>
    BY <1>4 DEF HandleRegister, Answer
  <2> HIDE DEF k, d
  <2>5. conn' \in [Conn -> Connection] /\ MessagesOK'
    BY <2>3, <2>4, OneMessage DEF serverVars
  <2> QED
    BY <1>2, <2>2, <2>4, <2>5 DEF TypeInv, TypeOK, ReadyHasId, binderVars, serverVars
<1>5. CASE HandleAskNsUpdate(c)
  <2> DEFINE k == Replied(conn[c], "NS_UPDATE_SENT", NoId, ns[Binder])
  <2>1. k \in Connection /\ MessageOK(k, server_id)
    BY <1>1, <1>2, RepliedOK DEF MessageType
  <2>2. /\ conn' = [conn EXCEPT ![c] = k]
        /\ UNCHANGED <<ns, binderVars, phase, waits, serverVars>>
    BY <1>5 DEF HandleAskNsUpdate, Answer
  <2> HIDE DEF k
  <2>3. conn' \in [Conn -> Connection] /\ MessagesOK'
    BY <2>1, <2>2, OneMessage DEF serverVars
  <2> QED
    BY <2>2, <2>3 DEF TypeInv, TypeOK, ReadyHasId, binderVars, serverVars
<1>6. CASE HandleLocRequest(c)
  <2>1. MessagesOK'
    BY <1>6 DEF HandleLocRequest, TypeInv, MessagesOK, MessageOK, serverVars
  <2> QED
    BY <1>6, <2>1 DEF HandleLocRequest, TypeInv, TypeOK, ReadyHasId, serverVars
<1>7. CASE HandleNewServerExecute(c)
  <2>1. MessagesOK'
    BY <1>7 DEF HandleNewServerExecute, TypeInv, MessagesOK, MessageOK, serverVars
  <2>2. all_names' \subseteq Name
    BY <1>7 DEF HandleNewServerExecute
  <2> QED
    BY <1>7, <2>1, <2>2 DEF HandleNewServerExecute, TypeInv, TypeOK, ReadyHasId, serverVars
<1>8. CASE PeerUnknown(c)
  <2>1. conn' \in [Conn -> Connection] /\ MessagesOK'
    BY <1>8, ClosedType, OneMessage DEF PeerUnknown, serverVars
  <2> QED
    BY <1>8, <2>1 DEF PeerUnknown, TypeInv, TypeOK, ReadyHasId, binderVars, serverVars
<1> QED
  BY <1>3, <1>4, <1>5, <1>6, <1>7, <1>8 DEF Handle

(* The binder goes on with a request. *)
LEMMA ServeTypes ==
  ASSUME TypeInv, NEW c \in Conn, Serve(c)
  PROVE  TypeInv'
<1> DEFINE f == conn[c].func
<1>1. conn[c] \in Connection /\ MessageOK(conn[c], server_id)
  BY DEF TypeInv, TypeOK, MessagesOK
<1>2. ns[Binder] \in Directories /\ ns \in [Process -> Directories]
  BY DEF TypeInv, TypeOK, Process
<1>3. Suggesting(c) => f \in Func
  BY <1>1 DEF Suggesting, MessageOK
<1>4. CASE NoSuggestion(c)
  <2> DEFINE k == Replied(conn[c], "LOC_REPLY", NoId, ns[Binder])
  <2>1. k \in Connection /\ MessageOK(k, server_id)
    BY <1>1, <1>2, RepliedOK DEF MessageType
  <2>2. /\ conn' = [conn EXCEPT ![c] = k] /\ serving' = NoConn
        /\ UNCHANGED <<ns, all_names, next_u32, phase, waits, serverVars>>
    BY <1>4 DEF NoSuggestion, Answer
  <2> HIDE DEF k
  <2>3. conn' \in [Conn -> Connection] /\ MessagesOK'
    BY <2>1, <2>2, OneMessage DEF serverVars
  <2> QED
    BY <2>2, <2>3 DEF TypeInv, TypeOK, ReadyHasId, serverVars
<1>5. CASE NotifyDone(c)
  <2>1. conn' \in [Conn -> Connection] /\ MessagesOK'
    BY <1>5, ClosedType, OneMessage DEF NotifyDone, serverVars
  <2> QED
    BY <1>5, <2>1 DEF NotifyDone, TypeInv, TypeOK, ReadyHasId, serverVars
<1>6. ASSUME NEW id \in Id, SkipUnresolvable(c, id) \/ KillCandidate(c, id)
      PROVE  TypeInv'
  <2>1. f \in Func
    BY <1>3, <1>6 DEF SkipUnresolvable, KillCandidate, Candidate
  <2>2. PICK d \in Directories : ns' = [ns EXCEPT ![Binder] = d]
    <3>1. EraseCandidate(ns[Binder], f, id) \in Directories
      BY <1>2, <2>1, EraseCandidateType
    <3>2. EraseCandidate(Kill(ns[Binder], id), f, id) \in Directories
      BY <1>2, <2>1, KillType, EraseCandidateType
    <3> QED
      BY <1>6, <3>1, <3>2 DEF SkipUnresolvable, KillCandidate
  <2>3. UNCHANGED <<conn, binderVars, phase, waits, serverVars>>
    BY <1>6 DEF SkipUnresolvable, KillCandidate
  <2>4. MessagesOK'
    BY <2>3 DEF TypeInv, MessagesOK, MessageOK, serverVars
  <2> QED
    BY <1>2, <2>2, <2>3, <2>4 DEF TypeInv, TypeOK, ReadyHasId, binderVars, serverVars
<1>7. ASSUME NEW id \in Id, Suggest(c, id)
      PROVE  TypeInv'
  <2> DEFINE d == MovePivot(ns[Binder], f, NextPivot(ns[Binder], f))
             k == Replied(conn[c], "LOC_REPLY", id, ns[Binder])
  <2>1. f \in Func /\ id \in ns[Binder].func_to_ids[f]
    BY <1>3, <1>7 DEF Suggest, Candidate
  <2>2. NextPivot(ns[Binder], f) \in 0 .. MaxId
    BY <1>2, <2>1, NextPivotType
  <2>3. d \in Directories
    BY <1>2, <2>1, <2>2, MovePivotType
  <2>4. k \in Connection /\ MessageOK(k, server_id)
    BY <1>1, <1>2, RepliedOK DEF MessageType
  <2>5. /\ conn' = [conn EXCEPT ![c] = k] /\ ns' = [ns EXCEPT ![Binder] = d]
        /\ serving' = NoConn
        /\ UNCHANGED <<all_names, next_u32, phase, waits, serverVars>>
    BY <1>7 DEF Suggest, Answer
  <2> HIDE DEF k, d
  <2>6. conn' \in [Conn -> Connection] /\ MessagesOK'
    BY <2>4, <2>5, OneMessage DEF serverVars
  <2> QED
    BY <1>2, <2>3, <2>5, <2>6 DEF TypeInv, TypeOK, ReadyHasId, serverVars
<1>8. ASSUME NEW n \in Name, KillDeadServer(c, n)
      PROVE  TypeInv'
  <2> DEFINE i == ns[Binder].name_to_id[n]
             d == IF i = NoId THEN ns[Binder] ELSE Kill(ns[Binder], i)
  <2>1. d \in Directories
    <3>1. i \in Id \cup {NoId}
      BY <1>2 DEF Directories
    <3> QED
      BY <1>2, <3>1, KillType
  <2>2. /\ ns' = [ns EXCEPT ![Binder] = d] /\ all_names' = all_names \ {n}
        /\ UNCHANGED <<conn, serving, next_u32, phase, waits, serverVars>>
    BY <1>8 DEF KillDeadServer, NotifyNext
  <2> HIDE DEF d
  <2>3. MessagesOK'
    BY <2>2 DEF TypeInv, MessagesOK, MessageOK, serverVars
  <2> QED
    BY <1>2, <2>1, <2>2, <2>3 DEF TypeInv, TypeOK, ReadyHasId, serverVars
<1>9. ASSUME NEW n \in Name, NEW s \in Server, NotifyServer(c, n, s)
      PROVE  TypeInv'
  <2>1. MessagesOK'
    BY <1>9 DEF NotifyServer, TypeInv, MessagesOK, MessageOK
  <2>2. notices' \in [Server -> Nat] /\ all_names' \subseteq Name
    BY <1>9 DEF NotifyServer, NotifyNext, TypeInv, TypeOK
  <2> QED
    BY <1>9, <2>1, <2>2 DEF NotifyServer, TypeInv, TypeOK, ReadyHasId
<1> QED
  BY <1>4, <1>5, <1>6, <1>7, <1>8, <1>9 DEF Serve

(* The initial state has the types. *)
LEMMA TypeInit == Init => TypeInv
<1> SUFFICES ASSUME Init PROVE TypeInv
  OBVIOUS
<1>1. ns \in [Process -> Directories]
  BY EmptyType DEF Init
<1>2. conn \in [Conn -> Connection] /\ MessagesOK
  BY ClosedType DEF Init, MessagesOK
<1>3. next_u32 \in 0 .. MaxId
  BY NameServiceAssumption DEF Init
<1>4. waits \in [Replica -> Seq(Conn)]
  BY DEF Init
<1>5. phase \in [Replica -> Phase] /\ ReadyHasId
  BY DEF Init, Phase, ReadyHasId, Replica
<1> QED
  BY <1>1, <1>2, <1>3, <1>4, <1>5 DEF Init, TypeInv, TypeOK

(* Every step keeps the types. *)
LEMMA TypeStep == TypeInv /\ [Next]_vars => TypeInv'
<1> SUFFICES ASSUME TypeInv, [Next]_vars PROVE TypeInv'
  OBVIOUS
<1>1. CASE UNCHANGED vars
  BY <1>1 DEF vars, serverVars, binderVars, TypeInv, TypeOK, MessagesOK, MessageOK,
              ReadyHasId
<1>2. CASE Next
  BY <1>2, ServerStepTypes, ClientStepTypes, ReceiveTypes, HandleTypes, ServeTypes
     DEF Next
<1> QED
  BY <1>1, <1>2

(* Every variable and every message has its type in every state, for any   *)
(* number of processes, connections, names, functions and ids.             *)
THEOREM TypeCorrect == Spec => []TypeOK
<1>1. Spec => []TypeInv
  BY TypeInit, TypeStep, PTL DEF Spec
<1> QED
  BY <1>1, PTL DEF TypeInv

-----------------------------------------------------------------------------
(* Names and logs.  That a replica has a prefix of the binder's log and     *)
(* follows it is not inductive: it rests on what the messages under way     *)
(* carry, on the legality of the binder's own entries, and on ids being     *)
(* handed out once.                                                         *)

(* A message says no more than its sender had, and a reply carries entries  *)
(* of the binder's log that start no later than its reader's log ends.      *)
SentTo(k, dirs) ==
  k.src \in Replica =>
    /\ k.ver <= Len(dirs[k.src].logs)
    /\ \E since \in 0 .. Len(dirs[k.src].logs) :
         Slice(k.delta, since, dirs[Binder].logs)

MessagesSent == \A c \in Conn : SentTo(conn[c], ns)

LogInv ==
  /\ NamesFollowLog
  /\ ReplicaPrefix
  /\ WellFormed(ns[Binder].logs)
  /\ Fresh(ns[Binder].logs, next_u32)
  /\ MessagesSent

(* A closed connection carries nothing. *)
LEMMA SentClosed == ASSUME NEW dirs PROVE SentTo(Closed, dirs)
BY ClosedType, DirectoryAssumption DEF SentTo, Process

(* A message keeps its place when only its state or kind changes, or when   *)
(* nobody waits for it any more.                                            *)
LEMMA SentSame ==
  ASSUME NEW k, NEW m, NEW dirs, SentTo(k, dirs),
         m.src = Nobody \/ (m.src = k.src /\ m.ver = k.ver /\ m.delta = k.delta)
  PROVE  SentTo(m, dirs)
BY DirectoryAssumption DEF SentTo, Process

(* A request has its sender's version and no entries. *)
LEMMA SentRequest ==
  ASSUME TypeInv, NEW k, k.src \in Replica, k.ver = Version(ns[k.src]), k.delta = <<>>
  PROVE  SentTo(k, ns)
<1>1. Len(ns[k.src].logs) \in Nat
  BY DEF TypeInv, TypeOK, Process, Directories
<1>2. Slice(k.delta, 0, ns[Binder].logs)
  BY DEF Slice
<1> QED
  BY <1>1, <1>2 DEF SentTo, Version

(* Messages stay good while the logs grow. *)
LEMMA SentGrows ==
  ASSUME NEW dirs \in [Process -> Directories], NEW next \in [Process -> Directories],
         NEW k \in Connection, SentTo(k, dirs),
         Prefix(dirs[Binder].logs, next[Binder].logs),
         k.src \in Replica => Len(dirs[k.src].logs) <= Len(next[k.src].logs)
  PROVE  SentTo(k, next)
<1> SUFFICES ASSUME k.src \in Replica
             PROVE  /\ k.ver <= Len(next[k.src].logs)
                    /\ \E since \in 0 .. Len(next[k.src].logs) :
                         Slice(k.delta, since, next[Binder].logs)
  BY DEF SentTo
<1>1. Len(dirs[k.src].logs) \in Nat /\ Len(next[k.src].logs) \in Nat
  BY DEF Process, Directories
<1>2. Len(dirs[Binder].logs) \in Nat /\ Len(next[Binder].logs) \in Nat
  BY DEF Process, Directories
<1>3. PICK since \in 0 .. Len(dirs[k.src].logs) :
        Slice(k.delta, since, dirs[Binder].logs)
  BY DEF SentTo
<1>4. Slice(k.delta, since, next[Binder].logs)
  BY <1>2, <1>3 DEF Slice, Prefix
<1>5. k.ver <= Len(next[k.src].logs)
  <2>1. k.ver \in Nat /\ k.ver <= Len(dirs[k.src].logs)
    BY DEF SentTo, Connection
  <2> QED
    BY <1>1, <2>1
<1> QED
  BY <1>1, <1>3, <1>4, <1>5

(* A reply carries what follows the version it was asked with. *)
LEMMA SentReplied ==
  ASSUME NEW k \in Connection, NEW type \in MessageType, NEW id \in Id \cup {NoId},
         NEW d \in Directories, NEW dirs \in [Process -> Directories],
         SentTo(k, dirs), Prefix(d.logs, dirs[Binder].logs)
  PROVE  SentTo(Replied(k, type, id, d), dirs)
<1>1. CASE k.src = Nobody
  BY <1>1, SentClosed DEF Replied
<1>2. CASE k.src # Nobody
  <2> DEFINE r == Replied(k, type, id, d)
  <2>1. r.src = k.src /\ r.ver = k.ver /\ r.delta = GetLogs(d, k.ver)
    BY <1>2, RepliedType
  <2>2. k.src \in Replica /\ k.ver \in Nat
    BY <1>2 DEF Connection
  <2>3. k.ver <= Len(dirs[k.src].logs) /\ Len(dirs[k.src].logs) \in Nat
    BY <2>2 DEF SentTo, Process, Directories
  <2>4. Slice(GetLogs(d, k.ver), k.ver, dirs[Binder].logs)
    <3>1. \A i \in 1 .. Len(GetLogs(d, k.ver)) :
              /\ GetLogs(d, k.ver)[i].version = k.ver + i
              /\ k.ver + i <= Len(d.logs)
              /\ GetLogs(d, k.ver)[i].entry = d.logs[k.ver + i]
      BY <2>2, GetLogsType
    <3>2. Len(d.logs) <= Len(dirs[Binder].logs)
          /\ \A i \in 1 .. Len(d.logs) : d.logs[i] = dirs[Binder].logs[i]
      BY DEF Prefix
    <3>3. Len(d.logs) \in Nat /\ Len(dirs[Binder].logs) \in Nat
      BY DEF Process, Directories
    <3>4. Len(GetLogs(d, k.ver)) \in Nat
      BY <2>2, GetLogsType
    <3> SUFFICES ASSUME NEW i \in 1 .. Len(GetLogs(d, k.ver))
                 PROVE  /\ GetLogs(d, k.ver)[i].version = k.ver + i
                        /\ k.ver + i <= Len(dirs[Binder].logs)
                        /\ GetLogs(d, k.ver)[i].entry = dirs[Binder].logs[k.ver + i]
      BY DEF Slice
    <3>5. k.ver + i <= Len(d.logs) /\ i \in Nat /\ 1 <= i
      BY <3>1, <3>4
    <3> DEFINE j == k.ver + i
    <3>6. j \in 1 .. Len(d.logs)
      BY <2>2, <3>3, <3>5
    <3>7. /\ GetLogs(d, k.ver)[i].version = j
          /\ GetLogs(d, k.ver)[i].entry = d.logs[j]
      BY <3>1
    <3> HIDE DEF j
    <3>8. j <= Len(dirs[Binder].logs) /\ d.logs[j] = dirs[Binder].logs[j]
      BY <3>2, <3>3, <3>6
    <3> QED
      BY <3>7, <3>8 DEF j
  <2>5. k.ver \in 0 .. Len(dirs[k.src].logs)
    BY <2>2, <2>3
  <2>6. SentTo(r, dirs)
    <3> HIDE DEF r
    <3>1. Slice(r.delta, k.ver, dirs[Binder].logs)
      BY <2>1, <2>4
    <3> QED
      BY <2>1, <2>3, <2>5, <3>1 DEF SentTo
  <2> QED
    BY <2>6
<1> QED
  BY <1>1, <1>2

(* What closing, dropping or losing a peer leaves is good too. *)
LEMMA SentRemains ==
  ASSUME NEW k \in Connection, NEW dirs, SentTo(k, dirs), NEW p
  PROVE  /\ SentTo(Abandoned(k), dirs)
         /\ SentTo(Dropped(k), dirs)
         /\ SentTo(AfterDeath(k, p), dirs)
<1> DEFINE left == [k EXCEPT !.src = Nobody]
           stated(st) == [k EXCEPT !.state = st]
<1>1. left.src = Nobody
  BY DEF Connection
<1>2. \A st : stated(st).src = k.src /\ stated(st).ver = k.ver
              /\ stated(st).delta = k.delta
  BY DEF Connection
<1>3. Abandoned(k) \in {Closed, left}
  BY DEF Abandoned
<1>4. Dropped(k) \in {Closed, stated("ignored"), stated("spent")}
  BY DEF Dropped
<1>5. AfterDeath(k, p) \in {Closed, stated("eof"), k, left}
  BY DEF AfterDeath
<1> HIDE DEF left, stated
<1>6. SentTo(Closed, dirs) /\ SentTo(left, dirs) /\ \A st : SentTo(stated(st), dirs)
  BY <1>1, <1>2, SentClosed, SentSame
<1> QED
  BY <1>3, <1>4, <1>5, <1>6

-----------------------------------------------------------------------------
(* The steps, by what they do to the logs: most do nothing, the handlers of *)
(* the binder write, apply_logs catches up and a death starts again.        *)

SentIn(dirs) == \A c \in Conn : SentTo(conn'[c], dirs)

Quiet == ns' = ns /\ next_u32' = next_u32 /\ SentIn(ns)

BinderWrites ==
  \E e : /\ Writes(ns[Binder], e)
         /\ ns' = [ns EXCEPT ![Binder] = e]
         /\ Fresh(e.logs, next_u32')
         /\ SentIn(ns')

(* A step that changes one message. *)
LEMMA OneSent ==
  ASSUME TypeInv, NEW c \in Conn, NEW k, NEW dirs,
         conn' = [conn EXCEPT ![c] = k], SentTo(k, dirs),
         \A m \in Conn : SentTo(conn[m], dirs)
  PROVE  SentIn(dirs)
BY DEF TypeInv, TypeOK, SentIn

(* The binder's log has every log as a prefix, its own included. *)
LEMMA ProcessPrefix ==
  ASSUME TypeInv, LogInv, NEW p \in Process
  PROVE  Prefix(ns[p].logs, ns[Binder].logs)
<1>1. Len(ns[Binder].logs) \in Nat
  BY DEF TypeInv, TypeOK, Process, Directories
<1>2. Prefix(ns[Binder].logs, ns[Binder].logs)
  BY <1>1 DEF Prefix
<1> QED
  BY <1>2 DEF LogInv, ReplicaPrefix, Process

(* No action of a server but its death touches a log. *)
LEMMA ServerStepLogs ==
  ASSUME TypeInv, LogInv, NEW s \in Server, ServerStep(s)
  PROVE  Quiet \/ ServerDies(s)
<1>1. \A c \in Conn : conn[c] \in Connection /\ SentTo(conn[c], ns)
  BY DEF TypeInv, TypeOK, LogInv, MessagesSent
<1>2. s \in Replica /\ s \in Process /\ ns \in [Process -> Directories]
  BY DEF TypeInv, TypeOK, Process, Replica
<1>3. \A type, dst : LET r == Request(type, s, dst) IN
                     r.src = s /\ r.ver = Version(ns[s]) /\ r.delta = <<>>
  BY DEF Request
<1>4. ASSUME NEW n \in Name, RpcInit(s, n) PROVE Quiet
  <2> DEFINE r == Request("I_AM_SERVER", s, Binder)
             k == [r EXCEPT !.name = n]
  <2>1. k.src = r.src /\ k.ver = r.ver /\ k.delta = r.delta
    BY DEF Request
  <2>2. SentTo(k, ns)
    <3> HIDE DEF k
    <3> QED
      BY <1>2, <1>3, <2>1, SentRequest
  <2>3. PICK m \in Conn : conn' = [conn EXCEPT ![m] = k]
    BY <1>4 DEF RpcInit
  <2> HIDE DEF k
  <2> QED
    BY <1>1, <1>4, <2>2, <2>3, OneSent DEF RpcInit, Quiet, binderVars
<1>5. ASSUME NEW f \in Func, RpcRegister(s, f) PROVE Quiet
  <2> DEFINE r == Request("REGISTER", s, Binder)
             k == [r EXCEPT !.id = server_id[s], !.func = f]
  <2>1. k.src = r.src /\ k.ver = r.ver /\ k.delta = r.delta
    BY DEF Request
  <2>2. SentTo(k, ns)
    <3> HIDE DEF k
    <3> QED
      BY <1>2, <1>3, <2>1, SentRequest
  <2>3. PICK m \in Conn : conn' = [conn EXCEPT ![m] = k]
    BY <1>5 DEF RpcRegister
  <2> HIDE DEF k
  <2> QED
    BY <1>1, <1>5, <2>2, <2>3, OneSent DEF RpcRegister, Quiet, binderVars
<1>6. CASE RpcExecute(s)
  <2> DEFINE k == Notification("NEW_SERVER_EXECUTE", s, Binder)
  <2>1. k.src = Nobody
    BY DEF Notification, Request
  <2>2. SentTo(k, ns)
    BY <2>1, DirectoryAssumption DEF SentTo, Process
  <2>3. PICK m \in Conn : conn' = [conn EXCEPT ![m] = k]
    BY <1>6 DEF RpcExecute
  <2> HIDE DEF k
  <2> QED
    BY <1>1, <1>6, <2>2, <2>3, OneSent DEF RpcExecute, Quiet, binderVars
<1>7. CASE RpcExecuteWithoutRegister(s)
  BY <1>1, <1>7 DEF RpcExecuteWithoutRegister, Quiet, SentIn, binderVars
<1>8. CASE NewServerExecute(s)
  <2> DEFINE k == Request("ASK_NS_UPDATE", s, Binder)
  <2>1. SentTo(k, ns)
    BY <1>2, <1>3, SentRequest
  <2>2. PICK m \in Conn : conn' = [conn EXCEPT ![m] = k]
    BY <1>8 DEF NewServerExecute
  <2> HIDE DEF k
  <2> QED
    BY <1>1, <1>8, <2>1, <2>2, OneSent DEF NewServerExecute, Quiet, binderVars
<1>9. ASSUME NEW c \in Conn, AcceptExecute(c, s) PROVE Quiet
  <2> DEFINE k == [conn[c] EXCEPT !.state = "running"]
  <2>1. k.src = conn[c].src /\ k.ver = conn[c].ver /\ k.delta = conn[c].delta
    BY <1>1 DEF Connection
  <2>2. SentTo(k, ns)
    <3> HIDE DEF k
    <3> QED
      BY <1>1, <2>1, SentSame
  <2>3. conn' = [conn EXCEPT ![c] = k]
    BY <1>9 DEF AcceptExecute
  <2> HIDE DEF k
  <2> QED
    BY <1>1, <1>9, <2>2, <2>3, OneSent DEF AcceptExecute, Quiet, binderVars
<1>10. ASSUME NEW c \in Conn, RefuseExecute(c, s) PROVE Quiet
  <2> DEFINE k == Replied(conn[c], "EXECUTE_REPLY", NoId, ns[s])
  <2>1. ns[s] \in Directories /\ Prefix(ns[s].logs, ns[Binder].logs)
    BY <1>2, ProcessPrefix
  <2>2. SentTo(k, ns)
    BY <1>1, <1>2, <2>1, SentReplied DEF MessageType
  <2>3. conn' = [conn EXCEPT ![c] = k]
    BY <1>10 DEF RefuseExecute, Answer
  <2> HIDE DEF k
  <2> QED
    BY <1>1, <1>10, <2>2, <2>3, OneSent DEF RefuseExecute, Quiet, binderVars
<1>11. ASSUME NEW c \in Conn, DropOtherRequest(c, s) PROVE Quiet
  <2>1. SentTo(Dropped(conn[c]), ns)
    BY <1>1, SentRemains
  <2> QED
    BY <1>1, <1>11, <2>1, OneSent DEF DropOtherRequest, Quiet, binderVars
<1> QED
  BY <1>4, <1>5, <1>6, <1>7, <1>8, <1>9, <1>10, <1>11 DEF ServerStep

(* Nor of a client. *)
LEMMA ClientStepLogs ==
  ASSUME TypeInv, LogInv, NEW p \in Client, ClientStep(p)
  PROVE  Quiet \/ ClientDies(p)
<1>1. ASSUME NEW f \in Func, RpcCall(p, f) PROVE Quiet
  <2> DEFINE r == Request("LOC_REQUEST", p, Binder)
             k == [r EXCEPT !.func = f]
  <2>1. k.src = p /\ k.ver = Version(ns[p]) /\ k.delta = <<>>
    BY DEF Request
  <2>2. SentTo(k, ns)
    <3>1. p \in Replica
      BY DEF Replica
    <3> HIDE DEF k
    <3> QED
      BY <2>1, <3>1, SentRequest
  <2>3. PICK m \in Conn : conn' = [conn EXCEPT ![m] = k]
    BY <1>1 DEF RpcCall
  <2>4. \A c \in Conn : SentTo(conn[c], ns)
    BY DEF LogInv, MessagesSent
  <2> HIDE DEF k
  <2> QED
    BY <1>1, <2>2, <2>3, <2>4, OneSent DEF RpcCall, Quiet, binderVars
<1> QED
  BY <1>1 DEF ClientStep

(* Receiving touches no log but in apply_logs. *)
LEMMA ReceiveLogs ==
  ASSUME TypeInv, LogInv, NEW c \in Conn, Receive(c)
  PROVE  Quiet \/ ApplyLogs(c)
<1>1. \A m \in Conn : conn[m] \in Connection /\ SentTo(conn[m], ns)
  BY DEF TypeInv, TypeOK, LogInv, MessagesSent
<1>2. SentTo(Closed, ns)
  BY SentClosed
<1>3. CASE UpdateDone(c)
  <2> DEFINE spent == [conn[c] EXCEPT !.state = "spent"]
  <2>1. \A m \in Conn : conn'[m] \in {spent, Closed, conn[m], Abandoned(conn[m])}
    BY <1>3 DEF UpdateDone
  <2>2. spent.src = conn[c].src /\ spent.ver = conn[c].ver /\ spent.delta = conn[c].delta
    BY <1>1 DEF Connection
  <2> HIDE DEF spent
  <2>3. SentTo(spent, ns)
    BY <1>1, <2>2, SentSame
  <2>4. \A m \in Conn : SentTo(Abandoned(conn[m]), ns)
    BY <1>1, SentRemains
  <2>5. SentIn(ns)
    BY <1>1, <1>2, <2>1, <2>3, <2>4 DEF SentIn
  <2> QED
    BY <1>3, <2>5 DEF UpdateDone, Quiet, binderVars
<1>4. CASE \/ RpcInitDone(c) \/ RpcRegisterDone(c) \/ RpcCallFails(c)
           \/ RpcCallDone(c) \/ RemoteDisconnected(c)
  <2>1. /\ conn' = [conn EXCEPT ![c] = Closed]
        /\ UNCHANGED <<ns, next_u32>>
    BY <1>4 DEF RpcInitDone, RpcRegisterDone, RpcCallFails, RpcCallDone,
                RemoteDisconnected, binderVars
  <2> QED
    BY <1>1, <1>2, <2>1, OneSent DEF Quiet
<1>5. CASE WorkerReply(c)
  <2> DEFINE d == ns[conn[c].dst]
             k == Replied(conn[c], "EXECUTE_REPLY", NoId, d)
  <2>1. conn[c].dst \in Process /\ ns \in [Process -> Directories]
    BY <1>5 DEF WorkerReply, TypeInv, TypeOK, MessagesOK, MessageOK, Process, Replica
  <2>2. d \in Directories /\ Prefix(d.logs, ns[Binder].logs)
    BY <2>1, ProcessPrefix
  <2>3. SentTo(k, ns)
    BY <1>1, <2>1, <2>2, SentReplied DEF MessageType
  <2>4. conn' = [conn EXCEPT ![c] = k]
    BY <1>5 DEF WorkerReply, Answer
  <2> HIDE DEF k
  <2> QED
    BY <1>1, <1>5, <2>3, <2>4, OneSent DEF WorkerReply, Quiet, binderVars
<1>6. ASSUME NEW s \in Server, RpcCallHelper(c, s) PROVE Quiet
  <2> DEFINE p == conn[c].src
             r == Request("EXECUTE", p, s)
             k == [r EXCEPT !.func = conn[c].func]
  <2>1. p \in Replica
    BY <1>6 DEF RpcCallHelper, Located, Received, Receiving, TypeInv, MessagesOK,
                MessageOK
  <2>2. k.src = p /\ k.ver = Version(ns[p]) /\ k.delta = <<>>
    BY DEF Request
  <2>3. conn' = [conn EXCEPT ![c] = k]
    BY <1>6 DEF RpcCallHelper
  <2> HIDE DEF k
  <2>4. SentTo(k, ns)
    BY <2>1, <2>2, SentRequest
  <2> QED
    BY <1>1, <1>6, <2>3, <2>4, OneSent DEF RpcCallHelper, Quiet, binderVars
<1> QED
  BY <1>3, <1>4, <1>5, <1>6 DEF Receive

(* A handler that changes the binder's directory from d to e, and answers. *)
LEMMA BinderAnswers ==
  ASSUME TypeInv, LogInv, NEW c \in Conn, NEW e, NEW type \in MessageType,
         NEW id \in Id \cup {NoId}, NEW d \in Directories,
         Writes(ns[Binder], e), d.logs = e.logs, Fresh(e.logs, next_u32'),
         ns' = [ns EXCEPT ![Binder] = e],
         conn' = conn \/ conn' = [conn EXCEPT ![c] = Replied(conn[c], type, id, d)]
  PROVE  BinderWrites
<1>1. /\ ns \in [Process -> Directories] /\ Binder \in Process
      /\ \A m \in Conn : conn[m] \in Connection /\ SentTo(conn[m], ns)
  BY DEF TypeInv, TypeOK, Process, LogInv, MessagesSent
<1>2. /\ ns' \in [Process -> Directories] /\ ns'[Binder] = e
      /\ \A p \in Replica : ns'[p] = ns[p]
  BY <1>1, DirectoryAssumption DEF Writes, Process
<1>3. \A p \in Replica : Len(ns[p].logs) <= Len(ns'[p].logs)
  <2>1. \A p \in Replica : Len(ns[p].logs) \in Nat
    BY <1>1 DEF Process, Directories
  <2> QED
    BY <1>2, <2>1
<1>4. \A m \in Conn : SentTo(conn[m], ns')
  <2> TAKE m \in Conn
  <2>1. Prefix(ns[Binder].logs, ns'[Binder].logs)
    BY <1>2 DEF Writes
  <2> QED
    BY <1>1, <1>2, <1>3, <2>1, SentGrows
<1>5. SentTo(Replied(conn[c], type, id, d), ns')
  <2>1. Prefix(d.logs, ns'[Binder].logs)
    <3>1. Len(e.logs) \in Nat
      BY <1>1, <1>2 DEF Directories
    <3> QED
      BY <1>2, <3>1 DEF Prefix
  <2> QED
    BY <1>1, <1>2, <1>4, <2>1, SentReplied
<1>6. SentIn(ns')
  <2>1. CASE conn' = conn
    BY <1>4, <2>1 DEF SentIn
  <2>2. CASE conn' = [conn EXCEPT ![c] = Replied(conn[c], type, id, d)]
    <3> DEFINE k == Replied(conn[c], type, id, d)
               dirs == ns'
    <3>1. conn' = [conn EXCEPT ![c] = k] /\ SentTo(k, dirs)
          /\ \A m \in Conn : SentTo(conn[m], dirs)
      BY <1>4, <1>5, <2>2
    <3> HIDE DEF k, dirs
    <3>2. SentIn(dirs)
      BY <3>1, OneSent
    <3> QED
      BY <3>2 DEF dirs
  <2> QED
    BY <2>1, <2>2
<1> QED
  BY <1>6 DEF BinderWrites

(* The handlers of the binder write legal entries. *)
LEMMA HandleLogs ==
  ASSUME TypeInv, LogInv, NEW c \in Conn, Handle(c)
  PROVE  Quiet \/ BinderWrites
<1> DEFINE b == ns[Binder]
<1>1. conn[c] \in Connection /\ MessageOK(conn[c], server_id) /\ SentTo(conn[c], ns)
  BY DEF TypeInv, TypeOK, MessagesOK, LogInv, MessagesSent
<1>2. /\ b \in Directories /\ Follows(b) /\ WellFormed(b.logs) /\ Fresh(b.logs, next_u32)
      /\ next_u32 \in Nat
  <2>1. next_u32 \in Nat
    BY NameServiceAssumption DEF TypeInv, TypeOK
  <2> QED
    BY <2>1 DEF TypeInv, TypeOK, LogInv, NamesFollowLog, Process
<1>3. \A m \in Conn : SentTo(conn[m], ns)
  BY DEF LogInv, MessagesSent
<1>4. CASE HandleIAmServer(c)
  <2> DEFINE name == conn[c].name
             old == KillOldRecord(b, name)
             d == RegisterName(old, next_u32, name)
  <2>1. name \in Name /\ next_u32 \in Id
    <3>1. next_u32 < MaxId /\ conn[c].type = "I_AM_SERVER"
      BY <1>4 DEF HandleIAmServer, HandleRequest
    <3> QED
      BY <1>1, <3>1, FreshIdType DEF MessageOK
  <2>2. /\ Writes(b, old) /\ old \in Directories
        /\ Fresh(old.logs, next_u32) /\ old.name_to_id[name] = NoId
    <3>1. CASE b.name_to_id[name] = NoId
      <4>1. old = b
        BY <3>1 DEF KillOldRecord
      <4> QED
        BY <1>2, <3>1, <4>1, WritesNothing
    <3>2. CASE b.name_to_id[name] # NoId
      <4> DEFINE i == b.name_to_id[name]
      <4>1. i \in Id
        BY <1>2, <2>1, <3>2 DEF Directories
      <4>2. b.id_to_name[i] = name
        BY <1>2, <2>1, <4>1 DEF Follows
      <4>3. b.id_to_name[i] # NoName
        BY <2>1, <4>2, NameServiceAssumption
      <4>4. old = Kill(b, i)
        BY <3>2 DEF KillOldRecord
      <4>5. Writes(b, old) /\ Fresh(old.logs, next_u32)
        BY <1>2, <4>1, <4>3, <4>4, KillWrites
      <4>6. old.name_to_id[name] = NoId
        <5>1. old.name_to_id = [b.name_to_id EXCEPT ![name] = NoId]
          <6>1. Kill(b, i).name_to_id = [b.name_to_id EXCEPT ![b.id_to_name[i]] = NoId]
            BY <1>2, <4>1, KillEffect
          <6> HIDE DEF i, b
          <6> QED
            BY <4>2, <4>4, <6>1
        <5>2. b.name_to_id \in [Name -> Id \cup {NoId}]
          BY <1>2 DEF Directories
        <5> QED
          BY <2>1, <5>1, <5>2
      <4> QED
        BY <4>5, <4>6 DEF Writes
    <3> QED
      BY <3>1, <3>2
  <2>3. Writes(old, d) /\ Fresh(d.logs, next_u32 + 1)
    <3>1. Follows(old) /\ WellFormed(old.logs)
      BY <2>2 DEF Writes
    <3> HIDE DEF old, name
    <3> QED
      BY <2>1, <2>2, <3>1, RegisterNameWrites
  <2>4. Writes(b, d) /\ d \in Directories
    <3> HIDE DEF old, d, name
    <3>1. Writes(b, d)
      BY <1>2, <2>2, <2>3, WritesAgain
    <3> QED
      BY <2>3, <3>1 DEF Writes
  <2>5. /\ conn' = [conn EXCEPT ![c] = Replied(conn[c], "SERVER_OK", next_u32, d)]
        /\ ns' = [ns EXCEPT ![Binder] = d]
        /\ next_u32' = next_u32 + 1
    BY <1>4 DEF HandleIAmServer, Answer
  <2> HIDE DEF d
  <2>6. Fresh(d.logs, next_u32')
    BY <2>3, <2>5
  <2> QED
    BY <2>1, <2>4, <2>5, <2>6, BinderAnswers DEF MessageType
<1>5. CASE HandleRegister(c)
  <2> DEFINE d == RegisterFn(b, conn[c].id, conn[c].func)
  <2>1. conn[c].id \in Id /\ conn[c].func \in Func
    BY <1>1, <1>5 DEF HandleRegister, HandleRequest, MessageOK
  <2>2. Writes(b, d) /\ Fresh(d.logs, next_u32)
    BY <1>2, <2>1, RegisterFnWrites
  <2>3. d \in Directories
    BY <2>2 DEF Writes
  <2>4. /\ conn' = [conn EXCEPT ![c] = Replied(conn[c], "REGISTER_DONE", NoId, d)]
        /\ ns' = [ns EXCEPT ![Binder] = d]
        /\ next_u32' = next_u32
    BY <1>5 DEF HandleRegister, Answer, binderVars
  <2> HIDE DEF d
  <2>5. Fresh(d.logs, next_u32')
    BY <2>2, <2>4
  <2> QED
    BY <2>2, <2>3, <2>4, <2>5, BinderAnswers DEF MessageType
<1>6. CASE HandleAskNsUpdate(c)
  <2> DEFINE k == Replied(conn[c], "NS_UPDATE_SENT", NoId, b)
  <2>1. SentTo(k, ns)
    <3>1. Prefix(b.logs, ns[Binder].logs)
      BY ProcessPrefix DEF Process
    <3>2. ns \in [Process -> Directories]
      BY DEF TypeInv, TypeOK
    <3> QED
      BY <1>1, <1>2, <3>1, <3>2, SentReplied DEF MessageType
  <2>2. conn' = [conn EXCEPT ![c] = k]
    BY <1>6 DEF HandleAskNsUpdate, Answer
  <2> HIDE DEF k
  <2> QED
    BY <1>3, <1>6, <2>1, <2>2, OneSent DEF HandleAskNsUpdate, Quiet, binderVars
<1>7. CASE HandleLocRequest(c) \/ HandleNewServerExecute(c)
  BY <1>3, <1>7 DEF HandleLocRequest, HandleNewServerExecute, Quiet, SentIn
<1>8. CASE PeerUnknown(c)
  <2>1. ns \in [Process -> Directories]
    BY DEF TypeInv, TypeOK
  <2> QED
    BY <1>3, <1>8, <2>1, SentClosed, OneSent DEF PeerUnknown, Quiet, binderVars
<1> QED
  BY <1>4, <1>5, <1>6, <1>7, <1>8 DEF Handle

(* So do the turns of suggest and of the loop over the names. *)
LEMMA ServeLogs ==
  ASSUME TypeInv, LogInv, NEW c \in Conn, Serve(c)
  PROVE  Quiet \/ BinderWrites
<1> DEFINE b == ns[Binder]
           f == conn[c].func
<1>1. conn[c] \in Connection /\ MessageOK(conn[c], server_id) /\ SentTo(conn[c], ns)
  BY DEF TypeInv, TypeOK, MessagesOK, LogInv, MessagesSent
<1>2. /\ b \in Directories /\ Follows(b) /\ WellFormed(b.logs) /\ Fresh(b.logs, next_u32)
      /\ next_u32 \in Nat
  <2>1. next_u32 \in Nat
    BY NameServiceAssumption DEF TypeInv, TypeOK
  <2> QED
    BY <2>1 DEF TypeInv, TypeOK, LogInv, NamesFollowLog, Process
<1>3. \A m \in Conn : SentTo(conn[m], ns)
  BY DEF LogInv, MessagesSent
<1>4. Suggesting(c) => f \in Func
  BY <1>1 DEF Suggesting, MessageOK
<1>5. \A e : Writes(b, e) => e \in Directories
  BY DEF Writes
<1>6. CASE NoSuggestion(c)
  <2> DEFINE k == Replied(conn[c], "LOC_REPLY", NoId, b)
  <2>1. SentTo(k, ns)
    <3>1. Prefix(b.logs, ns[Binder].logs)
      BY ProcessPrefix DEF Process
    <3>2. ns \in [Process -> Directories]
      BY DEF TypeInv, TypeOK
    <3> QED
      BY <1>1, <1>2, <3>1, <3>2, SentReplied DEF MessageType
  <2>2. conn' = [conn EXCEPT ![c] = k]
    BY <1>6 DEF NoSuggestion, Answer
  <2> HIDE DEF k
  <2> QED
    BY <1>3, <1>6, <2>1, <2>2, OneSent DEF NoSuggestion, Quiet
<1>7. CASE NotifyDone(c)
  BY <1>3, <1>7, SentClosed, OneSent DEF NotifyDone, Quiet
<1>8. ASSUME NEW id \in Id, SkipUnresolvable(c, id) PROVE BinderWrites
  <2> DEFINE e == EraseCandidate(b, f, id)
  <2>1. f \in Func
    BY <1>4, <1>8 DEF SkipUnresolvable, Candidate
  <2>2. e \in Directories /\ Follows(e) /\ e.logs = b.logs
    BY <1>2, <2>1, EraseCandidateType, SuggestFollows, SuggestEffect
  <2>3. ns' = [ns EXCEPT ![Binder] = e] /\ conn' = conn /\ next_u32' = next_u32
    BY <1>8 DEF SkipUnresolvable, binderVars
  <2> HIDE DEF e
  <2>4. Writes(b, e) /\ Fresh(e.logs, next_u32')
    BY <1>2, <2>2, <2>3, WritesNothing
  <2> QED
    BY <2>2, <2>3, <2>4, BinderAnswers DEF MessageType
<1>9. ASSUME NEW id \in Id, KillCandidate(c, id) PROVE BinderWrites
  <2> DEFINE d == Kill(b, id)
             e == EraseCandidate(d, f, id)
  <2>1. f \in Func /\ b.id_to_name[id] # NoName
    BY <1>4, <1>9 DEF KillCandidate, Candidate
  <2>2. Writes(b, d) /\ Fresh(d.logs, next_u32)
    BY <1>2, <2>1, KillWrites
  <2>3. d \in Directories /\ Follows(d) /\ WellFormed(d.logs)
    BY <2>2 DEF Writes
  <2>4. ns' = [ns EXCEPT ![Binder] = e] /\ conn' = conn /\ next_u32' = next_u32
    BY <1>9 DEF KillCandidate, binderVars
  <2> HIDE DEF d
  <2>5. e \in Directories /\ Follows(e) /\ e.logs = d.logs
    BY <2>1, <2>3, EraseCandidateType, SuggestFollows, SuggestEffect
  <2> HIDE DEF e
  <2>6. Writes(d, e)
    BY <2>3, <2>5, WritesNothing
  <2>7. Writes(b, e) /\ Fresh(e.logs, next_u32')
    BY <1>2, <2>2, <2>3, <2>4, <2>5, <2>6, WritesAgain
  <2> QED
    BY <2>4, <2>5, <2>7, BinderAnswers DEF MessageType
<1>10. ASSUME NEW id \in Id, Suggest(c, id) PROVE BinderWrites
  <2> DEFINE e == MovePivot(b, f, NextPivot(b, f))
  <2>1. f \in Func /\ b.func_to_ids[f] # {}
    BY <1>4, <1>10 DEF Suggest, Candidate
  <2>2. e \in Directories /\ Follows(e) /\ e.logs = b.logs
    BY <1>2, <2>1, NextPivotType, MovePivotType, SuggestFollows, SuggestEffect
  <2>3. /\ ns' = [ns EXCEPT ![Binder] = e] /\ next_u32' = next_u32
        /\ conn' = [conn EXCEPT ![c] = Replied(conn[c], "LOC_REPLY", id, b)]
    BY <1>10 DEF Suggest, Answer
  <2> HIDE DEF e
  <2>4. Writes(b, e) /\ Fresh(e.logs, next_u32')
    BY <1>2, <2>2, <2>3, WritesNothing
  <2> QED
    BY <1>2, <2>2, <2>3, <2>4, BinderAnswers DEF MessageType
<1>11. ASSUME NEW n \in Name, KillDeadServer(c, n) PROVE BinderWrites
  <2> DEFINE i == b.name_to_id[n]
             e == IF i = NoId THEN b ELSE Kill(b, i)
  <2>1. Writes(b, e) /\ Fresh(e.logs, next_u32)
    <3>1. CASE i = NoId
      BY <1>2, <3>1, WritesNothing
    <3>2. CASE i # NoId
      <4>1. i \in Id
        BY <1>2, <3>2 DEF Directories
      <4>2. b.id_to_name[i] # NoName
        BY <1>2, <4>1, NameServiceAssumption DEF Follows
      <4> QED
        BY <1>2, <3>2, <4>1, <4>2, KillWrites
    <3> QED
      BY <3>1, <3>2
  <2>2. ns' = [ns EXCEPT ![Binder] = e] /\ conn' = conn /\ next_u32' = next_u32
    BY <1>11 DEF KillDeadServer, NotifyNext
  <2> HIDE DEF e
  <2>3. e \in Directories /\ Fresh(e.logs, next_u32')
    BY <1>5, <2>1, <2>2
  <2> QED
    BY <2>1, <2>2, <2>3, BinderAnswers DEF MessageType
<1>12. ASSUME NEW n \in Name, NEW s \in Server, NotifyServer(c, n, s) PROVE Quiet
  BY <1>3, <1>12 DEF NotifyServer, Quiet, SentIn
<1> QED
  BY <1>6, <1>7, <1>8, <1>9, <1>10, <1>11, <1>12 DEF Serve

-----------------------------------------------------------------------------
(* Each kind of step keeps the invariant. *)

(* A step that does nothing to the logs. *)
LEMMA QuietKeeps ==
  ASSUME LogInv, Quiet
  PROVE  LogInv'
BY DEF LogInv, Quiet, SentIn, NamesFollowLog, ReplicaPrefix, MessagesSent, SentTo

(* A step that writes to the binder's log. *)
LEMMA WritesKeep ==
  ASSUME TypeInv, LogInv, BinderWrites
  PROVE  LogInv'
<1>1. PICK e : /\ Writes(ns[Binder], e)
               /\ ns' = [ns EXCEPT ![Binder] = e]
               /\ Fresh(e.logs, next_u32')
               /\ SentIn(ns')
  BY DEF BinderWrites
<1>2. /\ ns'[Binder] = e
      /\ \A p \in Replica : ns'[p] = ns[p]
  BY <1>1, DirectoryAssumption DEF TypeInv, TypeOK, Process
<1>3. NamesFollowLog'
  BY <1>1, <1>2 DEF LogInv, NamesFollowLog, Process, Writes
<1>4. ReplicaPrefix'
  <2> SUFFICES ASSUME NEW p \in Replica PROVE Prefix(ns'[p].logs, ns'[Binder].logs)
    BY DEF ReplicaPrefix
  <2>1. Prefix(ns[p].logs, ns[Binder].logs) /\ Prefix(ns[Binder].logs, e.logs)
    BY <1>1 DEF LogInv, ReplicaPrefix, Writes
  <2>2. Len(ns[p].logs) \in Nat /\ Len(ns[Binder].logs) \in Nat /\ Len(e.logs) \in Nat
    BY <1>1 DEF TypeInv, TypeOK, Process, Directories, Writes
  <2>3. Prefix(ns[p].logs, e.logs)
    BY <2>1, <2>2 DEF Prefix
  <2> QED
    BY <1>2, <2>3
<1>5. WellFormed(ns'[Binder].logs) /\ Fresh(ns'[Binder].logs, next_u32')
  BY <1>1, <1>2 DEF Writes
<1>6. MessagesSent'
  BY <1>1 DEF SentIn, MessagesSent
<1> QED
  BY <1>3, <1>4, <1>5, <1>6 DEF LogInv

(* The item apply_logs has next fits: it is an entry of the binder's log,   *)
(* and its reader has every entry before it.                                *)
LEMMA NextFits ==
  ASSUME TypeInv, LogInv, NEW c \in Conn, Receiving(c), conn[c].delta # <<>>
  PROVE  /\ conn[c].src \in Replica
         /\ Fits(ns[conn[c].src], ns[Binder].logs, Head(conn[c].delta))
<1> DEFINE k == conn[c]
           d == ns[k.src]
           log == ns[Binder].logs
<1>1. k.src \in Replica
  BY DEF Receiving, TypeInv, MessagesOK, MessageOK
<1>2. k.delta \in Seq(LogItem)
  BY DEF TypeInv, TypeOK, Connection
<1>3. PICK since \in 0 .. Len(d.logs) : Slice(k.delta, since, log)
  BY <1>1 DEF LogInv, MessagesSent, SentTo
<1>4. Len(d.logs) \in Nat /\ Len(log) \in Nat
  BY <1>1 DEF TypeInv, TypeOK, Process, Directories
<1>5. Head(k.delta) = k.delta[1] /\ 1 \in 1 .. Len(k.delta) /\ Head(k.delta) \in LogItem
  BY <1>2
<1>6. Head(k.delta).version = since + 1 /\ since + 1 <= Len(log)
      /\ Head(k.delta).entry = log[since + 1]
  BY <1>3, <1>5 DEF Slice
<1> HIDE DEF k, d, log
<1>7. Fits(d, log, Head(k.delta))
  BY <1>3, <1>4, <1>5, <1>6 DEF Fits
<1> QED
  BY <1>1, <1>7 DEF k, d, log

(* apply_logs: the reader catches up, by one entry or none. *)
LEMMA ApplyKeeps ==
  ASSUME TypeInv, TypeInv', LogInv, NEW c \in Conn, ApplyLogs(c)
  PROVE  /\ LogInv'
         /\ conn[c].src \in Replica
         /\ ns' = [ns EXCEPT ![conn[c].src] = ns'[conn[c].src]]
         /\ LET d == ns[conn[c].src]
                r == ns'[conn[c].src]
            IN  \/ r = d
                \/ /\ Len(d.logs) < Len(ns[Binder].logs)
                   /\ r.logs = Append(d.logs, ns[Binder].logs[Len(d.logs) + 1])
<1> DEFINE p == conn[c].src
           d == ns[p]
           log == ns[Binder].logs
           item == Head(conn[c].delta)
           r == ApplyItem(d, item)
           k == [conn[c] EXCEPT !.state = "applying", !.delta = Tail(conn[c].delta)]
<1>1. /\ Receiving(c) /\ conn[c].delta # <<>>
      /\ ns' = [ns EXCEPT ![p] = r]
      /\ conn' = [conn EXCEPT ![c] = k]
      /\ next_u32' = next_u32
  BY DEF ApplyLogs, binderVars
<1>2. p \in Replica /\ p \in Process /\ p # Binder /\ Fits(d, log, item)
  BY <1>1, NextFits, DirectoryAssumption DEF Process
<1>3. /\ ns \in [Process -> Directories] /\ d \in Directories /\ log \in Seq(LogEntry)
      /\ ns' \in [Process -> Directories]
      /\ \A m \in Conn : conn[m] \in Connection /\ SentTo(conn[m], ns)
  BY <1>2 DEF TypeInv, TypeOK, Process, Directories, LogInv, MessagesSent
<1>4. Follows(d) /\ WellFormed(log) /\ Prefix(d.logs, log)
  BY <1>2 DEF LogInv, NamesFollowLog, ReplicaPrefix
<1>5. /\ Follows(r)
      /\ \/ r = d
         \/ /\ Len(d.logs) < Len(log)
            /\ r.logs = Append(d.logs, log[Len(d.logs) + 1])
      /\ Prefix(r.logs, log)
      /\ item.version <= Len(r.logs) /\ Len(d.logs) <= Len(r.logs)
  <2> HIDE DEF d, log, item
  <2> QED
    BY <1>2, <1>3, <1>4, ApplyItemFollows
<1>6. /\ ns'[p] = r /\ ns'[Binder] = ns[Binder]
      /\ \A q \in Process : q # p => ns'[q] = ns[q]
  <2> HIDE DEF r
  <2> QED
    BY <1>1, <1>2, <1>3 DEF Process
<1>7. \A m \in Conn : SentTo(conn[m], ns')
  <2> TAKE m \in Conn
  <2>1. Prefix(ns[Binder].logs, ns'[Binder].logs)
    BY <1>2, <1>6, ProcessPrefix DEF Process
  <2>2. conn[m].src \in Replica =>
          Len(ns[conn[m].src].logs) <= Len(ns'[conn[m].src].logs)
    <3>1. \A q \in Process : Len(ns[q].logs) \in Nat
      BY <1>3 DEF Directories
    <3>2. \A q \in Process : q # p => Len(ns[q].logs) <= Len(ns'[q].logs)
      BY <1>6, <3>1
    <3>3. Len(ns[p].logs) <= Len(ns'[p].logs)
      <4> HIDE DEF r
      <4> QED
        BY <1>5, <1>6
    <3> HIDE DEF p
    <3> QED
      BY <3>2, <3>3 DEF Process
  <2> QED
    BY <1>3, <2>1, <2>2, SentGrows
<1>8. SentTo(k, ns')
  <2>1. conn[c].delta \in Seq(LogItem) /\ conn[c].delta # <<>>
    BY <1>1, <1>3 DEF Connection
  <2> DEFINE tail == Tail(conn[c].delta)
  <2>2. k.src = p /\ k.ver = conn[c].ver /\ k.delta = tail
    BY <1>3 DEF Connection
  <2>3. PICK since \in 0 .. Len(d.logs) : Slice(conn[c].delta, since, log)
    BY <1>2, <1>3 DEF SentTo
  <2>4. Len(d.logs) \in Nat /\ Len(r.logs) \in Nat /\ Len(log) \in Nat
    BY <1>2, <1>3, <1>6 DEF Directories, Process
  <2>5. item = conn[c].delta[1] /\ 1 \in 1 .. Len(conn[c].delta)
    BY <2>1
  <2>6. item.version = since + 1
    BY <2>3, <2>5 DEF Slice
  <2>7. since + 1 \in 0 .. Len(r.logs)
    <3> HIDE DEF item, r, d
    <3> QED
      BY <1>5, <2>3, <2>4, <2>6
  <2>8. /\ Len(tail) \in Nat /\ Len(tail) + 1 = Len(conn[c].delta)
        /\ \A i \in 1 .. Len(tail) : tail[i] = conn[c].delta[i + 1]
    BY <2>1
  <2>9. Slice(tail, since + 1, log)
    <3> SUFFICES ASSUME NEW i \in 1 .. Len(tail)
                 PROVE  /\ tail[i].version = since + 1 + i
                        /\ since + 1 + i <= Len(log)
                        /\ tail[i].entry = log[since + 1 + i]
      BY DEF Slice
    <3> HIDE DEF tail, log, d
    <3>1. i + 1 \in 1 .. Len(conn[c].delta) /\ since + (i + 1) = since + 1 + i
      BY <2>3, <2>4, <2>8
    <3>2. /\ conn[c].delta[i + 1].version = since + (i + 1)
          /\ since + (i + 1) <= Len(log)
          /\ conn[c].delta[i + 1].entry = log[since + (i + 1)]
      BY <2>3, <3>1 DEF Slice
    <3> QED
      BY <2>8, <3>1, <3>2
  <2>10. k.ver <= Len(ns'[p].logs)
    BY <1>2, <1>7, <2>2 DEF SentTo
  <2> HIDE DEF k, tail, r, d
  <2>11. \E t \in 0 .. Len(ns'[p].logs) : Slice(k.delta, t, ns'[Binder].logs)
    BY <1>6, <2>2, <2>7, <2>9
  <2> QED
    BY <2>2, <2>10, <2>11 DEF SentTo
<1>9. MessagesSent'
  <2> DEFINE dirs == ns'
  <2>1. conn' = [conn EXCEPT ![c] = k] /\ SentTo(k, dirs)
        /\ \A m \in Conn : SentTo(conn[m], dirs)
    BY <1>1, <1>7, <1>8
  <2> HIDE DEF k, dirs
  <2>2. SentIn(dirs)
    BY <2>1, OneSent
  <2> QED
    BY <2>2 DEF dirs, SentIn, MessagesSent
<1>10. NamesFollowLog' /\ ReplicaPrefix'
  <2> HIDE DEF r, d
  <2>1. NamesFollowLog'
    BY <1>5, <1>6 DEF LogInv, NamesFollowLog
  <2>2. ReplicaPrefix'
    BY <1>5, <1>6 DEF LogInv, ReplicaPrefix, Process
  <2> QED
    BY <2>1, <2>2
<1>11. LogInv'
  BY <1>1, <1>6, <1>9, <1>10 DEF LogInv
<1> HIDE DEF r
<1> QED
  BY <1>1, <1>2, <1>5, <1>6, <1>11

(* A death: the dead process had the only messages that spoke of its log. *)
LEMMA DeathKeeps ==
  ASSUME TypeInv, TypeInv', LogInv, NEW p \in Replica, Die(p)
  PROVE  LogInv'
<1>1. /\ conn' = [c \in Conn |-> AfterDeath(conn[c], p)]
      /\ ns' = [ns EXCEPT ![p] = EmptyNameService]
      /\ next_u32' = next_u32
  BY DEF Die, binderVars
<1>2. /\ ns \in [Process -> Directories] /\ ns' \in [Process -> Directories]
      /\ \A m \in Conn : conn[m] \in Connection /\ SentTo(conn[m], ns)
      /\ \A m \in Conn : conn'[m] \in Connection
  BY DEF TypeInv, TypeOK, LogInv, MessagesSent
<1>3. /\ p # Binder /\ ns'[p] = EmptyNameService /\ ns'[Binder] = ns[Binder]
      /\ \A q \in Process : q # p => ns'[q] = ns[q]
  BY <1>1, <1>2, DirectoryAssumption DEF Process
<1>4. NamesFollowLog'
  <2>1. Follows(EmptyNameService)
    BY NameServiceAssumption
       DEF Follows, EmptyNameService, Named, Entries, NoId, Id
  <2> QED
    BY <1>3, <2>1 DEF LogInv, NamesFollowLog
<1>5. ReplicaPrefix'
  <2>1. Len(ns[Binder].logs) \in Nat
    BY <1>2 DEF Process, Directories
  <2>2. Prefix(EmptyNameService.logs, ns[Binder].logs)
    BY <2>1 DEF Prefix, EmptyNameService
  <2> QED
    BY <1>3, <2>2 DEF LogInv, ReplicaPrefix, Process
<1>6. MessagesSent'
  <2> SUFFICES ASSUME NEW m \in Conn PROVE SentTo(conn'[m], ns')
    BY DEF MessagesSent
  <2>1. SentTo(conn'[m], ns)
    BY <1>1, <1>2, SentRemains
  <2>2. conn'[m].src # p
    BY <1>1, <1>2, DeadHasNone
  <2> QED
    BY <1>3, <2>1, <2>2 DEF SentTo, Process
<1> QED
  BY <1>1, <1>3, <1>4, <1>5, <1>6 DEF LogInv

(* The initial logs are empty. *)
LEMMA LogInit == Init => LogInv
<1> SUFFICES ASSUME Init PROVE LogInv
  OBVIOUS
<1>1. \A p \in Process : ns[p] = EmptyNameService
  BY DEF Init
<1>2. EmptyNameService.logs = <<>>
  BY DEF EmptyNameService
<1>3. NamesFollowLog
  <2>1. Follows(EmptyNameService)
    BY NameServiceAssumption
       DEF Follows, EmptyNameService, Named, Entries, NoId, Id
  <2> QED
    BY <1>1, <2>1 DEF NamesFollowLog
<1>4. ReplicaPrefix /\ WellFormed(ns[Binder].logs) /\ Fresh(ns[Binder].logs, next_u32)
  BY <1>1, <1>2 DEF ReplicaPrefix, WellFormed, Fresh, Prefix, Entries, Process
<1>5. MessagesSent
  BY SentClosed DEF Init, MessagesSent
<1> QED
  BY <1>3, <1>4, <1>5 DEF LogInv

(* What a step does to the logs. *)
LEMMA StepKinds ==
  ASSUME TypeInv, LogInv, Next
  PROVE  \/ Quiet \/ BinderWrites
         \/ \E c \in Conn : ApplyLogs(c)
         \/ \E p \in Replica : Die(p)
BY ServerStepLogs, ClientStepLogs, ReceiveLogs, HandleLogs, ServeLogs
   DEF Next, ServerDies, ClientDies, Replica

(* Every step keeps the invariant. *)
LEMMA LogStep == TypeInv /\ TypeInv' /\ LogInv /\ [Next]_vars => LogInv'
<1> SUFFICES ASSUME TypeInv, TypeInv', LogInv, [Next]_vars PROVE LogInv'
  OBVIOUS
<1>1. CASE UNCHANGED vars
  <2>1. Quiet
    BY <1>1 DEF vars, binderVars, Quiet, SentIn, LogInv, MessagesSent
  <2> QED
    BY <2>1, QuietKeeps
<1>2. CASE Next
  BY <1>2, StepKinds, QuietKeeps, WritesKeep, ApplyKeeps, DeathKeeps
<1> QED
  BY <1>1, <1>2

(* The invariants hold of every behaviour. *)
LEMMA Invariants == Spec => [](TypeInv /\ LogInv)
<1>1. Init => TypeInv /\ LogInv
  BY TypeInit, LogInit
<1>2. TypeInv /\ LogInv /\ [Next]_vars => (TypeInv /\ LogInv)'
  BY TypeStep, LogStep
<1> QED
  BY <1>1, <1>2, PTL DEF Spec

(* Every directory is what its log says, in every process at every moment. *)
THEOREM NamesCorrect == Spec => []NamesFollowLog
<1>1. LogInv => NamesFollowLog
  BY DEF LogInv
<1> QED
  BY <1>1, Invariants, PTL

(* A replica never has anything but a prefix of the binder's log. *)
THEOREM ReplicasCorrect == Spec => []ReplicaPrefix
<1>1. LogInv => ReplicaPrefix
  BY DEF LogInv
<1> QED
  BY <1>1, Invariants, PTL

(* The assertions of apply_logs hold of every entry it applies. *)
THEOREM AssertsHold == Spec => []ApplyAsserts
<1>1. TypeInv /\ LogInv => ApplyAsserts
  <2> SUFFICES ASSUME TypeInv, LogInv, NEW c \in Conn, Receiving(c),
                      conn[c].delta # <<>>
               PROVE  ItemAsserts(ns[conn[c].src], Head(conn[c].delta))
    BY DEF ApplyAsserts
  <2> DEFINE d == ns[conn[c].src]
             log == ns[Binder].logs
  <2>1. conn[c].src \in Replica /\ Fits(d, log, Head(conn[c].delta))
    BY NextFits
  <2>2. d \in Directories /\ log \in Seq(LogEntry)
    BY <2>1 DEF TypeInv, TypeOK, Process, Directories
  <2>3. Follows(d) /\ WellFormed(log) /\ Prefix(d.logs, log)
    BY <2>1 DEF LogInv, NamesFollowLog, ReplicaPrefix, Process
  <2> HIDE DEF d, log
  <2>4. ItemAsserts(d, Head(conn[c].delta))
    BY <2>1, <2>2, <2>3, ApplyItemFollows
  <2> QED
    BY <2>4 DEF d
<1> QED
  BY <1>1, Invariants, PTL

-----------------------------------------------------------------------------
(* Refinement. *)

(* What the replicated log calls the copies. *)
Copies == [p \in Replica |-> ns[p].logs]

LogVars == <<ns[Binder].logs, Copies>>

(* A step that leaves every log as it is. *)
LEMMA LogsStutter ==
  ASSUME \A p \in Process : ns'[p].logs = ns[p].logs
  PROVE  UNCHANGED LogVars
<1>1. Copies' = Copies
  BY DEF Copies, Process
<1> QED
  BY <1>1 DEF LogVars, Process

(* The binder writes: the log is extended. *)
LEMMA WritesExtend ==
  ASSUME TypeInv, BinderWrites
  PROVE  Log!Extend \/ UNCHANGED LogVars
<1>1. PICK e : Writes(ns[Binder], e) /\ ns' = [ns EXCEPT ![Binder] = e]
  BY DEF BinderWrites
<1>2. /\ ns'[Binder] = e
      /\ \A p \in Replica : ns'[p] = ns[p]
  BY <1>1, DirectoryAssumption DEF TypeInv, TypeOK, Process
<1> DEFINE l == ns[Binder].logs
           m == e.logs
<1>3. l \in Seq(LogEntry) /\ m \in Seq(LogEntry) /\ Prefix(l, m)
  BY <1>1 DEF TypeInv, TypeOK, Process, Directories, Writes
<1>4. Copies' = Copies
  BY <1>2 DEF Copies
<1>5. CASE Len(m) = Len(l)
  <2> HIDE DEF l, m
  <2>1. m = l
    BY <1>3, <1>5 DEF Prefix
  <2> QED
    BY <1>2, <1>4, <2>1 DEF LogVars, l, m
<1>6. CASE Len(m) # Len(l)
  <2> HIDE DEF l, m
  <2>1. Len(m) > Len(l) /\ SubSeq(m, 1, Len(l)) = l
    BY <1>3, <1>6, PrefixEntries DEF Prefix
  <2> QED
    BY <1>2, <1>3, <1>4, <2>1 DEF Log!Extend, Copies, l, m
<1> QED
  BY <1>5, <1>6

(* apply_logs: a copy catches up. *)
LEMMA ApplyCatchesUp ==
  ASSUME TypeInv, TypeInv', LogInv, NEW c \in Conn, ApplyLogs(c)
  PROVE  (\E p \in Replica : Log!CatchUp(p)) \/ UNCHANGED LogVars
<1> DEFINE p == conn[c].src
           d == ns[p]
           r == ns'[p]
<1>1. /\ p \in Replica
      /\ ns' = [ns EXCEPT ![p] = r]
      /\ \/ r = d
         \/ /\ Len(d.logs) < Len(ns[Binder].logs)
            /\ r.logs = Append(d.logs, ns[Binder].logs[Len(d.logs) + 1])
  BY ApplyKeeps
<1>2. ns \in [Process -> Directories] /\ p \in Process /\ p # Binder
  BY <1>1, DirectoryAssumption DEF TypeInv, TypeOK, Process
<1>3. \A q \in Process : q # p => ns'[q] = ns[q]
  BY <1>1, <1>2
<1>4. CASE r = d
  <2>1. \A q \in Process : ns'[q] = ns[q]
    BY <1>3, <1>4
  <2> QED
    BY <2>1, LogsStutter
<1>5. CASE /\ Len(d.logs) < Len(ns[Binder].logs)
           /\ r.logs = Append(d.logs, ns[Binder].logs[Len(d.logs) + 1])
  <2>1. ns'[Binder].logs = ns[Binder].logs
    BY <1>2, <1>3 DEF Process
  <2>2. Copies[p] = d.logs
    BY <1>1 DEF Copies
  <2>3. Copies' = [Copies EXCEPT ![p] = r.logs]
    BY <1>1, <1>3 DEF Copies, Process
  <2>4. Len(Copies[p]) < Len(ns[Binder].logs)
        /\ Copies' = [Copies EXCEPT ![p] =
                        Append(Copies[p], ns[Binder].logs[Len(Copies[p]) + 1])]
    BY <1>5, <2>2, <2>3
  <2>5. PICK q \in Replica : q = p
    BY <1>1
  <2>6. Log!CatchUp(q)
    BY <2>1, <2>4, <2>5 DEF Log!CatchUp, Copies
  <2> QED
    BY <2>6
<1> QED
  BY <1>1, <1>4, <1>5

(* A death: a copy starts again. *)
LEMMA DeathRestarts ==
  ASSUME TypeInv, NEW p \in Replica, Die(p)
  PROVE  Log!Restart(p)
<1>1. /\ p # Binder /\ ns'[p] = EmptyNameService
      /\ \A q \in Process : q # p => ns'[q] = ns[q]
  BY DirectoryAssumption DEF Die, TypeInv, TypeOK, Process
<1>2. ns'[Binder].logs = ns[Binder].logs
  BY <1>1 DEF Process
<1>3. EmptyNameService.logs = <<>>
  BY DEF EmptyNameService
<1>4. Copies' = [Copies EXCEPT ![p] = <<>>]
  BY <1>1, <1>3 DEF Copies, Process
<1> QED
  BY <1>2, <1>4 DEF Log!Restart, Copies

(* Every step is a step of the replicated log or leaves it as it is. *)
LEMMA RefinementStep ==
  ASSUME TypeInv, TypeInv', LogInv, [Next]_vars
  PROVE  Log!Next \/ UNCHANGED LogVars
<1>1. CASE ns' = ns
  BY <1>1, LogsStutter
<1>2. CASE BinderWrites
  BY <1>2, WritesExtend DEF Log!Next
<1>3. CASE \E c \in Conn : ApplyLogs(c)
  BY <1>3, ApplyCatchesUp DEF Log!Next
<1>4. CASE \E p \in Replica : Die(p)
  BY <1>4, DeathRestarts DEF Log!Next
<1> QED
  BY <1>1, <1>2, <1>3, <1>4, StepKinds DEF vars, Quiet

(* The directories implement the replicated log: the binder's log only      *)
(* grows, and each replica's copy catches up with it in its order, whatever *)
(* happens to messages and processes.                                       *)
THEOREM DirectoriesAreReplicatedLog == Spec => ImplementsReplicatedLog
<1>1. Init => Log!Init
  <2> SUFFICES ASSUME Init PROVE Log!Init
    OBVIOUS
  <2>1. \A p \in Process : ns[p].logs = <<>>
    BY DEF Init, EmptyNameService
  <2>2. [p \in Replica |-> ns[p].logs] = [p \in Replica |-> <<>>]
    BY <2>1 DEF Process
  <2>3. ns[Binder].logs = <<>>
    BY <2>1 DEF Process
  <2> QED
    BY <2>2, <2>3 DEF Log!Init
<1>2. (TypeInv /\ LogInv) /\ (TypeInv /\ LogInv)' /\ [Next]_vars
        => [Log!Next]_<<ns[Binder].logs, [p \in Replica |-> ns[p].logs]>>
  BY RefinementStep DEF LogVars, Copies
<1> QED
  BY <1>1, <1>2, Invariants, PTL DEF Spec, ImplementsReplicatedLog, Log!Spec
=============================================================================
