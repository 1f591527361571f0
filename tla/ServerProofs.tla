------------------------------ MODULE ServerProofs ------------------------------
(***************************************************************************)
(* Theorems about the servers and clients of Directory: what the binder    *)
(* has of a live server, that updates are awaited, and what the replies of *)
(* the binder tell: a server its own record, a client where to find one.   *)
(***************************************************************************)
EXTENDS DirectoryProofs

-----------------------------------------------------------------------------
(* The messages of a server. *)

UpdateType == {"ASK_NS_UPDATE", "NS_UPDATE_SENT"}
CallType == {"LOC_REQUEST", "LOC_REPLY", "EXECUTE", "EXECUTE_REPLY"}

Unread(k) == k.type = "I_AM_SERVER" /\ k.state = "request"
Coming(k) == k.state \in {"reply", "applying"}
Confirming(k) == k.type = "SERVER_OK" /\ Coming(k)
Announcing(k) == Unread(k) \/ Confirming(k)
Asking(k) == k.type \in UpdateType /\ k.state \in {"request", "reply", "applying"}

(* b is the binder's directory, at the phases, names the addresses and ids  *)
(* the ids of the servers; lost are those whose record was taken from them. *)
Listed(k, b, at, names, ids, lost) ==
  /\ k.state = "free" => k.src = Nobody
  /\ Unread(k) => k.dst = Binder /\ k.src \notin Client
  /\ k.type \in UpdateType => k.src \notin Client
  /\ k.src \in Server =>
       /\ k.dst = Binder /\ k.state # "eof" /\ k.type \notin CallType
       /\ at[k.src] # "down"
       /\ Announcing(k) => at[k.src] = "init" /\ k.name = names[k.src]
       /\ Confirming(k) /\ k.src \notin lost => b.id_to_name[k.id] = k.name
       /\ k.type = "REGISTER" => k.id = ids[k.src]
       /\ k.type = "REGISTER_DONE" /\ k.src \notin lost =>
            ids[k.src] \in b.func_to_ids[k.func]

MessagesListed == \A c \in Conn : Listed(conn[c], ns[Binder], phase, listen, server_id, usurped)

(* A server that runs listens, and one that has its id has its record. *)
ServersListed ==
  \A s \in Server :
    /\ phase[s] = "down" => waits[s] = <<>> /\ listen[s] = NoName
    /\ phase[s] # "down" => listen[s] \in Name
    /\ phase[s] \in {"down", "init"} => server_id[s] = NoId
    /\ server_id[s] = NoId => function_map[s] = {}

(* No two servers listen at one address, and none announces itself twice.   *)
DistinctAddresses ==
  \A s, t \in Server : listen[s] = listen[t] /\ listen[s] # NoName => s = t

OneAnnouncement ==
  \A c, k \in Conn :
    Announcing(conn[c]) /\ Announcing(conn[k])
      /\ conn[c].src = conn[k].src /\ conn[c].src \in Server => c = k

ListInv ==
  /\ MessagesListed
  /\ ServersListed
  /\ LiveServerListed
  /\ DistinctAddresses
  /\ OneAnnouncement

(* The nested waits of a server are for updates it asked for itself, and    *)
(* there are no other ones on their way.                                    *)
WaitsOwn ==
  \A s \in Server : \A i \in 1 .. Len(waits[s]) :
    /\ conn[waits[s][i]].src = s /\ conn[waits[s][i]].type \in UpdateType
    /\ \A j \in 1 .. Len(waits[s]) : waits[s][j] = waits[s][i] => i = j

Asks(s) == {c \in Conn : conn[c].src = s /\ Asking(conn[c])}

AsksCounted ==
  \A s \in Server : IsFiniteSet(Asks(s)) /\ Cardinality(Asks(s)) <= Len(waits[s])

WaitInv == WaitsOwn /\ AsksCounted

ServerInv == ListInv /\ WaitInv

-----------------------------------------------------------------------------
(* Messages that say nothing of a server. *)

Harmless(m) ==
  /\ m.state = "free" => m.src = Nobody
  /\ m.src \notin Server
  /\ ~ Unread(m)
  /\ m.type \in UpdateType => m.src \notin Client

(* A message that says nothing of a server is as it should be. *)
LEMMA HarmlessListed ==
  ASSUME NEW m, Harmless(m)
  PROVE  \A b, at, names, ids, lost : Listed(m, b, at, names, ids, lost)
BY DEF Harmless, Listed

(* The roles are kept apart: nobody is two of them. *)
LEMMA NobodyElse == Nobody \notin Server /\ Nobody \notin Client /\ Nobody # Binder
                    /\ Binder \notin Server /\ Binder \notin Client
                    /\ \A s \in Server : s \notin Client
BY DirectoryAssumption DEF Process, Replica

(* A closed connection says nothing. *)
LEMMA ClosedHarmless == Harmless(Closed)
BY ClosedType, NobodyElse DEF Harmless, Unread, UpdateType

(* What closing, dropping or losing a peer leaves of a message. *)
LEMMA AbandonedHarmless ==
  ASSUME NEW k \in Connection, ~ Unread(k)
  PROVE  Harmless(Abandoned(k))
<1>1. CASE k.state = "request"
  <2> DEFINE m == [k EXCEPT !.src = Nobody]
  <2>1. Abandoned(k) = m /\ m.src = Nobody /\ m.state = "request" /\ m.type = k.type
    BY <1>1 DEF Abandoned, Connection
  <2> HIDE DEF m
  <2> QED
    BY <1>1, <2>1, NobodyElse DEF Harmless, Unread
<1>2. CASE k.state # "request"
  BY <1>2, ClosedHarmless DEF Abandoned
<1> QED
  BY <1>1, <1>2

(* A message that changes its state alone, and not to one that waits. *)
Later(k, m) ==
  /\ m.src = k.src /\ m.dst = k.dst /\ m.type = k.type
  /\ m.id = k.id /\ m.func = k.func /\ m.name = k.name
  /\ m.state \in {"applying", "spent", "ignored"}
  /\ Coming(m) => Coming(k)

(* What a step that leaves servers and their records alone does to one      *)
(* message.                                                                 *)
Advances(k, m) ==
  \/ m = k
  \/ ~ Unread(k) /\ (Later(k, m) \/ Harmless(m))

(* A server listens at this address, its announcement has been read, and    *)
(* this step does not give its record to a dead process.                    *)
Announced(name) ==
  \E s \in Server :
    /\ listen[s] = name /\ s \notin usurped'
    /\ \A k \in Conn : Unread(conn[k]) => conn[k].src # s

(* The binder keeps the records of those it has heard of. *)
RecordsKept(b, r) ==
  \A id \in Id :
    b.id_to_name[id] # NoName /\ Announced(b.id_to_name[id]) =>
      /\ r.id_to_name[id] = b.id_to_name[id]
      /\ \A f \in Func : id \in b.func_to_ids[f] => id \in r.func_to_ids[f]

(* A server takes up a function only when the binder has it. *)
FunctionsListed ==
  \A s \in Server : \A f \in function_map'[s] :
    \/ f \in function_map[s]
    \/ /\ server_id[s] # NoId /\ f \in Func
       /\ s \notin usurped => server_id[s] \in ns[Binder].func_to_ids[f]

(* No server comes up, goes down or leaves rpcInit. *)
PhaseKept ==
  \A s \in Server : /\ phase'[s] = "down" <=> phase[s] = "down"
                    /\ phase'[s] = "init" <=> phase[s] = "init"

(* A server that has its id, or whose SERVER_OK is on its way, is announced. *)
LEMMA HeardOf ==
  ASSUME ListInv, NEW s \in Server, s \notin usurped',
         server_id[s] # NoId \/ \E c \in Conn : Confirming(conn[c]) /\ conn[c].src = s
  PROVE  listen[s] \in Name /\ listen[s] # NoName /\ Announced(listen[s])
<1>1. phase[s] # "down"
  BY DEF ListInv, ServersListed, MessagesListed, Listed
<1>2. listen[s] \in Name /\ listen[s] # NoName
  BY <1>1, NameServiceAssumption DEF ListInv, ServersListed
<1>3. ASSUME NEW k \in Conn, Unread(conn[k]), conn[k].src = s PROVE FALSE
  <2>1. phase[s] = "init"
    BY <1>3 DEF ListInv, MessagesListed, Listed, Announcing
  <2>2. PICK c \in Conn : Confirming(conn[c]) /\ conn[c].src = s
    BY <2>1 DEF ListInv, ServersListed
  <2>3. c = k
    BY <1>3, <2>2 DEF ListInv, OneAnnouncement, Announcing
  <2> QED
    BY <1>3, <2>2, <2>3 DEF Confirming, Unread
<1> QED
  BY <1>2, <1>3 DEF Announced

(* A message stays listed while the record of its server is kept. *)
LEMMA ListedStays ==
  ASSUME TypeInv, ListInv, PhaseKept, RecordsKept(ns[Binder], ns'[Binder]),
         UNCHANGED <<listen, server_id>>, usurped \subseteq usurped', NEW c \in Conn, NEW m,
         m = conn[c] \/ (~ Unread(conn[c]) /\ Later(conn[c], m))
  PROVE  Listed(m, ns'[Binder], phase', listen', server_id', usurped')
<1> DEFINE k == conn[c]
<1>1. k \in Connection /\ MessageOK(k, server_id)
  BY DEF TypeInv, TypeOK, MessagesOK
<1>2. Listed(k, ns[Binder], phase, listen, server_id, usurped)
  BY DEF ListInv, MessagesListed
<1>3. /\ m.src = k.src /\ m.dst = k.dst /\ m.type = k.type
      /\ m.id = k.id /\ m.func = k.func /\ m.name = k.name
      /\ m.state = k.state \/ m.state \in {"applying", "spent", "ignored"}
      /\ Coming(m) => Coming(k)
      /\ Unread(m) => Unread(k)
  BY DEF Later, Unread
<1> HIDE DEF k
<1>4. Confirming(m) => Confirming(k)
  BY <1>3 DEF Confirming
<1>5. Announcing(m) => Announcing(k)
  BY <1>3, <1>4 DEF Announcing
<1>6. SUFFICES ASSUME m.src \in Server
               PROVE  m.src \notin usurped' =>
                        /\ Confirming(m) => ns'[Binder].id_to_name[m.id] = m.name
                        /\ m.type = "REGISTER_DONE" =>
                             server_id'[m.src] \in ns'[Binder].func_to_ids[m.func]
  BY <1>2, <1>3, <1>4, <1>5 DEF Listed, PhaseKept
<1>7. (Confirming(m) \/ server_id[m.src] # NoId) /\ m.src \notin usurped' =>
        listen[m.src] # NoName /\ Announced(listen[m.src])
  BY <1>3, <1>4, <1>6, HeardOf DEF k
<1>9. ASSUME Confirming(m), m.src \notin usurped' PROVE ns'[Binder].id_to_name[m.id] = m.name
  <2>1. m.id \in Id /\ ns[Binder].id_to_name[m.id] = m.name /\ m.name = listen[m.src]
    BY <1>1, <1>2, <1>3, <1>4, <1>6, <1>9 DEF Listed, MessageOK, Confirming, Announcing
  <2> QED
    BY <1>7, <1>9, <2>1 DEF RecordsKept
<1>10. ASSUME m.type = "REGISTER_DONE", m.src \notin usurped'
       PROVE  server_id'[m.src] \in ns'[Binder].func_to_ids[m.func]
  <2>1. /\ server_id[m.src] \in Id /\ m.func \in Func
        /\ server_id[m.src] \in ns[Binder].func_to_ids[m.func]
    BY <1>1, <1>2, <1>3, <1>6, <1>10 DEF Listed, MessageOK
  <2>2. server_id[m.src] # NoId
    BY <2>1 DEF Id, NoId
  <2>3. ns[Binder].id_to_name[server_id[m.src]] = listen[m.src]
    BY <1>6, <1>10, <2>2 DEF ListInv, LiveServerListed
  <2> QED
    BY <1>7, <1>10, <2>1, <2>2, <2>3 DEF RecordsKept
<1> QED
  BY <1>9, <1>10

(* The records of servers are kept, and no message becomes an announcement. *)
LEMMA ListKeeps ==
  ASSUME TypeInv, ListInv, PhaseKept, RecordsKept(ns[Binder], ns'[Binder]),
         UNCHANGED <<listen, server_id>>, FunctionsListed, usurped \subseteq usurped',
         \A s \in Server : phase[s] = "down" => waits'[s] = waits[s],
         \A c \in Conn :
           \/ Advances(conn[c], conn'[c])
           \/ /\ Listed(conn'[c], ns'[Binder], phase', listen', server_id', usurped')
              /\ ~ Unread(conn'[c])
              /\ Announcing(conn'[c]) /\ conn'[c].src \in Server =>
                   Announcing(conn[c]) /\ conn'[c].src = conn[c].src
  PROVE  ListInv'
<1>1. ASSUME NEW c \in Conn
      PROVE  Listed(conn'[c], ns'[Binder], phase', listen', server_id', usurped')
  <2>1. CASE conn'[c] = conn[c] \/ (~ Unread(conn[c]) /\ Later(conn[c], conn'[c]))
    BY <2>1, ListedStays
  <2> QED
    BY <2>1, HarmlessListed DEF Advances
<1>2. MessagesListed'
  BY <1>1 DEF MessagesListed
<1>3. ASSUME NEW c \in Conn
      PROVE  /\ Unread(conn'[c]) => conn'[c] = conn[c]
             /\ Announcing(conn'[c]) /\ conn'[c].src \in Server =>
                  Announcing(conn[c]) /\ conn'[c].src = conn[c].src
  BY DEF Advances, Later, Harmless, Announcing, Confirming, Unread, Coming
<1>4. ServersListed'
  BY DEF ListInv, ServersListed, PhaseKept, FunctionsListed
<1>5. LiveServerListed'
  <2> SUFFICES ASSUME NEW s \in Server, server_id[s] # NoId, s \notin usurped'
               PROVE  /\ ns'[Binder].id_to_name[server_id[s]] = listen[s]
                      /\ \A f \in function_map'[s] :
                           server_id[s] \in ns'[Binder].func_to_ids[f]
    BY DEF LiveServerListed
  <2>1. server_id[s] \in Id /\ function_map[s] \subseteq Func
    BY DEF TypeInv, TypeOK
  <2>2. listen[s] # NoName /\ Announced(listen[s])
    BY HeardOf
  <2>3. ns[Binder].id_to_name[server_id[s]] = listen[s]
        /\ \A f \in function_map[s] : server_id[s] \in ns[Binder].func_to_ids[f]
    BY DEF ListInv, LiveServerListed
  <2> QED
    BY <2>1, <2>2, <2>3 DEF RecordsKept, FunctionsListed
<1>6. DistinctAddresses'
  BY DEF ListInv, DistinctAddresses
<1>7. OneAnnouncement'
  BY <1>3 DEF ListInv, OneAnnouncement
<1> QED
  BY <1>2, <1>4, <1>5, <1>6, <1>7 DEF ListInv

(* The waits of the servers, and the messages they are for, stay. *)
LEMMA WaitsKeep ==
  ASSUME WaitInv, \A s \in Server : waits'[s] = waits[s],
         \A c \in Conn :
           /\ conn[c].src \in Server /\ conn[c].type \in UpdateType =>
                conn'[c].src = conn[c].src /\ conn'[c].type \in UpdateType
           /\ conn'[c].src \in Server /\ Asking(conn'[c]) =>
                conn'[c].src = conn[c].src /\ Asking(conn[c]),
         TypeInv
  PROVE  WaitInv'
<1>1. WaitsOwn'
  <2>1. \A s \in Server : \A i \in 1 .. Len(waits[s]) : waits[s][i] \in Conn
    BY DEF TypeInv, TypeOK, Replica
  <2> QED
    BY <2>1 DEF WaitInv, WaitsOwn
<1>2. AsksCounted'
  <2> SUFFICES ASSUME NEW s \in Server
               PROVE  IsFiniteSet(Asks(s)') /\ Cardinality(Asks(s)') <= Len(waits[s])
    BY DEF AsksCounted
  <2>1. Asks(s)' \subseteq Asks(s)
    BY DEF Asks
  <2>2. IsFiniteSet(Asks(s)) /\ Cardinality(Asks(s)) <= Len(waits[s])
    BY DEF WaitInv, AsksCounted
  <2>3. IsFiniteSet(Asks(s)') /\ Cardinality(Asks(s)') <= Cardinality(Asks(s))
    BY <2>1, <2>2, FS_Subset
  <2>4. Cardinality(Asks(s)) \in Nat /\ Cardinality(Asks(s)') \in Nat /\ Len(waits[s]) \in Nat
    BY <2>2, <2>3, FS_CardinalityType DEF TypeInv, TypeOK, Replica
  <2> QED
    BY <2>2, <2>3, <2>4
<1> QED
  BY <1>1, <1>2 DEF WaitInv

(* Functions that stay are listed as before. *)
LEMMA FunctionsStay == ASSUME function_map' = function_map PROVE FunctionsListed
BY DEF FunctionsListed

(* A step that changes at most one message and moves no server.             *)
LEMMA OneAdvance ==
  ASSUME TypeInv, ServerInv, PhaseKept, RecordsKept(ns[Binder], ns'[Binder]),
         UNCHANGED <<waits, listen, server_id, function_map, usurped>>,
         NEW c \in Conn, NEW m, conn' = [conn EXCEPT ![c] = m],
         \/ m = conn[c]
         \/ /\ ~ Unread(conn[c])
            /\ \/ Later(conn[c], m)
               \/ Harmless(m)
               \/ ~ Announcing(m) /\ Listed(m, ns'[Binder], phase', listen', server_id', usurped')
            /\ conn[c].src \in Server /\ conn[c].type \in UpdateType =>
                 m.src = conn[c].src /\ m.type \in UpdateType
            /\ m.src \in Server /\ Asking(m) => m.src = conn[c].src /\ Asking(conn[c])
  PROVE  ServerInv'
<1>1. conn'[c] = m /\ \A k \in Conn : k = c \/ conn'[k] = conn[k]
  BY DEF TypeInv, TypeOK
<1>2. \A k \in Conn :
        \/ Advances(conn[k], conn'[k])
        \/ ~ Announcing(conn'[k]) /\ ~ Unread(conn'[k])
           /\ Listed(conn'[k], ns'[Binder], phase', listen', server_id', usurped')
  BY <1>1 DEF Advances, Announcing
<1>4. ListInv'
  BY <1>2, FunctionsStay, ListKeeps DEF ServerInv
<1>5. \A k \in Conn :
        /\ conn[k].src \in Server /\ conn[k].type \in UpdateType =>
             conn'[k].src = conn[k].src /\ conn'[k].type \in UpdateType
        /\ conn'[k].src \in Server /\ Asking(conn'[k]) =>
             conn'[k].src = conn[k].src /\ Asking(conn[k])
  BY <1>1
<1>6. WaitInv'
  BY <1>5, WaitsKeep DEF ServerInv
<1> QED
  BY <1>4, <1>6 DEF ServerInv

(* A call of the library is entered or left by a server that is up. *)
LEMMA PhaseMoves ==
  ASSUME TypeInv, NEW p, NEW next, phase' = [phase EXCEPT ![p] = next],
         p \in Server => phase[p] \notin {"down", "init"} /\ next \notin {"down", "init"}
  PROVE  PhaseKept
BY DEF TypeInv, TypeOK, PhaseKept, Replica

(* Phases that stay are kept. *)
LEMMA PhaseStays == ASSUME phase' = phase PROVE PhaseKept
BY DEF PhaseKept

(* A directory keeps its own records. *)
LEMMA RecordsStay == ASSUME NEW b PROVE RecordsKept(b, b)
BY DEF RecordsKept

(* What the invariants say of one message, for citation. *)
LEMMA MessageFacts ==
  ASSUME TypeInv, ServerInv, NEW c \in Conn
  PROVE  /\ conn[c] \in Connection /\ MessageOK(conn[c], server_id)
         /\ Listed(conn[c], ns[Binder], phase, listen, server_id, usurped)
         /\ conn[c].state = "free" => conn[c].src = Nobody /\ ~ Unread(conn[c])
         /\ conn[c].dst \in Server => conn[c].src \notin Server /\ ~ Unread(conn[c])
         /\ conn[c].type \in CallType => conn[c].src \notin Server
BY NobodyElse
   DEF TypeInv, TypeOK, MessagesOK, ServerInv, ListInv, MessagesListed, Listed, Unread

(* A reply to somebody who is not a server. *)
LEMMA RepliedHarmless ==
  ASSUME TypeInv, ServerInv, NEW c \in Conn, conn[c].src \notin Server,
         NEW type \in MessageType \ (UpdateType \cup {"I_AM_SERVER"}),
         NEW id \in Id \cup {NoId}, NEW d \in Directories
  PROVE  Harmless(Replied(conn[c], type, id, d))
<1>1. CASE conn[c].src = Nobody
  BY <1>1, ClosedHarmless DEF Replied
<1>2. CASE conn[c].src # Nobody
  <2> DEFINE r == Replied(conn[c], type, id, d)
  <2>1. r.src = conn[c].src /\ r.state = "reply" /\ r.type = type
    BY <1>2, MessageFacts, RepliedType
  <2>2. Harmless(r)
    <3> HIDE DEF r
    <3> QED
      BY <2>1 DEF Harmless, Unread
  <2> QED
    BY <2>2
<1> QED
  BY <1>1, <1>2

-----------------------------------------------------------------------------
(* The steps of a server that runs, but for NewServerExecute. *)
LEMMA ServerStepListed ==
  ASSUME TypeInv, ServerInv, NEW s \in Server,
         \/ \E f \in Func : RpcRegister(s, f)
         \/ RpcExecute(s) \/ RpcExecuteWithoutRegister(s)
         \/ \E c \in Conn : AcceptExecute(c, s) \/ RefuseExecute(c, s)
                            \/ DropOtherRequest(c, s)
  PROVE  ServerInv'
<1>1. RecordsKept(ns[Binder], ns[Binder]) /\ conn \in [Conn -> Connection]
  BY RecordsStay DEF TypeInv, TypeOK
<1>2. ASSUME NEW f \in Func, RpcRegister(s, f) PROVE ServerInv'
  <2> DEFINE r == Request("REGISTER", s, Binder)
             m == [r EXCEPT !.id = server_id[s], !.func = f]
  <2>1. PICK c \in Conn : Free(c) /\ conn' = [conn EXCEPT ![c] = m]
    BY <1>2 DEF RpcRegister
  <2>2. m.src = s /\ m.dst = Binder /\ m.state = "request" /\ m.type = "REGISTER"
        /\ m.id = server_id[s]
    BY DEF Request
  <2>3. PhaseKept /\ phase'[s] # "down"
    BY <1>2, PhaseMoves DEF RpcRegister, TypeInv, TypeOK, Replica
  <2>4. UNCHANGED <<ns, waits, listen, server_id, function_map, usurped>>
    BY <1>2 DEF RpcRegister, serverVars
  <2> HIDE DEF m
  <2>5. /\ Listed(m, ns'[Binder], phase', listen', server_id', usurped')
        /\ ~ Announcing(m) /\ ~ Asking(m)
    BY <2>2, <2>3, <2>4, NobodyElse
       DEF Listed, Announcing, Unread, Confirming, Asking, UpdateType, CallType
  <2>6. conn[c].src \notin Server /\ ~ Unread(conn[c])
    BY <2>1, MessageFacts, NobodyElse DEF Free
  <2> QED
    BY <1>1, <2>1, <2>3, <2>4, <2>5, <2>6, OneAdvance
<1>3. CASE RpcExecute(s)
  <2> DEFINE m == Notification("NEW_SERVER_EXECUTE", s, Binder)
  <2>1. PICK c \in Conn : Free(c) /\ conn' = [conn EXCEPT ![c] = m]
    BY <1>3 DEF RpcExecute
  <2>2. m.src = Nobody /\ m.state = "request" /\ m.type = "NEW_SERVER_EXECUTE"
    BY DEF Notification, Request
  <2>3. PhaseKept
    BY <1>3, PhaseMoves DEF RpcExecute
  <2>4. UNCHANGED <<ns, waits, listen, server_id, function_map, usurped>>
    BY <1>3 DEF RpcExecute, serverVars
  <2> HIDE DEF m
  <2>5. Harmless(m)
    BY <2>2, NobodyElse DEF Harmless, Unread
  <2>6. conn[c].src \notin Server /\ ~ Unread(conn[c])
    BY <2>1, MessageFacts, NobodyElse DEF Free
  <2> QED
    BY <1>1, <2>1, <2>2, <2>3, <2>4, <2>5, <2>6, NobodyElse, OneAdvance
<1>4. CASE RpcExecuteWithoutRegister(s)
  <2>1. PhaseKept
    BY <1>4, PhaseMoves DEF RpcExecuteWithoutRegister
  <2>2. UNCHANGED <<ns, conn, waits, listen, server_id, function_map, usurped>>
    BY <1>4 DEF RpcExecuteWithoutRegister, serverVars
  <2>3. ListInv'
    BY <1>1, <2>1, <2>2, FunctionsStay, ListKeeps DEF ServerInv, Advances
  <2>4. WaitInv'
    BY <2>2, WaitsKeep DEF ServerInv
  <2> QED
    BY <2>3, <2>4 DEF ServerInv
<1>5. ASSUME NEW c \in Conn, AcceptExecute(c, s) PROVE ServerInv'
  <2> DEFINE m == [conn[c] EXCEPT !.state = "running"]
  <2>1. conn[c].type = "EXECUTE" /\ conn[c].dst = s
    BY <1>5 DEF AcceptExecute, Execute
  <2>2. conn[c].src \notin Server /\ ~ Unread(conn[c])
    BY <2>1, MessageFacts
  <2>3. m.src = conn[c].src /\ m.state = "running" /\ m.type = "EXECUTE"
    BY <2>1, MessageFacts DEF Connection
  <2>4. conn' = [conn EXCEPT ![c] = m] /\ PhaseKept
        /\ UNCHANGED <<ns, waits, listen, server_id, function_map, usurped>>
    BY <1>5, PhaseStays DEF AcceptExecute, serverVars
  <2> HIDE DEF m
  <2>5. Harmless(m)
    BY <2>2, <2>3 DEF Harmless, Unread, UpdateType
  <2> QED
    BY <1>1, <2>2, <2>3, <2>4, <2>5, OneAdvance
<1>6. ASSUME NEW c \in Conn, RefuseExecute(c, s) PROVE ServerInv'
  <2> DEFINE m == Replied(conn[c], "EXECUTE_REPLY", NoId, ns[s])
  <2>1. conn[c].type = "EXECUTE" /\ conn[c].dst = s
    BY <1>6 DEF RefuseExecute, Execute
  <2>2. conn[c].src \notin Server /\ ~ Unread(conn[c])
    BY <2>1, MessageFacts
  <2>3. ns[s] \in Directories
    BY DEF TypeInv, TypeOK, Process, Replica
  <2>4. Harmless(m)
    BY <2>2, <2>3, RepliedHarmless DEF MessageType, UpdateType
  <2>5. phase[s] \notin {"down", "init"}
    BY <1>6 DEF RefuseExecute, Execute, Desired
  <2>6. conn' = [conn EXCEPT ![c] = m] /\ PhaseKept
        /\ UNCHANGED <<ns, waits, listen, server_id, function_map, usurped>>
    BY <1>6, <2>5, PhaseMoves DEF RefuseExecute, Answer, serverVars
  <2> HIDE DEF m
  <2>7. m.src \notin Server
    BY <2>4 DEF Harmless
  <2> QED
    BY <1>1, <2>2, <2>4, <2>6, <2>7, OneAdvance
<1>7. ASSUME NEW c \in Conn, DropOtherRequest(c, s) PROVE ServerInv'
  <2> DEFINE k == conn[c]
             m == Dropped(k)
  <2>1. \/ k.state = "request" /\ k.dst = s
        \/ k.state = "reply" /\ k.src = s
    BY <1>7 DEF DropOtherRequest, OtherRequest
  <2>2. k \in Connection /\ ~ Unread(k)
    BY <2>1, MessageFacts DEF Unread
  <2>3. conn' = [conn EXCEPT ![c] = m] /\ PhaseKept
        /\ UNCHANGED <<ns, waits, listen, server_id, function_map, usurped>>
    BY <1>7, PhaseStays DEF DropOtherRequest, serverVars
  <2>4. CASE k.src = Nobody
    <3>1. m = Closed
      BY <2>4 DEF Dropped
    <3> HIDE DEF m
    <3> QED
      BY <1>1, <2>2, <2>3, <2>4, <3>1, ClosedHarmless, ClosedType, NobodyElse, OneAdvance
  <2>5. CASE k.src # Nobody
    <3>1. /\ m.src = k.src /\ m.dst = k.dst /\ m.type = k.type /\ m.id = k.id
          /\ m.func = k.func /\ m.name = k.name /\ m.state \in {"ignored", "spent"}
      BY <2>2, <2>5 DEF Dropped, Connection
    <3> HIDE DEF k, m
    <3>2. Later(k, m) /\ ~ Asking(m)
      BY <3>1 DEF Later, Coming, Asking
    <3> QED
      BY <1>1, <2>2, <2>3, <3>1, <3>2, OneAdvance DEF k
  <2> QED
    BY <2>4, <2>5
<1> QED
  BY <1>2, <1>3, <1>4, <1>5, <1>6, <1>7

(* The steps of a client. *)
LEMMA ClientDeathHarmless ==
  ASSUME TypeInv, ServerInv, NEW p \in Client, NEW c \in Conn
  PROVE  \/ AfterDeath(conn[c], p) = conn[c]
         \/ Harmless(AfterDeath(conn[c], p)) /\ ~ Unread(conn[c]) /\ conn[c].src \notin Server
<1> DEFINE k == conn[c]
           m == AfterDeath(k, p)
<1>1. k \in Connection /\ Listed(k, ns[Binder], phase, listen, server_id, usurped)
  BY MessageFacts
<1>2. p \notin Server /\ p # Binder /\ p # Nobody
  BY NobodyElse
<1>3. CASE k.src = p
  <2>1. ~ Unread(k) /\ k.type \notin UpdateType
    BY <1>1, <1>3 DEF Listed
  <2>2. CASE k.state \in {"request", "running"}
    <3>1. m = [k EXCEPT !.src = Nobody]
      BY <1>3, <2>2 DEF AfterDeath
    <3>2. m.src = Nobody /\ m.type = k.type /\ m.state = k.state
      BY <1>1, <3>1 DEF Connection
    <3> HIDE DEF m, k
    <3>3. Harmless(m)
      BY <2>1, <3>2, NobodyElse DEF Harmless, Unread
    <3> QED
      BY <1>2, <1>3, <2>1, <3>3 DEF m, k
  <2>3. CASE k.state \notin {"request", "running"}
    <3>1. m = Closed
      BY <1>3, <2>3 DEF AfterDeath
    <3> QED
      BY <1>2, <1>3, <2>1, <3>1, ClosedHarmless
  <2> QED
    BY <2>2, <2>3
<1>4. CASE k.src # p /\ k.dst = p /\ k.state \in {"request", "running", "ignored"}
  <2>1. k.src \notin Server /\ ~ Unread(k)
    BY <1>1, <1>2, <1>4 DEF Listed
  <2>2. CASE k.src = Nobody
    BY <1>4, <2>1, <2>2, ClosedHarmless DEF AfterDeath
  <2>3. CASE k.src # Nobody
    <3>1. m = [k EXCEPT !.state = "eof"]
      BY <1>4, <2>3 DEF AfterDeath
    <3>2. m.src = k.src /\ m.type = k.type /\ m.state = "eof"
      BY <1>1, <3>1 DEF Connection
    <3> HIDE DEF m, k
    <3>3. Harmless(m)
      BY <1>1, <2>1, <3>2 DEF Harmless, Unread, Listed
    <3> QED
      BY <2>1, <3>3 DEF m, k
  <2> QED
    BY <2>2, <2>3
<1>5. CASE k.src # p /\ ~ (k.dst = p /\ k.state \in {"request", "running", "ignored"})
  BY <1>5 DEF AfterDeath
<1> QED
  BY <1>3, <1>4, <1>5

(* The steps of a client. *)
LEMMA ClientStepListed ==
  ASSUME TypeInv, ServerInv, NEW p \in Client, ClientStep(p)
  PROVE  ServerInv'
<1>1. RecordsKept(ns[Binder], ns[Binder]) /\ conn \in [Conn -> Connection]
  BY RecordsStay DEF TypeInv, TypeOK
<1>2. p \notin Server /\ p # Binder /\ p # Nobody
  BY NobodyElse
<1>3. ASSUME NEW f \in Func, RpcCall(p, f) PROVE ServerInv'
  <2> DEFINE r == Request("LOC_REQUEST", p, Binder)
             m == [r EXCEPT !.func = f]
  <2>1. PICK c \in Conn : Free(c) /\ conn' = [conn EXCEPT ![c] = m]
    BY <1>3 DEF RpcCall
  <2>2. m.src = p /\ m.state = "request" /\ m.type = "LOC_REQUEST"
    BY DEF Request
  <2>3. PhaseKept
    BY <1>2, <1>3, PhaseMoves DEF RpcCall
  <2>4. UNCHANGED <<ns, waits, listen, server_id, function_map, usurped>>
    BY <1>3 DEF RpcCall, serverVars
  <2> HIDE DEF m
  <2>5. Harmless(m)
    BY <1>2, <2>2 DEF Harmless, Unread, UpdateType
  <2>6. conn[c].src \notin Server /\ ~ Unread(conn[c])
    BY <2>1, MessageFacts, NobodyElse DEF Free
  <2> QED
    BY <1>1, <1>2, <2>1, <2>2, <2>3, <2>4, <2>5, <2>6, OneAdvance
<1>4. CASE ClientDies(p)
  <2>1. \A c \in Conn : conn'[c] = AfterDeath(conn[c], p)
    BY <1>4 DEF ClientDies, Die
  <2>2. \A c \in Conn :
          \/ conn'[c] = conn[c]
          \/ Harmless(conn'[c]) /\ ~ Unread(conn[c]) /\ conn[c].src \notin Server
    BY <2>1, ClientDeathHarmless
  <2>3. /\ UNCHANGED <<listen, server_id, function_map, usurped>>
        /\ ns'[Binder] = ns[Binder]
        /\ waits' = [waits EXCEPT ![p] = <<>>]
        /\ \A s \in Server : waits'[s] = waits[s]
        /\ PhaseKept
    BY <1>2, <1>4, PhaseMoves
       DEF ClientDies, Die, serverVars, TypeInv, TypeOK, Replica, Process
  <2>4. ListInv'
    BY <1>1, <2>2, <2>3, FunctionsStay, ListKeeps DEF ServerInv, Advances
  <2>5. WaitInv'
    BY <2>2, <2>3, WaitsKeep DEF ServerInv, Harmless
  <2> QED
    BY <2>4, <2>5 DEF ServerInv
<1> QED
  BY <1>3, <1>4 DEF ClientStep

(* Reading, but for the ends of rpcInit, rpcRegister and of a nested wait.  *)
LEMMA ReceiveListed ==
  ASSUME TypeInv, ServerInv, NEW c \in Conn,
         \/ ApplyLogs(c) \/ WorkerReply(c)
         \/ \E s \in Server : RpcCallHelper(c, s)
         \/ RpcCallFails(c) \/ RpcCallDone(c) \/ RemoteDisconnected(c)
  PROVE  ServerInv'
<1> DEFINE k == conn[c]
<1>1. RecordsKept(ns[Binder], ns[Binder]) /\ conn \in [Conn -> Connection]
  BY RecordsStay DEF TypeInv, TypeOK
<1>2. k \in Connection /\ MessageOK(k, server_id)
      /\ Listed(k, ns[Binder], phase, listen, server_id, usurped)
      /\ (k.type \in CallType => k.src \notin Server)
  BY MessageFacts
<1>3. CASE ApplyLogs(c)
  <2> DEFINE m == [k EXCEPT !.state = "applying", !.delta = Tail(k.delta)]
  <2>1. Coming(k)
    BY <1>3 DEF ApplyLogs, Receiving, Coming
  <2>2. /\ m.src = k.src /\ m.dst = k.dst /\ m.type = k.type /\ m.id = k.id
        /\ m.func = k.func /\ m.name = k.name /\ m.state = "applying"
    BY <1>2 DEF Connection
  <2>3. conn' = [conn EXCEPT ![c] = m] /\ PhaseKept
        /\ UNCHANGED <<waits, listen, server_id, function_map, usurped>>
    BY <1>3, PhaseStays DEF ApplyLogs, serverVars
  <2>4. ns'[Binder] = ns[Binder]
    <3>1. k.src # Binder
      BY <1>2, <2>1, NobodyElse DEF MessageOK, Coming, Replica
    <3> QED
      BY <1>3, <3>1 DEF ApplyLogs, TypeInv, TypeOK, Process
  <2> HIDE DEF m, k
  <2>5. Later(k, m) /\ (Asking(m) => Asking(k)) /\ ~ Unread(k)
    BY <2>1, <2>2 DEF Later, Asking, Coming, Unread
  <2> QED
    BY <1>1, <2>2, <2>3, <2>4, <2>5, OneAdvance DEF k
<1>4. CASE WorkerReply(c)
  <2> DEFINE m == Replied(k, "EXECUTE_REPLY", NoId, ns[k.dst])
  <2>1. k.dst \in Server /\ k.state = "running"
    BY <1>2, <1>4 DEF WorkerReply, MessageOK
  <2>2. k.src \notin Server /\ ~ Unread(k)
    BY <2>1, MessageFacts
  <2>3. ns[k.dst] \in Directories
    BY <2>1 DEF TypeInv, TypeOK, Process, Replica
  <2>4. Harmless(m)
    BY <2>2, <2>3, RepliedHarmless DEF MessageType, UpdateType
  <2>5. conn' = [conn EXCEPT ![c] = m] /\ PhaseKept
        /\ UNCHANGED <<ns, waits, listen, server_id, function_map, usurped>>
    BY <1>4, PhaseStays DEF WorkerReply, Answer, serverVars
  <2> HIDE DEF m
  <2>6. m.src \notin Server
    BY <2>4 DEF Harmless
  <2> QED
    BY <1>1, <2>2, <2>4, <2>5, <2>6, OneAdvance
<1>5. ASSUME NEW s \in Server, RpcCallHelper(c, s) PROVE ServerInv'
  <2> DEFINE r == Request("EXECUTE", k.src, s)
             m == [r EXCEPT !.func = k.func]
  <2>1. k.type = "LOC_REPLY" /\ k.src \notin Server
    BY <1>2, <1>5 DEF RpcCallHelper, Located, Received, CallType
  <2>2. m.src = k.src /\ m.state = "request" /\ m.type = "EXECUTE"
    BY DEF Request
  <2>3. conn' = [conn EXCEPT ![c] = m] /\ PhaseKept
        /\ UNCHANGED <<ns, waits, listen, server_id, function_map, usurped>>
    BY <1>5, <2>1, PhaseMoves DEF RpcCallHelper, serverVars
  <2> HIDE DEF m
  <2>4. Harmless(m) /\ ~ Unread(k)
    BY <2>1, <2>2 DEF Harmless, Unread, UpdateType
  <2> QED
    BY <1>1, <2>1, <2>2, <2>3, <2>4, OneAdvance
<1>6. CASE RpcCallFails(c) \/ RpcCallDone(c) \/ RemoteDisconnected(c)
  <2>1. k.src \notin Server /\ ~ Unread(k)
    BY <1>2, <1>6
       DEF RpcCallFails, RpcCallDone, RemoteDisconnected, Received, CallType, Listed, Unread
  <2>2. conn' = [conn EXCEPT ![c] = Closed] /\ PhaseKept
        /\ UNCHANGED <<ns, waits, listen, server_id, function_map, usurped>>
    BY <1>6, <2>1, PhaseMoves DEF RpcCallFails, RpcCallDone, RemoteDisconnected, serverVars
  <2>3. Harmless(Closed) /\ Closed.src \notin Server
    BY ClosedHarmless DEF Harmless
  <2> QED
    BY <1>1, <2>1, <2>2, <2>3, OneAdvance
<1> QED
  BY <1>3, <1>4, <1>5, <1>6

-----------------------------------------------------------------------------
(* The binder. *)

(* kill of an id nobody listens for, and what suggest does to candidates.   *)
LEMMA KillKeepsRecords ==
  ASSUME NEW b \in Directories, NEW id \in Id, ~ Announced(b.id_to_name[id])
  PROVE  RecordsKept(b, Kill(b, id))
<1>1. /\ Kill(b, id).id_to_name = [b.id_to_name EXCEPT ![id] = NoName]
      /\ Kill(b, id).func_to_ids = b.func_to_ids
  BY KillEffect DEF Kill, Directories
<1>2. b.id_to_name \in [Id -> Name \cup {NoName}]
  BY DEF Directories
<1> QED
  BY <1>1, <1>2 DEF RecordsKept

(* suggest, erasing a candidate that has no live server, keeps the records. *)
LEMMA EraseKeepsRecords ==
  ASSUME NEW b \in Directories, NEW id \in Id, NEW func \in Func,
         b.id_to_name[id] = NoName \/ ~ Announced(b.id_to_name[id])
  PROVE  RecordsKept(b, EraseCandidate(b, func, id))
<1>1. /\ EraseCandidate(b, func, id).id_to_name = b.id_to_name
      /\ EraseCandidate(b, func, id).func_to_ids =
           [b.func_to_ids EXCEPT ![func] = b.func_to_ids[func] \ {id}]
  BY DEF EraseCandidate, Directories
<1>2. b.func_to_ids \in [Func -> SUBSET Id]
  BY DEF Directories
<1> QED
  BY <1>1, <1>2 DEF RecordsKept

(* register_fn keeps the records, and adds one candidate. *)
LEMMA RegisterFnKeepsRecords ==
  ASSUME NEW b \in Directories, NEW id \in Id, NEW func \in Func
  PROVE  /\ RecordsKept(b, RegisterFn(b, id, func))
         /\ id \in RegisterFn(b, id, func).func_to_ids[func]
<1>1. /\ RegisterFn(b, id, func).id_to_name = b.id_to_name
      /\ RegisterFn(b, id, func).func_to_ids =
           [b.func_to_ids EXCEPT ![func] = b.func_to_ids[func] \cup {id}]
  BY DEF RegisterFn, Directories
<1>2. b.func_to_ids \in [Func -> SUBSET Id]
  BY DEF Directories
<1> QED
  BY <1>1, <1>2 DEF RecordsKept

(* Two changes that keep the records do so together. *)
LEMMA RecordsKeptAgain ==
  ASSUME NEW b, NEW d, NEW e, RecordsKept(b, d), RecordsKept(d, e)
  PROVE  RecordsKept(b, e)
BY DEF RecordsKept

(* A handler that answers c, which does not announce a server. *)
LEMMA BinderAnswersListed ==
  ASSUME TypeInv, ServerInv, NEW c \in Conn, NEW type \in MessageType, NEW id \in Id \cup {NoId},
         NEW d \in Directories,
         conn' = [conn EXCEPT ![c] = Replied(conn[c], type, id, d)],
         UNCHANGED <<phase, waits, listen, server_id, function_map, usurped>>,
         RecordsKept(ns[Binder], ns'[Binder]), ~ Unread(conn[c]),
         \/ type = "LOC_REPLY" /\ conn[c].type \in CallType
         \/ /\ type = "REGISTER_DONE" /\ conn[c].type = "REGISTER"
            /\ conn[c].id \in ns'[Binder].func_to_ids[conn[c].func]
         \/ type = "NS_UPDATE_SENT" /\ conn[c].type = "ASK_NS_UPDATE" /\ conn[c].state = "request"
  PROVE  ServerInv'
<1> DEFINE k == conn[c]
           m == Replied(k, type, id, d)
<1>1. k \in Connection /\ conn \in [Conn -> Connection]
      /\ Listed(k, ns[Binder], phase, listen, server_id, usurped)
      /\ (k.type \in CallType => k.src \notin Server)
  BY MessageFacts DEF TypeInv, TypeOK
<1>2. PhaseKept
  BY PhaseStays
<1>3. CASE k.src = Nobody
  <2>1. m = Closed
    BY <1>3 DEF Replied
  <2>2. Harmless(m) /\ m.src \notin Server
    BY <2>1, ClosedHarmless DEF Harmless
  <2> HIDE DEF m
  <2> QED
    BY <1>2, <1>3, <2>2, NobodyElse, OneAdvance DEF m
<1>4. CASE k.src # Nobody
  <2>1. /\ m.state = "reply" /\ m.type = type /\ m.src = k.src /\ m.dst = k.dst
        /\ m.func = k.func
    BY <1>1, <1>4, RepliedType
  <2> HIDE DEF m
  <2>2. Listed(m, ns'[Binder], phase', listen', server_id', usurped') /\ ~ Announcing(m)
    BY <1>1, <2>1 DEF Listed, Announcing, Confirming, Unread, UpdateType, CallType
  <2>3. /\ k.src \in Server /\ k.type \in UpdateType => m.type \in UpdateType
        /\ m.src \in Server /\ Asking(m) => Asking(k)
    BY <2>1 DEF Asking, UpdateType, CallType
  <2> QED
    BY <1>2, <2>1, <2>2, <2>3, OneAdvance DEF m
<1> QED
  BY <1>3, <1>4

(* The handlers of the binder, but that of I_AM_SERVER. *)
LEMMA HandleListed ==
  ASSUME TypeInv, ServerInv, NEW c \in Conn,
         \/ PeerUnknown(c) \/ HandleRegister(c) \/ HandleAskNsUpdate(c)
         \/ HandleLocRequest(c) \/ HandleNewServerExecute(c)
  PROVE  ServerInv'
<1> DEFINE b == ns[Binder]
<1>1. b \in Directories /\ Binder \in Process /\ MessageOK(conn[c], server_id)
      /\ ns \in [Process -> Directories]
  BY MessageFacts DEF TypeInv, TypeOK, Process
<1>2. CASE HandleRegister(c)
  <2> DEFINE d == RegisterFn(b, conn[c].id, conn[c].func)
  <2>1. conn[c].type = "REGISTER" /\ conn[c].id \in Id /\ conn[c].func \in Func
    BY <1>1, <1>2 DEF HandleRegister, HandleRequest, MessageOK
  <2>2. d \in Directories /\ RecordsKept(b, d) /\ conn[c].id \in d.func_to_ids[conn[c].func]
    BY <1>1, <2>1, RegisterFnType, RegisterFnKeepsRecords
  <2>3. /\ conn' = [conn EXCEPT ![c] = Replied(conn[c], "REGISTER_DONE", NoId, d)]
        /\ ns'[Binder] = d
        /\ UNCHANGED <<phase, waits, listen, server_id, function_map, usurped>>
    BY <1>1, <1>2 DEF HandleRegister, Answer, serverVars
  <2> HIDE DEF d
  <2> QED
    BY <2>1, <2>2, <2>3, BinderAnswersListed DEF MessageType, Unread
<1>3. CASE HandleAskNsUpdate(c)
  <2>1. /\ conn' = [conn EXCEPT ![c] = Replied(conn[c], "NS_UPDATE_SENT", NoId, b)]
        /\ UNCHANGED <<ns, phase, waits, listen, server_id, function_map, usurped>>
        /\ conn[c].type = "ASK_NS_UPDATE" /\ conn[c].state = "request"
    BY <1>3 DEF HandleAskNsUpdate, HandleRequest, Answer, serverVars
  <2> QED
    BY <1>1, <2>1, RecordsStay, BinderAnswersListed DEF MessageType, Unread
<1>4. CASE HandleLocRequest(c) \/ HandleNewServerExecute(c)
  <2>1. UNCHANGED <<ns, conn, phase, waits, listen, server_id, function_map, usurped>>
    BY <1>4 DEF HandleLocRequest, HandleNewServerExecute, serverVars
  <2>2. conn' = [conn EXCEPT ![c] = conn[c]]
    BY <2>1 DEF TypeInv, TypeOK
  <2> QED
    BY <2>1, <2>2, RecordsStay, PhaseStays, OneAdvance
<1>5. CASE PeerUnknown(c)
  <2>1. /\ conn' = [conn EXCEPT ![c] = Closed] /\ conn[c].src = Nobody
        /\ UNCHANGED <<ns, phase, waits, listen, server_id, function_map, usurped>>
    BY <1>5 DEF PeerUnknown, serverVars
  <2>2. conn'[c] = Closed /\ \A k \in Conn : k = c \/ conn'[k] = conn[k]
    BY <2>1 DEF TypeInv, TypeOK
  <2>3. Closed.src = Nobody /\ ~ Announcing(Closed) /\ ~ Unread(Closed)
        /\ \A at, names, ids, lost : Listed(Closed, b, at, names, ids, lost)
    BY ClosedHarmless, ClosedType, HarmlessListed DEF Announcing, Unread, Confirming
  <2>4. \A k \in Conn :
          \/ Advances(conn[k], conn'[k])
          \/ /\ Listed(conn'[k], ns'[Binder], phase', listen', server_id', usurped')
             /\ ~ Unread(conn'[k]) /\ ~ Announcing(conn'[k])
    BY <2>1, <2>2, <2>3 DEF Advances
  <2>5. ListInv'
    BY <2>1, <2>4, PhaseStays, FunctionsStay, RecordsStay, ListKeeps DEF ServerInv
  <2>6. WaitInv'
    BY <2>1, <2>2, <2>3, NobodyElse, WaitsKeep DEF ServerInv
  <2> QED
    BY <2>5, <2>6 DEF ServerInv
<1> QED
  BY <1>2, <1>3, <1>4, <1>5

(* The turns of the binder's loops over candidates and names. *)
LEMMA ServeListed ==
  ASSUME TypeInv, LogInv, ServerInv, NEW c \in Conn, Serve(c)
  PROVE  ServerInv'
<1> DEFINE b == ns[Binder]
           f == conn[c].func
<1>1. b \in Directories /\ Follows(b) /\ MessageOK(conn[c], server_id)
      /\ ns \in [Process -> Directories] /\ Binder \in Process
  BY MessageFacts DEF TypeInv, TypeOK, Process, LogInv, NamesFollowLog
<1>2. conn' = conn => conn' = [conn EXCEPT ![c] = conn[c]]
  BY DEF TypeInv, TypeOK
<1>3. ASSUME UNCHANGED <<conn, phase, waits, listen, server_id, function_map, usurped>>,
             RecordsKept(b, ns'[Binder])
      PROVE  ServerInv'
  BY <1>2, <1>3, PhaseStays, OneAdvance
<1>4. Suggesting(c) => f \in Func /\ conn[c].type \in CallType /\ ~ Unread(conn[c])
  BY <1>1 DEF Suggesting, MessageOK, CallType, Unread
<1>5. CASE NoSuggestion(c)
  <2>1. /\ conn' = [conn EXCEPT ![c] = Replied(conn[c], "LOC_REPLY", NoId, b)]
        /\ UNCHANGED <<ns, phase, waits, listen, server_id, function_map, usurped>>
        /\ Suggesting(c)
    BY <1>5 DEF NoSuggestion, Answer, serverVars
  <2> QED
    BY <1>1, <1>4, <2>1, RecordsStay, BinderAnswersListed DEF MessageType
<1>6. CASE NotifyDone(c)
  <2>1. /\ conn' = [conn EXCEPT ![c] = Closed]
        /\ UNCHANGED <<ns, phase, waits, listen, server_id, function_map, usurped>>
        /\ conn[c].type = "NEW_SERVER_EXECUTE"
    BY <1>6 DEF NotifyDone, serverVars
  <2>2. Harmless(Closed) /\ Closed.src \notin Server
    BY ClosedHarmless DEF Harmless
  <2>3. ~ Unread(conn[c]) /\ conn[c].type \notin UpdateType
    BY <2>1 DEF Unread, UpdateType
  <2> QED
    BY <2>1, <2>2, <2>3, RecordsStay, PhaseStays, OneAdvance
<1>7. ASSUME NEW id \in Id, SkipUnresolvable(c, id) PROVE ServerInv'
  <2>1. f \in Func /\ b.id_to_name[id] = NoName
    BY <1>4, <1>7 DEF SkipUnresolvable, Candidate
  <2>2. ns'[Binder] = EraseCandidate(b, f, id)
        /\ UNCHANGED <<conn, phase, waits, listen, server_id, function_map, usurped>>
    BY <1>1, <1>7 DEF SkipUnresolvable, serverVars
  <2>3. RecordsKept(b, ns'[Binder])
    BY <1>1, <2>1, <2>2, EraseKeepsRecords
  <2> QED
    BY <1>3, <2>2, <2>3
<1>8. ASSUME NEW id \in Id, KillCandidate(c, id) PROVE ServerInv'
  <2> DEFINE d == Kill(b, id)
  <2>1. f \in Func /\ ~ Announced(b.id_to_name[id])
    BY <1>4, <1>8 DEF KillCandidate, Candidate, Listening, Announced
  <2>2. d \in Directories /\ RecordsKept(b, d) /\ d.id_to_name[id] = NoName
    <3>1. d.id_to_name = [b.id_to_name EXCEPT ![id] = NoName]
      BY <1>1, KillEffect
    <3>2. d.id_to_name[id] = NoName
      BY <1>1, <3>1 DEF Directories
    <3> QED
      BY <1>1, <2>1, <3>2, KillType, KillKeepsRecords
  <2>3. ns'[Binder] = EraseCandidate(d, f, id)
        /\ UNCHANGED <<conn, phase, waits, listen, server_id, function_map, usurped>>
    BY <1>1, <1>8 DEF KillCandidate, serverVars
  <2> HIDE DEF d
  <2>4. RecordsKept(b, ns'[Binder])
    BY <2>1, <2>2, <2>3, EraseKeepsRecords, RecordsKeptAgain
  <2> QED
    BY <1>3, <2>3, <2>4
<1>9. ASSUME NEW id \in Id, Suggest(c, id) PROVE ServerInv'
  <2> DEFINE e == MovePivot(b, f, NextPivot(b, f))
  <2>1. /\ conn' = [conn EXCEPT ![c] = Replied(conn[c], "LOC_REPLY", id, b)]
        /\ UNCHANGED <<phase, waits, listen, server_id, function_map, usurped>>
        /\ Suggesting(c) /\ ns'[Binder] = e
    BY <1>1, <1>9 DEF Suggest, Candidate, Answer, serverVars
  <2>2. e.id_to_name = b.id_to_name /\ e.func_to_ids = b.func_to_ids
    BY <1>1 DEF MovePivot, Directories
  <2>3. RecordsKept(b, ns'[Binder])
    BY <2>1, <2>2 DEF RecordsKept
  <2> HIDE DEF e
  <2> QED
    BY <1>1, <1>4, <2>1, <2>3, BinderAnswersListed DEF MessageType
<1>10. ASSUME NEW n \in Name, KillDeadServer(c, n) PROVE ServerInv'
  <2> DEFINE id == b.name_to_id[n]
  <2>1. ~ Announced(n) /\ ns'[Binder] = (IF id = NoId THEN b ELSE Kill(b, id))
        /\ UNCHANGED <<conn, phase, waits, listen, server_id, function_map, usurped>>
    BY <1>1, <1>10
       DEF KillDeadServer, KillUnreachable, NotifyNext, serverVars, Listening, Announced
  <2>2. RecordsKept(b, ns'[Binder])
    <3>1. CASE id = NoId
      BY <2>1, <3>1, RecordsStay
    <3>2. CASE id # NoId
      <4>1. id \in Id
        BY <1>1, <3>2 DEF Directories
      <4>2. b.id_to_name[id] = n
        BY <1>1, <4>1 DEF Follows
      <4> QED
        BY <1>1, <2>1, <3>2, <4>1, <4>2, KillKeepsRecords
    <3> QED
      BY <3>1, <3>2
  <2> QED
    BY <1>3, <2>1, <2>2
<1>11. ASSUME NEW n \in Name, NEW s \in Server, NotifyServer(c, n, s) PROVE ServerInv'
  <2>1. UNCHANGED <<ns, conn, phase, waits, listen, server_id, function_map, usurped>>
    BY <1>11 DEF NotifyServer
  <2> QED
    BY <1>3, <2>1, RecordsStay
<1> QED
  BY <1>5, <1>6, <1>7, <1>8, <1>9, <1>10, <1>11 DEF Serve

-----------------------------------------------------------------------------
(* The steps that move a server, or change what it waits for. *)

(* A message is listed of its own server alone. *)
LEMMA ListedAlone ==
  ASSUME NEW m, NEW b, NEW at, NEW names, NEW ids, NEW lost,
         Listed(m, b, at, names, ids, lost),
         NEW at2, NEW names2, NEW ids2, NEW lost2,
         m.src \in Server => /\ at2[m.src] = at[m.src]
                             /\ names2[m.src] = names[m.src]
                             /\ ids2[m.src] = ids[m.src]
                             /\ m.src \notin lost2 => m.src \notin lost
  PROVE  Listed(m, b, at2, names2, ids2, lost2)
BY DEF Listed

(* A server asks for an update and waits for it. *)
LEMMA AskListed ==
  ASSUME TypeInv, ServerInv, NEW s \in Server, NewServerExecute(s)
  PROVE  ServerInv'
<1> DEFINE m == Request("ASK_NS_UPDATE", s, Binder)
<1>1. PICK c \in Conn :
        /\ Free(c)
        /\ conn' = [conn EXCEPT ![c] = m]
        /\ waits' = [waits EXCEPT ![s] = Append(@, c)]
  BY DEF NewServerExecute
<1>2. UNCHANGED <<ns, phase, listen, server_id, function_map, usurped>>
  BY DEF NewServerExecute
<1>3. m.src = s /\ m.dst = Binder /\ m.state = "request" /\ m.type = "ASK_NS_UPDATE"
  BY DEF Request
<1> HIDE DEF m
<1>4. phase[s] # "down"
  BY DEF NewServerExecute, Reading, Desired, ServerInv, ListInv, ServersListed
<1>5. conn[c].src \notin Server /\ ~ Unread(conn[c])
  BY <1>1, MessageFacts, NobodyElse DEF Free
<1>6. conn'[c] = m /\ \A k \in Conn : k = c \/ conn'[k] = conn[k]
  BY <1>1 DEF TypeInv, TypeOK
<1>7. /\ waits'[s] = Append(waits[s], c) /\ waits[s] \in Seq(Conn)
      /\ \A p \in Server : p = s \/ waits'[p] = waits[p]
  BY <1>1 DEF TypeInv, TypeOK, Replica
<1>8. Listed(m, ns[Binder], phase, listen, server_id, usurped) /\ ~ Announcing(m) /\ ~ Unread(m)
  BY <1>3, <1>4, NobodyElse
     DEF Listed, Announcing, Unread, Confirming, UpdateType, CallType
<1>9. ListInv'
  <2>1. PhaseKept /\ FunctionsListed /\ RecordsKept(ns[Binder], ns'[Binder])
    BY <1>2, PhaseStays, FunctionsStay, RecordsStay
  <2>3. \A k \in Conn :
          \/ Advances(conn[k], conn'[k])
          \/ /\ Listed(conn'[k], ns'[Binder], phase', listen', server_id', usurped')
             /\ ~ Unread(conn'[k]) /\ ~ Announcing(conn'[k])
    BY <1>2, <1>6, <1>8 DEF Advances
  <2> QED
    BY <1>2, <1>4, <1>5, <1>6, <1>7, <2>1, <2>3, ListKeeps DEF ServerInv
<1>10. WaitsOwn'
  <2> SUFFICES ASSUME NEW p \in Server, NEW i \in 1 .. Len(waits'[p])
               PROVE  /\ conn'[waits'[p][i]].src = p /\ conn'[waits'[p][i]].type \in UpdateType
                      /\ \A j \in 1 .. Len(waits'[p]) : waits'[p][j] = waits'[p][i] => i = j
    BY DEF WaitsOwn
  <2>1. \A q \in Server : \A j \in 1 .. Len(waits[q]) :
          /\ waits[q][j] \in Conn /\ waits[q][j] # c
          /\ conn'[waits[q][j]] = conn[waits[q][j]]
    <3>1. \A q \in Server : \A j \in 1 .. Len(waits[q]) :
            waits[q][j] \in Conn /\ conn[waits[q][j]].src = q
      BY DEF TypeInv, TypeOK, Replica, ServerInv, WaitInv, WaitsOwn
    <3> QED
      BY <1>5, <1>6, <3>1
  <2>2. CASE p # s
    BY <1>7, <2>1, <2>2 DEF ServerInv, WaitInv, WaitsOwn
  <2>3. CASE p = s
    <3>1. /\ Len(waits'[s]) = Len(waits[s]) + 1 /\ Len(waits[s]) \in Nat
          /\ waits'[s][Len(waits[s]) + 1] = c
          /\ \A j \in 1 .. Len(waits[s]) : waits'[s][j] = waits[s][j]
      BY <1>7
    <3>2. \A j \in 1 .. Len(waits'[s]) :
            \/ j \in 1 .. Len(waits[s])
            \/ j = Len(waits[s]) + 1 /\ waits'[s][j] = c
      BY <3>1
    <3>3. CASE i \in 1 .. Len(waits[s])
      <4>1. /\ conn[waits[s][i]].src = s /\ conn[waits[s][i]].type \in UpdateType
            /\ \A j \in 1 .. Len(waits[s]) : waits[s][j] = waits[s][i] => i = j
        BY <3>3 DEF ServerInv, WaitInv, WaitsOwn
      <4>2. waits'[s][i] = waits[s][i] /\ conn'[waits[s][i]] = conn[waits[s][i]]
            /\ waits[s][i] # c
        BY <2>1, <3>1, <3>3
      <4>3. ASSUME NEW j \in 1 .. Len(waits'[s]), waits'[s][j] = waits'[s][i] PROVE i = j
        <5>1. j \in 1 .. Len(waits[s])
          BY <3>2, <4>2, <4>3
        <5> QED
          BY <3>1, <4>1, <4>2, <4>3, <5>1
      <4> QED
        BY <2>3, <4>1, <4>2, <4>3
    <3>4. CASE i = Len(waits[s]) + 1
      BY <1>3, <1>6, <2>1, <2>3, <3>1, <3>2, <3>4 DEF UpdateType
    <3> QED
      BY <2>3, <3>2, <3>3, <3>4
  <2> QED
    BY <2>2, <2>3
<1>11. AsksCounted'
  <2> SUFFICES ASSUME NEW p \in Server
               PROVE  IsFiniteSet(Asks(p)') /\ Cardinality(Asks(p)') <= Len(waits'[p])
    BY DEF AsksCounted
  <2>1. /\ IsFiniteSet(Asks(p)) /\ Cardinality(Asks(p)) <= Len(waits[p])
        /\ Cardinality(Asks(p)) \in Nat
    BY FS_CardinalityType DEF ServerInv, WaitInv, AsksCounted
  <2>2. CASE p # s
    <3>1. Asks(p)' = Asks(p)
      BY <1>3, <1>5, <1>6, <2>2 DEF Asks
    <3> QED
      BY <1>7, <2>1, <2>2, <3>1
  <2>3. CASE p = s
    <3>1. Asks(p)' = Asks(p) \cup {c} /\ c \notin Asks(p)
      BY <1>3, <1>5, <1>6, <2>3 DEF Asks, Asking, UpdateType
    <3>2. IsFiniteSet(Asks(p)') /\ Cardinality(Asks(p)') = Cardinality(Asks(p)) + 1
      BY <2>1, <3>1, FS_AddElement
    <3>3. Len(waits'[p]) = Len(waits[p]) + 1 /\ Len(waits[p]) \in Nat
      BY <1>7, <2>3
    <3> QED
      BY <2>1, <3>2, <3>3
  <2> QED
    BY <2>2, <2>3
<1> QED
  BY <1>9, <1>10, <1>11 DEF ServerInv, WaitInv

(* An update ends the innermost wait, whichever wait asked for it. *)
LEMMA UpdateListed ==
  ASSUME TypeInv, ServerInv, NEW c \in Conn, UpdateDone(c)
  PROVE  ServerInv'
<1> DEFINE s == conn[c].src
           n == Len(waits[s])
           top == waits[s][n]
           held == \E i \in 1 .. n - 1 : waits[s][i] = c
<1>1. s \in Server /\ Asking(conn[c]) /\ Coming(conn[c]) /\ ~ Unread(conn[c])
  BY MessageFacts
     DEF UpdateDone, Received, Receiving, Asking, Coming, Unread, UpdateType, MessageOK,
         Listed, Replica
<1>2. waits[s] \in Seq(Conn) /\ n \in Nat /\ n > 0
  <2>1. waits[s] \in Seq(Conn) /\ n \in Nat
    BY <1>1 DEF TypeInv, TypeOK, Replica
  <2>2. c \in Asks(s) /\ IsFiniteSet(Asks(s)) /\ Cardinality(Asks(s)) <= n
    BY <1>1 DEF Asks, ServerInv, WaitInv, AsksCounted
  <2>3. Cardinality(Asks(s)) \in Nat /\ Cardinality(Asks(s)) # 0
    BY <2>2, FS_CardinalityType, FS_EmptySet
  <2> QED
    BY <2>1, <2>2, <2>3
<1>3. /\ top \in Conn /\ conn[top].src = s /\ conn[top].type \in UpdateType
      /\ conn[top] \in Connection /\ ~ Unread(conn[top])
  <2>1. n \in 1 .. n
    BY <1>2
  <2> QED
    BY <1>1, <1>2, <2>1
       DEF TypeInv, TypeOK, ServerInv, WaitInv, WaitsOwn, Unread, UpdateType
<1>4. waits' = [waits EXCEPT ![s] = SubSeq(waits[s], 1, n - 1)]
      /\ UNCHANGED <<ns, phase, listen, server_id, function_map, usurped>>
  BY DEF UpdateDone, serverVars
<1>5. PICK was_read \in BOOLEAN :
        conn' = [k \in Conn |->
                  CASE k = c -> IF held THEN [conn[c] EXCEPT !.state = "spent"] ELSE Closed
                    [] k = top /\ k # c -> IF was_read THEN conn[k] ELSE Abandoned(conn[k])
                    [] OTHER -> conn[k]]
  BY DEF UpdateDone
<1>6. /\ conn'[c] = IF held THEN [conn[c] EXCEPT !.state = "spent"] ELSE Closed
      /\ top # c => conn'[top] = conn[top] \/ conn'[top] = Abandoned(conn[top])
      /\ \A k \in Conn : k = c \/ k = top \/ conn'[k] = conn[k]
  BY <1>3, <1>5
<1>7. /\ Advances(conn[c], conn'[c]) /\ ~ Asking(conn'[c])
      /\ held => conn'[c].src = s /\ conn'[c].type \in UpdateType
  <2> DEFINE k == conn[c]
             m == [k EXCEPT !.state = "spent"]
  <2>1. /\ m.src = k.src /\ m.dst = k.dst /\ m.type = k.type /\ m.id = k.id
        /\ m.func = k.func /\ m.name = k.name /\ m.state = "spent"
    BY MessageFacts DEF Connection
  <2> HIDE DEF m, k
  <2>2. Later(k, m) /\ ~ Asking(m)
    BY <2>1 DEF Later, Coming, Asking
  <2>3. Harmless(Closed) /\ ~ Asking(Closed)
    BY ClosedHarmless, ClosedType DEF Asking
  <2> QED
    BY <1>1, <1>6, <2>1, <2>2, <2>3 DEF m, k, Advances, Asking
<1>8. top # c => \/ conn'[top] = conn[top]
                 \/ Harmless(conn'[top])
  BY <1>3, <1>6, AbandonedHarmless
<1> HIDE DEF held, top, n, s
<1>9. ListInv'
  <2>1. PhaseKept /\ FunctionsListed /\ RecordsKept(ns[Binder], ns'[Binder])
    BY <1>4, PhaseStays, FunctionsStay, RecordsStay
  <2>3. \A k \in Conn : Advances(conn[k], conn'[k])
    BY <1>3, <1>6, <1>7, <1>8 DEF Advances
  <2>4. \A p \in Server : phase[p] = "down" => waits'[p] = waits[p]
    <3>1. waits[s] # <<>>
      BY <1>2 DEF n
    <3>2. phase[s] # "down"
      BY <1>1, <3>1 DEF ServerInv, ListInv, ServersListed
    <3> QED
      BY <1>4, <3>2 DEF TypeInv, TypeOK, Replica
  <2> QED
    BY <1>4, <2>1, <2>3, <2>4, ListKeeps DEF ServerInv
<1>10. /\ \A p \in Server : p = s \/ waits'[p] = waits[p]
       /\ Len(waits'[s]) = n - 1
       /\ \A i \in 1 .. n - 1 : waits'[s][i] = waits[s][i]
  <2>1. waits'[s] = SubSeq(waits[s], 1, n - 1)
        /\ \A p \in Server : p = s \/ waits'[p] = waits[p]
    BY <1>1, <1>4 DEF TypeInv, TypeOK, Replica
  <2> QED
    BY <1>2, <2>1 DEF n
<1>11. WaitsOwn'
  <2> SUFFICES ASSUME NEW p \in Server, NEW i \in 1 .. Len(waits'[p])
               PROVE  /\ conn'[waits'[p][i]].src = p /\ conn'[waits'[p][i]].type \in UpdateType
                      /\ \A j \in 1 .. Len(waits'[p]) : waits'[p][j] = waits'[p][i] => i = j
    BY DEF WaitsOwn
  <2>1. CASE p # s
    <3>0. waits'[p] = waits[p] /\ waits[p] \in Seq(Conn) /\ i \in 1 .. Len(waits[p])
      BY <1>10, <2>1 DEF TypeInv, TypeOK, Replica
    <3>1. waits'[p] = waits[p] /\ waits[p][i] \in Conn /\ conn[waits[p][i]].src = p
      BY <3>0 DEF ServerInv, WaitInv, WaitsOwn
    <3>2. conn'[waits[p][i]] = conn[waits[p][i]]
      BY <1>3, <1>6, <2>1, <3>1 DEF s
    <3> QED
      BY <3>1, <3>2 DEF ServerInv, WaitInv, WaitsOwn
  <2>2. CASE p = s
    <3>1. /\ i \in 1 .. n - 1 /\ i \in 1 .. n /\ n \in 1 .. n /\ i # n
          /\ waits'[s][i] = waits[s][i]
      BY <1>2, <1>10, <2>2
    <3>2. /\ waits[s][i] \in Conn /\ waits[s][i] # top
          /\ conn[waits[s][i]].src = s /\ conn[waits[s][i]].type \in UpdateType
      BY <1>1, <3>1 DEF TypeInv, TypeOK, Replica, ServerInv, WaitInv, WaitsOwn, top, n
    <3>3. conn'[waits[s][i]].src = s /\ conn'[waits[s][i]].type \in UpdateType
      BY <1>6, <1>7, <3>1, <3>2 DEF held
    <3>4. \A j \in 1 .. n - 1 : waits'[s][j] = waits'[s][i] => i = j
      <4>1. \A j \in 1 .. n : waits[s][j] = waits[s][i] => i = j
        BY <1>1, <3>1 DEF ServerInv, WaitInv, WaitsOwn, n
      <4>2. \A j \in 1 .. n - 1 : j \in 1 .. n /\ waits'[s][j] = waits[s][j]
        BY <1>2, <1>10
      <4> QED
        BY <3>1, <4>1, <4>2
    <3> QED
      BY <1>10, <2>2, <3>1, <3>3, <3>4
  <2> QED
    BY <2>1, <2>2
<1>12. AsksCounted'
  <2> SUFFICES ASSUME NEW p \in Server
               PROVE  IsFiniteSet(Asks(p)') /\ Cardinality(Asks(p)') <= Len(waits'[p])
    BY DEF AsksCounted
  <2>1. /\ IsFiniteSet(Asks(p)) /\ Cardinality(Asks(p)) <= Len(waits[p])
        /\ Cardinality(Asks(p)) \in Nat
    BY FS_CardinalityType DEF ServerInv, WaitInv, AsksCounted
  <2>2. Asks(p)' \subseteq Asks(p) \ {c}
    <3> SUFFICES ASSUME NEW k \in Conn, conn'[k].src = p, Asking(conn'[k])
                 PROVE  k # c /\ conn[k].src = p /\ Asking(conn[k])
      BY DEF Asks
    <3> QED
      BY <1>6, <1>7, <1>8 DEF Harmless
  <2>3. CASE p # s
    <3>1. IsFiniteSet(Asks(p)') /\ Cardinality(Asks(p)') <= Cardinality(Asks(p))
      BY <2>1, <2>2, FS_Subset
    <3>2. Cardinality(Asks(p)') \in Nat /\ Len(waits[p]) \in Nat /\ waits'[p] = waits[p]
      BY <1>10, <2>3, <3>1, FS_CardinalityType DEF TypeInv, TypeOK, Replica
    <3> QED
      BY <2>1, <3>1, <3>2
  <2>4. CASE p = s
    <3>1. c \in Asks(p)
      BY <1>1, <2>4 DEF Asks, s
    <3>2. /\ IsFiniteSet(Asks(p) \ {c})
          /\ Cardinality(Asks(p) \ {c}) = Cardinality(Asks(p)) - 1
      BY <2>1, <3>1, FS_RemoveElement
    <3>3. IsFiniteSet(Asks(p)') /\ Cardinality(Asks(p)') <= Cardinality(Asks(p)) - 1
      BY <2>2, <3>2, FS_Subset
    <3>4. Cardinality(Asks(p)') \in Nat /\ Cardinality(Asks(p)) <= n
      BY <2>1, <2>4, <3>3, FS_CardinalityType DEF n
    <3> QED
      BY <1>2, <1>10, <2>1, <2>4, <3>3, <3>4
  <2> QED
    BY <2>3, <2>4
<1> QED
  BY <1>9, <1>11, <1>12 DEF ServerInv, WaitInv

(* A server announces itself. *)
LEMMA RpcInitListed ==
  ASSUME TypeInv, ServerInv, NEW s \in Server, NEW n \in Name, RpcInit(s, n)
  PROVE  ServerInv'
<1> DEFINE r == Request("I_AM_SERVER", s, Binder)
           m == [r EXCEPT !.name = n]
<1>1. PICK c \in Conn : Free(c) /\ conn' = [conn EXCEPT ![c] = m]
  BY DEF RpcInit
<1>2. UNCHANGED <<ns, waits, server_id, function_map, usurped>>
  BY DEF RpcInit
<1>3. m.src = s /\ m.dst = Binder /\ m.state = "request" /\ m.type = "I_AM_SERVER"
      /\ m.name = n
  BY DEF Request
<1> HIDE DEF m
<1>4. conn[c].src = Nobody /\ ~ Unread(conn[c])
  BY <1>1, MessageFacts DEF Free
<1>5. conn'[c] = m /\ \A k \in Conn : k = c \/ conn'[k] = conn[k]
  BY <1>1 DEF TypeInv, TypeOK
<1>6. /\ phase'[s] = "init" /\ listen'[s] = n
      /\ \A t \in Server : t = s \/ (phase'[t] = phase[t] /\ listen'[t] = listen[t])
  BY DEF RpcInit, TypeInv, TypeOK, Replica
<1>7. /\ phase[s] = "down" /\ ~ Listening(n) /\ n # NoName
      /\ \A k \in Conn : conn[k].src # s
  BY NameServiceAssumption DEF RpcInit, ServerInv, ListInv, MessagesListed, Listed
<1>8. server_id[s] = NoId /\ waits[s] = <<>>
  BY <1>7 DEF ServerInv, ListInv, ServersListed
<1>9. Unread(m) /\ ~ Confirming(m) /\ ~ Asking(m)
  BY <1>3 DEF Unread, Confirming, Asking, UpdateType
<1>10. MessagesListed'
  <2>1. Listed(m, ns[Binder], phase', listen', server_id, usurped)
    BY <1>3, <1>6, <1>9, NobodyElse DEF Listed, UpdateType, CallType
  <2>2. ASSUME NEW k \in Conn, k # c
        PROVE  Listed(conn'[k], ns[Binder], phase', listen', server_id, usurped)
    <3>1. Listed(conn[k], ns[Binder], phase, listen, server_id, usurped)
      BY DEF ServerInv, ListInv, MessagesListed
    <3> QED
      BY <1>5, <1>6, <1>7, <2>2, <3>1, ListedAlone
  <2> QED
    BY <1>2, <1>5, <2>1, <2>2 DEF MessagesListed
<1>11. ServersListed' /\ LiveServerListed'
  BY <1>2, <1>6, <1>8 DEF ServerInv, ListInv, ServersListed, LiveServerListed
<1>12. DistinctAddresses'
  BY <1>6, <1>7 DEF ServerInv, ListInv, DistinctAddresses, Listening
<1>13. OneAnnouncement'
  BY <1>3, <1>5, <1>7 DEF ServerInv, ListInv, OneAnnouncement
<1>14. WaitInv'
  BY <1>2, <1>4, <1>5, <1>9, NobodyElse, WaitsKeep DEF ServerInv
<1> QED
  BY <1>10, <1>11, <1>12, <1>13, <1>14 DEF ServerInv, ListInv

(* rpcInit has its id. *)
LEMMA RpcInitDoneListed ==
  ASSUME TypeInv, ServerInv, NEW c \in Conn, RpcInitDone(c)
  PROVE  ServerInv'
<1> DEFINE k == conn[c]
           s == k.src
<1>1. k \in Connection /\ MessageOK(k, server_id)
      /\ Listed(k, ns[Binder], phase, listen, server_id, usurped)
      /\ conn \in [Conn -> Connection]
  BY MessageFacts DEF TypeInv, TypeOK
<1>2. k.type = "SERVER_OK" /\ Coming(k) /\ ~ Unread(k) /\ ~ Asking(k) /\ k.id \in Id
  BY <1>1 DEF RpcInitDone, Received, Receiving, Coming, Unread, Asking, UpdateType, MessageOK
<1>3. /\ server_id' = [server_id EXCEPT ![s] = k.id]
      /\ phase' = [phase EXCEPT ![s] = "ready"]
      /\ conn' = [conn EXCEPT ![c] = Closed]
      /\ UNCHANGED <<ns, waits, listen, function_map, usurped>>
  BY DEF RpcInitDone
<1>4. Harmless(Closed) /\ Closed.src = Nobody
  BY ClosedHarmless, ClosedType
<1>5. conn'[c] = Closed /\ \A l \in Conn : l = c \/ conn'[l] = conn[l]
  BY <1>1, <1>3
<1>6. WaitInv'
  BY <1>2, <1>3, <1>4, <1>5, NobodyElse, WaitsKeep DEF ServerInv, UpdateType
<1>7. CASE s \notin Server
  <2>1. server_id' = server_id
    BY <1>3, <1>7 DEF TypeInv, TypeOK
  <2> QED
    BY <1>1, <1>2, <1>3, <1>4, <1>7, <2>1, NobodyElse, RecordsStay, PhaseMoves, OneAdvance
<1>8. CASE s \in Server
  <2>1. /\ phase[s] = "init" /\ k.name = listen[s]
        /\ s \notin usurped => ns[Binder].id_to_name[k.id] = k.name
        /\ server_id[s] = NoId /\ function_map[s] = {}
    BY <1>1, <1>2, <1>8
       DEF Listed, Announcing, Confirming, ServerInv, ListInv, ServersListed
  <2>2. /\ server_id'[s] = k.id /\ phase'[s] = "ready" /\ k.id # NoId
        /\ \A t \in Server : t = s \/ (phase'[t] = phase[t] /\ server_id'[t] = server_id[t])
    BY <1>2, <1>3, <1>8 DEF TypeInv, TypeOK, Replica, Id, NoId
  <2> HIDE DEF s, k
  <2>3. MessagesListed'
    <3>1. ASSUME NEW l \in Conn, l # c
          PROVE  Listed(conn[l], ns[Binder], phase', listen, server_id', usurped')
      <4>1. MessageOK(conn[l], server_id)
            /\ Listed(conn[l], ns[Binder], phase, listen, server_id, usurped)
        BY MessageFacts
      <4>2. CASE conn[l].src # s
        <5>1. usurped' = usurped
          BY <1>3
        <5>2. conn[l].src \in Server => /\ phase'[conn[l].src] = phase[conn[l].src]
                                        /\ server_id'[conn[l].src] = server_id[conn[l].src]
          BY <2>2, <4>2
        <5> QED
          BY <4>1, <5>1, <5>2 DEF Listed
      <4>3. CASE conn[l].src = s
        <5>1. ~ Announcing(conn[l])
          BY <1>2, <1>8, <3>1, <4>3
             DEF ServerInv, ListInv, OneAnnouncement, Announcing, Confirming, s, k
        <5>2. conn[l].type \notin {"REGISTER", "REGISTER_DONE"}
          BY <1>8, <2>1, <4>1, <4>3 DEF MessageOK, Id, NoId
        <5>3. ~ Confirming(conn[l])
          BY <5>1 DEF Announcing
        <5> QED
          BY <1>8, <2>2, <4>1, <4>3, <5>1, <5>2, <5>3 DEF Listed
      <4> QED
        BY <4>2, <4>3
    <3> QED
      <4>1. Listed(Closed, ns[Binder], phase', listen, server_id', usurped')
        BY <1>4, HarmlessListed
      <4>2. ns' = ns /\ listen' = listen
        BY <1>3
      <4>3. \A l \in Conn : Listed(conn'[l], ns[Binder], phase', listen, server_id', usurped')
        BY <1>5, <3>1, <4>1
      <4> QED
        BY <4>2, <4>3 DEF MessagesListed
  <2>4. ServersListed'
    BY <1>3, <2>1, <2>2 DEF ServerInv, ListInv, ServersListed
  <2>5. LiveServerListed'
    BY <1>3, <2>1, <2>2 DEF ServerInv, ListInv, LiveServerListed
  <2>6. DistinctAddresses'
    BY <1>3 DEF ServerInv, ListInv, DistinctAddresses
  <2>7. OneAnnouncement'
    BY <1>4, <1>5, NobodyElse DEF ServerInv, ListInv, OneAnnouncement
  <2> QED
    BY <1>6, <2>3, <2>4, <2>5, <2>6, <2>7 DEF ServerInv, ListInv
<1> QED
  BY <1>7, <1>8

(* rpcRegister has its answer. *)
LEMMA RpcRegisterDoneListed ==
  ASSUME TypeInv, ServerInv, NEW c \in Conn, RpcRegisterDone(c)
  PROVE  ServerInv'
<1> DEFINE k == conn[c]
           s == k.src
<1>1. k \in Connection /\ MessageOK(k, server_id)
      /\ Listed(k, ns[Binder], phase, listen, server_id, usurped)
      /\ conn \in [Conn -> Connection]
  BY MessageFacts DEF TypeInv, TypeOK
<1>2. k.type = "REGISTER_DONE" /\ k.func \in Func /\ ~ Unread(k) /\ ~ Asking(k)
  BY <1>1 DEF RpcRegisterDone, Received, Unread, Asking, UpdateType, MessageOK
<1>3. /\ function_map' = [function_map EXCEPT ![s] = @ \cup {k.func}]
      /\ phase' = [phase EXCEPT ![s] = "ready"]
      /\ conn' = [conn EXCEPT ![c] = Closed]
      /\ UNCHANGED <<ns, waits, listen, server_id, usurped>>
  BY DEF RpcRegisterDone
<1>4. Harmless(Closed) /\ Closed.src = Nobody
  BY ClosedHarmless, ClosedType
<1>5. conn'[c] = Closed /\ \A l \in Conn : l = c \/ conn'[l] = conn[l]
  BY <1>1, <1>3
<1>6. s \in Server => /\ server_id[s] # NoId /\ phase[s] \notin {"down", "init"}
                      /\ s \notin usurped => server_id[s] \in ns[Binder].func_to_ids[k.func]
  BY <1>1, <1>2 DEF MessageOK, Listed, Id, NoId, ServerInv, ListInv, ServersListed
<1>7. PhaseKept
  BY <1>3, <1>6, PhaseMoves
<1>8. FunctionsListed
  BY <1>2, <1>3, <1>6 DEF FunctionsListed, TypeInv, TypeOK
<1> HIDE DEF s, k
<1>10. \A l \in Conn : Advances(conn[l], conn'[l])
  BY <1>2, <1>4, <1>5 DEF Advances, k
<1>11. ListInv'
  BY <1>3, <1>7, <1>8, <1>10, RecordsStay, ListKeeps DEF ServerInv
<1>12. WaitInv'
  BY <1>2, <1>3, <1>4, <1>5, NobodyElse, WaitsKeep DEF ServerInv, UpdateType, k
<1> QED
  BY <1>11, <1>12 DEF ServerInv

(* The binder reads an announcement: the record it removes is that of a     *)
(* predecessor, or of a server that is usurped by this.                     *)
LEMMA IAmServerListed ==
  ASSUME TypeInv, LogInv, ServerInv, NEW c \in Conn, HandleIAmServer(c)
  PROVE  ServerInv'
<1> DEFINE k == conn[c]
           b == ns[Binder]
           name == k.name
           old == KillOldRecord(b, name)
           d == RegisterName(old, next_u32, name)
           m == Replied(k, "SERVER_OK", next_u32, d)
<1>1. /\ k \in Connection /\ MessageOK(k, server_id)
      /\ Listed(k, b, phase, listen, server_id, usurped)
      /\ conn \in [Conn -> Connection] /\ ns \in [Process -> Directories]
      /\ b \in Directories /\ Follows(b) /\ Binder \in Process
  BY MessageFacts DEF TypeInv, TypeOK, LogInv, NamesFollowLog, Process
<1>2. Unread(k) /\ name \in Name /\ next_u32 \in Id /\ k.src \notin Client
  BY <1>1, FreshIdType DEF HandleIAmServer, HandleRequest, Unread, MessageOK, Listed
<1>3. /\ ns'[Binder] = d /\ conn'[c] = m
      /\ \A l \in Conn : l = c \/ conn'[l] = conn[l]
      /\ UNCHANGED <<phase, waits, listen, server_id, function_map>>
      /\ usurped' = usurped \cup Usurped(c)
  BY <1>1 DEF HandleIAmServer, Answer
<1>4. ~ Announced(name)
  <2> SUFFICES ASSUME NEW s \in Server, listen[s] = name, s \notin usurped'
               PROVE  \E l \in Conn : Unread(conn[l]) /\ conn[l].src = s
    BY DEF Announced
  <2>1. CASE k.src = Nobody
    BY <1>3, <2>1 DEF Usurped, Announcements, Unread
  <2>2. CASE k.src # Nobody
    <3>1. k.src \in Server
      BY <1>1, <1>2, <2>2 DEF Connection, Replica
    <3>2. listen[k.src] = name
      BY <1>1, <1>2, <3>1 DEF Listed, Announcing
    <3>3. s = k.src
      BY <1>2, <3>1, <3>2, NameServiceAssumption DEF ServerInv, ListInv, DistinctAddresses
    <3> QED
      BY <1>2, <3>3
  <2> QED
    BY <2>1, <2>2
<1>5. old \in Directories /\ RecordsKept(b, old) /\ old.id_to_name[next_u32] = NoName
  <2>1. b.id_to_name[next_u32] = NoName
    <3> SUFFICES ASSUME b.id_to_name[next_u32] # NoName PROVE FALSE
      OBVIOUS
    <3>1. b.id_to_name[next_u32] \in Name
      BY <1>1, <1>2 DEF Directories
    <3>2. NewNode(next_u32, b.id_to_name[next_u32]) \in Entries(b.logs)
      BY <1>1, <1>2, <3>1 DEF Follows, Named
    <3> QED
      BY <1>2, <3>1, <3>2 DEF LogInv, Fresh, Id
  <2>2. CASE b.name_to_id[name] = NoId
    BY <1>1, <2>1, <2>2, RecordsStay DEF KillOldRecord
  <2>3. CASE b.name_to_id[name] # NoId
    <3> DEFINE i == b.name_to_id[name]
    <3>1. i \in Id /\ old = Kill(b, i)
      BY <1>1, <1>2, <2>3 DEF Directories, KillOldRecord
    <3>2. b.id_to_name[i] = name
      BY <1>1, <1>2, <3>1 DEF Follows
    <3>3. old.id_to_name = [b.id_to_name EXCEPT ![i] = NoName]
      BY <1>1, <3>1, KillEffect
    <3>4. b.id_to_name \in [Id -> Name \cup {NoName}]
      BY <1>1 DEF Directories
    <3>5. old.id_to_name[next_u32] = NoName
      <4> HIDE DEF i, old, b
      <4> QED
        BY <1>2, <2>1, <3>1, <3>3, <3>4
    <3> HIDE DEF i, b
    <3> QED
      BY <1>1, <1>4, <3>1, <3>2, <3>5, KillType, KillKeepsRecords
  <2> QED
    BY <2>2, <2>3
<1> HIDE DEF old
<1>6. d \in Directories /\ RecordsKept(old, d) /\ d.id_to_name[next_u32] = name
  <2>1. d \in Directories
    BY <1>2, <1>5, RegisterNameType
  <2>2. d.id_to_name = [old.id_to_name EXCEPT ![next_u32] = name]
        /\ d.func_to_ids = old.func_to_ids
    BY <1>5 DEF RegisterName, Directories
  <2>3. old.id_to_name \in [Id -> Name \cup {NoName}]
    BY <1>5 DEF Directories
  <2> HIDE DEF d
  <2> QED
    BY <1>2, <1>5, <2>1, <2>2, <2>3 DEF RecordsKept
<1>7. RecordsKept(b, ns'[Binder])
  BY <1>3, <1>5, <1>6, RecordsKeptAgain
<1>8. CASE k.src = Nobody
  <2>1. m = Closed
    BY <1>8 DEF Replied
  <2>2. Harmless(m) /\ m.src = Nobody /\ ~ Announcing(m)
    BY <2>1, ClosedHarmless, ClosedType DEF Announcing, Unread, Confirming
  <2>3. \A b2, at, names, ids, lost : Listed(m, b2, at, names, ids, lost)
    BY <2>2, HarmlessListed
  <2> HIDE DEF m, d, k
  <2>4. \A l \in Conn :
          \/ Advances(conn[l], conn'[l])
          \/ /\ Listed(conn'[l], ns'[Binder], phase', listen', server_id', usurped')
             /\ ~ Unread(conn'[l]) /\ ~ Announcing(conn'[l])
    BY <1>3, <2>2, <2>3 DEF Advances, Announcing
  <2>6. PhaseKept /\ FunctionsListed
    BY <1>3, PhaseStays, FunctionsStay
  <2>7. ListInv'
    BY <1>3, <1>7, <2>4, <2>6, ListKeeps DEF ServerInv
  <2>8. WaitInv'
    BY <1>2, <1>3, <1>8, <2>2, NobodyElse, WaitsKeep DEF ServerInv, Unread, UpdateType, k
  <2> QED
    BY <2>7, <2>8 DEF ServerInv
<1>9. CASE k.src # Nobody
  <2>1. /\ m.state = "reply" /\ m.type = "SERVER_OK" /\ m.src = k.src /\ m.dst = k.dst
        /\ m.name = name /\ m.id = next_u32
    <3> HIDE DEF d
    <3>1. m = [state |-> "reply", type |-> "SERVER_OK", src |-> k.src, dst |-> k.dst,
               ver |-> k.ver, id |-> next_u32, func |-> k.func, name |-> k.name,
               delta |-> GetLogs(d, k.ver)]
      BY <1>1, <1>2, <1>6, <1>9, RepliedType DEF MessageType
    <3> QED
      BY <3>1
  <2>2. k.src \in Server
    BY <1>1, <1>2, <1>9 DEF Connection, Replica
  <2> HIDE DEF m, d
  <2>3. Listed(m, ns'[Binder], phase', listen', server_id', usurped')
    BY <1>1, <1>2, <1>3, <1>6, <2>1, <2>2
       DEF Listed, Announcing, Confirming, Unread, UpdateType, CallType
  <2>4. ~ Unread(m) /\ ~ Asking(m) /\ m.type \notin UpdateType /\ k.type \notin UpdateType
    BY <1>2, <2>1 DEF Unread, Asking, UpdateType
  <2>5. \A l \in Conn :
          \/ Advances(conn[l], conn'[l])
          \/ /\ Listed(conn'[l], ns'[Binder], phase', listen', server_id', usurped')
             /\ ~ Unread(conn'[l])
             /\ Announcing(conn'[l]) /\ conn'[l].src \in Server =>
                  Announcing(conn[l]) /\ conn'[l].src = conn[l].src
    BY <1>2, <1>3, <2>1, <2>3, <2>4 DEF Advances, Announcing
  <2>7. PhaseKept /\ FunctionsListed
    BY <1>3, PhaseStays, FunctionsStay
  <2>8. ListInv'
    BY <1>3, <1>7, <2>5, <2>7, ListKeeps DEF ServerInv
  <2>9. WaitInv'
    <3>1. \A l \in Conn :
            /\ conn[l].src \in Server /\ conn[l].type \in UpdateType =>
                 conn'[l].src = conn[l].src /\ conn'[l].type \in UpdateType
            /\ conn'[l].src \in Server /\ Asking(conn'[l]) =>
                 conn'[l].src = conn[l].src /\ Asking(conn[l])
      BY <1>3, <2>4
    <3> QED
      BY <1>3, <3>1, WaitsKeep DEF ServerInv
  <2> QED
    BY <2>8, <2>9 DEF ServerInv
<1> QED
  BY <1>8, <1>9

(* What the death of a server leaves of a message: an announcement that     *)
(* nobody waits for, or nothing that says anything of a server.             *)
LEMMA ServerDeathMessage ==
  ASSUME TypeInv, ServerInv, NEW s \in Server, NEW c \in Conn
  PROVE  LET m == AfterDeath(conn[c], s) IN
         /\ m.src # s
         /\ m.src \in Server => m = conn[c]
         /\ Unread(m) => /\ Unread(conn[c]) /\ m.name = conn[c].name
                         /\ m.src # Nobody => m = conn[c]
         /\ conn[c].src \in Server \ {s} => m = conn[c]
         /\ m.src \notin Server =>
              \A at, names, ids, lost : Listed(m, ns[Binder], at, names, ids, lost)
<1> DEFINE k == conn[c]
           m == AfterDeath(k, s)
<1>1. k \in Connection /\ Listed(k, ns[Binder], phase, listen, server_id, usurped)
      /\ (k.dst \in Server => k.src \notin Server /\ ~ Unread(k))
  BY MessageFacts
<1>2. s # Nobody /\ s # Binder /\ s \notin Client /\ Nobody \notin Server /\ Nobody \notin Client
  BY NobodyElse
<1>3. Harmless(Closed) /\ Closed.src = Nobody
  BY ClosedHarmless, ClosedType
<1>4. CASE k.src = s /\ k.state \in {"request", "running"}
  <2>1. m = [k EXCEPT !.src = Nobody]
    BY <1>4 DEF AfterDeath
  <2>2. /\ m.src = Nobody /\ m.dst = k.dst /\ m.type = k.type /\ m.state = k.state
        /\ m.name = k.name
    BY <1>1, <2>1 DEF Connection
  <2> HIDE DEF m, k
  <2>3. Unread(m) => Unread(k)
    BY <2>2 DEF Unread
  <2>4. \A b, at, names, ids, lost : Listed(m, b, at, names, ids, lost)
    BY <1>1, <1>2, <2>2 DEF Listed, Unread
  <2> QED
    BY <1>2, <1>4, <2>2, <2>3, <2>4 DEF m, k
<1>5. CASE m = Closed /\ (k.src = s \/ k.src = Nobody)
  <2>1. \A b, at, names, ids, lost : Listed(Closed, b, at, names, ids, lost)
    BY <1>3, HarmlessListed
  <2> QED
    BY <1>2, <1>3, <1>5, <2>1 DEF Harmless
<1>6. CASE k.src # s /\ k.dst = s /\ m = [k EXCEPT !.state = "eof"]
  <2>1. /\ m.src = k.src /\ m.type = k.type /\ m.state = "eof"
    BY <1>1, <1>6 DEF Connection
  <2> HIDE DEF m, k
  <2>2. k.src \notin Server /\ ~ Unread(m)
    BY <1>1, <1>6, <2>1 DEF Unread
  <2>3. \A b, at, names, ids, lost : Listed(m, b, at, names, ids, lost)
    BY <1>1, <2>1, <2>2 DEF Listed
  <2> QED
    BY <1>6, <2>1, <2>2, <2>3 DEF m, k
<1>7. CASE k.src # s /\ m = k
  BY <1>1, <1>7, ListedAlone
<1>8. \/ k.src = s /\ k.state \in {"request", "running"}
      \/ m = Closed /\ (k.src = s \/ k.src = Nobody)
      \/ k.src # s /\ k.dst = s /\ m = [k EXCEPT !.state = "eof"]
      \/ k.src # s /\ m = k
  BY DEF AfterDeath
<1> QED
  BY <1>4, <1>5, <1>6, <1>7, <1>8

(* A server dies. *)
LEMMA ServerDeathListed ==
  ASSUME TypeInv, ServerInv, NEW s \in Server, ServerDies(s)
  PROVE  ServerInv'
<1>1. /\ \A c \in Conn : conn'[c] = AfterDeath(conn[c], s)
      /\ ns'[Binder] = ns[Binder] /\ s # Binder
      /\ waits'[s] = <<>>
      /\ \A t \in Server : t = s \/ waits'[t] = waits[t]
  BY NobodyElse DEF ServerDies, Die, TypeInv, TypeOK, Process, Replica
<1>2. /\ phase'[s] = "down" /\ listen'[s] = NoName /\ server_id'[s] = NoId
      /\ function_map'[s] = {}
      /\ \A t \in Server \ {s} : /\ phase'[t] = phase[t] /\ listen'[t] = listen[t]
                                /\ server_id'[t] = server_id[t]
                                /\ function_map'[t] = function_map[t]
      /\ usurped' = usurped \ {s}
  BY DEF ServerDies, TypeInv, TypeOK, Replica
<1>3. \A c \in Conn :
        /\ conn'[c].src # s
        /\ conn'[c].src \in Server => conn'[c] = conn[c]
        /\ Unread(conn'[c]) => /\ Unread(conn[c]) /\ conn'[c].name = conn[c].name
                               /\ conn'[c].src # Nobody => conn'[c] = conn[c]
        /\ conn[c].src \in Server \ {s} => conn'[c] = conn[c]
  BY <1>1, ServerDeathMessage
<1>4. MessagesListed'
  <2> SUFFICES ASSUME NEW c \in Conn
               PROVE  Listed(conn'[c], ns[Binder], phase', listen', server_id', usurped')
    BY <1>1 DEF MessagesListed
  <2>1. Listed(conn[c], ns[Binder], phase, listen, server_id, usurped)
    BY MessageFacts
  <2>2. CASE conn'[c].src \in Server
    <3>1. conn'[c] = conn[c] /\ conn[c].src # s
      BY <1>3, <2>2
    <3> QED
      BY <1>2, <2>1, <3>1, ListedAlone
  <2>3. CASE conn'[c].src \notin Server
    BY <1>1, <2>3, ServerDeathMessage
  <2> QED
    BY <2>2, <2>3
<1>5. ServersListed' /\ LiveServerListed'
  BY <1>1, <1>2 DEF ServerInv, ListInv, ServersListed, LiveServerListed
<1>6. DistinctAddresses'
  BY <1>2 DEF ServerInv, ListInv, DistinctAddresses
<1>7. OneAnnouncement'
  BY <1>3 DEF ServerInv, ListInv, OneAnnouncement
<1>9. WaitsOwn'
  <2> SUFFICES ASSUME NEW p \in Server, NEW i \in 1 .. Len(waits'[p])
               PROVE  /\ conn'[waits'[p][i]].src = p /\ conn'[waits'[p][i]].type \in UpdateType
                      /\ \A j \in 1 .. Len(waits'[p]) : waits'[p][j] = waits'[p][i] => i = j
    BY DEF WaitsOwn
  <2>1. p # s /\ waits'[p] = waits[p]
    BY <1>1
  <2>2. waits[p][i] \in Conn /\ conn[waits[p][i]].src = p
    BY <2>1 DEF TypeInv, TypeOK, Replica, ServerInv, WaitInv, WaitsOwn
  <2>3. conn'[waits[p][i]] = conn[waits[p][i]]
    BY <1>3, <2>1, <2>2
  <2> QED
    BY <2>1, <2>3 DEF ServerInv, WaitInv, WaitsOwn
<1>10. AsksCounted'
  <2> SUFFICES ASSUME NEW p \in Server
               PROVE  IsFiniteSet(Asks(p)') /\ Cardinality(Asks(p)') <= Len(waits'[p])
    BY DEF AsksCounted
  <2>1. /\ IsFiniteSet(Asks(p)) /\ Cardinality(Asks(p)) <= Len(waits[p])
        /\ Cardinality(Asks(p)) \in Nat /\ Len(waits[p]) \in Nat
    BY FS_CardinalityType
       DEF ServerInv, WaitInv, AsksCounted, TypeInv, TypeOK, Replica
  <2>2. CASE p = s
    <3>1. Asks(p)' = {}
      BY <1>3, <2>2 DEF Asks
    <3> QED
      BY <1>1, <2>2, <3>1, FS_EmptySet
  <2>3. CASE p # s
    <3>1. Asks(p)' \subseteq Asks(p)
      BY <1>3 DEF Asks
    <3>2. IsFiniteSet(Asks(p)') /\ Cardinality(Asks(p)') <= Cardinality(Asks(p))
      BY <2>1, <3>1, FS_Subset
    <3>3. Cardinality(Asks(p)') \in Nat
      BY <3>2, FS_CardinalityType
    <3> QED
      BY <1>1, <2>1, <2>3, <3>2, <3>3
  <2> QED
    BY <2>2, <2>3
<1> QED
  BY <1>4, <1>5, <1>6, <1>7, <1>9, <1>10 DEF ServerInv, ListInv, WaitInv

-----------------------------------------------------------------------------
(* The invariant and its theorems. *)

(* The invariant holds at the start. *)
LEMMA ServerInit == Init => ServerInv
<1> SUFFICES ASSUME Init PROVE ServerInv
  OBVIOUS
<1>1. \A c \in Conn : conn[c] = Closed
  BY DEF Init
<1>2. \A c \in Conn : Harmless(conn[c]) /\ conn[c].src = Nobody /\ ~ Unread(conn[c])
  BY <1>1, ClosedHarmless, ClosedType DEF Unread
<1>3. MessagesListed /\ OneAnnouncement
  BY <1>2, HarmlessListed, NobodyElse DEF MessagesListed, OneAnnouncement
<1>4. /\ \A s \in Server : /\ phase[s] = "down" /\ waits[s] = <<>> /\ listen[s] = NoName
                            /\ server_id[s] = NoId /\ function_map[s] = {}
  BY DEF Init, Replica
<1>5. ServersListed /\ LiveServerListed /\ DistinctAddresses /\ WaitsOwn
  BY <1>4 DEF ServersListed, LiveServerListed, DistinctAddresses, WaitsOwn
<1>6. \A s \in Server : Asks(s) = {}
  BY <1>2, NobodyElse DEF Asks
<1>7. AsksCounted
  <2> SUFFICES ASSUME NEW s \in Server
               PROVE  IsFiniteSet(Asks(s)) /\ Cardinality(Asks(s)) <= Len(waits[s])
    BY DEF AsksCounted
  <2>1. Asks(s) = {} /\ Len(waits[s]) = 0
    BY <1>4, <1>6
  <2>2. IsFiniteSet({}) /\ Cardinality({}) = 0
    BY FS_EmptySet
  <2> QED
    BY <2>1, <2>2
<1> QED
  BY <1>3, <1>5, <1>7 DEF ServerInv, ListInv, WaitInv

(* Every step keeps the invariant. *)
LEMMA ServerInvStep == TypeInv /\ LogInv /\ ServerInv /\ [Next]_vars => ServerInv'
<1> SUFFICES ASSUME TypeInv, LogInv, ServerInv, [Next]_vars PROVE ServerInv'
  OBVIOUS
<1>1. CASE UNCHANGED vars
  <2>1. UNCHANGED <<ns, conn, phase, waits, listen, server_id, function_map, usurped>>
    BY <1>1 DEF vars, serverVars
  <2>2. ListInv'
    BY <2>1, PhaseStays, FunctionsStay, RecordsStay, ListKeeps DEF ServerInv, Advances
  <2>3. WaitInv'
    BY <2>1, WaitsKeep DEF ServerInv
  <2> QED
    BY <2>2, <2>3 DEF ServerInv
<1>2. ASSUME NEW s \in Server, ServerStep(s) PROVE ServerInv'
  BY <1>2, ServerStepListed, AskListed, RpcInitListed, ServerDeathListed DEF ServerStep
<1>3. ASSUME NEW p \in Client, ClientStep(p) PROVE ServerInv'
  BY <1>3, ClientStepListed
<1>4. ASSUME NEW c \in Conn, Receive(c) PROVE ServerInv'
  BY <1>4, ReceiveListed, UpdateListed, RpcInitDoneListed, RpcRegisterDoneListed DEF Receive
<1>5. ASSUME NEW c \in Conn, Handle(c) PROVE ServerInv'
  BY <1>5, HandleListed, IAmServerListed DEF Handle
<1>6. ASSUME NEW c \in Conn, Serve(c) PROVE ServerInv'
  BY <1>6, ServeListed
<1> QED
  BY <1>1, <1>2, <1>3, <1>4, <1>5, <1>6 DEF Next

(* The invariants hold of every behaviour. *)
LEMMA ServerInvariants == Spec => [](TypeInv /\ LogInv /\ ServerInv)
<1>1. Init => ServerInv
  BY ServerInit
<1>2. TypeInv /\ LogInv /\ ServerInv /\ [Next]_vars => ServerInv'
  BY ServerInvStep
<1> QED
  BY <1>1, <1>2, Invariants, PTL DEF Spec

(* A server that has its id keeps its record in the binder's directory, and *)
(* its place among the candidates of every function it registered, until it *)
(* dies or is usurped: suggest and the loop of NEW_SERVER_EXECUTE remove    *)
(* the records of dead servers alone, and of the I_AM_SERVER messages only  *)
(* that of a dead process, read late, removes a live server's.              *)
THEOREM LiveServersListed == Spec => []LiveServerListed
<1>1. ServerInv => LiveServerListed
  BY DEF ServerInv, ListInv
<1> QED
  BY <1>1, ServerInvariants, PTL

(* A server has a nested wait for every NS_UPDATE_SENT on its way, so the   *)
(* branch of wait_for_desired for one that is not awaited is dead code.     *)
THEOREM UpdatesAwaited == Spec => []UpdatesAreAwaited
<1>1. TypeInv /\ ServerInv => UpdatesAreAwaited
  <2> SUFFICES ASSUME TypeInv, ServerInv, NEW s \in Server
               PROVE  Cardinality({c \in Conn : /\ conn[c].src = s
                                                /\ conn[c].type = "NS_UPDATE_SENT"
                                                /\ conn[c].state \in {"reply", "applying"}})
                        <= Len(waits[s])
    BY DEF UpdatesAreAwaited
  <2> DEFINE sent == {c \in Conn : /\ conn[c].src = s
                                   /\ conn[c].type = "NS_UPDATE_SENT"
                                   /\ conn[c].state \in {"reply", "applying"}}
  <2>1. sent \subseteq Asks(s)
    BY DEF Asks, Asking, UpdateType
  <2>2. /\ IsFiniteSet(Asks(s)) /\ Cardinality(Asks(s)) <= Len(waits[s])
        /\ Cardinality(Asks(s)) \in Nat /\ Len(waits[s]) \in Nat
    BY FS_CardinalityType
       DEF ServerInv, WaitInv, AsksCounted, TypeInv, TypeOK, Replica
  <2> HIDE DEF sent
  <2>3. IsFiniteSet(sent) /\ Cardinality(sent) <= Cardinality(Asks(s))
    BY <2>1, <2>2, FS_Subset
  <2>4. Cardinality(sent) \in Nat
    BY <2>3, FS_CardinalityType
  <2> QED
    BY <2>2, <2>3, <2>4 DEF sent
<1> QED
  BY <1>1, ServerInvariants, PTL

-----------------------------------------------------------------------------
(* What a reply tells. *)

(* The reader of a delta knows an entry once it has applied the delta. *)
Known(delta, log, e) ==
  e \in Entries(log) \/ \E i \in 1 .. Len(delta) : delta[i].entry = e

(* Up to version v, which the reader does not pass, nobody killed the id. *)
AliveUntil(k, dirs, v) ==
  /\ Len(dirs[k.src].logs) <= v
  /\ \A i \in 1 .. Len(k.delta) : k.delta[i].version <= v
  /\ \A j \in 1 .. v : dirs[Binder].logs[j] # KillNode(k.id)

Told(k, dirs, ids) ==
  Coming(k) =>
    /\ k.src \in Server /\ k.type = "SERVER_OK" =>
         Known(k.delta, dirs[k.src].logs, NewNode(k.id, k.name))
    /\ k.src \in Server /\ k.type = "REGISTER_DONE" =>
         Known(k.delta, dirs[k.src].logs, NewFunc(ids[k.src], k.func))
    /\ k.src \in Client /\ k.type = "LOC_REPLY" /\ k.id # NoId =>
         /\ \E n \in Name : Known(k.delta, dirs[k.src].logs, NewNode(k.id, n))
         /\ \E v \in 0 .. Len(dirs[Binder].logs) : AliveUntil(k, dirs, v)

MessagesTold == \A c \in Conn : Told(conn[c], ns, server_id)

ServersKnow ==
  \A s \in Server :
    server_id[s] # NoId =>
      /\ NewNode(server_id[s], listen[s]) \in Entries(ns[s].logs)
      /\ \A f \in function_map[s] : NewFunc(server_id[s], f) \in Entries(ns[s].logs)

(* A replica never erases a candidate. *)
Candidates(d) ==
  \A id \in Id, f \in Func :
    NewFunc(id, f) \in Entries(d.logs) => id \in d.func_to_ids[f]

CandidatesKept == \A s \in Server : Candidates(ns[s])

(* A client has one call under way, on one connection. *)
OneCall ==
  \A c \in Conn :
    conn[c].src \in Client =>
      /\ phase[conn[c].src] # "idle"
      /\ \A k \in Conn : conn[k].src = conn[c].src => k = c

ReplyInv == MessagesTold /\ ServersKnow /\ CandidatesKept /\ OneCall

-----------------------------------------------------------------------------
(* Logs and deltas. *)

(* A log that grows keeps its entries. *)
LEMMA PrefixKeepsEntries ==
  ASSUME NEW l, NEW m, Len(l) \in Nat, Len(m) \in Nat, Prefix(l, m)
  PROVE  Entries(l) \subseteq Entries(m)
<1> SUFFICES ASSUME NEW k \in 1 .. Len(l) PROVE l[k] \in Entries(m)
  BY DEF Entries
<1>1. k \in 1 .. Len(m) /\ l[k] = m[k]
  BY DEF Prefix
<1> QED
  BY <1>1 DEF Entries

(* get_logs leaves out nothing a reader lacks. *)
LEMMA KnownReply ==
  ASSUME NEW d \in Directories, NEW l, NEW since \in Nat, NEW e \in Entries(d.logs),
         Len(l) \in Nat, since <= Len(l), Prefix(l, d.logs)
  PROVE  Known(GetLogs(d, since), l, e)
<1>1. PICK j \in 1 .. Len(d.logs) : d.logs[j] = e
  BY DEF Entries
<1>2. Len(d.logs) \in Nat
  BY DEF Directories
<1>3. CASE j <= Len(l)
  <2>1. j \in 1 .. Len(l) /\ l[j] = e
    BY <1>1, <1>2, <1>3 DEF Prefix
  <2> QED
    BY <2>1 DEF Known, Entries
<1>4. CASE j > Len(l)
  <2> DEFINE num_delta == IF Version(d) <= since THEN 0 ELSE Version(d) - since
             item(i) == [version |-> since + i, entry |-> d.logs[since + i]]
             delta == [i \in 1 .. num_delta |-> item(i)]
  <2>1. num_delta = Len(d.logs) - since /\ j - since \in 1 .. num_delta
        /\ since + (j - since) = j
    BY <1>1, <1>2, <1>4 DEF Version
  <2>2. GetLogs(d, since) = delta
    BY DEF GetLogs
  <2>3. Len(delta) = num_delta
    <3> HIDE DEF num_delta, item
    <3> QED
      BY <1>2, <2>1
  <2>4. delta[j - since].entry = e
    <3>1. delta[j - since] = item(j - since)
      BY <2>1
    <3> QED
      BY <1>1, <2>1, <3>1
  <2> HIDE DEF delta
  <2> QED
    BY <2>1, <2>2, <2>3, <2>4 DEF Known
<1> QED
  BY <1>1, <1>2, <1>3, <1>4

(* apply_logs adds the functions of an entry, and removes none. *)
LEMMA ApplyKeepsCandidates ==
  ASSUME NEW d \in Directories, NEW item \in LogItem, Candidates(d)
  PROVE  Candidates(ApplyItem(d, item))
<1> DEFINE e == item.entry
           r == ApplyEntry(d, e)
<1>1. e \in LogEntry /\ d.logs \in Seq(LogEntry) /\ d.func_to_ids \in [Func -> SUBSET Id]
  BY DEF LogItem, Directories
<1>2. CASE e.type = "NEW_FUNC"
  <2>1. e.id \in Id /\ e.func \in Func /\ e = NewFunc(e.id, e.func)
    BY <1>1, <1>2 DEF LogEntry, NewFunc
  <2>2. r.logs = Append(d.logs, e)
    BY <1>2, <2>1, RegisterFnEffect DEF ApplyEntry
  <2>3. r.func_to_ids = [d.func_to_ids EXCEPT ![e.func] = d.func_to_ids[e.func] \cup {e.id}]
    BY <1>2 DEF ApplyEntry, RegisterFn, Directories
  <2> HIDE DEF r, e
  <2>4. Entries(r.logs) = Entries(d.logs) \cup {e}
    BY <1>1, <2>2, EntriesAppend
  <2>5. Candidates(r)
    <3> SUFFICES ASSUME NEW id \in Id, NEW f \in Func, NewFunc(id, f) \in Entries(r.logs)
                 PROVE  id \in r.func_to_ids[f]
      BY DEF Candidates
    <3>1. CASE NewFunc(id, f) \in Entries(d.logs)
      BY <1>1, <2>1, <2>3, <3>1 DEF Candidates
    <3>2. CASE NewFunc(id, f) = e
      <4>1. id = e.id /\ f = e.func
        BY <3>2 DEF NewFunc
      <4> QED
        BY <1>1, <2>1, <2>3, <4>1
    <3> QED
      BY <2>4, <3>1, <3>2
  <2> QED
    BY <2>5 DEF ApplyItem, r, e
<1>3. CASE e.type # "NEW_FUNC"
  <2>1. /\ e.type \in {"NEW_NODE", "KILL_NODE"} /\ e.id \in Id
        /\ e.type = "NEW_NODE" => e.name \in Name /\ e = NewNode(e.id, e.name)
        /\ e.type = "KILL_NODE" => e = KillNode(e.id)
    BY <1>1, <1>3 DEF LogEntry, NewNode, KillNode
  <2>2. r.logs = Append(d.logs, e) /\ r.func_to_ids = d.func_to_ids
    <3>1. CASE e.type = "NEW_NODE"
      BY <2>1, <3>1, RegisterNameLog DEF ApplyEntry, RegisterName, Directories
    <3>2. CASE e.type = "KILL_NODE"
      BY <2>1, <3>2, KillEffect DEF ApplyEntry, Kill, Directories
    <3> QED
      BY <2>1, <3>1, <3>2
  <2> HIDE DEF r
  <2>3. Entries(r.logs) = Entries(d.logs) \cup {e}
    BY <1>1, <2>2, EntriesAppend
  <2>4. \A id \in Id, f \in Func : NewFunc(id, f) # e
    BY <1>3 DEF NewFunc
  <2>5. Candidates(r)
    BY <2>2, <2>3, <2>4 DEF Candidates
  <2> QED
    BY <2>5 DEF ApplyItem, r
<1> QED
  BY <1>2, <1>3

(* What a turn of apply_logs does to the log of the reader. *)
LEMMA ApplyEntries ==
  ASSUME TypeInv, LogInv, NEW c \in Conn, ApplyLogs(c)
  PROVE  LET p == conn[c].src
             d == ns[p]
             r == ns'[p]
             item == Head(conn[c].delta)
         IN  /\ p \in Replica /\ p # Binder
             /\ \A q \in Process : q # p => ns'[q] = ns[q]
             /\ item \in LogItem /\ r = ApplyItem(d, item)
             /\ Entries(d.logs) \subseteq Entries(r.logs)
             /\ item.entry \in Entries(r.logs)
             /\ Len(r.logs) <= Len(d.logs) \/ Len(r.logs) <= item.version
<1> DEFINE p == conn[c].src
           d == ns[p]
           item == Head(conn[c].delta)
           log == ns[Binder].logs
           r == ApplyItem(d, item)
<1>1. p \in Replica /\ p \in Process /\ p # Binder /\ Fits(d, log, item)
      /\ ns' = [ns EXCEPT ![p] = r]
  BY NextFits, DirectoryAssumption DEF ApplyLogs, Process
<1>2. ns \in [Process -> Directories] /\ d \in Directories /\ log \in Seq(LogEntry)
  BY <1>1 DEF TypeInv, TypeOK, Process, Directories
<1>3. Follows(d) /\ WellFormed(log) /\ Prefix(d.logs, log)
  BY <1>1 DEF LogInv, NamesFollowLog, ReplicaPrefix
<1>4. ns'[p] = r /\ \A q \in Process : q # p => ns'[q] = ns[q]
  <2> HIDE DEF r
  <2> QED
    BY <1>1, <1>2
<1> HIDE DEF d, p, item, log
<1>5. item \in LogItem /\ item.version \in 1 .. Len(log) /\ item.entry = log[item.version]
  BY <1>1 DEF Fits
<1>6. /\ \/ r = d
         \/ /\ Len(d.logs) < Len(log)
            /\ r.logs = Append(d.logs, log[Len(d.logs) + 1])
      /\ Prefix(r.logs, log) /\ item.version <= Len(r.logs)
      /\ Len(d.logs) <= Len(r.logs)
  BY <1>1, <1>2, <1>3, ApplyItemFollows
<1>7. r \in Directories
  BY <1>2, <1>5, ApplyItemType
<1>8. Len(r.logs) <= Len(d.logs) \/ Len(r.logs) <= item.version
  <2>1. CASE item.version <= Len(d.logs)
    BY <1>2, <2>1 DEF ApplyItem, Version, Directories
  <2>2. CASE Len(d.logs) < item.version
    <3>1. Len(r.logs) <= Len(d.logs) + 1
      <4> HIDE DEF r
      <4> QED
        BY <1>2, <1>6 DEF Directories
    <3> HIDE DEF r
    <3> QED
      BY <1>2, <1>5, <1>7, <2>2, <3>1 DEF Directories
  <2> QED
    BY <1>2, <1>5, <2>1, <2>2 DEF Directories
<1> HIDE DEF r
<1>9. item.entry \in Entries(r.logs)
  <2>1. item.version \in 1 .. Len(r.logs) /\ r.logs[item.version] = item.entry
    BY <1>5, <1>6, <1>7 DEF Prefix, Directories
  <2> QED
    BY <2>1 DEF Entries
<1>10. Entries(d.logs) \subseteq Entries(r.logs)
  <2>1. Len(d.logs) \in Nat /\ Len(r.logs) \in Nat
    BY <1>2, <1>7 DEF Directories
  <2>2. Prefix(d.logs, r.logs)
    BY <1>2, <1>3, <1>6, <2>1 DEF Prefix
  <2> QED
    BY <2>1, <2>2, PrefixKeepsEntries
<1> QED
  BY <1>1, <1>4, <1>5, <1>8, <1>9, <1>10 DEF p, d, item, r

-----------------------------------------------------------------------------
(* What one step does to messages, servers and clients. *)

(* A message that tells nothing, and is no new one of a client. *)
Silent(k, m) ==
  /\ m.src \in Client => m.src = k.src
  /\ Coming(m) => \/ m.type \notin {"SERVER_OK", "REGISTER_DONE", "LOC_REPLY"}
                  \/ m.type = "LOC_REPLY" /\ m.id = NoId

(* A closed connection tells nothing. *)
LEMMA ClosedSilent == \A k : Silent(k, Closed)
BY ClosedType, NobodyElse DEF Silent, Coming

(* A request tells nothing. *)
LEMMA RequestSilent ==
  ASSUME NEW k, NEW m, m.state = "request", m.src \in Client => m.src = k.src
  PROVE  Silent(k, m)
BY DEF Silent, Coming

(* The replies of workers, of updates and of a search in vain tell nothing. *)
LEMMA RepliedSilent ==
  ASSUME NEW k \in Connection, NEW type \in MessageType, NEW id \in Id \cup {NoId},
         NEW d \in Directories,
         \/ type \in {"EXECUTE_REPLY", "NS_UPDATE_SENT"}
         \/ type = "LOC_REPLY" /\ id = NoId
  PROVE  Silent(k, Replied(k, type, id, d))
<1>1. CASE k.src = Nobody
  BY <1>1, ClosedSilent DEF Replied
<1>2. CASE k.src # Nobody
  <2> DEFINE m == Replied(k, type, id, d)
  <2>1. m.src = k.src /\ m.type = type /\ m.id = id
    BY <1>2, RepliedType
  <2> HIDE DEF m
  <2>2. Silent(k, m)
    BY <2>1 DEF Silent
  <2> QED
    BY <2>2 DEF m
<1> QED
  BY <1>1, <1>2

(* What is left of a message that is dropped, closed or cut off tells nothing. *)
LEMMA LeftSilent ==
  ASSUME NEW k \in Connection, NEW p
  PROVE  /\ AfterDeath(k, p) = k \/ Silent(k, AfterDeath(k, p))
         /\ Silent(k, Abandoned(k)) /\ Silent(k, Dropped(k))
         /\ Silent(k, [k EXCEPT !.state = "spent"])
         /\ Silent(k, [k EXCEPT !.state = "running"])
<1> DEFINE left == [k EXCEPT !.src = Nobody]
           stated(st) == [k EXCEPT !.state = st]
<1>1. k.state \in {"request", "running"} => Silent(k, left)
  <2>1. left.src = Nobody /\ left.state = k.state
    BY DEF Connection
  <2> HIDE DEF left
  <2> QED
    BY <2>1, NobodyElse DEF Silent, Coming
<1>2. \A st \in {"ignored", "spent", "eof", "running"} : Silent(k, stated(st))
  <2> TAKE st \in {"ignored", "spent", "eof", "running"}
  <2>1. stated(st).src = k.src /\ stated(st).state = st
    BY DEF Connection
  <2> HIDE DEF stated
  <2> QED
    BY <2>1 DEF Silent, Coming
<1>3. Silent(k, Closed)
  BY ClosedSilent
<1>4. /\ Abandoned(k) = Closed \/ (k.state = "request" /\ Abandoned(k) = left)
      /\ Dropped(k) \in {Closed, stated("ignored"), stated("spent")}
      /\ \/ AfterDeath(k, p) \in {Closed, stated("eof"), k}
         \/ k.state \in {"request", "running"} /\ AfterDeath(k, p) = left
  BY DEF Abandoned, Dropped, AfterDeath
<1> HIDE DEF left, stated
<1>5. Silent(k, stated("spent")) /\ Silent(k, stated("running"))
  BY <1>2
<1> QED
  BY <1>1, <1>2, <1>3, <1>4, <1>5 DEF stated

(* What happens to a message while no reply is made or read. *)
Quieted(c) == conn'[c] = conn[c] \/ Silent(conn[c], conn'[c])

(* A step that changes one message, which tells nothing after it. *)
LEMMA OneQuieted ==
  ASSUME TypeInv, NEW c \in Conn, NEW m, conn' = [conn EXCEPT ![c] = m],
         Silent(conn[c], m), NEW k \in Conn
  PROVE  Quieted(k)
BY DEF TypeInv, TypeOK, Quieted

(* The library calls of a server make no message that tells something. *)
LEMMA ServerStepQuiet ==
  ASSUME TypeInv, NEW s \in Server, ServerStep(s), NEW k \in Conn
  PROVE  Quieted(k)
<1>1. s \notin Client /\ Nobody \notin Client
  BY NobodyElse
<1>2. \A c \in Conn : conn[c] \in Connection
  BY DEF TypeInv, TypeOK
<1>3. ASSUME NEW n \in Name, RpcInit(s, n) PROVE Quieted(k)
  <2> DEFINE r == Request("I_AM_SERVER", s, Binder)
             m == [r EXCEPT !.name = n]
  <2>1. PICK c \in Conn : conn' = [conn EXCEPT ![c] = m]
    BY <1>3 DEF RpcInit
  <2>2. m.src = s /\ m.state = "request"
    BY DEF Request
  <2> HIDE DEF m
  <2> QED
    BY <1>1, <2>1, <2>2, RequestSilent, OneQuieted
<1>4. ASSUME NEW f \in Func, RpcRegister(s, f) PROVE Quieted(k)
  <2> DEFINE r == Request("REGISTER", s, Binder)
             m == [r EXCEPT !.id = server_id[s], !.func = f]
  <2>1. PICK c \in Conn : conn' = [conn EXCEPT ![c] = m]
    BY <1>4 DEF RpcRegister
  <2>2. m.src = s /\ m.state = "request"
    BY DEF Request
  <2> HIDE DEF m
  <2> QED
    BY <1>1, <2>1, <2>2, RequestSilent, OneQuieted
<1>5. CASE RpcExecute(s)
  <2> DEFINE m == Notification("NEW_SERVER_EXECUTE", s, Binder)
  <2>1. PICK c \in Conn : conn' = [conn EXCEPT ![c] = m]
    BY <1>5 DEF RpcExecute
  <2>2. m.src = Nobody /\ m.state = "request"
    BY DEF Notification, Request
  <2> HIDE DEF m
  <2> QED
    BY <1>1, <2>1, <2>2, RequestSilent, OneQuieted
<1>6. CASE RpcExecuteWithoutRegister(s)
  BY <1>6 DEF RpcExecuteWithoutRegister, Quieted
<1>7. CASE NewServerExecute(s)
  <2> DEFINE m == Request("ASK_NS_UPDATE", s, Binder)
  <2>1. PICK c \in Conn : conn' = [conn EXCEPT ![c] = m]
    BY <1>7 DEF NewServerExecute
  <2>2. m.src = s /\ m.state = "request"
    BY DEF Request
  <2> HIDE DEF m
  <2> QED
    BY <1>1, <2>1, <2>2, RequestSilent, OneQuieted
<1>8. CASE ServerDies(s)
  <2>1. conn'[k] = AfterDeath(conn[k], s)
    BY <1>8 DEF ServerDies, Die
  <2> QED
    BY <1>2, <2>1, LeftSilent DEF Quieted
<1>9. ASSUME NEW c \in Conn, AcceptExecute(c, s) PROVE Quieted(k)
  <2>1. conn' = [conn EXCEPT ![c] = [conn[c] EXCEPT !.state = "running"]]
    BY <1>9 DEF AcceptExecute
  <2>2. Silent(conn[c], [conn[c] EXCEPT !.state = "running"])
    BY <1>2, LeftSilent
  <2> QED
    BY <2>1, <2>2, OneQuieted
<1>10. ASSUME NEW c \in Conn, RefuseExecute(c, s) PROVE Quieted(k)
  <2>1. conn' = [conn EXCEPT ![c] = Replied(conn[c], "EXECUTE_REPLY", NoId, ns[s])]
    BY <1>10 DEF RefuseExecute, Answer
  <2>2. ns[s] \in Directories
    BY DEF TypeInv, TypeOK, Process, Replica
  <2>3. Silent(conn[c], Replied(conn[c], "EXECUTE_REPLY", NoId, ns[s]))
    BY <1>2, <2>2, RepliedSilent DEF MessageType
  <2> QED
    BY <2>1, <2>3, OneQuieted
<1>11. ASSUME NEW c \in Conn, DropOtherRequest(c, s) PROVE Quieted(k)
  <2>1. conn' = [conn EXCEPT ![c] = Dropped(conn[c])]
    BY <1>11 DEF DropOtherRequest
  <2> QED
    BY <1>2, <2>1, LeftSilent, OneQuieted
<1> QED
  BY <1>3, <1>4, <1>5, <1>6, <1>7, <1>8, <1>9, <1>10, <1>11 DEF ServerStep

(* Neither does receiving, but for apply_logs. *)
LEMMA ReceiveQuiet ==
  ASSUME TypeInv, NEW c \in Conn, Receive(c), ~ ApplyLogs(c), NEW k \in Conn
  PROVE  Quieted(k)
<1>1. \A l \in Conn : conn[l] \in Connection
  BY DEF TypeInv, TypeOK
<1>2. CASE \/ RpcInitDone(c) \/ RpcRegisterDone(c)
           \/ RpcCallFails(c) \/ RpcCallDone(c) \/ RemoteDisconnected(c)
  <2>1. conn' = [conn EXCEPT ![c] = Closed]
    BY <1>2 DEF RpcInitDone, RpcRegisterDone, RpcCallFails, RpcCallDone, RemoteDisconnected
  <2> QED
    BY <2>1, ClosedSilent, OneQuieted
<1>3. CASE WorkerReply(c)
  <2> DEFINE m == Replied(conn[c], "EXECUTE_REPLY", NoId, ns[conn[c].dst])
  <2>1. conn' = [conn EXCEPT ![c] = m]
    BY <1>3 DEF WorkerReply, Answer
  <2>2. conn[c].dst \in Server
    BY <1>3 DEF WorkerReply, TypeInv, MessagesOK, MessageOK
  <2>3. ns[conn[c].dst] \in Directories
    BY <2>2 DEF TypeInv, TypeOK, Process, Replica
  <2>4. Silent(conn[c], m)
    BY <1>1, <2>3, RepliedSilent DEF MessageType
  <2> HIDE DEF m
  <2> QED
    BY <2>1, <2>4, OneQuieted
<1>4. ASSUME NEW s \in Server, RpcCallHelper(c, s) PROVE Quieted(k)
  <2> DEFINE r == Request("EXECUTE", conn[c].src, s)
             m == [r EXCEPT !.func = conn[c].func]
  <2>1. conn' = [conn EXCEPT ![c] = m]
    BY <1>4 DEF RpcCallHelper
  <2>2. m.src = conn[c].src /\ m.state = "request"
    BY DEF Request
  <2> HIDE DEF m
  <2> QED
    BY <2>1, <2>2, RequestSilent, OneQuieted
<1>5. CASE UpdateDone(c)
  <2> DEFINE s == conn[c].src
             top == waits[s][Len(waits[s])]
             held == \E i \in 1 .. Len(waits[s]) - 1 : waits[s][i] = c
  <2>1. PICK was_read \in BOOLEAN :
          conn' = [l \in Conn |->
                    CASE l = c -> IF held THEN [conn[c] EXCEPT !.state = "spent"] ELSE Closed
                      [] l = top /\ l # c -> IF was_read THEN conn[l] ELSE Abandoned(conn[l])
                      [] OTHER -> conn[l]]
    BY <1>5 DEF UpdateDone
  <2>2. \/ conn'[k] = conn[k]
        \/ conn'[k] \in {Closed, Abandoned(conn[k]), [conn[k] EXCEPT !.state = "spent"]}
    <3> HIDE DEF held, top, s
    <3> QED
      BY <2>1
  <2> QED
    BY <1>1, <2>2, ClosedSilent, LeftSilent DEF Quieted
<1> QED
  BY <1>2, <1>3, <1>4, <1>5 DEF Receive

(* Neither does the binder, in all but three of its steps. *)
LEMMA BinderQuiet ==
  ASSUME TypeInv, NEW c \in Conn,
         \/ Handle(c) /\ ~ HandleIAmServer(c) /\ ~ HandleRegister(c)
         \/ Serve(c) /\ \A id \in Id : ~ Suggest(c, id),
         NEW k \in Conn
  PROVE  Quieted(k)
<1>1. conn[c] \in Connection /\ ns[Binder] \in Directories
  BY DEF TypeInv, TypeOK, Process
<1>2. CASE HandleAskNsUpdate(c)
  <2> DEFINE m == Replied(conn[c], "NS_UPDATE_SENT", NoId, ns[Binder])
  <2>1. conn' = [conn EXCEPT ![c] = m]
    BY <1>2 DEF HandleAskNsUpdate, Answer
  <2>2. Silent(conn[c], m)
    BY <1>1, RepliedSilent DEF MessageType
  <2> HIDE DEF m
  <2> QED
    BY <2>1, <2>2, OneQuieted
<1>3. CASE NoSuggestion(c)
  <2> DEFINE m == Replied(conn[c], "LOC_REPLY", NoId, ns[Binder])
  <2>1. conn' = [conn EXCEPT ![c] = m]
    BY <1>3 DEF NoSuggestion, Answer
  <2>2. Silent(conn[c], m)
    BY <1>1, RepliedSilent DEF MessageType
  <2> HIDE DEF m
  <2> QED
    BY <2>1, <2>2, OneQuieted
<1>4. CASE NotifyDone(c) \/ PeerUnknown(c)
  <2>1. conn' = [conn EXCEPT ![c] = Closed]
    BY <1>4 DEF NotifyDone, PeerUnknown
  <2> QED
    BY <2>1, ClosedSilent, OneQuieted
<1>5. CASE conn' = conn
  BY <1>5 DEF Quieted
<1>6. \/ HandleAskNsUpdate(c) \/ NoSuggestion(c) \/ NotifyDone(c) \/ PeerUnknown(c)
      \/ conn' = conn
  BY DEF Handle, Serve, HandleLocRequest, HandleNewServerExecute, SkipUnresolvable,
         KillCandidate, KillDeadServer, NotifyServer
<1> QED
  BY <1>2, <1>3, <1>4, <1>5, <1>6

(* The logs of the replicas stay, and the binder's may grow. *)
Calm ==
  /\ \A p \in Replica : ns'[p] = ns[p]
  /\ Prefix(ns[Binder].logs, ns'[Binder].logs)

(* What a step does to the logs. *)
LEMMA StepLogs ==
  ASSUME TypeInv, LogInv, Next
  PROVE  \/ Calm
         \/ \E c \in Conn : ApplyLogs(c)
         \/ \E s \in Server : ServerDies(s)
         \/ \E p \in Client : ClientDies(p)
<1>1. Quiet => Calm
  <2>1. Len(ns[Binder].logs) \in Nat
    BY DEF TypeInv, TypeOK, Process, Directories
  <2> QED
    BY <2>1 DEF Quiet, Calm, Prefix
<1>2. BinderWrites => Calm
  <2> SUFFICES ASSUME NEW e, Writes(ns[Binder], e), ns' = [ns EXCEPT ![Binder] = e]
               PROVE  Calm
    BY DEF BinderWrites
  <2>1. ns'[Binder] = e /\ \A p \in Replica : ns'[p] = ns[p]
    BY DirectoryAssumption DEF TypeInv, TypeOK, Process
  <2> QED
    BY <2>1 DEF Writes, Calm
<1> QED
  BY <1>1, <1>2, ServerStepLogs, ClientStepLogs, ReceiveLogs, HandleLogs, ServeLogs DEF Next

(* How a server comes to know something of itself. *)
LEMMA ServerMoves ==
  ASSUME TypeInv, ServerInv, Next, NEW s \in Server
  PROVE  \/ /\ server_id'[s] = server_id[s] /\ listen'[s] = listen[s]
            /\ function_map'[s] = function_map[s]
         \/ server_id'[s] = NoId
         \/ \E c \in Conn : conn[c].src = s /\ (RpcInitDone(c) \/ RpcRegisterDone(c))
<1>1. ASSUME NEW t \in Server, ServerStep(t), ~ ServerDies(t), \A n \in Name : ~ RpcInit(t, n)
      PROVE  UNCHANGED <<server_id, listen, function_map>>
  BY <1>1 DEF ServerStep, RpcRegister, RpcExecute, RpcExecuteWithoutRegister,
              NewServerExecute, AcceptExecute, RefuseExecute, DropOtherRequest, serverVars
<1>2. ASSUME NEW t \in Server, NEW n \in Name, RpcInit(t, n)
      PROVE  /\ server_id'[s] = server_id[s]
             /\ server_id[s] = NoId
                \/ (listen'[s] = listen[s] /\ function_map'[s] = function_map[s])
  BY <1>2 DEF RpcInit, ServerInv, ListInv, ServersListed, TypeInv, TypeOK
<1>3. ASSUME NEW t \in Server, ServerDies(t)
      PROVE  \/ server_id'[s] = NoId
             \/ /\ server_id'[s] = server_id[s] /\ listen'[s] = listen[s]
                /\ function_map'[s] = function_map[s]
  BY <1>3 DEF ServerDies, TypeInv, TypeOK
<1>4. ASSUME NEW q \in Client, ClientStep(q)
      PROVE  UNCHANGED <<server_id, listen, function_map>>
  BY <1>4 DEF ClientStep, RpcCall, ClientDies, serverVars
<1>5. ASSUME NEW c \in Conn, Receive(c)
      PROVE  \/ /\ server_id'[s] = server_id[s] /\ listen'[s] = listen[s]
                /\ function_map'[s] = function_map[s]
             \/ conn[c].src = s /\ (RpcInitDone(c) \/ RpcRegisterDone(c))
  BY <1>5 DEF Receive, ApplyLogs, UpdateDone, RpcInitDone, RpcRegisterDone, WorkerReply,
              RpcCallHelper, RpcCallFails, RpcCallDone, RemoteDisconnected, serverVars,
              TypeInv, TypeOK
<1>6. ASSUME NEW c \in Conn, Handle(c) \/ Serve(c)
      PROVE  UNCHANGED <<server_id, listen, function_map>>
  BY <1>6 DEF Handle, PeerUnknown, HandleIAmServer, HandleRegister, HandleAskNsUpdate,
              HandleLocRequest, HandleNewServerExecute, Serve, NoSuggestion, NotifyDone,
              SkipUnresolvable, Suggest, KillCandidate, KillDeadServer, NotifyServer,
              serverVars
<1> QED
  BY <1>1, <1>2, <1>3, <1>4, <1>5, <1>6 DEF Next

(* How a call of a client ends. *)
LEMMA CallEnds ==
  ASSUME TypeInv, Next, NEW p \in Client, phase[p] # "idle", phase'[p] = "idle"
  PROVE  \/ ClientDies(p)
         \/ \E c \in Conn : conn[c].src = p /\ conn' = [conn EXCEPT ![c] = Closed]
<1>1. p \notin Server /\ p \in Replica
  BY NobodyElse DEF Replica
<1>2. ASSUME NEW s \in Server, ServerStep(s) PROVE phase'[p] = phase[p]
  BY <1>1, <1>2 DEF ServerStep, RpcInit, RpcRegister, RpcExecute, RpcExecuteWithoutRegister,
              NewServerExecute, AcceptExecute, RefuseExecute, DropOtherRequest, ServerDies,
              TypeInv, TypeOK
<1>3. ASSUME NEW q \in Client, ClientStep(q) PROVE ClientDies(p)
  BY <1>1, <1>3 DEF ClientStep, RpcCall, ClientDies, TypeInv, TypeOK
<1>4. ASSUME NEW c \in Conn, Receive(c)
      PROVE  conn[c].src = p /\ conn' = [conn EXCEPT ![c] = Closed]
  BY <1>1, <1>4 DEF Receive, ApplyLogs, UpdateDone, RpcInitDone, RpcRegisterDone, WorkerReply,
              RpcCallHelper, RpcCallFails, RpcCallDone, RemoteDisconnected, TypeInv, TypeOK
<1>5. ASSUME NEW c \in Conn, Handle(c) \/ Serve(c) PROVE phase' = phase
  BY <1>5 DEF Handle, PeerUnknown, HandleIAmServer, HandleRegister, HandleAskNsUpdate,
              HandleLocRequest, HandleNewServerExecute, Serve, NoSuggestion, NotifyDone,
              SkipUnresolvable, Suggest, KillCandidate, KillDeadServer, NotifyServer
<1> QED
  BY <1>2, <1>3, <1>4, <1>5 DEF Next

-----------------------------------------------------------------------------
(* The replies that tell something. *)

(* What the binder answers from its directory d reaches the reader. *)
LEMMA AnswerKnown ==
  ASSUME TypeInv, LogInv, NEW c \in Conn, conn[c].src \in Replica,
         NEW d \in Directories, Prefix(ns[Binder].logs, d.logs), NEW e \in Entries(d.logs)
  PROVE  Known(GetLogs(d, conn[c].ver), ns[conn[c].src].logs, e)
<1> DEFINE l == ns[conn[c].src].logs
<1>1. conn[c].ver \in Nat /\ conn[c].ver <= Len(l)
  BY DEF TypeInv, TypeOK, Connection, LogInv, MessagesSent, SentTo
<1>2. Len(l) \in Nat /\ Len(ns[Binder].logs) \in Nat /\ Len(d.logs) \in Nat
  BY DEF TypeInv, TypeOK, Process, Directories
<1>3. Prefix(l, ns[Binder].logs)
  BY DEF LogInv, ReplicaPrefix
<1> HIDE DEF l
<1>4. Prefix(l, d.logs)
  BY <1>2, <1>3 DEF Prefix
<1>5. Known(GetLogs(d, conn[c].ver), l, e)
  BY <1>1, <1>2, <1>4, KnownReply
<1> QED
  BY <1>5 DEF l

(* SERVER_OK: the new record is among the entries of its delta. *)
LEMMA IAmServerTold ==
  ASSUME TypeInv, TypeInv', LogInv, LogInv', ServerInv, Calm,
         NEW c \in Conn, HandleIAmServer(c)
  PROVE  Told(conn'[c], ns', server_id')
<1> DEFINE k == conn[c]
           old == KillOldRecord(ns[Binder], k.name)
           d == RegisterName(old, next_u32, k.name)
           m == Replied(k, "SERVER_OK", next_u32, d)
<1>1. /\ k \in Connection /\ ns \in [Process -> Directories] /\ Binder \in Process
      /\ conn \in [Conn -> Connection]
      /\ k.name \in Name /\ next_u32 \in Id
  BY FreshIdType, MessageFacts
     DEF TypeInv, TypeOK, Process, HandleIAmServer, HandleRequest, MessageOK
<1>2. conn'[c] = m /\ ns'[Binder] = d
  BY <1>1 DEF HandleIAmServer, Answer
<1>3. d \in Directories
  BY <1>1, <1>2 DEF TypeInv, TypeOK
<1>4. CASE k.src = Nobody
  BY <1>2, <1>4, ClosedType DEF Replied, Told, Coming
<1>5. CASE k.src # Nobody
  <2>1. m.type = "SERVER_OK" /\ m.src = k.src /\ m.id = next_u32 /\ m.name = k.name
        /\ m.delta = GetLogs(d, k.ver)
    <3> HIDE DEF d
    <3>1. m = [state |-> "reply", type |-> "SERVER_OK", src |-> k.src, dst |-> k.dst,
               ver |-> k.ver, id |-> next_u32, func |-> k.func, name |-> k.name,
               delta |-> GetLogs(d, k.ver)]
      BY <1>1, <1>3, <1>5, RepliedType DEF MessageType
    <3> QED
      BY <3>1
  <2>2. k.src \in Replica
    BY <1>1, <1>5 DEF Connection
  <2>3. NewNode(next_u32, k.name) \in Entries(d.logs)
    <3>1. old \in Directories
      <4>1. k.name \in Name /\ ns[Binder] \in Directories
        BY <1>1
      <4>2. ns[Binder].name_to_id[k.name] # NoId => ns[Binder].name_to_id[k.name] \in Id
        BY <4>1 DEF Directories
      <4> QED
        BY <4>1, <4>2, KillType DEF KillOldRecord
    <3> HIDE DEF old
    <3>2. d.logs = Append(old.logs, NewNode(next_u32, k.name))
      BY <1>1, <3>1, RegisterNameLog
    <3>3. old.logs \in Seq(LogEntry) /\ NewNode(next_u32, k.name) \in LogEntry
      BY <1>1, <3>1, EntryTypes DEF Directories
    <3> HIDE DEF d
    <3> QED
      BY <3>2, <3>3, EntriesAppend
  <2> HIDE DEF d, m
  <2>4. Known(m.delta, ns[k.src].logs, NewNode(m.id, m.name))
    BY <1>2, <1>3, <2>1, <2>2, <2>3, AnswerKnown DEF Calm
  <2>5. ns'[m.src].logs = ns[k.src].logs
    BY <2>1, <2>2 DEF Calm
  <2> QED
    BY <1>2, <2>1, <2>4, <2>5 DEF Told
<1> QED
  BY <1>4, <1>5

(* REGISTER_DONE: so is the function. *)
LEMMA RegisterTold ==
  ASSUME TypeInv, TypeInv', LogInv, LogInv', ServerInv, Calm,
         NEW c \in Conn, HandleRegister(c)
  PROVE  Told(conn'[c], ns', server_id')
<1> DEFINE k == conn[c]
           d == RegisterFn(ns[Binder], k.id, k.func)
           m == Replied(k, "REGISTER_DONE", NoId, d)
<1>1. /\ k \in Connection /\ ns \in [Process -> Directories] /\ Binder \in Process
      /\ conn \in [Conn -> Connection]
      /\ k.func \in Func /\ k.id \in Id
      /\ k.src \in Server => k.id = server_id[k.src]
  BY MessageFacts
     DEF TypeInv, TypeOK, Process, HandleRegister, HandleRequest, MessageOK, Listed
<1>2. conn'[c] = m /\ ns'[Binder] = d /\ server_id' = server_id
  BY <1>1 DEF HandleRegister, Answer, serverVars
<1>3. d \in Directories
  BY <1>1, <1>2 DEF TypeInv, TypeOK
<1>4. CASE k.src = Nobody
  BY <1>2, <1>4, ClosedType DEF Replied, Told, Coming
<1>5. CASE k.src # Nobody
  <2>1. m.type = "REGISTER_DONE" /\ m.src = k.src /\ m.func = k.func
        /\ m.delta = GetLogs(d, k.ver)
    <3> HIDE DEF d, k
    <3>1. k \in Connection /\ "REGISTER_DONE" \in MessageType /\ NoId \in Id \cup {NoId}
      BY <1>1 DEF MessageType
    <3>2. m = [state |-> "reply", type |-> "REGISTER_DONE", src |-> k.src, dst |-> k.dst,
               ver |-> k.ver, id |-> NoId, func |-> k.func, name |-> k.name,
               delta |-> GetLogs(d, k.ver)]
      BY <1>3, <1>5, <3>1, RepliedType
    <3> QED
      BY <3>2
  <2>2. k.src \in Replica
    BY <1>1, <1>5 DEF Connection
  <2>3. NewFunc(k.id, k.func) \in Entries(d.logs)
    <3>1. ns[Binder] \in Directories /\ d.logs = Append(ns[Binder].logs, NewFunc(k.id, k.func))
      BY <1>1, RegisterFnEffect
    <3>2. ns[Binder].logs \in Seq(LogEntry) /\ NewFunc(k.id, k.func) \in LogEntry
      BY <1>1, <3>1, EntryTypes DEF Directories
    <3> HIDE DEF d
    <3> QED
      BY <3>1, <3>2, EntriesAppend
  <2> HIDE DEF d, m
  <2>4. Known(m.delta, ns[k.src].logs, NewFunc(k.id, k.func))
    BY <1>2, <1>3, <2>1, <2>2, <2>3, AnswerKnown DEF Calm
  <2>5. ns'[m.src].logs = ns[k.src].logs
    BY <2>1, <2>2 DEF Calm
  <2> QED
    BY <1>1, <1>2, <2>1, <2>4, <2>5 DEF Told
<1> QED
  BY <1>4, <1>5

(* LOC_REPLY: the suggested id has a record that nobody killed before the reply. *)
LEMMA SuggestTold ==
  ASSUME TypeInv, TypeInv', LogInv, LogInv', Calm,
         NEW c \in Conn, NEW id \in Id, Suggest(c, id)
  PROVE  Told(conn'[c], ns', server_id')
<1> DEFINE k == conn[c]
           d == ns[Binder]
           m == Replied(k, "LOC_REPLY", id, d)
<1>1. /\ k \in Connection /\ ns \in [Process -> Directories] /\ Binder \in Process
      /\ conn \in [Conn -> Connection] /\ d \in Directories /\ Follows(d)
  BY DEF TypeInv, TypeOK, Process, LogInv, NamesFollowLog
<1>2. /\ conn'[c] = m /\ d.id_to_name[id] # NoName
      /\ ns' = [ns EXCEPT ![Binder] = MovePivot(d, k.func, NextPivot(d, k.func))]
  BY <1>1 DEF Suggest, Answer
<1>3. ns'[Binder].logs = d.logs
  BY <1>1, <1>2 DEF MovePivot, Directories
<1>4. CASE k.src = Nobody
  BY <1>2, <1>4, ClosedType DEF Replied, Told, Coming
<1>5. CASE k.src # Nobody
  <2>1. m.type = "LOC_REPLY" /\ m.src = k.src /\ m.id = id /\ m.delta = GetLogs(d, k.ver)
    <3> HIDE DEF d, k
    <3>1. m = [state |-> "reply", type |-> "LOC_REPLY", src |-> k.src, dst |-> k.dst,
               ver |-> k.ver, id |-> id, func |-> k.func, name |-> k.name,
               delta |-> GetLogs(d, k.ver)]
      BY <1>1, <1>5, RepliedType DEF MessageType
    <3> QED
      BY <3>1
  <2>2. k.src \in Replica
    BY <1>1, <1>5 DEF Connection
  <2>3. PICK n \in Name : NewNode(id, n) \in Entries(d.logs) /\ KillNode(id) \notin Entries(d.logs)
    <3>1. d.id_to_name[id] \in Name
      BY <1>1, <1>2 DEF Directories
    <3> QED
      BY <1>1, <3>1 DEF Follows, Named
  <2>4. Len(d.logs) \in Nat /\ Prefix(d.logs, d.logs)
    BY <1>1 DEF Directories, Prefix
  <2>5. Known(m.delta, ns[k.src].logs, NewNode(id, n))
    BY <1>1, <2>1, <2>2, <2>3, <2>4, AnswerKnown
  <2>6. ns'[m.src].logs = ns[k.src].logs
    BY <2>1, <2>2 DEF Calm
  <2>7. AliveUntil(m, ns', Len(d.logs))
    <3>1. Len(ns[k.src].logs) <= Len(d.logs)
      BY <2>2 DEF LogInv, ReplicaPrefix, Prefix
    <3>2. k.ver \in Nat
      BY <1>1 DEF Connection
    <3>3. \A i \in 1 .. Len(m.delta) : m.delta[i].version <= Len(d.logs)
      BY <1>1, <2>1, <3>2, GetLogsType
    <3>4. \A j \in 1 .. Len(d.logs) : d.logs[j] # KillNode(id)
      BY <2>3 DEF Entries
    <3> HIDE DEF m, d
    <3> QED
      BY <1>3, <2>1, <2>6, <3>1, <3>3, <3>4 DEF AliveUntil
  <2> HIDE DEF m
  <2>8. m.src \in Server => m.type \notin {"SERVER_OK", "REGISTER_DONE"}
    BY <2>1
  <2>9. Len(d.logs) \in 0 .. Len(ns'[Binder].logs)
    BY <1>3, <2>4
  <2> HIDE DEF d
  <2> QED
    BY <1>2, <2>1, <2>5, <2>6, <2>7, <2>8, <2>9 DEF Told
<1> QED
  BY <1>4, <1>5

-----------------------------------------------------------------------------
(* Told, at every step. *)

(* What a message tells stays true while the logs grow. *)
LEMMA ToldStays ==
  ASSUME TypeInv, TypeInv', NEW k \in Connection, Told(k, ns, server_id),
         Prefix(ns[Binder].logs, ns'[Binder].logs),
         k.src \in Server => Entries(ns[k.src].logs) \subseteq Entries(ns'[k.src].logs),
         k.src \in Client => ns'[k.src] = ns[k.src],
         Coming(k) /\ k.src \in Server /\ k.type = "REGISTER_DONE"
           => server_id'[k.src] = server_id[k.src]
  PROVE  Told(k, ns', server_id')
<1> SUFFICES ASSUME Coming(k) PROVE Told(k, ns', server_id')
  BY DEF Told
<1>1. ASSUME k.src \in Server, NEW e, Known(k.delta, ns[k.src].logs, e)
      PROVE  Known(k.delta, ns'[k.src].logs, e)
  BY <1>1 DEF Known
<1>2. ASSUME k.src \in Client, NEW v \in 0 .. Len(ns[Binder].logs), AliveUntil(k, ns, v)
      PROVE  v \in 0 .. Len(ns'[Binder].logs) /\ AliveUntil(k, ns', v)
  <2>1. Len(ns[Binder].logs) \in Nat /\ Len(ns'[Binder].logs) \in Nat
    BY DEF TypeInv, TypeOK, Process, Directories
  <2> QED
    BY <1>2, <2>1 DEF AliveUntil, Prefix
<1>3. k.src \in Server => k.src \notin Client
  BY NobodyElse
<1> QED
  BY <1>1, <1>2, <1>3 DEF Told

(* The binder's log only grows, and the log of a server that lives too. *)
LEMMA LogsGrow ==
  ASSUME TypeInv, LogInv, Next
  PROVE  /\ Prefix(ns[Binder].logs, ns'[Binder].logs)
         /\ \A s \in Server :
              ~ ServerDies(s) => Entries(ns[s].logs) \subseteq Entries(ns'[s].logs)
<1>1. ns \in [Process -> Directories] /\ Binder \in Process /\ Replica \subseteq Process
      /\ Server \subseteq Replica /\ Client \subseteq Replica /\ Binder \notin Replica
  BY DirectoryAssumption DEF TypeInv, TypeOK, Process, Replica
<1>2. Prefix(ns[Binder].logs, ns[Binder].logs)
  BY <1>1 DEF Prefix, Directories
<1>3. CASE Calm
  BY <1>1, <1>3 DEF Calm
<1>4. ASSUME NEW c \in Conn, ApplyLogs(c)
      PROVE  /\ ns'[Binder] = ns[Binder]
             /\ \A s \in Server : Entries(ns[s].logs) \subseteq Entries(ns'[s].logs)
  BY <1>1, <1>4, ApplyEntries
<1>5. ASSUME NEW t \in Server, ServerDies(t)
      PROVE  ns'[Binder] = ns[Binder] /\ \A s \in Server : s # t => ns'[s] = ns[s]
  BY <1>1, <1>5 DEF ServerDies, Die
<1>6. ASSUME NEW p \in Client, ClientDies(p)
      PROVE  ns'[Binder] = ns[Binder] /\ \A s \in Server : ns'[s] = ns[s]
  BY <1>1, <1>6, NobodyElse DEF ClientDies, Die
<1> QED
  BY <1>2, <1>3, <1>4, <1>5, <1>6, StepLogs

(* A server that has its id keeps it until it dies. *)
LEMMA IdStays ==
  ASSUME TypeInv, ServerInv, Next, NEW s \in Server, server_id[s] \in Id, ~ ServerDies(s)
  PROVE  server_id'[s] = server_id[s]
<1>1. ASSUME NEW t \in Server, ServerStep(t) PROVE server_id'[s] = server_id[s]
  BY <1>1 DEF ServerStep, RpcInit, RpcRegister, RpcExecute, RpcExecuteWithoutRegister,
              NewServerExecute, AcceptExecute, RefuseExecute, DropOtherRequest, ServerDies,
              serverVars, TypeInv, TypeOK
<1>2. ASSUME NEW q \in Client, ClientStep(q) PROVE server_id' = server_id
  BY <1>2 DEF ClientStep, RpcCall, ClientDies, serverVars
<1>3. ASSUME NEW c \in Conn, RpcInitDone(c) PROVE server_id'[s] = server_id[s]
  <2>1. conn[c].src = s => server_id[s] = NoId
    BY <1>3, MessageFacts
       DEF RpcInitDone, Received, Receiving, Listed, Announcing, Confirming, Coming,
           ServerInv, ListInv, ServersListed
  <2>2. NoId \notin Id
    BY NameServiceAssumption DEF NoId, Id
  <2> QED
    BY <1>3, <2>1, <2>2 DEF RpcInitDone, TypeInv, TypeOK
<1>4. ASSUME NEW c \in Conn, Receive(c), ~ RpcInitDone(c) PROVE server_id' = server_id
  BY <1>4 DEF Receive, ApplyLogs, UpdateDone, RpcRegisterDone, WorkerReply,
              RpcCallHelper, RpcCallFails, RpcCallDone, RemoteDisconnected, serverVars
<1>5. ASSUME NEW c \in Conn, Handle(c) \/ Serve(c) PROVE server_id' = server_id
  BY <1>5 DEF Handle, PeerUnknown, HandleIAmServer, HandleRegister, HandleAskNsUpdate,
              HandleLocRequest, HandleNewServerExecute, Serve, NoSuggestion, NotifyDone,
              SkipUnresolvable, Suggest, KillCandidate, KillDeadServer, NotifyServer,
              serverVars
<1> QED
  BY <1>1, <1>2, <1>3, <1>4, <1>5 DEF Next

(* apply_logs moves what a reply tells into the log of its reader. *)
LEMMA ApplyTold ==
  ASSUME TypeInv, TypeInv', LogInv, NEW c \in Conn, Told(conn[c], ns, server_id),
         ApplyLogs(c)
  PROVE  Told(conn'[c], ns', server_id')
<1> DEFINE k == conn[c]
           item == Head(k.delta)
           m == [k EXCEPT !.state = "applying", !.delta = Tail(k.delta)]
           log == ns[k.src].logs
           next == ns'[k.src].logs
<1>1. /\ k \in Connection /\ k.delta \in Seq(LogItem) /\ k.delta # <<>> /\ Coming(k)
      /\ conn \in [Conn -> Connection] /\ server_id' = server_id
  BY DEF TypeInv, TypeOK, Connection, ApplyLogs, Receiving, Coming, serverVars
<1>2. conn'[c] = m
  BY <1>1 DEF ApplyLogs
<1>3. /\ m.src = k.src /\ m.type = k.type /\ m.id = k.id /\ m.func = k.func
      /\ m.name = k.name /\ m.delta = Tail(k.delta)
  BY <1>1 DEF Connection
<1>4. /\ Entries(log) \subseteq Entries(next) /\ item.entry \in Entries(next)
      /\ Len(next) <= Len(log) \/ Len(next) <= item.version
      /\ ns'[Binder] = ns[Binder] /\ item \in LogItem
      /\ k.src \in Replica
  <2>1. Binder \in Process
    BY DEF Process
  <2> QED
    BY <2>1, ApplyEntries
<1>5. /\ Len(Tail(k.delta)) = Len(k.delta) - 1 /\ Len(k.delta) \in Nat \ {0}
      /\ item = k.delta[1]
      /\ \A i \in 1 .. Len(k.delta) - 1 : Tail(k.delta)[i] = k.delta[i + 1]
  <2> DEFINE delta == k.delta
  <2>1. delta \in Seq(LogItem) /\ delta # <<>>
    BY <1>1
  <2> HIDE DEF delta
  <2>2. /\ Len(Tail(delta)) = Len(delta) - 1 /\ Len(delta) \in Nat \ {0}
        /\ Head(delta) = delta[1]
        /\ \A i \in 1 .. Len(delta) - 1 : Tail(delta)[i] = delta[i + 1]
    BY <2>1
  <2> QED
    BY <2>2 DEF delta
<1>6. Len(log) \in Nat /\ Len(next) \in Nat
  BY <1>4 DEF TypeInv, TypeOK, Process, Directories
<1>7. ASSUME NEW e, Known(k.delta, log, e) PROVE Known(Tail(k.delta), next, e)
  <2> HIDE DEF log, next, k, item
  <2>1. CASE e \in Entries(log)
    BY <1>4, <2>1 DEF Known
  <2>2. ASSUME NEW i \in 1 .. Len(k.delta), k.delta[i].entry = e
        PROVE  Known(Tail(k.delta), next, e)
    <3>1. CASE i = 1
      BY <1>4, <1>5, <2>2, <3>1 DEF Known
    <3>2. CASE i # 1
      <4>1. i - 1 \in 1 .. Len(k.delta) - 1 /\ (i - 1) + 1 = i
        BY <1>5, <3>2
      <4> QED
        BY <1>5, <2>2, <4>1 DEF Known
    <3> QED
      BY <3>1, <3>2
  <2> QED
    BY <1>7, <2>1, <2>2 DEF Known
<1>8. ASSUME NEW v \in 0 .. Len(ns[Binder].logs), AliveUntil(k, ns, v)
      PROVE  AliveUntil(m, ns', v)
  <2> HIDE DEF k, item, m
  <2>1. Len(next) <= v
    <3>1. Len(log) <= v /\ item.version <= v
      BY <1>5, <1>8 DEF AliveUntil, log
    <3>2. item.version \in Nat /\ v \in Nat
      BY <1>4 DEF LogItem
    <3> HIDE DEF log, next
    <3> QED
      BY <1>4, <1>6, <3>1, <3>2
  <2>2. \A i \in 1 .. Len(m.delta) : m.delta[i].version <= v
    <3> TAKE i \in 1 .. Len(m.delta)
    <3>1. i + 1 \in 1 .. Len(k.delta) /\ m.delta[i] = k.delta[i + 1]
      BY <1>3, <1>5
    <3> QED
      BY <1>8, <3>1 DEF AliveUntil
  <2>3. \A j \in 1 .. v : ns'[Binder].logs[j] # KillNode(m.id)
    BY <1>3, <1>4, <1>8 DEF AliveUntil
  <2> QED
    BY <1>3, <2>1, <2>2, <2>3 DEF AliveUntil
<1> HIDE DEF k, m, log, next, item
<1> QED
  <2> SUFFICES Told(m, ns', server_id')
    BY <1>2
  <2>1. m.src \in Client /\ m.type = "LOC_REPLY" /\ m.id # NoId =>
          /\ \E n \in Name : Known(m.delta, ns'[m.src].logs, NewNode(m.id, n))
          /\ \E v \in 0 .. Len(ns'[Binder].logs) : AliveUntil(m, ns', v)
    BY <1>1, <1>3, <1>4, <1>7, <1>8 DEF Told, k, log, next
  <2>2. m.src \in Server /\ m.type = "SERVER_OK" =>
          Known(m.delta, ns'[m.src].logs, NewNode(m.id, m.name))
    BY <1>1, <1>3, <1>7 DEF Told, k, log, next
  <2>3. m.src \in Server /\ m.type = "REGISTER_DONE" =>
          Known(m.delta, ns'[m.src].logs, NewFunc(server_id'[m.src], m.func))
    BY <1>1, <1>3, <1>7 DEF Told, k, log, next
  <2> QED
    BY <2>1, <2>2, <2>3 DEF Told

(* A message that tells nothing has nothing to be checked. *)
LEMMA SilentTold ==
  ASSUME NEW k, NEW m, Silent(k, m), NEW dirs, NEW ids
  PROVE  Told(m, dirs, ids)
BY DEF Silent, Told

(* What becomes of a message in a step that is not of apply_logs. *)
LEMMA StepTells ==
  ASSUME TypeInv, LogInv, ServerInv, Next, \A c \in Conn : ~ ApplyLogs(c), NEW k \in Conn
  PROVE  \/ Quieted(k)
         \/ HandleIAmServer(k) \/ HandleRegister(k)
         \/ \E id \in Id : Suggest(k, id)
         \/ conn'[k].state = "request" /\ \E p \in Client, f \in Func : RpcCall(p, f)
<1>1. conn \in [Conn -> Connection]
  BY DEF TypeInv, TypeOK
<1>2. ASSUME NEW s \in Server, ServerStep(s) PROVE Quieted(k)
  BY <1>2, ServerStepQuiet
<1>3. ASSUME NEW p \in Client, ClientDies(p) PROVE Quieted(k)
  <2>1. conn'[k] = AfterDeath(conn[k], p)
    BY <1>3 DEF ClientDies, Die
  <2> QED
    BY <1>1, <2>1, LeftSilent DEF Quieted
<1>4. ASSUME NEW p \in Client, NEW f \in Func, RpcCall(p, f)
      PROVE  Quieted(k) \/ conn'[k].state = "request"
  <2> DEFINE m == [Request("LOC_REQUEST", p, Binder) EXCEPT !.func = f]
  <2>1. PICK c \in Conn : conn' = [conn EXCEPT ![c] = m]
    BY <1>4 DEF RpcCall
  <2>2. m.state = "request"
    BY DEF Request
  <2> HIDE DEF m
  <2> QED
    BY <1>1, <2>1, <2>2 DEF Quieted
<1>5. ASSUME NEW c \in Conn, Receive(c) PROVE Quieted(k)
  BY <1>5, ReceiveQuiet
<1>6. ASSUME NEW c \in Conn, HandleIAmServer(c) \/ HandleRegister(c) PROVE k = c \/ Quieted(k)
  BY <1>1, <1>6 DEF HandleIAmServer, HandleRegister, Answer, Quieted
<1>7. ASSUME NEW c \in Conn, NEW id \in Id, Suggest(c, id) PROVE k = c \/ Quieted(k)
  BY <1>1, <1>7 DEF Suggest, Answer, Quieted
<1>8. ASSUME NEW c \in Conn, Handle(c) \/ Serve(c),
             ~ HandleIAmServer(c), ~ HandleRegister(c), \A id \in Id : ~ Suggest(c, id)
      PROVE  Quieted(k)
  BY <1>8, BinderQuiet
<1> QED
  BY <1>2, <1>3, <1>4, <1>5, <1>6, <1>7, <1>8 DEF Next, ClientStep

(* Every step keeps what messages tell. *)
LEMMA ToldStep ==
  ASSUME TypeInv, TypeInv', LogInv, LogInv', ServerInv, ReplyInv, Next
  PROVE  MessagesTold'
<1> SUFFICES ASSUME NEW k \in Conn PROVE Told(conn'[k], ns', server_id')
  BY DEF MessagesTold
<1>1. conn[k] \in Connection /\ Told(conn[k], ns, server_id)
  BY DEF TypeInv, TypeOK, ReplyInv, MessagesTold
<1>2. ns \in [Process -> Directories] /\ Binder \in Process /\ Binder \notin Replica
      /\ \A p \in Replica : p \in Process /\ p # Binder
  BY DirectoryAssumption DEF TypeInv, TypeOK, Process
(* a message that stays *)
<1>3. ASSUME conn'[k] = conn[k],
             \A s \in Server : ServerDies(s) => conn[k].src # s,
             conn[k].src \in Client => ns'[conn[k].src] = ns[conn[k].src]
      PROVE  Told(conn'[k], ns', server_id')
  <2> DEFINE m == conn[k]
  <2>1. m.src \in Server => ~ ServerDies(m.src)
    BY <1>3
  <2>2. m.src \in Server => Entries(ns[m.src].logs) \subseteq Entries(ns'[m.src].logs)
    BY <2>1, LogsGrow
  <2>3. m.src \in Server /\ m.type = "REGISTER_DONE" => server_id'[m.src] = server_id[m.src]
    BY <2>1, IdStays, MessageFacts DEF MessageOK
  <2>4. Prefix(ns[Binder].logs, ns'[Binder].logs)
    BY LogsGrow
  <2> QED
    BY <1>1, <1>3, <2>2, <2>3, <2>4, ToldStays
<1>4. CASE \E c \in Conn : ApplyLogs(c)
  <2>1. PICK c \in Conn : ApplyLogs(c)
    BY <1>4
  <2>2. CASE k = c
    BY <1>1, <2>1, <2>2, ApplyTold
  <2>3. CASE k # c
    <3>1. conn'[k] = conn[k] /\ \A s \in Server : ~ ServerDies(s)
      <4>1. conn'[k] = conn[k] /\ phase' = phase
        BY <2>1, <2>3 DEF ApplyLogs, TypeInv, TypeOK
      <4>2. \A s \in Server : ~ ServerDies(s)
        BY <4>1 DEF ServerDies, TypeInv, TypeOK, Replica
      <4> QED
        BY <4>1, <4>2
    <3>2. conn[k].src \in Client => conn[k].src # conn[c].src
      BY <2>3 DEF ReplyInv, OneCall
    <3>3. conn[k].src \in Client => ns'[conn[k].src] = ns[conn[k].src]
      BY <1>2, <2>1, <3>2, ApplyEntries DEF Replica
    <3> QED
      BY <1>3, <3>1, <3>3
  <2> QED
    BY <2>2, <2>3
<1>5. ASSUME NEW p \in Replica,
             \/ p \in Server /\ ServerDies(p)
             \/ p \in Client /\ ClientDies(p)
      PROVE  Told(conn'[k], ns', server_id')
  <2>1. /\ conn'[k] = AfterDeath(conn[k], p)
        /\ \A q \in Process : q # p => ns'[q] = ns[q]
        /\ \A s \in Server : ServerDies(s) => s = p
    <3>1. conn'[k] = AfterDeath(conn[k], p) /\ \A q \in Process : q # p => ns'[q] = ns[q]
      BY <1>2, <1>5 DEF ServerDies, ClientDies, Die
    <3>2. \A s \in Server : ServerDies(s) => s = p
      <4>1. phase \in [Replica -> Phase] /\ Server \subseteq Replica
        BY DEF TypeInv, TypeOK, Replica
      <4>2. \A s \in Server : ServerDies(s) => phase[s] # "down" /\ phase'[s] = "down"
                                /\ \A q \in Replica : q # s => phase'[q] = phase[q]
        BY <4>1 DEF ServerDies
      <4>3. p \in Client => \A s \in Server : phase'[s] = phase[s]
        BY <1>5, <4>1, NobodyElse DEF ClientDies, ServerDies
      <4> QED
        BY <1>5, <4>1, <4>2, <4>3
    <3> QED
      BY <3>1, <3>2
  <2>2. conn'[k].src # p
    BY <1>1, <2>1, DeadHasNone
  <2>3. CASE conn'[k] = conn[k]
    BY <1>2, <1>3, <2>1, <2>2, <2>3 DEF Replica
  <2>4. CASE conn'[k] # conn[k]
    BY <1>1, <2>1, <2>4, LeftSilent, SilentTold
  <2> QED
    BY <2>3, <2>4
<1>6. CASE /\ \A c \in Conn : ~ ApplyLogs(c)
           /\ \A s \in Server : ~ ServerDies(s)
           /\ \A p \in Client : ~ ClientDies(p)
  <2>1. Calm
    BY <1>6, StepLogs
  <2>2. CASE Quieted(k)
    <3>1. CASE conn'[k] = conn[k]
      BY <1>3, <1>6, <2>1, <3>1 DEF Calm, Replica
    <3> QED
      BY <2>2, <3>1, SilentTold DEF Quieted
  <2>3. CASE conn'[k].state = "request"
    BY <2>3 DEF Told, Coming
  <2> QED
    BY <1>6, <2>1, <2>2, <2>3, StepTells, IAmServerTold, RegisterTold, SuggestTold
<1> QED
  BY <1>4, <1>5, <1>6 DEF Replica

-----------------------------------------------------------------------------
(* The rest of the invariant, at every step. *)

(* No step takes a candidate from a server's directory. *)
LEMMA CandidatesStep ==
  ASSUME TypeInv, LogInv, CandidatesKept, Next
  PROVE  CandidatesKept'
<1> SUFFICES ASSUME NEW s \in Server PROVE Candidates(ns'[s])
  BY DEF CandidatesKept
<1>1. /\ ns \in [Process -> Directories] /\ s \in Process /\ s \in Replica
      /\ Candidates(ns[s]) /\ ns[s] \in Directories
  BY DEF TypeInv, TypeOK, Process, Replica, CandidatesKept
<1>2. CASE ns'[s] = ns[s]
  BY <1>1, <1>2
<1>3. ASSUME NEW c \in Conn, ApplyLogs(c) PROVE Candidates(ns'[s])
  <2>1. CASE s = conn[c].src
    <3>1. Head(conn[c].delta) \in LogItem /\ ns'[s] = ApplyItem(ns[s], Head(conn[c].delta))
      BY <1>3, <2>1, ApplyEntries
    <3> QED
      BY <1>1, <3>1, ApplyKeepsCandidates
  <2>2. CASE s # conn[c].src
    BY <1>1, <1>2, <1>3, <2>2, ApplyEntries
  <2> QED
    BY <2>1, <2>2
<1>4. ASSUME NEW t \in Server, ServerDies(t) PROVE Candidates(ns'[s])
  <2>1. CASE s = t
    <3>1. ns'[s] = EmptyNameService
      BY <1>1, <1>4, <2>1 DEF ServerDies, Die
    <3> QED
      BY <3>1 DEF EmptyNameService, Candidates, Entries
  <2>2. CASE s # t
    BY <1>1, <1>2, <1>4, <2>2 DEF ServerDies, Die
  <2> QED
    BY <2>1, <2>2
<1>5. ASSUME NEW p \in Client, ClientDies(p) PROVE ns'[s] = ns[s]
  BY <1>1, <1>5, NobodyElse DEF ClientDies, Die
<1> QED
  BY <1>1, <1>2, <1>3, <1>4, <1>5, StepLogs DEF Calm

(* What a reply told is in the log once it is received. *)
LEMMA ReceivedKnown ==
  ASSUME NEW c \in Conn, NEW type, Received(c, type), NEW log, NEW e,
         Known(conn[c].delta, log, e)
  PROVE  e \in Entries(log)
BY DEF Received, Known

(* Every step keeps what servers know of themselves. *)
LEMMA KnowStep ==
  ASSUME TypeInv, TypeInv', LogInv, ServerInv, ReplyInv, Next
  PROVE  ServersKnow'
<1> SUFFICES ASSUME NEW s \in Server, server_id'[s] # NoId
             PROVE  /\ NewNode(server_id'[s], listen'[s]) \in Entries(ns'[s].logs)
                    /\ \A f \in function_map'[s] :
                         NewFunc(server_id'[s], f) \in Entries(ns'[s].logs)
  BY DEF ServersKnow
<1>1. ~ ServerDies(s)
  BY DEF ServerDies, TypeInv, TypeOK
<1>2. Entries(ns[s].logs) \subseteq Entries(ns'[s].logs)
  BY <1>1, LogsGrow
<1>3. CASE /\ server_id'[s] = server_id[s] /\ listen'[s] = listen[s]
           /\ function_map'[s] = function_map[s]
  BY <1>2, <1>3 DEF ReplyInv, ServersKnow
<1>4. ASSUME NEW c \in Conn, conn[c].src = s, RpcInitDone(c)
      PROVE  /\ NewNode(server_id'[s], listen'[s]) \in Entries(ns[s].logs)
             /\ function_map'[s] = {}
  <2>1. /\ Received(c, "SERVER_OK") /\ Coming(conn[c]) /\ conn[c].type = "SERVER_OK"
        /\ server_id'[s] = conn[c].id /\ listen' = listen /\ function_map' = function_map
    BY <1>4 DEF RpcInitDone, Received, Receiving, Coming, TypeInv, TypeOK
  <2>2. phase[s] = "init" /\ conn[c].name = listen[s]
    BY <1>4, <2>1, MessageFacts DEF Listed, Announcing, Confirming
  <2>3. function_map[s] = {}
    BY <2>2 DEF ServerInv, ListInv, ServersListed
  <2>4. Known(conn[c].delta, ns[s].logs, NewNode(conn[c].id, conn[c].name))
    BY <1>4, <2>1 DEF ReplyInv, MessagesTold, Told
  <2> QED
    BY <2>1, <2>2, <2>3, <2>4, ReceivedKnown
<1>5. ASSUME NEW c \in Conn, conn[c].src = s, RpcRegisterDone(c)
      PROVE  /\ server_id'[s] = server_id[s] /\ listen'[s] = listen[s]
             /\ function_map'[s] = function_map[s] \cup {conn[c].func}
             /\ NewFunc(server_id[s], conn[c].func) \in Entries(ns[s].logs)
  <2>1. /\ Received(c, "REGISTER_DONE") /\ Coming(conn[c]) /\ conn[c].type = "REGISTER_DONE"
        /\ server_id'[s] = server_id[s] /\ listen'[s] = listen[s]
        /\ function_map'[s] = function_map[s] \cup {conn[c].func}
    BY <1>5 DEF RpcRegisterDone, Received, Receiving, Coming, TypeInv, TypeOK
  <2>2. Known(conn[c].delta, ns[s].logs, NewFunc(server_id[s], conn[c].func))
    BY <1>5, <2>1 DEF ReplyInv, MessagesTold, Told
  <2> QED
    BY <2>1, <2>2, ReceivedKnown
<1>6. ASSUME NEW c \in Conn, conn[c].src = s, RpcRegisterDone(c)
      PROVE  /\ NewNode(server_id'[s], listen'[s]) \in Entries(ns'[s].logs)
             /\ \A f \in function_map'[s] : NewFunc(server_id'[s], f) \in Entries(ns'[s].logs)
  BY <1>2, <1>5, <1>6 DEF ReplyInv, ServersKnow
<1> QED
  BY <1>2, <1>3, <1>4, <1>6, ServerMoves

(* Who a message belongs to. *)
LEMMA CallStays ==
  ASSUME TypeInv, LogInv, ServerInv, Next, NEW k \in Conn, conn'[k].src \in Client
  PROVE  \/ conn'[k].src = conn[k].src
         \/ \E f \in Func : RpcCall(conn'[k].src, f)
<1>1. conn \in [Conn -> Connection] /\ conn[k] \in Connection
  BY DEF TypeInv, TypeOK
<1>2. ASSUME NEW type, NEW id, NEW d, conn'[k] = Replied(conn[k], type, id, d)
      PROVE  conn'[k].src = conn[k].src
  <2> DEFINE delta == GetLogs(d, conn[k].ver)
             m == [conn[k] EXCEPT !.state = "reply", !.type = type, !.id = id, !.delta = delta]
  <2>1. m.src = conn[k].src
    BY <1>1 DEF Connection
  <2> HIDE DEF m
  <2>2. conn'[k] = Closed \/ conn'[k] = m
    BY <1>2 DEF Replied, m, delta
  <2> QED
    BY <2>1, <2>2, ClosedType, NobodyElse
<1>3. CASE Quieted(k)
  BY <1>3 DEF Quieted, Silent
<1>4. ASSUME NEW c \in Conn, ApplyLogs(c) PROVE conn'[k].src = conn[k].src
  <2> DEFINE m == [conn[c] EXCEPT !.state = "applying", !.delta = Tail(conn[c].delta)]
  <2>1. m.src = conn[c].src
    BY <1>1 DEF Connection
  <2>2. conn' = [conn EXCEPT ![c] = m]
    BY <1>4 DEF ApplyLogs
  <2> HIDE DEF m
  <2> QED
    BY <1>1, <2>1, <2>2
<1>5. CASE HandleIAmServer(k) \/ HandleRegister(k) \/ \E id \in Id : Suggest(k, id)
  BY <1>1, <1>2, <1>5 DEF HandleIAmServer, HandleRegister, Suggest, Answer
<1>6. ASSUME NEW p \in Client, NEW f \in Func, RpcCall(p, f)
      PROVE  conn'[k].src = conn[k].src \/ conn'[k].src = p
  <2> DEFINE m == [Request("LOC_REQUEST", p, Binder) EXCEPT !.func = f]
  <2>1. PICK c \in Conn : conn' = [conn EXCEPT ![c] = m]
    BY <1>6 DEF RpcCall
  <2>2. m.src = p
    BY DEF Request
  <2> HIDE DEF m
  <2> QED
    BY <1>1, <2>1, <2>2
<1> QED
  BY <1>3, <1>4, <1>5, <1>6, StepTells

(* Every step keeps clients to one call. *)
LEMMA OneCallStep ==
  ASSUME TypeInv, TypeInv', LogInv, ServerInv, OneCall, Next
  PROVE  OneCall'
<1> SUFFICES ASSUME NEW c \in Conn, conn'[c].src \in Client
             PROVE  /\ phase'[conn'[c].src] # "idle"
                    /\ \A k \in Conn : conn'[k].src = conn'[c].src => k = c
  BY DEF OneCall
<1> DEFINE q == conn'[c].src
<1>1. q \in Client /\ q \in Replica /\ q # Nobody
  BY NobodyElse DEF Replica
<1>2. conn \in [Conn -> Connection] /\ phase \in [Replica -> Phase]
  BY DEF TypeInv, TypeOK
<1> HIDE DEF q
<1>3. ASSUME NEW f \in Func, RpcCall(q, f)
      PROVE  phase'[q] # "idle" /\ \A k \in Conn : conn'[k].src = q => k = c
  <2>1. phase[q] = "idle" /\ phase'[q] = "locating"
    BY <1>1, <1>2, <1>3 DEF RpcCall
  <2>2. PICK l \in Conn : \E m : conn' = [conn EXCEPT ![l] = m]
    BY <1>3 DEF RpcCall
  <2>3. \A k \in Conn : conn[k].src # q
    BY <1>1, <2>1 DEF OneCall
  <2>4. \A k \in Conn : conn'[k].src = q => k = l
    BY <1>2, <2>2, <2>3
  <2> QED
    BY <2>1, <2>4 DEF q
<1>4. CASE \A f \in Func : ~ RpcCall(q, f)
  <2>1. \A k \in Conn : conn'[k].src = q => conn[k].src = q
    BY <1>1, <1>4, CallStays
  <2>2. conn[c].src = q
    BY <2>1 DEF q
  <2>3. phase[q] # "idle" /\ \A k \in Conn : conn[k].src = q => k = c
    BY <1>1, <2>2 DEF OneCall
  <2>4. phase'[q] # "idle"
    <3> SUFFICES ASSUME phase'[q] = "idle" PROVE FALSE
      OBVIOUS
    <3>1. CASE ClientDies(q)
      <4>1. conn'[c] = AfterDeath(conn[c], q)
        BY <3>1 DEF ClientDies, Die
      <4> QED
        BY <1>1, <1>2, <4>1, DeadHasNone DEF q
    <3>2. ASSUME NEW k \in Conn, conn[k].src = q, conn' = [conn EXCEPT ![k] = Closed]
          PROVE  FALSE
      <4>1. conn'[c] = Closed
        BY <1>2, <2>3, <3>2
      <4> QED
        BY <1>1, <4>1, ClosedType DEF q
    <3> QED
      BY <1>1, <2>3, <3>1, <3>2, CallEnds
  <2> QED
    BY <2>1, <2>3, <2>4 DEF q
<1> QED
  BY <1>3, <1>4 DEF q

-----------------------------------------------------------------------------
(* The invariant, and the theorems. *)

(* The invariant holds at the start. *)
LEMMA ReplyInit == Init => ReplyInv
<1> SUFFICES ASSUME Init PROVE ReplyInv
  OBVIOUS
<1>1. \A c \in Conn : conn[c] = Closed
  BY DEF Init
<1>2. MessagesTold
  BY <1>1, ClosedType DEF MessagesTold, Told, Coming
<1>3. ServersKnow
  BY DEF Init, ServersKnow
<1>4. CandidatesKept
  <2> SUFFICES ASSUME NEW s \in Server PROVE Candidates(ns[s])
    BY DEF CandidatesKept
  <2>1. ns[s] = EmptyNameService
    BY DEF Init, Process, Replica
  <2> QED
    BY <2>1 DEF EmptyNameService, Candidates, Entries
<1>5. OneCall
  BY <1>1, ClosedType, NobodyElse DEF OneCall
<1> QED
  BY <1>2, <1>3, <1>4, <1>5 DEF ReplyInv

(* Every step keeps the invariant. *)
LEMMA ReplyInvStep ==
  TypeInv /\ TypeInv' /\ LogInv /\ LogInv' /\ ServerInv /\ ReplyInv /\ [Next]_vars => ReplyInv'
<1> SUFFICES ASSUME TypeInv, TypeInv', LogInv, LogInv', ServerInv, ReplyInv, [Next]_vars
             PROVE  ReplyInv'
  OBVIOUS
<1>1. CASE Next
  BY <1>1, ToldStep, KnowStep, CandidatesStep, OneCallStep DEF ReplyInv
<1>2. CASE UNCHANGED vars
  <2>1. UNCHANGED <<ns, conn, phase, listen, server_id, function_map, usurped>>
    BY <1>2 DEF vars, serverVars
  <2>2. MessagesTold'
    BY <2>1 DEF ReplyInv, MessagesTold
  <2>3. ServersKnow'
    BY <2>1 DEF ReplyInv, ServersKnow
  <2>4. CandidatesKept' /\ OneCall'
    BY <2>1 DEF ReplyInv, CandidatesKept, OneCall
  <2> QED
    BY <2>2, <2>3, <2>4 DEF ReplyInv
<1> QED
  BY <1>1, <1>2

(* The invariants hold of every behaviour. *)
LEMMA ReplyInvariants == Spec => [](TypeInv /\ LogInv /\ ServerInv /\ ReplyInv)
<1>1. TypeInv /\ LogInv /\ ServerInv /\ TypeInv' /\ LogInv' /\ ServerInv' /\ ReplyInv
        /\ [Next]_vars => ReplyInv'
  BY ReplyInvStep
<1> QED
  BY <1>1, ReplyInit, ServerInvariants, PTL DEF Spec

(* A server's own directory has its address and the functions it            *)
(* registered, unless it is usurped: its log has them, by the replies of    *)
(* rpcInit and rpcRegister, and the binder, whose log it is a prefix of,    *)
(* has not killed it.                                                       *)
THEOREM ServersKnowThemselves == Spec => []ServerKnowsItself
<1>1. TypeInv /\ LogInv /\ ServerInv /\ ReplyInv => ServerKnowsItself
  <2> SUFFICES ASSUME TypeInv, LogInv, ServerInv, ReplyInv,
                      NEW s \in Server, server_id[s] # NoId, s \notin usurped
               PROVE  /\ ns[s].id_to_name[server_id[s]] = listen[s]
                      /\ \A f \in function_map[s] : server_id[s] \in ns[s].func_to_ids[f]
    BY DEF ServerKnowsItself
  <2> DEFINE id == server_id[s]
  <2>1. /\ id \in Id /\ s \in Process /\ s \in Replica /\ Binder \in Process
        /\ ns[s] \in Directories /\ ns[Binder] \in Directories
        /\ function_map[s] \subseteq Func
    BY DEF TypeInv, TypeOK, Process, Replica
  <2>2. listen[s] \in Name /\ ns[Binder].id_to_name[id] = listen[s]
    BY DEF ServerInv, ListInv, ServersListed, LiveServerListed
  <2>3. Follows(ns[s]) /\ Follows(ns[Binder]) /\ Prefix(ns[s].logs, ns[Binder].logs)
    BY <2>1 DEF LogInv, NamesFollowLog, ReplicaPrefix
  <2>4. KillNode(id) \notin Entries(ns[Binder].logs)
    BY <2>1, <2>2, <2>3 DEF Follows, Named
  <2>5. Entries(ns[s].logs) \subseteq Entries(ns[Binder].logs)
    <3>1. Len(ns[s].logs) \in Nat /\ Len(ns[Binder].logs) \in Nat
      BY <2>1 DEF Directories
    <3> QED
      BY <2>3, <3>1, PrefixKeepsEntries
  <2>6. /\ NewNode(id, listen[s]) \in Entries(ns[s].logs)
        /\ \A f \in function_map[s] : NewFunc(id, f) \in Entries(ns[s].logs)
    BY DEF ReplyInv, ServersKnow
  <2>7. ns[s].id_to_name[id] = listen[s]
    BY <2>1, <2>2, <2>3, <2>4, <2>5, <2>6 DEF Follows, Named
  <2>8. \A f \in function_map[s] : id \in ns[s].func_to_ids[f]
    BY <2>1, <2>6 DEF ReplyInv, CandidatesKept, Candidates
  <2> QED
    BY <2>7, <2>8
<1> QED
  BY <1>1, ReplyInvariants, PTL

(* The lookup of rpcCall in the client's own directory succeeds: the id was *)
(* alive in the binder's log up to a version the client has not passed, and *)
(* its record is in what the client has applied.                            *)
THEOREM RepliesResolve == Spec => []ReplyResolves
<1>1. TypeInv /\ LogInv /\ ServerInv /\ ReplyInv => ReplyResolves
  <2> SUFFICES ASSUME TypeInv, LogInv, ServerInv, ReplyInv,
                      NEW c \in Conn, Received(c, "LOC_REPLY"), conn[c].id # NoId
               PROVE  ns[conn[c].src].id_to_name[conn[c].id] # NoName
    BY DEF ReplyResolves
  <2> DEFINE k == conn[c]
             p == conn[c].src
  <2>1. Coming(k) /\ k.type = "LOC_REPLY" /\ k.delta = <<>>
    BY DEF Received, Receiving, Coming
  <2>2. p \in Client /\ p \in Process /\ p \in Replica /\ Binder \in Process
    BY <2>1, MessageFacts DEF Coming, MessageOK, CallType, Process, Replica
  <2>3. /\ k.id \in Id /\ ns[p] \in Directories /\ ns[Binder] \in Directories
        /\ Follows(ns[p]) /\ Prefix(ns[p].logs, ns[Binder].logs)
    BY <2>2 DEF TypeInv, TypeOK, Connection, LogInv, NamesFollowLog, ReplicaPrefix
  <2>4. /\ \E n \in Name : Known(k.delta, ns[p].logs, NewNode(k.id, n))
        /\ \E v \in 0 .. Len(ns[Binder].logs) : AliveUntil(k, ns, v)
    BY <2>1, <2>2 DEF ReplyInv, MessagesTold, Told
  <2>5. PICK n \in Name : NewNode(k.id, n) \in Entries(ns[p].logs)
    BY <2>1, <2>4 DEF Known
  <2>6. PICK v \in 0 .. Len(ns[Binder].logs) : AliveUntil(k, ns, v)
    BY <2>4
  <2>7. KillNode(k.id) \notin Entries(ns[p].logs)
    <3> SUFFICES ASSUME NEW j \in 1 .. Len(ns[p].logs) PROVE ns[p].logs[j] # KillNode(k.id)
      BY DEF Entries
    <3>1. Len(ns[p].logs) \in Nat /\ Len(ns[Binder].logs) \in Nat
      BY <2>3 DEF Directories
    <3>2. j \in 1 .. v /\ ns[p].logs[j] = ns[Binder].logs[j]
      BY <2>3, <2>6, <3>1 DEF AliveUntil, Prefix
    <3> QED
      BY <2>6, <3>2 DEF AliveUntil
  <2>8. ns[p].id_to_name[k.id] = n
    BY <2>3, <2>5, <2>7 DEF Follows, Named
  <2> QED
    BY <2>8, NameServiceAssumption
<1> QED
  BY <1>1, ReplyInvariants, PTL
=============================================================================
