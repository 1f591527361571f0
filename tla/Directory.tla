------------------------------- MODULE Directory -------------------------------
(***************************************************************************)
(* The binder, the servers and the clients of a3, and the directory of     *)
(* each (module NameService).  The binder's directory is the original: it  *)
(* alone writes entries of its own.  The others are replicas, brought up   *)
(* to date by the log deltas that every reply carries.                     *)
(*                                                                         *)
(* Every connection of the code is a ScopedConnection that carries one     *)
(* request and at most one reply, so a connection and the message on it    *)
(* are one record here.  A connection outlives the process that opened it: *)
(* what a dead process has sent is still delivered.  The reading order of  *)
(* different connections is left open, as select and accept leave it.      *)
(*                                                                         *)
(* The build modelled is the one the Makefile makes, with -DNDEBUG.        *)
(***************************************************************************)
EXTENDS NameService

CONSTANTS Server, Client, Binder,
          Nobody,  \* the peer of a connection whose process closed its end
          Conn,    \* bound: connections open at a time
          NoConn,
          NoFunc,  \* what a message that names no function carries
          Mortal   \* bound: the processes that may die

Replica == Server \cup Client
Process == Replica \cup {Binder}

ASSUME DirectoryAssumption ==
  /\ Binder \notin Replica
  /\ Nobody \notin Process
  /\ Server \cap Client = {}
  /\ NoConn \notin Conn
  /\ NoFunc \notin Func
  /\ Mortal \subseteq Replica

VARIABLES
  ns,            \* the NameService of each process
  conn,          \* the connections and the messages on them
  serving,       \* binder: the request whose handler is looping, or NoConn
  all_names,     \* binder: names NEW_SERVER_EXECUTE has still to go to
  next_u32,      \* binder: the next id
  phase,         \* which library call the application of a process is in
  waits,         \* the nested waits for NS_UPDATE_SENT, innermost last
  listen,        \* the address a server process listens at
  server_id,     \* Global::server_id
  function_map,  \* Global::function_map, as the set of its keys
  notices,       \* NEW_SERVER_EXECUTE messages a server has not read yet
  usurped        \* history: live servers whose record went to a dead one's

serverVars == <<listen, server_id, function_map, notices, usurped>>
binderVars == <<serving, all_names, next_u32>>
vars == <<ns, conn, binderVars, phase, waits, serverVars>>

MessageType ==
  {"ASK_NS_UPDATE", "NS_UPDATE_SENT", "I_AM_SERVER", "SERVER_OK", "REGISTER",
   "REGISTER_DONE", "LOC_REQUEST", "LOC_REPLY", "EXECUTE", "EXECUTE_REPLY",
   "NEW_SERVER_EXECUTE"}

(* request: not handled yet; running: a worker has it; reply: answered, not *)
(* read; applying: read, its log delta is being applied; ignored: read and  *)
(* dropped; eof: the peer died; spent: the reply was consumed, the waiting  *)
(* code still holds the connection.                                         *)
Connection ==
  [state : {"free", "request", "running", "reply", "applying", "ignored",
            "eof", "spent"},
   type  : MessageType \cup {"NONE"},
   src   : Replica \cup {Nobody},
   dst   : Process \cup {Nobody},
   ver   : Nat,
   id    : Id \cup {NoId},
   func  : Func \cup {NoFunc},
   name  : Name \cup {NoName},
   delta : Seq(LogItem)]

Closed ==
  [state |-> "free", type |-> "NONE", src |-> Nobody, dst |-> Nobody, ver |-> 0,
   id |-> NoId, func |-> NoFunc, name |-> NoName, delta |-> <<>>]

Phase == {"down", "init", "ready", "registering", "execute", "returned",
          "idle", "locating", "calling"}

Init ==
  /\ ns = [p \in Process |-> EmptyNameService]
  /\ conn = [c \in Conn |-> Closed]
  /\ serving = NoConn
  /\ all_names = {}
  /\ next_u32 = 0
  /\ phase = [p \in Replica |-> IF p \in Server THEN "down" ELSE "idle"]
  /\ waits = [p \in Replica |-> <<>>]
  /\ listen = [s \in Server |-> NoName]
  /\ server_id = [s \in Server |-> NoId]
  /\ function_map = [s \in Server |-> {}]
  /\ notices = [s \in Server |-> 0]
  /\ usurped = {}

-----------------------------------------------------------------------------
(* Messages. *)

(* ScopedConnection and send: to_message stamps the sender's version. *)
Request(type, src, dst) ==
  [state |-> "request", type |-> type, src |-> src, dst |-> dst,
   ver |-> Version(ns[src]), id |-> NoId, func |-> NoFunc, name |-> NoName,
   delta |-> <<>>]

(* A message whose sender closes the connection as soon as it is sent. *)
Notification(type, src, dst) == [Request(type, src, dst) EXCEPT !.src = Nobody]

(* The reply_ functions: the answer carries the entries that directory d of *)
(* the replying process has beyond the version in the request.              *)
Replied(k, type, id, d) ==
  IF k.src = Nobody THEN Closed
  ELSE [k EXCEPT !.state = "reply", !.type = type, !.id = id,
                 !.delta = GetLogs(d, k.ver)]

Answer(c, type, id, d) ==
  conn' = [conn EXCEPT ![c] = Replied(conn[c], type, id, d)]

Free(c) == conn[c].state = "free"

(* A connect to this address succeeds: of the ways a connect can fail, only *)
(* the refusal at an address where nobody listens is modelled.              *)
Listening(name) == \E s \in Server : listen[s] = name

-----------------------------------------------------------------------------
(* Reading: wait_for_desired. *)

(* The type the innermost wait of a process asks for. *)
Desired(p) ==
  IF waits[p] # <<>> THEN "NS_UPDATE_SENT"
  ELSE CASE phase[p] = "init"        -> "SERVER_OK"
         [] phase[p] = "registering" -> "REGISTER_DONE"
         [] phase[p] = "execute"     -> "EXECUTE"
         [] phase[p] = "locating"    -> "LOC_REPLY"
         [] phase[p] = "calling"     -> "EXECUTE_REPLY"
         [] OTHER                    -> "NONE"

(* apply_logs holds the mutex of the directory and the main thread. *)
Applying(p) == \E c \in Conn : conn[c].state = "applying" /\ conn[c].src = p

(* The process is inside wait_for_desired, reading messages. *)
Reading(p) == Desired(p) # "NONE" /\ ~Applying(p)

(* The reply on c is, or is being, received by the wait that asked for it. *)
Receiving(c) ==
  \/ conn[c].state = "applying"
  \/ /\ conn[c].state = "reply"
     /\ Reading(conn[c].src)
     /\ conn[c].type = Desired(conn[c].src)

Received(c, type) == Receiving(c) /\ conn[c].type = type /\ conn[c].delta = <<>>

(* apply_logs, one turn of its loop. *)
ApplyLogs(c) ==
  /\ Receiving(c)
  /\ conn[c].delta # <<>>
  /\ ns' = [ns EXCEPT ![conn[c].src] = ApplyItem(@, Head(conn[c].delta))]
  /\ conn' = [conn EXCEPT ![c] = [conn[c] EXCEPT !.state = "applying",
                                                 !.delta = Tail(conn[c].delta)]]
  /\ UNCHANGED <<binderVars, phase, waits, serverVars>>

(* mutant: the server does not wait for the update it asked for *)
AskWithoutWaiting(s) ==
  /\ Reading(s)
  /\ notices[s] > 0
  /\ \E c \in Conn :
       /\ Free(c)
       /\ conn' = [conn EXCEPT ![c] = Request("ASK_NS_UPDATE", s, Binder)]
  /\ notices' = [notices EXCEPT ![s] = @ - 1]
  /\ UNCHANGED <<ns, binderVars, phase, waits, listen, server_id, function_map,
                 usurped>>

(* wait_for_desired, NEW_SERVER_EXECUTE: ask the binder for its entries and *)
(* wait, on top of whatever the server was waiting for.                     *)
NewServerExecute(s) ==
  /\ Reading(s)
  /\ notices[s] > 0
  /\ \E c \in Conn :
       /\ Free(c)
       /\ conn' = [conn EXCEPT ![c] = Request("ASK_NS_UPDATE", s, Binder)]
       /\ waits' = [waits EXCEPT ![s] = Append(@, c)]
  /\ notices' = [notices EXCEPT ![s] = @ - 1]
  /\ UNCHANGED <<ns, binderVars, phase, listen, server_id, function_map, usurped>>

(* What closing a connection leaves of it. *)
Abandoned(k) == IF k.state = "request" THEN [k EXCEPT !.src = Nobody] ELSE Closed

(* The reply c ends the innermost wait, whichever request it answers: that  *)
(* wait closes its own connection.  A reply that had come on the closed one *)
(* is lost, unless it had been read into the queue of incoming messages.    *)
UpdateDone(c) ==
  LET s   == conn[c].src
      top == waits[s][Len(waits[s])]
      held == \E i \in 1 .. Len(waits[s]) - 1 : waits[s][i] = c
  IN
  /\ Received(c, "NS_UPDATE_SENT")
  /\ waits' = [waits EXCEPT ![s] = SubSeq(@, 1, Len(@) - 1)]
  /\ \E was_read \in {read \in BOOLEAN : read => conn[top].state = "reply"} :
       conn' = [k \in Conn |->
                  CASE k = c -> IF held THEN [conn[c] EXCEPT !.state = "spent"]
                                ELSE Closed
                    [] k = top /\ k # c -> IF was_read THEN conn[k]
                                           ELSE Abandoned(conn[k])
                    [] OTHER -> conn[k]]
  /\ UNCHANGED <<ns, binderVars, phase, serverVars>>

(* The default branch: a request or reply the innermost wait did not expect *)
(* is dropped.  The branch above it, for an NS_UPDATE_SENT that no wait is  *)
(* for, is never taken: see UpdatesAreAwaited.                              *)
OtherRequest(c, s) ==
  /\ Reading(s)
  /\ conn[c].type \notin {Desired(s), "NS_UPDATE_SENT"}
  /\ \/ conn[c].state = "request" /\ conn[c].dst = s
     \/ conn[c].state = "reply" /\ conn[c].src = s

Dropped(k) ==
  IF k.src = Nobody THEN Closed
  ELSE [k EXCEPT !.state = IF k.state = "request" THEN "ignored" ELSE "spent"]

DropOtherRequest(c, s) ==
  /\ OtherRequest(c, s)
  /\ conn' = [conn EXCEPT ![c] = Dropped(conn[c])]
  /\ UNCHANGED <<ns, binderVars, phase, waits, serverVars>>

-----------------------------------------------------------------------------
(* The library calls of a server. *)

(* The ids the announcements under way will need (keeps next_u32 in Id). *)
Announcements ==
  {c \in Conn : conn[c].state = "request" /\ conn[c].type = "I_AM_SERVER"}

(* rpcInit up to the wait.  The system assigns an address nobody listens at. *)
RpcInit(s, name) ==
  /\ phase[s] = "down"
  /\ ~Listening(name)
  /\ next_u32 + Cardinality(Announcements) < MaxId
  /\ listen' = [listen EXCEPT ![s] = name]
  /\ \E c \in Conn :
       /\ Free(c)
       /\ conn' = [conn EXCEPT ![c] =
                      [Request("I_AM_SERVER", s, Binder) EXCEPT !.name = name]]
  /\ phase' = [phase EXCEPT ![s] = "init"]
  /\ UNCHANGED <<ns, binderVars, waits, server_id, function_map, notices, usurped>>

(* rpcInit after SERVER_OK. *)
RpcInitDone(c) ==
  LET s == conn[c].src IN
  /\ Received(c, "SERVER_OK")
  /\ server_id' = [server_id EXCEPT ![s] = conn[c].id]
  /\ phase' = [phase EXCEPT ![s] = "ready"]
  /\ conn' = [conn EXCEPT ![c] = Closed]
  /\ UNCHANGED <<ns, binderVars, waits, listen, function_map, notices, usurped>>

(* rpcRegister of a signature that is new to this server; registering one   *)
(* it has replaces the skeleton and changes nothing modelled here.          *)
RpcRegister(s, func) ==
  /\ phase[s] = "ready"
  /\ func \notin function_map[s]
  /\ \E c \in Conn :
       /\ Free(c)
       /\ conn' = [conn EXCEPT ![c] = [Request("REGISTER", s, Binder) EXCEPT
                                         !.id = server_id[s], !.func = func]]
  /\ phase' = [phase EXCEPT ![s] = "registering"]
  /\ UNCHANGED <<ns, binderVars, waits, serverVars>>

(* rpcRegister after REGISTER_DONE. *)
RpcRegisterDone(c) ==
  LET s == conn[c].src IN
  /\ Received(c, "REGISTER_DONE")
  /\ function_map' = [function_map EXCEPT ![s] = @ \cup {conn[c].func}]
  /\ phase' = [phase EXCEPT ![s] = "ready"]
  /\ conn' = [conn EXCEPT ![c] = Closed]
  /\ UNCHANGED <<ns, binderVars, waits, listen, server_id, notices, usurped>>

(* rpcExecute up to its loop. *)
RpcExecute(s) ==
  /\ phase[s] = "ready"
  /\ function_map[s] # {}
  /\ \E c \in Conn :
       /\ Free(c)
       /\ conn' = [conn EXCEPT ![c] = Notification("NEW_SERVER_EXECUTE", s, Binder)]
  /\ phase' = [phase EXCEPT ![s] = "execute"]
  /\ UNCHANGED <<ns, binderVars, waits, serverVars>>

(* rpcExecute of a server that registered nothing. *)
RpcExecuteWithoutRegister(s) ==
  /\ phase[s] = "ready"
  /\ function_map[s] = {}
  /\ phase' = [phase EXCEPT ![s] = "returned"]
  /\ UNCHANGED <<ns, conn, binderVars, waits, serverVars>>

(* The loop of rpcExecute has an EXECUTE: what the application registered   *)
(* goes to the pool (module Tasks) ...                                      *)
Execute(c, s) ==
  /\ conn[c].state = "request" /\ conn[c].type = "EXECUTE" /\ conn[c].dst = s
  /\ Reading(s) /\ Desired(s) = "EXECUTE"

AcceptExecute(c, s) ==
  /\ Execute(c, s)
  /\ conn[c].func \in function_map[s]
  /\ conn' = [conn EXCEPT ![c] = [conn[c] EXCEPT !.state = "running"]]
  /\ UNCHANGED <<ns, binderVars, phase, waits, serverVars>>

(* ... and anything else ends the loop: rpcExecute returns what the send of *)
(* the error reply returns.                                                 *)
RefuseExecute(c, s) ==
  /\ Execute(c, s)
  /\ conn[c].func \notin function_map[s]
  /\ Answer(c, "EXECUTE_REPLY", NoId, ns[s])
  /\ phase' = [phase EXCEPT ![s] = "returned"]
  /\ UNCHANGED <<ns, binderVars, waits, serverVars>>

(* Task::run, the reply of a worker thread; get_logs takes the mutex that   *)
(* apply_logs holds.                                                        *)
WorkerReply(c) ==
  LET s == conn[c].dst IN
  /\ conn[c].state = "running"
  /\ ~Applying(s)
  /\ Answer(c, "EXECUTE_REPLY", NoId, ns[s])
  /\ UNCHANGED <<ns, binderVars, phase, waits, serverVars>>

-----------------------------------------------------------------------------
(* The library calls of a client. *)

(* rpcCall up to the wait for LOC_REPLY. *)
RpcCall(p, func) ==
  /\ phase[p] = "idle"
  /\ \E c \in Conn :
       /\ Free(c)
       /\ conn' = [conn EXCEPT ![c] =
                      [Request("LOC_REQUEST", p, Binder) EXCEPT !.func = func]]
  /\ phase' = [phase EXCEPT ![p] = "locating"]
  /\ UNCHANGED <<ns, binderVars, waits, serverVars>>

(* rpcCall after LOC_REPLY, and rpc_call_helper up to its wait.  The id is  *)
(* resolved in the client's own directory.                                  *)
Located(c, s) ==
  /\ Received(c, "LOC_REPLY")
  /\ conn[c].id # NoId
  /\ listen[s] # NoName
  /\ listen[s] = ns[conn[c].src].id_to_name[conn[c].id]

RpcCallHelper(c, s) ==
  LET p == conn[c].src IN
  /\ Located(c, s)
  /\ conn' = [conn EXCEPT ![c] =
                 [Request("EXECUTE", p, s) EXCEPT !.func = conn[c].func]]
  /\ phase' = [phase EXCEPT ![p] = "calling"]
  /\ UNCHANGED <<ns, binderVars, waits, serverVars>>

(* No server was suggested, or nobody listens at its address any more. *)
RpcCallFails(c) ==
  /\ Received(c, "LOC_REPLY")
  /\ ~\E s \in Server : Located(c, s)
  /\ conn' = [conn EXCEPT ![c] = Closed]
  /\ phase' = [phase EXCEPT ![conn[c].src] = "idle"]
  /\ UNCHANGED <<ns, binderVars, waits, serverVars>>

(* rpc_call_helper after EXECUTE_REPLY. *)
RpcCallDone(c) ==
  /\ Received(c, "EXECUTE_REPLY")
  /\ conn' = [conn EXCEPT ![c] = Closed]
  /\ phase' = [phase EXCEPT ![conn[c].src] = "idle"]
  /\ UNCHANGED <<ns, binderVars, waits, serverVars>>

(* is_alive fails: the call returns REMOTE_DISCONNECTED. *)
RemoteDisconnected(c) ==
  /\ conn[c].state = "eof"
  /\ conn' = [conn EXCEPT ![c] = Closed]
  /\ phase' = [phase EXCEPT ![conn[c].src] = "idle"]
  /\ UNCHANGED <<ns, binderVars, waits, serverVars>>

-----------------------------------------------------------------------------
(* The binder: main takes one request at a time through handle_request. *)

HandleRequest(c, type) ==
  /\ serving = NoConn
  /\ conn[c].state = "request" /\ conn[c].type = type /\ conn[c].dst = Binder

(* get_peer_info fails on the connection of a process that is gone.         *)
PeerUnknown(c) ==
  /\ HandleRequest(c, "I_AM_SERVER")
  /\ conn[c].src = Nobody
  /\ conn' = [conn EXCEPT ![c] = Closed]
  /\ UNCHANGED <<ns, binderVars, phase, waits, serverVars>>

(* I_AM_SERVER removes the record of an earlier server at this address. *)
KillOldRecord(d, name) ==
  IF d.name_to_id[name] # NoId THEN Kill(d, d.name_to_id[name]) ELSE d

(* Connections are read in the order of their descriptors, not in the order *)
(* they were opened: the announcement of a dead process may come after that *)
(* of the server that listens at its address now.                           *)
Usurped(c) ==
  {s \in Server : /\ conn[c].src = Nobody
                  /\ listen[s] = conn[c].name
                  /\ \A k \in Announcements : conn[k].src # s}

HandleIAmServer(c) ==
  LET d == RegisterName(KillOldRecord(ns[Binder], conn[c].name),
                        next_u32, conn[c].name)
  IN
  /\ HandleRequest(c, "I_AM_SERVER")
  /\ next_u32 < MaxId
  /\ next_u32' = next_u32 + 1
  /\ ns' = [ns EXCEPT ![Binder] = d]
  /\ Answer(c, "SERVER_OK", next_u32, d)
  /\ usurped' = usurped \cup Usurped(c)
  /\ UNCHANGED <<serving, all_names, phase, waits, listen, server_id, function_map,
                 notices>>

(* mutant: the reply is made before the function is registered *)
ReplyThenRegister(c) ==
  LET d == ns[Binder] IN
  /\ HandleRequest(c, "REGISTER")
  /\ ns' = [ns EXCEPT ![Binder] = RegisterFn(d, conn[c].id, conn[c].func)]
  /\ Answer(c, "REGISTER_DONE", NoId, d)
  /\ UNCHANGED <<binderVars, phase, waits, serverVars>>

HandleRegister(c) ==
  LET d == RegisterFn(ns[Binder], conn[c].id, conn[c].func) IN
  /\ HandleRequest(c, "REGISTER")
  /\ ns' = [ns EXCEPT ![Binder] = d]
  /\ Answer(c, "REGISTER_DONE", NoId, d)
  /\ UNCHANGED <<binderVars, phase, waits, serverVars>>

HandleAskNsUpdate(c) ==
  /\ HandleRequest(c, "ASK_NS_UPDATE")
  /\ Answer(c, "NS_UPDATE_SENT", NoId, ns[Binder])
  /\ UNCHANGED <<ns, binderVars, phase, waits, serverVars>>

(* LOC_REQUEST: reply_loc_request calls suggest ... *)
HandleLocRequest(c) ==
  /\ HandleRequest(c, "LOC_REQUEST")
  /\ serving' = c
  /\ UNCHANGED <<ns, conn, all_names, next_u32, phase, waits, serverVars>>

Suggesting(c) == serving = c /\ conn[c].type = "LOC_REQUEST"

(* ... whose turns follow: id is the candidate at the next pivot. *)
Candidate(c, id) ==
  LET d == ns[Binder] IN
  /\ Suggesting(c)
  /\ id \in d.func_to_ids[conn[c].func]
  /\ AtPosition(d.func_to_ids[conn[c].func], id, NextPivot(d, conn[c].func))

NoSuggestion(c) ==
  /\ Suggesting(c)
  /\ ns[Binder].func_to_ids[conn[c].func] = {}
  /\ Answer(c, "LOC_REPLY", NoId, ns[Binder])
  /\ serving' = NoConn
  /\ UNCHANGED <<ns, all_names, next_u32, phase, waits, serverVars>>

SkipUnresolvable(c, id) ==
  LET d == ns[Binder] IN
  /\ Candidate(c, id)
  /\ d.id_to_name[id] = NoName
  /\ ns' = [ns EXCEPT ![Binder] = EraseCandidate(d, conn[c].func, id)]
  /\ UNCHANGED <<conn, binderVars, phase, waits, serverVars>>

Suggest(c, id) ==
  LET d == ns[Binder] IN
  /\ Candidate(c, id)
  /\ d.id_to_name[id] # NoName
  /\ Listening(d.id_to_name[id])
  /\ ns' = [ns EXCEPT ![Binder] =
               MovePivot(d, conn[c].func, NextPivot(d, conn[c].func))]
  /\ Answer(c, "LOC_REPLY", id, d)
  /\ serving' = NoConn
  /\ UNCHANGED <<all_names, next_u32, phase, waits, serverVars>>

KillCandidate(c, id) ==
  LET d == ns[Binder] IN
  /\ Candidate(c, id)
  /\ d.id_to_name[id] # NoName
  /\ ~Listening(d.id_to_name[id])
  /\ ns' = [ns EXCEPT ![Binder] =
               EraseCandidate(Kill(d, id), conn[c].func, id)]
  /\ UNCHANGED <<conn, binderVars, phase, waits, serverVars>>

(* NEW_SERVER_EXECUTE: get_all_names, then the loop over the names ... *)
HandleNewServerExecute(c) ==
  /\ HandleRequest(c, "NEW_SERVER_EXECUTE")
  /\ serving' = c
  /\ all_names' = {n \in Name : ns[Binder].name_to_id[n] # NoId}
  /\ UNCHANGED <<ns, conn, next_u32, phase, waits, serverVars>>

NotifyNext(c, n) ==
  /\ serving = c /\ conn[c].type = "NEW_SERVER_EXECUTE"
  /\ n \in all_names
  /\ all_names' = all_names \ {n}

NotifyServer(c, n, s) ==
  /\ NotifyNext(c, n)
  /\ listen[s] = n
  /\ notices' = [notices EXCEPT ![s] = @ + 1]
  /\ UNCHANGED <<ns, conn, serving, next_u32, phase, waits, listen, server_id,
                 function_map, usurped>>

(* mutant: the result of the connect is not looked at *)
KillAnyway(n) == TRUE

KillUnreachable(n) == ~Listening(n)

KillDeadServer(c, n) ==
  LET id == ns[Binder].name_to_id[n] IN
  /\ NotifyNext(c, n)
  /\ KillUnreachable(n)
  /\ ns' = [ns EXCEPT ![Binder] = IF id = NoId THEN @ ELSE Kill(@, id)]
  /\ UNCHANGED <<conn, serving, next_u32, phase, waits, serverVars>>

(* ... which falls through to a CONFIRM_TERMINATE nobody reads: the server  *)
(* closed the connection after sending.                                     *)
NotifyDone(c) ==
  /\ serving = c /\ conn[c].type = "NEW_SERVER_EXECUTE"
  /\ all_names = {}
  /\ serving' = NoConn
  /\ conn' = [conn EXCEPT ![c] = Closed]
  /\ UNCHANGED <<ns, all_names, next_u32, phase, waits, serverVars>>

-----------------------------------------------------------------------------
(* A process dies.  What it sent stays on its way; its peers see the end of *)
(* file on the connections it had not answered.                             *)

AfterDeath(k, p) ==
  IF k.src = p
  THEN IF k.state \in {"request", "running"} THEN [k EXCEPT !.src = Nobody]
       ELSE Closed
  ELSE IF k.dst = p /\ k.state \in {"request", "running", "ignored"}
  THEN IF k.src = Nobody THEN Closed ELSE [k EXCEPT !.state = "eof"]
  ELSE k

Die(p) ==
  /\ p \in Mortal
  /\ conn' = [c \in Conn |-> AfterDeath(conn[c], p)]
  /\ ns' = [ns EXCEPT ![p] = EmptyNameService]
  /\ waits' = [waits EXCEPT ![p] = <<>>]
  /\ UNCHANGED binderVars

ServerDies(s) ==
  /\ phase[s] # "down"
  /\ Die(s)
  /\ phase' = [phase EXCEPT ![s] = "down"]
  /\ listen' = [listen EXCEPT ![s] = NoName]
  /\ server_id' = [server_id EXCEPT ![s] = NoId]
  /\ function_map' = [function_map EXCEPT ![s] = {}]
  /\ notices' = [notices EXCEPT ![s] = 0]
  /\ usurped' = usurped \ {s}

(* Another client process takes the dead one's place. *)
ClientDies(p) ==
  /\ Die(p)
  /\ phase' = [phase EXCEPT ![p] = "idle"]
  /\ UNCHANGED serverVars

-----------------------------------------------------------------------------
ServerStep(s) ==
  \/ \E n \in Name : RpcInit(s, n)
  \/ \E f \in Func : RpcRegister(s, f)
  \/ RpcExecute(s) \/ RpcExecuteWithoutRegister(s)
  \/ NewServerExecute(s)
  \/ ServerDies(s)
  \/ \E c \in Conn : \/ AcceptExecute(c, s) \/ RefuseExecute(c, s)
                     \/ DropOtherRequest(c, s)

ClientStep(p) ==
  \/ \E f \in Func : RpcCall(p, f)
  \/ ClientDies(p)

Receive(c) ==
  \/ ApplyLogs(c) \/ UpdateDone(c)
  \/ RpcInitDone(c) \/ RpcRegisterDone(c)
  \/ WorkerReply(c)
  \/ \E s \in Server : RpcCallHelper(c, s)
  \/ RpcCallFails(c) \/ RpcCallDone(c) \/ RemoteDisconnected(c)

(* The binder picks up the request on c, and goes on with it. *)
Handle(c) ==
  \/ PeerUnknown(c) \/ HandleIAmServer(c) \/ HandleRegister(c) \/ HandleAskNsUpdate(c)
  \/ HandleLocRequest(c) \/ HandleNewServerExecute(c)

Serve(c) ==
  \/ NoSuggestion(c) \/ NotifyDone(c)
  \/ \E id \in Id : SkipUnresolvable(c, id) \/ Suggest(c, id) \/ KillCandidate(c, id)
  \/ \E n \in Name : KillDeadServer(c, n) \/ \E s \in Server : NotifyServer(c, n, s)

Next ==
  \/ \E s \in Server : ServerStep(s)
  \/ \E p \in Client : ClientStep(p)
  \/ \E c \in Conn : Receive(c) \/ Handle(c) \/ Serve(c)

Spec == Init /\ [][Next]_vars

(* The binder reads every connection and takes its requests from a queue,   *)
(* so none is passed over for ever; its handlers never wait for a message.  *)
Fairness == \A c \in Conn : SF_vars(Handle(c)) /\ WF_vars(Serve(c))

FairSpec == Spec /\ Fairness

-----------------------------------------------------------------------------
(* The type invariant: every variable, and every message, has its type. *)
TypeOK ==
  /\ ns \in [Process -> Directories]
  /\ conn \in [Conn -> Connection]
  /\ serving \in Conn \cup {NoConn}
  /\ all_names \subseteq Name
  /\ next_u32 \in 0 .. MaxId
  /\ phase \in [Replica -> Phase]
  /\ waits \in [Replica -> Seq(Conn)]
  /\ listen \in [Server -> Name \cup {NoName}]
  /\ server_id \in [Server -> Id \cup {NoId}]
  /\ function_map \in [Server -> SUBSET Func]
  /\ notices \in [Server -> Nat]
  /\ usurped \subseteq Server

(* Every directory is what its log says.  It would fail if an operation of  *)
(* name_service.cpp, or an entry applied out of its place, left the two     *)
(* maps and the log different.                                              *)
NamesFollowLog == \A p \in Process : Follows(ns[p])

(* A replica holds a prefix of the binder's log, at every step of           *)
(* apply_logs, whatever order its replies come in and from whichever        *)
(* process: the version of a replica says exactly what it knows.            *)
ReplicaPrefix == \A p \in Replica : Prefix(ns[p].logs, ns[Binder].logs)

(* The assertions apply_logs runs into (name_service.cpp 212, 236 and 385)  *)
(* hold for the next entry of every reply that is being received: no gap    *)
(* between versions, no name registered twice, no unknown id killed.        *)
ApplyAsserts ==
  \A c \in Conn :
    Receiving(c) /\ conn[c].delta # <<>> =>
      ItemAsserts(ns[conn[c].src], Head(conn[c].delta))

(* "cannot happen -- the database is synced with the binder" (rpc.cpp 315): *)
(* a client resolves the id the binder suggested in its own directory, once *)
(* it has applied the delta that came with it.                              *)
ReplyResolves ==
  \A c \in Conn :
    Received(c, "LOC_REPLY") /\ conn[c].id # NoId =>
      ns[conn[c].src].id_to_name[conn[c].id] # NoName

(* A server's own directory has its address and the functions it            *)
(* registered: the log delta of SERVER_OK and of REGISTER_DONE has them.    *)
(* "a server always has up-to-date information about itself" (ns.tex 25)    *)
(* does not hold of a server whose record the binder removed because of a   *)
(* dead process (Usurped): no reply tells it of that.                       *)
ServerKnowsItself ==
  \A s \in Server :
    server_id[s] # NoId /\ s \notin usurped =>
      /\ ns[s].id_to_name[server_id[s]] = listen[s]
      /\ \A f \in function_map[s] : server_id[s] \in ns[s].func_to_ids[f]

(* A server that has its id keeps its record at the binder, and stays a     *)
(* candidate for each function it registered, until it dies: no failed      *)
(* connect, no restart at a dead server's address and no reuse of an id     *)
(* removes a live one.  Only an announcement that was left over by a dead   *)
(* process at its address, and is read after its own, does (Usurped).       *)
LiveServerListed ==
  \A s \in Server :
    server_id[s] # NoId /\ s \notin usurped =>
      /\ ns[Binder].id_to_name[server_id[s]] = listen[s]
      /\ \A f \in function_map[s] : server_id[s] \in ns[Binder].func_to_ids[f]

(* The NS_UPDATE_SENT branch of wait_for_desired is never taken: a server   *)
(* never has more updates on their way than nested waits for one.           *)
UpdatesAreAwaited ==
  \A s \in Server :
    Cardinality({c \in Conn : /\ conn[c].src = s
                              /\ conn[c].type = "NS_UPDATE_SENT"
                              /\ conn[c].state \in {"reply", "applying"}})
      <= Len(waits[s])

(* "unreachable -- cannot have other requests" (rpc.cpp 702). *)
NoOtherRequest == \A c \in Conn, s \in Server : ~OtherRequest(c, s)

(* Zombie records "are not problematic" (ns.tex 82): a call they lead to a  *)
(* server that lacks the function gets an error reply (ns.tex 99), and the  *)
(* server goes on serving.                                                  *)
RefusalKeepsServing ==
  [][\A s \in Server :
       phase[s] = "execute" => phase'[s] \in {"execute", "down"}]_vars

(* A location request is answered: suggest comes to an end, and no server   *)
(* traffic or death keeps the binder from it.                               *)
LocRequestAnswered ==
  \A c \in Conn :
    conn[c].state = "request" /\ conn[c].type = "LOC_REQUEST"
      ~> conn[c].type # "LOC_REQUEST"

(* What the directories promise together: the log of the binder and the     *)
(* replicas' copies of it implement the abstract replicated log.            *)
Log == INSTANCE ReplicatedLog WITH
         Holder <- Replica,
         Entry  <- LogEntry,
         log    <- ns[Binder].logs,
         copy   <- [p \in Replica |-> ns[p].logs]

ImplementsReplicatedLog == Log!Spec
==============================================================================
