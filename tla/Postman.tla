-------------------------------- MODULE Postman --------------------------------
(***************************************************************************)
(* Postman and TCP::Sockets in a server: the main thread reads whatever    *)
(* comes in (sync), assembles it to messages (read_avail) and gives calls  *)
(* to the pool; the threads of the pool reply on the descriptor number a   *)
(* call came with (send), when the mutex of the sockets is free.           *)
(*                                                                         *)
(* A connection is one call of a client (rpc_call_helper) and is used      *)
(* once; the number of its descriptor is used again.  A message is a       *)
(* number of parts, the first one the header; a read may return any number *)
(* of parts.  A read that ends within a header stands for what it comes to *)
(* for the server: what it takes for the header says anything, and so does *)
(* what it takes for one next.  A reply is taken as a whole, and is known  *)
(* by the call it answers.  What a worker does is in module Tasks; here it *)
(* may take any time.                                                      *)
(***************************************************************************)
EXTENDS Integers, Sequences, FiniteSets

CONSTANTS Conn,
          NoConn,
          MaxFd,   \* bound: the descriptors a process has for connections
          Parts,   \* bound: the parts of a message
          GarbageSize, \* bound: the sizes that stand where no size was written
          Mortal,  \* bound: connections whose client may die
          Short,   \* bound: connections whose client's write may be short
          Cut      \* bound: connections whose header a read may end with

ASSUME PostmanAssumption ==
  /\ IsFiniteSet(Conn)
  /\ NoConn \notin Conn
  /\ MaxFd \in Nat /\ MaxFd >= Cardinality(Conn)
  /\ Parts \in Nat \ {0, 1}
  /\ GarbageSize \subseteq Nat \ {0} /\ GarbageSize # {}
  /\ Mortal \subseteq Conn
  /\ Short \subseteq Conn
  /\ Cut \subseteq Conn

Fd == 1 .. MaxFd

VARIABLES
  conn,      \* the client's end of each connection
  up,        \* parts under way to the server
  down,      \* replies under way to the client
  got,       \* what the client took for the reply
  backlog,   \* connections the server has still to accept
  owner,     \* the connection behind a descriptor; connected_fds are the used ones
  asm_buf,   \* Message.str, its first part what was taken for the header
  size,      \* Message.size, the header counted as a part
  incoming,
  outgoing,
  todo,      \* sync: the descriptors its loop has still to come to
  ready,     \* sync: those select found readable
  replying,  \* send in the main thread: the descriptor to flush
  pool,      \* calls given to the threads and not answered
  waiting,   \* send in the threads: how many wait for soc_mutex to flush a descriptor
  taken,     \* history: how often a call of a connection was taken from incoming
  spoilt     \* history: the descriptors that had a short write or a cut header

clientVars == <<conn, got>>
wireVars == <<up, down, backlog>>
asmVars == <<asm_buf, size, spoilt>>
queueVars == <<asmVars, incoming, outgoing>>
syncVars == <<owner, todo, ready>>
serverVars == <<replying, pool, waiting, taken>>
vars == <<clientVars, wireVars, queueVars, syncVars, serverVars>>

(* none: not connected yet; open: connected; calling: in wait_for_desired;  *)
(* done: has a reply; failed: could not write all of the call; dead.  In    *)
(* the last three the client's end is closed.                               *)
ClientPhase == {"none", "open", "calling", "done", "failed", "dead"}

Closed(c) == conn[c] \in {"done", "failed", "dead"}

NoFd == 0

connected_fds == {fd \in Fd : owner[fd] # NoConn}

Least(S) == CHOOSE fd \in S : \A other \in S : fd =< other

Message(c) == [k \in 1 .. Parts |-> <<c, k>>]

Init ==
  /\ conn = [c \in Conn |-> "none"]
  /\ up = [c \in Conn |-> <<>>]
  /\ down = [c \in Conn |-> <<>>]
  /\ got = [c \in Conn |-> <<>>]
  /\ backlog = <<>>
  /\ owner = [fd \in Fd |-> NoConn]
  /\ asm_buf = [fd \in Fd |-> <<>>]
  /\ size = [fd \in Fd |-> 0]
  /\ incoming = <<>>
  /\ outgoing = [fd \in Fd |-> <<>>]
  /\ todo = {}
  /\ ready = {}
  /\ replying = NoFd
  /\ pool = {}
  /\ waiting = [fd \in Fd |-> 0]
  /\ taken = [c \in Conn |-> 0]
  /\ spoilt = {}

-----------------------------------------------------------------------------
(* Clients: rpc_call_helper. *)

(* connect_remote *)
Connect(c) ==
  /\ conn[c] = "none"
  /\ conn' = [conn EXCEPT ![c] = "open"]
  /\ backlog' = Append(backlog, c)
  /\ UNCHANGED <<up, down, got, queueVars, syncVars, serverVars>>

(* send_execute *)
SendExecute(c) ==
  /\ conn[c] = "open"
  /\ conn' = [conn EXCEPT ![c] = "calling"]
  /\ up' = [up EXCEPT ![c] = Message(c)]
  /\ UNCHANGED <<got, down, backlog, queueVars, syncVars, serverVars>>

(* write returns less than it was given: the rest is gone, the call returns *)
(* CANNOT_WRITE_TO_SOCKET and the connection is closed.                     *)
ShortWrite(c, k) ==
  /\ c \in Short
  /\ conn[c] = "open"
  /\ conn' = [conn EXCEPT ![c] = "failed"]
  /\ up' = [up EXCEPT ![c] = SubSeq(Message(c), 1, k)]
  /\ UNCHANGED <<got, down, backlog, queueVars, syncVars, serverVars>>

(* wait_for_desired(EXECUTE_REPLY): the first reply is the reply. *)
ReadReply(c) ==
  /\ conn[c] = "calling"
  /\ down[c] # <<>>
  /\ got' = [got EXCEPT ![c] = Head(down[c])]
  /\ down' = [down EXCEPT ![c] = <<>>]
  /\ conn' = [conn EXCEPT ![c] = "done"]
  /\ UNCHANGED <<up, backlog, queueVars, syncVars, serverVars>>

(* A crash: what was written before still arrives. *)
Die(c) ==
  /\ c \in Mortal
  /\ conn[c] \in {"open", "calling"}
  /\ conn' = [conn EXCEPT ![c] = "dead"]
  /\ down' = [down EXCEPT ![c] = <<>>]
  /\ UNCHANGED <<up, got, backlog, queueVars, syncVars, serverVars>>

-----------------------------------------------------------------------------
(* Operators of the server. *)

IsHeader(part) == part[2] = 1

(* What the header of a new message says of its size: nothing of use, where *)
(* it is the body of another one or was not read to its end.                *)
HeaderSize(got_parts) ==
  IF IsHeader(Head(got_parts)) /\ Len(got_parts) > 1 THEN {Parts} ELSE GarbageSize

(* mutant: what has been assembled already is not counted *)
WholeSize(whole, buf) == whole

Remaining(whole, buf) == whole - Len(buf)

Shorter(n, seq) == IF n < Len(seq) THEN n ELSE Len(seq)

(* mutant: a message that is complete stays in asm_buf *)
NothingErased(message) == message

Erased(message) == <<>>

(* mutant: every read is a message *)
Always(num_read, remaining) == TRUE

IsReady(num_read, remaining) == num_read = remaining

(* A header is no part of str: as long as there is nothing but a header,    *)
(* the next read is taken to begin with one.                                *)
HasBody(message) == Len(message) > 1

(* What follows the end of a message in one read is lost. *)
read_avail(fd, got_parts, said) ==
  LET whole == IF asm_buf[fd] = <<>> THEN said ELSE size[fd]
      remaining == Remaining(whole, asm_buf[fd])
      message == asm_buf[fd] \o SubSeq(got_parts, 1, Shorter(remaining, got_parts))
      done == IsReady(Len(message) - Len(asm_buf[fd]), remaining)
      left == IF done THEN Erased(message) ELSE IF HasBody(message) THEN message ELSE <<>>
  IN /\ incoming' = IF done
                      THEN Append(incoming, [fd |-> fd, from |-> owner[fd], body |-> message])
                      ELSE incoming
     /\ asm_buf' = [asm_buf EXCEPT ![fd] = left]
     /\ size' = [size EXCEPT ![fd] = IF left = <<>> THEN 0 ELSE whole]

(* mutant: write_avail copies and does not pop *)
LeftInQueue(fd) == outgoing[fd]

Popped(fd) == <<>>

(* Sockets::flush and write_avail: all that is queued for the number goes   *)
(* to whoever is behind it; written to a closed descriptor, or to a dead    *)
(* client, it is lost.                                                      *)
flush(fd) ==
  /\ outgoing' = [outgoing EXCEPT ![fd] = Popped(fd)]
  /\ down' = IF owner[fd] \in Conn /\ ~ Closed(owner[fd])
               THEN [down EXCEPT ![owner[fd]] = @ \o outgoing[fd]]
               ELSE down

Readable(fd) == up[owner[fd]] # <<>> \/ Closed(owner[fd])

-----------------------------------------------------------------------------
(* The main thread: wait_for_desired(EXECUTE) in rpcExecute. *)

(* A call, or what has a type that says so. *)
CountCall(body) ==
  taken' = IF IsHeader(Head(body)) THEN [taken EXCEPT ![Head(body)[1]] = @ + 1] ELSE taken

(* receive_any returns a call and push takes it ... *)
AcceptCall ==
  /\ todo = {} /\ replying = NoFd
  /\ incoming # <<>>
  /\ incoming' = Tail(incoming)
  /\ pool' = pool \cup {Head(incoming)}
  /\ CountCall(Head(incoming).body)
  /\ UNCHANGED <<clientVars, wireVars, asmVars, outgoing, syncVars, replying, waiting>>

(* ... or does not, and the main thread replies SERVER_HAS_NO_AVAIL_THREADS.*)
RejectCall ==
  /\ todo = {} /\ replying = NoFd
  /\ incoming # <<>>
  /\ LET r == Head(incoming) IN
       /\ outgoing' = [outgoing EXCEPT ![r.fd] = Append(@, r.body)]
       /\ replying' = r.fd
       /\ CountCall(r.body)
  /\ incoming' = Tail(incoming)
  /\ UNCHANGED <<clientVars, wireVars, asmVars, syncVars, pool, waiting>>

(* Garbage mostly has a type nobody waits for. *)
DropRequest ==
  /\ todo = {} /\ replying = NoFd
  /\ incoming # <<>>
  /\ ~ IsHeader(Head(Head(incoming).body)) \/ Len(Head(incoming).body) = 1
  /\ incoming' = Tail(incoming)
  /\ UNCHANGED <<clientVars, wireVars, asmVars, outgoing, syncVars, serverVars>>

(* The second half of send. *)
FlushRejection ==
  /\ replying # NoFd
  /\ flush(replying)
  /\ replying' = NoFd
  /\ UNCHANGED <<clientVars, up, backlog, asmVars, incoming, syncVars, pool, waiting, taken>>

(* mutant: one message is received between two calls of sync *)
OneAtATime == Len(incoming) =< 1

NothingToReceive == incoming = <<>>

(* sync takes soc_mutex and calls select.  The listening descriptor is the  *)
(* lowest, so a new connection is accepted first; it is not in local_copy.  *)
StartSync ==
  /\ todo = {} /\ replying = NoFd
  /\ NothingToReceive
  /\ todo' = connected_fds
  /\ ready' = {fd \in connected_fds : Readable(fd)}
  /\ IF backlog = <<>> THEN UNCHANGED <<owner, backlog>>
     ELSE /\ owner' = [owner EXCEPT ![Least(Fd \ connected_fds)] = Head(backlog)]
          /\ backlog' = Tail(backlog)
  /\ UNCHANGED <<clientVars, up, down, queueVars, serverVars>>

(* mutant: sync reads only *)
FlushedElsewhere(fd) == UNCHANGED <<outgoing, down>>

SyncFlush(fd) == flush(fd)

(* One turn of the loop: read what is there, if select said so, and flush.  *)
SyncRead(n, said) ==
  /\ todo # {}
  /\ LET fd == Least(todo)
         c == owner[fd]
     IN /\ fd \in ready
        /\ n \in 1 .. Len(up[c])
        /\ IsHeader(Head(up[c])) /\ n = 1 => c \in Cut \/ Len(up[c]) = 1
        /\ said \in HeaderSize(SubSeq(up[c], 1, n))
        /\ up' = [up EXCEPT ![c] = SubSeq(@, n + 1, Len(@))]
        /\ read_avail(fd, SubSeq(up[c], 1, n), said)
        /\ spoilt' = IF IsHeader(Head(up[c])) /\ n = 1 THEN spoilt \cup {fd} ELSE spoilt
        /\ SyncFlush(fd)
        /\ todo' = todo \ {fd}
  /\ UNCHANGED <<clientVars, backlog, owner, ready, serverVars>>

SyncIdle ==
  /\ todo # {}
  /\ LET fd == Least(todo)
     IN /\ fd \notin ready
        /\ SyncFlush(fd)
        /\ todo' = todo \ {fd}
  /\ UNCHANGED <<clientVars, up, backlog, asmVars, incoming, owner, ready, serverVars>>

(* mutant: the loop does not end with the connection *)
StayInLoop == todo

LeaveLoop == {}

(* read returns 0: disconnect, and leave the loop.  asm_buf and outgoing    *)
(* keep what they have for the number.                                      *)
SyncDisconnect ==
  /\ todo # {}
  /\ LET fd == Least(todo)
     IN /\ fd \in ready
        /\ up[owner[fd]] = <<>>
        /\ owner' = [owner EXCEPT ![fd] = NoConn]
        /\ spoilt' = IF conn[owner[fd]] = "failed" THEN spoilt \cup {fd} ELSE spoilt
  /\ todo' = LeaveLoop
  /\ UNCHANGED <<clientVars, wireVars, asm_buf, size, incoming, outgoing, ready, serverVars>>

-----------------------------------------------------------------------------
(* The threads of the pool. *)

(* The first half of send, at the end of Task::run. *)
ReplyExecute(t) ==
  /\ t \in pool
  /\ pool' = pool \ {t}
  /\ outgoing' = [outgoing EXCEPT ![t.fd] = Append(@, t.body)]
  /\ waiting' = [waiting EXCEPT ![t.fd] = @ + 1]
  /\ UNCHANGED <<clientVars, wireVars, asmVars, incoming, syncVars, replying, taken>>

(* The second half, with soc_mutex. *)
FlushReply(fd) ==
  /\ todo = {}
  /\ waiting[fd] > 0
  /\ flush(fd)
  /\ waiting' = [waiting EXCEPT ![fd] = @ - 1]
  /\ UNCHANGED <<clientVars, up, backlog, asmVars, incoming, syncVars, replying, pool, taken>>

-----------------------------------------------------------------------------
MainThread ==
  \/ AcceptCall
  \/ RejectCall
  \/ DropRequest
  \/ FlushRejection
  \/ StartSync
  \/ \E n \in 1 .. Parts, said \in {Parts} \cup GarbageSize : SyncRead(n, said)
  \/ SyncIdle
  \/ SyncDisconnect

Next ==
  \/ \E c \in Conn :
       \/ Connect(c)
       \/ SendExecute(c)
       \/ \E k \in 1 .. Parts - 1 : ShortWrite(c, k)
       \/ ReadReply(c)
       \/ Die(c)
  \/ MainThread
  \/ \E t \in pool : ReplyExecute(t)
  \/ \E fd \in Fd : FlushReply(fd)

Spec == Init /\ [][Next]_vars

(* The main thread goes on, a client reads what has come, and every call    *)
(* returns some time (the application's promise).  That a thread ever gets  *)
(* soc_mutex is not assumed: a mutex need not be fair, and the main thread  *)
(* takes it again and again.                                                *)
Fairness ==
  /\ WF_vars(MainThread)
  /\ WF_vars(\E t \in pool : ReplyExecute(t))
  /\ \A c \in Conn : WF_vars(ReadReply(c))

FairSpec == Spec /\ Fairness

-----------------------------------------------------------------------------
(* Properties. *)

Part == Conn \X (1 .. Parts)
Request == [fd : Fd, from : Conn, body : Seq(Part)]

(* The variables keep their types; sync never comes to an unused number.    *)
TypeOK ==
  /\ conn \in [Conn -> ClientPhase]
  /\ up \in [Conn -> Seq(Part)]
  /\ down \in [Conn -> Seq(Seq(Part))]
  /\ got \in [Conn -> Seq(Part)]
  /\ backlog \in Seq(Conn)
  /\ owner \in [Fd -> Conn \cup {NoConn}]
  /\ asm_buf \in [Fd -> Seq(Part)]
  /\ size \in [Fd -> Nat]
  /\ incoming \in Seq(Request)
  /\ outgoing \in [Fd -> Seq(Seq(Part))]
  /\ todo \subseteq connected_fds
  /\ ready \subseteq Fd
  /\ replying \in Fd \cup {NoFd}
  /\ pool \subseteq Request
  /\ waiting \in [Fd -> Nat]
  /\ taken \in [Conn -> Nat]
  /\ spoilt \subseteq Fd

(* A request the server takes is a whole message of the client at the other *)
(* end, in one piece, however the reads cut its body and whoever used the   *)
(* number before (read_avail).  Not so where a short write left its half in *)
(* asm_buf, or a read ended with a header: such a number may give anything  *)
(* from then on, and it alone.                                              *)
WholeCalls ==
  \A r \in pool \cup {incoming[i] : i \in DOMAIN incoming} :
    r.fd \in spoilt \/ r.body = Message(r.from)

(* "all requests must be handled while connections are still valid"         *)
(* (class_def.tex 41): when the main thread takes a request, its descriptor *)
(* still stands for the connection it came from (sync_and_receive_any).     *)
HandledWhileConnected ==
  \A i \in DOMAIN incoming : owner[incoming[i].fd] = incoming[i].from

(* No call is taken twice, also when its parts came in several reads or its *)
(* descriptor was used before (read_avail erases what it hands over).       *)
TakenOnce == \A c \in Conn : taken[c] =< 1

(* Every client takes the reply to its own call, although a thread replies  *)
(* to a number that may have changed hands by then, as long as no client    *)
(* dies, or fails to write, with its call under way, and no header is cut.  *)
(* Once one has, replies may stay one connection behind for good            *)
(* (reply_execute at the end of Task::run).                                 *)
OwnReply ==
  (\A d \in Conn : conn[d] \notin {"dead", "failed"}) /\ spoilt = {} =>
    \A c \in Conn : got[c] # <<>> => got[c] = Message(c)

(* A reply that is queued for a connected descriptor is written, or the     *)
(* connection ends, even if the thread that queued it never gets soc_mutex: *)
(* sync flushes every descriptor it comes to.                               *)
QueuedReplyLeaves ==
  \A fd \in Fd :
    outgoing[fd] # <<>> /\ owner[fd] # NoConn
      ~> outgoing[fd] = <<>> \/ owner[fd] = NoConn

(* A client that waits for a reply in the EXECUTE loop of a server gets one *)
(* or dies, though sync leaves its loop at every connection that ends.      *)
(* Within this module only a short write of somebody, or a header that was  *)
(* cut, can swallow its call; a nested wait can too (module Directory).     *)
CallAnswered ==
  \A c \in Conn :
    conn[c] = "calling" ~>
      conn[c] # "calling" \/ spoilt # {} \/ \E d \in Conn : conn[d] = "failed"

=============================================================================
