----------------------------- MODULE StringChannel -----------------------------
(***************************************************************************)
(* The string service of assignment 2: a client's main thread sends lines, *)
(* the server capitalises them, and a second thread of the client prints   *)
(* what comes back and decides when the client may end.                    *)
(*                                                                         *)
(* A message is its size, its characters and a final NUL; the size counts  *)
(* as one byte here, and is never the last one a read returns (sockets.hpp *)
(* of a2, lines 9-14).  Each method of StringChannel that takes the lock   *)
(* is one step; num_pending is changed outside of it, in two.  The server  *)
(* does not die.                                                           *)
(***************************************************************************)
EXTENDS Integers, Sequences

CONSTANTS Line,            \* bound: the lines a user types
          MaxLines,        \* bound: how many of them
          SOCKET_BUF_SIZE  \* 2048 in the code

Char == {<<"space", 0>>, <<"lower", 0>>, <<"upper", 0>>}

ASSUME StringChannelAssumption ==
  /\ Line \subseteq Seq(Char)
  /\ MaxLines \in Nat
  /\ SOCKET_BUF_SIZE \in Nat /\ SOCKET_BUF_SIZE >= 2

VARIABLES
  main,        \* where the client's main thread is
  net,         \* where its net_sync_thread is
  server,      \* where the server is
  read_buf, write_buf, \* of the sockets at either end
  requests,    \* the message either end is assembling
  wire,        \* what is under way to either end
  closing,
  num_pending, \* of the client; nobody reads the server's
  loaded,      \* the value a thread of the client has read of it
  lines,       \* history: the lines sent
  printed,     \* what the client has printed
  overlapped   \* history: two updates of num_pending have overlapped

socketVars == <<read_buf, write_buf, wire>>
countVars == <<num_pending, loaded, overlapped>>
vars == <<main, net, server, socketVars, requests, closing, countVars, lines, printed>>

End == {"client", "server"}
Other(end) == IF end = "client" THEN "server" ELSE "client"

Nul == <<"nul", 0>>
Size(n) == <<"size", n>>
IsSize(byte) == byte[1] = "size"
Byte == Char \cup {Nul} \cup ({"size"} \X Nat)

Thread == {"main", "net"}
MainPhase == {"reading", "sent", "counting", "joining", "ended"}
NetPhase == {"testing", "syncing", "receiving", "received", "counting", "ended"}

NoRequest == [size |-> 0, data |-> <<>>]

Init ==
  /\ main = "reading"
  /\ net = "testing"
  /\ server = "syncing"
  /\ read_buf = [end \in End |-> <<>>]
  /\ write_buf = [end \in End |-> <<>>]
  /\ requests = [end \in End |-> NoRequest]
  /\ wire = [end \in End |-> <<>>]
  /\ closing = FALSE
  /\ num_pending = 0
  /\ loaded = [t \in Thread |-> 0]
  /\ lines = <<>>
  /\ printed = <<>>
  /\ overlapped = FALSE

-----------------------------------------------------------------------------
(* cap_first_letter, one turn of its loop, and the loop. *)
CapTurn(acc, char) ==
  IF char[1] = "space"
    THEN [str |-> Append(acc.str, char), is_prev_space |-> TRUE]
    ELSE [str |-> Append(acc.str, IF acc.is_prev_space THEN <<"upper", 0>> ELSE <<"lower", 0>>),
          is_prev_space |-> FALSE]

cap_first_letter(str) ==
  LET acc[i \in 0 .. Len(str)] ==
        IF i = 0 THEN [str |-> <<>>, is_prev_space |-> TRUE]
        ELSE CapTurn(acc[i - 1], str[i])
  IN acc[Len(str)].str

Least(m, n) == IF m < n THEN m ELSE n
From(seq, i) == SubSeq(seq, i, Len(seq))

(* StringChannel::send, with the lock. *)
Send(end, str) ==
  write_buf' = [write_buf EXCEPT ![end] = @ \o <<Size(Len(str) + 1)>> \o str \o <<Nul>>]

(* The difference is unsigned, so a buffer that is more than full has room. *)
Room(end) == Len(read_buf[end]) # SOCKET_BUF_SIZE

(* Sockets::sync with one connection: one read, of n bytes, and one write.  *)
(* That there is room is tested, how much is read does not depend on it.    *)
Sync(end, n) ==
  /\ IF n = 0
       THEN \/ ~ Room(end)
            \/ \A i \in DOMAIN wire[end] : IsSize(wire[end][i])
       ELSE /\ Room(end)
            /\ n \in 1 .. Least(SOCKET_BUF_SIZE, Len(wire[end]))
            /\ ~ IsSize(wire[end][n])
  /\ read_buf' = [read_buf EXCEPT ![end] = @ \o SubSeq(wire[end], 1, n)]
  /\ LET i == Least(SOCKET_BUF_SIZE, Len(write_buf[end])) IN
       /\ wire' = [wire EXCEPT ![end] = From(@, n + 1),
                               ![Other(end)] = @ \o SubSeq(write_buf[end], 1, i)]
       /\ write_buf' = [write_buf EXCEPT ![end] = From(@, i + 1)]

(* mutant: the request stays in the map *)
KeptRequest(request) == request

NextRequest(request) == NoRequest

(* mutant: the null terminator stays in the buffer *)
NulLeft(rest) == rest

AfterNul(rest) == Tail(rest)

(* receive_any_helper: a request without data is a new one and begins with  *)
(* its size; then characters, as many as are there or are missing, and the  *)
(* null terminator if it is there too.                                      *)
Header(end) ==
  IF requests[end].data = <<>>
    THEN [size |-> read_buf[end][1][2], data |-> <<>>, rest |-> From(read_buf[end], 2)]
    ELSE [size |-> requests[end].size, data |-> requests[end].data, rest |-> read_buf[end]]

Assembled(end) ==
  LET header  == Header(end)
      missing == header.size - 1 - Len(header.data)
      taken   == Least(missing, Len(header.rest))
  IN [complete |-> missing < Len(header.rest),
      size     |-> header.size,
      data     |-> header.data \o SubSeq(header.rest, 1, taken),
      rest     |-> From(header.rest, taken + 1)]

Complete(end) == read_buf[end] # <<>> /\ Assembled(end).complete

Receive(end) ==
  IF read_buf[end] = <<>>
    THEN UNCHANGED <<read_buf, requests>>
    ELSE LET msg == Assembled(end)
             request == [size |-> msg.size, data |-> msg.data]
         IN /\ read_buf' = [read_buf EXCEPT ![end] =
                              IF msg.complete THEN AfterNul(msg.rest) ELSE <<>>]
            /\ requests' = [requests EXCEPT ![end] =
                              IF msg.complete THEN NextRequest(request) ELSE request]

(* num_pending++ and num_pending--, a load and a store each. *)
Load(t, other_counts) ==
  /\ loaded' = [loaded EXCEPT ![t] = num_pending]
  /\ overlapped' = (overlapped \/ other_counts)
  /\ UNCHANGED num_pending

Store(t, change) ==
  /\ num_pending' = loaded[t] + change
  /\ UNCHANGED <<loaded, overlapped>>

-----------------------------------------------------------------------------
(* The client's main thread. *)

SendLine(line) ==
  /\ main = "reading"
  /\ Len(lines) < MaxLines
  /\ main' = "sent"
  /\ Send("client", line)
  /\ lines' = Append(lines, line)
  /\ UNCHANGED <<net, server, read_buf, wire, requests, closing, countVars, printed>>

MainLoads ==
  /\ main = "sent"
  /\ main' = "counting"
  /\ Load("main", net = "counting")
  /\ UNCHANGED <<net, server, socketVars, requests, closing, lines, printed>>

MainStores ==
  /\ main = "counting"
  /\ main' = "reading"
  /\ Store("main", 1)
  /\ UNCHANGED <<net, server, socketVars, requests, closing, lines, printed>>

(* The end of the input: close, and pthread_join. *)
Close ==
  /\ main = "reading"
  /\ main' = "joining"
  /\ closing' = TRUE
  /\ UNCHANGED <<net, server, socketVars, requests, countVars, lines, printed>>

Join ==
  /\ main = "joining"
  /\ net = "ended"
  /\ main' = "ended"
  /\ UNCHANGED <<net, server, socketVars, requests, closing, countVars, lines, printed>>

-----------------------------------------------------------------------------
(* Its net_sync_thread: handle_requests. *)

(* mutant: what is pending does not count *)
AtOnce == closing

is_closing == closing /\ num_pending = 0

TestClosing ==
  /\ net = "testing"
  /\ net' = IF is_closing THEN "ended" ELSE "syncing"
  /\ UNCHANGED <<main, server, socketVars, requests, closing, countVars, lines, printed>>

NetSyncs(n) ==
  /\ net = "syncing"
  /\ net' = "receiving"
  /\ Sync("client", n)
  /\ UNCHANGED <<main, server, requests, closing, countVars, lines, printed>>

(* What it has received it prints. *)
NetReceives ==
  /\ net = "receiving"
  /\ Receive("client")
  /\ IF Complete("client")
       THEN net' = "received" /\ printed' = Append(printed, Assembled("client").data)
       ELSE net' = "testing" /\ UNCHANGED printed
  /\ UNCHANGED <<main, server, write_buf, wire, closing, countVars, lines>>

NetLoads ==
  /\ net = "received"
  /\ net' = "counting"
  /\ Load("net", main = "counting")
  /\ UNCHANGED <<main, server, socketVars, requests, closing, lines, printed>>

(* mutant: a reply does not count *)
NoChange == 0

Decrease == -1

NetStores ==
  /\ net = "counting"
  /\ net' = "testing"
  /\ Store("net", Decrease)
  /\ UNCHANGED <<main, server, socketVars, requests, closing, lines, printed>>

-----------------------------------------------------------------------------
(* The server's loop. *)

ServerSyncs(n) ==
  /\ server = "syncing"
  /\ server' = "receiving"
  /\ Sync("server", n)
  /\ UNCHANGED <<main, net, requests, closing, countVars, lines, printed>>

ServerReceives ==
  /\ server = "receiving"
  /\ server' = "syncing"
  /\ Receive("server")
  /\ IF Complete("server")
       THEN Send("server", cap_first_letter(Assembled("server").data))
       ELSE UNCHANGED write_buf
  /\ UNCHANGED <<main, net, wire, closing, countVars, lines, printed>>

-----------------------------------------------------------------------------
MainThread == MainLoads \/ MainStores \/ Close \/ Join
NetThread ==
  \/ TestClosing \/ NetReceives \/ NetLoads \/ NetStores
  \/ \E n \in 0 .. SOCKET_BUF_SIZE : NetSyncs(n)
ServerThread == ServerReceives \/ \E n \in 0 .. SOCKET_BUF_SIZE : ServerSyncs(n)

Next == (\E line \in Line : SendLine(line)) \/ MainThread \/ NetThread \/ ServerThread

Spec == Init /\ [][Next]_vars

(* The threads run, and the input ends. *)
FairSpec == Spec /\ WF_vars(MainThread) /\ WF_vars(NetThread) /\ WF_vars(ServerThread)

-----------------------------------------------------------------------------
(* Properties. *)

(* The variables keep their types; where a size is expected there is one.   *)
TypeOK ==
  /\ main \in MainPhase
  /\ net \in NetPhase
  /\ server \in {"syncing", "receiving"}
  /\ read_buf \in [End -> Seq(Byte)]
  /\ write_buf \in [End -> Seq(Byte)]
  /\ requests \in [End -> [size : Nat, data : Seq(Char)]]
  /\ wire \in [End -> Seq(Byte)]
  /\ closing \in BOOLEAN
  /\ num_pending \in Int
  /\ loaded \in [Thread -> Int]
  /\ lines \in Seq(Line)
  /\ printed \in Seq(Seq(Char))
  /\ overlapped \in BOOLEAN
  /\ \A end \in End : requests[end].data = <<>> /\ read_buf[end] # <<>> => IsSize(read_buf[end][1])

(* "Capitalised": upper case where a word begins, lower case elsewhere.     *)
Capitalised(str) ==
  [i \in DOMAIN str |->
    CASE str[i] = <<"space", 0>> -> str[i]
      [] str[i] # <<"space", 0>> /\ (i = 1 \/ str[i - 1] = <<"space", 0>>) -> <<"upper", 0>>
      [] OTHER -> <<"lower", 0>>]

(* The client prints the capitalised lines in the order it sent them,       *)
(* however the reads and the buffers cut the messages, empty lines included *)
(* (receive_any_helper, cap_first_letter).                                  *)
RepliesInOrder ==
  /\ Len(printed) =< Len(lines)
  /\ \A i \in DOMAIN printed : printed[i] = Capitalised(lines[i])

(* Unless two updates of num_pending overlap, the client does not end       *)
(* before it has printed the reply to every line: the reply of the last     *)
(* line may come before send has counted it, or after close (is_closing).   *)
EndsComplete == main = "ended" /\ ~ overlapped => Len(printed) = Len(lines)

(* And then it does end.                                                    *)
ClientEnds == closing ~> main = "ended" \/ overlapped

=============================================================================
