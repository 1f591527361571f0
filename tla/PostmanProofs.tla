------------------------------ MODULE PostmanProofs ------------------------------
(***************************************************************************)
(* Theorems about Postman: what the server takes for a call.  Every part   *)
(* of a message is in one place, and as long as a number had no short      *)
(* write and no header cut, its buffer is the beginning of the message     *)
(* whose rest is still to come.  And whose reply a client takes: its own,  *)
(* while nobody dies or falls short.                                       *)
(***************************************************************************)
EXTENDS Postman, FiniteSetTheorems, SequenceTheorems, TLAPS

-----------------------------------------------------------------------------
(* The parts of messages, and where they are. *)

(* What is under way on c follows its first b parts. *)
Follows(c, b) ==
  /\ b + Len(up[c]) <= Parts
  /\ \A i \in 1 .. Len(up[c]) : up[c][i] = <<c, b + i>>
  /\ conn[c] = "failed" \/ up[c] = <<>> \/ b + Len(up[c]) = Parts

(* What is under way is the rest of its message, unless a write was short. *)
UpInOrder == \A c \in Conn : \E b \in 0 .. Parts : Follows(c, b)

(* A part is in one buffer, in one place, or under way. *)
PartsDiffer ==
  /\ \A fd, gd \in Fd : \A i \in 1 .. Len(asm_buf[fd]), j \in 1 .. Len(asm_buf[gd]) :
       asm_buf[fd][i] = asm_buf[gd][j] => fd = gd /\ i = j
  /\ \A fd \in Fd, c \in Conn : \A i \in 1 .. Len(asm_buf[fd]), j \in 1 .. Len(up[c]) :
       asm_buf[fd][i] # up[c][j]

(* A connection has one end in the server, and gets it once. *)
OwnersDiffer ==
  /\ \A fd, gd \in Fd : owner[fd] = owner[gd] /\ owner[fd] # NoConn => fd = gd
  /\ \A i, j \in 1 .. Len(backlog) : backlog[i] = backlog[j] => i = j
  /\ \A i \in 1 .. Len(backlog), fd \in Fd : backlog[i] # owner[fd]
  /\ \A c \in Conn : conn[c] = "none" =>
       /\ \A i \in 1 .. Len(backlog) : backlog[i] # c
       /\ \A fd \in Fd : owner[fd] # c

(* Nothing is anywhere of a client that has not called. *)
Unsent ==
  \A c \in Conn : conn[c] \in {"none", "open"} =>
    /\ up[c] = <<>> /\ taken[c] = 0
    /\ \A fd \in Fd : \A i \in 1 .. Len(asm_buf[fd]) : asm_buf[fd][i][1] # c
    /\ \A i \in 1 .. Len(incoming) : incoming[i].body[1][1] # c

(* No part of a connection that waits to be accepted has been read. *)
Unread == \A i \in 1 .. Len(backlog) : Follows(backlog[i], 0)

(* Something of a message that was begun is always missing. *)
Sized == \A fd \in Fd : asm_buf[fd] # <<>> => Len(asm_buf[fd]) < size[fd]

(* What is under way follows what a buffer has, and a buffer has the first  *)
(* parts of the message of the client behind the descriptor: the rest is    *)
(* under way, unless the client could not write all of it.                  *)
Assembled(fd) ==
  /\ owner[fd] \in Conn => Follows(owner[fd], Len(asm_buf[fd]))
  /\ asm_buf[fd] # <<>> =>
       /\ owner[fd] \in Conn /\ size[fd] = Parts
       /\ conn[owner[fd]] = "failed" \/ up[owner[fd]] # <<>>
       /\ \A i \in 1 .. Len(asm_buf[fd]) : asm_buf[fd][i] = <<owner[fd], i>>

AllAssembled == \A fd \in Fd \ spoilt : Assembled(fd)

(* The header of a client's call is neither under way nor in a buffer. *)
HeaderGone(c) ==
  /\ \A fd \in Fd : \A i \in 1 .. Len(asm_buf[fd]) : asm_buf[fd][i] # <<c, 1>>
  /\ \A i \in 1 .. Len(up[c]) : up[c][i] # <<c, 1>>

(* A call in incoming is there once and has not been taken, and none of it  *)
(* can come again.                                                          *)
RequestsDiffer ==
  /\ \A i \in 1 .. Len(incoming) :
       LET body == incoming[i].body IN
       /\ body # <<>>
       /\ body[1][2] = 1 => HeaderGone(body[1][1]) /\ taken[body[1][1]] = 0
  /\ \A i, j \in 1 .. Len(incoming) :
       incoming[i].body[1] = incoming[j].body[1] /\ incoming[i].body[1][2] = 1 => i = j
  /\ \A c \in Conn : taken[c] # 0 => taken[c] = 1 /\ HeaderGone(c)

(* What is in incoming came from descriptors the loop of sync has passed. *)
Passed ==
  \A i \in 1 .. Len(incoming) :
    incoming[i].fd \notin todo /\ owner[incoming[i].fd] = incoming[i].from

PostmanInv ==
  /\ TypeOK
  /\ UpInOrder
  /\ PartsDiffer
  /\ OwnersDiffer
  /\ Unsent
  /\ Unread
  /\ Sized
  /\ AllAssembled
  /\ RequestsDiffer
  /\ Passed
  /\ WholeCalls

-----------------------------------------------------------------------------
(* Numbers and sequences. *)

(* A set of descriptor numbers has a least one. *)
LEMMA LeastIn ==
  ASSUME NEW S \in SUBSET Fd, S # {}
  PROVE  Least(S) \in S
<1>1. S \subseteq Nat
  BY PostmanAssumption DEF Fd
<1>2. PICK x \in S : \A y \in S : ~ (<<y, x>> \in OpToRel(<, Nat))
  BY <1>1, NatLessThanWellFounded, WFMin, Zenon
<1>3. \A y \in S : ~ (y < x)
  <2> SUFFICES ASSUME NEW y \in S, y < x PROVE FALSE
    OBVIOUS
  <2>1. <<y, x>> \in Nat \X Nat /\ <<y, x>>[1] < <<y, x>>[2]
    BY <1>1
  <2>2. <<y, x>> \in OpToRel(<, Nat)
    BY <2>1, Zenon DEF OpToRel
  <2> QED
    BY <1>2, <2>2, Zenon
<1>4. \A y \in S : x =< y
  BY <1>1, <1>3
<1> QED
  BY <1>4 DEF Least

(* The backlog is only accepted to a number that is free: there are as many *)
(* numbers as connections.                                                  *)
LEMMA FreeNumber ==
  ASSUME PostmanInv, backlog # <<>>
  PROVE  /\ Least(Fd \ connected_fds) \in Fd
         /\ owner[Least(Fd \ connected_fds)] = NoConn
<1> DEFINE c == Head(backlog)
           rest == Conn \ {c}
           ends == [fd \in connected_fds |-> owner[fd]]
<1>1. owner \in [Fd -> Conn \cup {NoConn}] /\ backlog \in Seq(Conn) /\ MaxFd \in Nat
  BY PostmanAssumption DEF PostmanInv, TypeOK
<1>2. c \in Conn /\ \A fd \in Fd : owner[fd] # c
  <2>1. c = backlog[1] /\ 1 \in 1 .. Len(backlog) /\ c \in Conn
    BY <1>1
  <2> QED
    BY <2>1 DEF PostmanInv, OwnersDiffer
<1>3. /\ IsFiniteSet(rest) /\ Cardinality(rest) = Cardinality(Conn) - 1
      /\ Cardinality(Conn) \in Nat
  BY <1>2, PostmanAssumption, FS_RemoveElement, FS_CardinalityType
<1> HIDE DEF c
<1>4. ends \in Injection(connected_fds, rest)
  <2>1. \A fd \in connected_fds : fd \in Fd /\ owner[fd] \in rest
    BY <1>1, <1>2 DEF connected_fds
  <2>2. \A fd, gd \in connected_fds : owner[fd] = owner[gd] => fd = gd
    BY DEF PostmanInv, OwnersDiffer, connected_fds
  <2> QED
    BY <2>1, <2>2 DEF Injection, IsInjective
<1>5. Cardinality(connected_fds) <= Cardinality(rest)
  BY <1>3, <1>4, FS_Injection
<1>6. Cardinality(Fd) = MaxFd
  BY <1>1, FS_Interval DEF Fd
<1>7. connected_fds # Fd
  BY <1>1, <1>3, <1>5, <1>6, PostmanAssumption
<1>8. Fd \ connected_fds # {}
  BY <1>7 DEF connected_fds
<1>9. Least(Fd \ connected_fds) \in Fd \ connected_fds
  BY <1>8, LeastIn
<1> QED
  BY <1>9 DEF connected_fds

(* The elements of buffers and messages are parts. *)
LEMMA PartFields ==
  ASSUME NEW s \in Seq(Part), NEW i \in 1 .. Len(s)
  PROVE  s[i] \in Part /\ s[i][1] \in Conn /\ s[i][2] \in 1 .. Parts /\ s[i] = <<s[i][1], s[i][2]>>
<1>1. s[i] \in Part
  BY LenProperties
<1> QED
  BY <1>1 DEF Part

LEMMA PartTypes ==
  ASSUME TypeOK
  PROVE  /\ \A fd \in Fd : asm_buf[fd] \in Seq(Part) /\ Len(asm_buf[fd]) \in Nat
         /\ \A fd \in Fd : asm_buf[fd] # <<>> => 1 \in 1 .. Len(asm_buf[fd])
         /\ \A c \in Conn : up[c] \in Seq(Part) /\ Len(up[c]) \in Nat
         /\ Len(incoming) \in Nat /\ DOMAIN incoming = 1 .. Len(incoming)
         /\ \A i \in 1 .. Len(incoming) :
              /\ incoming[i] \in Request
              /\ incoming[i].fd \in Fd /\ incoming[i].from \in Conn
              /\ incoming[i].body \in Seq(Part)
<1>1. \A fd \in Fd : asm_buf[fd] \in Seq(Part) /\ Len(asm_buf[fd]) \in Nat
  BY DEF TypeOK
<1>2. \A fd \in Fd : asm_buf[fd] # <<>> => 1 \in 1 .. Len(asm_buf[fd])
  BY <1>1
<1>3. \A c \in Conn : up[c] \in Seq(Part) /\ Len(up[c]) \in Nat
  BY DEF TypeOK
<1>4. incoming \in Seq(Request)
  BY DEF TypeOK
<1>5. /\ Len(incoming) \in Nat /\ DOMAIN incoming = 1 .. Len(incoming)
      /\ \A i \in 1 .. Len(incoming) : incoming[i] \in Request
  BY <1>4, LenProperties
<1>6. \A r \in Request : r.fd \in Fd /\ r.from \in Conn /\ r.body \in Seq(Part)
  BY DEF Request
<1> QED
  BY <1>1, <1>2, <1>3, <1>5, <1>6

-----------------------------------------------------------------------------
(* What one read does. *)

(* The turn of sync at fd reads n parts of c, the first m of which go to    *)
(* message, after what the buffer has.                                      *)
Split(fd, c, m, n, message) ==
  /\ fd \in todo /\ owner[fd] = c /\ n <= Len(up[c])
  /\ message \in Seq(Part) /\ Len(message) = Len(asm_buf[fd]) + m
  /\ \A i \in 1 .. Len(asm_buf[fd]) : message[i] = asm_buf[fd][i]
  /\ \A i \in 1 .. m : message[Len(asm_buf[fd]) + i] = up[c][i]
  /\ up' = [up EXCEPT ![c] = SubSeq(up[c], n + 1, Len(up[c]))]
  /\ todo' = todo \ {fd}
  /\ spoilt \subseteq spoilt' /\ spoilt' \subseteq spoilt \cup {fd}

(* The message is handed over, or kept, or forgotten; only of a number that *)
(* was spoilt before, or by this read, is it handed over when it does not   *)
(* have all its parts, or forgotten.                                        *)
HandsOver(fd, c, message) ==
  /\ incoming' = Append(incoming, [fd |-> fd, from |-> c, body |-> message])
  /\ asm_buf' = [asm_buf EXCEPT ![fd] = <<>>]
  /\ size' = [size EXCEPT ![fd] = 0]
  /\ fd \notin spoilt' => Len(message) = Parts

Keeps(fd, m, n, message) ==
  /\ m = n
  /\ incoming' = incoming
  /\ asm_buf' = [asm_buf EXCEPT ![fd] = message]
  /\ \E whole \in Nat :
       /\ size' = [size EXCEPT ![fd] = whole]
       /\ Len(message) < whole
       /\ fd \notin spoilt' => whole = Parts

Forgets(fd) ==
  /\ incoming' = incoming
  /\ asm_buf' = [asm_buf EXCEPT ![fd] = <<>>]
  /\ size' = [size EXCEPT ![fd] = 0]
  /\ fd \in spoilt'

ReadSplit(fd, c, m, n, message) ==
  /\ Split(fd, c, m, n, message)
  /\ HandsOver(fd, c, message) \/ Keeps(fd, m, n, message) \/ Forgets(fd)

(* A position in the first m of k parts is one in the k parts. *)
LEMMA FirstPositions ==
  ASSUME NEW k \in Nat, NEW m \in 0 .. k
  PROVE  \A i \in 1 .. m : i \in 1 .. k
  OBVIOUS

(* The parts of a buffer and those that follow it all differ. *)
LEMMA ReadDiffer ==
  ASSUME PostmanInv, NEW fd \in Fd, NEW c \in Conn, NEW m \in 0 .. Len(up[c]),
         NEW message \in Seq(Part), Len(message) = Len(asm_buf[fd]) + m,
         \A i \in 1 .. Len(asm_buf[fd]) : message[i] = asm_buf[fd][i],
         \A i \in 1 .. m : message[Len(asm_buf[fd]) + i] = up[c][i]
  PROVE  \A i, j \in 1 .. Len(message) : message[i] = message[j] => i = j
<1> DEFINE a == Len(asm_buf[fd])
<1>1. asm_buf[fd] \in Seq(Part) /\ up[c] \in Seq(Part) /\ a \in Nat /\ Len(up[c]) \in Nat
  BY PartTypes DEF PostmanInv
<1>2. PICK b \in 0 .. Parts : Follows(c, b)
  BY DEF PostmanInv, UpInOrder
<1>3. \A i, j \in 1 .. m : up[c][i] = up[c][j] => i = j
  <2> SUFFICES ASSUME NEW i \in 1 .. m, NEW j \in 1 .. m, up[c][i] = up[c][j]
               PROVE  i = j
    OBVIOUS
  <2>1. i \in 1 .. Len(up[c]) /\ j \in 1 .. Len(up[c])
    BY <1>1, FirstPositions, Zenon
  <2>2. up[c][i] = <<c, b + i>> /\ up[c][j] = <<c, b + j>>
    BY <1>2, <2>1, Zenon DEF Follows
  <2>3. b + i = b + j
    <3>1. <<c, b + i>> = <<c, b + j>>
      BY <2>2, Zenon
    <3> QED
      BY <3>1, Zenon
  <2> QED
    BY <1>1, <2>3, PostmanAssumption
<1>4. \A i, j \in 1 .. a : asm_buf[fd][i] = asm_buf[fd][j] => i = j
  BY SMTT(20) DEF PostmanInv, PartsDiffer
<1>5. \A i \in 1 .. a, j \in 1 .. m : asm_buf[fd][i] # up[c][j]
  BY <1>1 DEF PostmanInv, PartsDiffer
<1> SUFFICES ASSUME NEW i \in 1 .. Len(message), NEW j \in 1 .. Len(message),
                    message[i] = message[j]
             PROVE  i = j
  OBVIOUS
<1>6. \A k \in 1 .. Len(message) :
        \/ k \in 1 .. a /\ message[k] = asm_buf[fd][k]
        \/ k - a \in 1 .. m /\ message[k] = up[c][k - a]
  <2> SUFFICES ASSUME NEW k \in 1 .. Len(message), k \notin 1 .. a
               PROVE  k - a \in 1 .. m /\ message[k] = up[c][k - a]
    OBVIOUS
  <2>1. k - a \in 1 .. m /\ a + (k - a) = k
    BY <1>1
  <2>2. message[a + (k - a)] = up[c][k - a]
    BY <2>1
  <2> QED
    BY <2>1, <2>2, Zenon
<1>7. CASE i \in 1 .. a /\ j \in 1 .. a
  BY <1>4, <1>7
<1>8. CASE i \notin 1 .. a /\ j \notin 1 .. a
  <2>1. i - a \in 1 .. m /\ j - a \in 1 .. m /\ up[c][i - a] = up[c][j - a]
    BY <1>6, <1>8
  <2>2. i - a = j - a
    BY <1>3, <2>1
  <2> QED
    BY <1>1, <2>2
<1>9. CASE i \in 1 .. a /\ j \notin 1 .. a
  <2>1. message[i] = asm_buf[fd][i] /\ j - a \in 1 .. m /\ message[j] = up[c][j - a]
    BY <1>6, <1>9
  <2> QED
    BY <1>5, <1>9, <2>1
<1>10. CASE i \notin 1 .. a /\ j \in 1 .. a
  <2>1. message[j] = asm_buf[fd][j] /\ i - a \in 1 .. m /\ message[i] = up[c][i - a]
    BY <1>6, <1>10
  <2> QED
    BY <1>5, <1>10, <2>1
<1> QED
  BY <1>7, <1>8, <1>9, <1>10

(* Every read by sync is of that kind: the first one at a number that is    *)
(* not spoilt begins with a header and something behind it, so that the     *)
(* size is what the client wrote.                                           *)
LEMMA ReadFacts ==
  ASSUME PostmanInv, NEW n \in 1 .. Parts, NEW said \in {Parts} \cup GarbageSize,
         SyncRead(n, said)
  PROVE  \E fd \in Fd, c \in Conn : \E m \in 1 .. n : \E message \in Seq(Part) :
           ReadSplit(fd, c, m, n, message)
<1> DEFINE fd == Least(todo)
           c == owner[fd]
           read == SubSeq(up[c], 1, n)
           buf == asm_buf[fd]
           whole == IF buf = <<>> THEN said ELSE size[fd]
           rest == Remaining(whole, buf)
           m == Shorter(rest, read)
           message == buf \o SubSeq(read, 1, m)
           done == IsReady(Len(message) - Len(buf), rest)
           left == IF done THEN Erased(message) ELSE IF HasBody(message) THEN message ELSE <<>>
<1>1. todo # {} /\ todo \subseteq Fd
  BY DEF SyncRead, PostmanInv, TypeOK, connected_fds
<1>2. fd \in todo /\ fd \in Fd
  BY <1>1, LeastIn
<1>3. c \in Conn
  BY <1>2 DEF PostmanInv, TypeOK, connected_fds
<1>4. /\ n \in 1 .. Len(up[c])
      /\ said \in HeaderSize(read)
      /\ up' = [up EXCEPT ![c] = SubSeq(up[c], n + 1, Len(up[c]))]
      /\ todo' = todo \ {fd}
      /\ spoilt' = IF IsHeader(Head(up[c])) /\ n = 1 THEN spoilt \cup {fd} ELSE spoilt
  BY DEF SyncRead
<1>5. /\ incoming' = IF done
                      THEN Append(incoming, [fd |-> fd, from |-> c, body |-> message])
                      ELSE incoming
      /\ asm_buf' = [asm_buf EXCEPT ![fd] = left]
      /\ size' = [size EXCEPT ![fd] = IF left = <<>> THEN 0 ELSE whole]
  <2>1. read_avail(fd, read, said)
    BY DEF SyncRead
  <2> QED
    BY <2>1, Zenon DEF read_avail
<1>6. up[c] \in Seq(Part) /\ buf \in Seq(Part) /\ Len(buf) \in Nat /\ size[fd] \in Nat
  BY <1>2, <1>3 DEF PostmanInv, TypeOK
<1>7. fd \notin spoilt => Assembled(fd)
  BY <1>2 DEF PostmanInv, AllAssembled
<1>8. buf # <<>> => Len(buf) < size[fd]
  BY <1>2 DEF PostmanInv, Sized
<1>9. spoilt \subseteq spoilt' /\ spoilt' \subseteq spoilt \cup {fd}
  BY <1>4
<1> HIDE DEF fd, c, left, done
<1>10. read \in Seq(Part) /\ Len(read) = n /\ \A i \in 1 .. n : read[i] = up[c][i]
  BY <1>4, <1>6, SubSeqProperties
<1>11. whole \in Nat /\ Len(buf) < whole
  <2>1. said \in Nat \ {0}
    BY PostmanAssumption
  <2>2. buf = <<>> => Len(buf) = 0
    OBVIOUS
  <2> QED
    BY <1>6, <1>8, <2>1, <2>2
<1>12. fd \notin spoilt' => whole = Parts /\ (buf = <<>> => n > 1)
  <2> SUFFICES ASSUME fd \notin spoilt' PROVE whole = Parts /\ (buf = <<>> => n > 1)
    OBVIOUS
  <2>1. Assembled(fd)
    BY <1>7, <1>9
  <2>2. CASE buf # <<>>
    BY <2>1, <2>2 DEF Assembled
  <2>3. CASE buf = <<>>
    <3>1. 1 \in 1 .. Len(up[c]) /\ 1 \in 1 .. n /\ Head(up[c]) = up[c][1] /\ Head(read) = read[1]
      BY <1>4, <1>6, <1>10
    <3>2. Follows(c, 0)
      BY <1>3, <2>1, <2>3 DEF Assembled, c
    <3>3. up[c][1] = <<c, 0 + 1>>
      BY <3>1, <3>2 DEF Follows
    <3>4. IsHeader(Head(up[c])) /\ IsHeader(Head(read))
      BY <1>10, <3>1, <3>3 DEF IsHeader
    <3>5. n # 1
      BY <1>4, <3>4
    <3>6. n > 1
      BY <3>5
    <3>7. said = Parts
      BY <1>4, <1>10, <3>4, <3>6 DEF HeaderSize
    <3> QED
      BY <2>3, <3>6, <3>7
  <2> QED
    BY <2>2, <2>3
<1> HIDE DEF read, buf, whole
<1>13. rest \in Nat /\ rest > 0 /\ Len(buf) + rest = whole
  BY <1>6, <1>11 DEF Remaining
<1> HIDE DEF rest
<1>14. m \in 1 .. n /\ (m = rest \/ (m = n /\ n < rest))
  BY <1>10, <1>13 DEF Shorter
<1> HIDE DEF m
<1>15. /\ SubSeq(read, 1, m) \in Seq(Part) /\ Len(SubSeq(read, 1, m)) = m
       /\ \A i \in 1 .. m : SubSeq(read, 1, m)[i] = up[c][i]
  BY <1>10, <1>14, SubSeqProperties
<1>16. /\ message \in Seq(Part) /\ Len(message) = Len(buf) + m
       /\ \A i \in 1 .. Len(buf) : message[i] = buf[i]
       /\ \A i \in 1 .. m : message[Len(buf) + i] = up[c][i]
  <2>1. /\ message \in Seq(Part) /\ Len(message) = Len(buf) + m
        /\ \A i \in 1 .. Len(buf) + m :
             message[i] = IF i <= Len(buf) THEN buf[i]
                          ELSE SubSeq(read, 1, m)[i - Len(buf)]
    BY <1>6, <1>14, <1>15, ConcatProperties
  <2> HIDE DEF message
  <2>2. \A i \in 1 .. Len(buf) : message[i] = buf[i]
    BY <1>6, <1>14, <2>1
  <2>3. ASSUME NEW i \in 1 .. m PROVE message[Len(buf) + i] = up[c][i]
    <3>1. PICK k \in 1 .. Len(buf) + m : k = Len(buf) + i
      BY <1>6, <1>14
    <3>2. ~ (k <= Len(buf)) /\ k - Len(buf) = i
      BY <1>6, <1>14, <3>1
    <3>3. message[k] = SubSeq(read, 1, m)[k - Len(buf)]
      BY <2>1, <3>2, Zenon
    <3> QED
      BY <1>15, <3>1, <3>2, <3>3, Zenon
  <2> QED
    BY <2>1, <2>2, <2>3
<1> HIDE DEF message
<1>17. done <=> m = rest
  BY <1>6, <1>14, <1>16 DEF done, IsReady
<1>18. Split(fd, c, m, n, message)
  BY <1>2, <1>4, <1>9, <1>16 DEF Split, buf, c
<1>19. ASSUME done PROVE HandsOver(fd, c, message)
  <2>1. left = <<>>
    BY <1>19 DEF left, Erased
  <2>2. fd \notin spoilt' => Len(message) = Parts
    BY <1>12, <1>13, <1>16, <1>17, <1>19
  <2> QED
    BY <1>5, <1>19, <2>1, <2>2, Zenon DEF HandsOver
<1>20. ASSUME ~ done /\ HasBody(message) PROVE Keeps(fd, m, n, message)
  <2>1. left = message /\ message # <<>>
    BY <1>16, <1>20 DEF left, HasBody
  <2>2. m = n /\ Len(message) < whole
    BY <1>6, <1>13, <1>14, <1>16, <1>17, <1>20
  <2>3. /\ incoming' = incoming /\ asm_buf' = [asm_buf EXCEPT ![fd] = message]
        /\ size' = [size EXCEPT ![fd] = whole]
    BY <1>5, <1>20, <2>1, Zenon
  <2>4. whole \in Nat /\ (fd \notin spoilt' => whole = Parts)
    BY <1>11, <1>12
  <2> QED
    BY <2>2, <2>3, <2>4, Zenon DEF Keeps
<1>21. ASSUME ~ done /\ ~ HasBody(message) PROVE Forgets(fd)
  <2>1. left = <<>>
    BY <1>21 DEF left
  <2>2. Len(buf) = 0 /\ n = 1
    BY <1>6, <1>14, <1>16, <1>17, <1>21 DEF HasBody
  <2>3. buf = <<>>
    BY <1>6, <2>2
  <2>4. fd \in spoilt'
    BY <1>12, <2>2, <2>3
  <2> QED
    BY <1>5, <1>21, <2>1, <2>4, Zenon DEF Forgets
<1> QED
  <2>1. ReadSplit(fd, c, m, n, message)
    BY <1>18, <1>19, <1>20, <1>21, Zenon DEF ReadSplit
  <2> QED
    BY <1>2, <1>3, <1>14, <1>16, <2>1

-----------------------------------------------------------------------------
(* Steps that leave the parts where they are. *)

(* A flush moves replies to where replies are. *)
LEMMA FlushType ==
  ASSUME PostmanInv, NEW fd \in Fd, flush(fd)
  PROVE  outgoing' \in [Fd -> Seq(Seq(Part))] /\ down' \in [Conn -> Seq(Seq(Part))]
<1>1. outgoing \in [Fd -> Seq(Seq(Part))] /\ down \in [Conn -> Seq(Seq(Part))]
  BY DEF PostmanInv, TypeOK
<1>2. outgoing' = [outgoing EXCEPT ![fd] = <<>>]
  BY DEF flush, Popped
<1>3. outgoing' \in [Fd -> Seq(Seq(Part))]
  BY <1>1, <1>2
<1>4. CASE owner[fd] \in Conn /\ ~ Closed(owner[fd])
  <2>1. down' = [down EXCEPT ![owner[fd]] = down[owner[fd]] \o outgoing[fd]]
    BY <1>4 DEF flush
  <2>2. down[owner[fd]] \o outgoing[fd] \in Seq(Seq(Part))
    BY <1>1, <1>4, ConcatProperties
  <2> QED
    BY <1>1, <1>3, <2>1, <2>2
<1>5. CASE ~ (owner[fd] \in Conn /\ ~ Closed(owner[fd]))
  BY <1>1, <1>3, <1>5, Zenon DEF flush
<1> QED
  BY <1>4, <1>5

(* A number that is spoilt remains so. *)
LEMMA StillWhole ==
  ASSUME PostmanInv, spoilt \subseteq spoilt', incoming' = incoming, pool' \subseteq pool
  PROVE  WholeCalls'
<1>1. \A c : Message(c)' = Message(c)
  BY DEF Message
<1> QED
  BY <1>1 DEF PostmanInv, WholeCalls

(* A connection's parts under way follow the same ones after a step that    *)
(* leaves it alone.                                                         *)
LEMMA FollowsStays ==
  ASSUME NEW c, NEW b, Follows(c, b), up'[c] = up[c], conn[c] = "failed" => conn'[c] = "failed"
  PROVE  Follows(c, b)'
BY DEF Follows

(* Sending replies, and going on in the loop of sync, disturbs nothing. *)
LEMMA QuietStep ==
  ASSUME PostmanInv, TypeOK',
         conn' = conn, up' = up, backlog' = backlog, owner' = owner,
         asm_buf' = asm_buf, size' = size, spoilt' = spoilt,
         incoming' = incoming, taken' = taken, todo' \subseteq todo, pool' \subseteq pool
  PROVE  PostmanInv'
<1>1. UpInOrder'
  BY DEF PostmanInv, UpInOrder, Follows
<1>2. PartsDiffer'
  BY DEF PostmanInv, PartsDiffer
<1>3. OwnersDiffer'
  BY DEF PostmanInv, OwnersDiffer
<1>4. Unsent'
  BY DEF PostmanInv, Unsent
<1>5. Unread' /\ Sized' /\ AllAssembled'
  BY DEF PostmanInv, Unread, Sized, AllAssembled, Assembled, Follows
<1>6. RequestsDiffer'
  BY DEF PostmanInv, RequestsDiffer, HeaderGone
<1>7. Passed'
  BY DEF PostmanInv, Passed
<1>8. WholeCalls'
  BY StillWhole
<1> QED
  BY <1>1, <1>2, <1>3, <1>4, <1>5, <1>6, <1>7, <1>8 DEF PostmanInv

(* A client that takes its reply or dies leaves the parts where they are. *)
LEMMA ClientEnds ==
  ASSUME PostmanInv, TypeOK', NEW c \in Conn, conn[c] \in {"open", "calling"},
         NEW p \in {"done", "dead"}, conn' = [conn EXCEPT ![c] = p],
         up' = up, backlog' = backlog, owner' = owner, asm_buf' = asm_buf,
         size' = size, spoilt' = spoilt,
         incoming' = incoming, taken' = taken, todo' = todo, pool' = pool
  PROVE  PostmanInv'
<1>1. \A d \in Conn : /\ conn'[d] = "failed" <=> conn[d] = "failed"
                      /\ conn'[d] \in {"none", "open"} => conn[d] = conn'[d]
  BY DEF PostmanInv, TypeOK
<1>2. UpInOrder'
  BY <1>1 DEF PostmanInv, UpInOrder, Follows
<1>3. PartsDiffer'
  BY DEF PostmanInv, PartsDiffer
<1>4. OwnersDiffer'
  <2>1. \A d \in Conn : conn'[d] = "none" => conn[d] = "none"
    BY <1>1
  <2> QED
    BY <2>1 DEF PostmanInv, OwnersDiffer
<1>5. Unsent'
  BY <1>1 DEF PostmanInv, Unsent
<1>6. Unread' /\ Sized' /\ AllAssembled'
  <2>1. \A d \in Conn : \A b : Follows(d, b) => Follows(d, b)'
    BY <1>1 DEF Follows
  <2>2. \A i \in 1 .. Len(backlog) : backlog[i] \in Conn
    BY DEF PostmanInv, TypeOK
  <2>3. Unread'
    BY <2>1, <2>2 DEF PostmanInv, Unread
  <2>4. Sized'
    BY DEF PostmanInv, Sized
  <2>5. AllAssembled'
    BY <1>1, <2>1 DEF PostmanInv, AllAssembled, Assembled
  <2> QED
    BY <2>3, <2>4, <2>5
<1>7. RequestsDiffer'
  BY DEF PostmanInv, RequestsDiffer, HeaderGone
<1>8. Passed'
  BY DEF PostmanInv, Passed
<1>9. WholeCalls'
  BY <1>1, StillWhole
<1> QED
  BY <1>2, <1>3, <1>4, <1>5, <1>6, <1>7, <1>8, <1>9 DEF PostmanInv

-----------------------------------------------------------------------------
(* The steps of clients. *)

(* A connection enters the backlog once. *)
LEMMA ConnectStep ==
  ASSUME PostmanInv, TypeOK', NEW c \in Conn, Connect(c)
  PROVE  PostmanInv'
<1>0. /\ conn[c] = "none" /\ conn' = [conn EXCEPT ![c] = "open"]
      /\ backlog' = Append(backlog, c)
      /\ up' = up /\ owner' = owner /\ asm_buf' = asm_buf /\ incoming' = incoming
      /\ size' = size /\ spoilt' = spoilt
      /\ taken' = taken /\ todo' = todo /\ pool' = pool
  BY DEF Connect, queueVars, asmVars, syncVars, serverVars
<1>1. \A d \in Conn : /\ conn'[d] = "failed" <=> conn[d] = "failed"
                      /\ conn'[d] \in {"none", "open"} => conn[d] \in {"none", "open"}
                      /\ conn'[d] = "none" => conn[d] = "none" /\ d # c
  BY <1>0 DEF PostmanInv, TypeOK
<1>2. UpInOrder'
  BY <1>0, <1>1 DEF PostmanInv, UpInOrder, Follows
<1>3. PartsDiffer'
  BY <1>0 DEF PostmanInv, PartsDiffer
<1>4. OwnersDiffer'
  <2>1. backlog \in Seq(Conn) /\ Len(backlog) \in Nat
    BY DEF PostmanInv, TypeOK
  <2>2. /\ Len(backlog') = Len(backlog) + 1 /\ backlog'[Len(backlog) + 1] = c
        /\ \A i \in 1 .. Len(backlog) : backlog'[i] = backlog[i]
    BY <1>0, <2>1, AppendProperties
  <2>3. \A i \in 1 .. Len(backlog') : i \in 1 .. Len(backlog) \/ i = Len(backlog) + 1
    BY <2>1, <2>2
  <2>4. /\ \A i \in 1 .. Len(backlog) : backlog[i] # c
        /\ \A fd \in Fd : owner[fd] # c
    BY <1>0 DEF PostmanInv, OwnersDiffer
  <2>5. \A i, j \in 1 .. Len(backlog') : backlog'[i] = backlog'[j] => i = j
    BY <2>2, <2>3, <2>4 DEF PostmanInv, OwnersDiffer
  <2>6. \A i \in 1 .. Len(backlog'), fd \in Fd : backlog'[i] # owner[fd]
    BY <2>2, <2>3, <2>4 DEF PostmanInv, OwnersDiffer
  <2>7. ASSUME NEW d \in Conn, conn'[d] = "none"
        PROVE  (\A i \in 1 .. Len(backlog') : backlog'[i] # d) /\ \A fd \in Fd : owner[fd] # d
    BY <1>1, <2>2, <2>3, <2>7 DEF PostmanInv, OwnersDiffer
  <2> QED
    BY <1>0, <2>5, <2>6, <2>7 DEF PostmanInv, OwnersDiffer
<1>5. Unsent'
  BY <1>0, <1>1 DEF PostmanInv, Unsent
<1>6. Unread' /\ Sized' /\ AllAssembled'
  <2>1. \A d \in Conn : \A b : Follows(d, b) => Follows(d, b)'
    BY <1>0, <1>1 DEF Follows
  <2>2. Unread'
    <3>1. backlog \in Seq(Conn) /\ Len(backlog) \in Nat
      BY DEF PostmanInv, TypeOK
    <3>2. /\ Len(backlog') = Len(backlog) + 1 /\ backlog'[Len(backlog) + 1] = c
          /\ \A i \in 1 .. Len(backlog) : backlog'[i] = backlog[i] /\ backlog[i] \in Conn
      BY <1>0, <3>1, AppendProperties
    <3>3. up[c] = <<>>
      BY <1>0 DEF PostmanInv, Unsent
    <3>4. Follows(c, 0)
      BY <3>3, PostmanAssumption DEF Follows
    <3>5. \A i \in 1 .. Len(backlog') : i \in 1 .. Len(backlog) \/ i = Len(backlog) + 1
      BY <3>1, <3>2
    <3>6. \A i \in 1 .. Len(backlog') : backlog'[i] \in Conn /\ Follows(backlog'[i], 0)
      BY <3>2, <3>4, <3>5 DEF PostmanInv, Unread
    <3> QED
      BY <2>1, <3>6 DEF Unread
  <2>3. Sized'
    BY <1>0 DEF PostmanInv, Sized
  <2>4. AllAssembled'
    BY <1>0, <1>1, <2>1 DEF PostmanInv, AllAssembled, Assembled
  <2> QED
    BY <2>2, <2>3, <2>4
<1>7. RequestsDiffer'
  BY <1>0 DEF PostmanInv, RequestsDiffer, HeaderGone
<1>8. Passed'
  BY <1>0 DEF PostmanInv, Passed
<1>9. WholeCalls'
  BY <1>0, <1>1, StillWhole
<1> QED
  BY <1>2, <1>3, <1>4, <1>5, <1>6, <1>7, <1>8, <1>9 DEF PostmanInv

(* A client writes the first k parts of its call, nothing of which is       *)
(* anywhere before.                                                         *)
LEMMA ClientCalls ==
  ASSUME PostmanInv, TypeOK', NEW c \in Conn, conn[c] = "open",
         NEW p \in {"calling", "failed"}, conn' = [conn EXCEPT ![c] = p],
         NEW k \in 1 .. Parts, k = Parts \/ p = "failed",
         NEW parts \in Seq(Part), Len(parts) = k, \A i \in 1 .. k : parts[i] = <<c, i>>,
         up' = [up EXCEPT ![c] = parts],
         backlog' = backlog, owner' = owner, asm_buf' = asm_buf,
         size' = size, spoilt' = spoilt,
         incoming' = incoming, taken' = taken, todo' = todo, pool' = pool
  PROVE  PostmanInv'
<1>0. up \in [Conn -> Seq(Part)] /\ conn \in [Conn -> ClientPhase]
  BY DEF PostmanInv, TypeOK
<1>1. \A d \in Conn : /\ conn[d] = "failed" => conn'[d] = "failed"
                      /\ conn'[d] \in {"none", "open"} => conn[d] = conn'[d] /\ d # c
                      /\ d # c => conn'[d] = conn[d] /\ up'[d] = up[d]
  BY <1>0
<1>2. up'[c] = parts /\ conn'[c] = p
  BY <1>0
<1>3. /\ up[c] = <<>> /\ taken[c] = 0
      /\ \A fd \in Fd : \A i \in 1 .. Len(asm_buf[fd]) : asm_buf[fd][i][1] # c
      /\ \A i \in 1 .. Len(incoming) : incoming[i].body[1][1] # c
  BY DEF PostmanInv, Unsent
<1>4. UpInOrder'
  <2> SUFFICES ASSUME NEW d \in Conn PROVE \E b \in 0 .. Parts : Follows(d, b)'
    BY DEF UpInOrder
  <2>1. CASE d = c
    <3>1. 0 \in 0 .. Parts /\ 0 + Len(up'[c]) = k /\ k <= Parts
      BY <1>2, PostmanAssumption
    <3>2. \A i \in 1 .. Len(up'[c]) : up'[c][i] = <<c, 0 + i>>
      BY <1>2
    <3>3. Follows(c, 0)'
      BY <1>2, <3>1, <3>2 DEF Follows
    <3> QED
      BY <2>1, <3>1, <3>3
  <2>2. CASE d # c
    <3>1. conn'[d] = conn[d] /\ up'[d] = up[d]
      BY <1>1, <2>2
    <3>2. \A b \in 0 .. Parts : Follows(d, b) => Follows(d, b)'
      BY <3>1 DEF Follows
    <3> QED
      BY <3>2 DEF PostmanInv, UpInOrder
  <2> QED
    BY <2>1, <2>2
<1>5. PartsDiffer'
  <2> SUFFICES ASSUME NEW fd \in Fd, NEW d \in Conn, NEW i \in 1 .. Len(asm_buf[fd]),
                      NEW j \in 1 .. Len(up'[d]), asm_buf[fd][i] = up'[d][j]
               PROVE  FALSE
    BY DEF PostmanInv, PartsDiffer
  <2>1. CASE d = c
    <3>1. up'[d][j] = <<c, j>>
      BY <1>2, <2>1
    <3> QED
      BY <1>3, <3>1
  <2>2. CASE d # c
    BY <1>1, <2>2 DEF PostmanInv, PartsDiffer
  <2> QED
    BY <2>1, <2>2
<1>6. OwnersDiffer'
  <2>1. \A d \in Conn : conn'[d] = "none" => conn[d] = "none"
    BY <1>1
  <2> QED
    BY <2>1 DEF PostmanInv, OwnersDiffer
<1>7. Unsent'
  BY <1>1 DEF PostmanInv, Unsent
<1>8. Unread' /\ Sized' /\ AllAssembled'
  <2>1. \A d \in Conn : \A b : d # c /\ Follows(d, b) => Follows(d, b)'
    BY <1>1 DEF Follows
  <2>2. Follows(c, 0)'
    <3>1. 0 + Len(up'[c]) = k /\ k <= Parts
      BY <1>2, PostmanAssumption
    <3>2. \A i \in 1 .. Len(up'[c]) : up'[c][i] = <<c, 0 + i>>
      BY <1>2
    <3> QED
      BY <1>2, <3>1, <3>2 DEF Follows
  <2>3. \A d \in Conn : Follows(d, 0) => Follows(d, 0)'
    BY <2>1, <2>2
  <2>4. Unread'
    <3>1. \A i \in 1 .. Len(backlog) : backlog[i] \in Conn
      BY DEF PostmanInv, TypeOK
    <3> QED
      BY <2>3, <3>1 DEF PostmanInv, Unread
  <2>5. Sized'
    BY DEF PostmanInv, Sized
  <2>6. AllAssembled'
    <3> SUFFICES ASSUME NEW fd \in Fd \ spoilt PROVE Assembled(fd)'
      BY DEF AllAssembled
    <3>1. Assembled(fd)
      BY DEF PostmanInv, AllAssembled
    <3>2. CASE owner[fd] # c
      BY <1>1, <2>1, <3>1, <3>2 DEF Assembled
    <3>3. CASE owner[fd] = c
      <4>1. asm_buf[fd] = <<>>
        <5> SUFFICES ASSUME asm_buf[fd] # <<>> PROVE FALSE
          OBVIOUS
        <5>1. 1 \in 1 .. Len(asm_buf[fd])
          BY PartTypes DEF PostmanInv
        <5>2. asm_buf[fd][1] = <<c, 1>>
          BY <3>1, <3>3, <5>1 DEF Assembled
        <5>3. asm_buf[fd][1][1] = c
          BY <5>2
        <5>4. asm_buf[fd][1][1] # c
          BY <1>3, <5>1, Zenon
        <5> QED
          BY <5>3, <5>4
      <4> QED
        BY <2>2, <3>3, <4>1 DEF Assembled
    <3> QED
      BY <3>2, <3>3
  <2> QED
    BY <2>4, <2>5, <2>6
<1>9. RequestsDiffer'
  <2>1. \A d \in Conn : d # c /\ HeaderGone(d) => HeaderGone(d)'
    BY <1>1 DEF HeaderGone
  <2>2. \A i \in 1 .. Len(incoming) : incoming[i].body # <<>> => incoming[i].body[1][1] \in Conn
    <3> SUFFICES ASSUME NEW i \in 1 .. Len(incoming), incoming[i].body # <<>>
                 PROVE  incoming[i].body[1][1] \in Conn
      OBVIOUS
    <3>1. incoming[i].body \in Seq(Part) /\ 1 \in 1 .. Len(incoming[i].body)
      BY PartTypes DEF PostmanInv
    <3> QED
      BY <3>1, PartFields
  <2>3. RequestsDiffer
    BY DEF PostmanInv
  <2>4. ASSUME NEW i \in 1 .. Len(incoming)
        PROVE  LET body == incoming[i].body IN
                 /\ body # <<>>
                 /\ body[1][2] = 1 => HeaderGone(body[1][1])' /\ taken[body[1][1]] = 0
    <3>1. LET body == incoming[i].body IN
            /\ body # <<>>
            /\ body[1][2] = 1 => HeaderGone(body[1][1]) /\ taken[body[1][1]] = 0
      BY <2>3, Zenon DEF RequestsDiffer
    <3>2. incoming[i].body[1][1] # c
      BY <1>3
    <3>3. incoming[i].body[1][1] \in Conn
      BY <2>2, <3>1
    <3> QED
      BY <2>1, <3>1, <3>2, <3>3, Zenon
  <2>5. \A d \in Conn : taken[d] # 0 => taken[d] = 1 /\ HeaderGone(d)'
    <3>1. \A d \in Conn : taken[d] # 0 => taken[d] = 1 /\ HeaderGone(d)
      BY <2>3, Zenon DEF RequestsDiffer
    <3> QED
      BY <1>3, <2>1, <3>1, Zenon
  <2>6. \A i, j \in 1 .. Len(incoming) :
          incoming[i].body[1] = incoming[j].body[1] /\ incoming[i].body[1][2] = 1 => i = j
    BY <2>3, Zenon DEF RequestsDiffer
  <2> QED
    BY <2>4, <2>5, <2>6 DEF RequestsDiffer
<1>10. Passed'
  BY DEF PostmanInv, Passed
<1>11. WholeCalls'
  BY <1>1, StillWhole
<1> QED
  BY <1>4, <1>5, <1>6, <1>7, <1>8, <1>9, <1>10, <1>11 DEF PostmanInv

-----------------------------------------------------------------------------
(* The steps of the main thread that change who is connected, or take a     *)
(* request.                                                                 *)

(* A connection is accepted to a number whose buffer is empty, unless it is *)
(* spoilt.                                                                  *)
LEMMA StartSyncStep ==
  ASSUME PostmanInv, TypeOK', StartSync
  PROVE  PostmanInv'
<1>0. /\ incoming = <<>> /\ incoming' = incoming /\ conn' = conn /\ up' = up
      /\ asm_buf' = asm_buf /\ size' = size /\ spoilt' = spoilt
      /\ taken' = taken /\ pool' = pool
  BY DEF StartSync, NothingToReceive, clientVars, queueVars, asmVars, serverVars
<1>1. UpInOrder'
  BY <1>0 DEF PostmanInv, UpInOrder, Follows
<1>2. PartsDiffer'
  BY <1>0 DEF PostmanInv, PartsDiffer
<1>3. Unsent'
  BY <1>0 DEF PostmanInv, Unsent
<1>4. RequestsDiffer'
  BY <1>0 DEF PostmanInv, RequestsDiffer, HeaderGone
<1>5. Passed'
  BY <1>0 DEF Passed
<1>6. WholeCalls'
  BY <1>0, StillWhole
<1>7. Sized'
  BY <1>0 DEF PostmanInv, Sized
<1>8. \A d, b : Follows(d, b)' <=> Follows(d, b)
  BY <1>0 DEF Follows
<1>9. OwnersDiffer' /\ Unread' /\ AllAssembled'
  <2>1. CASE backlog = <<>>
    <3>1. owner' = owner /\ backlog' = backlog
      BY <2>1 DEF StartSync
    <3> QED
      <4>1. OwnersDiffer'
        BY <1>0, <3>1 DEF PostmanInv, OwnersDiffer
      <4>2. Unread' /\ AllAssembled'
        BY <1>0, <1>8, <3>1 DEF PostmanInv, Unread, AllAssembled, Assembled
      <4> QED
        BY <4>1, <4>2
  <2>2. CASE backlog # <<>>
    <3> DEFINE new == Least(Fd \ connected_fds)
               c == Head(backlog)
    <3>1. new \in Fd /\ owner[new] = NoConn
      BY <2>2, FreeNumber
    <3>2. /\ owner' = [owner EXCEPT ![new] = c]
          /\ backlog' = Tail(backlog)
      BY <2>2 DEF StartSync
    <3> HIDE DEF new
    <3>3. owner \in [Fd -> Conn \cup {NoConn}] /\ backlog \in Seq(Conn)
      BY DEF PostmanInv, TypeOK
    <3>4. c \in Conn /\ c = backlog[1] /\ 1 \in 1 .. Len(backlog)
      BY <2>2, <3>3
    <3>5. /\ Len(backlog) \in Nat /\ Len(backlog') = Len(backlog) - 1
          /\ \A i \in 1 .. Len(backlog') : backlog'[i] = backlog[i + 1] /\ i + 1 \in 1 .. Len(backlog)
      BY <2>2, <3>2, <3>3
    <3> HIDE DEF c
    <3>6. owner'[new] = c /\ \A fd \in Fd : fd # new => owner'[fd] = owner[fd]
      BY <3>1, <3>2, <3>3
    <3>7. \A fd \in Fd : owner[fd] # c
      BY <3>4 DEF PostmanInv, OwnersDiffer
    <3>8. \A i \in 1 .. Len(backlog') : backlog'[i] # c
      <4> SUFFICES ASSUME NEW i \in 1 .. Len(backlog'), backlog'[i] = c
                   PROVE  FALSE
        OBVIOUS
      <4>1. backlog[i + 1] = backlog[1] /\ i + 1 \in 1 .. Len(backlog)
        BY <3>4, <3>5
      <4>2. i + 1 = 1
        BY <3>4, <4>1 DEF PostmanInv, OwnersDiffer
      <4> QED
        BY <4>2
    <3>9. OwnersDiffer'
      <4>1. ASSUME NEW fd \in Fd, NEW gd \in Fd, owner'[fd] = owner'[gd], owner'[fd] # NoConn
            PROVE  fd = gd
        BY <3>6, <3>7, <4>1 DEF PostmanInv, OwnersDiffer
      <4>2. ASSUME NEW i \in 1 .. Len(backlog'), NEW j \in 1 .. Len(backlog'),
                   backlog'[i] = backlog'[j]
            PROVE  i = j
        <5>1. i + 1 = j + 1
          BY <3>5, <4>2 DEF PostmanInv, OwnersDiffer
        <5> QED
          BY <5>1
      <4>3. \A i \in 1 .. Len(backlog'), fd \in Fd : backlog'[i] # owner'[fd]
        BY <3>5, <3>6, <3>8 DEF PostmanInv, OwnersDiffer
      <4>4. ASSUME NEW d \in Conn, conn'[d] = "none"
            PROVE  (\A i \in 1 .. Len(backlog') : backlog'[i] # d) /\ \A fd \in Fd : owner'[fd] # d
        <5>1. (\A i \in 1 .. Len(backlog) : backlog[i] # d) /\ \A fd \in Fd : owner[fd] # d
          BY <1>0, <4>4 DEF PostmanInv, OwnersDiffer
        <5> QED
          BY <3>4, <3>5, <3>6, <5>1
      <4> QED
        BY <4>1, <4>2, <4>3, <4>4 DEF OwnersDiffer
    <3>10. Unread' /\ Follows(c, 0)
      BY <1>8, <3>4, <3>5 DEF PostmanInv, Unread
    <3>11. AllAssembled'
      <4> SUFFICES ASSUME NEW fd \in Fd \ spoilt PROVE Assembled(fd)'
        BY <1>0 DEF AllAssembled
      <4>1. Assembled(fd)
        BY DEF PostmanInv, AllAssembled
      <4>2. CASE fd # new
        BY <1>0, <1>8, <3>6, <4>1, <4>2 DEF Assembled
      <4>3. CASE fd = new
        <5>1. asm_buf[fd] = <<>>
          BY <3>1, <4>1, <4>3, PostmanAssumption DEF Assembled
        <5>2. Len(asm_buf'[fd]) = 0 /\ asm_buf'[fd] = <<>>
          BY <1>0, <5>1
        <5> QED
          BY <1>8, <3>6, <3>10, <4>3, <5>2 DEF Assembled
      <4> QED
        BY <4>2, <4>3
    <3> QED
      BY <3>9, <3>10, <3>11
  <2> QED
    BY <2>1, <2>2
<1> QED
  BY <1>1, <1>2, <1>3, <1>4, <1>5, <1>6, <1>7, <1>9 DEF PostmanInv

(* The number of a connection that ends is not one a request came on: sync  *)
(* has still to come to it.  Its buffer is empty, unless its client could   *)
(* not write all of its call.                                               *)
LEMMA SyncDisconnectStep ==
  ASSUME PostmanInv, TypeOK', SyncDisconnect
  PROVE  PostmanInv'
<1> DEFINE old == Least(todo)
<1>0. /\ incoming' = incoming /\ conn' = conn /\ up' = up /\ backlog' = backlog
      /\ asm_buf' = asm_buf /\ size' = size /\ taken' = taken /\ pool' = pool
      /\ spoilt' = IF conn[owner[old]] = "failed" THEN spoilt \cup {old} ELSE spoilt
      /\ todo' = {} /\ todo # {} /\ up[owner[old]] = <<>>
      /\ owner' = [owner EXCEPT ![old] = NoConn]
  BY DEF SyncDisconnect, LeaveLoop, clientVars, wireVars, queueVars, asmVars, serverVars
<1>1. old \in todo /\ old \in Fd /\ owner[old] \in Conn
  <2>1. todo \subseteq Fd
    BY DEF PostmanInv, TypeOK, connected_fds
  <2>2. old \in todo
    BY <1>0, <2>1, LeastIn
  <2> QED
    BY <2>2 DEF PostmanInv, TypeOK, connected_fds
<1> HIDE DEF old
<1>2. owner'[old] = NoConn /\ \A fd \in Fd : fd # old => owner'[fd] = owner[fd]
  BY <1>0, <1>1 DEF PostmanInv, TypeOK
<1>3. UpInOrder'
  BY <1>0 DEF PostmanInv, UpInOrder, Follows
<1>4. PartsDiffer'
  BY <1>0 DEF PostmanInv, PartsDiffer
<1>5. Unsent'
  BY <1>0 DEF PostmanInv, Unsent
<1>6. RequestsDiffer'
  BY <1>0 DEF PostmanInv, RequestsDiffer, HeaderGone
<1>7. Passed'
  BY <1>0, <1>1, <1>2, PartTypes DEF PostmanInv, Passed
<1>8. WholeCalls'
  BY <1>0, StillWhole
<1>9. OwnersDiffer'
  <2>1. \A i \in 1 .. Len(backlog) : backlog[i] # NoConn
    <3>1. backlog \in Seq(Conn)
      BY DEF PostmanInv, TypeOK
    <3>2. \A i \in 1 .. Len(backlog) : backlog[i] \in Conn
      BY <3>1, LenProperties
    <3> QED
      BY <3>2, PostmanAssumption
  <2>2. \A fd \in Fd : owner'[fd] = owner[fd] \/ owner'[fd] = NoConn
    BY <1>2
  <2>3. ASSUME NEW d \in Conn, conn'[d] = "none"
        PROVE  (\A i \in 1 .. Len(backlog') : backlog'[i] # d) /\ \A fd \in Fd : owner'[fd] # d
    BY <1>0, <2>2, <2>3, PostmanAssumption DEF PostmanInv, OwnersDiffer
  <2>4. \A fd, gd \in Fd : owner'[fd] = owner'[gd] /\ owner'[fd] # NoConn => fd = gd
    BY <2>2 DEF PostmanInv, OwnersDiffer
  <2>5. \A i \in 1 .. Len(backlog'), fd \in Fd : backlog'[i] # owner'[fd]
    BY <1>0, <2>1, <2>2 DEF PostmanInv, OwnersDiffer
  <2>6. \A i, j \in 1 .. Len(backlog') : backlog'[i] = backlog'[j] => i = j
    BY <1>0 DEF PostmanInv, OwnersDiffer
  <2> QED
    BY <2>3, <2>4, <2>5, <2>6 DEF OwnersDiffer
<1>10. Unread' /\ Sized'
  BY <1>0 DEF PostmanInv, Unread, Sized, Follows
<1>11. AllAssembled'
  <2> SUFFICES ASSUME NEW fd \in Fd, fd \notin spoilt' PROVE Assembled(fd)'
    BY DEF AllAssembled
  <2>1. Assembled(fd)
    BY <1>0 DEF PostmanInv, AllAssembled
  <2>2. CASE fd # old
    BY <1>0, <1>2, <2>1, <2>2 DEF Assembled, Follows
  <2>3. CASE fd = old
    <3>1. conn[owner[fd]] # "failed"
      BY <1>0, <2>3
    <3>2. asm_buf[fd] = <<>>
      BY <1>0, <2>1, <2>3, <3>1 DEF Assembled
    <3> QED
      BY <1>0, <1>2, <2>3, <3>2, PostmanAssumption DEF Assembled
  <2> QED
    BY <2>2, <2>3
<1> QED
  BY <1>3, <1>4, <1>5, <1>6, <1>7, <1>8, <1>9, <1>10, <1>11 DEF PostmanInv

(* A request is taken from incoming: if it begins with a header, that call  *)
(* is taken the first time, and its header is nowhere any more.             *)
LEMMA TakeStep ==
  ASSUME PostmanInv, TypeOK', incoming # <<>>, incoming' = Tail(incoming),
         pool' \subseteq pool \cup {Head(incoming)},
         CountCall(Head(incoming).body) \/ taken' = taken,
         conn' = conn, up' = up, backlog' = backlog, owner' = owner,
         asm_buf' = asm_buf, size' = size, spoilt' = spoilt, todo' = todo
  PROVE  PostmanInv'
<1> DEFINE r == Head(incoming)
           d == r.body[1][1]
<1>1. /\ r = incoming[1] /\ 1 \in 1 .. Len(incoming) /\ Len(incoming) \in Nat
      /\ Len(incoming') = Len(incoming) - 1
      /\ \A i \in 1 .. Len(incoming') :
           incoming'[i] = incoming[i + 1] /\ i + 1 \in 1 .. Len(incoming)
  <2>1. incoming \in Seq(Request)
    BY DEF PostmanInv, TypeOK
  <2> QED
    BY <2>1
<1>2. r \in Request /\ r.body \in Seq(Part) /\ r.body # <<>>
  BY <1>1, PartTypes DEF PostmanInv, RequestsDiffer
<1>3. d \in Conn /\ Head(r.body) = r.body[1] /\ r.body[1] = <<d, r.body[1][2]>>
  BY <1>2, PartFields
<1>4. r.body[1][2] = 1 => r.body[1] = <<d, 1>> /\ HeaderGone(d) /\ taken[d] = 0
  BY <1>1, <1>3 DEF PostmanInv, RequestsDiffer
<1>5. \/ taken' = taken
      \/ /\ r.body[1] = <<d, 1>> /\ HeaderGone(d)
         /\ taken'[d] = 1 /\ \A c \in Conn : c # d => taken'[c] = taken[c]
  <2> SUFFICES ASSUME taken' # taken
               PROVE  /\ r.body[1] = <<d, 1>> /\ HeaderGone(d)
                      /\ taken'[d] = 1 /\ \A c \in Conn : c # d => taken'[c] = taken[c]
    OBVIOUS
  <2>1. r.body[1][2] = 1 /\ taken' = [taken EXCEPT ![d] = taken[d] + 1]
    BY <1>3 DEF CountCall, IsHeader
  <2>2. taken \in [Conn -> Nat]
    BY DEF PostmanInv, TypeOK
  <2>3. taken[d] = 0 /\ HeaderGone(d) /\ r.body[1] = <<d, 1>>
    BY <1>4, <2>1, Zenon
  <2> HIDE DEF r, d
  <2>4. taken'[d] = 1 /\ \A c \in Conn : c # d => taken'[c] = taken[c]
    BY <1>3, <2>1, <2>2, <2>3
  <2> QED
    BY <2>3, <2>4, Zenon
<1>6. DOMAIN incoming' = 1 .. Len(incoming') /\ DOMAIN incoming = 1 .. Len(incoming)
  BY PartTypes DEF PostmanInv, TypeOK
<1> HIDE DEF r, d
<1>7. UpInOrder'
  BY DEF PostmanInv, UpInOrder, Follows
<1>8. PartsDiffer'
  BY DEF PostmanInv, PartsDiffer
<1>9. OwnersDiffer'
  BY DEF PostmanInv, OwnersDiffer
<1>10. Unsent'
  <2> SUFFICES ASSUME NEW c \in Conn, conn[c] \in {"none", "open"}
               PROVE  /\ taken'[c] = 0
                      /\ \A i \in 1 .. Len(incoming') : incoming'[i].body[1][1] # c
    BY DEF PostmanInv, Unsent
  <2>1. c # d /\ taken[c] = 0 /\ \A i \in 1 .. Len(incoming) : incoming[i].body[1][1] # c
    BY <1>1 DEF PostmanInv, Unsent, d
  <2> QED
    BY <1>1, <1>5, <2>1
<1>11. Unread' /\ Sized' /\ AllAssembled'
  BY DEF PostmanInv, Unread, Sized, AllAssembled, Assembled, Follows
<1>12. RequestsDiffer'
  <2>1. \A c : HeaderGone(c)' <=> HeaderGone(c)
    BY DEF HeaderGone
  <2>2. ASSUME NEW i \in 1 .. Len(incoming')
        PROVE  LET body == incoming'[i].body IN
               /\ body # <<>>
               /\ body[1][2] = 1 => HeaderGone(body[1][1]) /\ taken'[body[1][1]] = 0
    <3> DEFINE body == incoming[i + 1].body
    <3>1. incoming'[i] = incoming[i + 1] /\ i + 1 \in 1 .. Len(incoming)
      BY <1>1
    <3>2. /\ body # <<>>
          /\ body[1][2] = 1 => HeaderGone(body[1][1]) /\ taken[body[1][1]] = 0
      BY <3>1 DEF PostmanInv, RequestsDiffer
    <3>3. body \in Seq(Part)
      BY <3>1, PartTypes DEF PostmanInv
    <3>4. body[1][1] \in Conn /\ body[1] = <<body[1][1], body[1][2]>>
      <4>1. 1 \in 1 .. Len(body)
        BY <3>2, <3>3
      <4> QED
        BY <3>3, <4>1, PartFields
    <3>5. body[1][2] = 1 => body[1] # r.body[1]
      <4>1. incoming[i + 1].body[1] = incoming[1].body[1] /\ body[1][2] = 1 => i + 1 = 1
        BY <1>1, <3>1 DEF PostmanInv, RequestsDiffer
      <4> QED
        BY <1>1, <4>1
    <3>6. body[1][2] = 1 => taken'[body[1][1]] = 0
      BY <1>5, <3>2, <3>4, <3>5
    <3> QED
      BY <3>1, <3>2, <3>6
  <2>3. ASSUME NEW i \in 1 .. Len(incoming'), NEW j \in 1 .. Len(incoming'),
               incoming'[i].body[1] = incoming'[j].body[1], incoming'[i].body[1][2] = 1
        PROVE  i = j
    <3>1. i + 1 = j + 1
      BY <1>1, <2>3 DEF PostmanInv, RequestsDiffer
    <3> QED
      BY <3>1
  <2>4. ASSUME NEW c \in Conn, taken'[c] # 0
        PROVE  taken'[c] = 1 /\ HeaderGone(c)
    BY <1>5, <2>4 DEF PostmanInv, RequestsDiffer
  <2> QED
    BY <2>1, <2>2, <2>3, <2>4 DEF RequestsDiffer
<1>13. Passed'
  BY <1>1 DEF PostmanInv, Passed
<1>14. WholeCalls'
  <2>1. \A q \in pool' \cup {incoming'[i] : i \in DOMAIN incoming'} :
          q \in pool \cup {incoming[i] : i \in DOMAIN incoming}
    <3>1. r \in {incoming[i] : i \in DOMAIN incoming}
      BY <1>1, <1>6
    <3>2. \A i \in DOMAIN incoming' : incoming'[i] \in {incoming[j] : j \in DOMAIN incoming}
      BY <1>1, <1>6
    <3> QED
      BY <3>1, <3>2 DEF r
  <2>2. \A c : Message(c)' = Message(c)
    BY DEF Message
  <2> QED
    BY <2>1, <2>2 DEF PostmanInv, WholeCalls
<1> QED
  BY <1>7, <1>8, <1>9, <1>10, <1>11, <1>12, <1>13, <1>14 DEF PostmanInv

-----------------------------------------------------------------------------
(* A read. *)

(* Where the parts are after a read. *)
Moved(fd, c, m, n, message) ==
  /\ Len(up'[c]) = Len(up[c]) - n
  /\ \A i \in 1 .. Len(up'[c]) : n + i \in 1 .. Len(up[c]) /\ up'[c][i] = up[c][n + i]
  /\ \A d \in Conn : d # c => up'[d] = up[d]
  /\ \A gd \in Fd : gd # fd => asm_buf'[gd] = asm_buf[gd]
  /\ asm_buf'[fd] = <<>> \/ (asm_buf'[fd] = message /\ m = n)
  /\ \A i \in 1 .. Len(message) :
       \/ i \in 1 .. Len(asm_buf[fd]) /\ message[i] = asm_buf[fd][i]
       \/ i - Len(asm_buf[fd]) \in 1 .. m /\ message[i] = up[c][i - Len(asm_buf[fd])]

LEMMA ReadMoves ==
  ASSUME PostmanInv, NEW fd \in Fd, NEW c \in Conn, NEW n \in 1 .. Parts, NEW m \in 1 .. n,
         NEW message \in Seq(Part), ReadSplit(fd, c, m, n, message)
  PROVE  Moved(fd, c, m, n, message)
<1> DEFINE rest == SubSeq(up[c], n + 1, Len(up[c]))
           a == Len(asm_buf[fd])
<1>1. up \in [Conn -> Seq(Part)] /\ asm_buf \in [Fd -> Seq(Part)]
  BY DEF PostmanInv, TypeOK
<1>2. up[c] \in Seq(Part) /\ Len(up[c]) \in Nat /\ n <= Len(up[c]) /\ a \in Nat
  BY <1>1 DEF ReadSplit, Split
<1>3. /\ Len(rest) = Len(up[c]) - n
      /\ \A i \in 1 .. Len(rest) : n + i \in 1 .. Len(up[c]) /\ rest[i] = up[c][n + i]
  <2>1. n + 1 \in 1 .. Len(up[c]) + 1 /\ Len(up[c]) \in n .. Len(up[c])
    BY <1>2
  <2>2. /\ Len(rest) = IF n + 1 <= Len(up[c]) THEN Len(up[c]) - (n + 1) + 1 ELSE 0
        /\ \A i \in 1 .. Len(up[c]) - (n + 1) + 1 : rest[i] = up[c][n + 1 + i - 1]
    BY <1>2, <2>1, SubSeqProperties
  <2>3. Len(rest) = Len(up[c]) - n
    BY <1>2, <2>2
  <2>4. ASSUME NEW i \in 1 .. Len(rest)
        PROVE  n + i \in 1 .. Len(up[c]) /\ rest[i] = up[c][n + i]
    <3>1. i \in 1 .. Len(up[c]) - (n + 1) + 1 /\ n + i \in 1 .. Len(up[c])
      BY <1>2, <2>3
    <3>2. n + 1 + i - 1 = n + i
      BY <1>2, <3>1
    <3> QED
      BY <2>2, <3>1, <3>2
  <2> QED
    BY <2>3, <2>4
<1>4. up' = [up EXCEPT ![c] = rest]
  BY DEF ReadSplit, Split
<1>5. up'[c] = rest /\ \A d \in Conn : d # c => up'[d] = up[d]
  BY <1>1, <1>4
<1> HIDE DEF rest
<1>6. /\ \A gd \in Fd : gd # fd => asm_buf'[gd] = asm_buf[gd]
      /\ asm_buf'[fd] = <<>> \/ (asm_buf'[fd] = message /\ m = n)
  BY <1>1 DEF ReadSplit, HandsOver, Keeps, Forgets
<1>7. ASSUME NEW i \in 1 .. Len(message), i \notin 1 .. a
      PROVE  i - a \in 1 .. m /\ message[i] = up[c][i - a]
  <2>1. Len(message) = a + m
    BY DEF ReadSplit, Split
  <2>2. i - a \in 1 .. m /\ a + (i - a) = i
    BY <1>2, <1>7, <2>1
  <2> QED
    BY <2>2 DEF ReadSplit, Split
<1>8. \A i \in 1 .. a : message[i] = asm_buf[fd][i]
  BY DEF ReadSplit, Split
<1> QED
  BY <1>3, <1>5, <1>6, <1>7, <1>8 DEF Moved

(* After a read a part that was nowhere is nowhere. *)
LEMMA ReadKeepsGone ==
  ASSUME PostmanInv, NEW fd \in Fd, NEW c \in Conn, NEW n \in 1 .. Parts, NEW m \in 1 .. n,
         NEW message \in Seq(Part), ReadSplit(fd, c, m, n, message),
         NEW d \in Conn, HeaderGone(d)
  PROVE  HeaderGone(d)'
<1>0. Moved(fd, c, m, n, message)
  BY ReadMoves
<1>1. m <= Len(up[c])
  BY PartTypes DEF ReadSplit, Split, PostmanInv
<1>2. ASSUME NEW gd \in Fd, NEW i \in 1 .. Len(asm_buf'[gd])
      PROVE  asm_buf'[gd][i] # <<d, 1>>
  <2>1. CASE gd # fd
    <3>1. asm_buf'[gd] = asm_buf[gd]
      BY <1>0, <2>1 DEF Moved
    <3> QED
      BY <3>1 DEF HeaderGone
  <2>2. CASE gd = fd /\ asm_buf'[fd] = <<>>
    BY <2>2
  <2>3. CASE gd = fd /\ asm_buf'[fd] = message
    <3>1. CASE i \in 1 .. Len(asm_buf[fd]) /\ message[i] = asm_buf[fd][i]
      BY <2>3, <3>1 DEF HeaderGone
    <3>2. CASE i - Len(asm_buf[fd]) \in 1 .. m
               /\ message[i] = up[c][i - Len(asm_buf[fd])]
      <4> DEFINE j == i - Len(asm_buf[fd])
      <4>1. j \in 1 .. Len(up[c]) /\ message[i] = up[c][j]
        BY <1>1, <3>2, PartTypes DEF PostmanInv
      <4> HIDE DEF j
      <4>2. up[c][j] = <<d, 1>> => c = d
        <5>1. PICK b \in 0 .. Parts : Follows(c, b)
          BY DEF PostmanInv, UpInOrder
        <5>2. up[c][j] = <<c, b + j>>
          BY <4>1, <5>1 DEF Follows
        <5> QED
          BY <5>2
      <4> QED
        BY <2>3, <4>1, <4>2 DEF HeaderGone
    <3> QED
      BY <2>3, <3>1, <3>2, <1>0 DEF Moved
  <2> QED
    BY <2>1, <2>2, <2>3, <1>0 DEF Moved
<1>3. ASSUME NEW i \in 1 .. Len(up'[d])
      PROVE  up'[d][i] # <<d, 1>>
  <2>1. CASE d # c
    BY <2>1, <1>0 DEF Moved, HeaderGone
  <2>2. CASE d = c
    BY <2>2, <1>0 DEF Moved, HeaderGone
  <2> QED
    BY <2>1, <2>2
<1> QED
  BY <1>2, <1>3 DEF HeaderGone

(* The parts under way still follow, and no part is in two places. *)
LEMMA ReadInOrder ==
  ASSUME PostmanInv, NEW fd \in Fd, NEW c \in Conn, NEW n \in 1 .. Parts, NEW m \in 1 .. n,
         NEW message \in Seq(Part), ReadSplit(fd, c, m, n, message), conn' = conn
  PROVE  UpInOrder' /\ PartsDiffer'
<1>0. Moved(fd, c, m, n, message)
  BY ReadMoves
<1>1. up[c] \in Seq(Part) /\ Len(up[c]) \in Nat /\ n <= Len(up[c])
  BY PartTypes DEF PostmanInv, ReadSplit, Split
<1>2. PICK b \in 0 .. Parts : Follows(c, b)
  BY DEF PostmanInv, UpInOrder
<1>3. \A i \in 1 .. Len(up[c]) : up[c][i] = <<c, b + i>>
  BY <1>2 DEF Follows
<1>4. Follows(c, b + n)'
  <2>1. b + n + Len(up'[c]) = b + Len(up[c])
    <3>1. Len(up'[c]) = Len(up[c]) - n
      BY <1>0 DEF Moved
    <3>2. \A x, y, z \in Int : x + y + (z - y) = x + z
      OBVIOUS
    <3>3. b \in Int /\ n \in Int /\ Len(up[c]) \in Int
      BY <1>1, PostmanAssumption
    <3>4. b + n + (Len(up[c]) - n) = b + Len(up[c])
      BY <3>2, <3>3, Zenon
    <3> QED
      BY <3>1, <3>4, Zenon
  <2>2. ASSUME NEW i \in 1 .. Len(up'[c]) PROVE up'[c][i] = <<c, b + n + i>>
    <3>1. n + i \in 1 .. Len(up[c]) /\ up'[c][i] = up[c][n + i]
      BY <1>0 DEF Moved
    <3>2. up[c][n + i] = <<c, b + (n + i)>>
      BY <1>3, <3>1, Zenon
    <3>3. b + (n + i) = b + n + i
      BY <3>1, PostmanAssumption
    <3> QED
      BY <3>1, <3>2, <3>3, Zenon
  <2>3. up[c] # <<>>
    BY <1>1
  <2> QED
    BY <1>2, <2>1, <2>2, <2>3 DEF Follows
<1>5. UpInOrder'
  <2>1. b + n \in 0 .. Parts
    BY <1>1, <1>2, PostmanAssumption DEF Follows
  <2>2. ASSUME NEW d \in Conn, d # c PROVE \E e \in 0 .. Parts : Follows(d, e)'
    <3>1. up'[d] = up[d]
      BY <2>2, <1>0 DEF Moved
    <3>2. \A e \in 0 .. Parts : Follows(d, e) => Follows(d, e)'
      BY <3>1 DEF Follows
    <3> QED
      BY <3>2 DEF PostmanInv, UpInOrder
  <2> QED
    BY <1>4, <2>1, <2>2 DEF UpInOrder
<1>6. m \in 0 .. Len(up[c]) /\ \A i \in 1 .. m : i \in 1 .. Len(up[c])
  BY <1>1
<1>7. \A i, j \in 1 .. Len(message) : message[i] = message[j] => i = j
  <2>1. /\ Len(message) = Len(asm_buf[fd]) + m
        /\ \A i \in 1 .. Len(asm_buf[fd]) : message[i] = asm_buf[fd][i]
        /\ \A i \in 1 .. m : message[Len(asm_buf[fd]) + i] = up[c][i]
    BY DEF ReadSplit, Split
  <2> QED
    BY <1>6, <2>1, ReadDiffer
<1>8. ASSUME NEW i \in 1 .. Len(message), NEW gd \in Fd, gd # fd,
             NEW j \in 1 .. Len(asm_buf[gd])
      PROVE  message[i] # asm_buf[gd][j]
  <2>1. CASE i \in 1 .. Len(asm_buf[fd]) /\ message[i] = asm_buf[fd][i]
    BY <1>8, <2>1 DEF PostmanInv, PartsDiffer
  <2>2. CASE i - Len(asm_buf[fd]) \in 1 .. m /\ message[i] = up[c][i - Len(asm_buf[fd])]
    BY <1>6, <2>2 DEF PostmanInv, PartsDiffer
  <2> QED
    BY <2>1, <2>2, <1>0 DEF Moved
<1>9. ASSUME NEW i \in 1 .. Len(message), NEW d \in Conn, d # c, NEW j \in 1 .. Len(up[d])
      PROVE  message[i] # up[d][j]
  <2>1. CASE i \in 1 .. Len(asm_buf[fd]) /\ message[i] = asm_buf[fd][i]
    BY <2>1 DEF PostmanInv, PartsDiffer
  <2>2. CASE i - Len(asm_buf[fd]) \in 1 .. m /\ message[i] = up[c][i - Len(asm_buf[fd])]
    <3>1. message[i][1] = c
      <4>1. message[i] = <<c, b + (i - Len(asm_buf[fd]))>>
        BY <1>3, <1>6, <2>2, Zenon
      <4> QED
        BY <4>1
    <3>2. PICK e \in 0 .. Parts : Follows(d, e)
      BY DEF PostmanInv, UpInOrder
    <3>3. up[d][j] = <<d, e + j>>
      BY <3>2 DEF Follows
    <3> QED
      BY <1>9, <3>1, <3>3
  <2> QED
    BY <2>1, <2>2, <1>0 DEF Moved
<1>10. ASSUME m = n, NEW i \in 1 .. Len(message), NEW j \in 1 .. Len(up'[c])
       PROVE  message[i] # up'[c][j]
  <2>1. n + j \in 1 .. Len(up[c]) /\ up'[c][j] = up[c][n + j]
    BY <1>0 DEF Moved
  <2>2. CASE i \in 1 .. Len(asm_buf[fd]) /\ message[i] = asm_buf[fd][i]
    BY <2>1, <2>2 DEF PostmanInv, PartsDiffer
  <2>3. CASE i - Len(asm_buf[fd]) \in 1 .. m /\ message[i] = up[c][i - Len(asm_buf[fd])]
    <3> DEFINE k == i - Len(asm_buf[fd])
    <3>1. k \in 1 .. n /\ message[i] = up[c][k] /\ k \in 1 .. Len(up[c])
      BY <1>6, <1>10, <2>3
    <3> HIDE DEF k
    <3>2. up[c][k] = <<c, b + k>> /\ up[c][n + j] = <<c, b + (n + j)>>
      BY <1>3, <2>1, <3>1, Zenon
    <3>3. b + k # b + (n + j)
      BY <2>1, <3>1, PostmanAssumption
    <3> QED
      BY <2>1, <3>1, <3>2, <3>3
  <2> QED
    BY <2>2, <2>3, <1>0 DEF Moved
<1>11. ASSUME NEW gd \in Fd, NEW hd \in Fd,
              NEW i \in 1 .. Len(asm_buf'[gd]), NEW j \in 1 .. Len(asm_buf'[hd]),
              asm_buf'[gd][i] = asm_buf'[hd][j]
       PROVE  gd = hd /\ i = j
  <2>1. asm_buf'[fd] = message \/ (gd # fd /\ hd # fd)
    BY <1>0 DEF Moved
  <2>2. CASE gd # fd /\ hd # fd
    <3>1. asm_buf'[gd] = asm_buf[gd] /\ asm_buf'[hd] = asm_buf[hd]
      BY <1>0, <2>2 DEF Moved
    <3> QED
      BY <1>11, <3>1 DEF PostmanInv, PartsDiffer
  <2>3. CASE gd = fd /\ hd = fd /\ asm_buf'[fd] = message
    BY <1>7, <1>11, <2>3
  <2>4. CASE gd = fd /\ hd # fd /\ asm_buf'[fd] = message
    <3>1. asm_buf'[hd] = asm_buf[hd]
      BY <1>0, <2>4 DEF Moved
    <3> QED
      BY <1>8, <1>11, <2>4, <3>1
  <2>5. CASE gd # fd /\ hd = fd /\ asm_buf'[fd] = message
    <3>1. asm_buf'[gd] = asm_buf[gd]
      BY <1>0, <2>5 DEF Moved
    <3> QED
      BY <1>8, <1>11, <2>5, <3>1
  <2> QED
    BY <2>1, <2>2, <2>3, <2>4, <2>5
<1>12. ASSUME NEW gd \in Fd, NEW d \in Conn,
              NEW i \in 1 .. Len(asm_buf'[gd]), NEW j \in 1 .. Len(up'[d])
       PROVE  asm_buf'[gd][i] # up'[d][j]
  <2>1. CASE gd # fd
    <3>1. asm_buf'[gd] = asm_buf[gd]
      BY <2>1, <1>0 DEF Moved
    <3>2. CASE d = c
      <4>1. n + j \in 1 .. Len(up[c]) /\ up'[c][j] = up[c][n + j]
        BY <3>2, <1>0 DEF Moved
      <4>2. asm_buf[gd][i] # up[c][n + j]
        <5>1. i \in 1 .. Len(asm_buf[gd])
          BY <3>1
        <5>2. \A p \in 1 .. Len(asm_buf[gd]), q \in 1 .. Len(up[c]) : asm_buf[gd][p] # up[c][q]
          BY DEF PostmanInv, PartsDiffer
        <5> QED
          BY <4>1, <5>1, <5>2
      <4> QED
        BY <3>1, <3>2, <4>1, <4>2
    <3>3. CASE d # c
      BY <3>1, <3>3, <1>0 DEF Moved, PostmanInv, PartsDiffer
    <3> QED
      BY <3>2, <3>3
  <2>2. CASE gd = fd
    <3>1. asm_buf'[fd] = message /\ m = n
      BY <2>2, <1>0 DEF Moved
    <3>2. CASE d = c
      BY <1>10, <2>2, <3>1, <3>2
    <3>3. CASE d # c
      BY <1>9, <2>2, <3>1, <3>3, <1>0 DEF Moved
    <3> QED
      BY <3>2, <3>3
  <2> QED
    BY <2>1, <2>2
<1> QED
  BY <1>5, <1>11, <1>12 DEF PartsDiffer

(* At a number that is not spoilt the message is the beginning of the one   *)
(* of the client behind the descriptor, and what is under way follows it.   *)
LEMMA ReadAssembles ==
  ASSUME PostmanInv, NEW fd \in Fd, NEW c \in Conn, NEW n \in 1 .. Parts, NEW m \in 1 .. n,
         NEW message \in Seq(Part), Split(fd, c, m, n, message), fd \notin spoilt'
  PROVE  /\ Follows(c, Len(asm_buf[fd]))
         /\ \A i \in 1 .. Len(message) : message[i] = <<c, i>>
<1> DEFINE a == Len(asm_buf[fd])
<1>1. /\ up[c] \in Seq(Part) /\ Len(up[c]) \in Nat /\ n <= Len(up[c])
      /\ asm_buf[fd] \in Seq(Part) /\ a \in Nat /\ Len(message) = a + m
      /\ owner[fd] = c
  BY PartTypes DEF PostmanInv, Split
<1>2. Assembled(fd)
  BY DEF PostmanInv, AllAssembled, Split
<1>3. Follows(c, a)
  BY <1>1, <1>2 DEF Assembled
<1>4. \A i \in 1 .. a : message[i] = <<c, i>>
  <2>1. \A i \in 1 .. a : asm_buf[fd][i] = <<c, i>>
    <3>1. CASE asm_buf[fd] = <<>>
      BY <3>1
    <3>2. CASE asm_buf[fd] # <<>>
      BY <1>1, <1>2, <3>2 DEF Assembled
    <3> QED
      BY <3>1, <3>2
  <2> QED
    BY <2>1 DEF Split
<1>5. ASSUME NEW i \in 1 .. Len(message), i \notin 1 .. a
      PROVE  message[i] = <<c, i>>
  <2>1. i - a \in 1 .. m /\ i - a \in 1 .. Len(up[c]) /\ a + (i - a) = i
    BY <1>1, <1>5
  <2>2. message[i] = up[c][i - a]
    <3>1. message[a + (i - a)] = up[c][i - a]
      BY <2>1, Zenon DEF Split
    <3> QED
      BY <2>1, <3>1, Zenon
  <2>3. up[c][i - a] = <<c, a + (i - a)>>
    BY <1>3, <2>1, Zenon DEF Follows
  <2> QED
    BY <2>1, <2>2, <2>3, Zenon
<1> QED
  BY <1>3, <1>4, <1>5

(* After a read the buffers are again the beginnings of messages. *)
LEMMA ReadKeeps ==
  ASSUME PostmanInv, NEW fd \in Fd, NEW c \in Conn, NEW n \in 1 .. Parts, NEW m \in 1 .. n,
         NEW message \in Seq(Part), ReadSplit(fd, c, m, n, message),
         conn' = conn, owner' = owner, backlog' = backlog
  PROVE  Unread' /\ Sized' /\ AllAssembled'
<1>0. Split(fd, c, m, n, message)
  BY DEF ReadSplit
<1>1. Moved(fd, c, m, n, message)
  BY ReadMoves
<1>2. owner[fd] = c /\ Len(up[c]) \in Nat /\ n <= Len(up[c]) /\ Len(asm_buf[fd]) \in Nat
      /\ Len(message) = Len(asm_buf[fd]) + m
  BY <1>0, PartTypes DEF PostmanInv, Split
<1>3. \A d, b : d \in Conn /\ d # c /\ Follows(d, b) => Follows(d, b)'
  BY <1>1 DEF Moved, Follows
<1>4. Unread'
  <2>1. \A i \in 1 .. Len(backlog) : backlog[i] \in Conn /\ backlog[i] # c
    <3>1. backlog \in Seq(Conn)
      BY DEF PostmanInv, TypeOK
    <3>2. \A i \in 1 .. Len(backlog) : backlog[i] # owner[fd]
      BY DEF PostmanInv, OwnersDiffer
    <3> QED
      BY <1>2, <3>1, <3>2
  <2> QED
    BY <1>3, <2>1 DEF PostmanInv, Unread
<1>5. \A gd \in Fd : gd # fd => size'[gd] = size[gd] /\ asm_buf'[gd] = asm_buf[gd]
  BY <1>1 DEF Moved, PostmanInv, TypeOK, ReadSplit, HandsOver, Keeps, Forgets
<1>6. \/ asm_buf'[fd] = <<>> /\ HandsOver(fd, c, message)
      \/ /\ m = n /\ asm_buf'[fd] = message /\ Len(message) < size'[fd]
         /\ fd \notin spoilt' => size'[fd] = Parts
      \/ asm_buf'[fd] = <<>> /\ fd \in spoilt'
  <2>1. asm_buf \in [Fd -> Seq(Part)] /\ size \in [Fd -> Nat]
    BY DEF PostmanInv, TypeOK
  <2>2. CASE HandsOver(fd, c, message)
    BY <2>1, <2>2 DEF HandsOver
  <2>3. CASE Keeps(fd, m, n, message)
    BY <2>1, <2>3 DEF Keeps
  <2>4. CASE Forgets(fd)
    BY <2>1, <2>4 DEF Forgets
  <2> QED
    BY <2>2, <2>3, <2>4 DEF ReadSplit
<1>7. Sized'
  <2> SUFFICES ASSUME NEW gd \in Fd, asm_buf'[gd] # <<>> PROVE Len(asm_buf'[gd]) < size'[gd]
    BY DEF Sized
  <2>1. CASE gd # fd
    BY <1>5, <2>1 DEF PostmanInv, Sized
  <2>2. CASE gd = fd
    BY <1>6, <2>2
  <2> QED
    BY <2>1, <2>2
<1>8. ASSUME NEW gd \in Fd, gd # fd, gd \notin spoilt' PROVE Assembled(gd)'
  <2>1. Assembled(gd)
    BY <1>0, <1>8 DEF PostmanInv, AllAssembled, Split
  <2>2. owner[gd] # c
    BY <1>2, <1>8, PostmanAssumption DEF PostmanInv, OwnersDiffer
  <2>3. owner[gd] \in Conn => up'[owner[gd]] = up[owner[gd]]
    BY <1>1, <2>2 DEF Moved
  <2> QED
    BY <1>3, <1>5, <1>8, <2>1, <2>2, <2>3 DEF Assembled
<1>9. ASSUME fd \notin spoilt' PROVE Assembled(fd)'
  <2>1. Follows(c, Len(asm_buf[fd])) /\ \A i \in 1 .. Len(message) : message[i] = <<c, i>>
    BY <1>0, <1>9, ReadAssembles
  <2>2. /\ Len(asm_buf[fd]) + Len(up[c]) <= Parts
        /\ conn[c] = "failed" \/ Len(asm_buf[fd]) + Len(up[c]) = Parts
    <3>1. up[c] # <<>>
      BY <1>2
    <3> QED
      BY <2>1, <3>1, Zenon DEF Follows
  <2>3. Len(up'[c]) = Len(up[c]) - n
    BY <1>1 DEF Moved
  <2>4. CASE HandsOver(fd, c, message) /\ asm_buf'[fd] = <<>>
    <3>1. Len(message) = Parts
      BY <1>9, <2>4 DEF HandsOver
    <3>2. Len(up'[c]) = 0
      <4>1. \A x, y, a \in Int : a + y <= Parts /\ a + m = Parts /\ m <= n /\ n <= y /\ x = y - n => x = 0
        BY PostmanAssumption
      <4>2. /\ Len(asm_buf[fd]) \in Int /\ Len(up[c]) \in Int
            /\ m <= n /\ n <= Len(up[c]) /\ Len(asm_buf[fd]) + m = Parts
        BY <1>2, <3>1
      <4>3. Len(up'[c]) \in Int
        BY <2>3, <4>2
      <4> QED
        BY <2>2, <2>3, <4>1, <4>2, <4>3, Zenon
    <3>3. up'[c] = <<>> /\ Len(asm_buf'[fd]) = 0
      <4>1. up'[c] \in Seq(Part)
        <5>1. up[c] \in Seq(Part) /\ n + 1 \in 1 .. Len(up[c]) + 1 /\ Len(up[c]) \in n .. Len(up[c])
          BY <1>2, PartTypes DEF PostmanInv
        <5>2. SubSeq(up[c], n + 1, Len(up[c])) \in Seq(Part)
          BY <5>1, SubSeqProperties
        <5> QED
          BY <1>0, <5>2 DEF Split, PostmanInv, TypeOK
      <4> QED
        BY <2>4, <3>2, <4>1
    <3>4. Follows(c, 0)'
      BY <3>3, PostmanAssumption DEF Follows
    <3> QED
      BY <1>2, <2>4, <3>3, <3>4 DEF Assembled
  <2>5. CASE /\ m = n /\ asm_buf'[fd] = message /\ Len(message) < size'[fd] /\ size'[fd] = Parts
    <3>1. Len(message) + Len(up'[c]) = Len(asm_buf[fd]) + Len(up[c])
      <4>1. \A a, y \in Int : (a + n) + (y - n) = a + y
        OBVIOUS
      <4>2. Len(message) = Len(asm_buf[fd]) + n
        BY <1>2, <2>5, Zenon
      <4>3. Len(asm_buf[fd]) \in Int /\ Len(up[c]) \in Int
        BY <1>2
      <4> QED
        BY <2>3, <4>1, <4>2, <4>3, Zenon
    <3>2. ASSUME NEW i \in 1 .. Len(up'[c]) PROVE up'[c][i] = <<c, Len(message) + i>>
      <4>1. n + i \in 1 .. Len(up[c]) /\ up'[c][i] = up[c][n + i]
        BY <1>1 DEF Moved
      <4>2. up[c][n + i] = <<c, Len(asm_buf[fd]) + (n + i)>>
        BY <2>1, <4>1, Zenon DEF Follows
      <4>3. Len(asm_buf[fd]) + (n + i) = Len(message) + i
        <5>1. \A a, k \in Int : a + (n + k) = (a + n) + k
          OBVIOUS
        <5>2. Len(message) = Len(asm_buf[fd]) + n
          BY <1>2, <2>5, Zenon
        <5>3. Len(asm_buf[fd]) \in Int /\ i \in Int
          BY <1>2
        <5> QED
          BY <5>1, <5>2, <5>3, Zenon
      <4> QED
        BY <4>1, <4>2, <4>3, Zenon
    <3>3. conn[c] = "failed" \/ up'[c] # <<>>
      <4> SUFFICES ASSUME conn[c] # "failed", up'[c] = <<>> PROVE FALSE
        OBVIOUS
      <4>1. Len(message) + Len(up'[c]) = Parts /\ Len(up'[c]) = 0
        BY <2>2, <3>1
      <4>2. Len(message) = Parts
        BY <1>2, <4>1
      <4> QED
        BY <1>2, <2>5, <4>2, PostmanAssumption
    <3>4. Follows(c, Len(message))'
      <4>1. Len(message)' = Len(message)
        OBVIOUS
      <4> QED
        BY <2>2, <3>1, <3>2 DEF Follows
    <3>5. Follows(c, Len(asm_buf[fd]))'
      BY <2>5, <3>4 DEF Follows
    <3> QED
      BY <1>2, <2>1, <2>5, <3>3, <3>5 DEF Assembled
  <2> QED
    BY <1>6, <1>9, <2>4, <2>5
<1>10. AllAssembled'
  BY <1>8, <1>9 DEF AllAssembled
<1> QED
  BY <1>4, <1>7, <1>10

(* A read brings nothing of a client that has not called.                   *)
LEMMA ReadUnsent ==
  ASSUME PostmanInv, NEW fd \in Fd, NEW c \in Conn, NEW n \in 1 .. Parts, NEW m \in 1 .. n,
         NEW message \in Seq(Part), ReadSplit(fd, c, m, n, message),
         conn' = conn, taken' = taken
  PROVE  Unsent'
<1>1. Moved(fd, c, m, n, message)
  BY ReadMoves
<1> SUFFICES ASSUME NEW d \in Conn, conn[d] \in {"none", "open"}
             PROVE  /\ up'[d] = <<>> /\ taken[d] = 0
                    /\ \A gd \in Fd : \A i \in 1 .. Len(asm_buf'[gd]) : asm_buf'[gd][i][1] # d
                    /\ \A i \in 1 .. Len(incoming') : incoming'[i].body[1][1] # d
  BY DEF Unsent
<1>2. /\ up[d] = <<>> /\ taken[d] = 0
      /\ \A gd \in Fd : \A i \in 1 .. Len(asm_buf[gd]) : asm_buf[gd][i][1] # d
      /\ \A i \in 1 .. Len(incoming) : incoming[i].body[1][1] # d
  BY DEF PostmanInv, Unsent
<1>3. Len(up[c]) \in Nat /\ n <= Len(up[c]) /\ \A i \in 1 .. m : i \in 1 .. Len(up[c])
  BY PartTypes DEF PostmanInv, ReadSplit, Split
<1>4. d # c
  BY <1>2, <1>3
<1>5. up'[d] = <<>>
  BY <1>1, <1>2, <1>4 DEF Moved
<1>6. \A i \in 1 .. Len(message) : message[i][1] # d
  <2> SUFFICES ASSUME NEW i \in 1 .. Len(message) PROVE message[i][1] # d
    OBVIOUS
  <2>1. CASE i \in 1 .. Len(asm_buf[fd]) /\ message[i] = asm_buf[fd][i]
    BY <1>2, <2>1
  <2>2. CASE i - Len(asm_buf[fd]) \in 1 .. m /\ message[i] = up[c][i - Len(asm_buf[fd])]
    <3>1. PICK b \in 0 .. Parts : Follows(c, b)
      BY DEF PostmanInv, UpInOrder
    <3>2. message[i] = <<c, b + (i - Len(asm_buf[fd]))>>
      BY <1>3, <2>2, <3>1, Zenon DEF Follows
    <3> QED
      BY <1>4, <3>2
  <2> QED
    BY <1>1, <2>1, <2>2 DEF Moved
<1>7. ASSUME NEW gd \in Fd, NEW i \in 1 .. Len(asm_buf'[gd])
      PROVE  asm_buf'[gd][i][1] # d
  <2>1. CASE gd # fd
    <3>1. asm_buf'[gd] = asm_buf[gd]
      BY <1>1, <2>1 DEF Moved
    <3> QED
      BY <1>2, <3>1
  <2>2. CASE gd = fd
    <3>1. asm_buf'[fd] = message
      BY <1>1, <2>2 DEF Moved
    <3> QED
      BY <1>6, <2>2, <3>1
  <2> QED
    BY <2>1, <2>2
<1>8. \A i \in 1 .. Len(incoming') : incoming'[i].body[1][1] # d
  <2>1. CASE incoming' = incoming
    BY <1>2, <2>1
  <2>2. CASE incoming' = Append(incoming, [fd |-> fd, from |-> c, body |-> message])
    <3> DEFINE request == [fd |-> fd, from |-> c, body |-> message]
    <3>1. request.body[1][1] # d
      <4>1. 1 \in 1 .. Len(message)
        BY <1>3, PartTypes DEF ReadSplit, Split, PostmanInv
      <4> QED
        BY <1>6, <4>1
    <3>2. request \in Request /\ incoming \in Seq(Request)
      BY DEF Request, PostmanInv, TypeOK
    <3> HIDE DEF request
    <3>3. /\ Len(incoming) \in Nat /\ Len(incoming') = Len(incoming) + 1
          /\ incoming'[Len(incoming) + 1] = request
          /\ \A i \in 1 .. Len(incoming) : incoming'[i] = incoming[i]
      BY <2>2, <3>2, AppendProperties DEF request
    <3>4. \A i \in 1 .. Len(incoming') : i \in 1 .. Len(incoming) \/ i = Len(incoming) + 1
      BY <3>3
    <3> QED
      BY <1>2, <3>1, <3>3, <3>4
  <2> QED
    BY <2>1, <2>2 DEF ReadSplit, HandsOver, Keeps, Forgets
<1> QED
  BY <1>2, <1>5, <1>7, <1>8

(* A header that is handed over was in the buffer or under way, and is      *)
(* nowhere any more.                                                        *)
LEMMA ReadHeader ==
  ASSUME PostmanInv, NEW fd \in Fd, NEW c \in Conn, NEW n \in 1 .. Parts, NEW m \in 1 .. n,
         NEW message \in Seq(Part), ReadSplit(fd, c, m, n, message),
         NEW h \in Conn, 1 \in 1 .. Len(message), message[1] = <<h, 1>>,
         asm_buf' = [asm_buf EXCEPT ![fd] = <<>>]
  PROVE  ~ HeaderGone(h) /\ HeaderGone(h)'
<1>1. Moved(fd, c, m, n, message)
  BY ReadMoves
<1>2. /\ ~ HeaderGone(h)
      /\ \A j \in 1 .. Len(up'[h]) : up'[h][j] # <<h, 1>>
      /\ \A gd \in Fd : gd # fd =>
           \A j \in 1 .. Len(asm_buf[gd]) : asm_buf[gd][j] # <<h, 1>>
  <2>1. Len(up[c]) \in Nat /\ n <= Len(up[c]) /\ \A i \in 1 .. m : i \in 1 .. Len(up[c])
    BY PartTypes DEF PostmanInv, ReadSplit, Split
  <2>2. CASE 1 \in 1 .. Len(asm_buf[fd]) /\ message[1] = asm_buf[fd][1]
    <3>1. ~ HeaderGone(h)
      BY <2>2 DEF HeaderGone
    <3>0. 1 \in 1 .. Len(asm_buf[fd]) /\ asm_buf[fd][1] = <<h, 1>>
      BY <2>2, Zenon
    <3>2. \A d \in Conn : \A j \in 1 .. Len(up[d]) : up[d][j] # <<h, 1>>
      <4> SUFFICES ASSUME NEW d \in Conn, NEW j \in 1 .. Len(up[d]) PROVE up[d][j] # <<h, 1>>
        OBVIOUS
      <4>1. \A p \in 1 .. Len(asm_buf[fd]), q \in 1 .. Len(up[d]) : asm_buf[fd][p] # up[d][q]
        BY DEF PostmanInv, PartsDiffer
      <4>2. asm_buf[fd][1] # up[d][j]
        BY <3>0, <4>1
      <4> QED
        BY <3>0, <4>2
    <3>3. \A j \in 1 .. Len(up'[h]) : up'[h][j] # <<h, 1>>
      <4>1. CASE h = c
        <5>1. \A j \in 1 .. Len(up'[c]) : n + j \in 1 .. Len(up[c]) /\ up'[c][j] = up[c][n + j]
          BY <1>1, Zenon DEF Moved
        <5> QED
          BY <3>2, <4>1, <5>1
      <4>2. CASE h # c
        <5>1. up'[h] = up[h]
          BY <1>1, <4>2 DEF Moved
        <5> QED
          BY <3>2, <5>1
      <4> QED
        BY <4>1, <4>2
    <3>4. \A gd \in Fd : gd # fd =>
            \A j \in 1 .. Len(asm_buf[gd]) : asm_buf[gd][j] # <<h, 1>>
      BY <2>2 DEF PostmanInv, PartsDiffer
    <3> QED
      BY <3>1, <3>3, <3>4
  <2>3. CASE 1 - Len(asm_buf[fd]) \in 1 .. m /\ message[1] = up[c][1 - Len(asm_buf[fd])]
    <3>1. Len(asm_buf[fd]) = 0 /\ message[1] = up[c][1] /\ 1 \in 1 .. Len(up[c])
      <4>1. Len(asm_buf[fd]) \in Nat
        BY PartTypes DEF PostmanInv
      <4>2. Len(asm_buf[fd]) = 0
        BY <2>3, <4>1
      <4> QED
        BY <2>1, <2>3, <4>2
    <3>2. PICK b \in 0 .. Parts : Follows(c, b)
      BY DEF PostmanInv, UpInOrder
    <3>3. \A i \in 1 .. Len(up[c]) : up[c][i] = <<c, b + i>>
      BY <3>2 DEF Follows
    <3>4. h = c /\ b = 0
      <4>1. <<h, 1>> = <<c, b + 1>>
        BY <3>1, <3>3, Zenon
      <4>2. h = c /\ b + 1 = 1
        BY <4>1, Zenon
      <4> QED
        BY <4>2, PostmanAssumption
    <3>5. ~ HeaderGone(h)
      BY <3>1, <3>4 DEF HeaderGone
    <3>6. ASSUME NEW j \in 1 .. Len(up'[h]) PROVE up'[h][j] # <<h, 1>>
      <4>1. up'[c][j] = up[c][n + j] /\ n + j \in 1 .. Len(up[c])
        BY <1>1, <3>4 DEF Moved
      <4>2. up[c][n + j] = <<c, b + (n + j)>>
        BY <3>3, <4>1, Zenon
      <4>3. b + (n + j) # 1
        BY <3>4
      <4> QED
        BY <3>4, <4>1, <4>2, <4>3
    <3>7. \A gd \in Fd : \A j \in 1 .. Len(asm_buf[gd]) : asm_buf[gd][j] # <<h, 1>>
      <4>1. \A gd \in Fd : \A j \in 1 .. Len(asm_buf[gd]) : asm_buf[gd][j] # up[c][1]
        BY <3>1 DEF PostmanInv, PartsDiffer
      <4> QED
        BY <3>1, <4>1
    <3> QED
      BY <3>5, <3>6, <3>7
  <2> QED
    BY <1>1, <2>2, <2>3 DEF Moved
<1>3. \A gd \in Fd : \A j \in 1 .. Len(asm_buf'[gd]) : asm_buf'[gd][j] # <<h, 1>>
  <2> SUFFICES ASSUME NEW gd \in Fd, NEW j \in 1 .. Len(asm_buf'[gd])
               PROVE  asm_buf'[gd][j] # <<h, 1>>
    OBVIOUS
  <2>1. CASE gd # fd
    <3>1. asm_buf'[gd] = asm_buf[gd]
      BY <1>1, <2>1 DEF Moved
    <3> QED
      BY <1>2, <2>1, <3>1
  <2>2. CASE gd = fd
    <3>1. asm_buf'[fd] = <<>>
      BY DEF PostmanInv, TypeOK
    <3> QED
      BY <2>2, <3>1
  <2> QED
    BY <2>1, <2>2
<1> QED
  BY <1>2, <1>3 DEF HeaderGone

(* What a read does to incoming: nothing, or one request more, whose header *)
(* was in the buffer or under way.                                          *)
LEMMA ReadRequests ==
  ASSUME PostmanInv, NEW fd \in Fd, NEW c \in Conn, NEW n \in 1 .. Parts, NEW m \in 1 .. n,
         NEW message \in Seq(Part), ReadSplit(fd, c, m, n, message),
         conn' = conn, taken' = taken, owner' = owner, pool' = pool
  PROVE  RequestsDiffer' /\ Passed' /\ WholeCalls'
<1>1. Moved(fd, c, m, n, message)
  BY ReadMoves
<1>2. \A d \in Conn : HeaderGone(d) => HeaderGone(d)'
  BY ReadKeepsGone
<1>3. Len(incoming) \in Nat /\ incoming \in Seq(Request)
  BY DEF PostmanInv, TypeOK
<1>4. ASSUME NEW i \in 1 .. Len(incoming)
      PROVE  /\ incoming[i].body # <<>>
             /\ incoming[i].body[1][2] = 1 =>
                  \E d \in Conn : /\ incoming[i].body[1] = <<d, 1>>
                                  /\ HeaderGone(d) /\ taken[d] = 0
  <2> DEFINE body == incoming[i].body
  <2>1. /\ body # <<>>
        /\ body[1][2] = 1 => HeaderGone(body[1][1]) /\ taken[body[1][1]] = 0
    BY DEF PostmanInv, RequestsDiffer
  <2>2. body \in Seq(Part) /\ 1 \in 1 .. Len(body)
    BY <2>1, PartTypes DEF PostmanInv
  <2> HIDE DEF body
  <2>3. body[1][1] \in Conn /\ body[1] = <<body[1][1], body[1][2]>>
    BY <2>2, PartFields
  <2> QED
    BY <2>1, <2>3 DEF body
<1>5. \A d \in Conn : taken[d] # 0 => taken[d] = 1 /\ HeaderGone(d)
  BY DEF PostmanInv, RequestsDiffer
<1>6. \A i, j \in 1 .. Len(incoming) :
        incoming[i].body[1] = incoming[j].body[1] /\ incoming[i].body[1][2] = 1 => i = j
  BY DEF PostmanInv, RequestsDiffer
<1>7. \A i \in 1 .. Len(incoming) :
        incoming[i].fd \notin todo' /\ owner[incoming[i].fd] = incoming[i].from
  BY DEF PostmanInv, Passed, ReadSplit, Split
<1>0. spoilt \subseteq spoilt'
  BY DEF ReadSplit, Split
<1>8. CASE incoming' = incoming
  <2>1. RequestsDiffer'
    <3>1. ASSUME NEW i \in 1 .. Len(incoming)
          PROVE  /\ incoming[i].body # <<>>
                 /\ incoming[i].body[1][2] = 1 =>
                      HeaderGone(incoming[i].body[1][1])' /\ taken[incoming[i].body[1][1]] = 0
      <4>1. CASE incoming[i].body[1][2] = 1
        <5>1. PICK d \in Conn : incoming[i].body[1] = <<d, 1>> /\ HeaderGone(d) /\ taken[d] = 0
          BY <1>4, <4>1
        <5>2. HeaderGone(d)' /\ incoming[i].body[1][1] = d
          BY <1>2, <5>1
        <5>3. HeaderGone(incoming[i].body[1][1])'
          BY <1>8, <5>2 DEF HeaderGone
        <5> QED
          BY <1>4, <5>1, <5>2, <5>3
      <4> QED
        BY <1>4, <4>1
    <3> QED
      BY <1>2, <1>5, <1>6, <1>8, <3>1 DEF RequestsDiffer
  <2>2. Passed'
    BY <1>7, <1>8 DEF Passed
  <2>3. WholeCalls'
    BY <1>0, <1>8, StillWhole
  <2> QED
    BY <2>1, <2>2, <2>3
<1>9. CASE HandsOver(fd, c, message)
  <2> DEFINE request == [fd |-> fd, from |-> c, body |-> message]
             h == message[1][1]
  <2>0. /\ incoming' = Append(incoming, request)
        /\ asm_buf' = [asm_buf EXCEPT ![fd] = <<>>]
        /\ fd \notin spoilt' => Len(message) = Parts
    BY <1>9 DEF HandsOver
  <2>1. /\ request \in Request
        /\ request.fd = fd /\ request.from = c /\ request.body = message
    BY DEF Request
  <2> HIDE DEF request
  <2>2. /\ Len(incoming') = Len(incoming) + 1 /\ incoming' \in Seq(Request)
        /\ incoming'[Len(incoming) + 1] = request
        /\ \A i \in 1 .. Len(incoming) : incoming'[i] = incoming[i]
    BY <1>3, <2>0, <2>1, AppendProperties
  <2>3. \A i \in 1 .. Len(incoming') : i \in 1 .. Len(incoming) \/ i = Len(incoming) + 1
    BY <1>3, <2>2
  <2>4. 1 \in 1 .. Len(message) /\ message # <<>>
    <3>1. Len(message) = Len(asm_buf[fd]) + m /\ Len(asm_buf[fd]) \in Nat
      BY PartTypes DEF PostmanInv, ReadSplit, Split
    <3> QED
      BY <3>1
  <2>5. h \in Conn /\ message[1] = <<h, message[1][2]>>
    BY <2>4, PartFields
  <2>6. message[1][2] = 1 => ~ HeaderGone(h) /\ HeaderGone(h)' /\ taken[h] = 0
    <3>1. message[1][2] = 1 => ~ HeaderGone(h) /\ HeaderGone(h)'
      BY <2>0, <2>4, <2>5, ReadHeader
    <3> QED
      BY <1>5, <2>5, <3>1
  <2>7. RequestsDiffer'
    <3>1. ASSUME NEW i \in 1 .. Len(incoming')
          PROVE  /\ incoming'[i].body # <<>>
                 /\ incoming'[i].body[1][2] = 1 =>
                      \E d \in Conn : /\ incoming'[i].body[1] = <<d, 1>>
                                      /\ HeaderGone(d)' /\ taken'[d] = 0
      <4>1. CASE i \in 1 .. Len(incoming)
        BY <1>2, <1>4, <2>2, <4>1
      <4>2. CASE i = Len(incoming) + 1
        BY <2>1, <2>2, <2>4, <2>5, <2>6, <4>2
      <4> QED
        BY <2>3, <4>1, <4>2
    <3>2. ASSUME NEW i \in 1 .. Len(incoming), message[1][2] = 1
          PROVE  incoming[i].body[1] # message[1]
      BY <1>4, <2>5, <2>6, <3>2
    <3>3. ASSUME NEW i \in 1 .. Len(incoming'), NEW j \in 1 .. Len(incoming'),
                 incoming'[i].body[1] = incoming'[j].body[1], incoming'[i].body[1][2] = 1
          PROVE  i = j
      <4>1. CASE i \in 1 .. Len(incoming) /\ j \in 1 .. Len(incoming)
        BY <1>6, <2>2, <3>3, <4>1
      <4>2. CASE i = Len(incoming) + 1 /\ j \in 1 .. Len(incoming)
        BY <2>1, <2>2, <3>2, <3>3, <4>2
      <4>3. CASE i \in 1 .. Len(incoming) /\ j = Len(incoming) + 1
        BY <2>1, <2>2, <3>2, <3>3, <4>3
      <4> QED
        BY <2>3, <4>1, <4>2, <4>3
    <3>4. ASSUME NEW d \in Conn, taken'[d] # 0
          PROVE  taken'[d] = 1 /\ HeaderGone(d)'
      BY <1>2, <1>5, <3>4
    <3>5. ASSUME NEW i \in 1 .. Len(incoming'), incoming'[i].body[1][2] = 1
          PROVE  HeaderGone(incoming[i].body[1][1])' /\ taken'[incoming'[i].body[1][1]] = 0
      <4>1. PICK d \in Conn : /\ incoming'[i].body[1] = <<d, 1>>
                              /\ HeaderGone(d)' /\ taken'[d] = 0
        BY <3>1, <3>5
      <4>2. incoming'[i].body[1][1] = d
        BY <4>1
      <4> QED
        BY <4>1, <4>2 DEF HeaderGone
    <3> QED
      BY <3>1, <3>3, <3>4, <3>5 DEF RequestsDiffer
  <2>8. Passed'
    <3>1. fd \notin todo' /\ owner[fd] = c
      BY DEF ReadSplit, Split
    <3> QED
      BY <1>7, <2>1, <2>2, <2>3, <3>1 DEF Passed
  <2>9. WholeCalls'
    <3>1. DOMAIN incoming' = 1 .. Len(incoming') /\ DOMAIN incoming = 1 .. Len(incoming)
      BY <1>3, <2>2
    <3>2. request.fd \in spoilt' \/ request.body = Message(request.from)
      <4> SUFFICES ASSUME fd \notin spoilt' PROVE message = Message(c)
        BY <2>1
      <4>1. \A i \in 1 .. Len(message) : message[i] = <<c, i>>
        BY ReadAssembles DEF ReadSplit
      <4>2. message \in [1 .. Len(message) -> Part]
        BY LenProperties
      <4>3. message = [k \in 1 .. Parts |-> <<c, k>>]
        BY <2>0, <4>1, <4>2
      <4> QED
        BY <4>3 DEF Message
    <3>3. ASSUME NEW r \in pool' \cup {incoming'[i] : i \in DOMAIN incoming'}
          PROVE  r.fd \in spoilt' \/ r.body = Message(r.from)
      <4>1. CASE r = request
        BY <3>2, <4>1
      <4>2. CASE r # request
        <5>1. r \in pool \cup {incoming[i] : i \in DOMAIN incoming}
          BY <2>2, <2>3, <3>1, <3>3, <4>2
        <5> QED
          BY <1>0, <5>1 DEF PostmanInv, WholeCalls
      <4> QED
        BY <4>1, <4>2
    <3>4. \A d : Message(d)' = Message(d)
      BY DEF Message
    <3> QED
      BY <3>3, <3>4 DEF WholeCalls
  <2> QED
    BY <2>7, <2>8, <2>9
<1> QED
  BY <1>8, <1>9 DEF ReadSplit, Keeps, Forgets

(* One turn of the loop of sync that reads. *)
LEMMA SyncReadStep ==
  ASSUME PostmanInv, TypeOK', NEW n \in 1 .. Parts, NEW said \in {Parts} \cup GarbageSize,
         SyncRead(n, said)
  PROVE  PostmanInv'
<1>1. PICK fd \in Fd, c \in Conn : \E m \in 1 .. n : \E message \in Seq(Part) :
        ReadSplit(fd, c, m, n, message)
  BY ReadFacts
<1>2. PICK m \in 1 .. n : \E message \in Seq(Part) : ReadSplit(fd, c, m, n, message)
  BY <1>1
<1>3. PICK message \in Seq(Part) : ReadSplit(fd, c, m, n, message)
  BY <1>2
<1>4. /\ conn' = conn /\ backlog' = backlog /\ owner' = owner
      /\ taken' = taken /\ pool' = pool
  BY DEF SyncRead, clientVars, serverVars
<1>5. UpInOrder' /\ PartsDiffer'
  BY <1>3, <1>4, ReadInOrder
<1>6. OwnersDiffer'
  BY <1>4 DEF PostmanInv, OwnersDiffer
<1>7. Unsent'
  BY <1>3, <1>4, ReadUnsent
<1>8. Unread' /\ Sized' /\ AllAssembled'
  BY <1>3, <1>4, ReadKeeps
<1>9. RequestsDiffer' /\ Passed' /\ WholeCalls'
  BY <1>3, <1>4, ReadRequests
<1> QED
  BY <1>5, <1>6, <1>7, <1>8, <1>9 DEF PostmanInv

-----------------------------------------------------------------------------
(* Types. *)

(* The whole message of a client.                                           *)
LEMMA MessageType ==
  ASSUME NEW c \in Conn
  PROVE  /\ Message(c) \in Seq(Part) /\ Len(Message(c)) = Parts
         /\ \A i \in 1 .. Parts : Message(c)[i] = <<c, i>>
<1>1. Message(c) \in [1 .. Parts -> Part] /\ Parts \in Nat
  BY PostmanAssumption DEF Message, Part
<1>2. Message(c) \in Seq(Part)
  BY <1>1, IsASeq
<1> QED
  BY <1>1, <1>2, LenProperties DEF Message

(* What a short write sends. *)
LEMMA BeginningType ==
  ASSUME NEW c \in Conn, NEW k \in 1 .. Parts - 1
  PROVE  /\ k \in 1 .. Parts
         /\ SubSeq(Message(c), 1, k) \in Seq(Part) /\ Len(SubSeq(Message(c), 1, k)) = k
         /\ \A i \in 1 .. k : SubSeq(Message(c), 1, k)[i] = <<c, i>>
<1>1. k \in 1 .. Parts /\ k \in 0 .. Len(Message(c))
  BY MessageType, PostmanAssumption
<1>2. /\ SubSeq(Message(c), 1, k) \in Seq(Part) /\ Len(SubSeq(Message(c), 1, k)) = k
      /\ \A i \in 1 .. k : SubSeq(Message(c), 1, k)[i] = Message(c)[i]
  BY <1>1, MessageType, SubSeqProperties
<1> QED
  BY <1>1, <1>2, MessageType

(* Each kind of step keeps the types.                                       *)
LEMMA ClientType ==
  ASSUME PostmanInv, NEW c \in Conn,
         \/ Connect(c) \/ SendExecute(c) \/ \E k \in 1 .. Parts - 1 : ShortWrite(c, k)
         \/ ReadReply(c) \/ Die(c)
  PROVE  TypeOK'
<1>1. CASE Connect(c)
  <2>1. conn' \in [Conn -> ClientPhase]
    BY <1>1 DEF PostmanInv, TypeOK, Connect, ClientPhase
  <2>2. backlog' \in Seq(Conn)
    BY <1>1 DEF PostmanInv, TypeOK, Connect
  <2>3. /\ got' = got /\ up' = up /\ down' = down /\ owner' = owner /\ asm_buf' = asm_buf
        /\ size' = size /\ spoilt' = spoilt
        /\ incoming' = incoming /\ outgoing' = outgoing /\ todo' = todo /\ ready' = ready
        /\ replying' = replying /\ pool' = pool /\ waiting' = waiting /\ taken' = taken
    BY <1>1 DEF Connect, queueVars, asmVars, syncVars, serverVars
  <2> QED
    BY <2>1, <2>2, <2>3 DEF PostmanInv, TypeOK, connected_fds
<1>2. CASE SendExecute(c)
  BY <1>2, MessageType DEF PostmanInv, TypeOK, SendExecute, ClientPhase, connected_fds,
                           queueVars, asmVars, syncVars, serverVars
<1>3. ASSUME NEW k \in 1 .. Parts - 1, ShortWrite(c, k) PROVE TypeOK'
  BY <1>3, BeginningType DEF PostmanInv, TypeOK, ShortWrite, ClientPhase, connected_fds,
                             queueVars, asmVars, syncVars, serverVars
<1>4. CASE ReadReply(c)
  <2>1. Head(down[c]) \in Seq(Part)
    BY <1>4 DEF PostmanInv, TypeOK, ReadReply
  <2>2. got' \in [Conn -> Seq(Part)]
    BY <1>4, <2>1 DEF PostmanInv, TypeOK, ReadReply
  <2>3. conn' \in [Conn -> ClientPhase] /\ down' \in [Conn -> Seq(Seq(Part))]
    BY <1>4 DEF PostmanInv, TypeOK, ReadReply, ClientPhase
  <2> QED
    BY <1>4, <2>2, <2>3 DEF PostmanInv, TypeOK, ReadReply, connected_fds,
                            queueVars, asmVars, syncVars, serverVars
<1>5. CASE Die(c)
  <2>1. conn' \in [Conn -> ClientPhase] /\ down' \in [Conn -> Seq(Seq(Part))]
    BY <1>5 DEF PostmanInv, TypeOK, Die, ClientPhase
  <2> QED
    BY <1>5, <2>1 DEF PostmanInv, TypeOK, Die, connected_fds,
                      queueVars, asmVars, syncVars, serverVars
<1> QED
  BY <1>1, <1>2, <1>3, <1>4, <1>5

LEMMA TakeType ==
  ASSUME PostmanInv, AcceptCall \/ RejectCall \/ DropRequest
  PROVE  TypeOK'
<1> DEFINE r == Head(incoming)
<1>1. /\ incoming # <<>> /\ incoming' = Tail(incoming)
      /\ taken' = [taken EXCEPT ![Head(r.body)[1]] = @ + 1] \/ taken' = taken
      /\ size' = size /\ spoilt' = spoilt
      /\ conn' = conn /\ got' = got /\ up' = up /\ down' = down /\ backlog' = backlog
      /\ asm_buf' = asm_buf /\ owner' = owner /\ todo' = todo /\ ready' = ready
      /\ waiting' = waiting
  BY DEF AcceptCall, RejectCall, DropRequest, CountCall, asmVars, clientVars, wireVars,
         syncVars, serverVars
<1>2. incoming \in Seq(Request)
  BY DEF PostmanInv, TypeOK
<1>3. r \in Request /\ Tail(incoming) \in Seq(Request)
  BY <1>1, <1>2
<1>4. r.fd \in Fd /\ r.body \in Seq(Part)
  BY <1>3 DEF Request
<1>5. taken' \in [Conn -> Nat]
  <2>1. taken \in [Conn -> Nat]
    BY DEF PostmanInv, TypeOK
  <2>2. Head(r.body)[1] \in Conn
    <3>1. r = incoming[1] /\ 1 \in 1 .. Len(incoming)
      BY <1>1, <1>2
    <3>2. r.body # <<>>
      BY <3>1 DEF PostmanInv, RequestsDiffer
    <3>3. 1 \in 1 .. Len(r.body) /\ Head(r.body) = r.body[1]
      BY <1>4, <3>2
    <3> QED
      BY <1>4, <3>3, PartFields
  <2>3. taken[Head(r.body)[1]] + 1 \in Nat
    BY <2>1, <2>2
  <2> QED
    BY <1>1, <2>1, <2>3
<1>6. pool' \subseteq Request /\ outgoing' \in [Fd -> Seq(Seq(Part))]
      /\ replying' \in Fd \cup {NoFd}
  <2>1. CASE AcceptCall
    BY <1>3, <2>1 DEF AcceptCall, PostmanInv, TypeOK
  <2>2. CASE RejectCall
    <3>1. /\ outgoing' = [outgoing EXCEPT ![r.fd] = Append(@, r.body)]
          /\ replying' = r.fd /\ pool' = pool
      BY <2>2 DEF RejectCall
    <3>2. pool \subseteq Request /\ outgoing \in [Fd -> Seq(Seq(Part))]
      BY DEF PostmanInv, TypeOK
    <3>3. Append(outgoing[r.fd], r.body) \in Seq(Seq(Part))
      BY <1>4, <3>2
    <3> QED
      BY <1>4, <3>1, <3>2, <3>3
  <2>3. CASE DropRequest
    BY <2>3 DEF DropRequest, serverVars, PostmanInv, TypeOK
  <2> QED
    BY <2>1, <2>2, <2>3
<1> QED
  BY <1>1, <1>3, <1>5, <1>6 DEF PostmanInv, TypeOK, connected_fds

LEMMA SyncType ==
  ASSUME PostmanInv, FlushRejection \/ StartSync \/ SyncIdle \/ SyncDisconnect
  PROVE  TypeOK'
<1>1. CASE FlushRejection
  <2>1. replying \in Fd
    BY <1>1 DEF FlushRejection, PostmanInv, TypeOK
  <2>2. outgoing' \in [Fd -> Seq(Seq(Part))] /\ down' \in [Conn -> Seq(Seq(Part))]
    BY <1>1, <2>1, FlushType DEF FlushRejection
  <2> QED
    BY <1>1, <2>2 DEF FlushRejection, PostmanInv, TypeOK, connected_fds, asmVars, clientVars, syncVars
<1>2. CASE StartSync
  <2>1. connected_fds \subseteq Fd
    BY DEF connected_fds
  <2>2. /\ owner' \in [Fd -> Conn \cup {NoConn}] /\ backlog' \in Seq(Conn)
        /\ connected_fds \subseteq connected_fds'
    <3>1. CASE backlog = <<>>
      BY <1>2, <3>1 DEF StartSync, PostmanInv, TypeOK, connected_fds
    <3>2. CASE backlog # <<>>
      <4> DEFINE new == Least(Fd \ connected_fds)
      <4>1. new \in Fd /\ owner[new] = NoConn
        BY <3>2, FreeNumber
      <4>2. owner' = [owner EXCEPT ![new] = Head(backlog)] /\ backlog' = Tail(backlog)
        BY <1>2, <3>2 DEF StartSync
      <4> HIDE DEF new
      <4>3. backlog \in Seq(Conn) /\ owner \in [Fd -> Conn \cup {NoConn}]
        BY DEF PostmanInv, TypeOK
      <4>4. Head(backlog) \in Conn /\ Tail(backlog) \in Seq(Conn)
        BY <3>2, <4>3
      <4>5. owner' \in [Fd -> Conn \cup {NoConn}]
        BY <4>2, <4>3, <4>4
      <4>6. \A fd \in Fd : owner[fd] # NoConn => owner'[fd] # NoConn
        BY <4>1, <4>2, <4>3
      <4> QED
        BY <4>2, <4>4, <4>5, <4>6 DEF connected_fds
    <3> QED
      BY <3>1, <3>2
  <2>3. todo' = connected_fds /\ ready' \subseteq Fd
    BY <1>2, <2>1 DEF StartSync
  <2>4. /\ conn' = conn /\ got' = got /\ up' = up /\ down' = down
        /\ asm_buf' = asm_buf /\ size' = size /\ spoilt' = spoilt
        /\ incoming' = incoming /\ outgoing' = outgoing
        /\ replying' = replying /\ pool' = pool /\ waiting' = waiting /\ taken' = taken
    BY <1>2 DEF StartSync, clientVars, queueVars, asmVars, serverVars
  <2> QED
    BY <2>2, <2>3, <2>4 DEF PostmanInv, TypeOK
<1>3. CASE SyncIdle
  <2>1. Least(todo) \in Fd
    <3>1. todo # {} /\ todo \subseteq Fd
      BY <1>3 DEF SyncIdle, PostmanInv, TypeOK, connected_fds
    <3> QED
      BY <3>1, LeastIn
  <2>2. outgoing' \in [Fd -> Seq(Seq(Part))] /\ down' \in [Conn -> Seq(Seq(Part))]
    BY <1>3, <2>1, FlushType DEF SyncIdle, SyncFlush
  <2>3. todo' \subseteq todo
    BY <1>3 DEF SyncIdle
  <2> QED
    BY <1>3, <2>2, <2>3 DEF SyncIdle, PostmanInv, TypeOK, connected_fds, asmVars, clientVars, serverVars
<1>4. CASE SyncDisconnect
  <2>1. owner' \in [Fd -> Conn \cup {NoConn}]
    BY <1>4 DEF SyncDisconnect, PostmanInv, TypeOK
  <2>2. todo' = {}
    BY <1>4 DEF SyncDisconnect, LeaveLoop
  <2>3. spoilt' \subseteq Fd
    <3>1. todo # {} /\ todo \subseteq Fd
      BY <1>4 DEF SyncDisconnect, PostmanInv, TypeOK, connected_fds
    <3>2. Least(todo) \in Fd
      BY <3>1, LeastIn
    <3> QED
      BY <1>4, <3>2 DEF SyncDisconnect, PostmanInv, TypeOK
  <2> QED
    BY <1>4, <2>1, <2>2, <2>3 DEF SyncDisconnect, PostmanInv, TypeOK,
                            clientVars, wireVars, queueVars, asmVars, serverVars
<1> QED
  BY <1>1, <1>2, <1>3, <1>4

LEMMA SyncReadType ==
  ASSUME PostmanInv, NEW n \in 1 .. Parts, NEW said \in {Parts} \cup GarbageSize,
         SyncRead(n, said)
  PROVE  TypeOK'
<1>1. PICK fd \in Fd, c \in Conn : \E m \in 1 .. n : \E message \in Seq(Part) :
        ReadSplit(fd, c, m, n, message)
  BY ReadFacts
<1>2. PICK m \in 1 .. n : \E message \in Seq(Part) : ReadSplit(fd, c, m, n, message)
  BY <1>1
<1>3. PICK message \in Seq(Part) : ReadSplit(fd, c, m, n, message)
  BY <1>2
<1>4. /\ up \in [Conn -> Seq(Part)] /\ asm_buf \in [Fd -> Seq(Part)]
      /\ incoming \in Seq(Request)
  BY DEF PostmanInv, TypeOK
<1>5. up' \in [Conn -> Seq(Part)]
  <2>1. up[c] \in Seq(Part) /\ Len(up[c]) \in Nat /\ n + 1 \in Nat /\ n >= 1 /\ n <= Len(up[c])
    BY <1>3, <1>4 DEF ReadSplit, Split
  <2>2. n + 1 \in 1 .. Len(up[c]) + 1 /\ Len(up[c]) \in n .. Len(up[c])
    BY <2>1
  <2>3. SubSeq(up[c], n + 1, Len(up[c])) \in Seq(Part)
    BY <2>1, <2>2, SubSeqProperties
  <2> QED
    BY <1>3, <1>4, <2>3 DEF ReadSplit, Split
<1>6. asm_buf' \in [Fd -> Seq(Part)] /\ incoming' \in Seq(Request)
  <2> DEFINE request == [fd |-> fd, from |-> c, body |-> message]
  <2>1. request \in Request
    BY DEF Request
  <2> HIDE DEF request
  <2>2. Append(incoming, request) \in Seq(Request)
    BY <1>4, <2>1
  <2>3. incoming' = incoming \/ incoming' = Append(incoming, request)
    BY <1>3 DEF ReadSplit, HandsOver, Keeps, Forgets, request
  <2>4. asm_buf' = [asm_buf EXCEPT ![fd] = <<>>] \/ asm_buf' = [asm_buf EXCEPT ![fd] = message]
    BY <1>3 DEF ReadSplit, HandsOver, Keeps, Forgets
  <2>5. asm_buf' \in [Fd -> Seq(Part)]
    <3>1. <<>> \in Seq(Part)
      OBVIOUS
    <3>2. \A s \in Seq(Part) : [asm_buf EXCEPT ![fd] = s] \in [Fd -> Seq(Part)]
      BY <1>4
    <3> QED
      BY <2>4, <3>1, <3>2, Zenon
  <2> QED
    BY <1>4, <2>2, <2>3, <2>5
<1>7. outgoing' \in [Fd -> Seq(Seq(Part))] /\ down' \in [Conn -> Seq(Seq(Part))]
  <2>1. Least(todo) \in Fd
    <3>1. todo # {} /\ todo \subseteq Fd
      BY DEF SyncRead, PostmanInv, TypeOK, connected_fds
    <3> QED
      BY <3>1, LeastIn
  <2> QED
    BY <2>1, FlushType DEF SyncRead, SyncFlush
<1>8. todo' \subseteq todo
  BY <1>3 DEF ReadSplit, Split
<1>9. /\ conn' = conn /\ got' = got /\ backlog' = backlog /\ owner' = owner
      /\ ready' = ready /\ replying' = replying /\ pool' = pool
      /\ waiting' = waiting /\ taken' = taken
  BY DEF SyncRead, clientVars, serverVars
<1>10. size' \in [Fd -> Nat] /\ spoilt' \subseteq Fd
  <2>1. size \in [Fd -> Nat] /\ spoilt \subseteq Fd /\ 0 \in Nat
    BY DEF PostmanInv, TypeOK
  <2>2. \E whole \in Nat : size' = [size EXCEPT ![fd] = whole]
    BY <1>3, <2>1, Zenon DEF ReadSplit, HandsOver, Keeps, Forgets
  <2>3. size' \in [Fd -> Nat]
    BY <2>1, <2>2
  <2>4. spoilt' \subseteq spoilt \cup {fd}
    BY <1>3, Zenon DEF ReadSplit, Split
  <2> QED
    BY <2>1, <2>3, <2>4
<1> QED
  BY <1>5, <1>6, <1>7, <1>8, <1>9, <1>10 DEF PostmanInv, TypeOK, connected_fds

LEMMA ThreadType ==
  ASSUME PostmanInv,
         (\E t \in pool : ReplyExecute(t)) \/ \E fd \in Fd : FlushReply(fd)
  PROVE  TypeOK'
<1>1. ASSUME NEW t \in pool, ReplyExecute(t) PROVE TypeOK'
  <2>1. t \in Request /\ pool \subseteq Request /\ outgoing \in [Fd -> Seq(Seq(Part))]
        /\ waiting \in [Fd -> Nat]
    BY DEF PostmanInv, TypeOK
  <2>2. t.fd \in Fd /\ t.body \in Seq(Part)
    BY <2>1 DEF Request
  <2>3. /\ outgoing' = [outgoing EXCEPT ![t.fd] = Append(@, t.body)]
        /\ waiting' = [waiting EXCEPT ![t.fd] = @ + 1]
        /\ pool' = pool \ {t}
    BY <1>1 DEF ReplyExecute
  <2>4. Append(outgoing[t.fd], t.body) \in Seq(Seq(Part))
    BY <2>1, <2>2
  <2>5. outgoing' \in [Fd -> Seq(Seq(Part))]
    BY <2>1, <2>2, <2>3, <2>4
  <2>6. waiting' \in [Fd -> Nat] /\ pool' \subseteq Request
    BY <2>1, <2>2, <2>3
  <2> QED
    BY <1>1, <2>5, <2>6 DEF ReplyExecute, PostmanInv, TypeOK, connected_fds, asmVars,
                            clientVars, wireVars, syncVars
<1>2. ASSUME NEW fd \in Fd, FlushReply(fd) PROVE TypeOK'
  <2>1. outgoing' \in [Fd -> Seq(Seq(Part))] /\ down' \in [Conn -> Seq(Seq(Part))]
    BY <1>2, FlushType DEF FlushReply
  <2>2. waiting' \in [Fd -> Nat]
    <3>1. waiting \in [Fd -> Nat] /\ waiting[fd] > 0 /\ waiting' = [waiting EXCEPT ![fd] = @ - 1]
      BY <1>2 DEF FlushReply, PostmanInv, TypeOK
    <3> QED
      BY <3>1
  <2> QED
    BY <1>2, <2>1, <2>2 DEF FlushReply, PostmanInv, TypeOK, connected_fds, asmVars,
                            clientVars, syncVars
<1> QED
  BY <1>1, <1>2

-----------------------------------------------------------------------------
(* The inductive invariant. *)

(* The invariant holds at first, and every action keeps it.                 *)
LEMMA PostmanInit == Init => PostmanInv
<1> SUFFICES ASSUME Init PROVE PostmanInv
  OBVIOUS
<1>1. TypeOK
  BY DEF Init, TypeOK, ClientPhase, connected_fds
<1>2. UpInOrder
  <2>1. \A c \in Conn : Follows(c, 0)
    BY PostmanAssumption DEF Init, Follows
  <2> QED
    BY <2>1, PostmanAssumption DEF UpInOrder
<1>3. PartsDiffer
  BY DEF Init, PartsDiffer
<1>4. OwnersDiffer
  BY PostmanAssumption DEF Init, OwnersDiffer
<1>5. Unsent
  BY DEF Init, Unsent
<1>6. Unread /\ Sized /\ AllAssembled
  BY PostmanAssumption DEF Init, Unread, Sized, AllAssembled, Assembled
<1>7. RequestsDiffer
  BY DEF Init, RequestsDiffer
<1>8. Passed
  BY DEF Init, Passed
<1>9. WholeCalls
  BY DEF Init, WholeCalls
<1> QED
  BY <1>1, <1>2, <1>3, <1>4, <1>5, <1>6, <1>7, <1>8, <1>9 DEF PostmanInv

LEMMA ClientStep ==
  ASSUME PostmanInv, NEW c \in Conn,
         \/ Connect(c) \/ SendExecute(c) \/ \E k \in 1 .. Parts - 1 : ShortWrite(c, k)
         \/ ReadReply(c) \/ Die(c)
  PROVE  PostmanInv'
<1>0. TypeOK'
  BY ClientType
<1>1. CASE Connect(c)
  BY <1>0, <1>1, ConnectStep
<1>2. CASE SendExecute(c)
  <2>1. /\ conn[c] = "open" /\ conn' = [conn EXCEPT ![c] = "calling"]
        /\ up' = [up EXCEPT ![c] = Message(c)]
        /\ backlog' = backlog /\ owner' = owner /\ asm_buf' = asm_buf
        /\ size' = size /\ spoilt' = spoilt
        /\ incoming' = incoming /\ taken' = taken /\ todo' = todo /\ pool' = pool
    BY <1>2 DEF SendExecute, queueVars, asmVars, syncVars, serverVars
  <2>2. Parts \in 1 .. Parts
    BY PostmanAssumption
  <2> QED
    BY <1>0, <2>1, <2>2, MessageType, ClientCalls
<1>3. ASSUME NEW k \in 1 .. Parts - 1, ShortWrite(c, k) PROVE PostmanInv'
  <2>1. /\ conn[c] = "open" /\ conn' = [conn EXCEPT ![c] = "failed"]
        /\ up' = [up EXCEPT ![c] = SubSeq(Message(c), 1, k)]
        /\ backlog' = backlog /\ owner' = owner /\ asm_buf' = asm_buf
        /\ size' = size /\ spoilt' = spoilt
        /\ incoming' = incoming /\ taken' = taken /\ todo' = todo /\ pool' = pool
    BY <1>3 DEF ShortWrite, queueVars, asmVars, syncVars, serverVars
  <2> DEFINE parts == SubSeq(Message(c), 1, k)
  <2>2. /\ k \in 1 .. Parts /\ parts \in Seq(Part) /\ Len(parts) = k
        /\ \A i \in 1 .. k : parts[i] = <<c, i>>
    BY BeginningType
  <2> HIDE DEF parts
  <2>3. up' = [up EXCEPT ![c] = parts]
    BY <2>1 DEF parts
  <2> QED
    BY <1>0, <2>1, <2>2, <2>3, ClientCalls
<1>4. CASE ReadReply(c)
  <2>1. /\ conn[c] = "calling" /\ conn' = [conn EXCEPT ![c] = "done"]
        /\ up' = up /\ backlog' = backlog /\ owner' = owner /\ asm_buf' = asm_buf
        /\ size' = size /\ spoilt' = spoilt
        /\ incoming' = incoming /\ taken' = taken /\ todo' = todo /\ pool' = pool
    BY <1>4 DEF ReadReply, queueVars, asmVars, syncVars, serverVars
  <2> QED
    BY <1>0, <2>1, ClientEnds
<1>5. CASE Die(c)
  <2>1. /\ conn[c] \in {"open", "calling"} /\ conn' = [conn EXCEPT ![c] = "dead"]
        /\ up' = up /\ backlog' = backlog /\ owner' = owner /\ asm_buf' = asm_buf
        /\ size' = size /\ spoilt' = spoilt
        /\ incoming' = incoming /\ taken' = taken /\ todo' = todo /\ pool' = pool
    BY <1>5 DEF Die, queueVars, asmVars, syncVars, serverVars
  <2> QED
    BY <1>0, <2>1, ClientEnds
<1> QED
  BY <1>1, <1>2, <1>3, <1>4, <1>5

LEMMA MainThreadStep ==
  ASSUME PostmanInv, MainThread
  PROVE  PostmanInv'
<1>1. CASE AcceptCall
  <2>1. /\ incoming # <<>> /\ incoming' = Tail(incoming)
        /\ pool' \subseteq pool \cup {Head(incoming)}
        /\ CountCall(Head(incoming).body)
        /\ conn' = conn /\ up' = up /\ backlog' = backlog /\ owner' = owner
        /\ asm_buf' = asm_buf /\ size' = size /\ spoilt' = spoilt /\ todo' = todo
    BY <1>1 DEF AcceptCall, asmVars, clientVars, wireVars, syncVars
  <2> QED
    BY <1>1, <2>1, TakeType, TakeStep
<1>2. CASE RejectCall
  <2>1. /\ incoming # <<>> /\ incoming' = Tail(incoming)
        /\ pool' \subseteq pool \cup {Head(incoming)}
        /\ CountCall(Head(incoming).body)
        /\ conn' = conn /\ up' = up /\ backlog' = backlog /\ owner' = owner
        /\ asm_buf' = asm_buf /\ size' = size /\ spoilt' = spoilt /\ todo' = todo
    BY <1>2 DEF RejectCall, asmVars, clientVars, wireVars, syncVars
  <2> QED
    BY <1>2, <2>1, TakeType, TakeStep
<1>3. CASE FlushRejection
  <2>1. TypeOK'
    BY <1>3, SyncType
  <2> QED
    BY <1>3, <2>1, QuietStep DEF FlushRejection, asmVars, clientVars, syncVars
<1>4. CASE StartSync
  BY <1>4, SyncType, StartSyncStep
<1>5. ASSUME NEW n \in 1 .. Parts, NEW said \in {Parts} \cup GarbageSize, SyncRead(n, said)
      PROVE  PostmanInv'
  BY <1>5, SyncReadType, SyncReadStep
<1>6. CASE SyncIdle
  <2>1. TypeOK'
    BY <1>6, SyncType
  <2>2. todo' \subseteq todo
    BY <1>6 DEF SyncIdle
  <2> QED
    BY <1>6, <2>1, <2>2, QuietStep DEF SyncIdle, asmVars, clientVars, serverVars
<1>7. CASE SyncDisconnect
  BY <1>7, SyncType, SyncDisconnectStep
<1>8. CASE DropRequest
  <2>1. /\ incoming # <<>> /\ incoming' = Tail(incoming) /\ taken' = taken
        /\ pool' \subseteq pool \cup {Head(incoming)}
        /\ conn' = conn /\ up' = up /\ backlog' = backlog /\ owner' = owner
        /\ asm_buf' = asm_buf /\ size' = size /\ spoilt' = spoilt /\ todo' = todo
    BY <1>8 DEF DropRequest, asmVars, clientVars, wireVars, syncVars, serverVars
  <2> QED
    BY <1>8, <2>1, TakeType, TakeStep
<1> QED
  BY <1>1, <1>2, <1>3, <1>4, <1>5, <1>6, <1>7, <1>8 DEF MainThread

LEMMA PostmanStep == PostmanInv /\ [Next]_vars => PostmanInv'
<1> SUFFICES ASSUME PostmanInv, [Next]_vars PROVE PostmanInv'
  OBVIOUS
<1>1. ASSUME NEW c \in Conn,
             \/ Connect(c) \/ SendExecute(c) \/ \E k \in 1 .. Parts - 1 : ShortWrite(c, k)
             \/ ReadReply(c) \/ Die(c)
      PROVE  PostmanInv'
  BY <1>1, ClientStep
<1>2. CASE MainThread
  BY <1>2, MainThreadStep
<1>3. ASSUME NEW t \in pool, ReplyExecute(t) PROVE PostmanInv'
  <2>1. TypeOK'
    BY <1>3, ThreadType
  <2> QED
    BY <1>3, <2>1, QuietStep DEF ReplyExecute, asmVars, clientVars, wireVars, syncVars
<1>4. ASSUME NEW fd \in Fd, FlushReply(fd) PROVE PostmanInv'
  <2>1. TypeOK'
    BY <1>4, ThreadType
  <2> QED
    BY <1>4, <2>1, QuietStep DEF FlushReply, asmVars, clientVars, syncVars
<1>5. CASE UNCHANGED vars
  <2>1. TypeOK'
    BY <1>5 DEF PostmanInv, TypeOK, connected_fds, vars, clientVars, wireVars,
                queueVars, asmVars, syncVars, serverVars
  <2> QED
    BY <1>5, <2>1, QuietStep DEF vars, clientVars, wireVars, queueVars, asmVars, syncVars, serverVars
<1> QED
  BY <1>1, <1>2, <1>3, <1>4, <1>5 DEF Next

(* Every part is in one place, and the buffer of a number that is not       *)
(* spoilt holds the beginning of the message of its client (read_avail,     *)
(* sync).                                                                   *)
THEOREM PostmanInvariant == Spec => []PostmanInv
BY PostmanInit, PostmanStep, PTL DEF Spec

(* The variables keep their types; sync never comes to an unused number.    *)
THEOREM PostmanTypes == Spec => []TypeOK
<1>1. PostmanInv => TypeOK
  BY DEF PostmanInv
<1> QED
  BY <1>1, PostmanInvariant, PTL

(* A request the server takes is a whole message of the client at the other *)
(* end, however the reads cut its body and whoever used the number before;  *)
(* only a number that had a short write, or a read that ended with a        *)
(* header, gives anything else (read_avail).                                *)
THEOREM CallsWhole == Spec => []WholeCalls
<1>1. PostmanInv => WholeCalls
  BY DEF PostmanInv
<1> QED
  BY <1>1, PostmanInvariant, PTL

(* When the main thread takes a request, its descriptor still stands for    *)
(* the connection it came from: sync leaves its loop at a connection that   *)
(* ends, and accepts only when incoming is empty (sync_and_receive_any).    *)
THEOREM CallsConnected == Spec => []HandledWhileConnected
<1>1. PostmanInv => HandledWhileConnected
  BY PartTypes DEF PostmanInv, Passed, HandledWhileConnected
<1> QED
  BY <1>1, PostmanInvariant, PTL

(* No call is taken twice: the header of a call that was taken, or waits in *)
(* incoming, is neither under way nor in a buffer (read_avail erases what   *)
(* it hands over).                                                          *)
THEOREM CallsTakenOnce == Spec => []TakenOnce
<1>1. PostmanInv => TakenOnce
  <2> SUFFICES ASSUME PostmanInv, NEW c \in Conn PROVE taken[c] =< 1
    BY DEF TakenOnce
  <2>1. taken[c] # 0 => taken[c] = 1
    BY DEF PostmanInv, RequestsDiffer
  <2> QED
    BY <2>1
<1> QED
  BY <1>1, PostmanInvariant, PTL

-----------------------------------------------------------------------------
(* Replies: while no client has died or failed to write, whoever is behind  *)
(* a number waits for the reply that is under way to it.                    *)

AllWell == (\A d \in Conn : conn[d] \notin {"dead", "failed"}) /\ spoilt = {}

(* A call that was taken is with a thread, or its reply is queued, or under *)
(* way, or taken by the client, and in the first three its client waits.    *)
Replies ==
  /\ \A t \in pool :
       /\ owner[t.fd] = t.from /\ conn[t.from] = "calling" /\ taken[t.from] = 1
       /\ outgoing[t.fd] = <<>> /\ down[t.from] = <<>>
  /\ \A fd \in Fd : outgoing[fd] # <<>> =>
       /\ owner[fd] \in Conn /\ outgoing[fd] = <<Message(owner[fd])>>
       /\ conn[owner[fd]] = "calling" /\ taken[owner[fd]] = 1 /\ down[owner[fd]] = <<>>
  /\ \A c \in Conn : down[c] # <<>> =>
       Head(down[c]) = Message(c) /\ conn[c] = "calling" /\ taken[c] = 1
  /\ \A c \in Conn : got[c] # <<>> => got[c] = Message(c)
  /\ \A c \in Conn : conn[c] = "done" => taken[c] = 1

Calls == \A i \in 1 .. Len(incoming) : conn[incoming[i].from] = "calling"

(* A descriptor the loop of sync finds at its end is one whose client has   *)
(* gone.                                                                    *)
Ready == \A fd \in todo \cap ready : up[owner[fd]] # <<>> \/ Closed(owner[fd])

ReplyInv == PostmanInv /\ (AllWell => Replies /\ Calls /\ Ready)

(* What was taken, or waits in incoming, is a whole call; one in incoming   *)
(* has not been taken before.                                               *)
LEMMA WellCalls ==
  ASSUME PostmanInv, AllWell
  PROVE  /\ \A t \in pool : t.fd \in Fd /\ t.from \in Conn /\ t.body = Message(t.from)
         /\ \A i \in 1 .. Len(incoming) :
              /\ incoming[i].fd \in Fd /\ incoming[i].from \in Conn
              /\ incoming[i].body = Message(incoming[i].from)
              /\ owner[incoming[i].fd] = incoming[i].from
              /\ IsHeader(Head(incoming[i].body)) /\ Len(incoming[i].body) = Parts
              /\ Head(incoming[i].body)[1] = incoming[i].from
              /\ taken[incoming[i].from] = 0
<1>1. ASSUME NEW r \in Request, r.fd \in spoilt \/ r.body = Message(r.from)
      PROVE  /\ r.fd \in Fd /\ r.from \in Conn /\ r.body = Message(r.from)
             /\ Len(r.body) = Parts
             /\ Head(r.body) = r.body[1] /\ r.body[1] = <<r.from, 1>>
  <2>1. r.fd \in Fd /\ r.from \in Conn /\ r.body \in Seq(Part)
    BY DEF Request
  <2>2. r.body = Message(r.from)
    BY <1>1 DEF AllWell
  <2>3. Len(r.body) = Parts /\ r.body[1] = <<r.from, 1>>
    BY <2>1, <2>2, MessageType, PostmanAssumption
  <2>4. Head(r.body) = r.body[1]
    BY <2>1
  <2> QED
    BY <2>1, <2>2, <2>3, <2>4
<1>2. ASSUME NEW t \in pool
      PROVE  t.fd \in Fd /\ t.from \in Conn /\ t.body = Message(t.from)
  <2>1. t \in Request /\ (t.fd \in spoilt \/ t.body = Message(t.from))
    BY DEF PostmanInv, TypeOK, WholeCalls
  <2> QED
    BY <1>1, <2>1
<1>3. ASSUME NEW i \in 1 .. Len(incoming)
      PROVE  /\ incoming[i].fd \in Fd /\ incoming[i].from \in Conn
             /\ incoming[i].body = Message(incoming[i].from)
             /\ owner[incoming[i].fd] = incoming[i].from
             /\ IsHeader(Head(incoming[i].body)) /\ Len(incoming[i].body) = Parts
             /\ Head(incoming[i].body)[1] = incoming[i].from
             /\ taken[incoming[i].from] = 0
  <2>1. incoming[i] \in Request /\ i \in DOMAIN incoming
    BY PartTypes DEF PostmanInv
  <2>2. incoming[i].fd \in spoilt \/ incoming[i].body = Message(incoming[i].from)
    BY <2>1 DEF PostmanInv, WholeCalls
  <2>3. owner[incoming[i].fd] = incoming[i].from
    BY DEF PostmanInv, Passed
  <2>4. /\ incoming[i].fd \in Fd /\ incoming[i].from \in Conn
        /\ incoming[i].body = Message(incoming[i].from) /\ Len(incoming[i].body) = Parts
        /\ Head(incoming[i].body) = incoming[i].body[1]
        /\ incoming[i].body[1] = <<incoming[i].from, 1>>
    BY <1>1, <2>1, <2>2
  <2>5. incoming[i].body[1][2] = 1 /\ incoming[i].body[1][1] = incoming[i].from
    BY <2>4
  <2>6. taken[incoming[i].from] = 0
    BY <2>5 DEF PostmanInv, RequestsDiffer
  <2> QED
    BY <2>3, <2>4, <2>5, <2>6 DEF IsHeader
<1> QED
  BY <1>2, <1>3

(* A client that goes on disturbs no reply that is under way.               *)
LEMMA RepliesStay ==
  ASSUME PostmanInv, Replies,
         pool' = pool, owner' = owner, taken' = taken,
         outgoing' = outgoing, down' = down, got' = got,
         \A d \in Conn : /\ conn[d] = "calling" => conn'[d] = "calling"
                         /\ conn'[d] = "done" => conn[d] = "done"
  PROVE  Replies'
<1>1. \A t \in pool : t.from \in Conn
  BY DEF PostmanInv, TypeOK, Request
<1>2. \A t \in pool :
        /\ owner[t.fd] = t.from /\ conn'[t.from] = "calling" /\ taken[t.from] = 1
        /\ outgoing[t.fd] = <<>> /\ down[t.from] = <<>>
  BY <1>1 DEF Replies
<1>3. \A fd \in Fd : outgoing[fd] # <<>> =>
        /\ owner[fd] \in Conn /\ outgoing[fd] = <<Message(owner[fd])>>
        /\ conn'[owner[fd]] = "calling" /\ taken[owner[fd]] = 1 /\ down[owner[fd]] = <<>>
  BY DEF Replies
<1>4. \A c \in Conn : down[c] # <<>> =>
        Head(down[c]) = Message(c) /\ conn'[c] = "calling" /\ taken[c] = 1
  BY DEF Replies
<1>5. \A c \in Conn : got[c] # <<>> => got[c] = Message(c)
  BY DEF Replies
<1>6. \A c \in Conn : conn'[c] = "done" => taken[c] = 1
  BY DEF Replies
<1>7. \A c : Message(c)' = Message(c)
  BY DEF Message
<1> QED
  BY <1>2, <1>3, <1>4, <1>5, <1>6, <1>7 DEF Replies

(* A flush takes a reply from the queue of a number to whoever waits behind *)
(* it.                                                                      *)
LEMMA FlushReplies ==
  ASSUME PostmanInv, AllWell, Replies, NEW fd \in Fd, flush(fd),
         pool' = pool, owner' = owner, taken' = taken, got' = got, conn' = conn
  PROVE  Replies'
<1>0. /\ outgoing \in [Fd -> Seq(Seq(Part))] /\ down \in [Conn -> Seq(Seq(Part))]
      /\ outgoing' = [outgoing EXCEPT ![fd] = <<>>]
  BY DEF PostmanInv, TypeOK, flush, Popped
<1>1. CASE outgoing[fd] = <<>>
  <2>1. outgoing' = outgoing
    BY <1>0, <1>1
  <2>2. down' = down
    <3>1. CASE owner[fd] \in Conn /\ ~ Closed(owner[fd])
      <4>1. down' = [down EXCEPT ![owner[fd]] = down[owner[fd]] \o outgoing[fd]]
        BY <3>1 DEF flush
      <4>2. down[owner[fd]] \o outgoing[fd] = down[owner[fd]]
        <5>1. down[owner[fd]] \in Seq(Seq(Part))
          BY <1>0, <3>1
        <5> QED
          BY <1>1, <5>1, ConcatEmptySeq
      <4> QED
        BY <1>0, <4>1, <4>2
    <3>2. CASE ~ (owner[fd] \in Conn /\ ~ Closed(owner[fd]))
      BY <3>2, Zenon DEF flush
    <3> QED
      BY <3>1, <3>2
  <2> QED
    BY <2>1, <2>2, RepliesStay
<1>2. CASE outgoing[fd] # <<>>
  <2> DEFINE c == owner[fd]
             m == Message(c)
  <2>1. /\ c \in Conn /\ outgoing[fd] = <<m>>
        /\ conn[c] = "calling" /\ taken[c] = 1 /\ down[c] = <<>>
    BY <1>2 DEF Replies
  <2>2. down' = [down EXCEPT ![c] = <<m>>]
    <3>1. ~ Closed(c)
      BY <2>1 DEF Closed
    <3>2. down' = [down EXCEPT ![c] = down[c] \o outgoing[fd]]
      BY <2>1, <3>1 DEF flush
    <3>3. <<>> \o <<m>> = <<m>>
      <4>1. <<m>> \in Seq({m})
        OBVIOUS
      <4> QED
        BY <4>1, ConcatEmptySeq
    <3> QED
      BY <2>1, <3>2, <3>3
  <2> HIDE DEF c, m
  <2>3. \A d \in Conn : down'[d] = IF d = c THEN <<m>> ELSE down[d]
    BY <1>0, <2>1, <2>2
  <2>4. \A gd \in Fd : outgoing'[gd] = IF gd = fd THEN <<>> ELSE outgoing[gd]
    BY <1>0
  <2>5. \A t \in pool :
          /\ owner[t.fd] = t.from /\ conn[t.from] = "calling" /\ taken[t.from] = 1
          /\ outgoing'[t.fd] = <<>> /\ down'[t.from] = <<>>
    <3> SUFFICES ASSUME NEW t \in pool
                 PROVE  outgoing'[t.fd] = <<>> /\ down'[t.from] = <<>>
      BY DEF Replies
    <3>1. t.fd \in Fd /\ t.from \in Conn
      BY DEF PostmanInv, TypeOK, Request
    <3>2. owner[t.fd] = t.from /\ outgoing[t.fd] = <<>> /\ down[t.from] = <<>>
      BY DEF Replies
    <3>3. t.from # c
      <4>1. t.fd # fd
        BY <1>2, <3>2
      <4> QED
        BY <3>1, <3>2, <4>1, PostmanAssumption DEF c, PostmanInv, OwnersDiffer
    <3> QED
      BY <2>3, <2>4, <3>1, <3>2, <3>3
  <2>6. \A gd \in Fd : outgoing'[gd] # <<>> =>
          /\ owner[gd] \in Conn /\ outgoing'[gd] = <<Message(owner[gd])>>
          /\ conn[owner[gd]] = "calling" /\ taken[owner[gd]] = 1 /\ down'[owner[gd]] = <<>>
    <3> SUFFICES ASSUME NEW gd \in Fd, outgoing'[gd] # <<>>
                 PROVE  /\ owner[gd] \in Conn /\ outgoing'[gd] = <<Message(owner[gd])>>
                        /\ conn[owner[gd]] = "calling" /\ taken[owner[gd]] = 1
                        /\ down'[owner[gd]] = <<>>
      OBVIOUS
    <3>1. gd # fd /\ outgoing'[gd] = outgoing[gd]
      BY <2>4
    <3>2. /\ owner[gd] \in Conn /\ outgoing[gd] = <<Message(owner[gd])>>
          /\ conn[owner[gd]] = "calling" /\ taken[owner[gd]] = 1 /\ down[owner[gd]] = <<>>
      BY <3>1 DEF Replies
    <3>3. owner[gd] # c
      BY <3>1, <3>2, PostmanAssumption DEF c, PostmanInv, OwnersDiffer
    <3> QED
      BY <2>3, <3>1, <3>2, <3>3
  <2>7. \A d \in Conn : down'[d] # <<>> =>
          Head(down'[d]) = Message(d) /\ conn[d] = "calling" /\ taken[d] = 1
    <3> SUFFICES ASSUME NEW d \in Conn, down'[d] # <<>>
                 PROVE  Head(down'[d]) = Message(d) /\ conn[d] = "calling" /\ taken[d] = 1
      OBVIOUS
    <3>1. CASE d = c
      <4>1. Head(<<m>>) = m
        OBVIOUS
      <4> QED
        BY <2>1, <2>3, <3>1, <4>1 DEF m
    <3>2. CASE d # c
      BY <2>3, <3>2 DEF Replies
    <3> QED
      BY <3>1, <3>2
  <2>8. \A d : Message(d)' = Message(d)
    BY DEF Message
  <2> QED
    BY <2>5, <2>6, <2>7, <2>8 DEF Replies
<1> QED
  BY <1>1, <1>2

(* Connecting and calling. *)
LEMMA CallReplies ==
  ASSUME ReplyInv, AllWell', NEW c \in Conn, Connect(c) \/ SendExecute(c)
  PROVE  (Replies /\ Calls /\ Ready)'
<1>0. /\ conn \in [Conn -> ClientPhase] /\ up \in [Conn -> Seq(Part)]
      /\ PostmanInv
  BY DEF ReplyInv, PostmanInv, TypeOK
<1>1. PICK p \in {"open", "calling"} : conn' = [conn EXCEPT ![c] = p]
  BY DEF Connect, SendExecute
<1>2. conn[c] \in {"none", "open"}
  BY DEF Connect, SendExecute
<1>3. \A d \in Conn : conn'[d] = (IF d = c THEN p ELSE conn[d])
  BY <1>0, <1>1
<1>4. /\ pool' = pool /\ owner' = owner /\ taken' = taken /\ outgoing' = outgoing
      /\ down' = down /\ got' = got /\ incoming' = incoming /\ todo' = todo /\ ready' = ready
      /\ spoilt' = spoilt
  BY DEF Connect, SendExecute, queueVars, asmVars, syncVars, serverVars
<1>5. AllWell
  BY <1>2, <1>3, <1>4 DEF AllWell
<1>6. Replies /\ Calls /\ Ready
  BY <1>5 DEF ReplyInv
<1>7. Replies'
  <2>1. \A d \in Conn : /\ conn[d] = "calling" => conn'[d] = "calling"
                        /\ conn'[d] = "done" => conn[d] = "done"
    BY <1>2, <1>3
  <2> QED
    BY <1>0, <1>4, <1>6, <2>1, RepliesStay
<1>8. Calls'
  <2>1. \A d \in Conn : conn[d] = "calling" => conn'[d] = "calling"
    BY <1>2, <1>3
  <2>2. \A i \in 1 .. Len(incoming) : incoming[i].from \in Conn
    BY <1>0, PartTypes DEF PostmanInv
  <2> QED
    BY <1>4, <1>6, <2>1, <2>2 DEF Calls
<1>9. Ready'
  <2>1. \A fd \in todo \cap ready : owner[fd] \in Conn
    BY <1>0 DEF PostmanInv, TypeOK, connected_fds
  <2>2. \A d \in Conn : up[d] # <<>> => up'[d] # <<>>
    <3>1. CASE Connect(c)
      BY <3>1 DEF Connect
    <3>2. CASE SendExecute(c)
      <4>1. up' = [up EXCEPT ![c] = Message(c)]
        BY <3>2 DEF SendExecute
      <4>2. Message(c) # <<>>
        BY MessageType, PostmanAssumption
      <4> QED
        BY <1>0, <4>1, <4>2
    <3> QED
      BY <3>1, <3>2
  <2>3. \A d \in Conn : Closed(d) => Closed(d)'
    BY <1>2, <1>3 DEF Closed
  <2> QED
    BY <1>4, <1>6, <2>1, <2>2, <2>3 DEF Ready
<1> QED
  BY <1>7, <1>8, <1>9

(* The client takes the only reply there is to its call. *)
LEMMA ReadReplyReplies ==
  ASSUME ReplyInv, AllWell', NEW c \in Conn, ReadReply(c)
  PROVE  (Replies /\ Calls /\ Ready)'
<1>0. /\ conn \in [Conn -> ClientPhase] /\ down \in [Conn -> Seq(Seq(Part))]
      /\ got \in [Conn -> Seq(Part)] /\ PostmanInv
  BY DEF ReplyInv, PostmanInv, TypeOK
<1>1. /\ conn[c] = "calling" /\ down[c] # <<>>
      /\ got' = [got EXCEPT ![c] = Head(down[c])]
      /\ down' = [down EXCEPT ![c] = <<>>]
      /\ conn' = [conn EXCEPT ![c] = "done"]
      /\ pool' = pool /\ owner' = owner /\ taken' = taken /\ outgoing' = outgoing
      /\ up' = up /\ incoming' = incoming /\ todo' = todo /\ ready' = ready
      /\ spoilt' = spoilt
  BY DEF ReadReply, queueVars, asmVars, syncVars, serverVars
<1>2. \A d \in Conn : /\ conn'[d] = (IF d = c THEN "done" ELSE conn[d])
                      /\ down'[d] = (IF d = c THEN <<>> ELSE down[d])
                      /\ got'[d] = (IF d = c THEN Head(down[c]) ELSE got[d])
  BY <1>0, <1>1
<1>3. AllWell
  BY <1>1, <1>2 DEF AllWell
<1>4. Replies /\ Calls /\ Ready
  BY <1>3 DEF ReplyInv
<1>5. Head(down[c]) = Message(c) /\ taken[c] = 1
  BY <1>1, <1>4 DEF Replies
<1>6. Replies'
  <2>1. \A t \in pool :
          /\ owner[t.fd] = t.from /\ conn'[t.from] = "calling" /\ taken[t.from] = 1
          /\ outgoing[t.fd] = <<>> /\ down'[t.from] = <<>>
    <3> SUFFICES ASSUME NEW t \in pool
                 PROVE  conn'[t.from] = "calling" /\ down'[t.from] = <<>>
      BY <1>4 DEF Replies
    <3>1. /\ t.from \in Conn /\ conn[t.from] = "calling" /\ down[t.from] = <<>>
      BY <1>0, <1>4 DEF Replies, PostmanInv, TypeOK, Request
    <3> QED
      BY <1>1, <1>2, <3>1
  <2>2. \A fd \in Fd : outgoing[fd] # <<>> =>
          /\ owner[fd] \in Conn /\ outgoing[fd] = <<Message(owner[fd])>>
          /\ conn'[owner[fd]] = "calling" /\ taken[owner[fd]] = 1 /\ down'[owner[fd]] = <<>>
    BY <1>1, <1>2, <1>4 DEF Replies
  <2>3. \A d \in Conn : down'[d] # <<>> =>
          Head(down'[d]) = Message(d) /\ conn'[d] = "calling" /\ taken[d] = 1
    BY <1>2, <1>4 DEF Replies
  <2>4. \A d \in Conn : got'[d] # <<>> => got'[d] = Message(d)
    BY <1>2, <1>4, <1>5 DEF Replies
  <2>5. \A d \in Conn : conn'[d] = "done" => taken[d] = 1
    BY <1>2, <1>4, <1>5 DEF Replies
  <2>6. \A d : Message(d)' = Message(d)
    BY DEF Message
  <2> QED
    BY <1>1, <2>1, <2>2, <2>3, <2>4, <2>5, <2>6 DEF Replies
<1>7. Calls'
  <2>1. \A i \in 1 .. Len(incoming) :
          incoming[i].from \in Conn /\ taken[incoming[i].from] = 0
    BY <1>0, <1>3, WellCalls
  <2>2. \A i \in 1 .. Len(incoming) : incoming[i].from # c
    BY <1>5, <2>1
  <2> QED
    BY <1>1, <1>2, <1>4, <2>1, <2>2 DEF Calls
<1>8. Ready'
  <2>1. \A fd \in todo \cap ready : owner[fd] \in Conn
    BY <1>0 DEF PostmanInv, TypeOK, connected_fds
  <2>2. \A d \in Conn : Closed(d) => Closed(d)'
    BY <1>2 DEF Closed
  <2> QED
    BY <1>1, <1>4, <2>1, <2>2 DEF Ready
<1> QED
  BY <1>6, <1>7, <1>8

(* A request goes to a thread or is rejected: no reply to it is anywhere,   *)
(* for it has not been taken before.                                        *)
LEMMA TakeReplies ==
  ASSUME ReplyInv, AllWell', AcceptCall \/ RejectCall
  PROVE  (Replies /\ Calls /\ Ready)'
<1> DEFINE r == Head(incoming)
           fd == r.fd
           c == r.from
<1>0. /\ taken \in [Conn -> Nat] /\ outgoing \in [Fd -> Seq(Seq(Part))]
      /\ incoming \in Seq(Request) /\ PostmanInv
  BY DEF ReplyInv, PostmanInv, TypeOK
<1>1. /\ incoming # <<>> /\ incoming' = Tail(incoming)
      /\ CountCall(r.body) /\ spoilt' = spoilt
      /\ conn' = conn /\ up' = up /\ down' = down /\ owner' = owner /\ got' = got
      /\ todo' = todo /\ ready' = ready
  BY DEF AcceptCall, RejectCall, asmVars, clientVars, wireVars, syncVars
<1>2. AllWell /\ Replies /\ Calls /\ Ready
  BY <1>1 DEF AllWell, ReplyInv
<1>3. /\ r = incoming[1] /\ 1 \in 1 .. Len(incoming) /\ Len(incoming) \in Nat
      /\ Len(incoming') = Len(incoming) - 1
      /\ \A i \in 1 .. Len(incoming') :
           incoming'[i] = incoming[i + 1] /\ i + 1 \in 1 .. Len(incoming)
  BY <1>0, <1>1
<1>4. /\ fd \in Fd /\ c \in Conn /\ owner[fd] = c /\ r.body = Message(c)
      /\ IsHeader(Head(r.body)) /\ Head(r.body)[1] = c /\ taken[c] = 0 /\ conn[c] = "calling"
  BY <1>0, <1>2, <1>3, WellCalls DEF Calls
<1>5. \A d \in Conn : taken'[d] = IF d = c THEN 1 ELSE taken[d]
  <2>1. taken' = [taken EXCEPT ![c] = taken[c] + 1]
    BY <1>1, <1>4 DEF CountCall
  <2> QED
    BY <1>0, <1>4, <2>1
<1>6. outgoing[fd] = <<>> /\ down[c] = <<>>
  <2>1. taken[c] # 1
    BY <1>4
  <2> QED
    BY <1>2, <1>4, <2>1 DEF Replies
<1>7. \/ pool' = pool \cup {r} /\ outgoing' = outgoing
      \/ pool' = pool /\ outgoing' = [outgoing EXCEPT ![fd] = <<Message(c)>>]
  <2>1. CASE AcceptCall
    BY <2>1 DEF AcceptCall
  <2>2. CASE RejectCall
    <3>1. pool' = pool /\ outgoing' = [outgoing EXCEPT ![fd] = Append(outgoing[fd], r.body)]
      BY <2>2 DEF RejectCall
    <3>2. Append(<<>>, Message(c)) = <<Message(c)>>
      OBVIOUS
    <3> QED
      BY <1>4, <1>6, <3>1, <3>2
  <2> QED
    BY <2>1, <2>2
<1> HIDE DEF r, fd, c
<1>8. \A t \in pool : /\ t.fd \in Fd /\ t.from \in Conn /\ t.from # c /\ t.fd # fd
                      /\ owner[t.fd] = t.from /\ conn[t.from] = "calling" /\ taken[t.from] = 1
                      /\ outgoing[t.fd] = <<>> /\ down[t.from] = <<>>
  <2> SUFFICES ASSUME NEW t \in pool
               PROVE  /\ t.fd \in Fd /\ t.from \in Conn /\ t.from # c /\ t.fd # fd
                      /\ owner[t.fd] = t.from /\ conn[t.from] = "calling" /\ taken[t.from] = 1
                      /\ outgoing[t.fd] = <<>> /\ down[t.from] = <<>>
    OBVIOUS
  <2>1. t.fd \in Fd /\ t.from \in Conn
    BY <1>0, <1>2, WellCalls
  <2>2. /\ owner[t.fd] = t.from /\ conn[t.from] = "calling" /\ taken[t.from] = 1
        /\ outgoing[t.fd] = <<>> /\ down[t.from] = <<>>
    BY <1>2 DEF Replies
  <2> QED
    BY <1>4, <2>1, <2>2
<1>9. Replies'
  <2>1. \A t \in pool' :
          /\ owner[t.fd] = t.from /\ conn[t.from] = "calling" /\ taken'[t.from] = 1
          /\ outgoing'[t.fd] = <<>> /\ down[t.from] = <<>>
    <3>1. ASSUME NEW t \in pool
          PROVE  /\ owner[t.fd] = t.from /\ conn[t.from] = "calling" /\ taken'[t.from] = 1
                 /\ outgoing'[t.fd] = <<>> /\ down[t.from] = <<>>
      <4>1. outgoing'[t.fd] = outgoing[t.fd]
        BY <1>0, <1>7, <1>8
      <4> QED
        BY <1>5, <1>8, <4>1
    <3>2. ASSUME pool' = pool \cup {r}, outgoing' = outgoing
          PROVE  /\ owner[r.fd] = r.from /\ conn[r.from] = "calling" /\ taken'[r.from] = 1
                 /\ outgoing'[r.fd] = <<>> /\ down[r.from] = <<>>
      BY <1>4, <1>5, <1>6, <3>2 DEF fd, c
    <3> QED
      BY <1>7, <3>1, <3>2
  <2>2. \A gd \in Fd : outgoing'[gd] # <<>> =>
          /\ owner[gd] \in Conn /\ outgoing'[gd] = <<Message(owner[gd])>>
          /\ conn[owner[gd]] = "calling" /\ taken'[owner[gd]] = 1 /\ down[owner[gd]] = <<>>
    <3> SUFFICES ASSUME NEW gd \in Fd, outgoing'[gd] # <<>>
                 PROVE  /\ owner[gd] \in Conn /\ outgoing'[gd] = <<Message(owner[gd])>>
                        /\ conn[owner[gd]] = "calling" /\ taken'[owner[gd]] = 1
                        /\ down[owner[gd]] = <<>>
      OBVIOUS
    <3>1. CASE outgoing[gd] # <<>>
      <4>1. /\ owner[gd] \in Conn /\ outgoing[gd] = <<Message(owner[gd])>>
            /\ conn[owner[gd]] = "calling" /\ taken[owner[gd]] = 1 /\ down[owner[gd]] = <<>>
        BY <1>2, <3>1 DEF Replies
      <4>2. gd # fd
        BY <1>6, <3>1
      <4>3. outgoing'[gd] = outgoing[gd]
        BY <1>0, <1>7, <4>2
      <4> QED
        BY <1>5, <4>1, <4>3
    <3>2. CASE outgoing[gd] = <<>>
      <4>1. gd = fd /\ outgoing'[gd] = <<Message(c)>>
        BY <1>0, <1>7, <3>2
      <4> QED
        BY <1>4, <1>5, <1>6, <4>1
    <3> QED
      BY <3>1, <3>2
  <2>3. \A d \in Conn : down[d] # <<>> =>
          Head(down[d]) = Message(d) /\ conn[d] = "calling" /\ taken'[d] = 1
    BY <1>2, <1>5 DEF Replies
  <2>4. \A d \in Conn : got[d] # <<>> => got[d] = Message(d)
    BY <1>2 DEF Replies
  <2>5. \A d \in Conn : conn[d] = "done" => taken'[d] = 1
    BY <1>2, <1>5 DEF Replies
  <2>6. \A d : Message(d)' = Message(d)
    BY DEF Message
  <2> QED
    BY <1>1, <2>1, <2>2, <2>3, <2>4, <2>5, <2>6 DEF Replies
<1>10. Calls'
  BY <1>1, <1>2, <1>3 DEF Calls
<1>11. Ready'
  BY <1>1, <1>2 DEF Ready, Closed
<1> QED
  BY <1>9, <1>10, <1>11

(* Nothing is dropped: what waits in incoming is a call. *)
LEMMA DropReplies ==
  ASSUME ReplyInv, AllWell', DropRequest
  PROVE  FALSE
<1>1. PostmanInv /\ incoming \in Seq(Request)
  BY DEF ReplyInv, PostmanInv, TypeOK
<1>2. AllWell
  BY DEF DropRequest, asmVars, clientVars, AllWell
<1>3. incoming # <<>> /\ Head(incoming) = incoming[1] /\ 1 \in 1 .. Len(incoming)
  BY <1>1 DEF DropRequest
<1>4. IsHeader(Head(incoming[1].body)) /\ Len(incoming[1].body) = Parts
  BY <1>1, <1>2, <1>3, WellCalls
<1> QED
  BY <1>3, <1>4, PostmanAssumption DEF DropRequest

(* A thread queues its reply. *)
LEMMA ReplyExecuteReplies ==
  ASSUME ReplyInv, AllWell', NEW t \in pool, ReplyExecute(t)
  PROVE  (Replies /\ Calls /\ Ready)'
<1>0. outgoing \in [Fd -> Seq(Seq(Part))] /\ PostmanInv
  BY DEF ReplyInv, PostmanInv, TypeOK
<1>1. /\ pool' = pool \ {t}
      /\ outgoing' = [outgoing EXCEPT ![t.fd] = Append(@, t.body)]
      /\ taken' = taken /\ incoming' = incoming /\ spoilt' = spoilt
      /\ conn' = conn /\ up' = up /\ down' = down /\ owner' = owner /\ got' = got
      /\ todo' = todo /\ ready' = ready
  BY DEF ReplyExecute, asmVars, clientVars, wireVars, syncVars
<1>2. AllWell /\ Replies /\ Calls /\ Ready
  BY <1>1 DEF AllWell, ReplyInv
<1>3. /\ t.fd \in Fd /\ t.from \in Conn /\ t.body = Message(t.from)
      /\ owner[t.fd] = t.from /\ conn[t.from] = "calling" /\ taken[t.from] = 1
      /\ outgoing[t.fd] = <<>> /\ down[t.from] = <<>>
  <2>1. t.fd \in Fd /\ t.from \in Conn /\ t.body = Message(t.from)
    BY <1>0, <1>2, WellCalls
  <2> QED
    BY <1>2, <2>1 DEF Replies
<1>4. outgoing' = [outgoing EXCEPT ![t.fd] = <<Message(t.from)>>]
  <2>1. Append(<<>>, Message(t.from)) = <<Message(t.from)>>
    OBVIOUS
  <2> QED
    BY <1>1, <1>3, <2>1
<1>5. \A u \in pool' :
        /\ owner[u.fd] = u.from /\ conn[u.from] = "calling" /\ taken[u.from] = 1
        /\ outgoing'[u.fd] = <<>> /\ down[u.from] = <<>>
  <2> SUFFICES ASSUME NEW u \in pool, u # t
               PROVE  /\ owner[u.fd] = u.from /\ conn[u.from] = "calling" /\ taken[u.from] = 1
                      /\ outgoing'[u.fd] = <<>> /\ down[u.from] = <<>>
    BY <1>1
  <2>1. /\ owner[u.fd] = u.from /\ conn[u.from] = "calling" /\ taken[u.from] = 1
        /\ outgoing[u.fd] = <<>> /\ down[u.from] = <<>>
    BY <1>2 DEF Replies
  <2>2. u.fd # t.fd
    <3>1. u.body = Message(u.from)
      BY <1>0, <1>2, WellCalls
    <3>2. u \in Request /\ t \in Request
      BY <1>0 DEF PostmanInv, TypeOK
    <3>3. u.fd = t.fd => u.from = t.from /\ u.body = t.body
      BY <1>3, <2>1, <3>1
    <3> QED
      BY <3>2, <3>3 DEF Request
  <2>3. outgoing'[u.fd] = outgoing[u.fd]
    <3>1. u.fd \in Fd
      BY <1>0, <1>2, WellCalls
    <3> QED
      BY <1>0, <1>4, <2>2, <3>1
  <2> QED
    BY <2>1, <2>3
<1>6. \A gd \in Fd : outgoing'[gd] # <<>> =>
        /\ owner[gd] \in Conn /\ outgoing'[gd] = <<Message(owner[gd])>>
        /\ conn[owner[gd]] = "calling" /\ taken[owner[gd]] = 1 /\ down[owner[gd]] = <<>>
  <2> SUFFICES ASSUME NEW gd \in Fd, outgoing'[gd] # <<>>
               PROVE  /\ owner[gd] \in Conn /\ outgoing'[gd] = <<Message(owner[gd])>>
                      /\ conn[owner[gd]] = "calling" /\ taken[owner[gd]] = 1
                      /\ down[owner[gd]] = <<>>
    OBVIOUS
  <2>1. CASE gd = t.fd
    <3>1. outgoing'[gd] = <<Message(t.from)>>
      BY <1>0, <1>3, <1>4, <2>1
    <3> QED
      BY <1>3, <2>1, <3>1
  <2>2. CASE gd # t.fd
    <3>1. outgoing'[gd] = outgoing[gd]
      BY <1>0, <1>4, <2>2
    <3> QED
      BY <1>2, <3>1 DEF Replies
  <2> QED
    BY <2>1, <2>2
<1>7. /\ \A d \in Conn : down[d] # <<>> =>
           Head(down[d]) = Message(d) /\ conn[d] = "calling" /\ taken[d] = 1
      /\ \A d \in Conn : got[d] # <<>> => got[d] = Message(d)
      /\ \A d \in Conn : conn[d] = "done" => taken[d] = 1
  BY <1>2 DEF Replies
<1>8. \A d : Message(d)' = Message(d)
  BY DEF Message
<1>9. Replies'
  BY <1>1, <1>5, <1>6, <1>7, <1>8 DEF Replies
<1>10. Calls' /\ Ready'
  BY <1>1, <1>2 DEF Calls, Ready, Closed
<1> QED
  BY <1>9, <1>10

(* A new connection gets a number nobody replies to. *)
LEMMA StartSyncReplies ==
  ASSUME ReplyInv, AllWell', StartSync
  PROVE  (Replies /\ Calls /\ Ready)'
<1>0. PostmanInv
  BY DEF ReplyInv
<1>1. /\ incoming = <<>> /\ incoming' = incoming /\ conn' = conn /\ up' = up /\ down' = down
      /\ got' = got /\ outgoing' = outgoing /\ pool' = pool /\ taken' = taken
      /\ spoilt' = spoilt
      /\ todo' = connected_fds /\ ready' = {fd \in connected_fds : Readable(fd)}
  BY DEF StartSync, NothingToReceive, clientVars, queueVars, asmVars, serverVars
<1>2. AllWell /\ Replies
  BY <1>1 DEF AllWell, ReplyInv
<1>3. \A fd \in Fd : owner[fd] # NoConn => owner'[fd] = owner[fd]
  <2>1. CASE backlog = <<>>
    BY <2>1 DEF StartSync
  <2>2. CASE backlog # <<>>
    <3> DEFINE new == Least(Fd \ connected_fds)
    <3>1. new \in Fd /\ owner[new] = NoConn
      BY <1>0, <2>2, FreeNumber
    <3>2. owner' = [owner EXCEPT ![new] = Head(backlog)]
      BY <2>2 DEF StartSync
    <3> HIDE DEF new
    <3> QED
      BY <1>0, <3>1, <3>2 DEF PostmanInv, TypeOK
  <2> QED
    BY <2>1, <2>2
<1>4. \A t \in pool : t.fd \in Fd /\ t.from \in Conn
  BY <1>0, <1>2, WellCalls
<1>5. \A t \in pool :
        /\ owner'[t.fd] = t.from /\ conn[t.from] = "calling" /\ taken[t.from] = 1
        /\ outgoing[t.fd] = <<>> /\ down[t.from] = <<>>
  BY <1>2, <1>3, <1>4, PostmanAssumption DEF Replies
<1>6. \A fd \in Fd : outgoing[fd] # <<>> =>
        /\ owner'[fd] \in Conn /\ outgoing[fd] = <<Message(owner'[fd])>>
        /\ conn[owner'[fd]] = "calling" /\ taken[owner'[fd]] = 1 /\ down[owner'[fd]] = <<>>
  <2> SUFFICES ASSUME NEW fd \in Fd, outgoing[fd] # <<>>
               PROVE  /\ owner'[fd] \in Conn /\ outgoing[fd] = <<Message(owner'[fd])>>
                      /\ conn[owner'[fd]] = "calling" /\ taken[owner'[fd]] = 1
                      /\ down[owner'[fd]] = <<>>
    OBVIOUS
  <2>1. /\ owner[fd] \in Conn /\ outgoing[fd] = <<Message(owner[fd])>>
        /\ conn[owner[fd]] = "calling" /\ taken[owner[fd]] = 1 /\ down[owner[fd]] = <<>>
    BY <1>2 DEF Replies
  <2>2. owner'[fd] = owner[fd]
    BY <1>3, <2>1, PostmanAssumption
  <2> QED
    BY <2>1, <2>2
<1>7. /\ \A d \in Conn : down[d] # <<>> =>
           Head(down[d]) = Message(d) /\ conn[d] = "calling" /\ taken[d] = 1
      /\ \A d \in Conn : got[d] # <<>> => got[d] = Message(d)
      /\ \A d \in Conn : conn[d] = "done" => taken[d] = 1
  BY <1>2 DEF Replies
<1>8. \A d : Message(d)' = Message(d)
  BY DEF Message
<1>9. Replies'
  BY <1>1, <1>5, <1>6, <1>7, <1>8 DEF Replies
<1>10. Calls'
  BY <1>1 DEF Calls
<1>11. Ready'
  BY <1>1, <1>3 DEF Ready, Readable, Closed, connected_fds
<1> QED
  BY <1>9, <1>10, <1>11

(* The number of a connection is given back when its client has its reply,  *)
(* and then nobody replies to that number any more.                         *)
LEMMA DisconnectReplies ==
  ASSUME ReplyInv, AllWell', SyncDisconnect
  PROVE  (Replies /\ Calls /\ Ready)'
<1> DEFINE old == Least(todo)
<1>0. PostmanInv
  BY DEF ReplyInv
<1>1. /\ incoming' = incoming /\ conn' = conn /\ up' = up /\ down' = down
      /\ got' = got /\ outgoing' = outgoing /\ pool' = pool /\ taken' = taken
      /\ spoilt \subseteq spoilt'
      /\ todo' = {} /\ todo # {} /\ old \in ready /\ up[owner[old]] = <<>>
      /\ owner' = [owner EXCEPT ![old] = NoConn]
  BY DEF SyncDisconnect, LeaveLoop, clientVars, wireVars, queueVars, asmVars, serverVars
<1>2. AllWell /\ Replies /\ Calls /\ Ready
  BY <1>1 DEF AllWell, ReplyInv
<1>3. old \in todo /\ old \in Fd /\ owner[old] \in Conn
  <2>1. todo \subseteq Fd
    BY <1>0 DEF PostmanInv, TypeOK, connected_fds
  <2>2. old \in todo
    BY <1>1, <2>1, LeastIn
  <2> QED
    BY <1>0, <2>2 DEF PostmanInv, TypeOK, connected_fds
<1> HIDE DEF old
<1>4. conn[owner[old]] # "calling"
  <2>1. Closed(owner[old])
    BY <1>1, <1>2, <1>3 DEF Ready
  <2> QED
    BY <2>1 DEF Closed
<1>5. \A fd \in Fd : fd # old => owner'[fd] = owner[fd]
  BY <1>0, <1>1, <1>3 DEF PostmanInv, TypeOK
<1>6. \A t \in pool : t.fd \in Fd /\ t.from \in Conn
  BY <1>0, <1>2, WellCalls
<1>7. \A t \in pool :
        /\ owner'[t.fd] = t.from /\ conn[t.from] = "calling" /\ taken[t.from] = 1
        /\ outgoing[t.fd] = <<>> /\ down[t.from] = <<>>
  BY <1>2, <1>4, <1>5, <1>6 DEF Replies
<1>8. \A fd \in Fd : outgoing[fd] # <<>> =>
        /\ owner'[fd] \in Conn /\ outgoing[fd] = <<Message(owner'[fd])>>
        /\ conn[owner'[fd]] = "calling" /\ taken[owner'[fd]] = 1 /\ down[owner'[fd]] = <<>>
  <2> SUFFICES ASSUME NEW fd \in Fd, outgoing[fd] # <<>>
               PROVE  /\ owner'[fd] \in Conn /\ outgoing[fd] = <<Message(owner'[fd])>>
                      /\ conn[owner'[fd]] = "calling" /\ taken[owner'[fd]] = 1
                      /\ down[owner'[fd]] = <<>>
    OBVIOUS
  <2>1. /\ owner[fd] \in Conn /\ outgoing[fd] = <<Message(owner[fd])>>
        /\ conn[owner[fd]] = "calling" /\ taken[owner[fd]] = 1 /\ down[owner[fd]] = <<>>
    BY <1>2 DEF Replies
  <2>2. owner'[fd] = owner[fd]
    BY <1>4, <1>5, <2>1
  <2> QED
    BY <2>1, <2>2
<1>9. /\ \A d \in Conn : down[d] # <<>> =>
           Head(down[d]) = Message(d) /\ conn[d] = "calling" /\ taken[d] = 1
      /\ \A d \in Conn : got[d] # <<>> => got[d] = Message(d)
      /\ \A d \in Conn : conn[d] = "done" => taken[d] = 1
  BY <1>2 DEF Replies
<1>10. \A d : Message(d)' = Message(d)
  BY DEF Message
<1>11. Replies'
  BY <1>1, <1>7, <1>8, <1>9, <1>10 DEF Replies
<1>12. Calls' /\ Ready'
  BY <1>1, <1>2 DEF Calls, Ready
<1> QED
  BY <1>11, <1>12

(* A call in incoming has not been taken; stated of the next state.         *)
Untaken == \A i \in 1 .. Len(incoming) : taken[incoming[i].from] = 0

LEMMA UntakenNow == PostmanInv /\ AllWell => Untaken
  BY WellCalls DEF Untaken

LEMMA UntakenNext == PostmanInv' /\ AllWell' => Untaken'
  BY UntakenNow, PTL

(* A read takes parts of a client that waits, or gave its call to others. *)
LEMMA SyncReadReplies ==
  ASSUME ReplyInv, AllWell', NEW n \in 1 .. Parts, NEW said \in {Parts} \cup GarbageSize,
         SyncRead(n, said)
  PROVE  (Replies /\ Calls /\ Ready)'
<1>0. PostmanInv /\ PostmanInv'
  <2>1. PostmanInv
    BY DEF ReplyInv
  <2> QED
    BY <2>1, SyncReadType, SyncReadStep
<1>1. /\ conn' = conn /\ got' = got /\ owner' = owner /\ ready' = ready
      /\ pool' = pool /\ taken' = taken /\ spoilt \subseteq spoilt'
  BY DEF SyncRead, clientVars, serverVars
<1>2. AllWell /\ Replies /\ Calls /\ Ready
  BY <1>1 DEF AllWell, ReplyInv
<1>3. Replies'
  <2>1. Least(todo) \in Fd
    <3>1. todo # {} /\ todo \subseteq Fd
      BY <1>0 DEF SyncRead, PostmanInv, TypeOK, connected_fds
    <3> QED
      BY <3>1, LeastIn
  <2>2. flush(Least(todo))
    BY DEF SyncRead, SyncFlush
  <2> QED
    BY <1>0, <1>1, <1>2, <2>1, <2>2, FlushReplies
<1>4. PICK fd \in Fd, c \in Conn : \E m \in 1 .. n : \E message \in Seq(Part) :
        ReadSplit(fd, c, m, n, message)
  BY <1>0, ReadFacts
<1>5. PICK m \in 1 .. n : \E message \in Seq(Part) : ReadSplit(fd, c, m, n, message)
  BY <1>4
<1>6. PICK message \in Seq(Part) : ReadSplit(fd, c, m, n, message)
  BY <1>5
<1>7. Calls'
  <2>1. CASE incoming' = incoming
    BY <1>1, <1>2, <2>1 DEF Calls
  <2>2. CASE incoming' = Append(incoming, [fd |-> fd, from |-> c, body |-> message])
    <3> DEFINE request == [fd |-> fd, from |-> c, body |-> message]
               last == Len(incoming) + 1
    <3>1. request \in Request /\ request.from = c /\ incoming \in Seq(Request)
      BY <1>0 DEF Request, PostmanInv, TypeOK
    <3> HIDE DEF request
    <3>2. /\ Len(incoming) \in Nat /\ Len(incoming') = last
          /\ incoming'[last] = request
          /\ \A i \in 1 .. Len(incoming) : incoming'[i] = incoming[i]
      BY <2>2, <3>1, AppendProperties DEF request
    <3>3. \A i \in 1 .. Len(incoming') : i \in 1 .. Len(incoming) \/ i = last
      BY <3>2
    <3>4. taken[c] = 0
      <4>1. last \in 1 .. Len(incoming')
        BY <3>2
      <4>2. AllWell'
        OBVIOUS
      <4>3. \A i \in 1 .. Len(incoming') : taken'[incoming'[i].from] = 0
        BY <1>0, <4>2, UntakenNext DEF Untaken
      <4> QED
        BY <1>1, <3>1, <3>2, <4>1, <4>3
    <3>5. conn[c] = "calling"
      <4>1. up[c] # <<>>
        BY <1>0, <1>6, PartTypes DEF ReadSplit, Split, PostmanInv
      <4>2. conn[c] \notin {"none", "open"}
        BY <1>0, <4>1 DEF PostmanInv, Unsent
      <4>3. conn[c] # "done"
        BY <1>2, <3>4 DEF Replies
      <4>4. conn[c] \in ClientPhase
        BY <1>0 DEF PostmanInv, TypeOK
      <4> QED
        BY <1>2, <4>2, <4>3, <4>4 DEF AllWell, ClientPhase
    <3> QED
      BY <1>1, <1>2, <3>1, <3>2, <3>3, <3>5 DEF Calls
  <2> QED
    BY <1>6, <2>1, <2>2 DEF ReadSplit, HandsOver, Keeps, Forgets
<1>8. Ready'
  <2> SUFFICES ASSUME NEW gd \in todo', gd \in ready
               PROVE  up'[owner[gd]] # <<>> \/ Closed(owner[gd])'
    BY <1>1 DEF Ready
  <2>1. gd \in todo /\ gd # fd /\ owner[fd] = c
    BY <1>6 DEF ReadSplit, Split
  <2>2. gd \in Fd /\ owner[gd] \in Conn
    BY <1>0, <2>1 DEF PostmanInv, TypeOK, connected_fds
  <2>3. owner[gd] # c
    BY <1>0, <2>1, <2>2, PostmanAssumption DEF PostmanInv, OwnersDiffer
  <2>4. up'[owner[gd]] = up[owner[gd]]
    BY <1>0, <1>6, <2>2, <2>3 DEF ReadSplit, Split, PostmanInv, TypeOK
  <2> QED
    BY <1>1, <1>2, <2>1, <2>4 DEF Ready, Closed
<1> QED
  BY <1>3, <1>7, <1>8

(* A turn of the loop that only flushes, and a flush by a thread.           *)
LEMMA FlushingReplies ==
  ASSUME ReplyInv, AllWell', NEW fd \in Fd, flush(fd),
         conn' = conn, got' = got, up' = up, owner' = owner, pool' = pool, taken' = taken,
         incoming' = incoming, ready' = ready, todo' \subseteq todo, spoilt' = spoilt
  PROVE  (Replies /\ Calls /\ Ready)'
<1>1. PostmanInv /\ AllWell /\ Replies /\ Calls /\ Ready
  BY DEF AllWell, ReplyInv
<1>2. Replies'
  BY <1>1, FlushReplies
<1>3. Calls' /\ Ready'
  BY <1>1 DEF Calls, Ready, Closed
<1> QED
  BY <1>2, <1>3

LEMMA ReplyInit == Init => ReplyInv
<1> SUFFICES ASSUME Init PROVE ReplyInv
  OBVIOUS
<1>1. Replies
  BY DEF Init, Replies
<1>2. Calls /\ Ready
  BY DEF Init, Calls, Ready
<1> QED
  BY <1>1, <1>2, PostmanInit DEF ReplyInv

LEMMA ReplyStep == ReplyInv /\ [Next]_vars => ReplyInv'
<1> SUFFICES ASSUME ReplyInv, [Next]_vars, AllWell' PROVE (Replies /\ Calls /\ Ready)'
  BY PostmanStep DEF ReplyInv
<1>0. PostmanInv
  BY DEF ReplyInv
<1>1. ASSUME NEW c \in Conn,
             \/ Connect(c) \/ SendExecute(c) \/ \E k \in 1 .. Parts - 1 : ShortWrite(c, k)
             \/ ReadReply(c) \/ Die(c)
      PROVE  (Replies /\ Calls /\ Ready)'
  <2>1. CASE Connect(c) \/ SendExecute(c)
    BY <2>1, CallReplies
  <2>2. CASE (\E k \in 1 .. Parts - 1 : ShortWrite(c, k)) \/ Die(c)
    <3>1. conn' = [conn EXCEPT ![c] = "failed"] \/ conn' = [conn EXCEPT ![c] = "dead"]
      BY <2>2 DEF ShortWrite, Die
    <3>2. conn'[c] \in {"dead", "failed"}
      BY <1>0, <3>1 DEF PostmanInv, TypeOK
    <3> QED
      BY <3>2 DEF AllWell
  <2>3. CASE ReadReply(c)
    BY <2>3, ReadReplyReplies
  <2> QED
    BY <1>1, <2>1, <2>2, <2>3
<1>2. CASE MainThread
  <2>1. CASE AcceptCall \/ RejectCall \/ DropRequest
    BY <2>1, TakeReplies, DropReplies
  <2>2. CASE FlushRejection
    <3>1. replying \in Fd /\ flush(replying)
      BY <1>0, <2>2 DEF FlushRejection, PostmanInv, TypeOK
    <3> QED
      BY <2>2, <3>1, FlushingReplies DEF FlushRejection, asmVars, clientVars, syncVars
  <2>3. CASE StartSync
    BY <2>3, StartSyncReplies
  <2>4. ASSUME NEW n \in 1 .. Parts, NEW said \in {Parts} \cup GarbageSize, SyncRead(n, said)
        PROVE  (Replies /\ Calls /\ Ready)'
    BY <2>4, SyncReadReplies
  <2>5. CASE SyncIdle
    <3>1. Least(todo) \in Fd
      <4>1. todo # {} /\ todo \subseteq Fd
        BY <1>0, <2>5 DEF SyncIdle, PostmanInv, TypeOK, connected_fds
      <4> QED
        BY <4>1, LeastIn
    <3>2. flush(Least(todo)) /\ todo' \subseteq todo
      BY <2>5 DEF SyncIdle, SyncFlush
    <3> QED
      BY <2>5, <3>1, <3>2, FlushingReplies DEF SyncIdle, asmVars, clientVars, serverVars
  <2>6. CASE SyncDisconnect
    BY <2>6, DisconnectReplies
  <2> QED
    BY <1>2, <2>1, <2>2, <2>3, <2>4, <2>5, <2>6 DEF MainThread
<1>3. ASSUME NEW t \in pool, ReplyExecute(t) PROVE (Replies /\ Calls /\ Ready)'
  BY <1>3, ReplyExecuteReplies
<1>4. ASSUME NEW fd \in Fd, FlushReply(fd) PROVE (Replies /\ Calls /\ Ready)'
  BY <1>4, FlushingReplies DEF FlushReply, asmVars, clientVars, syncVars
<1>5. CASE UNCHANGED vars
  <2>1. /\ conn' = conn /\ got' = got /\ up' = up /\ down' = down /\ owner' = owner
        /\ incoming' = incoming /\ outgoing' = outgoing /\ todo' = todo /\ ready' = ready
        /\ pool' = pool /\ taken' = taken /\ spoilt' = spoilt
    BY <1>5 DEF vars, clientVars, wireVars, queueVars, asmVars, syncVars, serverVars
  <2>2. Replies /\ Calls /\ Ready
    BY <2>1 DEF AllWell, ReplyInv
  <2>3. Replies'
    BY <1>0, <2>1, <2>2, RepliesStay
  <2> QED
    BY <2>1, <2>2, <2>3 DEF Calls, Ready, Closed
<1> QED
  BY <1>1, <1>2, <1>3, <1>4, <1>5 DEF Next

(* Every client takes the reply to its own call, as long as no client dies, *)
(* or fails to write, with its call under way, and no header is cut: the    *)
(* number a thread replies to is given back only when its client has its    *)
(* reply (Task::run, sync).                                                 *)
THEOREM RepliesOwn == Spec => []OwnReply
<1>1. ReplyInv => OwnReply
  BY DEF ReplyInv, AllWell, Replies, OwnReply
<1> QED
  BY <1>1, ReplyInit, ReplyStep, PTL DEF Spec
=============================================================================
