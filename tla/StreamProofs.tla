------------------------------ MODULE StreamProofs ------------------------------
(***************************************************************************)
(* Theorems about the two streams of bytes: the messages of the string     *)
(* service, however they are cut, and the arguments of a call.             *)
(***************************************************************************)
EXTENDS StringChannel, Marshal, SequenceTheorems, WellFoundedInduction, TLAPS

-----------------------------------------------------------------------------
(* Induction over numbers: a set of numbers has a least one. *)

LessThan == {p \in Nat \X Nat : p[1] < p[2]}

LEMMA LessThanWellFounded == IsWellFoundedOn(LessThan, Nat)
<1>1. LessThan = OpToRel(<, Nat)
  BY Zenon DEF OpToRel, LessThan
<1> QED
  BY <1>1, NatLessThanWellFounded

LEMMA LeastNumber ==
  ASSUME NEW T, T \subseteq Nat, T # {}
  PROVE  \E n \in T : \A m \in T : n =< m
<1>1. PICK n \in T : \A m \in T : ~ (<<m, n>> \in LessThan)
  BY LessThanWellFounded, WFMin, Zenon
<1>2. ASSUME NEW m \in T PROVE n =< m
  <2>1. <<m, n>> \in Nat \X Nat /\ <<m, n>>[1] = m /\ <<m, n>>[2] = n
    OBVIOUS
  <2>2. ~ (m < n)
    BY <1>1, <2>1, Zenon DEF LessThan
  <2> QED
    BY <2>2
<1> QED
  BY <1>2

-----------------------------------------------------------------------------
(* Sequences that are cut and put together. *)

(* Four parts, and where each is in the whole. *)
FourOf(all, p, r, w, q) ==
  /\ Len(all) = Len(p) + Len(r) + Len(w) + Len(q)
  /\ \A i \in 1 .. Len(all) :
       all[i] = IF i =< Len(p) THEN p[i]
                ELSE IF i =< Len(p) + Len(r) THEN r[i - Len(p)]
                ELSE IF i =< Len(p) + Len(r) + Len(w) THEN w[i - Len(p) - Len(r)]
                ELSE q[i - Len(p) - Len(r) - Len(w)]

LEMMA FourParts ==
  ASSUME NEW S, NEW p \in Seq(S), NEW r \in Seq(S), NEW w \in Seq(S), NEW q \in Seq(S)
  PROVE  p \o r \o w \o q \in Seq(S) /\ FourOf(p \o r \o w \o q, p, r, w, q)
<1>1. Len(p) \in Nat /\ Len(r) \in Nat /\ Len(w) \in Nat /\ Len(q) \in Nat
  BY LenProperties
<1>2. /\ p \o r \in Seq(S)
      /\ Len(p \o r) = Len(p) + Len(r)
      /\ \A i \in 1 .. Len(p) + Len(r) : (p \o r)[i] = IF i =< Len(p) THEN p[i] ELSE r[i - Len(p)]
  BY ConcatProperties
<1>3. /\ (p \o r) \o w \in Seq(S)
      /\ Len((p \o r) \o w) = Len(p \o r) + Len(w)
      /\ \A i \in 1 .. Len(p \o r) + Len(w) :
           ((p \o r) \o w)[i] = IF i =< Len(p \o r) THEN (p \o r)[i] ELSE w[i - Len(p \o r)]
  BY <1>2, ConcatProperties
<1>4. /\ ((p \o r) \o w) \o q \in Seq(S)
      /\ Len(((p \o r) \o w) \o q) = Len((p \o r) \o w) + Len(q)
      /\ \A i \in 1 .. Len((p \o r) \o w) + Len(q) :
           (((p \o r) \o w) \o q)[i] =
             IF i =< Len((p \o r) \o w) THEN ((p \o r) \o w)[i] ELSE q[i - Len((p \o r) \o w)]
  BY <1>3, ConcatProperties
<1>5. Len((p \o r) \o w) = Len(p) + Len(r) + Len(w)
  BY <1>2, <1>3
<1>6. ASSUME NEW i \in 1 .. Len(p) + Len(r) + Len(w) + Len(q)
      PROVE  (((p \o r) \o w) \o q)[i] =
                IF i =< Len(p) THEN p[i]
                ELSE IF i =< Len(p) + Len(r) THEN r[i - Len(p)]
                ELSE IF i =< Len(p) + Len(r) + Len(w) THEN w[i - Len(p) - Len(r)]
                ELSE q[i - Len(p) - Len(r) - Len(w)]
  <2>1. CASE i > Len(p) + Len(r) + Len(w)
    BY <1>1, <1>4, <1>5, <2>1
  <2>2. CASE i =< Len(p) + Len(r) + Len(w)
    <3>1. (((p \o r) \o w) \o q)[i] = ((p \o r) \o w)[i]
      BY <1>1, <1>4, <1>5, <2>2
    <3>2. CASE i > Len(p) + Len(r)
      BY <1>1, <1>2, <1>3, <2>2, <3>1, <3>2
    <3>3. CASE i =< Len(p) + Len(r)
      <4>1. ((p \o r) \o w)[i] = (p \o r)[i]
        BY <1>1, <1>2, <1>3, <3>3
      <4> QED
        BY <1>1, <1>2, <3>1, <3>3, <4>1
    <3> QED
      BY <1>1, <3>2, <3>3
  <2> QED
    BY <1>1, <2>1, <2>2
<1>7. Len((p \o r \o w) \o q) = Len(p) + Len(r) + Len(w) + Len(q)
  BY <1>4, <1>5
<1> QED
  BY <1>4, <1>6, <1>7, Zenon DEF FourOf

-----------------------------------------------------------------------------
(* The bytes of the string service. *)

LEMMA InFirst ==
  ASSUME NEW p \in Seq(Byte), NEW r \in Seq(Byte), NEW w \in Seq(Byte), NEW q \in Seq(Byte),
         NEW i \in 1 .. Len(p)
  PROVE  (p \o r \o w \o q)[i] = p[i]
<1>1. Len(p) \in Nat /\ Len(r) \in Nat /\ Len(w) \in Nat /\ Len(q) \in Nat
  BY LenProperties
<1> DEFINE all == p \o r \o w \o q
<1>2. FourOf(all, p, r, w, q)
  BY FourParts
<1> HIDE DEF all
<1>3. all[i] = p[i]
  BY <1>1, <1>2 DEF FourOf
<1> QED
  BY <1>3 DEF all

LEMMA InSecond ==
  ASSUME NEW p \in Seq(Byte), NEW r \in Seq(Byte), NEW w \in Seq(Byte), NEW q \in Seq(Byte),
         NEW i \in 1 .. Len(r)
  PROVE  (p \o r \o w \o q)[Len(p) + i] = r[i]
<1>1. Len(p) \in Nat /\ Len(r) \in Nat /\ Len(w) \in Nat /\ Len(q) \in Nat
  BY LenProperties
<1> DEFINE all == p \o r \o w \o q
<1>2. FourOf(all, p, r, w, q)
  BY FourParts
<1> HIDE DEF all
<1>3. all[Len(p) + i] = r[i]
  BY <1>1, <1>2 DEF FourOf
<1> QED
  BY <1>3 DEF all

LEMMA Bytes ==
  /\ Char \subseteq Byte /\ Nul \in Byte /\ \A n \in Nat : Size(n) \in Byte
  /\ Nul \notin Char
  /\ \A char \in Char : ~ IsSize(char)
  /\ ~ IsSize(Nul)
  /\ \A n \in Nat : IsSize(Size(n)) /\ Size(n)[2] = n
BY DEF Char, Byte, Nul, Size, IsSize

(* What one end has still to take in: what it has of a message, its buffer, *)
(* what is under way and the buffer of the other end.                       *)
Partial(request) ==
  IF request.data = <<>> THEN <<>> ELSE <<Size(request.size)>> \o request.data

Stream(end) == Partial(requests[end]) \o read_buf[end] \o wire[end] \o write_buf[Other(end)]

Encoded(str) == <<Size(Len(str) + 1)>> \o str \o <<Nul>>

(* The message is in the stream, after its first p bytes.                   *)
MessageAt(stream, p, str) ==
  /\ stream[p + 1] = Size(Len(str) + 1)
  /\ \A j \in 1 .. Len(str) : stream[p + 1 + j] = str[j]
  /\ stream[p + Len(str) + 2] = Nul

(* The stream is the messages a + 1 to b; cut says where they end.          *)
Cuts(cut, stream, msgs, a, b) ==
  /\ cut \in [a .. b -> 0 .. Len(stream)]
  /\ cut[a] = 0 /\ cut[b] = Len(stream)
  /\ \A i, j \in a .. b : i =< j => cut[i] =< cut[j]
  /\ \A i \in a + 1 .. b :
       /\ cut[i] = cut[i - 1] + Len(msgs[i]) + 2
       /\ MessageAt(stream, cut[i - 1], msgs[i])

Framed(stream, msgs, a, b) == \E cut : Cuts(cut, stream, msgs, a, b)

Strings(msgs, a, b) == \A i \in a + 1 .. b : msgs[i] \in Seq(Char)

LEMMA EncodedBytes ==
  ASSUME NEW str \in Seq(Char)
  PROVE  /\ Encoded(str) \in Seq(Byte)
         /\ Len(Encoded(str)) = Len(str) + 2
         /\ Encoded(str)[1] = Size(Len(str) + 1)
         /\ \A j \in 1 .. Len(str) : Encoded(str)[1 + j] = str[j]
         /\ Encoded(str)[Len(str) + 2] = Nul
<1> DEFINE head == <<Size(Len(str) + 1)>>
           last == <<Nul>>
           none == <<>>
<1>1. Len(str) \in Nat /\ str \in Seq(Byte)
  BY Bytes, LenProperties, SeqMonotonic
<1>2. /\ head \in Seq(Byte) /\ Len(head) = 1 /\ head[1] = Size(Len(str) + 1)
      /\ last \in Seq(Byte) /\ Len(last) = 1 /\ last[1] = Nul
  BY <1>1, Bytes
<1>3. /\ head \o str \in Seq(Byte)
      /\ Len(head \o str) = Len(head) + Len(str)
      /\ \A i \in 1 .. Len(head) + Len(str) :
           (head \o str)[i] = IF i =< Len(head) THEN head[i] ELSE str[i - Len(head)]
  BY <1>1, <1>2, ConcatProperties
<1>4. /\ (head \o str) \o last \in Seq(Byte)
      /\ Len((head \o str) \o last) = Len(head \o str) + Len(last)
      /\ \A i \in 1 .. Len(head \o str) + Len(last) :
           ((head \o str) \o last)[i] =
             IF i =< Len(head \o str) THEN (head \o str)[i] ELSE last[i - Len(head \o str)]
  BY <1>2, <1>3, ConcatProperties
<1>5. Encoded(str) = (head \o str) \o last
  BY DEF Encoded
<1> HIDE DEF head, last
<1>6. ASSUME NEW i \in 1 .. Len(str) + 1
      PROVE  Encoded(str)[i] = IF i = 1 THEN Size(Len(str) + 1) ELSE str[i - 1]
  BY <1>1, <1>2, <1>3, <1>4, <1>5
<1>7. Encoded(str)[Len(str) + 2] = Nul
  BY <1>1, <1>2, <1>3, <1>4, <1>5
<1>8. Encoded(str)[1] = Size(Len(str) + 1)
  BY <1>1, <1>6
<1>9. ASSUME NEW j \in 1 .. Len(str) PROVE Encoded(str)[1 + j] = str[j]
  BY <1>1, <1>6
<1> QED
  BY <1>1, <1>2, <1>3, <1>4, <1>5, <1>7, <1>8, <1>9

StreamTyped(p, r, w, q) ==
  p \o r \o w \o q \in Seq(Byte) /\ (r # <<>> => p \o r \o w \o q # <<>>)

LEMMA PartsOfStream ==
  ASSUME NEW p \in Seq(Byte), NEW r \in Seq(Byte), NEW w \in Seq(Byte), NEW q \in Seq(Byte)
  PROVE  StreamTyped(p, r, w, q)
<1>1. Len(p) \in Nat /\ Len(r) \in Nat /\ Len(w) \in Nat /\ Len(q) \in Nat
  BY LenProperties
<1>5. p \o r \o w \o q \in Seq(Byte) /\ FourOf(p \o r \o w \o q, p, r, w, q)
  BY FourParts
<1>2. p \o r \o w \o q \in Seq(Byte) /\ Len(p \o r \o w \o q) = Len(p) + Len(r) + Len(w) + Len(q)
  BY <1>5, Zenon DEF FourOf
<1>3. r # <<>> => Len(r) # 0
  BY EmptySeq
<1>4. r # <<>> => Len(p \o r \o w \o q) # 0
  BY <1>1, <1>2, <1>3
<1> QED
  BY <1>2, <1>4 DEF StreamTyped

LEMMA MessageKept ==
  ASSUME NEW stream \in Seq(Byte), NEW more \in Seq(Byte), NEW p \in Nat, NEW str \in Seq(Char),
         p + Len(str) + 2 =< Len(stream), MessageAt(stream, p, str)
  PROVE  MessageAt(stream \o more, p, str)
<1>1. Len(stream) \in Nat /\ Len(more) \in Nat /\ Len(str) \in Nat
  BY LenProperties
<1>2. \A i \in 1 .. Len(stream) + Len(more) :
        (stream \o more)[i] = IF i =< Len(stream) THEN stream[i] ELSE more[i - Len(stream)]
  BY ConcatProperties
<1>3. \A i \in 1 .. Len(stream) : (stream \o more)[i] = stream[i]
  BY <1>1, <1>2
<1>4. /\ p + 1 \in 1 .. Len(stream) /\ p + Len(str) + 2 \in 1 .. Len(stream)
      /\ \A j \in 1 .. Len(str) : p + 1 + j \in 1 .. Len(stream)
  BY <1>1
<1> QED
  BY <1>3, <1>4, Zenon DEF MessageAt

LEMMA FramedAppend ==
  ASSUME NEW stream \in Seq(Byte), NEW msgs, NEW a \in Nat, NEW b \in Nat, a =< b,
         Strings(msgs, a, b + 1), Framed(stream, msgs, a, b)
  PROVE  Framed(stream \o Encoded(msgs[b + 1]), msgs, a, b + 1)
<1> DEFINE str == msgs[b + 1]
           more == Encoded(str)
           all == stream \o more
<1>1. PICK cut : Cuts(cut, stream, msgs, a, b)
  BY DEF Framed
<1>2. /\ cut \in [a .. b -> 0 .. Len(stream)]
      /\ cut[a] = 0 /\ cut[b] = Len(stream)
      /\ \A i, j \in a .. b : i =< j => cut[i] =< cut[j]
      /\ \A i \in a + 1 .. b :
           /\ cut[i] = cut[i - 1] + Len(msgs[i]) + 2
           /\ MessageAt(stream, cut[i - 1], msgs[i])
  BY <1>1 DEF Cuts
<1>3. b + 1 \in a + 1 .. b + 1 /\ \A i \in a + 1 .. b : i \in a + 1 .. b + 1
  OBVIOUS
<1>4. str \in Seq(Char) /\ \A i \in a + 1 .. b : msgs[i] \in Seq(Char)
  BY <1>3, Zenon DEF Strings
<1>5. Len(stream) \in Nat /\ Len(str) \in Nat
  BY <1>4, LenProperties
<1>6. /\ more \in Seq(Byte) /\ Len(more) = Len(str) + 2
      /\ more[1] = Size(Len(str) + 1)
      /\ \A j \in 1 .. Len(str) : more[1 + j] = str[j]
      /\ more[Len(str) + 2] = Nul
  BY <1>4, EncodedBytes
<1> HIDE DEF more
<1>7. /\ all \in Seq(Byte) /\ Len(all) = Len(stream) + Len(more)
      /\ \A i \in 1 .. Len(stream) + Len(more) :
           all[i] = IF i =< Len(stream) THEN stream[i] ELSE more[i - Len(stream)]
  BY <1>6, ConcatProperties
<1> HIDE DEF all
<1>8. MessageAt(all, Len(stream), str)
  <2>1. ASSUME NEW i \in 1 .. Len(more) PROVE all[Len(stream) + i] = more[i]
    <3>1. Len(more) \in Nat
      BY <1>6, LenProperties
    <3>2. /\ Len(stream) + i \in 1 .. Len(stream) + Len(more)
          /\ ~ (Len(stream) + i =< Len(stream)) /\ (Len(stream) + i) - Len(stream) = i
      BY <1>5, <3>1
    <3> QED
      BY <1>7, <3>2, Zenon
  <2>2. 1 \in 1 .. Len(more) /\ Len(str) + 2 \in 1 .. Len(more)
    BY <1>5, <1>6
  <2>3. all[Len(stream) + 1] = Size(Len(str) + 1)
    BY <1>6, <2>1, <2>2
  <2>4. ASSUME NEW j \in 1 .. Len(str) PROVE all[Len(stream) + 1 + j] = str[j]
    <3>1. Len(more) = Len(str) + 2
      BY <1>6
    <3>2. 1 + j \in 1 .. Len(more)
      BY <1>5, <3>1
    <3>3. Len(stream) + 1 + j = Len(stream) + (1 + j)
      BY <1>5
    <3> QED
      BY <1>6, <2>1, <3>2, <3>3, Zenon
  <2>5. all[Len(stream) + Len(str) + 2] = Nul
    <3>1. Len(stream) + Len(str) + 2 = Len(stream) + (Len(str) + 2)
      BY <1>5
    <3>2. all[Len(stream) + (Len(str) + 2)] = more[Len(str) + 2]
      BY <2>1, <2>2, Zenon
    <3> QED
      BY <1>6, <3>1, <3>2, Zenon
  <2> QED
    BY <2>3, <2>4, <2>5 DEF MessageAt
<1> DEFINE cuts == [i \in a .. b + 1 |-> IF i =< b THEN cut[i] ELSE Len(all)]
<1>9. /\ \A i \in a .. b : cuts[i] = cut[i] /\ cut[i] \in 0 .. Len(stream)
      /\ cuts[b + 1] = Len(all)
  BY <1>2
<1>10. cuts \in [a .. b + 1 -> 0 .. Len(all)]
  <2>1. Len(all) \in Nat /\ Len(stream) =< Len(all)
    BY <1>5, <1>6, <1>7
  <2>2. ASSUME NEW i \in a .. b + 1
        PROVE  (IF i =< b THEN cut[i] ELSE Len(all)) \in 0 .. Len(all)
    <3>1. CASE i =< b
      <4>1. i \in a .. b
        BY <3>1
      <4>2. cut[i] \in 0 .. Len(stream)
        BY <1>2, <4>1
      <4> QED
        BY <1>5, <2>1, <3>1, <4>2
    <3>2. CASE ~ (i =< b)
      BY <2>1, <3>2
    <3> QED
      BY <3>1, <3>2
  <2> QED
    BY <2>2
<1> HIDE DEF cuts, str
<1>11. cuts[a] = 0
  BY <1>2, <1>9
<1>12. ASSUME NEW i \in a .. b + 1, NEW j \in a .. b + 1, i =< j PROVE cuts[i] =< cuts[j]
  <2>1. CASE j = b + 1
    BY <1>5, <1>6, <1>7, <1>9, <1>10, <2>1
  <2>2. CASE j # b + 1
    <3>1. i \in a .. b /\ j \in a .. b
      BY <1>12, <2>2
    <3> QED
      BY <1>2, <1>9, <1>12, <3>1, Zenon
  <2> QED
    BY <2>1, <2>2
<1>13. ASSUME NEW i \in a + 1 .. b + 1
       PROVE  /\ cuts[i] = cuts[i - 1] + Len(msgs[i]) + 2
              /\ MessageAt(all, cuts[i - 1], msgs[i])
  <2>1. CASE i = b + 1
    <3>1. b \in a .. b /\ i - 1 = b /\ msgs[i] = str
      BY <2>1 DEF str
    <3>2. cuts[i - 1] = Len(stream) /\ cuts[i] = Len(all)
      BY <1>2, <1>9, <2>1, <3>1, Zenon
    <3>3. Len(all) = Len(stream) + Len(str) + 2
      BY <1>5, <1>6, <1>7
    <3> QED
      BY <1>8, <3>1, <3>2, <3>3, Zenon
  <2>2. CASE i # b + 1
    <3>1. i \in a + 1 .. b /\ i - 1 \in a .. b /\ i \in a .. b
      BY <2>2
    <3>2. /\ cut[i] = cut[i - 1] + Len(msgs[i]) + 2
          /\ MessageAt(stream, cut[i - 1], msgs[i])
          /\ cuts[i] = cut[i] /\ cuts[i - 1] = cut[i - 1]
      BY <1>2, <1>9, <3>1, Zenon
    <3>3. msgs[i] \in Seq(Char) /\ Len(msgs[i]) \in Nat
      BY <1>4, <3>1, LenProperties
    <3>4. cut[i - 1] \in Nat /\ cut[i - 1] + Len(msgs[i]) + 2 =< Len(stream)
      <4>1. cut[i] \in 0 .. Len(stream) /\ cut[i - 1] \in 0 .. Len(stream)
        BY <1>9, <3>1, Zenon
      <4> QED
        BY <1>5, <3>2, <4>1
    <3>5. MessageAt(all, cut[i - 1], msgs[i])
      BY <1>6, <3>2, <3>3, <3>4, MessageKept, Zenon DEF all
    <3> QED
      BY <3>2, <3>5
  <2> QED
    BY <2>1, <2>2
<1>14. Cuts(cuts, all, msgs, a, b + 1)
  BY <1>9, <1>10, <1>11, <1>12, <1>13 DEF Cuts
<1> QED
  BY <1>14 DEF Framed, all, more, str

LEMMA FramedEmpty ==
  ASSUME NEW msgs, NEW a \in Nat
  PROVE  Framed(<<>>, msgs, a, a)
<1> DEFINE cut == [i \in a .. a |-> 0]
<1>1. Len(<<>>) = 0
  OBVIOUS
<1>2. cut \in [a .. a -> 0 .. 0] /\ cut[a] = 0 /\ \A i \in a .. a : cut[i] = 0
  OBVIOUS
<1>3. a + 1 .. a = {}
  OBVIOUS
<1> HIDE DEF cut
<1>4. Cuts(cut, <<>>, msgs, a, a)
  BY <1>1, <1>2, <1>3 DEF Cuts
<1> QED
  BY <1>4 DEF Framed

(* Only the messages a + 1 to b count.                                      *)
LEMMA FramedOther ==
  ASSUME NEW stream, NEW msgs, NEW others, NEW a \in Nat, NEW b \in Nat,
         \A i \in a + 1 .. b : others[i] = msgs[i],
         Framed(stream, msgs, a, b)
  PROVE  Framed(stream, others, a, b)
<1>1. PICK cut : Cuts(cut, stream, msgs, a, b)
  BY DEF Framed
<1>2. ASSUME NEW i \in a + 1 .. b
      PROVE  /\ cut[i] = cut[i - 1] + Len(others[i]) + 2
             /\ MessageAt(stream, cut[i - 1], others[i])
  BY <1>1, Zenon DEF Cuts
<1>3. Cuts(cut, stream, others, a, b)
  BY <1>1, <1>2, Zenon DEF Cuts
<1> QED
  BY <1>3 DEF Framed

(* The first message of a stream, and the stream behind it.                 *)
LEMMA FramedFirst ==
  ASSUME NEW stream \in Seq(Byte), stream # <<>>, NEW msgs, NEW a \in Nat, NEW b \in Nat,
         a =< b, Strings(msgs, a, b), Framed(stream, msgs, a, b)
  PROVE  /\ a < b
         /\ msgs[a + 1] \in Seq(Char)
         /\ MessageAt(stream, 0, msgs[a + 1])
         /\ Len(msgs[a + 1]) + 2 =< Len(stream)
<1>1. PICK cut : Cuts(cut, stream, msgs, a, b)
  BY DEF Framed
<1>2. Len(stream) \in Nat /\ Len(stream) # 0
  BY EmptySeq, LenProperties
<1>3. a < b
  <2>1. cut[a] = 0 /\ cut[b] = Len(stream)
    BY <1>1 DEF Cuts
  <2> QED
    BY <1>2, <2>1
<1>4. a + 1 \in a + 1 .. b /\ (a + 1) - 1 = a /\ a + 1 \in a .. b
  BY <1>3
<1>5. /\ cut[a] = 0 /\ cut[a + 1] = cut[a] + Len(msgs[a + 1]) + 2
      /\ MessageAt(stream, cut[a], msgs[a + 1])
      /\ cut[a + 1] \in 0 .. Len(stream)
  BY <1>1, <1>4 DEF Cuts
<1>6. msgs[a + 1] \in Seq(Char) /\ Len(msgs[a + 1]) \in Nat
  BY <1>4, LenProperties DEF Strings
<1> QED
  BY <1>2, <1>3, <1>5, <1>6

RestAfter(rest, seq, n) ==
  /\ rest \in Seq(Byte)
  /\ Len(rest) = Len(seq) - n
  /\ \A i \in 1 .. Len(rest) : rest[i] = seq[n + i]

LEMMA RestOf ==
  ASSUME NEW seq \in Seq(Byte), NEW n \in Nat, n =< Len(seq)
  PROVE  RestAfter(From(seq, n + 1), seq, n)
<1>1. Len(seq) \in Nat /\ \A i \in n + 1 .. Len(seq) : seq[i] \in Byte
  BY LenProperties, ElementOfSeq
<1>2. /\ SubSeq(seq, n + 1, Len(seq)) \in Seq(Byte)
      /\ Len(SubSeq(seq, n + 1, Len(seq))) =
           IF n + 1 =< Len(seq) THEN Len(seq) - (n + 1) + 1 ELSE 0
      /\ \A i \in 1 .. Len(seq) - (n + 1) + 1 :
           SubSeq(seq, n + 1, Len(seq))[i] = seq[n + 1 + i - 1]
  BY <1>1, SubSeqProperties
<1>3. From(seq, n + 1) = SubSeq(seq, n + 1, Len(seq))
  BY DEF From
<1>4. Len(From(seq, n + 1)) = Len(seq) - n
  BY <1>1, <1>2, <1>3
<1>5. ASSUME NEW i \in 1 .. Len(seq) - n PROVE From(seq, n + 1)[i] = seq[n + i]
  <2>1. i \in 1 .. Len(seq) - (n + 1) + 1 /\ n + 1 + i - 1 = n + i
    BY <1>1
  <2> QED
    BY <1>2, <1>3, <2>1, Zenon
<1> QED
  BY <1>2, <1>3, <1>4, <1>5 DEF RestAfter

LEMMA FramedRest ==
  ASSUME NEW stream \in Seq(Byte), stream # <<>>, NEW msgs, NEW a \in Nat, NEW b \in Nat,
         a =< b, Strings(msgs, a, b), Framed(stream, msgs, a, b),
         NEW rest, rest = From(stream, Len(msgs[a + 1]) + 3)
  PROVE  Framed(rest, msgs, a + 1, b)
<1>1. PICK cut : Cuts(cut, stream, msgs, a, b)
  BY DEF Framed
<1>2. /\ cut \in [a .. b -> 0 .. Len(stream)]
      /\ cut[a] = 0 /\ cut[b] = Len(stream)
      /\ \A i, j \in a .. b : i =< j => cut[i] =< cut[j]
      /\ \A i \in a + 1 .. b :
           /\ cut[i] = cut[i - 1] + Len(msgs[i]) + 2
           /\ MessageAt(stream, cut[i - 1], msgs[i])
  BY <1>1 DEF Cuts
<1>3. a < b /\ msgs[a + 1] \in Seq(Char)
  BY FramedFirst
<1>17. PICK first \in Nat : first = Len(msgs[a + 1]) + 2
  <2>1. Len(msgs[a + 1]) \in Nat
    BY <1>3, LenProperties
  <2> QED
    BY <2>1
<1>18. Len(stream) \in Nat
  BY LenProperties
<1>5. cut[a + 1] = first
  <2>1. a + 1 \in a + 1 .. b /\ (a + 1) - 1 = a
    BY <1>3
  <2>2. cut[a + 1] = cut[a] + Len(msgs[a + 1]) + 2
    BY <1>2, <2>1, Zenon
  <2>3. Len(msgs[a + 1]) \in Nat
    BY <1>3, LenProperties
  <2> QED
    BY <1>2, <1>17, <2>2, <2>3
<1>19. first =< Len(stream)
  BY <1>17, FramedFirst
<1>20. /\ rest \in Seq(Byte) /\ Len(rest) = Len(stream) - first
       /\ \A i \in 1 .. Len(rest) : rest[i] = stream[first + i]
  <2>1. rest = From(stream, first + 1)
    <3>1. Len(msgs[a + 1]) + 3 = first + 1
      BY <1>17
    <3> QED
      BY <3>1, Zenon
  <2>2. RestAfter(From(stream, first + 1), stream, first)
    BY <1>19, RestOf
  <2> QED
    BY <2>1, <2>2, Zenon DEF RestAfter
<1>4. Len(stream) \in Nat /\ Len(rest) \in Nat
  BY <1>18, <1>19, <1>20
<1>6. Len(rest) = Len(stream) - first
  BY <1>20
<1>16. \A i \in 1 .. Len(rest) : rest[i] = stream[first + i]
  BY <1>20
<1>7. ASSUME NEW i \in a + 1 .. b PROVE cut[i] \in first .. Len(stream)
  <2>1. a + 1 \in a .. b /\ i \in a .. b /\ a + 1 =< i
    BY <1>3
  <2>2. cut[a + 1] =< cut[i] /\ cut[i] \in 0 .. Len(stream)
    BY <1>2, <2>1
  <2> QED
    BY <1>4, <1>5, <2>2
<1> DEFINE cuts == [i \in a + 1 .. b |-> cut[i] - first]
<1>8. \A i \in a + 1 .. b : cuts[i] = cut[i] - first
  OBVIOUS
<1>9. cuts \in [a + 1 .. b -> 0 .. Len(rest)]
  <2>1. ASSUME NEW i \in a + 1 .. b PROVE cut[i] - first \in 0 .. Len(rest)
    BY <1>4, <1>6, <1>7
  <2> QED
    BY <2>1
<1> HIDE DEF cuts
<1>10. a + 1 \in a + 1 .. b /\ b \in a + 1 .. b
  BY <1>3
<1>11. cuts[a + 1] = 0 /\ cuts[b] = Len(rest)
  <2>1. cuts[a + 1] = cut[a + 1] - first /\ cuts[b] = cut[b] - first /\ cut[b] = Len(stream)
    BY <1>2, <1>8, <1>10, Zenon
  <2> QED
    BY <1>4, <1>5, <1>6, <2>1
<1>12. ASSUME NEW i \in a + 1 .. b, NEW j \in a + 1 .. b, i =< j PROVE cuts[i] =< cuts[j]
  <2>1. i \in a .. b /\ j \in a .. b
    OBVIOUS
  <2>2. cut[i] =< cut[j]
    BY <1>2, <1>12, <2>1
  <2>3. cut[i] \in Nat /\ cut[j] \in Nat
    BY <1>4, <1>7
  <2> QED
    BY <1>4, <1>8, <2>2, <2>3
<1>13. ASSUME NEW i \in a + 2 .. b
       PROVE  /\ cuts[i] = cuts[i - 1] + Len(msgs[i]) + 2
              /\ MessageAt(rest, cuts[i - 1], msgs[i])
  <2>1. i \in a + 1 .. b /\ i - 1 \in a + 1 .. b
    OBVIOUS
  <2>2. cut[i] = cut[i - 1] + Len(msgs[i]) + 2
    BY <1>2, <2>1, Zenon
  <2>15. MessageAt(stream, cut[i - 1], msgs[i])
    BY <1>2, <2>1, Zenon
  <2>3. msgs[i] \in Seq(Char)
    BY <2>1, Zenon DEF Strings
  <2>4. PICK m \in Nat : m = Len(msgs[i])
    BY <2>3, LenProperties
  <2>5. cut[i] \in first .. Len(stream) /\ cut[i - 1] \in first .. Len(stream)
    BY <1>7, <2>1, Zenon
  <2>6. cuts[i] = cut[i] - first /\ cuts[i - 1] = cut[i - 1] - first
    BY <1>8, <2>1, Zenon
  <2>17. cut[i] = cut[i - 1] + m + 2
    BY <2>2, <2>4
  <2>7. cuts[i] = cuts[i - 1] + m + 2
    BY <2>5, <2>6, <2>17
  <2>16. PICK p \in Nat : p = cuts[i - 1]
    BY <2>5, <2>6
  <2>18. cut[i - 1] = first + p
    BY <2>5, <2>6, <2>16
  <2>19. first + p + m + 2 =< Len(stream)
    BY <2>5, <2>17, <2>18
  <2>20. p + m + 2 =< Len(rest)
    BY <1>6, <1>18, <2>19
  <2>8. cut[i - 1] = first + p /\ p + m + 2 =< Len(rest)
    BY <2>18, <2>20
  <2>9. /\ stream[first + p + 1] = Size(m + 1)
        /\ \A j \in 1 .. m : stream[first + p + 1 + j] = msgs[i][j]
        /\ stream[first + p + m + 2] = Nul
    BY <2>4, <2>15, <2>8 DEF MessageAt
  <2>10. \A n \in 1 .. m + 2 : rest[p + n] = stream[first + p + n]
    <3>1. ASSUME NEW n \in 1 .. m + 2 PROVE rest[p + n] = stream[first + p + n]
      <4>1. p + n \in 1 .. Len(rest) /\ first + (p + n) = first + p + n
        <5>1. PICK l \in Nat : l = Len(rest)
          BY <1>4
        <5>2. p + m + 2 =< l
          BY <2>8, <5>1
        <5>3. p + n \in 1 .. l /\ first + (p + n) = first + p + n
          BY <5>2
        <5> QED
          BY <5>1, <5>3, Zenon
      <4> QED
        BY <1>16, <4>1, Zenon
    <3> QED
      BY <3>1
  <2>11. rest[p + 1] = Size(m + 1)
    <3>1. 1 \in 1 .. m + 2
      BY <2>4
    <3> QED
      BY <2>9, <2>10, <3>1, Zenon
  <2>12. ASSUME NEW j \in 1 .. m PROVE rest[p + 1 + j] = msgs[i][j]
    <3>1. /\ 1 + j \in 1 .. m + 2 /\ p + (1 + j) = p + 1 + j
          /\ first + p + (1 + j) = first + p + 1 + j
      BY <1>4, <2>4, <2>8
    <3> QED
      BY <2>9, <2>10, <3>1, Zenon
  <2>13. rest[p + m + 2] = Nul
    <3>1. /\ m + 2 \in 1 .. m + 2
          /\ p + (m + 2) = p + m + 2
          /\ first + p + (m + 2) = first + p + m + 2
      OBVIOUS
    <3> QED
      BY <2>9, <2>10, <3>1, Zenon
  <2>14. MessageAt(rest, p, msgs[i])
    BY <2>4, <2>11, <2>12, <2>13 DEF MessageAt
  <2> QED
    BY <2>4, <2>7, <2>14, <2>16
<1>14. (a + 1) + 1 = a + 2
  OBVIOUS
<1>15. Cuts(cuts, rest, msgs, a + 1, b)
  BY <1>9, <1>11, <1>12, <1>13, <1>14 DEF Cuts
<1> QED
  BY <1>15 DEF Framed

-----------------------------------------------------------------------------
(* A read that ends behind the header takes the next part of the message    *)
(* that the stream begins with.                                             *)

Whole(buf) == buf # <<>> => ~ IsSize(buf[Len(buf)])

TypedEnd(end) ==
  /\ read_buf[end] \in Seq(Byte) /\ wire[end] \in Seq(Byte) /\ write_buf[Other(end)] \in Seq(Byte)
  /\ requests[end] \in [size : Nat, data : Seq(Char)]

(* The stream as Header leaves it. *)
Layout(str, chars, rest, w, q) == (<<Size(Len(str) + 1)>> \o chars) \o rest \o w \o q

LEMMA HeaderRead ==
  ASSUME NEW end \in End, TypedEnd(end), read_buf[end] # <<>>, Whole(read_buf[end]),
         NEW str \in Seq(Char), MessageAt(Stream(end), 0, str)
  PROVE  /\ Header(end).size = Len(str) + 1
         /\ Header(end).data \in Seq(Char)
         /\ Header(end).rest \in Seq(Byte) /\ Header(end).rest # <<>> /\ Whole(Header(end).rest)
         /\ Stream(end) = Layout(str, Header(end).data, Header(end).rest,
                                 wire[end], write_buf[Other(end)])
<1> DEFINE rb == read_buf[end]
           w == wire[end]
           q == write_buf[Other(end)]
           request == requests[end]
           stream == Stream(end)
<1>1. /\ rb \in Seq(Byte) /\ w \in Seq(Byte) /\ q \in Seq(Byte)
      /\ request.size \in Nat /\ request.data \in Seq(Char)
  BY DEF TypedEnd
<1> HIDE DEF rb, w, q, request, stream
<1>2. Len(rb) \in Nat /\ Len(rb) >= 1
  BY <1>1, EmptySeq, LenProperties DEF rb
<1>3. PICK m \in Nat : m = Len(str)
  BY LenProperties
<1>4. stream[1] = Size(m + 1)
  BY <1>3 DEF MessageAt, stream
<1>5. Size(m + 1)[2] = m + 1 /\ IsSize(Size(m + 1))
  BY Bytes
<1>6. CASE request.data = <<>>
  <2>1. /\ Header(end) = [size |-> rb[1][2], data |-> <<>>, rest |-> From(rb, 2)]
        /\ stream = <<>> \o rb \o w \o q
    BY <1>6 DEF Header, Stream, Partial, rb, w, q, request, stream
  <2>2. <<>> \o rb = rb
    BY <1>1, ConcatEmptySeq
  <2>3. rb[1] = Size(m + 1)
    <3>1. <<>> \in Seq(Byte) /\ Len(<<>>) = 0
      OBVIOUS
    <3>2. 1 \in 1 .. Len(rb) /\ Len(<<>>) + 1 = 1
      BY <1>2
    <3>3. (<<>> \o rb \o w \o q)[Len(<<>>) + 1] = rb[1]
      BY <1>1, <3>1, <3>2, InSecond
    <3>4. (<<>> \o rb \o w \o q)[1] = rb[1]
      BY <3>2, <3>3, Zenon
    <3> QED
      BY <1>4, <2>1, <3>4
  <2>4. Len(rb) >= 2
    <3>1. ~ IsSize(rb[Len(rb)])
      BY DEF Whole, rb
    <3>2. PICK n \in Nat : n = Len(rb)
      BY <1>2
    <3>3. n # 1
      BY <1>5, <2>3, <3>1, <3>2, Zenon
    <3>4. n >= 1
      BY <1>2, <3>2
    <3>5. n >= 2
      BY <3>3, <3>4
    <3> QED
      BY <3>2, <3>5, Zenon
  <2>5. /\ From(rb, 2) \in Seq(Byte) /\ Len(From(rb, 2)) = Len(rb) - 1
        /\ \A i \in 1 .. Len(From(rb, 2)) : From(rb, 2)[i] = rb[1 + i]
    <3>1. 1 =< Len(rb)
      BY <1>2
    <3>2. /\ From(rb, 1 + 1) \in Seq(Byte) /\ Len(From(rb, 1 + 1)) = Len(rb) - 1
          /\ \A i \in 1 .. Len(From(rb, 1 + 1)) : From(rb, 1 + 1)[i] = rb[1 + i]
      <4>1. RestAfter(From(rb, 1 + 1), rb, 1)
        BY <1>1, <3>1, RestOf
      <4> QED
        BY <4>1, Zenon DEF RestAfter
    <3>3. 1 + 1 = 2
      OBVIOUS
    <3> QED
      BY <3>2, <3>3, Zenon
  <2>6. From(rb, 2) # <<>> /\ Whole(From(rb, 2))
    <3>1. Len(rb) - 1 \in 1 .. Len(From(rb, 2)) /\ 1 + (Len(rb) - 1) = Len(rb)
      BY <1>2, <2>4, <2>5
    <3>2. From(rb, 2)[Len(From(rb, 2))] = rb[Len(rb)]
      BY <2>5, <3>1, Zenon
    <3>3. From(rb, 2) # <<>>
      BY <2>4, <2>5
    <3>4. ~ IsSize(rb[Len(rb)])
      BY DEF Whole, rb
    <3> QED
      BY <3>2, <3>3, <3>4, Zenon DEF Whole
  <2>7. <<Size(m + 1)>> \o <<>> = <<Size(m + 1)>>
    <3>1. <<Size(m + 1)>> \in Seq(Byte)
      BY Bytes
    <3> QED
      BY <3>1, ConcatEmptySeq
  <2>8. rb = <<Size(m + 1)>> \o From(rb, 2)
    <3>1. SubSeq(rb, 1, Len(rb)) = <<rb[1]>> \o SubSeq(rb, 1 + 1, Len(rb))
      <4>1. 1 \in 1 .. Len(rb) /\ Len(rb) \in 1 .. Len(rb)
        BY <1>2
      <4> QED
        BY <1>1, <4>1, SubSeqRecursiveFirst
    <3>2. SubSeq(rb, 1, Len(rb)) = rb
      BY <1>1, SubSeqFull
    <3> QED
      BY <2>3, <3>1, <3>2 DEF From
  <2>9. Header(end).size = m + 1
    BY <1>5, <2>1, <2>3
  <2>10. Header(end).data = <<>> /\ Header(end).rest = From(rb, 2)
    BY <2>1
  <2>11. stream = (<<Size(m + 1)>> \o <<>>) \o From(rb, 2) \o w \o q
    BY <2>1, <2>2, <2>7, <2>8
  <2>12. <<>> \in Seq(Char)
    OBVIOUS
  <2> QED
    BY <1>3, <2>5, <2>6, <2>9, <2>10, <2>11, <2>12 DEF stream, w, q, Layout
<1>7. CASE request.data # <<>>
  <2>1. Header(end) = [size |-> request.size, data |-> request.data, rest |-> rb]
    BY <1>7 DEF Header, rb, request
  <2> DEFINE head == <<Size(request.size)>>
             p == head \o request.data
  <2>2. stream = p \o rb \o w \o q
    BY <1>7 DEF Stream, Partial, rb, w, q, request, stream
  <2>3. head \in Seq(Byte) /\ Len(head) = 1 /\ head[1] = Size(request.size)
    BY <1>1, Bytes
  <2>4. request.data \in Seq(Byte) /\ Len(request.data) \in Nat
    BY <1>1, Bytes, SeqMonotonic, LenProperties
  <2> HIDE DEF head
  <2>5. /\ p \in Seq(Byte) /\ Len(p) = Len(head) + Len(request.data)
        /\ \A i \in 1 .. Len(head) + Len(request.data) :
             p[i] = IF i =< Len(head) THEN head[i] ELSE request.data[i - Len(head)]
    BY <2>3, <2>4, ConcatProperties
  <2>6. Len(p) >= 1 /\ Len(p) \in Nat /\ p[1] = Size(request.size)
    BY <2>3, <2>4, <2>5
  <2> HIDE DEF p
  <2>7. stream[1] = p[1]
    <3>1. 1 \in 1 .. Len(p)
      BY <2>6
    <3>2. (p \o rb \o w \o q)[1] = p[1]
      BY <1>1, <2>5, <3>1, InFirst
    <3> QED
      BY <2>2, <3>1, <3>2, Zenon
  <2>8. request.size = m + 1
    <3>1. Size(request.size) = Size(m + 1)
      BY <1>4, <2>6, <2>7
    <3>2. Size(request.size)[2] = request.size
      BY <1>1, Bytes
    <3> QED
      BY <1>5, <3>1, <3>2
  <2>9. Header(end).size = m + 1 /\ Header(end).data = request.data /\ Header(end).rest = rb
    BY <2>1, <2>8
  <2>10. stream = (<<Size(m + 1)>> \o request.data) \o rb \o w \o q
    BY <2>2, <2>8 DEF p, head
  <2> QED
    BY <1>1, <1>3, <2>9, <2>10, Zenon DEF stream, w, q, rb, Layout
<1> QED
  BY <1>6, <1>7

Associates(x, y, z) == (x \o y) \o z = x \o (y \o z)

LEMMA ByteAssociative ==
  ASSUME NEW x \in Seq(Byte), NEW y \in Seq(Byte), NEW z \in Seq(Byte)
  PROVE  Associates(x, y, z)
BY ConcatAssociative DEF Associates

LEMMA ByteCut ==
  ASSUME NEW a \in Seq(Byte), NEW b \in Seq(Byte), NEW n \in 0 .. Len(b)
  PROVE  (a \o SubSeq(b, 1, n)) \o From(b, n + 1) = a \o b
<1>1. Len(b) \in Nat /\ n \in Nat /\ \A i \in 1 .. Len(b) : b[i] \in Byte
  BY LenProperties, ElementOfSeq
<1>2. SubSeq(b, 1, n) \in Seq(Byte)
  BY <1>1, SubSeqProperties
<1>3. SubSeq(b, n + 1, Len(b)) \in Seq(Byte)
  BY <1>1, SubSeqProperties
<1>4. SubSeq(b, 1, n) \o SubSeq(b, n + 1, Len(b)) = SubSeq(b, 1, Len(b))
  <2>1. 1 \in 1 .. Len(b) + 1 /\ n \in 1 - 1 .. Len(b) /\ Len(b) \in n .. Len(b)
    BY <1>1
  <2> QED
    BY <2>1, ConcatAdjacentSubSeq
<1>5. SubSeq(b, 1, Len(b)) = b
  BY SubSeqFull
<1>6. (a \o SubSeq(b, 1, n)) \o SubSeq(b, n + 1, Len(b))
        = a \o (SubSeq(b, 1, n) \o SubSeq(b, n + 1, Len(b)))
  <2>1. Associates(a, SubSeq(b, 1, n), SubSeq(b, n + 1, Len(b)))
    BY <1>2, <1>3, ByteAssociative, Zenon
  <2> QED
    BY <2>1, Zenon DEF Associates
<1>8. From(b, n + 1) = SubSeq(b, n + 1, Len(b))
  BY DEF From
<1> QED
  BY <1>2, <1>3, <1>4, <1>5, <1>6, <1>8

Regrouped(x, a, b, c) == x \o a \o b \o c = x \o (a \o b \o c)

LEMMA ByteRegrouped ==
  ASSUME NEW x \in Seq(Byte), NEW a \in Seq(Byte), NEW b \in Seq(Byte), NEW c \in Seq(Byte)
  PROVE  Regrouped(x, a, b, c)
<1>1. x \o a \in Seq(Byte) /\ a \o b \in Seq(Byte)
  BY ConcatProperties
<1>2. (x \o a) \o b = x \o (a \o b)
  <2>1. Associates(x, a, b)
    BY ByteAssociative, Zenon
  <2> QED
    BY <2>1, Zenon DEF Associates
<1>3. (x \o (a \o b)) \o c = x \o ((a \o b) \o c)
  <2>1. Associates(x, a \o b, c)
    BY <1>1, ByteAssociative, Zenon
  <2> QED
    BY <2>1, Zenon DEF Associates
<1> QED
  BY <1>2, <1>3, Zenon DEF Regrouped

LEMMA DropFirst ==
  ASSUME NEW x \in Seq(Byte), NEW y \in Seq(Byte)
  PROVE  From(x \o y, Len(x) + 1) = y
<1>1. Len(x) \in Nat /\ Len(y) \in Nat
  BY LenProperties
<1> DEFINE all == x \o y
           rest == From(all, Len(x) + 1)
<1>2. /\ all \in Seq(Byte) /\ Len(all) = Len(x) + Len(y)
      /\ \A i \in 1 .. Len(x) + Len(y) : all[i] = IF i =< Len(x) THEN x[i] ELSE y[i - Len(x)]
  BY ConcatProperties
<1> HIDE DEF all
<1>3. Len(x) =< Len(all)
  BY <1>1, <1>2
<1>4. /\ rest \in Seq(Byte) /\ Len(rest) = Len(all) - Len(x)
      /\ \A i \in 1 .. Len(rest) : rest[i] = all[Len(x) + i]
  <2>1. RestAfter(From(all, Len(x) + 1), all, Len(x))
    BY <1>1, <1>2, <1>3, RestOf
  <2> QED
    BY <2>1 DEF RestAfter
<1> HIDE DEF rest
<1>5. Len(rest) = Len(y)
  BY <1>1, <1>2, <1>4
<1>6. ASSUME NEW i \in 1 .. Len(y) PROVE rest[i] = y[i]
  <2>1. /\ i \in 1 .. Len(rest) /\ Len(x) + i \in 1 .. Len(x) + Len(y)
        /\ ~ (Len(x) + i =< Len(x)) /\ (Len(x) + i) - Len(x) = i
    BY <1>1, <1>5
  <2> QED
    BY <1>2, <1>4, <2>1, Zenon
<1>7. rest = y
  BY <1>4, <1>5, <1>6, SeqEqual
<1> QED
  BY <1>7 DEF rest, all

(* What is there of the message agrees with it. *)
Agrees(str, had, rest) ==
  /\ Len(had) =< Len(str)
  /\ \A j \in 1 .. Len(had) : had[j] = str[j]
  /\ \A j \in 1 .. Len(rest) : Len(had) + j =< Len(str) => rest[j] = str[Len(had) + j]

LEMMA PartsAgree ==
  ASSUME NEW str \in Seq(Char), NEW had \in Seq(Char), NEW rest \in Seq(Byte),
         NEW w \in Seq(Byte), NEW q \in Seq(Byte), NEW stream,
         stream = Layout(str, had, rest, w, q),
         MessageAt(stream, 0, str)
  PROVE  Agrees(str, had, rest)
<1>1. /\ Len(str) \in Nat /\ Len(had) \in Nat /\ Len(rest) \in Nat
      /\ had \in Seq(Byte)
  BY Bytes, LenProperties, SeqMonotonic
<1> DEFINE head == <<Size(Len(str) + 1)>>
           p == head \o had
<1>2. head \in Seq(Byte) /\ Len(head) = 1
  BY <1>1, Bytes
<1> HIDE DEF head
<1>3. /\ p \in Seq(Byte) /\ Len(p) = Len(head) + Len(had)
      /\ \A i \in 1 .. Len(head) + Len(had) :
           p[i] = IF i =< Len(head) THEN head[i] ELSE had[i - Len(head)]
  BY <1>1, <1>2, ConcatProperties
<1>4. stream = p \o rest \o w \o q
  BY DEF head, Layout
<1> HIDE DEF p
<1>5. ASSUME NEW j \in 1 .. Len(had) PROVE stream[1 + j] = had[j]
  <2>1. 1 + j \in 1 .. Len(p) /\ p[1 + j] = had[j]
    BY <1>1, <1>2, <1>3
  <2>2. (p \o rest \o w \o q)[1 + j] = p[1 + j]
    BY <1>3, <2>1, InFirst
  <2> QED
    BY <1>4, <2>1, <2>2, Zenon
<1>6. ASSUME NEW j \in 1 .. Len(rest) PROVE stream[1 + Len(had) + j] = rest[j]
  <2>3. p \in Seq(Byte)
    BY <1>3
  <2>1. (p \o rest \o w \o q)[Len(p) + j] = rest[j]
    BY <2>3, InSecond
  <2>2. Len(p) = 1 + Len(had)
    BY <1>2, <1>3
  <2> QED
    BY <1>4, <2>1, <2>2, Zenon
<1>7. /\ \A j \in 1 .. Len(str) : stream[1 + j] = str[j]
      /\ stream[Len(str) + 2] = Nul
  <2>1. 0 + 1 = 1 /\ 0 + Len(str) + 2 = Len(str) + 2
    BY <1>1
  <2> QED
    BY <2>1, Zenon DEF MessageAt
<1>8. Len(had) =< Len(str)
  <2>1. SUFFICES ASSUME Len(had) > Len(str) PROVE FALSE
    BY <1>1
  <2>2. Len(str) + 1 \in 1 .. Len(had) /\ 1 + (Len(str) + 1) = Len(str) + 2
    BY <1>1, <2>1
  <2>3. had[Len(str) + 1] = Nul
    BY <1>5, <1>7, <2>2, Zenon
  <2>4. had[Len(str) + 1] \in Char
    BY <2>2, ElementOfSeq
  <2> QED
    BY <2>3, <2>4, Bytes, Zenon
<1>9. ASSUME NEW j \in 1 .. Len(had) PROVE had[j] = str[j]
  <2>1. j \in 1 .. Len(str)
    BY <1>1, <1>8
  <2> QED
    BY <1>5, <1>7, <2>1, Zenon
<1>10. ASSUME NEW j \in 1 .. Len(rest), Len(had) + j =< Len(str) PROVE rest[j] = str[Len(had) + j]
  <2>1. Len(had) + j \in 1 .. Len(str) /\ 1 + (Len(had) + j) = 1 + Len(had) + j
    BY <1>1, <1>10
  <2> QED
    BY <1>6, <1>7, <2>1, Zenon
<1> QED
  BY <1>8, <1>9, <1>10 DEF Agrees

(* The part that is there is not all of it. *)
LEMMA PartTaken ==
  ASSUME NEW str \in Seq(Char), NEW had \in Seq(Char), NEW rest \in Seq(Byte), rest # <<>>,
         NEW w \in Seq(Byte), NEW q \in Seq(Byte), NEW stream,
         stream = Layout(str, had, rest, w, q),
         MessageAt(stream, 0, str),
         Len(rest) =< Len(str) - Len(had)
  PROVE  /\ had \o rest \in Seq(Char) /\ had \o rest # <<>>
         /\ (<<Size(Len(str) + 1)>> \o (had \o rest)) \o <<>> \o w \o q = stream
<1>1. /\ Len(str) \in Nat /\ Len(had) \in Nat /\ Len(rest) \in Nat /\ had \in Seq(Byte)
  BY Bytes, LenProperties, SeqMonotonic
<1>2. \A j \in 1 .. Len(rest) : Len(had) + j =< Len(str) => rest[j] = str[Len(had) + j]
  BY PartsAgree DEF Agrees
<1>3. ASSUME NEW j \in 1 .. Len(rest) PROVE rest[j] \in Char
  <2>1. Len(had) + j =< Len(str) /\ Len(had) + j \in 1 .. Len(str)
    BY <1>1
  <2>2. rest[j] = str[Len(had) + j]
    BY <1>2, <2>1
  <2>3. str[Len(had) + j] \in Char
    BY <2>1, ElementOfSeq
  <2> QED
    BY <2>2, <2>3
<1>4. rest \in Seq(Char)
  <2>1. SubSeq(rest, 1, Len(rest)) \in Seq(Char)
    BY <1>1, <1>3, SubSeqProperties
  <2>2. SubSeq(rest, 1, Len(rest)) = rest
    BY SubSeqFull
  <2> QED
    BY <2>1, <2>2, Zenon
<1>5. had \o rest \in Seq(Char) /\ Len(had \o rest) = Len(had) + Len(rest)
  BY <1>4, ConcatProperties
<1>6. Len(rest) # 0
  BY EmptySeq
<1>7. had \o rest # <<>>
  BY <1>1, <1>5, <1>6
<1> DEFINE head == <<Size(Len(str) + 1)>>
<1>8. head \in Seq(Byte)
  BY <1>1, Bytes
<1> HIDE DEF head
<1>9. (head \o had) \o rest = head \o (had \o rest)
  <2>1. Associates(head, had, rest)
    BY <1>1, <1>8, ByteAssociative, Zenon
  <2> QED
    BY <2>1, Zenon DEF Associates
<1>10. (head \o (had \o rest)) \o <<>> = head \o (had \o rest)
  <2>1. head \o had \in Seq(Byte)
    BY <1>1, <1>8, ConcatProperties
  <2>2. (head \o had) \o rest \in Seq(Byte)
    BY <2>1, ConcatProperties
  <2>3. head \o (had \o rest) \in Seq(Byte)
    BY <1>9, <2>2, Zenon
  <2> QED
    BY <2>3, ConcatEmptySeq
<1>11. stream = (head \o had) \o rest \o w \o q
  BY DEF head, Layout
<1>12. (head \o (had \o rest)) \o <<>> \o w \o q = stream
  BY <1>9, <1>10, <1>11, Zenon
<1> QED
  BY <1>5, <1>7, <1>12 DEF head

(* All of it is there, and its end. *)
Completed(str, had, rest, w, q, stream, missing) ==
  /\ had \o SubSeq(rest, 1, missing) = str
  /\ Tail(From(rest, missing + 1)) \in Seq(Byte)
  /\ Whole(Tail(From(rest, missing + 1)))
  /\ Tail(From(rest, missing + 1)) \o w \o q = From(stream, Len(str) + 3)

LEMMA MessageTaken ==
  ASSUME NEW str \in Seq(Char), NEW had \in Seq(Char), NEW rest \in Seq(Byte), Whole(rest),
         NEW w \in Seq(Byte), NEW q \in Seq(Byte), NEW stream,
         stream = Layout(str, had, rest, w, q),
         MessageAt(stream, 0, str),
         NEW missing \in Nat, missing = Len(str) - Len(had), missing < Len(rest)
  PROVE  Completed(str, had, rest, w, q, stream, missing)
<1>1. /\ Len(str) \in Nat /\ Len(had) \in Nat /\ Len(rest) \in Nat
      /\ had \in Seq(Byte) /\ str \in Seq(Byte)
  BY Bytes, LenProperties, SeqMonotonic
<1>2. /\ \A j \in 1 .. Len(had) : had[j] = str[j]
      /\ \A j \in 1 .. Len(rest) : Len(had) + j =< Len(str) => rest[j] = str[Len(had) + j]
  BY PartsAgree DEF Agrees
<1>3. had \o SubSeq(rest, 1, missing) = str
  <2> DEFINE front == SubSeq(rest, 1, missing)
             all == had \o front
  <2>1. \A i \in 1 .. missing : rest[i] \in Byte
    BY <1>1, ElementOfSeq
  <2>2. /\ front \in Seq(Byte) /\ Len(front) = missing
        /\ \A i \in 1 .. missing : front[i] = rest[i]
    <3>1. /\ front \in Seq(Byte)
          /\ Len(front) = IF 1 =< missing THEN missing - 1 + 1 ELSE 0
          /\ \A i \in 1 .. missing - 1 + 1 : front[i] = rest[1 + i - 1]
      BY <2>1, SubSeqProperties
    <3> HIDE DEF front
    <3>2. Len(front) = missing
      BY <3>1
    <3>3. ASSUME NEW i \in 1 .. missing PROVE front[i] = rest[i]
      <4>1. i \in 1 .. missing - 1 + 1 /\ 1 + i - 1 = i
        OBVIOUS
      <4> QED
        BY <3>1, <4>1, Zenon
    <3> QED
      BY <3>1, <3>2, <3>3
  <2> HIDE DEF front
  <2>3. /\ all \in Seq(Byte) /\ Len(all) = Len(had) + Len(front)
        /\ \A i \in 1 .. Len(had) + Len(front) :
             all[i] = IF i =< Len(had) THEN had[i] ELSE front[i - Len(had)]
    BY <1>1, <2>2, ConcatProperties
  <2> HIDE DEF all
  <2>4. Len(all) = Len(str)
    BY <1>1, <2>2, <2>3
  <2>5. ASSUME NEW i \in 1 .. Len(str) PROVE all[i] = str[i]
    <3>1. CASE i =< Len(had)
      BY <1>1, <1>2, <2>2, <2>3, <2>4, <3>1
    <3>2. CASE i > Len(had)
      <4>5. Len(had) \in Nat
        BY <1>1
      <4> DEFINE j == i - Len(had)
      <4>2. j \in 1 .. missing /\ j \in 1 .. Len(rest) /\ Len(had) + j = i /\ i =< Len(str)
        BY <1>1, <3>2, <4>5
      <4>3. all[i] = front[j]
        BY <1>1, <2>3, <2>4, <3>2
      <4>4. front[j] = rest[j] /\ rest[j] = str[Len(had) + j]
        BY <1>2, <2>2, <4>2, Zenon
      <4> QED
        BY <4>2, <4>3, <4>4, Zenon
    <3> QED
      BY <1>1, <3>1, <3>2
  <2>6. all = str
    BY <1>1, <2>3, <2>4, <2>5, SeqEqual
  <2> QED
    BY <2>6 DEF all, front
<1> DEFINE after == From(rest, missing + 1)
           behind == From(rest, missing + 2)
<1>4. /\ after \in Seq(Byte) /\ Len(after) = Len(rest) - missing
      /\ \A i \in 1 .. Len(after) : after[i] = rest[missing + i]
  <2>1. RestAfter(From(rest, missing + 1), rest, missing)
    BY <1>1, RestOf
  <2> QED
    BY <2>1 DEF RestAfter
<1>5. /\ behind \in Seq(Byte) /\ Len(behind) = Len(rest) - (missing + 1)
      /\ \A i \in 1 .. Len(behind) : behind[i] = rest[missing + 1 + i]
  <2>1. (missing + 1) + 1 = missing + 2 /\ missing + 1 =< Len(rest) /\ missing + 1 \in Nat
    BY <1>1
  <2>2. /\ From(rest, (missing + 1) + 1) \in Seq(Byte)
        /\ Len(From(rest, (missing + 1) + 1)) = Len(rest) - (missing + 1)
        /\ \A i \in 1 .. Len(From(rest, (missing + 1) + 1)) :
             From(rest, (missing + 1) + 1)[i] = rest[(missing + 1) + i]
    <3>1. RestAfter(From(rest, (missing + 1) + 1), rest, missing + 1)
      BY <2>1, RestOf
    <3> QED
      BY <3>1 DEF RestAfter
  <2> QED
    BY <2>1, <2>2, Zenon
<1>6. SubSeq(rest, 1, missing + 1) \in Seq(Byte) /\ Len(SubSeq(rest, 1, missing + 1)) = missing + 1
  <2>1. \A i \in 1 .. missing + 1 : rest[i] \in Byte
    BY <1>1, ElementOfSeq
  <2>2. Len(SubSeq(rest, 1, missing + 1)) = IF 1 =< missing + 1 THEN (missing + 1) - 1 + 1 ELSE 0
    BY <2>1, SubSeqProperties
  <2>3. SubSeq(rest, 1, missing + 1) \in Seq(Byte)
    BY <2>1, SubSeqProperties
  <2> QED
    BY <2>2, <2>3
<1> HIDE DEF after
<1>7. Tail(after) = behind
  <2>1. after # <<>>
    BY <1>1, <1>4
  <2>2. /\ Tail(after) \in Seq(Byte) /\ Len(Tail(after)) = Len(after) - 1
        /\ \A i \in 1 .. Len(Tail(after)) : Tail(after)[i] = after[i + 1]
    BY <1>4, <2>1, HeadTailProperties
  <2> HIDE DEF behind
  <2>3. Len(Tail(after)) = Len(behind)
    BY <1>1, <1>4, <1>5, <2>2
  <2>4. ASSUME NEW i \in 1 .. Len(behind) PROVE Tail(after)[i] = behind[i]
    <3>1. i + 1 \in 1 .. Len(after) /\ missing + (i + 1) = missing + 1 + i
      BY <1>1, <1>4, <1>5
    <3>2. i \in 1 .. Len(Tail(after))
      BY <2>3
    <3>3. Tail(after)[i] = after[i + 1]
      BY <2>2, <3>2, Zenon
    <3>4. after[i + 1] = rest[missing + (i + 1)]
      BY <1>4, <3>1, Zenon
    <3>5. behind[i] = rest[missing + 1 + i]
      BY <1>5, Zenon
    <3> QED
      BY <3>1, <3>3, <3>4, <3>5, Zenon
  <2> QED
    BY <1>5, <2>2, <2>3, <2>4, SeqEqual
<1>8. Whole(behind)
  <2> SUFFICES ASSUME behind # <<>> PROVE ~ IsSize(behind[Len(behind)])
    BY Zenon DEF Whole
  <2> HIDE DEF behind
  <2>1. Len(behind) # 0
    BY <1>5, EmptySeq
  <2>2. /\ Len(behind) \in 1 .. Len(behind)
        /\ missing + 1 + Len(behind) = Len(rest)
        /\ Len(rest) # 0
    BY <1>1, <1>5, <2>1
  <2>3. behind[Len(behind)] = rest[Len(rest)]
    BY <1>5, <2>2, Zenon
  <2>4. rest # <<>>
    BY <2>2
  <2> QED
    BY <2>3, <2>4, Zenon DEF Whole
<1>9. behind \o w \o q = From(stream, Len(str) + 3)
  <2> DEFINE head == <<Size(Len(str) + 1)>>
             p == head \o had
             front == SubSeq(rest, 1, missing + 1)
             x == p \o front
  <2>1. head \in Seq(Byte) /\ Len(head) = 1
    BY <1>1, Bytes
  <2> HIDE DEF head
  <2>2. p \in Seq(Byte) /\ Len(p) = Len(head) + Len(had)
    BY <1>1, <2>1, ConcatProperties
  <2> HIDE DEF p
  <2>3. /\ (p \o SubSeq(rest, 1, missing + 1)) \o From(rest, (missing + 1) + 1) = p \o rest
    <3>1. missing + 1 \in 0 .. Len(rest)
      BY <1>1
    <3> QED
      BY <2>2, <3>1, ByteCut, Zenon
  <2>4. x \o behind = p \o rest
    <3>1. (missing + 1) + 1 = missing + 2
      OBVIOUS
    <3> QED
      BY <2>3, <3>1, Zenon
  <2> HIDE DEF behind, front
  <2>5. front \in Seq(Byte) /\ Len(front) = missing + 1
    BY <1>6 DEF front
  <2>6. x \in Seq(Byte) /\ Len(x) = Len(p) + Len(front)
    BY <2>2, <2>5, ConcatProperties
  <2>7. stream = p \o rest \o w \o q
    BY DEF p, head, Layout
  <2> HIDE DEF x
  <2>8. stream = x \o behind \o w \o q
    BY <2>4, <2>7, Zenon
  <2>9. x \o behind \o w \o q = x \o (behind \o w \o q)
    <3>1. x \in Seq(Byte) /\ behind \in Seq(Byte)
      BY <1>5, <2>6
    <3>2. Regrouped(x, behind, w, q)
      BY <3>1, ByteRegrouped
    <3> QED
      BY <3>2, Zenon DEF Regrouped
  <2>10. behind \o w \o q \in Seq(Byte)
    <3>1. behind \o w \in Seq(Byte)
      BY <1>5, ConcatProperties
    <3> QED
      BY <3>1, ConcatProperties
  <2>11. From(x \o (behind \o w \o q), Len(x) + 1) = behind \o w \o q
    BY <2>6, <2>10, DropFirst
  <2>12. Len(x) + 1 = Len(str) + 3
    BY <1>1, <2>1, <2>2, <2>5, <2>6
  <2> QED
    BY <2>8, <2>9, <2>11, <2>12, Zenon
<1> QED
  BY <1>3, <1>5, <1>7, <1>8, <1>9, Zenon DEF after, Completed

WholeTaken(end, str) ==
  /\ Assembled(end).data = str
  /\ AfterNul(Assembled(end).rest) \in Seq(Byte)
  /\ Whole(AfterNul(Assembled(end).rest))
  /\ AfterNul(Assembled(end).rest) \o wire[end] \o write_buf[Other(end)]
       = From(Stream(end), Len(str) + 3)

SomeTaken(end, str) ==
  /\ Assembled(end).size = Len(str) + 1
  /\ Assembled(end).data \in Seq(Char) /\ Assembled(end).data # <<>>
  /\ (<<Size(Len(str) + 1)>> \o Assembled(end).data) \o <<>> \o wire[end] \o write_buf[Other(end)]
       = Stream(end)

LEMMA MessageReceived ==
  ASSUME NEW end \in End, TypedEnd(end), read_buf[end] # <<>>, Whole(read_buf[end]),
         NEW str \in Seq(Char), MessageAt(Stream(end), 0, str)
  PROVE  /\ Assembled(end).complete => WholeTaken(end, str)
         /\ ~ Assembled(end).complete => SomeTaken(end, str)
<1> DEFINE had == Header(end).data
           rest == Header(end).rest
           w == wire[end]
           q == write_buf[Other(end)]
           missing == Header(end).size - 1 - Len(had)
<1>1. /\ Header(end).size = Len(str) + 1
      /\ had \in Seq(Char) /\ rest \in Seq(Byte) /\ rest # <<>> /\ Whole(rest)
      /\ Stream(end) = Layout(str, had, rest, w, q)
      /\ w \in Seq(Byte) /\ q \in Seq(Byte)
  BY HeaderRead DEF TypedEnd
<1>2. Len(str) \in Nat
  BY LenProperties
<1>3. Len(had) \in Nat /\ Len(rest) \in Nat
  BY <1>1, LenProperties
<1>4. /\ Assembled(end).complete = (missing < Len(rest))
      /\ Assembled(end).size = Header(end).size
      /\ Assembled(end).data = had \o SubSeq(rest, 1, Least(missing, Len(rest)))
      /\ Assembled(end).rest = From(rest, Least(missing, Len(rest)) + 1)
  BY DEF Assembled
<1> HIDE DEF had, rest, w, q
<1>5. Len(had) =< Len(str)
  <2>1. Agrees(str, had, rest)
    BY <1>1, PartsAgree
  <2> QED
    BY <2>1 DEF Agrees
<1>6. missing \in Nat /\ missing = Len(str) - Len(had)
  <2>1. missing = Len(str) + 1 - 1 - Len(had)
    BY <1>1
  <2> QED
    BY <1>2, <1>3, <1>5, <2>1
<1> HIDE DEF missing
<1>7. CASE missing < Len(rest)
  <2>1. Least(missing, Len(rest)) = missing
    BY <1>7 DEF Least
  <2>2. /\ had \o SubSeq(rest, 1, missing) = str
        /\ Tail(From(rest, missing + 1)) \in Seq(Byte)
        /\ Whole(Tail(From(rest, missing + 1)))
        /\ Tail(From(rest, missing + 1)) \o w \o q = From(Stream(end), Len(str) + 3)
    <3>1. Completed(str, had, rest, w, q, Stream(end), missing)
      BY <1>1, <1>6, <1>7, MessageTaken
    <3> QED
      BY <3>1, Zenon DEF Completed
  <2>3. Assembled(end).data = str /\ AfterNul(Assembled(end).rest) = Tail(From(rest, missing + 1))
    BY <1>4, <2>1, <2>2, Zenon DEF AfterNul
  <2>4. WholeTaken(end, str)
    BY <2>2, <2>3, Zenon DEF WholeTaken, w, q
  <2> QED
    BY <1>4, <1>7, <2>4, Zenon
<1>8. CASE ~ (missing < Len(rest))
  <2>1. Least(missing, Len(rest)) = Len(rest) /\ Len(rest) =< Len(str) - Len(had)
    BY <1>3, <1>6, <1>8 DEF Least
  <2>2. /\ had \o rest \in Seq(Char) /\ had \o rest # <<>>
        /\ (<<Size(Len(str) + 1)>> \o (had \o rest)) \o <<>> \o w \o q = Stream(end)
    BY <1>1, <2>1, PartTaken
  <2>3. SubSeq(rest, 1, Len(rest)) = rest
    BY <1>1, SubSeqFull
  <2>4. Assembled(end).data = had \o rest
    BY <1>4, <2>1, <2>3, Zenon
  <2>5. SomeTaken(end, str)
    BY <1>1, <1>4, <2>2, <2>4, Zenon DEF SomeTaken, w, q
  <2> QED
    BY <1>4, <1>8, <2>5, Zenon
<1> QED
  BY <1>7, <1>8

-----------------------------------------------------------------------------
(* The steps of the string service. *)

Buffers ==
  /\ read_buf \in [End -> Seq(Byte)] /\ write_buf \in [End -> Seq(Byte)]
  /\ wire \in [End -> Seq(Byte)]
  /\ requests \in [End -> [size : Nat, data : Seq(Char)]]
  /\ \A end \in End : Whole(read_buf[end])

LEMMA Ends ==
  ASSUME NEW end \in End
  PROVE  /\ Other(end) \in End /\ Other(end) # end /\ Other(Other(end)) = end
         /\ Buffers => TypedEnd(end) /\ Whole(read_buf[end])
         /\ \A e \in End : e = end \/ e = Other(end)
BY DEF End, Other, Buffers, TypedEnd

(* receive_any_helper takes the first message, or a part of it, from the    *)
(* stream, and else leaves the stream as it is.                             *)
LEMMA ReceiveTakesFirst ==
  ASSUME Buffers, NEW end \in End, Receive(end),
         wire' = wire, write_buf'[Other(end)] = write_buf[Other(end)],
         NEW msgs, NEW a \in Nat, NEW b \in Nat, a =< b,
         Strings(msgs, a, b), Framed(Stream(end), msgs, a, b)
  PROVE  /\ read_buf' \in [End -> Seq(Byte)]
         /\ requests' \in [End -> [size : Nat, data : Seq(Char)]]
         /\ \A e \in End : Whole(read_buf'[e])
         /\ \A e \in End \ {end} : read_buf'[e] = read_buf[e] /\ requests'[e] = requests[e]
         /\ Complete(end) => /\ a < b
                             /\ Assembled(end).data = msgs[a + 1]
                             /\ Framed(Stream(end)', msgs, a + 1, b)
         /\ ~ Complete(end) => Framed(Stream(end)', msgs, a, b)
<1> DEFINE msg == Assembled(end)
<1>1. /\ TypedEnd(end) /\ Whole(read_buf[end]) /\ Other(end) \in End
      /\ \A e \in End : read_buf[e] \in Seq(Byte) /\ Whole(read_buf[e])
      /\ read_buf \in [End -> Seq(Byte)] /\ requests \in [End -> [size : Nat, data : Seq(Char)]]
  BY Ends DEF Buffers
<1>2. CASE read_buf[end] = <<>>
  <2>1. UNCHANGED <<read_buf, requests>>
    BY <1>2 DEF Receive
  <2>2. Stream(end)' = Stream(end)
    BY <2>1 DEF Stream
  <2>3. ~ Complete(end)
    BY <1>2 DEF Complete
  <2> QED
    BY <1>1, <2>1, <2>2, <2>3, Zenon
<1>3. CASE read_buf[end] # <<>>
  <2> DEFINE str == msgs[a + 1]
  <2>1. Stream(end) \in Seq(Byte) /\ Stream(end) # <<>>
    <3>1. /\ Partial(requests[end]) \in Seq(Byte) /\ read_buf[end] \in Seq(Byte)
          /\ wire[end] \in Seq(Byte) /\ write_buf[Other(end)] \in Seq(Byte)
      <4>1. requests[end].size \in Nat /\ requests[end].data \in Seq(Byte)
        BY <1>1, Bytes, SeqMonotonic DEF TypedEnd
      <4>2. <<Size(requests[end].size)>> \in Seq(Byte) /\ <<>> \in Seq(Byte)
        BY <4>1, Bytes
      <4>3. <<Size(requests[end].size)>> \o requests[end].data \in Seq(Byte)
        BY <4>1, <4>2, ConcatProperties
      <4> QED
        BY <1>1, <4>2, <4>3 DEF Partial, TypedEnd
    <3>2. StreamTyped(Partial(requests[end]), read_buf[end], wire[end], write_buf[Other(end)])
      BY <3>1, PartsOfStream
    <3> QED
      BY <1>3, <3>2, Zenon DEF Stream, StreamTyped
  <2>2. a < b /\ str \in Seq(Char) /\ MessageAt(Stream(end), 0, str)
    BY <2>1, FramedFirst
  <2>3. /\ Assembled(end).complete => WholeTaken(end, str)
        /\ ~ Assembled(end).complete => SomeTaken(end, str)
    BY <1>1, <1>3, <2>2, MessageReceived
  <2>4. Complete(end) <=> Assembled(end).complete
    BY <1>3 DEF Complete
  <2>5. CASE Assembled(end).complete
    <3>1. /\ read_buf' = [read_buf EXCEPT ![end] = AfterNul(msg.rest)]
          /\ requests' = [requests EXCEPT ![end] = NoRequest]
      BY <1>3, <2>5 DEF Receive, NextRequest
    <3>2. /\ AfterNul(msg.rest) \in Seq(Byte) /\ Whole(AfterNul(msg.rest))
          /\ msg.data = str
          /\ AfterNul(msg.rest) \o wire[end] \o write_buf[Other(end)] = From(Stream(end), Len(str) + 3)
      BY <2>3, <2>5, Zenon DEF WholeTaken
    <3> HIDE DEF msg
    <3>3. NoRequest \in [size : Nat, data : Seq(Char)]
      BY DEF NoRequest
    <3>4. read_buf'[end] = AfterNul(msg.rest) /\ requests'[end] = NoRequest
      BY <1>1, <3>1
    <3>5. \A e \in End \ {end} : read_buf'[e] = read_buf[e] /\ requests'[e] = requests[e]
      BY <1>1, <3>1
    <3>6. /\ read_buf' \in [End -> Seq(Byte)]
          /\ requests' \in [End -> [size : Nat, data : Seq(Char)]]
      BY <1>1, <3>1, <3>2, <3>3
    <3>7. \A e \in End : Whole(read_buf'[e])
      BY <1>1, <3>2, <3>4, <3>5, Zenon
    <3>8. Stream(end)' = From(Stream(end), Len(str) + 3)
      <4>1. Stream(end)' = Partial(requests'[end]) \o read_buf'[end] \o wire'[end]
                             \o write_buf'[Other(end)]
        BY DEF Stream
      <4>2. Partial(NoRequest) = <<>>
        BY DEF Partial, NoRequest
      <4>3. <<>> \o AfterNul(msg.rest) = AfterNul(msg.rest)
        BY <3>2, ConcatEmptySeq
      <4> QED
        BY <3>2, <3>4, <4>1, <4>2, <4>3, Zenon
    <3>9. Framed(Stream(end)', msgs, a + 1, b)
      BY <2>1, <3>8, FramedRest
    <3> QED
      BY <2>2, <2>4, <2>5, <3>2, <3>5, <3>6, <3>7, <3>9 DEF msg
  <2>6. CASE ~ Assembled(end).complete
    <3>1. /\ read_buf' = [read_buf EXCEPT ![end] = <<>>]
          /\ requests' = [requests EXCEPT ![end] = [size |-> msg.size, data |-> msg.data]]
      BY <1>3, <2>6 DEF Receive
    <3>2. /\ msg.size = Len(str) + 1 /\ msg.data \in Seq(Char) /\ msg.data # <<>>
          /\ (<<Size(Len(str) + 1)>> \o msg.data) \o <<>> \o wire[end] \o write_buf[Other(end)]
               = Stream(end)
      BY <2>3, <2>6, Zenon DEF SomeTaken
    <3> HIDE DEF msg
    <3>3. Len(str) + 1 \in Nat
      BY <2>2, LenProperties
    <3>4. /\ read_buf'[end] = <<>>
          /\ requests'[end] = [size |-> msg.size, data |-> msg.data]
      BY <1>1, <3>1
    <3>5. \A e \in End \ {end} : read_buf'[e] = read_buf[e] /\ requests'[e] = requests[e]
      BY <1>1, <3>1
    <3>6. /\ read_buf' \in [End -> Seq(Byte)]
          /\ requests' \in [End -> [size : Nat, data : Seq(Char)]]
      <4>1. [size |-> msg.size, data |-> msg.data] \in [size : Nat, data : Seq(Char)]
        BY <3>2, <3>3
      <4>2. <<>> \in Seq(Byte)
        OBVIOUS
      <4> QED
        BY <1>1, <3>1, <4>1, <4>2
    <3>7. \A e \in End : Whole(read_buf'[e])
      <4>1. Whole(<<>>)
        BY DEF Whole
      <4> QED
        BY <1>1, <3>4, <3>5, <4>1, Zenon
    <3>8. Stream(end)' = Stream(end)
      <4>1. Stream(end)' = Partial(requests'[end]) \o read_buf'[end] \o wire'[end]
                             \o write_buf'[Other(end)]
        BY DEF Stream
      <4>2. Partial(requests'[end]) = <<Size(Len(str) + 1)>> \o msg.data
        BY <3>2, <3>4 DEF Partial
      <4> QED
        BY <3>2, <3>4, <4>1, <4>2, Zenon
    <3>9. Framed(Stream(end)', msgs, a, b)
      BY <3>8, Zenon
    <3> QED
      BY <2>4, <2>6, <3>5, <3>6, <3>7, <3>9
  <2> QED
    BY <2>5, <2>6
<1> QED
  BY <1>2, <1>3

(* A read and a write move a part of the stream, and the stream stays.      *)
ReadKept(p, r, w, q, n) ==
  p \o (r \o SubSeq(w, 1, n)) \o From(w, n + 1) \o q = p \o r \o w \o q

LEMMA StreamRead ==
  ASSUME NEW p \in Seq(Byte), NEW r \in Seq(Byte), NEW w \in Seq(Byte), NEW q \in Seq(Byte),
         NEW n \in 0 .. Len(w), SubSeq(w, 1, n) \in Seq(Byte)
  PROVE  ReadKept(p, r, w, q, n)
<1> DEFINE x == SubSeq(w, 1, n)
           y == From(w, n + 1)
<1>1. p \o r \in Seq(Byte)
  BY ConcatProperties
<1>4. x \in Seq(Byte)
  OBVIOUS
<1> HIDE DEF x
<1>2. (p \o r) \o x = p \o (r \o x)
  <2>1. Associates(p, r, x)
    BY <1>4, ByteAssociative, Zenon
  <2> QED
    BY <2>1, Zenon DEF Associates
<1>3. ((p \o r) \o x) \o y = (p \o r) \o w
  BY <1>1, ByteCut, Zenon DEF x
<1> QED
  BY <1>2, <1>3, Zenon DEF ReadKept, x

WriteKept(p, r, w, q, n) ==
  p \o r \o (w \o SubSeq(q, 1, n)) \o From(q, n + 1) = p \o r \o w \o q

LEMMA StreamWritten ==
  ASSUME NEW p \in Seq(Byte), NEW r \in Seq(Byte), NEW w \in Seq(Byte), NEW q \in Seq(Byte),
         NEW n \in 0 .. Len(q), SubSeq(q, 1, n) \in Seq(Byte)
  PROVE  WriteKept(p, r, w, q, n)
<1> DEFINE x == SubSeq(q, 1, n)
           y == From(q, n + 1)
           z == p \o r
<1>1. z \in Seq(Byte)
  BY ConcatProperties
<1> HIDE DEF z
<1>2. z \o w \in Seq(Byte)
  BY <1>1, ConcatProperties
<1>3. (z \o w) \o x = z \o (w \o x)
  <2>1. Associates(z, w, x)
    BY <1>1, ByteAssociative, Zenon
  <2> QED
    BY <2>1, Zenon DEF Associates
<1>4. ((z \o w) \o x) \o y = (z \o w) \o q
  BY <1>2, ByteCut, Zenon
<1> QED
  BY <1>3, <1>4, Zenon DEF WriteKept, z

(* The first n bytes.                                                       *)
FirstOf(seq, n) ==
  /\ SubSeq(seq, 1, n) \in Seq(Byte)
  /\ Len(SubSeq(seq, 1, n)) = n
  /\ \A i \in 1 .. n : SubSeq(seq, 1, n)[i] = seq[i]

LEMMA FirstBytes ==
  ASSUME NEW seq \in Seq(Byte), NEW n \in 0 .. Len(seq)
  PROVE  FirstOf(seq, n)
<1>1. Len(seq) \in Nat /\ n \in Nat /\ \A i \in 1 .. n : seq[i] \in Byte
  BY LenProperties, ElementOfSeq
<1>2. /\ SubSeq(seq, 1, n) \in Seq(Byte)
      /\ Len(SubSeq(seq, 1, n)) = IF 1 =< n THEN n - 1 + 1 ELSE 0
      /\ \A i \in 1 .. n - 1 + 1 : SubSeq(seq, 1, n)[i] = seq[1 + i - 1]
  BY <1>1, SubSeqProperties
<1>3. n - 1 + 1 = n /\ \A i \in 1 .. n : 1 + i - 1 = i
  BY <1>1
<1>4. Len(SubSeq(seq, 1, n)) = n
  BY <1>1, <1>2
<1>5. ASSUME NEW i \in 1 .. n PROVE SubSeq(seq, 1, n)[i] = seq[i]
  BY <1>2, <1>3, <1>5, Zenon
<1> QED
  BY <1>2, <1>4, <1>5 DEF FirstOf

LEMMA WholeRead ==
  ASSUME NEW r \in Seq(Byte), Whole(r), NEW w \in Seq(Byte), NEW n \in 0 .. Len(w),
         n # 0 => ~ IsSize(w[n])
  PROVE  r \o SubSeq(w, 1, n) \in Seq(Byte) /\ Whole(r \o SubSeq(w, 1, n))
<1> DEFINE x == SubSeq(w, 1, n)
           all == r \o x
<1>1. x \in Seq(Byte) /\ Len(x) = n /\ \A i \in 1 .. n : x[i] = w[i]
  BY FirstBytes DEF FirstOf
<1>2. Len(r) \in Nat /\ n \in Nat
  BY LenProperties
<1> HIDE DEF x
<1>3. /\ all \in Seq(Byte) /\ Len(all) = Len(r) + Len(x)
      /\ \A i \in 1 .. Len(r) + Len(x) : all[i] = IF i =< Len(r) THEN r[i] ELSE x[i - Len(r)]
  BY <1>1, ConcatProperties
<1>4. CASE n = 0
  <2>1. x = <<>>
    BY <1>1, <1>4, EmptySeq
  <2>2. all = r
    BY <2>1, ConcatEmptySeq
  <2> QED
    BY <1>3, <2>2 DEF x
<1>5. CASE n # 0
  <2> HIDE DEF all
  <2>1. Len(all) \in 1 .. Len(r) + Len(x) /\ ~ (Len(all) =< Len(r)) /\ Len(all) - Len(r) = n
    BY <1>1, <1>2, <1>3, <1>5
  <2>2. all[Len(all)] = x[n]
    BY <1>3, <2>1
  <2>3. n \in 1 .. n
    BY <1>2, <1>5
  <2>4. x[n] = w[n]
    BY <1>1, <2>3, Zenon
  <2>5. Whole(all)
    BY <1>5, <2>2, <2>4, Zenon DEF Whole
  <2> QED
    BY <1>3, <2>5 DEF all, x
<1> QED
  BY <1>4, <1>5

LEMMA PartialBytes ==
  ASSUME NEW request \in [size : Nat, data : Seq(Char)]
  PROVE  Partial(request) \in Seq(Byte)
<1>1. request.size \in Nat /\ request.data \in Seq(Byte)
  BY Bytes, SeqMonotonic
<1>2. <<Size(request.size)>> \in Seq(Byte) /\ <<>> \in Seq(Byte)
  BY <1>1, Bytes
<1>3. <<Size(request.size)>> \o request.data \in Seq(Byte)
  BY <1>1, <1>2, ConcatProperties
<1> QED
  BY <1>2, <1>3 DEF Partial

LEMMA LeastBound ==
  ASSUME NEW m \in Nat, NEW n \in Nat
  PROVE  Least(m, n) \in Nat /\ Least(m, n) =< m /\ Least(m, n) =< n
BY DEF Least

LEMMA SyncKeeps ==
  ASSUME Buffers, NEW end \in End, NEW n \in Nat, Sync(end, n), requests' = requests
  PROVE  Buffers' /\ \A e \in End : Stream(e)' = Stream(e)
<1> DEFINE other == Other(end)
           i == Least(SOCKET_BUF_SIZE, Len(write_buf[end]))
           r == read_buf[end]
           w == wire[end]
           q == write_buf[end]
           v == wire[other]
<1>1. /\ other \in End /\ other # end /\ Other(other) = end
      /\ \A e \in End : e = end \/ e = other
  BY Ends
<1>2. /\ r \in Seq(Byte) /\ w \in Seq(Byte) /\ q \in Seq(Byte) /\ v \in Seq(Byte)
      /\ Whole(r) /\ Whole(read_buf[other])
      /\ read_buf[other] \in Seq(Byte) /\ write_buf[other] \in Seq(Byte)
      /\ requests[end] \in [size : Nat, data : Seq(Char)]
      /\ requests[other] \in [size : Nat, data : Seq(Char)]
      /\ read_buf \in [End -> Seq(Byte)] /\ wire \in [End -> Seq(Byte)]
      /\ write_buf \in [End -> Seq(Byte)]
  BY <1>1 DEF Buffers
<1>3. Len(w) \in Nat /\ Len(q) \in Nat /\ SOCKET_BUF_SIZE \in Nat
  BY <1>2, LenProperties, StringChannelAssumption
<1>4. n \in 0 .. Len(w) /\ (n # 0 => ~ IsSize(w[n]))
  <2>1. CASE n = 0
    BY <1>3, <2>1
  <2>2. CASE n # 0
    <3>1. n \in 1 .. Least(SOCKET_BUF_SIZE, Len(w)) /\ ~ IsSize(w[n])
      BY <2>2 DEF Sync
    <3>2. Least(SOCKET_BUF_SIZE, Len(w)) \in Nat /\ Least(SOCKET_BUF_SIZE, Len(w)) =< Len(w)
      BY <1>3, LeastBound
    <3> QED
      BY <1>3, <3>1, <3>2
  <2> QED
    BY <2>1, <2>2
<1>5. i \in 0 .. Len(q)
  <2>1. i \in Nat /\ i =< Len(q)
    BY <1>3, LeastBound
  <2> QED
    BY <1>3, <2>1
<1>6. /\ read_buf' = [read_buf EXCEPT ![end] = @ \o SubSeq(w, 1, n)]
      /\ wire' = [wire EXCEPT ![end] = From(@, n + 1), ![other] = @ \o SubSeq(q, 1, i)]
      /\ write_buf' = [write_buf EXCEPT ![end] = From(@, i + 1)]
  BY DEF Sync
<1> HIDE DEF i, other
<1>7. /\ read_buf'[end] = r \o SubSeq(w, 1, n) /\ read_buf'[other] = read_buf[other]
      /\ wire'[end] = From(w, n + 1) /\ wire'[other] = v \o SubSeq(q, 1, i)
      /\ write_buf'[end] = From(q, i + 1) /\ write_buf'[other] = write_buf[other]
  BY <1>1, <1>2, <1>6
<1>8. /\ FirstOf(w, n) /\ FirstOf(q, i)
      /\ RestAfter(From(w, n + 1), w, n) /\ RestAfter(From(q, i + 1), q, i)
  <2>1. n \in Nat /\ n =< Len(w) /\ i \in Nat /\ i =< Len(q)
    BY <1>3, <1>4, <1>5
  <2>2. FirstOf(w, n) /\ FirstOf(q, i)
    BY <1>2, <1>4, <1>5, FirstBytes
  <2>3. RestAfter(From(w, n + 1), w, n) /\ RestAfter(From(q, i + 1), q, i)
    BY <1>2, <2>1, RestOf
  <2> QED
    BY <2>2, <2>3
<1>9. /\ SubSeq(w, 1, n) \in Seq(Byte) /\ SubSeq(q, 1, i) \in Seq(Byte)
      /\ From(w, n + 1) \in Seq(Byte) /\ From(q, i + 1) \in Seq(Byte)
  BY <1>8 DEF FirstOf, RestAfter
<1>10. r \o SubSeq(w, 1, n) \in Seq(Byte) /\ Whole(r \o SubSeq(w, 1, n))
  BY <1>2, <1>4, WholeRead
<1>11. v \o SubSeq(q, 1, i) \in Seq(Byte)
  BY <1>2, <1>9, ConcatProperties
<1> HIDE DEF r, w, q, v
<1>12. Buffers'
  <2>1. /\ read_buf' \in [End -> Seq(Byte)] /\ write_buf' \in [End -> Seq(Byte)]
        /\ wire' \in [End -> Seq(Byte)]
    <3>1. read_buf' \in [End -> Seq(Byte)]
      <4>1. r \o SubSeq(w, 1, n) = read_buf[end] \o SubSeq(w, 1, n)
        BY DEF r
      <4> QED
        BY <1>1, <1>2, <1>6, <1>10, <4>1
    <3>2. write_buf' \in [End -> Seq(Byte)]
      <4>1. From(q, i + 1) = From(write_buf[end], i + 1)
        BY DEF q
      <4> QED
        BY <1>1, <1>2, <1>6, <1>9, <4>1
    <3>3. wire' \in [End -> Seq(Byte)]
      <4>1. wire' = [wire EXCEPT ![end] = From(w, n + 1), ![other] = v \o SubSeq(q, 1, i)]
        BY <1>1, <1>6 DEF w, v
      <4> QED
        BY <1>1, <1>2, <1>9, <1>11, <4>1
    <3> QED
      BY <3>1, <3>2, <3>3
  <2>2. \A e \in End : Whole(read_buf'[e])
    BY <1>1, <1>2, <1>7, <1>10, Zenon
  <2>3. requests' \in [End -> [size : Nat, data : Seq(Char)]]
    BY DEF Buffers
  <2> QED
    BY <2>1, <2>2, <2>3 DEF Buffers
<1> DEFINE p == Partial(requests[end])
           po == Partial(requests[other])
<1>13. p \in Seq(Byte) /\ po \in Seq(Byte)
  BY <1>2, PartialBytes
<1> HIDE DEF p, po
<1>14. Stream(end)' = Stream(end)
  <2>1. ReadKept(p, r, w, write_buf[other], n)
    BY <1>2, <1>4, <1>9, <1>13, StreamRead
  <2>2. Stream(end)' = p \o read_buf'[end] \o wire'[end] \o write_buf'[other]
    BY DEF Stream, p, other
  <2>3. Stream(end) = p \o r \o w \o write_buf[other]
    BY DEF Stream, p, r, w, other
  <2> QED
    BY <1>7, <2>1, <2>2, <2>3, Zenon DEF ReadKept
<1>15. Stream(other)' = Stream(other)
  <2>1. WriteKept(po, read_buf[other], v, q, i)
    BY <1>2, <1>5, <1>9, <1>13, StreamWritten
  <2>2. Stream(other) = po \o read_buf[other] \o v \o q
    BY <1>1 DEF Stream, po, v, q
  <2>3. Stream(other)' = po \o read_buf'[other] \o wire'[other] \o write_buf'[end]
    BY <1>1 DEF Stream, po
  <2> QED
    BY <1>7, <2>1, <2>2, <2>3, Zenon DEF WriteKept
<1> QED
  BY <1>1, <1>12, <1>14, <1>15, Zenon

(* StringChannel::send puts the message behind the stream.                  *)
LEMMA SendAppends ==
  ASSUME Buffers, NEW end \in End, NEW str \in Seq(Char), Send(end, str)
  PROVE  /\ write_buf' \in [End -> Seq(Byte)]
         /\ write_buf'[Other(end)] = write_buf[Other(end)]
         /\ \A p, r, w \in Seq(Byte) :
              p \o r \o w \o write_buf'[end] = (p \o r \o w \o write_buf[end]) \o Encoded(str)
<1> DEFINE head == <<Size(Len(str) + 1)>>
           last == <<Nul>>
           wb == write_buf[end]
<1>1. Other(end) \in End /\ Other(end) # end
  BY Ends
<1>2. wb \in Seq(Byte) /\ write_buf \in [End -> Seq(Byte)]
  BY DEF Buffers
<1>3. Len(str) \in Nat /\ str \in Seq(Byte)
  BY Bytes, LenProperties, SeqMonotonic
<1>4. head \in Seq(Byte) /\ last \in Seq(Byte)
  BY <1>3, Bytes
<1>5. write_buf' = [write_buf EXCEPT ![end] = wb \o head \o str \o last]
  BY DEF Send
<1>6. Encoded(str) = head \o str \o last /\ Encoded(str) \in Seq(Byte)
  BY EncodedBytes DEF Encoded
<1> HIDE DEF head, last
<1>7. wb \o head \o str \o last = wb \o Encoded(str)
  <2>1. Regrouped(wb, head, str, last)
    BY <1>2, <1>3, <1>4, ByteRegrouped
  <2> QED
    BY <1>6, <2>1, Zenon DEF Regrouped
<1>8. write_buf'[end] = wb \o Encoded(str) /\ write_buf'[Other(end)] = write_buf[Other(end)]
  BY <1>1, <1>2, <1>5, <1>7
<1>9. wb \o Encoded(str) \in Seq(Byte)
  BY <1>2, <1>6, ConcatProperties
<1>10. write_buf' \in [End -> Seq(Byte)]
  BY <1>2, <1>5, <1>7, <1>9
<1> HIDE DEF wb
<1>11. ASSUME NEW p \in Seq(Byte), NEW r \in Seq(Byte), NEW w \in Seq(Byte)
       PROVE  p \o r \o w \o write_buf'[end] = (p \o r \o w \o wb) \o Encoded(str)
  <2>1. p \o r \in Seq(Byte)
    BY ConcatProperties
  <2>2. (p \o r) \o w \in Seq(Byte)
    BY <2>1, ConcatProperties
  <2>3. (((p \o r) \o w) \o wb) \o Encoded(str) = ((p \o r) \o w) \o (wb \o Encoded(str))
    <3>1. Associates((p \o r) \o w, wb, Encoded(str))
      BY <1>2, <1>6, <2>2, ByteAssociative, Zenon
    <3> QED
      BY <3>1, Zenon DEF Associates
  <2> QED
    BY <1>8, <2>3, Zenon
<1> QED
  BY <1>8, <1>10, <1>11, Zenon DEF wb

-----------------------------------------------------------------------------
(* cap_first_letter. *)

LEMMA CapitalisedLine ==
  ASSUME NEW str \in Seq(Char)
  PROVE  /\ Capitalised(str) \in Seq(Char)
         /\ Len(Capitalised(str)) = Len(str)
<1>1. PICK n \in Nat : n = Len(str)
  BY LenProperties
<1>2. DOMAIN str = 1 .. n /\ \A i \in 1 .. n : str[i] \in Char
  BY <1>1, LenProperties, ElementOfSeq
<1>3. <<"upper", 0>> \in Char /\ <<"lower", 0>> \in Char
  BY DEF Char
<1> DEFINE cap(i) ==
      CASE str[i] = <<"space", 0>> -> str[i]
        [] str[i] # <<"space", 0>> /\ (i = 1 \/ str[i - 1] = <<"space", 0>>) -> <<"upper", 0>>
        [] OTHER -> <<"lower", 0>>
<1>4. ASSUME NEW i \in 1 .. n PROVE cap(i) \in Char
  BY <1>2, <1>3
<1>5. Capitalised(str) = [i \in 1 .. n |-> cap(i)]
  BY <1>2 DEF Capitalised
<1> HIDE DEF cap
<1>6. Capitalised(str) \in [1 .. n -> Char]
  BY <1>4, <1>5
<1>7. Capitalised(str) \in Seq(Char)
  BY <1>6, SeqDef
<1>8. DOMAIN Capitalised(str) = 1 .. n
  BY <1>6
<1>9. Len(Capitalised(str)) = n
  BY <1>7, <1>8
<1> QED
  BY <1>1, <1>7, <1>9

(* What the loop of cap_first_letter computes, turn by turn.                *)
CapState(str, i) ==
  [str |-> SubSeq(Capitalised(str), 1, i),
   is_prev_space |-> i = 0 \/ str[i] = <<"space", 0>>]

CapTurns(str, acc) ==
  acc = [i \in 0 .. Len(str) |->
          IF i = 0 THEN [str |-> <<>>, is_prev_space |-> TRUE] ELSE CapTurn(acc[i - 1], str[i])]

LEMMA CapTurnOf ==
  ASSUME NEW before, NEW space \in BOOLEAN, NEW char
  PROVE  CapTurn([str |-> before, is_prev_space |-> space], char) =
           IF char[1] = "space"
             THEN [str |-> Append(before, char), is_prev_space |-> TRUE]
             ELSE [str |-> Append(before, IF space THEN <<"upper", 0>> ELSE <<"lower", 0>>),
                   is_prev_space |-> FALSE]
<1> DEFINE acc == [str |-> before, is_prev_space |-> space]
<1>1. acc.str = before /\ acc.is_prev_space = space
  OBVIOUS
<1> HIDE DEF acc
<1>2. CapTurn(acc, char) =
           IF char[1] = "space"
             THEN [str |-> Append(before, char), is_prev_space |-> TRUE]
             ELSE [str |-> Append(before, IF space THEN <<"upper", 0>> ELSE <<"lower", 0>>),
                   is_prev_space |-> FALSE]
  BY <1>1, Zenon DEF CapTurn
<1> QED
  BY <1>2 DEF acc

LEMMA CapStep ==
  ASSUME NEW str \in Seq(Char), NEW i \in 1 .. Len(str)
  PROVE  CapState(str, i) = CapTurn(CapState(str, i - 1), str[i])
<1> DEFINE cap == Capitalised(str)
<1>1. PICK n \in Nat : n = Len(str)
  BY LenProperties
<1>2. cap \in Seq(Char) /\ Len(cap) = n
  BY <1>1, CapitalisedLine
<1>3. i \in 1 .. n /\ i - 1 \in Nat
  BY <1>1
<1>4. DOMAIN str = 1 .. n /\ str[i] \in Char
  BY <1>1, <1>3, LenProperties, ElementOfSeq
<1>5. cap[i] = CASE str[i] = <<"space", 0>> -> str[i]
                 [] str[i] # <<"space", 0>> /\ (i = 1 \/ str[i - 1] = <<"space", 0>>) -> <<"upper", 0>>
                 [] OTHER -> <<"lower", 0>>
  BY <1>3, <1>4 DEF Capitalised
<1> HIDE DEF cap
<1>6. SubSeq(cap, 1, i) = Append(SubSeq(cap, 1, i - 1), cap[i])
  BY <1>2, <1>3
<1>7. str[i] = <<"space", 0>> <=> str[i][1] = "space"
  BY <1>4 DEF Char
<1>8. i - 1 = 0 \/ str[i - 1] = <<"space", 0>> <=> i = 1 \/ str[i - 1] = <<"space", 0>>
  BY <1>3
<1>9. i # 0
  BY <1>3
<1> DEFINE before == SubSeq(cap, 1, i - 1)
           space == i = 1 \/ str[i - 1] = <<"space", 0>>
<1> HIDE DEF before
<1>10. CapState(str, i) = [str |-> Append(before, cap[i]), is_prev_space |-> str[i] = <<"space", 0>>]
  BY <1>6, <1>9 DEF CapState, before, cap
<1>11. CapState(str, i - 1) = [str |-> before, is_prev_space |-> space]
  BY <1>8 DEF CapState, before, cap
<1>15. space \in BOOLEAN
  OBVIOUS
<1> HIDE DEF space
<1>16. CapTurn(CapState(str, i - 1), str[i]) =
         IF str[i][1] = "space"
           THEN [str |-> Append(before, str[i]), is_prev_space |-> TRUE]
           ELSE [str |-> Append(before, IF space THEN <<"upper", 0>> ELSE <<"lower", 0>>),
                 is_prev_space |-> FALSE]
  BY <1>11, <1>15, CapTurnOf, Zenon
<1>12. cap[i] = IF str[i][1] = "space" THEN str[i] ELSE IF space THEN <<"upper", 0>> ELSE <<"lower", 0>>
  BY <1>5, <1>7 DEF space
<1>13. CASE str[i][1] = "space"
  <2>1. CapTurn(CapState(str, i - 1), str[i]) = [str |-> Append(before, str[i]), is_prev_space |-> TRUE]
    BY <1>13, <1>16, Zenon
  <2>2. (str[i] = <<"space", 0>>) = TRUE
    BY <1>7, <1>13
  <2> QED
    BY <1>10, <1>12, <1>13, <2>1, <2>2
<1>14. CASE str[i][1] # "space"
  <2>1. CapTurn(CapState(str, i - 1), str[i]) =
          [str |-> Append(before, IF space THEN <<"upper", 0>> ELSE <<"lower", 0>>),
           is_prev_space |-> FALSE]
    BY <1>14, <1>16, Zenon
  <2>2. (str[i] = <<"space", 0>>) = FALSE
    BY <1>7, <1>14
  <2> QED
    BY <1>10, <1>12, <1>14, <2>1, <2>2
<1> QED
  BY <1>13, <1>14

(* Two functions that satisfy the loop's equation agree: there is no least  *)
(* turn at which they do not.                                               *)
LEMMA CapTurnsUnique ==
  ASSUME NEW str \in Seq(Char), NEW f, NEW g, CapTurns(str, f), CapTurns(str, g),
         NEW m \in 0 .. Len(str)
  PROVE  f[m] = g[m]
<1>1. PICK n \in Nat : n = Len(str)
  BY LenProperties
<1>2. /\ f[0] = [str |-> <<>>, is_prev_space |-> TRUE]
      /\ g[0] = [str |-> <<>>, is_prev_space |-> TRUE]
      /\ \A i \in 1 .. n : f[i] = CapTurn(f[i - 1], str[i]) /\ g[i] = CapTurn(g[i - 1], str[i])
  <2>1. 0 \in 0 .. n /\ \A i \in 1 .. n : i \in 0 .. n /\ i # 0
    OBVIOUS
  <2>2. ASSUME NEW h, CapTurns(str, h)
        PROVE  /\ h[0] = [str |-> <<>>, is_prev_space |-> TRUE]
               /\ \A i \in 1 .. n : h[i] = CapTurn(h[i - 1], str[i])
    <3>1. \A i \in 0 .. n : h[i] = IF i = 0 THEN [str |-> <<>>, is_prev_space |-> TRUE]
                                 ELSE CapTurn(h[i - 1], str[i])
      BY <1>1, <2>2, Zenon DEF CapTurns
    <3> QED
      BY <2>1, <3>1, Zenon
  <2> QED
    BY <2>2, Zenon
<1> DEFINE T == {i \in 0 .. n : f[i] # g[i]}
<1>3. SUFFICES ASSUME T # {} PROVE FALSE
  BY <1>1
<1>4. T \subseteq Nat
  OBVIOUS
<1> HIDE DEF T
<1>5. PICK i \in T : \A j \in T : i =< j
  BY <1>3, <1>4, LeastNumber
<1>6. i \in 0 .. n /\ f[i] # g[i]
  BY DEF T
<1>7. i # 0
  BY <1>2, <1>6
<1>8. i \in 1 .. n /\ i - 1 \in 0 .. n /\ ~ (i =< i - 1)
  BY <1>6, <1>7
<1>9. i - 1 \notin T
  BY <1>5, <1>8
<1>10. f[i - 1] = g[i - 1]
  BY <1>8, <1>9 DEF T
<1> QED
  BY <1>2, <1>6, <1>8, <1>10, Zenon

LEMMA CapTurnsState ==
  ASSUME NEW str \in Seq(Char)
  PROVE  CapTurns(str, [i \in 0 .. Len(str) |-> CapState(str, i)])
<1> DEFINE acc == [i \in 0 .. Len(str) |-> CapState(str, i)]
<1>1. PICK n \in Nat : n = Len(str)
  BY LenProperties
<1>2. Capitalised(str) \in Seq(Char)
  BY CapitalisedLine
<1>3. acc[0] = [str |-> <<>>, is_prev_space |-> TRUE]
  <2>1. SubSeq(Capitalised(str), 1, 0) = <<>>
    BY <1>2
  <2>2. CapState(str, 0) = [str |-> <<>>, is_prev_space |-> TRUE]
    BY <2>1 DEF CapState
  <2> QED
    BY <1>1, <2>2
<1>4. ASSUME NEW i \in 1 .. n PROVE acc[i] = CapTurn(acc[i - 1], str[i])
  <2>1. CapState(str, i) = CapTurn(CapState(str, i - 1), str[i])
    BY <1>1, CapStep
  <2>2. i \in 0 .. Len(str) /\ i - 1 \in 0 .. Len(str)
    BY <1>1
  <2> QED
    BY <2>1, <2>2, Zenon
<1>5. \A i \in 0 .. Len(str) : i = 0 \/ i \in 1 .. n
  BY <1>1
<1>6. \A i \in 0 .. Len(str) :
        acc[i] = IF i = 0 THEN [str |-> <<>>, is_prev_space |-> TRUE] ELSE CapTurn(acc[i - 1], str[i])
  BY <1>3, <1>4, <1>5, Zenon
<1>7. acc = [i \in 0 .. Len(str) |-> acc[i]]
  OBVIOUS
<1> HIDE DEF acc
<1>8. CapTurns(str, acc)
  BY <1>6, <1>7 DEF CapTurns
<1> QED
  BY <1>8 DEF acc

LEMMA CapFirstLetter ==
  ASSUME NEW str \in Seq(Char)
  PROVE  cap_first_letter(str) = Capitalised(str)
<1> DEFINE acc == CHOOSE f : CapTurns(str, f)
<1>1. CapTurns(str, acc)
  BY CapTurnsState, Zenon
<1>2. cap_first_letter(str) = acc[Len(str)].str
  BY Zenon DEF cap_first_letter, CapTurns
<1>3. Len(str) \in 0 .. Len(str)
  BY LenProperties
<1> HIDE DEF acc
<1>4. acc[Len(str)] = CapState(str, Len(str))
  <2> DEFINE f == [i \in 0 .. Len(str) |-> CapState(str, i)]
  <2>1. CapTurns(str, f)
    BY CapTurnsState
  <2>2. f[Len(str)] = CapState(str, Len(str))
    BY <1>3
  <2> HIDE DEF f
  <2>3. acc[Len(str)] = f[Len(str)]
    BY <1>1, <1>3, <2>1, CapTurnsUnique
  <2> QED
    BY <2>2, <2>3
<1>5. SubSeq(Capitalised(str), 1, Len(str)) = Capitalised(str)
  <2>1. Capitalised(str) \in Seq(Char) /\ Len(Capitalised(str)) = Len(str)
    BY CapitalisedLine
  <2>2. SubSeq(Capitalised(str), 1, Len(Capitalised(str))) = Capitalised(str)
    BY <2>1, SubSeqFull
  <2> QED
    BY <2>1, <2>2, Zenon
<1> QED
  BY <1>2, <1>4, <1>5 DEF CapState

-----------------------------------------------------------------------------
(* The inductive invariant of the string service. *)

(* The phases, the counter and the histories. *)
Phases ==
  /\ main \in MainPhase
  /\ net \in NetPhase
  /\ server \in {"syncing", "receiving"}
  /\ closing \in BOOLEAN
  /\ num_pending \in Int
  /\ loaded \in [Thread -> Int]
  /\ lines \in Seq(Line)
  /\ printed \in Seq(Seq(Char))
  /\ overlapped \in BOOLEAN

Replies == [i \in DOMAIN lines |-> Capitalised(lines[i])]

(* k lines have reached the server; the others are on their way to it, the  *)
(* replies to those that are not printed are on their way back.             *)
InOrder(k) ==
  /\ Len(printed) =< k
  /\ Framed(Stream("server"), lines, k, Len(lines))
  /\ Framed(Stream("client"), Replies, Len(printed), k)

Printed == \A i \in DOMAIN printed : printed[i] = Capitalised(lines[i])

StringInv == Phases /\ Buffers /\ (\E k \in 0 .. Len(lines) : InOrder(k)) /\ Printed

LEMMA LinesAndReplies ==
  ASSUME Phases
  PROVE  /\ Len(lines) \in Nat /\ DOMAIN lines = 1 .. Len(lines)
         /\ Len(printed) \in Nat /\ DOMAIN printed = 1 .. Len(printed)
         /\ \A i \in 1 .. Len(lines) :
              lines[i] \in Seq(Char) /\ Replies[i] = Capitalised(lines[i]) /\ Replies[i] \in Seq(Char)
<1>1. /\ Len(lines) \in Nat /\ DOMAIN lines = 1 .. Len(lines)
      /\ \A i \in 1 .. Len(lines) : lines[i] \in Line
  BY LenProperties, ElementOfSeq DEF Phases
<1>2. Len(printed) \in Nat /\ DOMAIN printed = 1 .. Len(printed)
  BY LenProperties DEF Phases
<1>3. ASSUME NEW i \in 1 .. Len(lines)
      PROVE lines[i] \in Seq(Char) /\ Replies[i] = Capitalised(lines[i]) /\ Replies[i] \in Seq(Char)
  <2>1. lines[i] \in Seq(Char)
    BY <1>1, StringChannelAssumption
  <2>2. Replies[i] = Capitalised(lines[i])
    BY <1>1, Zenon DEF Replies
  <2>3. Capitalised(lines[i]) \in Seq(Char)
    BY <2>1, CapitalisedLine
  <2> QED
    BY <2>1, <2>2, <2>3, Zenon
<1> QED
  BY <1>1, <1>2, <1>3

LEMMA StringInit == Init => StringInv
<1> SUFFICES ASSUME Init PROVE StringInv
  OBVIOUS
<1>1. Phases
  <2>1. main \in MainPhase /\ net \in NetPhase /\ server \in {"syncing", "receiving"}
    BY DEF Init, MainPhase, NetPhase
  <2>2. num_pending \in Int /\ loaded \in [Thread -> Int]
    <3>1. num_pending = 0 /\ loaded = [t \in Thread |-> 0]
      BY Zenon DEF Init
    <3> QED
      BY <3>1
  <2>5. closing \in BOOLEAN
    BY Zenon DEF Init
  <2>3. lines \in Seq(Line) /\ printed \in Seq(Seq(Char))
    BY DEF Init
  <2>4. overlapped \in BOOLEAN
    BY DEF Init
  <2> QED
    BY <2>1, <2>2, <2>3, <2>4, <2>5, Zenon DEF Phases
<1>2. Buffers
  BY DEF Init, Buffers, NoRequest, Whole
<1>3. Len(lines) = 0 /\ Len(printed) = 0
  BY DEF Init
<1>4. Stream("server") = <<>> /\ Stream("client") = <<>>
  <2>1. <<>> \o <<>> = <<>>
    OBVIOUS
  <2>2. "server" \in End /\ "client" \in End
    BY DEF End
  <2>3. \A e \in End : /\ requests[e].data = <<>> /\ read_buf[e] = <<>>
                       /\ wire[e] = <<>> /\ write_buf[e] = <<>>
    BY DEF Init, NoRequest
  <2>4. \A e \in End : Partial(requests[e]) = <<>>
    BY <2>3, Zenon DEF Partial
  <2>5. Other("server") \in End /\ Other("client") \in End
    BY DEF End, Other
  <2>6. ASSUME NEW e \in End PROVE Stream(e) = <<>>
    <3>1. Other(e) \in End
      BY DEF End, Other
    <3>2. Stream(e) = <<>> \o <<>> \o <<>> \o <<>>
      BY <2>3, <2>4, <3>1, Zenon DEF Stream
    <3> QED
      BY <2>1, <3>2, Zenon
  <2> QED
    BY <2>2, <2>6
<1>5. InOrder(0)
  <2>1. Framed(<<>>, lines, 0, 0) /\ Framed(<<>>, Replies, 0, 0)
    BY FramedEmpty
  <2> QED
    BY <1>3, <1>4, <2>1 DEF InOrder
<1>6. Printed
  BY DEF Init, Printed
<1>7. 0 \in 0 .. Len(lines)
  BY <1>3
<1> QED
  BY <1>1, <1>2, <1>5, <1>6, <1>7, Zenon DEF StringInv

(* The steps that leave the streams as they are. *)
LEMMA StreamsStay ==
  ASSUME StringInv, Phases', Buffers', UNCHANGED <<lines, printed>>,
         \A e \in End : Stream(e)' = Stream(e)
  PROVE  StringInv'
<1>1. "server" \in End /\ "client" \in End
  BY DEF End
<1>2. Stream("server")' = Stream("server") /\ Stream("client")' = Stream("client")
  BY <1>1
<1>3. lines' = lines /\ printed' = printed /\ Replies' = Replies
  BY DEF Replies
<1>4. PICK k \in 0 .. Len(lines) : InOrder(k)
  BY DEF StringInv
<1>5. InOrder(k)'
  BY <1>2, <1>3, <1>4, Zenon DEF InOrder
<1>6. Printed'
  BY <1>3, Zenon DEF StringInv, Printed
<1> QED
  BY <1>3, <1>4, <1>5, <1>6, Zenon DEF StringInv

(* SendLine puts the line behind what goes to the server. *)
LEMMA LineStep ==
  ASSUME StringInv, NEW line \in Line, SendLine(line)
  PROVE  StringInv'
<1>1. Phases /\ Buffers /\ Printed /\ line \in Seq(Char)
  BY StringChannelAssumption DEF StringInv
<1>2. PICK k \in 0 .. Len(lines) : InOrder(k)
  BY DEF StringInv
<1>3. PICK n \in Nat : n = Len(lines)
  BY <1>1, LinesAndReplies
<1>4. lines' = Append(lines, line) /\ printed' = printed
  BY DEF SendLine
<1>5. /\ Len(lines') = n + 1 /\ lines'[n + 1] = line /\ lines' \in Seq(Line)
      /\ \A i \in 1 .. n : lines'[i] = lines[i]
  BY <1>1, <1>3, <1>4, AppendProperties DEF Phases
<1>6. Phases'
  BY <1>1, <1>5 DEF SendLine, Phases, MainPhase, countVars
<1>7. /\ write_buf' \in [End -> Seq(Byte)]
      /\ write_buf'["server"] = write_buf["server"]
      /\ \A p, r, w \in Seq(Byte) :
           p \o r \o w \o write_buf'["client"] = (p \o r \o w \o write_buf["client"]) \o Encoded(line)
  <2>1. Send("client", line) /\ "client" \in End /\ Other("client") = "server"
    BY DEF SendLine, End, Other
  <2> QED
    BY <1>1, <2>1, SendAppends
<1>8. read_buf' = read_buf /\ wire' = wire /\ requests' = requests
  BY DEF SendLine
<1>9. Buffers'
  BY <1>1, <1>7, <1>8 DEF Buffers
<1>10. Stream("client")' = Stream("client")
  BY <1>7, <1>8 DEF Stream, Other
<1>11. Stream("server") \in Seq(Byte) /\ Stream("server")' = Stream("server") \o Encoded(line)
  <2> DEFINE p == Partial(requests["server"])
             r == read_buf["server"]
             w == wire["server"]
             q == write_buf["client"]
  <2>1. /\ "server" \in End /\ "client" \in End
        /\ requests["server"] \in [size : Nat, data : Seq(Char)]
        /\ r \in Seq(Byte) /\ w \in Seq(Byte) /\ q \in Seq(Byte)
    BY <1>1 DEF End, Buffers
  <2>2. p \in Seq(Byte)
    BY <2>1, PartialBytes
  <2>3. Stream("server") = p \o r \o w \o q
    BY DEF Stream, Other
  <2>4. Stream("server")' = p \o r \o w \o write_buf'["client"]
    BY <1>8 DEF Stream, Other
  <2> HIDE DEF p, r, w, q
  <2>5. p \o r \o w \o write_buf'["client"] = (p \o r \o w \o q) \o Encoded(line)
    BY <1>7, <2>1, <2>2 DEF q
  <2>6. StreamTyped(p, r, w, q)
    BY <2>1, <2>2, PartsOfStream
  <2> QED
    BY <2>3, <2>4, <2>5, <2>6, Zenon DEF StreamTyped
<1>12. /\ Len(printed) =< k
       /\ Framed(Stream("server"), lines, k, n)
       /\ Framed(Stream("client"), Replies, Len(printed), k)
  BY <1>2, <1>3 DEF InOrder
<1>13. k \in 0 .. n /\ k \in Nat /\ k =< n
  BY <1>2, <1>3
<1>14. Framed(Stream("server")', lines', k, n + 1)
  <2>1. \A i \in k + 1 .. n : lines'[i] = lines[i]
    <3>1. \A i \in k + 1 .. n : i \in 1 .. n
      BY <1>13
    <3> QED
      BY <1>5, <3>1, Zenon
  <2>2. Framed(Stream("server"), lines', k, n)
    BY <1>12, <1>13, <2>1, FramedOther, Zenon
  <2>3. Strings(lines', k, n + 1)
    <3>1. \A i \in 1 .. n : lines[i] \in Seq(Char)
      BY <1>1, <1>3, LinesAndReplies
    <3>2. \A i \in k + 1 .. n + 1 : i \in 1 .. n \/ i = n + 1
      BY <1>13
    <3> QED
      BY <1>1, <1>5, <3>1, <3>2, Zenon DEF Strings
  <2>4. Framed(Stream("server") \o Encoded(lines'[n + 1]), lines', k, n + 1)
    BY <1>11, <1>13, <2>2, <2>3, FramedAppend
  <2> QED
    BY <1>5, <1>11, <2>4, Zenon
<1>15. \A i \in 1 .. n : Replies'[i] = Replies[i]
  <2>1. ASSUME NEW i \in 1 .. n PROVE Replies'[i] = Replies[i]
    <3>1. i \in DOMAIN lines' /\ i \in DOMAIN lines
      BY <1>1, <1>3, <1>5, LinesAndReplies
    <3>2. Replies[i] = Capitalised(lines[i])
      BY <3>1, Zenon DEF Replies
    <3>3. Replies'[i] = Capitalised(lines'[i])
      BY <3>1, Zenon DEF Replies
    <3> QED
      BY <1>5, <3>2, <3>3, Zenon
  <2> QED
    BY <2>1
<1>16. Framed(Stream("client")', Replies', Len(printed'), k)
  <2>1. Len(printed) \in Nat
    BY <1>1, LinesAndReplies
  <2>2. \A i \in Len(printed) + 1 .. k : i \in 1 .. n
    BY <1>13, <2>1
  <2>3. \A i \in Len(printed) + 1 .. k : Replies'[i] = Replies[i]
    BY <1>15, <2>2, Zenon
  <2>4. Framed(Stream("client"), Replies', Len(printed), k)
    BY <1>12, <1>13, <2>1, <2>3, FramedOther, Zenon
  <2> QED
    BY <1>4, <1>10, <2>4, Zenon
<1>17. InOrder(k)'
  BY <1>4, <1>5, <1>12, <1>14, <1>16, Zenon DEF InOrder
<1>18. Printed'
  <2>1. ASSUME NEW i \in DOMAIN printed' PROVE printed'[i] = Capitalised(lines'[i])
    <3>1. i \in DOMAIN printed
      BY <1>4
    <3>2. i \in 1 .. n
      BY <1>1, <1>12, <1>13, <3>1, LinesAndReplies
    <3> QED
      BY <1>1, <1>4, <1>5, <3>1, <3>2, Zenon DEF Printed
  <2> QED
    BY <2>1 DEF Printed
<1>19. k \in 0 .. Len(lines')
  BY <1>5, <1>13
<1> QED
  BY <1>6, <1>9, <1>17, <1>18, <1>19, Zenon DEF StringInv

(* NetReceives takes a reply from the stream and prints it. *)
LEMMA NetStep ==
  ASSUME StringInv, NetReceives
  PROVE  StringInv'
<1>1. Phases /\ Buffers /\ Printed
  BY DEF StringInv
<1>2. PICK k \in 0 .. Len(lines) : InOrder(k)
  BY DEF StringInv
<1>3. PICK n \in Nat : n = Len(lines)
  BY <1>1, LinesAndReplies
<1>4. PICK m \in Nat : m = Len(printed)
  BY <1>1, LinesAndReplies
<1>5. /\ m =< k
      /\ Framed(Stream("server"), lines, k, n)
      /\ Framed(Stream("client"), Replies, m, k)
  BY <1>2, <1>3, <1>4 DEF InOrder
<1>6. k \in Nat /\ k =< n /\ \A i \in m + 1 .. k : i \in 1 .. n
  BY <1>2, <1>3, <1>4
<1>7. "client" \in End /\ "server" \in End /\ Other("client") = "server" /\ Other("server") = "client"
  BY DEF End, Other
<1>8. Receive("client") /\ wire' = wire /\ write_buf' = write_buf /\ lines' = lines
  BY DEF NetReceives
<1>9. Replies' = Replies
  BY <1>8 DEF Replies
<1>10. \A i \in 1 .. n : Replies[i] = Capitalised(lines[i]) /\ Replies[i] \in Seq(Char)
  BY <1>1, <1>3, LinesAndReplies
<1>11. Strings(Replies, m, k)
  BY <1>6, <1>10, Zenon DEF Strings
<1>12. /\ read_buf' \in [End -> Seq(Byte)]
       /\ requests' \in [End -> [size : Nat, data : Seq(Char)]]
       /\ \A e \in End : Whole(read_buf'[e])
       /\ \A e \in End \ {"client"} : read_buf'[e] = read_buf[e] /\ requests'[e] = requests[e]
       /\ Complete("client") => /\ m < k
                                /\ Assembled("client").data = Replies[m + 1]
                                /\ Framed(Stream("client")', Replies, m + 1, k)
       /\ ~ Complete("client") => Framed(Stream("client")', Replies, m, k)
  <2>1. write_buf'[Other("client")] = write_buf[Other("client")]
    BY <1>8
  <2> QED
    BY <1>1, <1>5, <1>6, <1>7, <1>8, <1>11, <2>1, ReceiveTakesFirst
<1>13. Buffers'
  BY <1>1, <1>8, <1>12 DEF Buffers
<1>14. Stream("server")' = Stream("server")
  <2>1. read_buf'["server"] = read_buf["server"] /\ requests'["server"] = requests["server"]
    <3>1. "server" \in End \ {"client"}
      BY <1>7
    <3> QED
      BY <1>12, <3>1
  <2> QED
    BY <1>8, <2>1, Zenon DEF Stream
<1>15. CASE Complete("client")
  <2>1. net' = "received" /\ printed' = Append(printed, Replies[m + 1])
    BY <1>12, <1>15 DEF NetReceives
  <2>2. m + 1 \in 1 .. n /\ m + 1 =< k
    BY <1>6, <1>12, <1>15
  <2>3. Replies[m + 1] = Capitalised(lines[m + 1]) /\ Replies[m + 1] \in Seq(Char)
    BY <1>10, <2>2
  <2>4. /\ printed' \in Seq(Seq(Char)) /\ Len(printed') = m + 1 /\ printed'[m + 1] = Replies[m + 1]
        /\ \A i \in 1 .. m : printed'[i] = printed[i]
    <3>1. printed \in Seq(Seq(Char))
      BY <1>1 DEF Phases
    <3> QED
      BY <1>4, <2>1, <2>3, <3>1, AppendProperties
  <2>5. Phases'
    BY <1>1, <2>1, <2>4 DEF NetReceives, Phases, NetPhase, countVars
  <2>6. InOrder(k)'
    BY <1>3, <1>5, <1>8, <1>9, <1>12, <1>14, <1>15, <2>2, <2>4, Zenon DEF InOrder
  <2>7. Printed'
    <3>1. DOMAIN printed' = 1 .. m + 1
      BY <2>4, LenProperties
    <3>2. ASSUME NEW i \in 1 .. m + 1 PROVE printed'[i] = Capitalised(lines[i])
      <4>1. i \in 1 .. m \/ i = m + 1
        OBVIOUS
      <4>2. DOMAIN printed = 1 .. m
        BY <1>1, <1>4, LinesAndReplies
      <4>3. ASSUME i \in 1 .. m PROVE printed'[i] = Capitalised(lines[i])
        BY <1>1, <2>4, <4>2, <4>3, Zenon DEF Printed
      <4> QED
        BY <2>3, <2>4, <4>1, <4>3, Zenon
    <3> QED
      BY <1>8, <3>1, <3>2, Zenon DEF Printed
  <2> QED
    BY <1>2, <1>8, <1>13, <2>5, <2>6, <2>7, Zenon DEF StringInv
<1>16. CASE ~ Complete("client")
  <2>1. net' = "testing" /\ printed' = printed
    BY <1>16 DEF NetReceives
  <2>2. Phases'
    BY <1>1, <2>1 DEF NetReceives, Phases, NetPhase, countVars
  <2>3. InOrder(k)'
    BY <1>3, <1>4, <1>5, <1>8, <1>9, <1>12, <1>14, <1>16, <2>1, Zenon DEF InOrder
  <2>4. Printed'
    BY <1>1, <1>8, <2>1, Zenon DEF Printed
  <2> QED
    BY <1>2, <1>8, <1>13, <2>2, <2>3, <2>4, Zenon DEF StringInv
<1> QED
  BY <1>15, <1>16

(* ServerReceives takes a line and puts its reply behind the others. *)
LEMMA ServerStep ==
  ASSUME StringInv, ServerReceives
  PROVE  StringInv'
<1>1. Phases /\ Buffers /\ Printed
  BY DEF StringInv
<1>2. PICK k \in 0 .. Len(lines) : InOrder(k)
  BY DEF StringInv
<1>3. PICK n \in Nat : n = Len(lines)
  BY <1>1, LinesAndReplies
<1>4. PICK m \in Nat : m = Len(printed)
  BY <1>1, LinesAndReplies
<1>5. /\ m =< k
      /\ Framed(Stream("server"), lines, k, n)
      /\ Framed(Stream("client"), Replies, m, k)
  BY <1>2, <1>3, <1>4 DEF InOrder
<1>6. k \in Nat /\ k =< n
  BY <1>2, <1>3
<1>7. "client" \in End /\ "server" \in End /\ Other("client") = "server" /\ Other("server") = "client"
  BY DEF End, Other
<1>8. Receive("server") /\ wire' = wire /\ lines' = lines /\ printed' = printed
  BY DEF ServerReceives
<1>9. Replies' = Replies
  BY <1>8 DEF Replies
<1>10. \A i \in 1 .. n : /\ lines[i] \in Seq(Char)
                         /\ Replies[i] = Capitalised(lines[i]) /\ Replies[i] \in Seq(Char)
  BY <1>1, <1>3, LinesAndReplies
<1>11. Strings(lines, k, n)
  <2>1. \A i \in k + 1 .. n : i \in 1 .. n
    BY <1>6
  <2> QED
    BY <1>10, <2>1, Zenon DEF Strings
<1> DEFINE reply == cap_first_letter(Assembled("server").data)
<1>12. IF Complete("server") THEN Send("server", reply) ELSE write_buf' = write_buf
  BY DEF ServerReceives
<1>13. write_buf'["client"] = write_buf["client"]
  <2>1. Send("server", reply) => write_buf'["client"] = write_buf["client"]
    BY <1>1 DEF Send, Buffers, End
  <2> QED
    BY <1>12, <2>1
<1> HIDE DEF reply
<1>14. /\ read_buf' \in [End -> Seq(Byte)]
       /\ requests' \in [End -> [size : Nat, data : Seq(Char)]]
       /\ \A e \in End : Whole(read_buf'[e])
       /\ \A e \in End \ {"server"} : read_buf'[e] = read_buf[e] /\ requests'[e] = requests[e]
       /\ Complete("server") => /\ k < n
                                /\ Assembled("server").data = lines[k + 1]
                                /\ Framed(Stream("server")', lines, k + 1, n)
       /\ ~ Complete("server") => Framed(Stream("server")', lines, k, n)
  <2>1. write_buf'[Other("server")] = write_buf[Other("server")]
    BY <1>7, <1>13
  <2> QED
    BY <1>1, <1>3, <1>5, <1>6, <1>7, <1>8, <1>11, <2>1, ReceiveTakesFirst
<1>15. read_buf'["client"] = read_buf["client"] /\ requests'["client"] = requests["client"]
  <2>1. "client" \in End \ {"server"}
    BY <1>7
  <2> QED
    BY <1>14, <2>1
<1>16. Phases'
  BY <1>1 DEF ServerReceives, Phases, countVars
<1>17. Printed'
  BY <1>1, <1>8, Zenon DEF Printed
<1>18. CASE Complete("server")
  <2>1. k < n /\ reply = Capitalised(lines[k + 1]) /\ Framed(Stream("server")', lines, k + 1, n)
    <3>1. k < n /\ Assembled("server").data = lines[k + 1]
      BY <1>14, <1>18
    <3>2. k + 1 \in 1 .. n
      BY <1>6, <3>1
    <3> QED
      BY <1>10, <1>14, <1>18, <3>1, <3>2, CapFirstLetter DEF reply
  <2>2. k + 1 \in 1 .. n /\ k + 1 \in 0 .. Len(lines') /\ m =< k + 1
    BY <1>3, <1>5, <1>6, <1>8, <2>1
  <2>3. reply = Replies[k + 1] /\ reply \in Seq(Char)
    BY <1>10, <2>1, <2>2, Zenon
  <2>4. /\ write_buf' \in [End -> Seq(Byte)]
        /\ \A p, r, w \in Seq(Byte) :
             p \o r \o w \o write_buf'["server"] = (p \o r \o w \o write_buf["server"]) \o Encoded(reply)
    <3>1. Send("server", reply)
      BY <1>12, <1>18
    <3> QED
      BY <1>1, <1>7, <2>3, <3>1, SendAppends
  <2>5. Buffers'
    BY <1>1, <1>8, <1>14, <2>4 DEF Buffers
  <2>6. Stream("client") \in Seq(Byte) /\ Stream("client")' = Stream("client") \o Encoded(reply)
    <3> DEFINE p == Partial(requests["client"])
               r == read_buf["client"]
               w == wire["client"]
               q == write_buf["server"]
    <3>1. /\ requests["client"] \in [size : Nat, data : Seq(Char)]
          /\ r \in Seq(Byte) /\ w \in Seq(Byte) /\ q \in Seq(Byte)
      BY <1>1, <1>7 DEF Buffers
    <3>2. p \in Seq(Byte)
      BY <3>1, PartialBytes
    <3>3. Stream("client") = p \o r \o w \o q
      BY DEF Stream, Other
    <3>4. Stream("client")' = p \o r \o w \o write_buf'["server"]
      BY <1>8, <1>15 DEF Stream, Other
    <3> HIDE DEF p, r, w, q
    <3>5. p \o r \o w \o write_buf'["server"] = (p \o r \o w \o q) \o Encoded(reply)
      BY <2>4, <3>1, <3>2 DEF q
    <3>6. StreamTyped(p, r, w, q)
      BY <3>1, <3>2, PartsOfStream
    <3> QED
      BY <3>3, <3>4, <3>5, <3>6, Zenon DEF StreamTyped
  <2>7. Framed(Stream("client")', Replies, m, k + 1)
    <3>1. Strings(Replies, m, k + 1)
      <4>1. \A i \in m + 1 .. k + 1 : i \in 1 .. n
        BY <1>6, <2>1
      <4> QED
        BY <1>10, <4>1, Zenon DEF Strings
    <3>2. Framed(Stream("client") \o Encoded(Replies[k + 1]), Replies, m, k + 1)
      BY <1>5, <1>6, <2>6, <3>1, FramedAppend
    <3> QED
      BY <2>3, <2>6, <3>2, Zenon
  <2>8. InOrder(k + 1)'
    BY <1>3, <1>4, <1>8, <1>9, <2>1, <2>2, <2>7, Zenon DEF InOrder
  <2> QED
    BY <1>16, <1>17, <2>2, <2>5, <2>8, Zenon DEF StringInv
<1>19. CASE ~ Complete("server")
  <2>1. write_buf' = write_buf
    BY <1>12, <1>19
  <2>2. Buffers'
    BY <1>1, <1>8, <1>14, <2>1 DEF Buffers
  <2>3. Stream("client")' = Stream("client")
    BY <1>8, <1>15, <2>1, Zenon DEF Stream
  <2>4. InOrder(k)'
    BY <1>3, <1>4, <1>5, <1>8, <1>9, <1>14, <1>19, <2>3, Zenon DEF InOrder
  <2> QED
    BY <1>2, <1>8, <1>16, <1>17, <2>2, <2>4, Zenon DEF StringInv
<1> QED
  BY <1>18, <1>19

LEMMA StringNext ==
  ASSUME StringInv, [Next]_vars
  PROVE  StringInv'
<1>1. Phases /\ Buffers
  BY DEF StringInv
<1>2. ASSUME NEW line \in Line, SendLine(line) PROVE StringInv'
  BY <1>2, LineStep
<1>3. CASE NetReceives
  BY <1>3, NetStep
<1>4. CASE ServerReceives
  BY <1>4, ServerStep
<1>5. ASSUME NEW n \in 0 .. SOCKET_BUF_SIZE, NetSyncs(n) PROVE StringInv'
  <2>1. n \in Nat
    BY StringChannelAssumption
  <2>2. Sync("client", n) /\ requests' = requests /\ UNCHANGED <<lines, printed>> /\ "client" \in End
    BY <1>5 DEF NetSyncs, End
  <2>3. Buffers' /\ \A e \in End : Stream(e)' = Stream(e)
    BY <1>1, <2>1, <2>2, SyncKeeps
  <2>4. Phases'
    BY <1>1, <1>5 DEF NetSyncs, Phases, NetPhase, countVars
  <2> QED
    BY <2>2, <2>3, <2>4, StreamsStay, Zenon
<1>6. ASSUME NEW n \in 0 .. SOCKET_BUF_SIZE, ServerSyncs(n) PROVE StringInv'
  <2>1. n \in Nat
    BY StringChannelAssumption
  <2>2. Sync("server", n) /\ requests' = requests /\ UNCHANGED <<lines, printed>> /\ "server" \in End
    BY <1>6 DEF ServerSyncs, End
  <2>3. Buffers' /\ \A e \in End : Stream(e)' = Stream(e)
    BY <1>1, <2>1, <2>2, SyncKeeps
  <2>4. Phases'
    BY <1>1, <1>6 DEF ServerSyncs, Phases, countVars
  <2> QED
    BY <2>2, <2>3, <2>4, StreamsStay, Zenon
<1>7. ASSUME UNCHANGED <<socketVars, requests, lines, printed>>, Phases' PROVE StringInv'
  <2>1. Buffers'
    BY <1>1, <1>7 DEF Buffers, socketVars
  <2>2. \A e \in End : Stream(e)' = Stream(e)
    BY <1>7 DEF Stream, socketVars
  <2>3. UNCHANGED <<lines, printed>>
    BY <1>7
  <2> QED
    BY <1>7, <2>1, <2>2, <2>3, StreamsStay, Zenon
<1>8. loaded \in [Thread -> Int] /\ num_pending \in Int /\ "main" \in Thread /\ "net" \in Thread
  BY <1>1 DEF Phases, Thread
<1>9. loaded["main"] \in Int /\ loaded["net"] \in Int /\ Decrease \in Int
  BY <1>8 DEF Decrease
<1>10. CASE MainLoads
  <2>1. Phases'
    BY <1>1, <1>10 DEF MainLoads, Load, Phases, MainPhase
  <2> QED
    BY <1>7, <1>10, <2>1 DEF MainLoads
<1>11. CASE MainStores
  <2>1. num_pending' \in Int
    BY <1>9, <1>11 DEF MainStores, Store
  <2>2. Phases'
    BY <1>1, <1>11, <2>1 DEF MainStores, Store, Phases, MainPhase
  <2> QED
    BY <1>7, <1>11, <2>2 DEF MainStores
<1>12. CASE Close
  <2>1. Phases'
    BY <1>1, <1>12 DEF Close, Phases, MainPhase, countVars
  <2> QED
    BY <1>7, <1>12, <2>1 DEF Close
<1>13. CASE Join
  <2>1. Phases'
    BY <1>1, <1>13 DEF Join, Phases, MainPhase, countVars
  <2> QED
    BY <1>7, <1>13, <2>1 DEF Join
<1>14. CASE TestClosing
  <2>1. Phases'
    BY <1>1, <1>14 DEF TestClosing, Phases, NetPhase, countVars
  <2> QED
    BY <1>7, <1>14, <2>1 DEF TestClosing
<1>15. CASE NetLoads
  <2>1. Phases'
    BY <1>1, <1>15 DEF NetLoads, Load, Phases, NetPhase
  <2> QED
    BY <1>7, <1>15, <2>1 DEF NetLoads
<1>16. CASE NetStores
  <2>1. num_pending' \in Int
    BY <1>9, <1>16 DEF NetStores, Store
  <2>2. Phases'
    BY <1>1, <1>16, <2>1 DEF NetStores, Store, Phases, NetPhase
  <2> QED
    BY <1>7, <1>16, <2>2 DEF NetStores
<1>17. CASE UNCHANGED vars
  <2>1. Phases'
    BY <1>1, <1>17 DEF vars, countVars, Phases
  <2>2. UNCHANGED <<socketVars, requests, lines, printed>>
    BY <1>17 DEF vars
  <2> QED
    BY <1>7, <2>1, <2>2, Zenon
<1> QED
  BY <1>2, <1>3, <1>4, <1>5, <1>6, <1>10, <1>11, <1>12, <1>13, <1>14, <1>15, <1>16, <1>17
     DEF Next, MainThread, NetThread, ServerThread

LEMMA StringInvariant == Spec => []StringInv
<1>1. StringInv /\ [Next]_vars => StringInv'
  BY StringNext
<1> QED
  BY <1>1, StringInit, PTL DEF Spec

(* A stream in order that begins with what has been read, and no part of a  *)
(* message before that, begins with a size.                                 *)
LEMMA BeginsWithSize ==
  ASSUME Buffers, NEW end \in End, requests[end].data = <<>>, read_buf[end] # <<>>,
         NEW msgs, NEW a \in Nat, NEW b \in Nat, a =< b, Strings(msgs, a, b),
         Framed(Stream(end), msgs, a, b)
  PROVE  IsSize(read_buf[end][1])
<1> DEFINE r == read_buf[end]
           w == wire[end]
           q == write_buf[Other(end)]
<1>1. r \in Seq(Byte) /\ w \in Seq(Byte) /\ q \in Seq(Byte) /\ r # <<>>
  BY Ends DEF TypedEnd
<1>2. Stream(end) = <<>> \o r \o w \o q
  BY DEF Stream, Partial
<1> HIDE DEF r, w, q
<1>3. <<>> \in Seq(Byte) /\ Len(<<>>) = 0
  OBVIOUS
<1>4. 1 \in 1 .. Len(r)
  <2>1. Len(r) \in Nat /\ Len(r) # 0
    BY <1>1, EmptySeq, LenProperties
  <2> QED
    BY <2>1
<1>5. (<<>> \o r \o w \o q)[1] = r[1]
  <2>1. (<<>> \o r \o w \o q)[Len(<<>>) + 1] = r[1]
    BY <1>1, <1>3, <1>4, InSecond
  <2>2. Len(<<>>) + 1 = 1
    BY <1>3
  <2> QED
    BY <2>1, <2>2
<1>6. StreamTyped(<<>>, r, w, q)
  BY <1>1, <1>3, PartsOfStream
<1>7. Stream(end) \in Seq(Byte) /\ Stream(end) # <<>>
  BY <1>1, <1>2, <1>6, Zenon DEF StreamTyped
<1>8. msgs[a + 1] \in Seq(Char) /\ MessageAt(Stream(end), 0, msgs[a + 1])
  BY <1>7, FramedFirst
<1>9. Len(msgs[a + 1]) + 1 \in Nat
  BY <1>8, LenProperties
<1>10. Stream(end)[0 + 1] = Size(Len(msgs[a + 1]) + 1) /\ 0 + 1 = 1
  BY <1>8 DEF MessageAt
<1>11. IsSize(Size(Len(msgs[a + 1]) + 1))
  BY <1>9, Bytes
<1>12. r[1] = Size(Len(msgs[a + 1]) + 1)
  BY <1>2, <1>5, <1>10, Zenon
<1> QED
  BY <1>11, <1>12 DEF r

(* The types of the string service, and that a request without data finds a *)
(* size at the head of the buffer, however the reads cut the stream         *)
(* (receive_any_helper takes the first bytes for one without looking).      *)
THEOREM StringTypesCorrect == Spec => []TypeOK
<1>1. StringInv => TypeOK
  <2> SUFFICES ASSUME StringInv PROVE TypeOK
    OBVIOUS
  <2>1. Phases /\ Buffers
    BY DEF StringInv
  <2>2. PICK k \in 0 .. Len(lines) : InOrder(k)
    BY DEF StringInv
  <2>3. PICK n \in Nat : n = Len(lines)
    BY <2>1, LinesAndReplies
  <2>4. PICK m \in Nat : m = Len(printed)
    BY <2>1, LinesAndReplies
  <2>5. /\ m =< k
        /\ Framed(Stream("server"), lines, k, n)
        /\ Framed(Stream("client"), Replies, m, k)
    BY <2>2, <2>3, <2>4 DEF InOrder
  <2>6. /\ k \in Nat /\ k =< n
        /\ (\A i \in m + 1 .. k : i \in 1 .. n) /\ (\A i \in k + 1 .. n : i \in 1 .. n)
    BY <2>2, <2>3, <2>4
  <2>7. \A i \in 1 .. n : lines[i] \in Seq(Char) /\ Replies[i] \in Seq(Char)
    BY <2>1, <2>3, LinesAndReplies
  <2>8. Strings(lines, k, n) /\ Strings(Replies, m, k)
    BY <2>6, <2>7, Zenon DEF Strings
  <2>9. ASSUME NEW end \in End, requests[end].data = <<>>, read_buf[end] # <<>>
        PROVE  IsSize(read_buf[end][1])
    <3>1. CASE end = "server"
      BY <2>1, <2>5, <2>6, <2>8, <2>9, <3>1, BeginsWithSize
    <3>2. CASE end = "client"
      BY <2>1, <2>5, <2>6, <2>8, <2>9, <3>2, BeginsWithSize
    <3> QED
      BY <3>1, <3>2 DEF End
  <2> QED
    BY <2>1, <2>9 DEF TypeOK, Phases, Buffers
<1> QED
  BY <1>1, StringInvariant, PTL

(* The client prints the capitalised lines in the order it sent them,       *)
(* whatever the reads and the buffers cut (receive_any_helper,              *)
(* cap_first_letter).                                                       *)
THEOREM RepliesComeInOrder == Spec => []RepliesInOrder
<1>1. StringInv => RepliesInOrder
  <2> SUFFICES ASSUME StringInv PROVE RepliesInOrder
    OBVIOUS
  <2>1. Phases /\ Printed
    BY DEF StringInv
  <2>2. PICK k \in 0 .. Len(lines) : InOrder(k)
    BY DEF StringInv
  <2>3. Len(printed) =< k /\ Len(printed) \in Nat /\ Len(lines) \in Nat
    BY <2>1, <2>2, LinesAndReplies DEF InOrder
  <2>4. Len(printed) =< Len(lines)
    BY <2>2, <2>3
  <2> QED
    BY <2>1, <2>4 DEF Printed, RepliesInOrder
<1> QED
  BY <1>1, StringInvariant, PTL

-----------------------------------------------------------------------------
(* num_pending: what has been sent and counted, less what has been printed  *)
(* and counted, as long as no two updates have overlapped.                  *)

Busy(phases, phase) == IF phase \in phases THEN 1 ELSE 0
Uncounted == Busy({"sent", "counting"}, main)
Unprinted == Busy({"received", "counting"}, net)

Pending ==
  /\ num_pending = (Len(lines) - Uncounted) - (Len(printed) - Unprinted)
  /\ ~ (main = "counting" /\ net = "counting")
  /\ main = "counting" => loaded["main"] = num_pending
  /\ net = "counting" => loaded["net"] = num_pending
  /\ net = "ended" => Len(printed) = Len(lines)

Counted ==
  /\ closing <=> main \in {"joining", "ended"}
  /\ main = "ended" => net = "ended"
  /\ net = "ended" => closing
  /\ ~ overlapped => Pending

LEMMA CountInit == Init => Counted
BY DEF Init, Counted, Pending, Uncounted, Unprinted, Busy

LEMMA CountStep ==
  ASSUME Phases, Phases', Counted, [Next]_vars
  PROVE  Counted'
<1>1. PICK n \in Nat : n = Len(lines)
  BY LinesAndReplies
<1>2. PICK m \in Nat : m = Len(printed)
  BY LinesAndReplies
<1>3. /\ num_pending \in Int /\ loaded \in [Thread -> Int] /\ "main" \in Thread /\ "net" \in Thread
      /\ overlapped \in BOOLEAN /\ closing \in BOOLEAN
      /\ main \in MainPhase /\ net \in NetPhase
  BY DEF Phases, Thread
<1>4. ASSUME NEW line \in Line, SendLine(line) PROVE Counted'
  <2>1. Len(lines') = n + 1 /\ Len(printed') = m
    <3>1. lines \in Seq(Line) /\ lines' = Append(lines, line) /\ printed' = printed
      BY <1>4 DEF SendLine, Phases
    <3>2. Len(lines') = Len(lines) + 1
      BY <3>1, AppendProperties
    <3> QED
      BY <1>1, <1>2, <3>1, <3>2
  <2>2. main = "reading" /\ main' = "sent" /\ UNCHANGED <<net, closing, num_pending, loaded, overlapped>>
    BY <1>4 DEF SendLine, countVars
  <2> QED
    BY <1>1, <1>2, <1>3, <2>1, <2>2 DEF Counted, Pending, Uncounted, Unprinted, Busy
<1>5. CASE MainLoads
  <2>1. /\ main = "sent" /\ main' = "counting" /\ loaded' = [loaded EXCEPT !["main"] = num_pending]
        /\ overlapped' = (overlapped \/ net = "counting") /\ num_pending' = num_pending
        /\ UNCHANGED <<net, closing, lines, printed>>
    BY <1>5 DEF MainLoads, Load
  <2>2. loaded'["main"] = num_pending /\ loaded'["net"] = loaded["net"]
    BY <1>3, <2>1
  <2> QED
    BY <1>1, <1>2, <1>3, <2>1, <2>2 DEF Counted, Pending, Uncounted, Unprinted, Busy
<1>6. CASE MainStores
  <2>1. /\ main = "counting" /\ main' = "reading" /\ num_pending' = loaded["main"] + 1
        /\ UNCHANGED <<net, closing, lines, printed, loaded, overlapped>>
    BY <1>6 DEF MainStores, Store
  <2> QED
    BY <1>1, <1>2, <1>3, <2>1 DEF Counted, Pending, Uncounted, Unprinted, Busy
<1>7. CASE Close
  <2>1. /\ main = "reading" /\ main' = "joining" /\ closing' = TRUE
        /\ UNCHANGED <<net, lines, printed, num_pending, loaded, overlapped>>
    BY <1>7 DEF Close, countVars
  <2> QED
    BY <1>1, <1>2, <1>3, <2>1 DEF Counted, Pending, Uncounted, Unprinted, Busy
<1>8. CASE Join
  <2>1. /\ main = "joining" /\ net = "ended" /\ main' = "ended"
        /\ UNCHANGED <<net, closing, lines, printed, num_pending, loaded, overlapped>>
    BY <1>8 DEF Join, countVars
  <2> QED
    BY <1>1, <1>2, <1>3, <2>1 DEF Counted, Pending, Uncounted, Unprinted, Busy
<1>9. CASE TestClosing
  <2>1. /\ net = "testing" /\ net' = IF closing /\ num_pending = 0 THEN "ended" ELSE "syncing"
        /\ UNCHANGED <<main, closing, lines, printed, num_pending, loaded, overlapped>>
    BY <1>9 DEF TestClosing, is_closing, countVars
  <2>2. CASE closing /\ num_pending = 0
    <3>1. net' = "ended"
      BY <2>1, <2>2
    <3> QED
      BY <1>1, <1>2, <1>3, <2>1, <2>2, <3>1 DEF Counted, Pending, Uncounted, Unprinted, Busy
  <2>3. CASE ~ (closing /\ num_pending = 0)
    <3>1. net' = "syncing"
      BY <2>1, <2>3
    <3> QED
      BY <1>1, <1>2, <1>3, <2>1, <3>1 DEF Counted, Pending, Uncounted, Unprinted, Busy
  <2> QED
    BY <2>2, <2>3
<1>10. ASSUME NEW k \in 0 .. SOCKET_BUF_SIZE, NetSyncs(k) PROVE Counted'
  <2>1. /\ net = "syncing" /\ net' = "receiving"
        /\ UNCHANGED <<main, closing, lines, printed, num_pending, loaded, overlapped>>
    BY <1>10 DEF NetSyncs, countVars
  <2> QED
    BY <1>1, <1>2, <1>3, <2>1 DEF Counted, Pending, Uncounted, Unprinted, Busy
<1>11. CASE NetReceives
  <2>1. /\ net = "receiving"
        /\ UNCHANGED <<main, closing, lines, num_pending, loaded, overlapped>>
    BY <1>11 DEF NetReceives, countVars
  <2>2. \/ net' = "received" /\ Len(printed') = m + 1
        \/ net' = "testing" /\ Len(printed') = m
    <3>1. CASE Complete("client")
      <4>1. net' = "received" /\ printed' = Append(printed, Assembled("client").data)
        BY <1>11, <3>1 DEF NetReceives
      <4>2. Len(Append(printed, Assembled("client").data)) = Len(printed) + 1
        BY DEF Phases
      <4> QED
        BY <1>2, <4>1, <4>2
    <3>2. CASE ~ Complete("client")
      BY <1>2, <1>11, <3>2 DEF NetReceives
    <3> QED
      BY <3>1, <3>2
  <2> QED
    BY <1>1, <1>2, <1>3, <2>1, <2>2 DEF Counted, Pending, Uncounted, Unprinted, Busy
<1>12. CASE NetLoads
  <2>1. /\ net = "received" /\ net' = "counting" /\ loaded' = [loaded EXCEPT !["net"] = num_pending]
        /\ overlapped' = (overlapped \/ main = "counting") /\ num_pending' = num_pending
        /\ UNCHANGED <<main, closing, lines, printed>>
    BY <1>12 DEF NetLoads, Load
  <2>2. loaded'["net"] = num_pending /\ loaded'["main"] = loaded["main"]
    BY <1>3, <2>1
  <2> QED
    BY <1>1, <1>2, <1>3, <2>1, <2>2 DEF Counted, Pending, Uncounted, Unprinted, Busy
<1>13. CASE NetStores
  <2>1. /\ net = "counting" /\ net' = "testing" /\ num_pending' = loaded["net"] - 1
        /\ UNCHANGED <<main, closing, lines, printed, loaded, overlapped>>
    BY <1>3, <1>13 DEF NetStores, Store, Decrease
  <2> QED
    BY <1>1, <1>2, <1>3, <2>1 DEF Counted, Pending, Uncounted, Unprinted, Busy
<1>14. ASSUME UNCHANGED <<main, net, closing, lines, printed, num_pending, loaded, overlapped>>
       PROVE  Counted'
  BY <1>14 DEF Counted, Pending, Uncounted, Unprinted
<1>15. ASSUME NEW k \in 0 .. SOCKET_BUF_SIZE, ServerSyncs(k) PROVE Counted'
  BY <1>14, <1>15 DEF ServerSyncs, countVars
<1>16. CASE ServerReceives
  BY <1>14, <1>16 DEF ServerReceives, countVars
<1>17. CASE UNCHANGED vars
  BY <1>14, <1>17 DEF vars, countVars
<1> QED
  BY <1>4, <1>5, <1>6, <1>7, <1>8, <1>9, <1>10, <1>11, <1>12, <1>13, <1>15, <1>16, <1>17
     DEF Next, MainThread, NetThread, ServerThread

(* Unless two updates of num_pending overlap, the client does not end       *)
(* before it has printed the reply to every line (is_closing).              *)
THEOREM ClientEndsComplete == Spec => []EndsComplete
<1>1. StringInv => Phases
  BY DEF StringInv
<1>2. Phases /\ Phases' /\ Counted /\ [Next]_vars => Counted'
  BY CountStep
<1>3. Counted => EndsComplete
  BY DEF Counted, Pending, EndsComplete
<1> QED
  BY <1>1, <1>2, <1>3, CountInit, StringInvariant, PTL DEF Spec

-----------------------------------------------------------------------------
(* The arguments of a call. *)

(* The bytes of values. *)
Token == {"given", "result", "zero", "garbage"} \X Nat \X Nat
Octet == Token \X Nat

LEMMA TypesOfArguments ==
  ASSUME NEW f \in Seq(ArgType)
  PROVE  /\ Len(f) \in Nat /\ DOMAIN f = 1 .. Len(f)
         /\ \A i \in 1 .. Len(f) :
              /\ f[i] \in ArgType
              /\ get_arg_car(f[i]) \in Nat \ {0}
              /\ Width[f[i].type] \in Nat \ {0}
<1>1. Len(f) \in Nat /\ DOMAIN f = 1 .. Len(f) /\ \A i \in 1 .. Len(f) : f[i] \in ArgType
  BY LenProperties, ElementOfSeq
<1>2. ASSUME NEW i \in 1 .. Len(f)
      PROVE get_arg_car(f[i]) \in Nat \ {0} /\ Width[f[i].type] \in Nat \ {0}
  <2>1. f[i].type \in DOMAIN Width /\ f[i].low \in 0 .. CarSize - 1
    BY <1>1 DEF ArgType
  <2>2. Width[f[i].type] \in Nat \ {0}
    BY <2>1, MarshalAssumption
  <2>3. CarSize \in Nat
    BY MarshalAssumption
  <2>4. get_arg_car(f[i]) \in Nat \ {0}
    BY <2>1, <2>3 DEF get_arg_car
  <2> QED
    BY <2>2, <2>4
<1> QED
  BY <1>1, <1>2

(* The sums of Offset: there is a function that satisfies its equation, for *)
(* there is no least number up to which there is none.                      *)
Share(f, chosen, n) == IF n \in chosen THEN get_arg_car(f[n]) * Width[f[n].type] ELSE 0

SumsTo(f, chosen, n, sum) ==
  sum = [m \in 0 .. n |-> IF m = 0 THEN 0 ELSE sum[m - 1] + Share(f, chosen, m)]

LEMMA SumExtends ==
  ASSUME NEW f, NEW chosen, NEW n \in Nat, NEW sum, SumsTo(f, chosen, n, sum)
  PROVE  \E more : SumsTo(f, chosen, n + 1, more)
<1> DEFINE more == [m \in 0 .. n + 1 |->
                      IF m = n + 1 THEN sum[n] + Share(f, chosen, n + 1) ELSE sum[m]]
           entry(s, m) == IF m = 0 THEN 0 ELSE s[m - 1] + Share(f, chosen, m)
<1>1. \A m \in 0 .. n : sum[m] = entry(sum, m)
  BY Zenon DEF SumsTo
<1>2. /\ \A m \in 0 .. n : more[m] = sum[m]
      /\ more[n + 1] = sum[n] + Share(f, chosen, n + 1)
  OBVIOUS
<1>3. more = [m \in 0 .. n + 1 |-> more[m]]
  OBVIOUS
<1> HIDE DEF more
<1>4. ASSUME NEW m \in 0 .. n + 1 PROVE more[m] = entry(more, m)
  <2>1. CASE m = n + 1
    <3>1. m # 0 /\ m - 1 = n /\ n \in 0 .. n
      BY <2>1
    <3> QED
      BY <1>2, <2>1, <3>1, Zenon
  <2>2. CASE m # n + 1
    <3>1. m \in 0 .. n /\ (m # 0 => m - 1 \in 0 .. n)
      BY <2>2
    <3> QED
      BY <1>1, <1>2, <3>1, Zenon
  <2> QED
    BY <2>1, <2>2
<1>5. SumsTo(f, chosen, n + 1, more)
  BY <1>3, <1>4, Zenon DEF SumsTo
<1> QED
  BY <1>5

LEMMA SumExists ==
  ASSUME NEW f, NEW chosen, NEW N \in Nat
  PROVE  \E sum : SumsTo(f, chosen, N, sum)
<1> DEFINE T == {n \in Nat : ~ \E sum : SumsTo(f, chosen, n, sum)}
<1>1. SUFFICES ASSUME T # {} PROVE FALSE
  OBVIOUS
<1>2. T \subseteq Nat
  OBVIOUS
<1> HIDE DEF T
<1>3. PICK n \in T : \A m \in T : n =< m
  BY <1>1, <1>2, LeastNumber
<1>4. n \in Nat /\ ~ \E sum : SumsTo(f, chosen, n, sum)
  BY DEF T
<1>5. n # 0
  <2> DEFINE none == [m \in 0 .. 0 |-> 0]
  <2>1. none = [m \in 0 .. 0 |-> IF m = 0 THEN 0 ELSE none[m - 1] + Share(f, chosen, m)]
    <3>1. \A m \in 0 .. 0 : m = 0
      OBVIOUS
    <3> QED
      BY <3>1, Zenon
  <2> QED
    BY <1>4, <2>1, Zenon DEF SumsTo
<1>6. n - 1 \in Nat /\ ~ (n =< n - 1) /\ (n - 1) + 1 = n
  BY <1>4, <1>5
<1>7. n - 1 \notin T
  BY <1>3, <1>6
<1>8. PICK sum : SumsTo(f, chosen, n - 1, sum)
  BY <1>6, <1>7 DEF T
<1>9. \E more : SumsTo(f, chosen, (n - 1) + 1, more)
  BY <1>6, <1>8, SumExtends
<1> QED
  BY <1>4, <1>6, <1>9, Zenon

Offsets(f, chosen) == CHOOSE sum : SumsTo(f, chosen, Len(f), sum)

(* Where the arguments begin and end. *)
Summed(s, f, chosen) ==
  /\ s[0] = 0
  /\ \A n \in 1 .. Len(f) : s[n] = s[n - 1] + Share(f, chosen, n)
  /\ \A n \in 0 .. Len(f) : s[n] \in Nat
  /\ \A i : Offset(f, chosen, i) = s[i - 1]

LEMMA OffsetsSummed ==
  ASSUME NEW f \in Seq(ArgType), NEW chosen
  PROVE  Summed(Offsets(f, chosen), f, chosen)
<1> DEFINE s == Offsets(f, chosen)
<1>1. PICK N \in Nat : N = Len(f)
  BY TypesOfArguments
<1>2. SumsTo(f, chosen, Len(f), s)
  BY <1>1, SumExists, Zenon DEF Offsets
<1>3. ASSUME NEW i PROVE Offset(f, chosen, i) = s[i - 1]
  BY Zenon DEF Offset, Offsets, SumsTo, Share
<1> HIDE DEF s
<1>4. \A n \in 0 .. N : s[n] = IF n = 0 THEN 0 ELSE s[n - 1] + Share(f, chosen, n)
  BY <1>1, <1>2, Zenon DEF SumsTo
<1>5. s[0] = 0 /\ \A n \in 1 .. N : s[n] = s[n - 1] + Share(f, chosen, n)
  <2>1. 0 \in 0 .. N /\ \A n \in 1 .. N : n \in 0 .. N /\ n # 0
    OBVIOUS
  <2> QED
    BY <1>4, <2>1, Zenon
<1>6. ASSUME NEW n \in 1 .. N PROVE Share(f, chosen, n) \in Nat
  <2>1. get_arg_car(f[n]) \in Nat /\ Width[f[n].type] \in Nat
    BY <1>1, TypesOfArguments
  <2>2. get_arg_car(f[n]) * Width[f[n].type] \in Nat
    BY <2>1
  <2> QED
    BY <2>2 DEF Share
<1>7. ASSUME NEW n \in 0 .. N PROVE s[n] \in Nat
  <2> DEFINE T == {m \in 0 .. N : s[m] \notin Nat}
  <2>1. SUFFICES ASSUME T # {} PROVE FALSE
    OBVIOUS
  <2>2. T \subseteq Nat
    OBVIOUS
  <2> HIDE DEF T
  <2>3. PICK m \in T : \A l \in T : m =< l
    BY <2>1, <2>2, LeastNumber
  <2>4. m \in 0 .. N /\ s[m] \notin Nat
    BY DEF T
  <2>5. m # 0
    BY <1>5, <2>4
  <2>6. m \in 1 .. N /\ m - 1 \in 0 .. N /\ ~ (m =< m - 1)
    BY <2>4, <2>5
  <2>7. m - 1 \notin T
    BY <2>3, <2>6
  <2>8. s[m - 1] \in Nat
    BY <2>6, <2>7 DEF T
  <2>9. s[m] = s[m - 1] + Share(f, chosen, m) /\ Share(f, chosen, m) \in Nat
    BY <1>5, <1>6, <2>6, Zenon
  <2> QED
    BY <2>4, <2>8, <2>9
<1>8. Summed(s, f, chosen)
  BY <1>1, <1>3, <1>5, <1>7, Zenon DEF Summed
<1> QED
  BY <1>8 DEF s

-----------------------------------------------------------------------------
(* FlattenSeq. *)

FlatTo(seqs, n, flat) ==
  flat = [i \in 1 .. n |-> IF i = 1 THEN seqs[i] ELSE flat[i - 1] \o seqs[i]]

LEMMA FlatExtends ==
  ASSUME NEW seqs, NEW n \in Nat, NEW flat, FlatTo(seqs, n, flat)
  PROVE  \E more : FlatTo(seqs, n + 1, more)
<1> DEFINE entry(s, i) == IF i = 1 THEN seqs[i] ELSE s[i - 1] \o seqs[i]
           more == [i \in 1 .. n + 1 |-> IF i = n + 1 THEN entry(flat, i) ELSE flat[i]]
<1>1. \A i \in 1 .. n : flat[i] = entry(flat, i)
  BY Zenon DEF FlatTo
<1>2. /\ \A i \in 1 .. n : more[i] = flat[i]
      /\ more[n + 1] = entry(flat, n + 1)
  <2>1. n + 1 \in 1 .. n + 1 /\ \A i \in 1 .. n : i \in 1 .. n + 1 /\ i # n + 1
    OBVIOUS
  <2> QED
    BY <2>1, Zenon
<1>3. more = [i \in 1 .. n + 1 |-> more[i]]
  OBVIOUS
<1> HIDE DEF more
<1>4. ASSUME NEW i \in 1 .. n + 1 PROVE more[i] = entry(more, i)
  <2>1. i # 1 => i - 1 \in 1 .. n
    OBVIOUS
  <2>2. CASE i = n + 1
    BY <1>2, <2>1, <2>2, Zenon
  <2>3. CASE i # n + 1
    <3>1. i \in 1 .. n
      BY <2>3
    <3> QED
      BY <1>1, <1>2, <2>1, <3>1, Zenon
  <2> QED
    BY <2>2, <2>3
<1>5. FlatTo(seqs, n + 1, more)
  BY <1>3, <1>4, Zenon DEF FlatTo
<1> QED
  BY <1>5

LEMMA FlatExists ==
  ASSUME NEW seqs, NEW N \in Nat
  PROVE  \E flat : FlatTo(seqs, N, flat)
<1> DEFINE T == {n \in Nat : ~ \E flat : FlatTo(seqs, n, flat)}
<1>1. SUFFICES ASSUME T # {} PROVE FALSE
  OBVIOUS
<1>2. T \subseteq Nat
  OBVIOUS
<1> HIDE DEF T
<1>3. PICK n \in T : \A m \in T : n =< m
  BY <1>1, <1>2, LeastNumber
<1>4. n \in Nat /\ ~ \E flat : FlatTo(seqs, n, flat)
  BY DEF T
<1>5. n # 0
  <2> DEFINE none == [i \in 1 .. 0 |-> 0]
  <2>1. none = [i \in 1 .. 0 |-> IF i = 1 THEN seqs[i] ELSE none[i - 1] \o seqs[i]]
    <3>1. 1 .. 0 = {}
      OBVIOUS
    <3> QED
      BY <3>1, Zenon
  <2> QED
    BY <1>4, <2>1, Zenon DEF FlatTo
<1>6. n - 1 \in Nat /\ ~ (n =< n - 1) /\ (n - 1) + 1 = n
  BY <1>4, <1>5
<1>7. n - 1 \notin T
  BY <1>3, <1>6
<1>8. PICK flat : FlatTo(seqs, n - 1, flat)
  BY <1>6, <1>7 DEF T
<1>9. \E more : FlatTo(seqs, (n - 1) + 1, more)
  BY <1>6, <1>8, FlatExtends
<1> QED
  BY <1>4, <1>6, <1>9, Zenon

(* The parts, and where they begin and end in the whole. *)
Starts(s, seqs) ==
  /\ s[0] = 0
  /\ \A c \in 1 .. Len(seqs) : s[c] = s[c - 1] + Len(seqs[c])
  /\ \A c \in 0 .. Len(seqs) : s[c] \in Nat

Placed(all, seqs, s, n) ==
  /\ all \in Seq(Octet) /\ Len(all) = s[n]
  /\ \A c \in 1 .. n : s[c] =< s[n]
  /\ \A c \in 1 .. n : \A k \in 1 .. Len(seqs[c]) : all[s[c - 1] + k] = seqs[c][k]

LEMMA PlacedNext ==
  ASSUME NEW seqs, NEW s, Starts(s, seqs), NEW n \in 1 .. Len(seqs), Len(seqs) \in Nat,
         \A c \in 1 .. Len(seqs) : seqs[c] \in Seq(Octet),
         NEW all, Placed(all, seqs, s, n - 1)
  PROVE  Placed(all \o seqs[n], seqs, s, n)
<1> DEFINE last == seqs[n]
           more == all \o last
<1>1. PICK N \in Nat : N = Len(seqs)
  OBVIOUS
<1>2. n \in 1 .. N /\ n - 1 \in 0 .. N /\ n \in 0 .. N
  BY <1>1
<1>3. all \in Seq(Octet) /\ last \in Seq(Octet) /\ Len(all) = s[n - 1]
  BY <1>1, <1>2 DEF Placed
<1>4. s[n - 1] \in Nat /\ s[n] \in Nat /\ s[n] = s[n - 1] + Len(last)
  BY <1>1, <1>2 DEF Starts
<1> HIDE DEF last
<1>5. PICK x \in Nat : x = Len(all)
  BY <1>3, LenProperties
<1>6. PICK y \in Nat : y = Len(last)
  BY <1>3, LenProperties
<1>7. /\ more \in Seq(Octet) /\ Len(more) = x + y
      /\ \A i \in 1 .. x + y : more[i] = IF i =< x THEN all[i] ELSE last[i - x]
  BY <1>3, <1>5, <1>6, ConcatProperties
<1> HIDE DEF more
<1>8. s[n - 1] = x /\ s[n] = x + y
  BY <1>3, <1>4, <1>5, <1>6
<1>9. \A i \in 1 .. x : more[i] = all[i]
  <2>1. \A i \in 1 .. x : i \in 1 .. x + y /\ i =< x
    OBVIOUS
  <2> QED
    BY <1>7, <2>1, Zenon
<1>10. ASSUME NEW i \in 1 .. y PROVE more[x + i] = last[i]
  <2>1. x + i \in 1 .. x + y /\ ~ (x + i =< x) /\ (x + i) - x = i
    OBVIOUS
  <2> QED
    BY <1>7, <2>1, Zenon
<1>11. ASSUME NEW c \in 1 .. n - 1
       PROVE  /\ c \in 1 .. N /\ s[c] =< x /\ s[c] \in Nat /\ s[c - 1] \in Nat
              /\ s[c] = s[c - 1] + Len(seqs[c])
  <2>1. c \in 1 .. N /\ c \in 0 .. N /\ c - 1 \in 0 .. N
    BY <1>2
  <2>2. s[c] =< s[n - 1]
    BY DEF Placed
  <2>3. s[c] \in Nat /\ s[c - 1] \in Nat /\ s[c] = s[c - 1] + Len(seqs[c])
    BY <1>1, <2>1 DEF Starts
  <2> QED
    BY <1>8, <2>1, <2>2, <2>3
<1>12. ASSUME NEW c \in 1 .. n PROVE s[c] =< s[n]
  <2>1. CASE c = n
    BY <1>4, <2>1
  <2>2. CASE c # n
    <3>1. c \in 1 .. n - 1
      BY <1>2, <2>2
    <3>2. s[c] =< x /\ s[c] \in Nat
      BY <1>11, <3>1
    <3> QED
      BY <1>8, <3>2
  <2> QED
    BY <2>1, <2>2
<1>13. ASSUME NEW c \in 1 .. n, NEW k \in 1 .. Len(seqs[c])
       PROVE  more[s[c - 1] + k] = seqs[c][k]
  <2>1. CASE c = n
    <3>1. k \in 1 .. y /\ seqs[c] = last /\ s[c - 1] = x
      BY <1>6, <1>8, <2>1 DEF last
    <3> QED
      BY <1>10, <3>1, Zenon
  <2>2. CASE c # n
    <3>1. c \in 1 .. n - 1
      BY <1>2, <2>2
    <3>2. all[s[c - 1] + k] = seqs[c][k]
      BY <3>1 DEF Placed
    <3>3. PICK z \in Nat : z = s[c - 1]
      BY <1>11, <3>1
    <3>4. PICK l \in Nat : l = Len(seqs[c])
      <4>1. seqs[c] \in Seq(Octet)
        BY <1>1, <1>11, <3>1
      <4> QED
        BY <4>1, LenProperties
    <3>6. s[c] =< x /\ s[c] = z + l
      BY <1>11, <3>1, <3>3, <3>4, Zenon
    <3>7. k \in 1 .. l /\ z + l =< x
      BY <3>4, <3>6, Zenon
    <3>8. z + k \in 1 .. x
      BY <3>7
    <3>5. s[c - 1] + k \in 1 .. x
      BY <3>3, <3>8, Zenon
    <3> QED
      BY <1>9, <3>2, <3>5, Zenon
  <2> QED
    BY <2>1, <2>2
<1>14. Placed(more, seqs, s, n)
  BY <1>7, <1>8, <1>12, <1>13 DEF Placed
<1> QED
  BY <1>14 DEF more, last

LEMMA PlacedFirst ==
  ASSUME NEW seqs, NEW s, Starts(s, seqs), 1 \in 1 .. Len(seqs), Len(seqs) \in Nat,
         \A c \in 1 .. Len(seqs) : seqs[c] \in Seq(Octet)
  PROVE  Placed(seqs[1], seqs, s, 1)
<1>1. /\ s[0] = 0 /\ s[1] = s[1 - 1] + Len(seqs[1]) /\ s[1] \in Nat
      /\ seqs[1] \in Seq(Octet)
  BY DEF Starts
<1>2. Len(seqs[1]) \in Nat
  BY <1>1, LenProperties
<1>3. s[1] = Len(seqs[1]) /\ 1 - 1 = 0
  BY <1>1, <1>2
<1>4. \A c \in 1 .. 1 : c = 1
  OBVIOUS
<1>5. ASSUME NEW k \in 1 .. Len(seqs[1]) PROVE seqs[1][s[0] + k] = seqs[1][k]
  BY <1>1, <1>2
<1>6. s[1] =< s[1]
  BY <1>1
<1> QED
  BY <1>1, <1>3, <1>4, <1>5, <1>6, Zenon DEF Placed

LEMMA Flattened ==
  ASSUME NEW seqs, NEW s, Starts(s, seqs), NEW N \in Nat, seqs \in [1 .. N -> Seq(Octet)]
  PROVE  Placed(FlattenSeq(seqs), seqs, s, N)
<1>1. /\ seqs \in Seq(Seq(Octet)) /\ Len(seqs) = N /\ Len(seqs) \in Nat
      /\ \A c \in 1 .. Len(seqs) : seqs[c] \in Seq(Octet)
  <2>1. seqs \in Seq(Seq(Octet))
    BY SeqDef
  <2>2. DOMAIN seqs = 1 .. N
    OBVIOUS
  <2>3. Len(seqs) = N
    BY <2>1, <2>2
  <2> QED
    BY <2>1, <2>3
<1>2. CASE N = 0
  <2>1. seqs = <<>>
    BY <1>1, <1>2, EmptySeq
  <2>2. FlattenSeq(seqs) = <<>>
    BY <1>1, <1>2, <2>1, Zenon DEF FlattenSeq
  <2>3. <<>> \in Seq(Octet) /\ Len(<<>>) = 0 /\ 1 .. 0 = {}
    OBVIOUS
  <2>4. s[0] = 0
    BY DEF Starts
  <2> QED
    BY <1>2, <2>2, <2>3, <2>4, Zenon DEF Placed
<1>3. CASE N # 0
  <2> DEFINE flat == CHOOSE g : FlatTo(seqs, Len(seqs), g)
  <2>1. FlatTo(seqs, Len(seqs), flat)
    BY <1>1, FlatExists, Zenon
  <2>2. FlattenSeq(seqs) = flat[Len(seqs)]
    BY <1>1, <1>3, Zenon DEF FlattenSeq, FlatTo
  <2> HIDE DEF flat
  <2>3. \A i \in 1 .. N : flat[i] = IF i = 1 THEN seqs[i] ELSE flat[i - 1] \o seqs[i]
    BY <1>1, <2>1, Zenon DEF FlatTo
  <2>4. \A n \in 1 .. N : Placed(flat[n], seqs, s, n)
    <3> DEFINE T == {n \in 1 .. N : ~ Placed(flat[n], seqs, s, n)}
    <3>1. SUFFICES ASSUME T # {} PROVE FALSE
      OBVIOUS
    <3>2. T \subseteq Nat
      OBVIOUS
    <3> HIDE DEF T
    <3>3. PICK n \in T : \A m \in T : n =< m
      BY <3>1, <3>2, LeastNumber
    <3>4. n \in 1 .. N /\ ~ Placed(flat[n], seqs, s, n)
      BY DEF T
    <3>5. n # 1
      <4>1. 1 \in 1 .. N
        BY <1>3
      <4>2. flat[1] = seqs[1]
        BY <2>3, <4>1, Zenon
      <4>3. Placed(seqs[1], seqs, s, 1)
        BY <1>1, <4>1, PlacedFirst
      <4> QED
        BY <3>4, <4>2, <4>3, Zenon
    <3>6. n - 1 \in 1 .. N /\ ~ (n =< n - 1)
      BY <3>4, <3>5
    <3>7. n - 1 \notin T
      BY <3>3, <3>6
    <3>8. Placed(flat[n - 1], seqs, s, n - 1)
      BY <3>6, <3>7 DEF T
    <3>9. Placed(flat[n - 1] \o seqs[n], seqs, s, n)
      BY <1>1, <3>4, <3>8, PlacedNext
    <3> QED
      BY <2>3, <3>4, <3>5, <3>9, Zenon
  <2>5. N \in 1 .. N
    BY <1>3
  <2> QED
    BY <1>1, <2>2, <2>4, <2>5, Zenon
<1> QED
  BY <1>2, <1>3

-----------------------------------------------------------------------------
LEMMA Products ==
  ASSUME NEW j \in Nat, NEW n \in Nat, NEW width \in Nat
  PROVE  /\ j * width \in Nat
         /\ j # 0 => j * width = (j - 1) * width + width /\ (j - 1) * width \in Nat
         /\ j =< n => j * width =< n * width
<1>1. j * width \in Nat
  OBVIOUS
<1>2. j # 0 => j * width = (j - 1) * width + width
  OBVIOUS
<1>3. j # 0 => (j - 1) * width \in Nat
  <2>1. j # 0 => j - 1 \in Nat
    OBVIOUS
  <2>2. \A m \in Nat : m * width \in Nat
    OBVIOUS
  <2> QED
    BY <2>1, <2>2, Zenon
<1>4. j =< n => j * width =< n * width
  <2>1. SUFFICES ASSUME j =< n PROVE j * width =< n * width
    OBVIOUS
  <2>2. PICK d \in Nat : n = j + d
    <3>1. n - j \in Nat /\ n = j + (n - j)
      BY <2>1
    <3> QED
      BY <3>1
  <2>3. n * width = j * width + d * width
    BY <2>2
  <2>4. d * width \in Nat
    OBVIOUS
  <2> QED
    BY <1>1, <2>3, <2>4
<1> QED
  BY <1>1, <1>2, <1>3, <1>4

LEMMA PushBytes ==
  ASSUME NEW value \in Token, NEW width \in Nat
  PROVE  /\ Push(value, width) \in Seq(Octet)
         /\ Len(Push(value, width)) = width
         /\ \A k \in 1 .. width : Push(value, width)[k] = <<value, k>>
<1> DEFINE push == Push(value, width)
<1>1. push = [k \in 1 .. width |-> <<value, k>>]
  BY DEF Push
<1>2. \A k \in 1 .. width : <<value, k>> \in Octet
  BY DEF Octet
<1>3. push \in [1 .. width -> Octet] /\ \A k \in 1 .. width : push[k] = <<value, k>>
  BY <1>1, <1>2
<1> HIDE DEF push
<1>4. push \in Seq(Octet)
  BY <1>3, SeqDef
<1>5. Len(push) = width
  BY <1>3, <1>4
<1> QED
  BY <1>3, <1>4, <1>5 DEF push

(* The bytes of one argument. *)
ValueBytes(vals, n, width) == FlattenSeq([j \in 1 .. n |-> Push(vals[j], width)])

BytesOf(bytes, vals, n, width) ==
  /\ bytes \in Seq(Octet)
  /\ Len(bytes) = n * width
  /\ \A j \in 1 .. n : \A k \in 1 .. width : bytes[(j - 1) * width + k] = <<vals[j], k>>

LEMMA ArgumentBytes ==
  ASSUME NEW n \in Nat, NEW width \in Nat, NEW vals, \A j \in 1 .. n : vals[j] \in Token
  PROVE  BytesOf(ValueBytes(vals, n, width), vals, n, width)
<1> DEFINE seqs == [j \in 1 .. n |-> Push(vals[j], width)]
           s == [j \in 0 .. n |-> j * width]
<1>1. \A j \in 1 .. n : /\ Push(vals[j], width) \in Seq(Octet)
                        /\ Len(Push(vals[j], width)) = width
                        /\ \A k \in 1 .. width : Push(vals[j], width)[k] = <<vals[j], k>>
  BY PushBytes
<1>2. seqs \in [1 .. n -> Seq(Octet)] /\ \A j \in 1 .. n : seqs[j] = Push(vals[j], width)
  BY <1>1
<1>3. \A j \in 0 .. n : s[j] = j * width
  OBVIOUS
<1> HIDE DEF seqs, s
<1>4. Len(seqs) = n
  <2>1. seqs \in Seq(Seq(Octet)) /\ DOMAIN seqs = 1 .. n
    BY <1>2, SeqDef
  <2> QED
    BY <2>1
<1>5. Starts(s, seqs)
  <2>1. s[0] = 0
    BY <1>3
  <2>2. ASSUME NEW c \in 0 .. n PROVE s[c] \in Nat
    <3>1. c * width \in Nat
      BY Products
    <3> QED
      BY <1>3, <3>1
  <2>3. ASSUME NEW c \in 1 .. n PROVE s[c] = s[c - 1] + Len(seqs[c])
    <3>1. c \in 0 .. n /\ c - 1 \in 0 .. n /\ c \in Nat /\ c # 0
      OBVIOUS
    <3>2. c * width = (c - 1) * width + width
      BY <3>1, Products
    <3>3. s[c] = c * width /\ s[c - 1] = (c - 1) * width
      BY <1>3, <3>1, Zenon
    <3>4. Len(seqs[c]) = width
      BY <1>1, <1>2
    <3> QED
      BY <3>2, <3>3, <3>4, Zenon
  <2> QED
    BY <1>4, <2>1, <2>2, <2>3, Zenon DEF Starts
<1>6. Placed(FlattenSeq(seqs), seqs, s, n)
  BY <1>2, <1>5, Flattened
<1>7. ValueBytes(vals, n, width) = FlattenSeq(seqs)
  BY DEF ValueBytes, seqs
<1> DEFINE bytes == FlattenSeq(seqs)
<1>8. n \in 0 .. n
  OBVIOUS
<1>9. bytes \in Seq(Octet) /\ Len(bytes) = n * width
  BY <1>3, <1>6, <1>8, Zenon DEF Placed
<1>10. ASSUME NEW j \in 1 .. n, NEW k \in 1 .. width
       PROVE  bytes[(j - 1) * width + k] = <<vals[j], k>>
  <2>1. k \in 1 .. Len(seqs[j]) /\ seqs[j][k] = <<vals[j], k>>
    BY <1>1, <1>2
  <2>2. j - 1 \in 0 .. n
    OBVIOUS
  <2>3. s[j - 1] = (j - 1) * width
    BY <1>3, <2>2, Zenon
  <2>4. bytes[s[j - 1] + k] = seqs[j][k]
    BY <1>6, <2>1, Zenon DEF Placed
  <2> QED
    BY <2>1, <2>3, <2>4, Zenon
<1> QED
  BY <1>7, <1>9, <1>10, Zenon DEF BytesOf

(* The memory of a call. *)
Filled(f, mem) == \A i \in 1 .. Len(f) : \A j \in 1 .. get_arg_car(f[i]) : mem[i][j] \in Token

ValueAt(ss, at, width, value) ==
  /\ at \in Nat /\ at + width =< Len(ss)
  /\ \A k \in 1 .. width : ss[at + k] = <<value, k>>

(* Every value that is pushed is found at its offset. *)
LEMMA ValuesPushed ==
  ASSUME NEW f \in Seq(ArgType), NEW chosen, NEW mem, Filled(f, mem)
  PROVE  /\ PushAll(f, chosen, mem) \in Seq(Octet)
         /\ \A i \in 1 .. Len(f) : i \in chosen =>
              \A j \in 1 .. get_arg_car(f[i]) :
                ValueAt(PushAll(f, chosen, mem),
                        Offset(f, chosen, i) + (j - 1) * Width[f[i].type],
                        Width[f[i].type], mem[i][j])
<1> DEFINE car(i) == get_arg_car(f[i])
           width(i) == Width[f[i].type]
           part(i) == IF i \in chosen THEN ValueBytes(mem[i], car(i), width(i)) ELSE <<>>
           s == Offsets(f, chosen)
<1>1. PICK N \in Nat : N = Len(f)
  BY TypesOfArguments
<1> DEFINE seqs == [i \in 1 .. N |-> part(i)]
<1>2. DOMAIN f = 1 .. N /\ \A i \in 1 .. N : car(i) \in Nat \ {0} /\ width(i) \in Nat \ {0}
  BY <1>1, TypesOfArguments
<1>3. PushAll(f, chosen, mem) = FlattenSeq(seqs)
  BY <1>2, Zenon DEF PushAll, ValueBytes
<1>4. Summed(s, f, chosen)
  BY OffsetsSummed
<1> HIDE DEF s
<1>5. ASSUME NEW i \in 1 .. N
      PROVE  /\ ValueBytes(mem[i], car(i), width(i)) \in Seq(Octet)
             /\ Len(ValueBytes(mem[i], car(i), width(i))) = car(i) * width(i)
             /\ \A j \in 1 .. car(i) : \A k \in 1 .. width(i) :
                  ValueBytes(mem[i], car(i), width(i))[(j - 1) * width(i) + k] = <<mem[i][j], k>>
  <2>1. \A j \in 1 .. car(i) : mem[i][j] \in Token
    BY <1>1 DEF Filled
  <2>2. car(i) \in Nat /\ width(i) \in Nat
    BY <1>2
  <2> DEFINE vals == mem[i]
             n == car(i)
             w == width(i)
  <2>3. n \in Nat /\ w \in Nat /\ \A j \in 1 .. n : vals[j] \in Token
    BY <2>1, <2>2
  <2> HIDE DEF vals, n, w
  <2>4. BytesOf(ValueBytes(vals, n, w), vals, n, w)
    BY <2>3, ArgumentBytes
  <2> QED
    BY <2>4, Zenon DEF BytesOf, vals, n, w
<1>6. ASSUME NEW i \in 1 .. N PROVE part(i) \in Seq(Octet) /\ Len(part(i)) = Share(f, chosen, i)
  <2>1. <<>> \in Seq(Octet) /\ Len(<<>>) = 0
    OBVIOUS
  <2>2. CASE i \in chosen
    <3>1. part(i) = ValueBytes(mem[i], car(i), width(i)) /\ Share(f, chosen, i) = car(i) * width(i)
      BY <2>2, Zenon DEF Share
    <3> QED
      BY <1>5, <3>1, Zenon
  <2>3. CASE i \notin chosen
    <3>1. part(i) = <<>> /\ Share(f, chosen, i) = 0
      BY <2>3, Zenon DEF Share
    <3> QED
      BY <2>1, <3>1, Zenon
  <2> QED
    BY <2>2, <2>3
<1>7. seqs \in [1 .. N -> Seq(Octet)] /\ \A i \in 1 .. N : seqs[i] = part(i)
  <2> HIDE DEF part
  <2> QED
    BY <1>6
<1> HIDE DEF seqs
<1>8. Len(seqs) = N
  <2>1. seqs \in Seq(Seq(Octet)) /\ DOMAIN seqs = 1 .. N
    BY <1>7, SeqDef
  <2> QED
    BY <2>1
<1>9. Starts(s, seqs)
  <2>1. \A c \in 1 .. N : Len(seqs[c]) = Share(f, chosen, c)
    BY <1>6, <1>7, Zenon
  <2> QED
    BY <1>1, <1>4, <1>8, <2>1, Zenon DEF Starts, Summed
<1> DEFINE bytes == FlattenSeq(seqs)
<1>10. Placed(bytes, seqs, s, N)
  BY <1>7, <1>9, Flattened
<1> HIDE DEF bytes
<1>11. ASSUME NEW i \in 1 .. N, i \in chosen, NEW j \in 1 .. car(i)
       PROVE  ValueAt(bytes, Offset(f, chosen, i) + (j - 1) * width(i), width(i), mem[i][j])
  <2> DEFINE vb == ValueBytes(mem[i], car(i), width(i))
  <2>1. seqs[i] = vb
    BY <1>7, <1>11, Zenon
  <2>2. Len(vb) = car(i) * width(i)
    BY <1>5
  <2>3. \A k \in 1 .. width(i) : vb[(j - 1) * width(i) + k] = <<mem[i][j], k>>
    BY <1>5, Zenon
  <2>4. i - 1 \in 0 .. N /\ i \in 0 .. N
    OBVIOUS
  <2>5. s[i - 1] \in Nat /\ s[i] \in Nat /\ s[i] = s[i - 1] + Len(vb)
    BY <1>8, <1>9, <2>1, <2>4, Zenon DEF Starts
  <2>6. s[i] =< Len(bytes) /\ Len(bytes) = s[N]
    BY <1>10 DEF Placed
  <2> HIDE DEF vb
  <2>7. PICK x \in Nat : x = (j - 1) * width(i)
    <3>1. j \in Nat /\ j # 0 /\ width(i) \in Nat
      BY <1>2
    <3>2. (j - 1) * width(i) \in Nat
      BY <3>1, Products
    <3> QED
      BY <3>2, Zenon
  <2>8. PICK y \in Nat : y = width(i)
    BY <1>2
  <2>9. x + y =< Len(vb) /\ Len(vb) \in Nat
    <3>1. j \in Nat /\ j # 0 /\ car(i) \in Nat /\ j =< car(i) /\ width(i) \in Nat
      BY <1>2
    <3>2. j * width(i) = (j - 1) * width(i) + width(i) /\ j * width(i) =< car(i) * width(i)
      BY <3>1, Products
    <3>3. car(i) * width(i) \in Nat
      BY <3>1, Products
    <3> HIDE DEF car, width
    <3> QED
      BY <2>2, <2>7, <2>8, <3>2, <3>3
  <2>10. Offset(f, chosen, i) = s[i - 1]
    BY <1>4, Zenon DEF Summed
  <2>11. PICK z \in Nat : z = s[i - 1]
    BY <2>5
  <2>12. PICK l \in Nat : l = Len(vb)
    BY <2>9
  <2>13. z + x \in Nat /\ (z + x) + y =< Len(bytes)
    <3>1. s[i] = z + l /\ x + y =< l
      BY <2>5, <2>9, <2>11, <2>12
    <3>2. Len(bytes) \in Nat
      <4>1. bytes \in Seq(Octet)
        BY <1>10 DEF Placed
      <4> QED
        BY <4>1, LenProperties
    <3> QED
      BY <2>6, <3>1, <3>2
  <2>14. ASSUME NEW k \in 1 .. y PROVE bytes[(z + x) + k] = <<mem[i][j], k>>
    <3>1. x + k \in 1 .. l /\ z + (x + k) = (z + x) + k
      BY <2>9, <2>12
    <3>2. bytes[s[i - 1] + (x + k)] = seqs[i][x + k]
      BY <1>10, <2>1, <2>12, <3>1, Zenon DEF Placed
    <3>3. vb[x + k] = <<mem[i][j], k>>
      BY <2>3, <2>7, <2>8, Zenon
    <3> QED
      BY <2>1, <2>11, <3>1, <3>2, <3>3, Zenon
  <2> QED
    BY <2>7, <2>8, <2>10, <2>11, <2>13, <2>14, Zenon DEF ValueAt
<1>12. bytes \in Seq(Octet)
  BY <1>10 DEF Placed
<1> QED
  BY <1>1, <1>3, <1>11, <1>12, Zenon DEF bytes

LEMMA PopFinds ==
  ASSUME NEW ss \in Seq(Octet), NEW at, NEW width \in Nat \ {0}, NEW value \in Token,
         ValueAt(ss, at, width, value)
  PROVE  Pop(ss, at, width) = value
<1>1. at \in Nat /\ at + width =< Len(ss) /\ \A k \in 1 .. width : ss[at + k] = <<value, k>>
  BY DEF ValueAt
<1>2. PICK n \in Nat : n = Len(ss)
  BY LenProperties
<1>3. ss[at + 1] = <<value, 1>> /\ ss[at + 1][1] = value
  <2>1. 1 \in 1 .. width
    OBVIOUS
  <2>2. ss[at + 1] = <<value, 1>>
    BY <1>1, <2>1, Zenon
  <2> QED
    BY <2>2
<1> DEFINE sub == SubSeq(ss, at + 1, at + width)
<1>4. /\ sub \in Seq(Octet) /\ Len(sub) = width
      /\ \A k \in 1 .. width : sub[k] = ss[at + k]
  <2>1. \A i \in at + 1 .. at + width : ss[i] \in Octet
    <3>1. \A i \in at + 1 .. at + width : i \in 1 .. n
      BY <1>1, <1>2
    <3> QED
      BY <1>2, <3>1, ElementOfSeq, Zenon
  <2>2. at + 1 \in Int /\ at + width \in Int
    BY <1>1
  <2>3. /\ sub \in Seq(Octet)
        /\ Len(sub) = IF at + 1 =< at + width THEN (at + width) - (at + 1) + 1 ELSE 0
        /\ \A k \in 1 .. (at + width) - (at + 1) + 1 : sub[k] = ss[(at + 1) + k - 1]
    BY <2>1, <2>2, SubSeqProperties
  <2> HIDE DEF sub
  <2>4. Len(sub) = width /\ (at + width) - (at + 1) + 1 = width
    BY <1>1, <2>3
  <2>5. ASSUME NEW k \in 1 .. width PROVE sub[k] = ss[at + k]
    <3>1. (at + 1) + k - 1 = at + k /\ k \in 1 .. (at + width) - (at + 1) + 1
      BY <1>1
    <3> QED
      BY <2>3, <3>1, Zenon
  <2> QED
    BY <2>3, <2>4, <2>5
<1> HIDE DEF sub
<1>5. sub = Push(value, width)
  <2>1. /\ Push(value, width) \in Seq(Octet) /\ Len(Push(value, width)) = width
        /\ \A k \in 1 .. width : Push(value, width)[k] = <<value, k>>
    BY PushBytes
  <2>2. \A k \in 1 .. width : sub[k] = Push(value, width)[k]
    BY <1>1, <1>4, <2>1, Zenon
  <2>3. Len(sub) = Len(Push(value, width)) /\ \A k \in 1 .. Len(sub) : sub[k] = Push(value, width)[k]
    BY <1>4, <2>1, <2>2
  <2> QED
    BY <1>4, <2>1, <2>3, SeqEqual
<1> QED
  BY <1>1, <1>3, <1>5, Zenon DEF Pop, sub

-----------------------------------------------------------------------------
LEMMA Signatures ==
  ASSUME NEW f \in Seq(ArgType), NEW g \in Seq(ArgType), SameSignature(f, g)
  PROVE  /\ Len(g) = Len(f) /\ SameSignature(g, f)
         /\ Inputs(g) = Inputs(f) /\ Outputs(g) = Outputs(f)
         /\ \A i \in 1 .. Len(f) : g[i].type = f[i].type
<1>1. Len(f) = Len(g) /\ DOMAIN f = 1 .. Len(f) /\ DOMAIN g = 1 .. Len(f)
  BY TypesOfArguments DEF SameSignature
<1>2. ASSUME NEW i \in 1 .. Len(f)
      PROVE  /\ f[i].type = g[i].type /\ f[i].input = g[i].input /\ f[i].output = g[i].output
             /\ is_arg_scalar(f[i]) <=> is_arg_scalar(g[i])
  BY <1>1, Zenon DEF SameSignature
<1>3. SameSignature(g, f)
  BY <1>1, <1>2, Zenon DEF SameSignature
<1>4. Inputs(g) = Inputs(f) /\ Outputs(g) = Outputs(f)
  BY <1>1, <1>2, Zenon DEF Inputs, Outputs
<1> QED
  BY <1>1, <1>2, <1>3, <1>4, Zenon

(* Where the arguments before i are as long, i begins at the same place.    *)
LEMMA SameOffsets ==
  ASSUME NEW f \in Seq(ArgType), NEW g \in Seq(ArgType), SameSignature(f, g), NEW chosen,
         NEW i \in 1 .. Len(f),
         \A h \in chosen : h < i => get_arg_car(f[h]) = get_arg_car(g[h])
  PROVE  Offset(f, chosen, i) = Offset(g, chosen, i)
<1> DEFINE s == Offsets(f, chosen)
           t == Offsets(g, chosen)
<1>1. PICK N \in Nat : N = Len(f)
  BY TypesOfArguments
<1>2. Len(g) = N /\ \A n \in 1 .. N : g[n].type = f[n].type
  BY <1>1, Signatures
<1>3. Summed(s, f, chosen) /\ Summed(t, g, chosen)
  BY OffsetsSummed
<1> HIDE DEF s, t
<1>4. /\ s[0] = 0 /\ t[0] = 0
      /\ \A n \in 1 .. N : /\ s[n] = s[n - 1] + Share(f, chosen, n)
                           /\ t[n] = t[n - 1] + Share(g, chosen, n)
      /\ Offset(f, chosen, i) = s[i - 1] /\ Offset(g, chosen, i) = t[i - 1]
  BY <1>1, <1>2, <1>3, Zenon DEF Summed
<1>5. ASSUME NEW n \in 1 .. i - 1 PROVE n \in 1 .. N /\ Share(f, chosen, n) = Share(g, chosen, n)
  <2>1. n \in 1 .. N /\ n < i
    BY <1>1
  <2>2. n \in chosen => get_arg_car(f[n]) = get_arg_car(g[n])
    BY <2>1, Zenon
  <2> QED
    BY <1>2, <2>1, <2>2, Zenon DEF Share
<1>6. s[i - 1] = t[i - 1]
  <2> DEFINE T == {n \in 0 .. i - 1 : s[n] # t[n]}
  <2>1. i - 1 \in 0 .. i - 1
    BY <1>1
  <2>2. SUFFICES ASSUME T # {} PROVE FALSE
    BY <2>1
  <2>3. T \subseteq Nat
    OBVIOUS
  <2> HIDE DEF T
  <2>4. PICK n \in T : \A m \in T : n =< m
    BY <2>2, <2>3, LeastNumber
  <2>5. n \in 0 .. i - 1 /\ s[n] # t[n]
    BY DEF T
  <2>6. n # 0
    BY <1>4, <2>5
  <2>7. n \in 1 .. i - 1 /\ n - 1 \in 0 .. i - 1 /\ ~ (n =< n - 1)
    BY <2>5, <2>6
  <2>8. n - 1 \notin T
    BY <2>4, <2>7
  <2>9. s[n - 1] = t[n - 1]
    BY <2>7, <2>8 DEF T
  <2> QED
    BY <1>4, <1>5, <2>5, <2>7, <2>9, Zenon
<1> QED
  BY <1>4, <1>6, Zenon

SameLengths(f, g, chosen, i) ==
  \A h \in chosen : h < i => get_arg_car(f[h]) = get_arg_car(g[h])

Arrives(f, g, chosen, mem, old, i, j) ==
  PopAll(g, chosen, PushAll(f, chosen, mem), old)[i][j] = mem[i][j]

(* What one end pushes the other pops, as far as both know of it and the    *)
(* arguments before it are as long.                                         *)
LEMMA ValuesArrive ==
  ASSUME NEW f \in Seq(ArgType), NEW g \in Seq(ArgType), SameSignature(f, g),
         NEW chosen, NEW mem, Filled(f, mem), NEW old,
         NEW i \in 1 .. Len(f), i \in chosen,
         SameLengths(f, g, chosen, i),
         NEW j \in 1 .. get_arg_car(f[i]), j \in 1 .. get_arg_car(g[i])
  PROVE  Arrives(f, g, chosen, mem, old, i, j)
<1> DEFINE ss == PushAll(f, chosen, mem)
           width == Width[f[i].type]
           at == Offset(f, chosen, i) + (j - 1) * width
<1>1. width \in Nat \ {0}
  BY TypesOfArguments
<1>2. Len(g) = Len(f) /\ g[i].type = f[i].type /\ DOMAIN g = 1 .. Len(f)
  BY Signatures, TypesOfArguments
<1>3. Offset(g, chosen, i) = Offset(f, chosen, i)
  BY SameOffsets DEF SameLengths
<1>4. ss \in Seq(Octet) /\ ValueAt(ss, at, width, mem[i][j])
  BY ValuesPushed, Zenon
<1>5. mem[i][j] \in Token
  BY Zenon DEF Filled
<1>6. PopAll(g, chosen, ss, old)[i][j] = Pop(ss, at, width)
  <2>1. i \in DOMAIN g
    BY <1>2
  <2>2. PopAll(g, chosen, ss, old)[i] =
          [k \in 1 .. get_arg_car(g[i]) |->
             Pop(ss, Offset(g, chosen, i) + (k - 1) * Width[g[i].type], Width[g[i].type])]
    BY <2>1, Zenon DEF PopAll
  <2>3. PopAll(g, chosen, ss, old)[i][j] =
          Pop(ss, Offset(g, chosen, i) + (j - 1) * Width[g[i].type], Width[g[i].type])
    BY <2>2, Zenon
  <2> QED
    BY <1>2, <1>3, <2>3, Zenon
<1> HIDE DEF ss, width, at
<1>7. Pop(ss, at, width) = mem[i][j]
  BY <1>1, <1>4, <1>5, PopFinds
<1> QED
  BY <1>6, <1>7, Zenon DEF ss, Arrives

-----------------------------------------------------------------------------
(* The stages of a call, and what is under way in each. *)

GivenMemory(f) == [i \in DOMAIN f |-> [j \in 1 .. get_arg_car(f[i]) |-> Given(i, j)]]
ResultMemory(f) == [i \in DOMAIN f |-> [j \in 1 .. get_arg_car(f[i]) |-> Result(i, j)]]
ZeroMemory(f) == [i \in DOMAIN f |-> [j \in 1 .. get_arg_car(f[i]) |-> Zero]]

InputStream == PushAll(client_types, Inputs(client_types), GivenMemory(client_types))
OutputStream == PushAll(server_types, Outputs(server_types), ResultMemory(server_types))

Carried ==
  stage # "none" =>
    /\ client_types \in Seq(ArgType) /\ server_types \in Seq(ArgType)
    /\ SameSignature(client_types, server_types)
    /\ stage \in {"sent", "running", "replied", "returned"}
    /\ stage # "returned" => args = GivenMemory(client_types)
    /\ stage = "sent" => data = InputStream
    /\ stage = "running" =>
         memory = PopAll(server_types, Inputs(server_types), InputStream, ZeroMemory(server_types))
    /\ stage \in {"replied", "returned"} => retval \in Int
    /\ stage = "replied" => data = IF retval >= 0 THEN OutputStream ELSE <<>>
    /\ stage = "returned" =>
         args = IF retval >= 0
                  THEN PopAll(client_types, Outputs(client_types), OutputStream,
                              GivenMemory(client_types))
                  ELSE GivenMemory(client_types)

LEMMA MemoryFilled ==
  ASSUME NEW f \in Seq(ArgType)
  PROVE  /\ Filled(f, GivenMemory(f)) /\ Filled(f, ResultMemory(f))
         /\ \A i \in 1 .. Len(f) :
              /\ \A j \in 1 .. get_arg_car(f[i]) :
                   GivenMemory(f)[i][j] = Given(i, j) /\ ResultMemory(f)[i][j] = Result(i, j)
              /\ GivenMemory(f)[i] = [j \in 1 .. get_arg_car(f[i]) |-> Given(i, j)]
              /\ ZeroMemory(f)[i] = [j \in 1 .. get_arg_car(f[i]) |-> Zero]
<1>1. Len(f) \in Nat /\ DOMAIN f = 1 .. Len(f) /\ \A i \in 1 .. Len(f) : get_arg_car(f[i]) \in Nat
  BY TypesOfArguments
<1>2. ASSUME NEW i \in 1 .. Len(f)
      PROVE /\ GivenMemory(f)[i] = [j \in 1 .. get_arg_car(f[i]) |-> Given(i, j)]
            /\ ResultMemory(f)[i] = [j \in 1 .. get_arg_car(f[i]) |-> Result(i, j)]
            /\ ZeroMemory(f)[i] = [j \in 1 .. get_arg_car(f[i]) |-> Zero]
  BY <1>1, Zenon DEF GivenMemory, ResultMemory, ZeroMemory
<1>3. ASSUME NEW i \in 1 .. Len(f), NEW j \in 1 .. get_arg_car(f[i])
      PROVE GivenMemory(f)[i][j] = Given(i, j) /\ ResultMemory(f)[i][j] = Result(i, j)
  <2>1. /\ GivenMemory(f)[i] = [l \in 1 .. get_arg_car(f[i]) |-> Given(i, l)]
        /\ ResultMemory(f)[i] = [l \in 1 .. get_arg_car(f[i]) |-> Result(i, l)]
    BY <1>2, Zenon
  <2>2. GivenMemory(f)[i][j] = Given(i, j)
    BY <2>1, Zenon
  <2>3. ResultMemory(f)[i][j] = Result(i, j)
    BY <2>1, Zenon
  <2> QED
    BY <2>2, <2>3
<1>4. ASSUME NEW i \in 1 .. Len(f), NEW j \in 1 .. get_arg_car(f[i])
      PROVE Given(i, j) \in Token /\ Result(i, j) \in Token
  <2>1. i \in Nat /\ j \in Nat
    BY <1>1
  <2> QED
    BY <2>1 DEF Given, Result, Token
<1>5. Filled(f, GivenMemory(f)) /\ Filled(f, ResultMemory(f))
  BY <1>3, <1>4, Zenon DEF Filled
<1> QED
  BY <1>2, <1>3, <1>5, Zenon

LEMMA CarriedStep ==
  ASSUME Carried, [MarshalNext]_marshalVars
  PROVE  Carried'
<1>1. ASSUME stage = "none", NEW n \in 0 .. MaxArgs, NEW pairs \in [1 .. n -> Pair],
             MarshalCall([i \in 1 .. n |-> pairs[i][1]], [i \in 1 .. n |-> pairs[i][2]])
      PROVE  Carried'
  <2> DEFINE f == [i \in 1 .. n |-> pairs[i][1]]
             g == [i \in 1 .. n |-> pairs[i][2]]
  <2>1. n \in Nat
    BY MarshalAssumption
  <2>2. ASSUME NEW i \in 1 .. n
        PROVE  /\ pairs[i][1] \in ArgType /\ pairs[i][2] \in ArgType
               /\ pairs[i][1].type = pairs[i][2].type
               /\ pairs[i][1].input = pairs[i][2].input /\ pairs[i][1].output = pairs[i][2].output
               /\ is_arg_scalar(pairs[i][1]) <=> is_arg_scalar(pairs[i][2])
    <3>1. pairs[i] \in ArgType \X ArgType /\ SameSignature(<<pairs[i][1]>>, <<pairs[i][2]>>)
      BY DEF Pair
    <3>2. pairs[i][1] \in ArgType /\ pairs[i][2] \in ArgType
      BY <3>1
    <3> DEFINE a == pairs[i][1]
               b == pairs[i][2]
    <3> HIDE DEF a, b
    <3>3. SameSignature(<<a>>, <<b>>)
      BY <3>1 DEF a, b
    <3>4. 1 \in DOMAIN <<a>> /\ <<a>>[1] = a /\ <<b>>[1] = b
      OBVIOUS
    <3>5. /\ a.type = b.type /\ a.input = b.input /\ a.output = b.output
          /\ is_arg_scalar(a) <=> is_arg_scalar(b)
      BY <3>3, <3>4, Zenon DEF SameSignature
    <3> QED
      BY <3>2, <3>5, Zenon DEF a, b
  <2>3. f \in [1 .. n -> ArgType] /\ g \in [1 .. n -> ArgType]
    BY <2>2
  <2>4. \A i \in 1 .. n : f[i] = pairs[i][1] /\ g[i] = pairs[i][2]
    OBVIOUS
  <2>5. stage' = "sent" /\ client_types' = f /\ server_types' = g /\ args' = GivenMemory(f)
        /\ data' = PushAll(f, Inputs(f), GivenMemory(f))
    BY <1>1, Zenon DEF MarshalCall, Memory, GivenMemory, Sent
  <2> HIDE DEF f, g
  <2>6. f \in Seq(ArgType) /\ g \in Seq(ArgType)
    BY <2>1, <2>3, SeqDef
  <2>7. Len(f) = n /\ Len(g) = n /\ DOMAIN f = 1 .. n
    BY <2>1, <2>3, <2>6
  <2>8. SameSignature(f, g)
    <3>1. ASSUME NEW i \in 1 .. n
          PROVE  /\ f[i].type = g[i].type /\ f[i].input = g[i].input /\ f[i].output = g[i].output
                 /\ is_arg_scalar(f[i]) <=> is_arg_scalar(g[i])
      BY <2>2, <2>4
    <3> QED
      BY <2>7, <3>1, Zenon DEF SameSignature
  <2>9. data' = InputStream'
    BY <2>5, Zenon DEF InputStream
  <2>10. stage' # "running" /\ stage' # "replied" /\ stage' # "returned"
    BY <2>5
  <2>11. stage' \in {"sent", "running", "replied", "returned"}
    BY <2>5
  <2> QED
    BY <2>5, <2>6, <2>8, <2>9, <2>10, <2>11, Zenon DEF Carried
<1>2. CASE UnmarshalCall
  <2>1. /\ stage = "sent" /\ stage' = "running"
        /\ UNCHANGED <<client_types, server_types, args, data, retval>>
        /\ memory' = PopAll(server_types, Inputs(server_types), data, ZeroMemory(server_types))
    BY <1>2 DEF UnmarshalCall, Memory, ZeroMemory
  <2>2. /\ client_types \in Seq(ArgType) /\ server_types \in Seq(ArgType)
        /\ SameSignature(client_types, server_types)
        /\ args = GivenMemory(client_types) /\ data = InputStream
    BY <2>1 DEF Carried
  <2>3. InputStream' = InputStream
    BY <2>1 DEF InputStream
  <2> QED
    BY <2>1, <2>2, <2>3 DEF Carried
<1>3. ASSUME NEW ret \in {-1, 0}, MarshalReply(ret) PROVE Carried'
  <2>1. /\ stage = "running" /\ stage' = "replied" /\ retval' = ret
        /\ UNCHANGED <<client_types, server_types, args>>
        /\ data' = IF ret >= 0
                     THEN PushAll(server_types, Outputs(server_types), ResultMemory(server_types))
                     ELSE <<>>
    BY <1>3 DEF MarshalReply, Memory, ResultMemory, Replied
  <2>2. /\ client_types \in Seq(ArgType) /\ server_types \in Seq(ArgType)
        /\ SameSignature(client_types, server_types)
        /\ args = GivenMemory(client_types)
    BY <2>1 DEF Carried
  <2>3. data' = IF retval' >= 0 THEN OutputStream' ELSE <<>>
    BY <2>1 DEF OutputStream
  <2> QED
    BY <2>1, <2>2, <2>3 DEF Carried
<1>4. CASE UnmarshalReply
  <2>1. /\ stage = "replied" /\ stage' = "returned"
        /\ UNCHANGED <<client_types, server_types, data, retval>>
        /\ args' = IF retval >= 0
                     THEN PopAll(client_types, Outputs(client_types), data, args) ELSE args
    BY <1>4 DEF UnmarshalReply, Successful
  <2>2. /\ client_types \in Seq(ArgType) /\ server_types \in Seq(ArgType)
        /\ SameSignature(client_types, server_types)
        /\ args = GivenMemory(client_types)
        /\ data = IF retval >= 0 THEN OutputStream ELSE <<>>
    BY <2>1 DEF Carried
  <2>3. OutputStream' = OutputStream
    BY <2>1 DEF OutputStream
  <2> QED
    BY <2>1, <2>2, <2>3 DEF Carried
<1>5. CASE UNCHANGED marshalVars
  BY <1>5 DEF marshalVars, Carried, InputStream, OutputStream
<1> QED
  BY <1>1, <1>2, <1>3, <1>4, <1>5 DEF MarshalNext

LEMMA CarriedInvariant == MarshalSpec => []Carried
<1>1. MarshalInit => Carried
  BY DEF MarshalInit, Carried
<1>2. Carried /\ [MarshalNext]_marshalVars => Carried'
  BY CarriedStep
<1> QED
  BY <1>1, <1>2, PTL DEF MarshalSpec

(* The skeleton finds the client's inputs where the client put them, and    *)
(* zeros in the outputs, for every number of arguments, every size of a     *)
(* type and every length (Postman::send_execute, Tasks::Task::run).         *)
THEOREM InputsReachTheSkeleton == MarshalSpec => []InputsArrive
<1> DEFINE f == client_types
           g == server_types
<1>1. Carried => InputsArrive
  <2> SUFFICES ASSUME Carried, stage = "running", NEW i \in DOMAIN f
               PROVE  IF f[i].input
                        THEN Aligned(Inputs(f), i) => \A j \in Shared(i) : memory[i][j] = Given(i, j)
                        ELSE \A j \in DOMAIN memory[i] : memory[i][j] = Zero
    BY DEF InputsArrive
  <2>1. /\ f \in Seq(ArgType) /\ g \in Seq(ArgType) /\ SameSignature(f, g)
        /\ memory = PopAll(g, Inputs(g), InputStream, ZeroMemory(g))
    BY DEF Carried
  <2>2. /\ Inputs(g) = Inputs(f) /\ Len(g) = Len(f)
        /\ i \in 1 .. Len(f) /\ DOMAIN g = 1 .. Len(f)
    BY <2>1, Signatures, TypesOfArguments
  <2>3. CASE f[i].input
    <3>1. i \in Inputs(f)
      BY <2>3 DEF Inputs
    <3>2. ASSUME Aligned(Inputs(f), i), NEW j \in Shared(i) PROVE memory[i][j] = Given(i, j)
      <4>1. SameLengths(f, g, Inputs(f), i)
        BY <3>2, Zenon DEF Aligned, SameLengths
      <4>2. j \in 1 .. get_arg_car(f[i]) /\ j \in 1 .. get_arg_car(g[i])
        BY <3>2 DEF Shared
      <4>3. Filled(f, GivenMemory(f)) /\ GivenMemory(f)[i][j] = Given(i, j)
        BY <2>1, <2>2, <4>2, MemoryFilled
      <4> DEFINE old == ZeroMemory(g)
      <4> HIDE DEF f, g, old
      <4>4. Arrives(f, g, Inputs(f), GivenMemory(f), old, i, j)
        BY <2>1, <2>2, <3>1, <4>1, <4>2, <4>3, ValuesArrive
      <4> QED
        BY <2>1, <2>2, <4>3, <4>4, Zenon DEF InputStream, Arrives, f, old
    <3> QED
      BY <2>3, <3>2
  <2>4. CASE ~ f[i].input
    <3>1. i \notin Inputs(g)
      BY <2>2, <2>4 DEF Inputs
    <3>2. memory[i] = ZeroMemory(g)[i]
      BY <2>1, <2>2, <3>1, Zenon DEF PopAll
    <3>3. memory[i] = [j \in 1 .. get_arg_car(g[i]) |-> Zero]
      BY <2>1, <2>2, <3>2, MemoryFilled
    <3> QED
      BY <2>4, <3>3, Zenon
  <2> QED
    BY <2>3, <2>4
<1> QED
  BY <1>1, CarriedInvariant, PTL

(* The outputs of a call that succeeds reach the client's arguments, with   *)
(* the same restriction (Postman::reply_execute, Global::rpc_call_helper).  *)
THEOREM OutputsReachTheClient == MarshalSpec => []OutputsArrive
<1> DEFINE f == client_types
           g == server_types
<1>1. Carried => OutputsArrive
  <2> SUFFICES ASSUME Carried, stage = "returned", retval >= 0, NEW i \in Outputs(f),
                      Aligned(Outputs(f), i), NEW j \in Shared(i)
               PROVE  args[i][j] = Result(i, j)
    BY DEF OutputsArrive
  <2>1. /\ f \in Seq(ArgType) /\ g \in Seq(ArgType) /\ SameSignature(f, g)
        /\ args = PopAll(f, Outputs(f), OutputStream, GivenMemory(f))
    BY DEF Carried
  <2>2. i \in DOMAIN f
    BY DEF Outputs
  <2>3. /\ Outputs(g) = Outputs(f) /\ Len(g) = Len(f) /\ SameSignature(g, f)
        /\ i \in 1 .. Len(g)
    BY <2>1, <2>2, Signatures, TypesOfArguments
  <2>4. SameLengths(g, f, Outputs(f), i)
    BY DEF Aligned, SameLengths
  <2>5. j \in 1 .. get_arg_car(f[i]) /\ j \in 1 .. get_arg_car(g[i])
    BY DEF Shared
  <2>6. Filled(g, ResultMemory(g)) /\ ResultMemory(g)[i][j] = Result(i, j)
    BY <2>1, <2>3, <2>5, MemoryFilled
  <2> DEFINE old == GivenMemory(f)
  <2> HIDE DEF f, g, old
  <2>7. Arrives(g, f, Outputs(f), ResultMemory(g), old, i, j)
    BY <2>1, <2>3, <2>4, <2>5, <2>6, ValuesArrive
  <2> QED
    BY <2>1, <2>3, <2>6, <2>7, Zenon DEF OutputStream, Arrives, g, old
<1> QED
  BY <1>1, CarriedInvariant, PTL

(* What is not an output, and everything when the call fails, stays as the  *)
(* client gave it (rpc_call_helper).                                        *)
THEOREM OtherArgumentsKept == MarshalSpec => []ArgumentsKept
<1> DEFINE f == client_types
<1>1. Carried => ArgumentsKept
  <2> SUFFICES ASSUME Carried, stage = "returned", NEW i \in DOMAIN f,
                      retval < 0 \/ ~ f[i].output
               PROVE  args[i] = [j \in 1 .. get_arg_car(f[i]) |-> Given(i, j)]
    BY DEF ArgumentsKept
  <2>1. /\ f \in Seq(ArgType) /\ retval \in Int
        /\ args = IF retval >= 0
                    THEN PopAll(f, Outputs(f), OutputStream, GivenMemory(f))
                    ELSE GivenMemory(f)
    BY DEF Carried
  <2>2. GivenMemory(f)[i] = [j \in 1 .. get_arg_car(f[i]) |-> Given(i, j)]
    BY Zenon DEF GivenMemory
  <2>3. CASE ~ (retval >= 0)
    BY <2>1, <2>2, <2>3
  <2>4. CASE retval >= 0
    <3>1. ~ f[i].output
      BY <2>1, <2>4
    <3>2. i \notin Outputs(f)
      BY <3>1 DEF Outputs
    <3>3. args[i] = GivenMemory(f)[i]
      BY <2>1, <2>4, <3>2, Zenon DEF PopAll
    <3> QED
      BY <2>2, <3>3
  <2> QED
    BY <2>3, <2>4
<1> QED
  BY <1>1, CarriedInvariant, PTL

=============================================================================
