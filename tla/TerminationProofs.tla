--------------------------- MODULE TerminationProofs ---------------------------
(***************************************************************************)
(* Theorems about Termination, for any number of servers and messages.     *)
(***************************************************************************)
EXTENDS Termination, FiniteSetTheorems, SequenceTheorems, TLAPS

-----------------------------------------------------------------------------
(* Types, but for the bound on the questions. *)

BinderWire == {"TERMINATE", "CONFIRM_TERMINATE"}

Typed ==
  /\ binder \in BinderPhase
  /\ names \subseteq Server
  /\ target \in Server \cup {NoServer}
  /\ sent \in 0 .. MaxMessages
  /\ inbox \in [MessageType -> Nat]
  /\ phase \in [Server -> ServerPhase]
  /\ wire \in [Server -> Seq(BinderWire)]
  /\ stray \in [Server -> Stranger]
  /\ question \in [Server -> Seq(Question)]
  /\ agreed \subseteq Server
  /\ denied \subseteq Server
  /\ passed \subseteq Server

(* Where the binder is says whether it has a server to wait for, and that   *)
(* server's name has been taken off the list.                               *)
Targeted ==
  /\ binder \in {"serving", "telling", "exited"} => target = NoServer
  /\ binder \in {"waiting", "spinning"} => target \in Server
  /\ target \notin names
  /\ binder = "exited" => names = {}

(* A server that is running, once the binder has begun: still on the list,  *)
(* the one the binder waits for, or told.                                   *)
Live(s) == phase[s] \in {"init", "busy", "reading"}

Told ==
  binder \in {"telling", "waiting", "spinning", "exited"} =>
    \A s \in Server : Live(s) => s \in names \/ s = target \/ s \in agreed \cup passed

(* Every answer a server can find has its record. *)
Recorded ==
  \A s \in Server :
    /\ phase[s] = "stopped" => s \in agreed \cup denied
    /\ \A k \in DOMAIN wire[s] : wire[s][k] = "CONFIRM_TERMINATE" => s \in agreed
    /\ \A i \in DOMAIN question[s] : question[s][i] = "false" => s \in denied

Inv == Typed /\ Targeted /\ Told /\ Recorded

(* What a server has asked and left unread is a number of messages. *)
LEMMA UnreadType == ASSUME Typed, NEW s \in Server PROVE Unread(s) \in Nat
<1>1. Len(question[s]) \in Nat /\ DOMAIN question[s] = 1 .. Len(question[s])
  BY DEF Typed
<1>2. IsFiniteSet(1 .. Len(question[s]))
  BY <1>1, FS_Interval
<1>3. IsFiniteSet({i \in DOMAIN question[s] : question[s][i] = "sent"})
  BY <1>1, <1>2, FS_Subset
<1> QED
  BY <1>3, FS_CardinalityType DEF Unread

(* Abandon leaves a mailbox and a server without questions. *)
LEMMA AbandonType ==
  ASSUME Typed, NEW s \in Server, Abandon(s)
  PROVE  inbox' \in [MessageType -> Nat] /\ question' \in [Server -> Seq(Question)]
BY UnreadType DEF Abandon, Typed, MessageType

(* The system starts with them. *)
LEMMA InvInit == Init => Inv
BY TerminationAssumption
   DEF Init, Inv, Typed, Targeted, Told, Recorded, BinderPhase, ServerPhase, MessageType, Stranger

(* A reply to a question, or the end of the binder, changes one entry of a  *)
(* sequence or all of them.                                                 *)
LEMMA AnswerType ==
  ASSUME Typed, NEW s \in Server, NEW i \in DOMAIN question[s], NEW a \in Question,
         question' = [question EXCEPT ![s][i] = a]
  PROVE  /\ question' \in [Server -> Seq(Question)]
         /\ \A t \in Server : DOMAIN question'[t] = DOMAIN question[t]
         /\ question'[s][i] = a
         /\ \A t \in Server : \A j \in DOMAIN question[t] :
              question'[t][j] = question[t][j] \/ (t = s /\ j = i /\ question'[t][j] = a)
<1>1. question[s] \in Seq(Question)
  BY DEF Typed
<1>2. [question[s] EXCEPT ![i] = a] \in Seq(Question)
  BY <1>1
<1>3. question' = [question EXCEPT ![s] = [question[s] EXCEPT ![i] = a]]
  BY DEF Typed
<1> QED
  BY <1>1, <1>2, <1>3 DEF Typed

(* The end of the binder answers no question. *)
LEMMA CloseType ==
  ASSUME Typed, CloseAll
  PROVE  /\ inbox' \in [MessageType -> Nat]
         /\ question' \in [Server -> Seq(Question)]
         /\ \A t \in Server : DOMAIN question'[t] = DOMAIN question[t]
         /\ \A t \in Server : \A j \in DOMAIN question[t] :
              question'[t][j] = "false" => question[t][j] = "false"
<1>1. \A t \in Server :
        [i \in DOMAIN question[t] |-> IF question[t][i] = "false" THEN "false" ELSE "eof"]
          \in Seq(Question)
  <2> TAKE t \in Server
  <2>1. question[t] \in Seq(Question) /\ Len(question[t]) \in Nat
    BY DEF Typed
  <2> QED
    BY <2>1 DEF Question
<1> QED
  BY <1>1 DEF CloseAll, Typed, MessageType

(* One read of the binder's connection keeps the end of what is there. *)
LEMMA ReadType ==
  ASSUME Typed, NEW s \in Server, NEW n \in 1 .. Len(wire[s]),
         wire' = [wire EXCEPT ![s] = SubSeq(@, n + 1, Len(@))]
  PROVE  /\ wire' \in [Server -> Seq(BinderWire)]
         /\ \A t \in Server : t # s => wire'[t] = wire[t]
         /\ \A k \in DOMAIN wire'[s] : n + k \in DOMAIN wire[s] /\ wire'[s][k] = wire[s][n + k]
<1> DEFINE w == wire[s]
<1>1. w \in Seq(BinderWire) /\ Len(w) \in Nat /\ DOMAIN w = 1 .. Len(w)
  BY DEF Typed
<1>2. n + 1 \in Int /\ \A i \in n + 1 .. Len(w) : w[i] \in BinderWire
  BY <1>1
<1>3. /\ SubSeq(w, n + 1, Len(w)) \in Seq(BinderWire)
      /\ Len(SubSeq(w, n + 1, Len(w))) = IF n + 1 <= Len(w) THEN Len(w) - (n + 1) + 1 ELSE 0
      /\ \A i \in 1 .. Len(w) - (n + 1) + 1 : SubSeq(w, n + 1, Len(w))[i] = w[n + 1 + i - 1]
  BY <1>1, <1>2, SubSeqProperties
<1>4. wire'[s] = SubSeq(w, n + 1, Len(w))
  BY DEF Typed
<1>5. \A k \in DOMAIN wire'[s] : k \in 1 .. Len(w) - n
  BY <1>1, <1>3, <1>4
<1>6. \A k \in DOMAIN wire'[s] : n + k \in DOMAIN w /\ wire'[s][k] = w[n + k]
  BY <1>1, <1>3, <1>4, <1>5
<1> QED
  BY <1>3, <1>6 DEF Typed

(* The binder's answer, at the end of a wait. *)
LEMMA ConfirmKeeps ==
  ASSUME Inv, binder = "waiting", Confirm, UNCHANGED <<names, phase>>
  PROVE  /\ Targeted' /\ Told'
         /\ binder' \in BinderPhase /\ target' \in Server \cup {NoServer}
         /\ agreed' \subseteq Server /\ agreed \subseteq agreed'
         /\ passed' \subseteq Server
         /\ wire' \in [Server -> Seq(BinderWire)]
         /\ \A s \in Server : \A k \in DOMAIN wire'[s] :
              wire'[s][k] = "CONFIRM_TERMINATE" => s \in agreed'
<1>1. target \in Server /\ NoServer \notin Server /\ names \subseteq Server
  BY TerminationAssumption DEF Inv, Targeted, Typed
<1>2. CASE phase[target] = "dead"
  BY <1>1, <1>2 DEF Confirm, Inv, Typed, Targeted, Told, Recorded, Live, BinderPhase
<1>3. CASE /\ phase[target] # "dead"
           /\ passed' = passed \cup {target}
           /\ UNCHANGED <<wire, agreed>>
  <2>1. target' = NoServer /\ binder' = "telling" /\ phase' = phase /\ names' = names
    BY <1>3 DEF Confirm
  <2>3. Told'
    BY <1>1, <1>3, <2>1 DEF Inv, Told, Live
  <2> QED
    BY <1>1, <1>3, <2>1, <2>3 DEF Inv, Typed, Targeted, Recorded, BinderPhase
<1>4. CASE /\ phase[target] # "dead"
           /\ wire' = [wire EXCEPT ![target] = Append(@, "CONFIRM_TERMINATE")]
           /\ agreed' = agreed \cup {target}
           /\ UNCHANGED passed
  <2>1. wire[target] \in Seq(BinderWire)
    BY <1>1 DEF Inv, Typed
  <2>2. Append(wire[target], "CONFIRM_TERMINATE") \in Seq(BinderWire)
    BY <2>1 DEF BinderWire
  <2>3. wire' = [wire EXCEPT ![target] = Append(wire[target], "CONFIRM_TERMINATE")]
    BY <1>4 DEF Confirm
  <2>4. wire' \in [Server -> Seq(BinderWire)]
    BY <1>1, <2>2, <2>3 DEF Inv, Typed
  <2>5. \A s \in Server : s # target => wire'[s] = wire[s]
    BY <2>3 DEF Inv, Typed
  <2>6. /\ agreed' = agreed \cup {target} /\ passed' = passed
        /\ target' = NoServer /\ binder' = "telling"
    BY <1>4 DEF Confirm
  <2>7. Told'
    BY <1>1, <2>6 DEF Inv, Told, Live
  <2> QED
    BY <1>1, <2>4, <2>5, <2>6, <2>7 DEF Inv, Typed, Targeted, Recorded, BinderPhase
<1> QED
  BY <1>2, <1>3, <1>4 DEF Confirm

-----------------------------------------------------------------------------
(* Every action keeps Inv. *)

(* A message of a client. *)
LEMMA ClientsKeep ==
  ASSUME Inv, NEW type \in MessageType, ClientSends(type)
  PROVE  Inv'
<1>1. /\ sent' \in 0 .. MaxMessages
      /\ inbox' \in [MessageType -> Nat]
  BY TerminationAssumption DEF ClientSends, Inv, Typed
<1> QED
  BY <1>1 DEF ClientSends, binderVars, serverVars, historyVars,
     Inv, Typed, Targeted, Told, Recorded, Live
(* A message the binder reads in main. *)
LEMMA BinderReadsKeeps ==
  ASSUME Inv, HandleOther \/ HandleTerminate
  PROVE  Inv'
<1>1. CASE HandleOther
  BY <1>1 DEF HandleOther, binderVars, serverVars, historyVars,
     Inv, Typed, Targeted, Told, Recorded, Live, MessageType
<1>2. CASE HandleTerminate
  BY <1>2, TerminationAssumption DEF HandleTerminate, serverVars, historyVars,
     Inv, Typed, Targeted, Told, Recorded, Live, MessageType, BinderPhase
<1> QED
  BY <1>1, <1>2

(* The refusal of handle_request. *)
LEMMA DenyKeeps ==
  ASSUME Inv, NEW s \in Server, NEW i \in DOMAIN question[s], DenyTermination(s, i)
  PROVE  Inv'
<1>1. question' = [question EXCEPT ![s][i] = "false"] /\ denied' = denied \cup {s}
  BY DEF DenyTermination
<1>2. /\ question' \in [Server -> Seq(Question)]
      /\ \A t \in Server : DOMAIN question'[t] = DOMAIN question[t]
      /\ \A t \in Server : \A j \in DOMAIN question[t] :
           question'[t][j] = question[t][j] \/ (t = s /\ j = i /\ question'[t][j] = "false")
  BY <1>1, AnswerType DEF Inv, Question
<1>3. \A t \in Server : \A j \in DOMAIN question'[t] : question'[t][j] = "false" => t \in denied'
  BY <1>1, <1>2 DEF Inv, Recorded
<1> QED
  BY <1>1, <1>2, <1>3 DEF DenyTermination, binderVars, mailVars, Inv, Typed, Targeted, Told, Recorded, Live

(* The next name of terminate_servers. *)
LEMMA TellKeeps ==
  ASSUME Inv, NEW s \in Server,
         SkipDeadServer(s) \/ CannotSend(s) \/ SendTerminate(s)
  PROVE  Inv'
<1>1. CASE SkipDeadServer(s)
  BY <1>1 DEF SkipDeadServer, Others, mailVars, serverVars, historyVars,
     Inv, Typed, Targeted, Told, Recorded, Live
<1>2. CASE SendTerminate(s)
  <2>1. wire[s] \in Seq(BinderWire) /\ "TERMINATE" \in BinderWire
    BY DEF Inv, Typed, BinderWire
  <2>2. wire' = [wire EXCEPT ![s] = Append(wire[s], "TERMINATE")]
    BY <1>2 DEF SendTerminate
  <2>3. wire' \in [Server -> Seq(BinderWire)]
    BY <2>1, <2>2 DEF Inv, Typed
  <2>4. \A t \in Server : \A k \in DOMAIN wire'[t] :
          wire'[t][k] = "CONFIRM_TERMINATE" => t \in agreed
    BY <2>1, <2>2 DEF Inv, Typed, Recorded
  <2> QED
    BY <1>2, <2>3, <2>4, TerminationAssumption DEF SendTerminate, Others, mailVars, historyVars,
       Inv, Typed, Targeted, Told, Recorded, Live, BinderPhase
<1>3. CASE CannotSend(s)
  BY <1>3 DEF CannotSend, Others, mailVars, serverVars,
     Inv, Typed, Targeted, Told, Recorded, Live
<1> QED
  BY <1>1, <1>2, <1>3

(* The three ends of its wait. *)
LEMMA WaitKeeps ==
  ASSUME Inv,
         \/ \E s \in Server : \E i \in DOMAIN question[s] : WaitAnswered(s, i)
         \/ \E type \in MessageType : WaitInterrupted(type)
         \/ \E goes_on \in BOOLEAN : WaitBroken(goes_on)
  PROVE  Inv'
<1>1. ASSUME NEW s \in Server, NEW i \in DOMAIN question[s], WaitAnswered(s, i) PROVE Inv'
  <2>1. /\ binder = "waiting" /\ Confirm
        /\ UNCHANGED <<names, sent, inbox, phase, stray, denied>>
        /\ question' = [question EXCEPT ![s][i] = "read"]
    BY <1>1 DEF WaitAnswered, mailVars
  <2>2. /\ question' \in [Server -> Seq(Question)]
        /\ \A t \in Server : DOMAIN question'[t] = DOMAIN question[t]
        /\ \A t \in Server : \A j \in DOMAIN question[t] :
             question'[t][j] = question[t][j] \/ (t = s /\ j = i /\ question'[t][j] = "read")
    BY <2>1, AnswerType DEF Inv, Question
  <2> QED
    BY <2>1, <2>2, ConfirmKeeps DEF Inv, Typed, Recorded
<1>2. ASSUME NEW type \in MessageType, WaitInterrupted(type) PROVE Inv'
  <2>1. /\ binder = "waiting" /\ Confirm
        /\ UNCHANGED <<names, sent, phase, stray, question, denied>>
        /\ inbox[type] > 0 /\ inbox' = [inbox EXCEPT ![type] = @ - 1]
    BY <1>2 DEF WaitInterrupted
  <2>2. inbox' \in [MessageType -> Nat]
    BY <2>1 DEF Inv, Typed
  <2> QED
    BY <2>1, <2>2, ConfirmKeeps DEF Inv, Typed, Recorded
<1>3. ASSUME NEW goes_on \in BOOLEAN, WaitBroken(goes_on) PROVE Inv'
  <2>1. CASE goes_on
    BY <1>3, <2>1 DEF WaitBroken, mailVars, Inv, Typed, Targeted, Told, Recorded, Live, BinderPhase
  <2>2. CASE ~ goes_on
    <3>1. binder = "waiting" /\ Confirm /\ UNCHANGED <<names, sent, inbox, phase, stray, question, denied>>
      BY <1>3, <2>2 DEF WaitBroken, mailVars
    <3> QED
      BY <3>1, ConfirmKeeps DEF Inv, Typed, Recorded
  <2> QED
    BY <2>1, <2>2
<1> QED
  BY <1>1, <1>2, <1>3

(* The binder's end. *)
LEMMA EndKeeps ==
  ASSUME Inv, BinderExits \/ BinderCrashes
  PROVE  Inv'
<1>1. /\ CloseAll /\ binder' \in {"exited", "crashed"}
      /\ binder' = "exited" => binder = "telling" /\ names = {}
      /\ UNCHANGED <<names, target, sent, phase, wire, stray, agreed, denied, passed>>
  BY DEF BinderExits, BinderCrashes, historyVars
<1>2. /\ inbox' \in [MessageType -> Nat]
      /\ question' \in [Server -> Seq(Question)]
      /\ \A t \in Server : DOMAIN question'[t] = DOMAIN question[t]
      /\ \A t \in Server : \A j \in DOMAIN question[t] :
           question'[t][j] = "false" => question[t][j] = "false"
  BY <1>1, CloseType DEF Inv
<1>3. Typed' /\ Recorded'
  BY <1>1, <1>2 DEF Inv, Typed, Recorded, BinderPhase
<1>4. Targeted' /\ Told'
  BY <1>1 DEF Inv, Targeted, Told, Live
<1> QED
  BY <1>3, <1>4 DEF Inv

(* To stop or to die ends every question of a server. *)
LEMMA AbandonKeeps ==
  ASSUME Inv, NEW s \in Server, NEW p \in {"stopped", "dead"}, Abandon(s),
         phase' = [phase EXCEPT ![s] = p],
         p = "stopped" => s \in agreed \cup denied,
         wire' \in [Server -> Seq(BinderWire)],
         \A t \in Server : \A k \in DOMAIN wire'[t] :
           wire'[t][k] = "CONFIRM_TERMINATE" => t \in agreed,
         stray' \in [Server -> Stranger],
         UNCHANGED <<binderVars, sent, historyVars>>
  PROVE  Inv'
<1>1. inbox' \in [MessageType -> Nat] /\ question' \in [Server -> Seq(Question)]
  BY AbandonType DEF Inv
<1>2. question' = [question EXCEPT ![s] = <<>>]
  BY DEF Abandon
<1>3. \A t \in Server : \A i \in DOMAIN question'[t] : question'[t][i] = "false" => t \in denied
  BY <1>2 DEF Inv, Typed, Recorded
<1>4. \A t \in Server : phase'[t] = phase[t] \/ (t = s /\ phase'[t] = p)
  BY DEF Inv, Typed
<1>5. phase' \in [Server -> ServerPhase]
  BY DEF Inv, Typed, ServerPhase
<1>6. Typed'
  BY <1>1, <1>5 DEF Inv, Typed, binderVars, historyVars
<1>7. Targeted' /\ Told'
  BY <1>4 DEF Inv, Targeted, Told, Live, binderVars, historyVars
<1>8. Recorded'
  BY <1>3, <1>4 DEF Inv, Recorded, historyVars
<1> QED
  BY <1>6, <1>7, <1>8 DEF Inv

(* A question more, or the end of the innermost one, is no answer. *)
LEMMA AskType ==
  ASSUME Inv, NEW s \in Server, Ask(s) \/ (QuestionBroken(s) /\ GoesOn(s))
  PROVE  /\ question' \in [Server -> Seq(Question)]
         /\ \A t \in Server : \A i \in DOMAIN question'[t] : question'[t][i] = "false" => t \in denied
<1>1. question[s] \in Seq(Question) /\ Len(question[s]) \in Nat
  BY DEF Inv, Typed
<1>2. CASE Ask(s) /\ question' = question
  BY <1>2 DEF Inv, Typed, Recorded
<1>3. CASE Ask(s) /\ question' # question
  <2>1. question' = [question EXCEPT ![s] = Append(question[s], "sent")]
    BY <1>3 DEF Ask
  <2>2. Append(question[s], "sent") \in Seq(Question)
    BY <1>1 DEF Question
  <2>3. \A i \in DOMAIN Append(question[s], "sent") :
          Append(question[s], "sent")[i] = "false" => s \in denied
    BY <1>1 DEF Inv, Recorded
  <2> QED
    BY <2>1, <2>2, <2>3 DEF Inv, Typed, Recorded
<1>4. CASE QuestionBroken(s) /\ GoesOn(s)
  <2> DEFINE q == SubSeq(question[s], 1, Len(question[s]) - 1)
  <2>1. question' = [question EXCEPT ![s] = q]
    BY <1>4 DEF GoesOn, Front
  <2>2. \A i \in 1 .. Len(question[s]) - 1 : question[s][i] \in Question
    BY <1>1
  <2>3. /\ q \in Seq(Question)
        /\ Len(q) = IF 1 <= Len(question[s]) - 1 THEN Len(question[s]) - 1 - 1 + 1 ELSE 0
        /\ \A i \in 1 .. Len(question[s]) - 1 - 1 + 1 : q[i] = question[s][1 + i - 1]
    BY <1>1, <2>2, SubSeqProperties
  <2>4. \A i \in DOMAIN q : i \in DOMAIN question[s] /\ q[i] = question[s][i]
    BY <1>1, <2>3
  <2> HIDE DEF q
  <2> QED
    BY <2>1, <2>3, <2>4 DEF Inv, Typed, Recorded
<1> QED
  BY <1>2, <1>3, <1>4

(* What a server reads on the binder's connection. *)
LEMMA ReadWireKeeps ==
  ASSUME Inv, NEW s \in Server, NEW n \in Nat \ {0}, ReadWire(s, n)
  PROVE  Inv'
<1>1. /\ n \in 1 .. Len(wire[s])
      /\ wire' = [wire EXCEPT ![s] = SubSeq(@, n + 1, Len(@))]
      /\ UNCHANGED <<binderVars, sent, stray, historyVars>>
  BY DEF ReadWire
<1>2. /\ wire' \in [Server -> Seq(BinderWire)]
      /\ \A t \in Server : t # s => wire'[t] = wire[t]
      /\ \A k \in DOMAIN wire'[s] : n + k \in DOMAIN wire[s] /\ wire'[s][k] = wire[s][n + k]
  BY <1>1, ReadType DEF Inv
<1>3. \A t \in Server : \A k \in DOMAIN wire'[t] : wire'[t][k] = "CONFIRM_TERMINATE" => t \in agreed
  BY <1>2 DEF Inv, Recorded
<1>4. wire[s] \in Seq(BinderWire) /\ 1 \in DOMAIN wire[s] /\ Head(wire[s]) = wire[s][1]
  BY <1>1 DEF Inv, Typed
<1>5. CASE Head(wire[s]) = "TERMINATE"
  <2>1. Ask(s) /\ UNCHANGED <<phase, inbox>>
    BY <1>5 DEF ReadWire
  <2> QED
    BY <1>1, <1>2, <1>3, <2>1, AskType
       DEF Inv, Typed, Targeted, Told, Recorded, Live, binderVars, historyVars
<1>6. CASE Head(wire[s]) # "TERMINATE" /\ question[s] # <<>>
  <2>1. Stop(s)
    BY <1>6 DEF ReadWire
  <2>2. s \in agreed
    BY <1>4, <1>6 DEF Inv, Typed, Recorded, BinderWire
  <2> QED
    BY <1>1, <1>2, <1>3, <2>1, <2>2, AbandonKeeps DEF Stop, Inv, Typed
<1>7. CASE Head(wire[s]) # "TERMINATE" /\ question[s] = <<>>
  <2>1. UNCHANGED <<phase, question, inbox>>
    BY <1>7 DEF ReadWire
  <2> QED
    BY <1>1, <1>2, <1>3, <2>1 DEF Inv, Typed, Targeted, Told, Recorded, Live, binderVars, historyVars
<1> QED
  BY <1>5, <1>6, <1>7

(* The other steps of a server. *)
LEMMA ServersKeep ==
  ASSUME Inv, NEW s \in Server,
         \/ StrayTerminate(s) \/ ReadStray(s) \/ ReadAnswer(s) \/ QuestionClosed(s)
         \/ ServerOk(s) \/ Execute(s) \/ Exit(s) \/ Die(s)
  PROVE  Inv'
<1>1. CASE ReadStray(s)
  <2>1. stray' \in [Server -> Stranger]
    BY <1>1 DEF ReadStray, Inv, Typed, Stranger
  <2>2. Ask(s) /\ UNCHANGED <<binderVars, mailVars, phase, wire, historyVars>>
    BY <1>1 DEF ReadStray
  <2> QED
    BY <2>1, <2>2, AskType DEF Inv, Typed, Targeted, Told, Recorded, Live, binderVars, mailVars, historyVars
<1>2. CASE ReadAnswer(s)
  <2>1. s \in denied
    BY <1>2 DEF ReadAnswer, Inv, Recorded
  <2> QED
    BY <1>2, <2>1, AbandonKeeps DEF ReadAnswer, Stop, Inv, Typed, Recorded, historyVars
<1>3. CASE QuestionClosed(s)
  <2>1. /\ QuestionBroken(s) /\ GoesOn(s)
        /\ UNCHANGED <<binderVars, sent, wire, stray, historyVars, phase, inbox>>
    BY <1>3 DEF QuestionClosed, GoesOn
  <2> QED
    BY <2>1, AskType DEF Inv, Typed, Targeted, Told, Recorded, Live, binderVars, historyVars
<1>4. CASE ServerOk(s)
  BY <1>4 DEF ServerOk, Inv, Typed, Targeted, Told, Recorded, Live, ServerPhase,
     binderVars, mailVars, historyVars
<1>5. CASE Execute(s)
  <2>1. inbox' \in [MessageType -> Nat]
    BY <1>5 DEF Execute, Inv, Typed, MessageType
  <2> QED
    BY <1>5, <2>1 DEF Execute, Inv, Typed, Targeted, Told, Recorded, Live, ServerPhase,
       binderVars, historyVars
<1>6. ASSUME wire' = [wire EXCEPT ![s] = <<>>]
      PROVE  /\ wire' \in [Server -> Seq(BinderWire)]
             /\ \A t \in Server : \A k \in DOMAIN wire'[t] :
                  wire'[t][k] = "CONFIRM_TERMINATE" => t \in agreed
  BY <1>6 DEF Inv, Typed, Recorded
<1>7. CASE Exit(s)
  BY <1>6, <1>7 DEF Exit, Inv, Typed, Targeted, Told, Recorded, Live, ServerPhase,
     binderVars, mailVars, historyVars
<1>8. CASE Die(s)
  BY <1>6, <1>8, AbandonKeeps DEF Die, Inv, Typed, historyVars
<1>9. CASE StrayTerminate(s)
  BY <1>9 DEF StrayTerminate, binderVars, mailVars, historyVars,
     Inv, Typed, Targeted, Told, Recorded, Live, Stranger
<1> QED
  BY <1>1, <1>2, <1>3, <1>4, <1>5, <1>7, <1>8, <1>9

(* All of them. *)
LEMMA InvStep == Inv /\ [Next]_vars => Inv'
<1> SUFFICES ASSUME Inv, [Next]_vars PROVE Inv'
  OBVIOUS
<1>1. CASE UNCHANGED vars
  BY <1>1 DEF vars, binderVars, mailVars, serverVars, historyVars,
     Inv, Typed, Targeted, Told, Recorded, Live
<1>2. CASE \E type \in MessageType : ClientSends(type)
  BY <1>2, ClientsKeep
<1>3. CASE BinderAnswers
  BY <1>3, DenyKeeps, WaitKeeps, BinderReadsKeeps DEF BinderAnswers
<1>4. CASE BinderGoesRound
  BY <1>4, TellKeeps, WaitKeeps, EndKeeps DEF BinderGoesRound
<1>5. CASE BinderCrashes
  BY <1>5, EndKeeps
<1>6. ASSUME NEW s \in Server,
             \/ StrayTerminate(s) \/ ServerOk(s) \/ Execute(s)
             \/ ServerReads(s) \/ Exit(s) \/ Die(s)
      PROVE  Inv'
  <2>1. ASSUME NEW n \in 1 .. 2, ReadWire(s, n) PROVE Inv'
    BY <2>1, ReadWireKeeps
  <2> QED
    BY <1>6, <2>1, ServersKeep DEF ServerReads
<1> QED
  BY <1>1, <1>2, <1>3, <1>4, <1>5, <1>6 DEF Next

(* Inv holds throughout. *)
LEMMA Invariance == Spec => []Inv
<1>1. Init => Inv
  BY InvInit
<1>2. Inv /\ [Next]_vars => Inv'
  BY InvStep
<1> QED
  BY <1>1, <1>2, PTL DEF Spec

(* The binder does not end before it has confirmed the termination of every *)
(* running server it could write to (ExitTellsEveryone of Termination),     *)
(* whatever the number of servers and of messages, whoever dies and         *)
(* whichever writes fail.                                                   *)
THEOREM EveryServerTold == Spec => []ExitTellsEveryone
<1>1. Inv => ExitTellsEveryone
  BY TerminationAssumption DEF Inv, Typed, Targeted, Told, Live, ExitTellsEveryone
<1> QED
  BY <1>1, Invariance, PTL

(* No server ends of itself without an answer of the binder                 *)
(* (StoppedWasAnswered of Termination).                                     *)
THEOREM StopsWereAnswered == Spec => []StoppedWasAnswered
<1>1. Inv => StoppedWasAnswered
  BY DEF Inv, Recorded, StoppedWasAnswered
<1> QED
  BY <1>1, Invariance, PTL

-----------------------------------------------------------------------------
(* A server asks at most twice: of the two TERMINATE messages it can get,   *)
(* the binder's is not sent yet, under way or asked about, and so is that   *)
(* of the stranger.                                                         *)

Untold(s) == binder = "serving" \/ s \in names

UnderWay(s) == \E k \in DOMAIN wire[s] : wire[s][k] = "TERMINATE"

Coming(s) == IF Untold(s) \/ UnderWay(s) THEN 1 ELSE 0

Foreign(s) == IF stray[s] = "read" THEN 0 ELSE 1

Counted ==
  \A s \in Server :
    /\ Untold(s) => wire[s] = <<>>
    /\ \A k \in DOMAIN wire[s] : wire[s][k] = "TERMINATE" => k = 1
    /\ Len(question[s]) + Coming(s) + Foreign(s) =< 2

(* At first two may come. *)
LEMMA CountedInit == Init => Counted
BY DEF Init, Counted, Coming, Untold, UnderWay, Foreign

(* A step that sends no TERMINATE and asks no question.                     *)
LEMMA QuietKeeps ==
  ASSUME Inv, Inv', Counted,
         \A s \in Server :
           /\ Untold(s)' => Untold(s) /\ wire'[s] \in {wire[s], <<>>}
           /\ \A k \in DOMAIN wire'[s] : wire'[s][k] = "TERMINATE" =>
                k \in DOMAIN wire[s] /\ wire[s][k] = "TERMINATE"
           /\ Len(question'[s]) =< Len(question[s])
           /\ stray[s] = "read" => stray'[s] = "read"
  PROVE  Counted'
<1> SUFFICES ASSUME NEW s \in Server
             PROVE  /\ Untold(s)' => wire'[s] = <<>>
                    /\ \A k \in DOMAIN wire'[s] : wire'[s][k] = "TERMINATE" => k = 1
                    /\ Len(question'[s]) + Coming(s)' + Foreign(s)' =< 2
  BY DEF Counted
<1>1. Len(question[s]) \in Nat /\ Len(question'[s]) \in Nat
  BY DEF Inv, Typed
<1>2. Untold(s)' => wire'[s] = <<>>
  BY DEF Counted
<1>3. \A k \in DOMAIN wire'[s] : wire'[s][k] = "TERMINATE" => k = 1
  BY DEF Counted
<1>4. Coming(s)' \in Nat /\ Coming(s) \in Nat /\ Coming(s)' =< Coming(s)
  BY DEF Coming, UnderWay
<1>6. Foreign(s)' \in Nat /\ Foreign(s) \in Nat /\ Foreign(s)' =< Foreign(s)
  BY DEF Foreign
<1>5. Len(question[s]) + Coming(s) + Foreign(s) =< 2
  BY DEF Counted
<1>7. Len(question'[s]) =< Len(question[s])
  OBVIOUS
<1>8. Len(question'[s]) + Coming(s)' + Foreign(s)' =< 2
  BY <1>1, <1>4, <1>5, <1>6, <1>7
<1> QED
  BY <1>2, <1>3, <1>8

(* A question more for a TERMINATE less.                                    *)
LEMMA AskKeeps ==
  ASSUME Inv, Inv', Counted, NEW s \in Server, Ask(s),
         \A t \in Server :
           /\ Untold(t)' => Untold(t) /\ wire'[t] \in {wire[t], <<>>}
           /\ \A k \in DOMAIN wire'[t] : wire'[t][k] = "TERMINATE" =>
                k \in DOMAIN wire[t] /\ wire[t][k] = "TERMINATE"
           /\ stray[t] = "read" => stray'[t] = "read",
         Coming(s)' < Coming(s) \/ Foreign(s)' < Foreign(s)
  PROVE  Counted'
<1>1. CASE question' = question
  BY <1>1, QuietKeeps DEF Inv, Typed
<1>2. CASE question' # question
  <2>1. question' = [question EXCEPT ![s] = Append(question[s], "sent")]
    BY <1>2 DEF Ask
  <2>2. question[s] \in Seq(Question) /\ question \in [Server -> Seq(Question)]
    BY DEF Inv, Typed
  <2>3. Len(question'[s]) = Len(question[s]) + 1 /\ Len(question[s]) \in Nat
    BY <2>1, <2>2
  <2>4. \A t \in Server : t # s => question'[t] = question[t]
    BY <2>1, <2>2
  <2> SUFFICES ASSUME NEW t \in Server
               PROVE  /\ Untold(t)' => wire'[t] = <<>>
                      /\ \A k \in DOMAIN wire'[t] : wire'[t][k] = "TERMINATE" => k = 1
                      /\ Len(question'[t]) + Coming(t)' + Foreign(t)' =< 2
    BY DEF Counted
  <2>5. Untold(t)' => wire'[t] = <<>>
    BY DEF Counted
  <2>6. \A k \in DOMAIN wire'[t] : wire'[t][k] = "TERMINATE" => k = 1
    BY DEF Counted
  <2>7. /\ Coming(t)' \in Nat /\ Coming(t) \in Nat /\ Coming(t)' =< Coming(t)
        /\ Foreign(t)' \in Nat /\ Foreign(t) \in Nat /\ Foreign(t)' =< Foreign(t)
    BY DEF Coming, UnderWay, Foreign
  <2>8. /\ Len(question[t]) \in Nat
        /\ Len(question[t]) + Coming(t) + Foreign(t) =< 2
    BY <2>2 DEF Counted
  <2>9. Len(question'[t]) + Coming(t)' + Foreign(t)' =< 2
    <3>1. CASE t = s
      <4>1. Coming(t)' < Coming(t) \/ Foreign(t)' < Foreign(t)
        BY <3>1 DEF Coming, Foreign, Untold, UnderWay
      <4>2. Len(question'[t]) = Len(question[t]) + 1
        BY <2>3, <3>1
      <4> QED
        BY SMTT(30), <2>7, <2>8, <4>1, <4>2
    <3>2. CASE t # s
      BY <2>4, <2>7, <2>8, <3>2
    <3> QED
      BY <3>1, <3>2
  <2> QED
    BY <2>5, <2>6, <2>9
<1> QED
  BY <1>1, <1>2

(* The binder's TERMINATE is on its way now. *)
LEMMA SendKeepsCount ==
  ASSUME Inv, Inv', Counted, NEW s \in Server, SendTerminate(s)
  PROVE  Counted'
<1>1. /\ binder = "telling" /\ s \in names /\ names' = names \ {s} /\ binder' = "waiting"
      /\ wire' = [wire EXCEPT ![s] = Append(wire[s], "TERMINATE")]
      /\ UNCHANGED <<stray, question>>
  BY DEF SendTerminate, Others
<1>2. wire[s] = <<>> /\ Coming(s) = 1
  BY <1>1 DEF Counted, Untold, Coming
<1>3. wire'[s] = <<"TERMINATE">>
  BY <1>1, <1>2 DEF Inv, Typed
<1>4. \A t \in Server : t # s => wire'[t] = wire[t] /\ (Untold(t)' => Untold(t))
  BY <1>1 DEF Inv, Typed, Untold
<1>5. ~ Untold(s)'
  BY <1>1 DEF Untold
<1> SUFFICES ASSUME NEW t \in Server
             PROVE  /\ Untold(t)' => wire'[t] = <<>>
                    /\ \A k \in DOMAIN wire'[t] : wire'[t][k] = "TERMINATE" => k = 1
                    /\ Len(question'[t]) + Coming(t)' + Foreign(t)' =< 2
  BY DEF Counted
<1>6. /\ Len(question[t]) \in Nat
      /\ Foreign(t) \in Nat /\ Foreign(t)' = Foreign(t)
  BY <1>1 DEF Inv, Typed, Foreign
<1>7. CASE t = s
  <2>1. Len(question[s]) + 1 + Foreign(s) =< 2
    BY <1>2 DEF Counted
  <2>2. Coming(s)' =< 1 /\ Coming(s)' \in Nat
    BY DEF Coming
  <2>3. Len(question'[s]) + Coming(s)' + Foreign(s)' =< 2
    BY <1>1, <1>6, <1>7, <2>1, <2>2
  <2> QED
    BY <1>3, <1>5, <1>7, <2>3
<1>8. CASE t # s
  <2>1. Coming(t)' \in Nat /\ Coming(t) \in Nat /\ Coming(t)' =< Coming(t)
    BY <1>4, <1>8 DEF Coming, UnderWay
  <2>2. /\ Untold(t) => wire[t] = <<>>
        /\ \A k \in DOMAIN wire[t] : wire[t][k] = "TERMINATE" => k = 1
        /\ Len(question[t]) + Coming(t) + Foreign(t) =< 2
    BY DEF Counted
  <2>3. Len(question'[t]) + Coming(t)' + Foreign(t)' =< 2
    BY <1>1, <1>6, <2>1, <2>2
  <2> QED
    BY <1>4, <1>8, <2>2, <2>3
<1> QED
  BY <1>7, <1>8

(* The steps of clients and of the binder that do neither. *)
LEMMA BinderQuiet ==
  ASSUME Inv, Inv', Counted,
         \/ \E type \in MessageType : ClientSends(type)
         \/ BinderAnswers \/ BinderCrashes \/ BinderExits
         \/ \E s \in Server : SkipDeadServer(s) \/ CannotSend(s)
         \/ \E goes_on \in BOOLEAN : WaitBroken(goes_on)
  PROVE  Counted'
<1>1. ASSUME NEW type \in MessageType, ClientSends(type) PROVE Counted'
  BY <1>1, QuietKeeps DEF ClientSends, binderVars, serverVars, Untold, Inv, Typed
<1>2. CASE HandleOther \/ HandleTerminate
  BY <1>2, QuietKeeps DEF HandleOther, HandleTerminate, binderVars, serverVars, Untold, Inv, Typed
<1>3. ASSUME NEW s \in Server, NEW i \in DOMAIN question[s], NEW a \in Question,
             question' = [question EXCEPT ![s][i] = a]
      PROVE  \A t \in Server : Len(question'[t]) = Len(question[t])
  BY <1>3 DEF Inv, Typed
<1>4. ASSUME NEW s \in Server, NEW i \in DOMAIN question[s], DenyTermination(s, i) PROVE Counted'
  <2>1. \A t \in Server : Len(question'[t]) = Len(question[t])
    BY <1>3, <1>4 DEF DenyTermination, Question
  <2> QED
    BY <1>4, <2>1, QuietKeeps DEF DenyTermination, binderVars, Untold, Inv, Typed
<1>5. ASSUME binder = "waiting", Confirm
      PROVE  \A t \in Server :
               \A k \in DOMAIN wire'[t] : wire'[t][k] = "TERMINATE" =>
                 k \in DOMAIN wire[t] /\ wire[t][k] = "TERMINATE"
  <2>1. target \in Server /\ wire[target] \in Seq(BinderWire)
    BY <1>5 DEF Inv, Targeted, Typed
  <2>2. \A k \in DOMAIN Append(wire[target], "CONFIRM_TERMINATE") :
          Append(wire[target], "CONFIRM_TERMINATE")[k] = "TERMINATE" =>
            k \in DOMAIN wire[target] /\ wire[target][k] = "TERMINATE"
    BY <2>1
  <2> QED
    BY <1>5, <2>1, <2>2 DEF Confirm, Inv, Typed
<1>6. ASSUME binder = "waiting", Confirm, UNCHANGED names
      PROVE  \A t \in Server : Untold(t)' => Untold(t) /\ wire'[t] = wire[t]
  BY <1>6 DEF Confirm, Untold, Inv, Typed, Targeted
<1>7. ASSUME NEW s \in Server, NEW i \in DOMAIN question[s], WaitAnswered(s, i) PROVE Counted'
  <2>1. \A t \in Server : Len(question'[t]) = Len(question[t])
    BY <1>3, <1>7 DEF WaitAnswered, Question
  <2>2. binder = "waiting" /\ Confirm /\ UNCHANGED <<names, stray>>
    BY <1>7 DEF WaitAnswered
  <2> QED
    BY <1>5, <1>6, <2>1, <2>2, QuietKeeps DEF Inv, Typed
<1>8. ASSUME NEW type \in MessageType, WaitInterrupted(type) PROVE Counted'
  <2>1. binder = "waiting" /\ Confirm /\ UNCHANGED <<names, stray, question>>
    BY <1>8 DEF WaitInterrupted
  <2> QED
    BY <1>5, <1>6, <2>1, QuietKeeps DEF Inv, Typed
<1>9. ASSUME NEW goes_on \in BOOLEAN, WaitBroken(goes_on) PROVE Counted'
  <2>1. CASE goes_on
    BY <1>9, <2>1, QuietKeeps DEF WaitBroken, Untold, Inv, Typed
  <2>2. CASE ~ goes_on
    <3>1. binder = "waiting" /\ Confirm /\ UNCHANGED <<names, stray, question>>
      BY <1>9, <2>2 DEF WaitBroken
    <3> QED
      BY <1>5, <1>6, <3>1, QuietKeeps DEF Inv, Typed
  <2> QED
    BY <2>1, <2>2
<1>10. CASE BinderCrashes \/ BinderExits
  <2>1. /\ CloseAll /\ binder' # "serving"
        /\ UNCHANGED <<names, wire, stray>>
    BY <1>10 DEF BinderCrashes, BinderExits
  <2>2. \A t \in Server : Len(question'[t]) = Len(question[t])
    BY <2>1 DEF CloseAll, Inv, Typed
  <2> QED
    BY <2>1, <2>2, QuietKeeps DEF Untold, Inv, Typed
<1>11. ASSUME NEW s \in Server, SkipDeadServer(s) \/ CannotSend(s) PROVE Counted'
  BY <1>11, QuietKeeps DEF SkipDeadServer, CannotSend, Others, serverVars, Untold, Inv, Typed
<1> QED
  BY <1>1, <1>2, <1>4, <1>7, <1>8, <1>9, <1>10, <1>11 DEF BinderAnswers

(* The steps of a server. *)
LEMMA ServerCounted ==
  ASSUME Inv, Inv', Counted, NEW s \in Server,
         \/ StrayTerminate(s) \/ ServerOk(s) \/ Execute(s)
         \/ ServerReads(s) \/ Exit(s) \/ Die(s)
  PROVE  Counted'
<1>1. ASSUME Abandon(s) \/ (QuestionBroken(s) /\ GoesOn(s))
      PROVE  \A t \in Server : Len(question'[t]) =< Len(question[t])
  <2>1. question \in [Server -> Seq(Question)] /\ question[s] \in Seq(Question)
    BY DEF Inv, Typed
  <2>2. CASE Abandon(s)
    BY <2>1, <2>2 DEF Abandon
  <2>3. CASE QuestionBroken(s) /\ GoesOn(s)
    <3>1. question' = [question EXCEPT ![s] = SubSeq(question[s], 1, Len(question[s]) - 1)]
      BY <2>3 DEF GoesOn, Front
    <3>2. Len(SubSeq(question[s], 1, Len(question[s]) - 1)) =< Len(question[s])
      BY <2>1, SubSeqProperties
    <3> QED
      BY <2>1, <3>1, <3>2
  <2> QED
    BY <1>1, <2>2, <2>3
<1>2. CASE StrayTerminate(s)
  BY <1>2, QuietKeeps DEF StrayTerminate, binderVars, Untold, Inv, Typed
<1>3. CASE ServerOk(s) \/ Execute(s)
  BY <1>3, QuietKeeps DEF ServerOk, Execute, binderVars, Untold, Inv, Typed
<1>4. CASE Exit(s)
  BY <1>4, QuietKeeps DEF Exit, binderVars, Untold, Inv, Typed
<1>5. CASE Die(s)
  BY <1>1, <1>5, QuietKeeps DEF Die, binderVars, Untold, Inv, Typed
<1>6. CASE ReadAnswer(s)
  BY <1>1, <1>6, QuietKeeps DEF ReadAnswer, Stop, binderVars, Untold, Inv, Typed
<1>7. CASE QuestionClosed(s)
  BY <1>1, <1>7, QuietKeeps DEF QuestionClosed, binderVars, Untold, Inv, Typed
<1>8. CASE ReadStray(s)
  <2>1. /\ Ask(s) /\ stray[s] = "sent" /\ stray' = [stray EXCEPT ![s] = "read"]
        /\ UNCHANGED <<binder, names, wire>>
    BY <1>8 DEF ReadStray, binderVars
  <2>2. stray'[s] = "read" /\ \A t \in Server : stray[t] = "read" => stray'[t] = "read"
    BY <2>1 DEF Inv, Typed
  <2>3. Foreign(s)' < Foreign(s)
    BY <2>1, <2>2 DEF Foreign
  <2> QED
    BY <2>1, <2>2, <2>3, AskKeeps DEF Untold
<1>9. ASSUME NEW n \in 1 .. 2, ReadWire(s, n) PROVE Counted'
  <2>1. /\ n \in 1 .. Len(wire[s])
        /\ wire' = [wire EXCEPT ![s] = SubSeq(@, n + 1, Len(@))]
        /\ UNCHANGED <<binder, names, stray>>
    BY <1>9 DEF ReadWire, binderVars
  <2>2. /\ \A t \in Server : t # s => wire'[t] = wire[t]
        /\ \A k \in DOMAIN wire'[s] : n + k \in DOMAIN wire[s] /\ wire'[s][k] = wire[s][n + k]
    BY <2>1, ReadType DEF Inv
  <2>3. wire[s] \in Seq(BinderWire) /\ wire[s] # <<>> /\ wire'[s] \in Seq(BinderWire)
    BY <2>1 DEF Inv, Typed
  <2>4. \A k \in DOMAIN wire'[s] : k \in Nat /\ k >= 1
    BY <2>3
  <2>5. \A k \in DOMAIN wire'[s] : n + k # 1
    BY <2>4
  <2>6. \A k \in DOMAIN wire'[s] : wire'[s][k] # "TERMINATE"
    BY <2>2, <2>5 DEF Counted
  <2>7. ~ Untold(s) /\ (\A t \in Server : Untold(t)' => Untold(t))
    BY <2>1, <2>3 DEF Counted, Untold
  <2>8. \A t \in Server :
          /\ Untold(t)' => Untold(t) /\ wire'[t] \in {wire[t], <<>>}
          /\ \A k \in DOMAIN wire'[t] : wire'[t][k] = "TERMINATE" =>
               k \in DOMAIN wire[t] /\ wire[t][k] = "TERMINATE"
          /\ stray[t] = "read" => stray'[t] = "read"
    BY <2>1, <2>2, <2>6, <2>7
  <2>9. CASE Head(wire[s]) = "TERMINATE"
    <3>1. Ask(s)
      BY <1>9, <2>9 DEF ReadWire
    <3>2. UnderWay(s)
      BY <2>3, <2>9 DEF UnderWay
    <3>3. ~ Untold(s)' /\ ~ UnderWay(s)'
      BY <2>6, <2>7 DEF UnderWay
    <3>4. Coming(s)' < Coming(s)
      BY <3>2, <3>3 DEF Coming
    <3> QED
      BY <2>8, <3>1, <3>4, AskKeeps
  <2>10. CASE Head(wire[s]) # "TERMINATE" /\ question[s] # <<>>
    <3>1. Abandon(s)
      BY <1>9, <2>10 DEF ReadWire, Stop
    <3> QED
      BY <1>1, <2>8, <3>1, QuietKeeps
  <2>11. CASE Head(wire[s]) # "TERMINATE" /\ question[s] = <<>>
    <3>1. question' = question
      BY <1>9, <2>11 DEF ReadWire
    <3> QED
      BY <2>8, <3>1, QuietKeeps DEF Inv, Typed
  <2> QED
    BY <2>9, <2>10, <2>11
<1> QED
  BY <1>2, <1>3, <1>4, <1>5, <1>6, <1>7, <1>8, <1>9 DEF ServerReads

(* Every step keeps the count. *)
LEMMA CountedStep == Inv /\ Inv' /\ Counted /\ [Next]_vars => Counted'
<1> SUFFICES ASSUME Inv, Inv', Counted, [Next]_vars PROVE Counted'
  OBVIOUS
<1>1. CASE UNCHANGED vars
  BY <1>1 DEF vars, binderVars, serverVars, Counted, Coming, Untold, UnderWay, Foreign
<1>2. ASSUME NEW s \in Server, SendTerminate(s) PROVE Counted'
  BY <1>2, SendKeepsCount
<1> QED
  BY <1>1, <1>2, BinderQuiet, ServerCounted DEF Next, BinderGoesRound

(* The variables of Termination have their types, and a server never has    *)
(* more than two questions open (TypeOK of Termination).                    *)
THEOREM TerminationTypeCorrect == Spec => []TypeOK
<1>1. Inv /\ Counted => TypeOK
  <2> SUFFICES ASSUME Inv, Counted PROVE TypeOK
    OBVIOUS
  <2>1. ASSUME NEW s \in Server PROVE Len(question[s]) =< 2
    <3>1. Coming(s) \in Nat /\ Foreign(s) \in Nat /\ Len(question[s]) \in Nat
      BY DEF Coming, Foreign, Inv, Typed
    <3>2. Len(question[s]) + Coming(s) + Foreign(s) =< 2
      BY DEF Counted
    <3> QED
      BY <3>1, <3>2
  <2> QED
    BY <2>1 DEF Inv, Typed, TypeOK, BinderWire
<1>2. Init => Counted
  BY CountedInit
<1>3. Inv /\ Inv' /\ Counted /\ [Next]_vars => Counted'
  BY CountedStep
<1> QED
  BY <1>1, <1>2, <1>3, Invariance, PTL DEF Spec
=============================================================================
