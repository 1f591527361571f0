------------------------------ MODULE Termination ------------------------------
(***************************************************************************)
(* The end of the system: a client sends TERMINATE to the binder, the      *)
(* binder passes it to one server after the other (terminate_servers), and *)
(* a server that gets it asks the binder whether it is genuine, on a       *)
(* connection of its own, before it ends rpcExecute.                       *)
(*                                                                         *)
(* Messages that have nothing to do with termination are only counted: the *)
(* binder's wait for a server ends with any message.  Both sides read      *)
(* their connections in any order; one read may return two messages of one *)
(* connection, of which read_avail keeps the first.                        *)
(*                                                                         *)
(* The build modelled is the one the Makefile makes, with -DNDEBUG.        *)
(***************************************************************************)
EXTENDS Integers, SequencesExt, FiniteSets

CONSTANTS Server,     \* the servers in the binder's directory
          NoServer,
          Mortal,     \* bound: the servers that may die
          BinderMortal, \* bound: whether the binder may
          Stray,      \* bound: the servers to which somebody else sends a TERMINATE
          MaxMessages \* bound: messages of clients to the binder

ASSUME TerminationAssumption ==
  /\ IsFiniteSet(Server)
  /\ NoServer \notin Server
  /\ Mortal \subseteq Server
  /\ BinderMortal \in BOOLEAN
  /\ Stray \subseteq Server
  /\ MaxMessages \in Nat

VARIABLES
  binder,    \* where the binder is
  names,     \* terminate_servers: the names its loop has still to come to
  target,    \* the server at the other end of its connection
  sent,      \* messages clients have sent to the binder
  inbox,     \* those, and messages of servers, that it has not read
  phase,     \* where each server is
  wire,      \* what is under way on the binder's connection to a server
  stray,     \* the TERMINATE of somebody else, at most one to a server
  question,  \* a server's connections with CONFIRM_TERMINATE, innermost last
  agreed,    \* history: the servers terminate_servers sent a confirmation
  denied,    \* history: those the binder answered FALSE
  passed     \* history: those it passed over because it could not write to them

binderVars == <<binder, names, target>>
mailVars == <<sent, inbox>>
serverVars == <<phase, wire, stray, question>>
historyVars == <<agreed, denied, passed>>
vars == <<binderVars, mailVars, serverVars, historyVars>>

(* serving: in the loop of main; telling: at the top of the loop of         *)
(* terminate_servers; waiting: in its while; spinning: in it for good;      *)
(* exited: main has returned.                                               *)
BinderPhase == {"serving", "telling", "waiting", "spinning", "exited", "crashed"}

Gone == binder \in {"exited", "crashed"}

(* init: in rpcInit, waiting for SERVER_OK, server_id is still -1; busy:    *)
(* the application is not in the library; reading: in wait_for_desired;     *)
(* stopped: is_terminate is set.                                            *)
ServerPhase == {"init", "busy", "reading", "stopped", "dead"}

MessageType == {"TERMINATE", "OTHER"}

(* A connection with a question: not read yet; read and not answered;       *)
(* answered with is_terminate FALSE; closed by the binder.                  *)
Question == {"sent", "read", "false", "eof"}

Stranger == {"unsent", "sent", "read"}

Init ==
  /\ binder = "serving"
  /\ names = {}
  /\ target = NoServer
  /\ sent = 0
  /\ inbox = [type \in MessageType |-> 0]
  /\ phase \in [Server -> {"init", "busy"}]
  /\ wire = [s \in Server |-> <<>>]
  /\ stray = [s \in Server |-> "unsent"]
  /\ question = [s \in Server |-> <<>>]
  /\ agreed = {}
  /\ denied = {}
  /\ passed = {}

-----------------------------------------------------------------------------
(* Clients, and whoever else sends messages. *)

(* rpcTerminate sends TERMINATE and returns; any other call sends some      *)
(* other request.                                                           *)
ClientSends(type) ==
  /\ sent < MaxMessages
  /\ ~ Gone
  /\ sent' = sent + 1
  /\ inbox' = [inbox EXCEPT ![type] = @ + 1]
  /\ UNCHANGED <<binderVars, serverVars, historyVars>>

(* "The server may get a terminate request from anyone" (flow.tex 45). *)
StrayTerminate(s) ==
  /\ s \in Stray
  /\ stray[s] = "unsent"
  /\ phase[s] # "dead"
  /\ stray' = [stray EXCEPT ![s] = "sent"]
  /\ UNCHANGED <<binderVars, mailVars, phase, wire, question, historyVars>>

-----------------------------------------------------------------------------
(* The binder. *)

(* A request that is not about termination: see module Directory. *)
HandleOther ==
  /\ binder = "serving"
  /\ inbox["OTHER"] > 0
  /\ inbox' = [inbox EXCEPT !["OTHER"] = @ - 1]
  /\ UNCHANGED <<binderVars, sent, serverVars, historyVars>>

(* handle_request, CONFIRM_TERMINATE: "the remote got a fake message". *)
DenyTermination(s, i) ==
  /\ binder = "serving"
  /\ i \in DOMAIN question[s]
  /\ question[s][i] = "sent"
  /\ question' = [question EXCEPT ![s][i] = "false"]
  /\ denied' = denied \cup {s}
  /\ UNCHANGED <<binderVars, mailVars, phase, wire, stray, agreed, passed>>

HandleTerminate ==
  /\ binder = "serving"
  /\ inbox["TERMINATE"] > 0
  /\ inbox' = [inbox EXCEPT !["TERMINATE"] = @ - 1]
  /\ names' = Server
  /\ binder' = "telling"
  /\ UNCHANGED <<target, sent, serverVars, historyVars>>

(* mutant: a dead server ends the loop *)
LeaveAtDeadServer(s) == {}

(* mutant: the loop does not get on *)
KeepsName(s) == names

Others(s) == names \ {s}

SkipDeadServer(s) ==
  /\ binder = "telling"
  /\ s \in names
  /\ phase[s] = "dead"
  /\ names' = Others(s)
  /\ UNCHANGED <<binder, target, mailVars, serverVars, historyVars>>

(* "maybe the server is busy? assume it's dead": the write of TERMINATE     *)
(* fails although the server runs, and the loop goes on without it.         *)
CannotSend(s) ==
  /\ binder = "telling"
  /\ s \in names
  /\ phase[s] # "dead"
  /\ names' = Others(s)
  /\ passed' = passed \cup {s}
  /\ UNCHANGED <<binder, target, mailVars, serverVars, agreed, denied>>

SendTerminate(s) ==
  /\ binder = "telling"
  /\ s \in names
  /\ phase[s] # "dead"
  /\ names' = Others(s)
  /\ wire' = [wire EXCEPT ![s] = Append(@, "TERMINATE")]
  /\ target' = s
  /\ binder' = "waiting"
  /\ UNCHANGED <<mailVars, phase, stray, question, historyVars>>

(* The wait is over: send_confirm_terminate goes to the binder's own        *)
(* connection, not to the one that asked, and the connection is closed.     *)
(* Whether the write succeeds is not looked at.                             *)
Confirm ==
  /\ \/ /\ phase[target] = "dead"
        /\ UNCHANGED <<wire, agreed, passed>>
     \/ /\ phase[target] # "dead"
        /\ wire' = [wire EXCEPT ![target] = Append(@, "CONFIRM_TERMINATE")]
        /\ agreed' = agreed \cup {target}
        /\ UNCHANGED passed
     \/ /\ phase[target] # "dead"
        /\ passed' = passed \cup {target}
        /\ UNCHANGED <<wire, agreed>>
  /\ target' = NoServer
  /\ binder' = "telling"

(* mutant: only CONFIRM_TERMINATE ends the wait *)
OnlyConfirm(type) == FALSE

AnyMessage(type) == TRUE

(* sync_and_receive_any returns a message, whosever it is ... *)
WaitAnswered(s, i) ==
  /\ binder = "waiting"
  /\ i \in DOMAIN question[s]
  /\ question[s][i] = "sent"
  /\ question' = [question EXCEPT ![s][i] = "read"]
  /\ Confirm
  /\ UNCHANGED <<names, mailVars, phase, stray, denied>>

WaitInterrupted(type) ==
  /\ binder = "waiting"
  /\ AnyMessage(type)
  /\ inbox[type] > 0
  /\ inbox' = [inbox EXCEPT ![type] = @ - 1]
  /\ Confirm
  /\ UNCHANGED <<names, sent, phase, stray, question, denied>>

(* ... or REMOTE_DISCONNECTED, and then the loop tests the fields of a      *)
(* Request nobody has written: it goes on, for ever, since it never calls   *)
(* sync again, or it ends.                                                  *)
WaitBroken(goes_on) ==
  /\ binder = "waiting"
  /\ phase[target] = "dead"
  /\ IF goes_on THEN binder' = "spinning" /\ UNCHANGED <<wire, agreed, passed, target>>
     ELSE Confirm
  /\ UNCHANGED <<names, mailVars, phase, stray, question, denied>>

(* Every connection of the binder's process is closed with it. *)
CloseAll ==
  /\ question' = [s \in Server |->
                    [i \in DOMAIN question[s] |->
                       IF question[s][i] = "false" THEN "false" ELSE "eof"]]
  /\ inbox' = [type \in MessageType |-> 0]

(* main returns. *)
BinderExits ==
  /\ binder = "telling"
  /\ names = {}
  /\ binder' = "exited"
  /\ CloseAll
  /\ UNCHANGED <<names, target, sent, phase, wire, stray, historyVars>>

BinderCrashes ==
  /\ BinderMortal
  /\ ~ Gone
  /\ binder' = "crashed"
  /\ CloseAll
  /\ UNCHANGED <<names, target, sent, phase, wire, stray, historyVars>>


-----------------------------------------------------------------------------
(* The servers. *)

(* rpcInit gets its SERVER_OK. *)
ServerOk(s) ==
  /\ phase[s] = "init"
  /\ phase' = [phase EXCEPT ![s] = "busy"]
  /\ UNCHANGED <<binderVars, mailVars, wire, stray, question, historyVars>>

(* rpcExecute: NEW_SERVER_EXECUTE to the binder, and then the wait that     *)
(* only is_terminate ends.                                                  *)
Execute(s) ==
  /\ phase[s] = "busy"
  /\ phase' = [phase EXCEPT ![s] = "reading"]
  /\ inbox' = IF Gone THEN inbox ELSE [inbox EXCEPT !["OTHER"] = @ + 1]
  /\ UNCHANGED <<binderVars, sent, wire, stray, question, historyVars>>

(* What a server asked and the binder has not read reaches it all the same. *)
Unread(s) == Cardinality({i \in DOMAIN question[s] : question[s][i] = "sent"})

Abandon(s) ==
  /\ question' = [question EXCEPT ![s] = <<>>]
  /\ inbox' = [inbox EXCEPT !["OTHER"] = @ + Unread(s)]

(* is_terminate = pop_i8(ss) takes the byte from the TERMINATE message,     *)
(* which has none: the end of the stream counts as TRUE, whatever the       *)
(* answer.  Every wait, inner or outer, then returns TERMINATING.           *)
Stop(s) ==
  /\ phase' = [phase EXCEPT ![s] = "stopped"]
  /\ Abandon(s)

(* wait_for_desired, TERMINATE: ask the binder on a connection of its own   *)
(* and wait, inside this wait, for the answer.  With server_id still -1 the *)
(* message is dropped, and so it is when the binder cannot be reached.      *)
Ask(s) ==
  question' = IF phase[s] = "reading" /\ ~ Gone
                THEN [question EXCEPT ![s] = Append(@, "sent")]
                ELSE question

Reads(s) == phase[s] \in {"init", "reading"}

(* One read of the binder's connection returns n messages; the first one is *)
(* handled and the others are lost with the rest of the segment.  A         *)
(* CONFIRM_TERMINATE nobody waits for falls into the default branch.        *)
ReadWire(s, n) ==
  /\ Reads(s)
  /\ n \in 1 .. Len(wire[s])
  /\ wire' = [wire EXCEPT ![s] = SubSeq(@, n + 1, Len(@))]
  /\ IF Head(wire[s]) = "TERMINATE" THEN Ask(s) /\ UNCHANGED <<phase, inbox>>
     ELSE IF question[s] # <<>> THEN Stop(s)
     ELSE UNCHANGED <<phase, question, inbox>>
  /\ UNCHANGED <<binderVars, sent, stray, historyVars>>

ReadStray(s) ==
  /\ Reads(s)
  /\ stray[s] = "sent"
  /\ stray' = [stray EXCEPT ![s] = "read"]
  /\ Ask(s)
  /\ UNCHANGED <<binderVars, mailVars, phase, wire, historyVars>>

(* The answer of handle_request ends the innermost wait, whichever question *)
(* it answers.                                                              *)
ReadAnswer(s) ==
  /\ phase[s] = "reading"
  /\ \E i \in DOMAIN question[s] : question[s][i] = "false"
  /\ Stop(s)
  /\ UNCHANGED <<binderVars, sent, wire, stray, historyVars>>

(* mutant: is_terminate is set although the wait failed *)
StopsAnyway(s) == Stop(s)

GoesOn(s) ==
  /\ question' = [question EXCEPT ![s] = Front(@)]
  /\ UNCHANGED <<phase, inbox>>

(* mutant: the wait for an answer has no need_alive_fd *)
AliveUntested(s) == FALSE

QuestionBroken(s) == question[s] # <<>> /\ Last(question[s]) = "eof"

(* is_alive: the binder has closed the connection of the innermost question. *)
QuestionClosed(s) ==
  /\ phase[s] = "reading"
  /\ QuestionBroken(s)
  /\ GoesOn(s)
  /\ UNCHANGED <<binderVars, sent, wire, stray, historyVars>>

(* rpcExecute returns, and the server's process with it. *)
Exit(s) ==
  /\ phase[s] = "stopped"
  /\ phase' = [phase EXCEPT ![s] = "dead"]
  /\ wire' = [wire EXCEPT ![s] = <<>>]
  /\ UNCHANGED <<binderVars, mailVars, stray, question, historyVars>>

(* A crash. *)
Die(s) ==
  /\ s \in Mortal
  /\ phase[s] # "dead"
  /\ phase' = [phase EXCEPT ![s] = "dead"]
  /\ wire' = [wire EXCEPT ![s] = <<>>]
  /\ Abandon(s)
  /\ UNCHANGED <<binderVars, sent, stray, historyVars>>

-----------------------------------------------------------------------------
BinderAnswers ==
  \/ \E s \in Server : \E i \in DOMAIN question[s] :
       DenyTermination(s, i) \/ WaitAnswered(s, i)
  \/ \E type \in MessageType : WaitInterrupted(type)
  \/ HandleOther
  \/ HandleTerminate

BinderGoesRound ==
  \/ \E s \in Server : SkipDeadServer(s) \/ CannotSend(s) \/ SendTerminate(s)
  \/ \E goes_on \in BOOLEAN : WaitBroken(goes_on)
  \/ BinderExits

ServerReads(s) ==
  \/ \E n \in 1 .. 2 : ReadWire(s, n)
  \/ ReadStray(s)
  \/ ReadAnswer(s)
  \/ QuestionClosed(s)

Next ==
  \/ \E type \in MessageType : ClientSends(type)
  \/ BinderAnswers
  \/ BinderGoesRound
  \/ BinderCrashes
  \/ \E s \in Server :
       \/ StrayTerminate(s)
       \/ ServerOk(s)
       \/ Execute(s)
       \/ ServerReads(s)
       \/ Exit(s)
       \/ Die(s)

Spec == Init /\ [][Next]_vars

(* The binder and the servers go on as long as they can; a server comes to  *)
(* rpcExecute, and leaves when it has stopped.  Nobody has to send anything *)
(* and nobody has to die.                                                   *)
FairSpec ==
  /\ Spec
  /\ WF_vars(BinderAnswers)
  /\ WF_vars(BinderGoesRound)
  /\ \A s \in Server : /\ WF_vars(ServerOk(s))
                       /\ WF_vars(Execute(s))
                       /\ WF_vars(ServerReads(s))
                       /\ WF_vars(Exit(s))

-----------------------------------------------------------------------------
(* Properties. *)

(* The variables keep their types; at most the two TERMINATE messages a     *)
(* server can get are being asked about.                                    *)
TypeOK ==
  /\ binder \in BinderPhase
  /\ names \subseteq Server
  /\ target \in Server \cup {NoServer}
  /\ sent \in 0 .. MaxMessages
  /\ inbox \in [MessageType -> Nat]
  /\ phase \in [Server -> ServerPhase]
  /\ wire \in [Server -> Seq({"TERMINATE", "CONFIRM_TERMINATE"})]
  /\ stray \in [Server -> Stranger]
  /\ question \in [Server -> Seq(Question)]
  /\ agreed \subseteq Server
  /\ denied \subseteq Server
  /\ passed \subseteq Server
  /\ \A s \in Server : Len(question[s]) =< 2

(* The binder does not end before it has confirmed the termination of every *)
(* server that is still running and that it could write to, however its     *)
(* waits ended: a dead server, a failed write, or a message of somebody     *)
(* else, only ends the turn of one server (terminate_servers).  "The binder *)
(* terminates when it replies CONFIRM_TERMINATE to all servers"             *)
(* (protocol.tex 95) is more than the code does: after a failed write the   *)
(* server is passed over, and may run on.                                   *)
ExitTellsEveryone ==
  binder = "exited" =>
    \A s \in Server :
      phase[s] \in {"init", "busy", "reading"} => s \in agreed \cup passed

(* No server ends on a TERMINATE alone, and the end of the binder does not  *)
(* take the servers with it: one that ends of itself had an answer of the   *)
(* binder, be it the wrong one (wait_for_desired, TERMINATE).               *)
StoppedWasAnswered ==
  \A s \in Server : phase[s] = "stopped" => s \in agreed \cup denied

(* Once the binder has begun to terminate servers it comes to its end, or   *)
(* to the loop on an unwritten Request: no server that is busy, in rpcInit, *)
(* stopped or dead holds it up for good (terminate_servers).                *)
BinderComesToEnd == binder = "telling" ~> Gone \/ binder = "spinning"

(* A server that asks whether it shall terminate is not held up for good:   *)
(* it gets an answer or sees the binder's end (need_alive_fd in             *)
(* wait_for_desired).  Only a binder that spins leaves it waiting.          *)
AskingEnds ==
  \A s \in Server : question[s] # <<>> ~> question[s] = <<>> \/ binder = "spinning"

(* "If the binder agrees the confirmation, then the server will call        *)
(* Tasks::terminate()" (flow.tex 46); the code takes the byte it tests from *)
(* the wrong message, and a refusal ends the server as well.                *)
TerminatesOnlyIfAgreed ==
  \A s \in Server : phase[s] = "stopped" => s \in agreed

=============================================================================
