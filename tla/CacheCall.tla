------------------------------- MODULE CacheCall -------------------------------
(***************************************************************************)
(* rpcCacheCall: a client calls one function, choosing the server from its *)
(* own directory, and turns to the binder (rpcCall) when that fails.       *)
(*                                                                         *)
(* The client is modelled in full: the loop of rpcCacheCall, suggest_helper*)
(* without is_binder, rpc_call_helper.  The servers and the binder, which  *)
(* module Directory models, are its environment here: servers come, go,    *)
(* reject calls or leave them, and the binder's log grows.  What a server  *)
(* sends along with a reply is some prefix of that log (theorem            *)
(* ReplicasCorrect).                                                       *)
(***************************************************************************)
EXTENDS NameService

CONSTANTS
  func,       \* the function that is called
  MaxVersion, \* bound: the length of the binder's log
  LateId      \* bound: the ids that may go to a server that is dead by then

ASSUME CacheCallAssumption == func \in Func /\ MaxVersion \in Nat /\ LateId \subseteq Id

VARIABLES
  binder,      \* the binder's directory
  next_u32,    \* its next id
  server,      \* the server that listens at an address: its id, NoId before it has one
  registering, \* the ids whose REGISTER the binder has still to handle
  ns,          \* the client's directory
  phase,       \* where the client is
  listed,      \* history: the candidates when rpcCacheCall was called
  duplicates,  \* rpcCacheCall: the ids tried
  ordered,     \* history: since then, candidates came in behind the others only
  server_id,   \* rpcCacheCall: the id suggested last
  callee,      \* the address connected to, NoName once the server there is gone
  delta,       \* the log entries of a reply that are still to be applied
  outcome      \* where the client goes after them

(* No id either, of an address where no server listens. *)
Nobody == -2

serverVars == <<binder, next_u32, server, registering>>
callVars == <<listed, duplicates, ordered>>
replyVars == <<delta, outcome>>
vars == <<serverVars, ns, phase, callVars, server_id, callee, replyVars>>

(* idle: outside of rpcCacheCall; suggesting: in suggest; suggested: back   *)
(* from it with a server_id; calling: waiting for EXECUTE_REPLY; applying:  *)
(* in apply_logs; fallback: past the loop.                                  *)
Phase == {"idle", "suggesting", "suggested", "calling", "applying", "fallback"}

Init ==
  /\ binder = EmptyNameService
  /\ next_u32 = 0
  /\ server = [name \in Name |-> Nobody]
  /\ registering = {}
  /\ ns = EmptyNameService
  /\ phase = "idle"
  /\ listed = {}
  /\ duplicates = {}
  /\ ordered = TRUE
  /\ server_id = NoId
  /\ callee = NoName
  /\ delta = <<>>
  /\ outcome = "idle"

-----------------------------------------------------------------------------
(* The environment. *)

Listening(name) == name \in Name /\ server[name] # Nobody

clientVars == <<ns, phase, callVars, server_id, callee, replyVars>>

(* There are no more servers than ids (a bound). *)
ServerStarts(name) ==
  /\ ~Listening(name)
  /\ next_u32 < MaxId
  /\ server' = [server EXCEPT ![name] = NoId]
  /\ UNCHANGED <<binder, next_u32, registering, clientVars>>

(* I_AM_SERVER, as the binder handles it.  The server may be dead by then,  *)
(* and another one at its address: `alive' says which.                      *)
ServerAnnounces(name, alive) ==
  LET old == binder.name_to_id[name]
      d   == IF old = NoId THEN binder ELSE Kill(binder, old)
  IN
  /\ next_u32 < MaxId /\ Version(d) < MaxVersion
  /\ binder' = RegisterName(d, next_u32, name)
  /\ next_u32' = next_u32 + 1
  /\ IF alive
     THEN /\ server[name] = NoId
          /\ server' = [server EXCEPT ![name] = next_u32]
          /\ registering' = registering \cup {next_u32}
     ELSE next_u32 \in LateId /\ UNCHANGED <<server, registering>>
  /\ UNCHANGED clientVars

(* REGISTER of the function, at any time after that: servers register it in *)
(* another order than the one they announced themselves in.                 *)
ServerRegisters(id) ==
  /\ id \in registering /\ Version(binder) < MaxVersion
  /\ binder' = RegisterFn(binder, id, func)
  /\ registering' = registering \ {id}
  /\ UNCHANGED <<next_u32, server, clientVars>>

ServerDies(name) ==
  /\ Listening(name)
  /\ server' = [server EXCEPT ![name] = Nobody]
  /\ callee' = IF callee = name THEN NoName ELSE callee
  /\ UNCHANGED <<binder, next_u32, registering, ns, phase, callVars, server_id, replyVars>>

(* Some handler of the binder finds nobody at the address of an id. *)
BinderKills(id) ==
  /\ binder.id_to_name[id] # NoName
  /\ ~Listening(binder.id_to_name[id]) /\ Version(binder) < MaxVersion
  /\ binder' = Kill(binder, id)
  /\ UNCHANGED <<next_u32, server, registering, clientVars>>

-----------------------------------------------------------------------------
(* The client. *)

(* A reply arrives: of what the binder has more than the client, the        *)
(* replying process sends the first n entries.                              *)
Reply(n, next) ==
  /\ n <= Len(GetLogs(binder, Version(ns)))
  /\ delta' = SubSeq(GetLogs(binder, Version(ns)), 1, n)
  /\ phase' = "applying"
  /\ outcome' = next

(* Where an id joins the candidates: above all that this call has seen. *)
Behind(id) == \A i \in ns.func_to_ids[func] \cup listed \cup duplicates : i < id

(* apply_logs, one turn of its loop, and its end. *)
ApplyLogs ==
  /\ phase = "applying"
  /\ IF delta # <<>>
     THEN ns' = ApplyItem(ns, Head(delta)) /\ delta' = Tail(delta) /\ UNCHANGED <<phase, outcome>>
     ELSE phase' = outcome /\ outcome' = "idle" /\ UNCHANGED <<ns, delta>>
  /\ ordered' = (ordered /\ \A id \in ns'.func_to_ids[func] \ ns.func_to_ids[func] : Behind(id))
  /\ UNCHANGED <<serverVars, listed, duplicates, server_id, callee>>

(* What rpcCacheCall keeps for a call goes with it. *)
EndCall ==
  /\ listed' = {}
  /\ duplicates' = {}
  /\ ordered' = TRUE
  /\ server_id' = NoId

RpcCacheCall ==
  /\ phase = "idle"
  /\ phase' = "suggesting"
  /\ duplicates' = {}
  /\ ordered' = TRUE
  /\ listed' = ns.func_to_ids[func]
  /\ UNCHANGED <<serverVars, ns, server_id, callee, replyVars>>

(* suggest_helper, one turn of its recursion at a time. *)
Candidate(id) ==
  /\ phase = "suggesting"
  /\ id \in ns.func_to_ids[func]
  /\ AtPosition(ns.func_to_ids[func], id, NextPivot(ns, func))

NoSuggestion ==
  /\ phase = "suggesting"
  /\ ns.func_to_ids[func] = {}
  /\ phase' = "fallback"
  /\ UNCHANGED <<serverVars, ns, callVars, server_id, callee, replyVars>>

(* mutant: a client kills a server that does not answer, as the binder does *)
KillHere(id) == EraseCandidate(Kill(ns, id), func, id)

(* mutant: the position is erased, not the id at it *)
EraseByPosition(id) == EraseCandidate(ns, func, NextPivot(ns, func))

(* Only the binder kills an id whose server does not answer. *)
EraseHere(id) == EraseCandidate(ns, func, id)

(* The id has been killed, or nobody listens at its address. *)
SkipCandidate(id) ==
  /\ Candidate(id)
  /\ ~Listening(ns.id_to_name[id])
  /\ ns' = EraseHere(id)
  /\ UNCHANGED <<serverVars, phase, callVars, server_id, callee, replyVars>>

Suggest(id) ==
  /\ Candidate(id)
  /\ Listening(ns.id_to_name[id])
  /\ ns' = MovePivot(ns, func, NextPivot(ns, func))
  /\ server_id' = id
  /\ phase' = "suggested"
  /\ UNCHANGED <<serverVars, callVars, callee, replyVars>>

(* The loop of rpcCacheCall, once suggest has returned an id: a cycle. *)
ReachCycle ==
  /\ phase = "suggested"
  /\ server_id \in duplicates
  /\ phase' = "fallback"
  /\ UNCHANGED <<serverVars, ns, callVars, server_id, callee, replyVars>>

(* mutant: the id is not remembered *)
ForgetTry(tried, id) == tried

Try(tried, id) == tried \cup {id}

(* rpc_call_helper connects a second time, and sends EXECUTE, to whoever    *)
(* listens there, in rpcExecute or not (yet) ...                            *)
SendExecute ==
  /\ phase = "suggested"
  /\ server_id \notin duplicates
  /\ Listening(ns.id_to_name[server_id])
  /\ duplicates' = Try(duplicates, server_id)
  /\ callee' = ns.id_to_name[server_id]
  /\ phase' = "calling"
  /\ UNCHANGED <<serverVars, ns, listed, ordered, server_id, replyVars>>

(* ... unless the server has died since it was suggested. *)
CannotConnect ==
  /\ phase = "suggested"
  /\ server_id \notin duplicates
  /\ ~Listening(ns.id_to_name[server_id])
  /\ duplicates' = Try(duplicates, server_id)
  /\ phase' = "suggesting"
  /\ UNCHANGED <<serverVars, ns, listed, ordered, server_id, callee, replyVars>>

(* EXECUTE_REPLY: OK or SKELETON_FAILURE ends the call, any other result is *)
(* the next turn of the loop.                                               *)
ExecuteReply(n, next) ==
  /\ phase = "calling"
  /\ callee # NoName
  /\ Reply(n, next)
  /\ callee' = NoName
  /\ IF next = "idle" THEN EndCall ELSE UNCHANGED <<callVars, server_id>>
  /\ UNCHANGED <<serverVars, ns>>

(* REMOTE_DISCONNECTED, be it before, during or after the execution. *)
RemoteDisconnected ==
  /\ phase = "calling"
  /\ callee = NoName
  /\ phase' = "suggesting"
  /\ UNCHANGED <<serverVars, ns, callVars, server_id, callee, replyVars>>

(* rpcCall: of its steps, which module Directory has, the one that counts   *)
(* here is the reply of the binder, which has the whole log.                *)
RpcCall ==
  /\ phase = "fallback"
  /\ Reply(Len(GetLogs(binder, Version(ns))), "idle")
  /\ EndCall
  /\ UNCHANGED <<serverVars, ns, callee>>

-----------------------------------------------------------------------------
(* The client in the loop, where it does not wait for a server. *)
Loop ==
  \/ NoSuggestion \/ ReachCycle \/ SendExecute \/ CannotConnect \/ RemoteDisconnected
  \/ \E id \in Id : SkipCandidate(id) \/ Suggest(id)
  \/ ApplyLogs

Next ==
  \/ \E name \in Name : ServerStarts(name) \/ ServerDies(name)
  \/ \E name \in Name, alive \in BOOLEAN : ServerAnnounces(name, alive)
  \/ \E id \in Id : ServerRegisters(id) \/ BinderKills(id)
  \/ RpcCacheCall \/ Loop \/ RpcCall
  \/ \E n \in 0 .. MaxVersion, next \in {"idle", "suggesting"} : ExecuteReply(n, next)

Spec == Init /\ [][Next]_vars

(* The client's thread runs.  Of the servers nothing is assumed: one in a   *)
(* nested wait drops the EXECUTE, one outside of rpcExecute leaves it.      *)
FairSpec == Spec /\ WF_vars(Loop)

-----------------------------------------------------------------------------
(* The type invariant. *)
TypeOK ==
  /\ binder \in Directories
  /\ next_u32 \in 0 .. MaxId
  /\ server \in [Name -> Id \cup {NoId, Nobody}]
  /\ registering \subseteq Id
  /\ ns \in Directories
  /\ phase \in Phase
  /\ listed \subseteq Id
  /\ duplicates \subseteq Id
  /\ ordered \in BOOLEAN
  /\ server_id \in Id \cup {NoId}
  /\ callee \in Name \cup {NoName}
  /\ delta \in Seq(LogItem)
  /\ outcome \in {"idle", "suggesting"}

(* "only kill the id if application is the binder, otherwise the logs       *)
(* become inconsistent" (name_service.cpp 77): whatever a client finds dead,*)
(* its log stays a prefix of the binder's.                                  *)
CachedLogIsPrefix == Prefix(ns.logs, binder.logs)

(* A client does not lose a server: one that runs, and whose NEW_FUNC entry *)
(* the client has applied, stays a candidate of the client, unless the      *)
(* binder has killed it, for a late I_AM_SERVER of a dead predecessor.      *)
LiveCandidateKept ==
  \A id \in Id :
    /\ \E name \in Name : server[name] = id
    /\ NewFunc(id, func) \in Entries(ns.logs)
    /\ KillNode(id) \notin Entries(ns.logs)
    => id \in ns.func_to_ids[func]

(* The loop of rpcCacheCall comes to an end, though candidates vanish and   *)
(* arrive, and pools stay full, while it goes round, or it hangs on a       *)
(* server that runs and never answers.                                      *)
LoopEnds ==
  \/ []<>(phase \in {"idle", "fallback"})
  \/ <>[](phase = "calling" /\ callee # NoName)

(* The client moves on until a server takes the call or "all candadates     *)
(* have been exhausted" (optimization.tex 4): when it falls back to the     *)
(* binder it has tried all that it began with.  Only a candidate it dropped *)
(* meanwhile, or one that came in below another, may spoil this: the rest   *)
(* moves a position under the pivot, and a live one may be passed over.     *)
TriedAll ==
  phase = "fallback" /\ ordered /\ listed \subseteq ns.func_to_ids[func] =>
    listed \subseteq duplicates
==============================================================================
