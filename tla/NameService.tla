------------------------------ MODULE NameService ------------------------------
(***************************************************************************)
(* The name directory every process of the system holds: class NameService *)
(* of a3/src/name_service.cpp.  A directory is a log, whose length is its  *)
(* version, and the three maps the log entries have built.  This module    *)
(* has the operations that change one directory, as functions from a       *)
(* directory to the next one; all of them run under NameService::mutex in  *)
(* the code.  Module Directory says which process performs which operation *)
(* and when.                                                               *)
(*                                                                         *)
(* Log entries are the records the code serialises; the serialisation      *)
(* itself (push and pop_entry) is left out, since it keeps every field.    *)
(***************************************************************************)
EXTENDS Integers, Sequences, FiniteSets

CONSTANTS Name,    \* addresses (ip, port) a server can listen at
          NoName,  \* no address
          Func,    \* function signatures: operator< ignores array lengths
          MaxId    \* bound: how many ids the binder hands out

ASSUME NameServiceAssumption == NoName \notin Name /\ MaxId \in Nat

Id   == 0 .. MaxId - 1
NoId == -1

(* LogEntry: what register_name_helper, kill_helper and register_fn_helper append. *)
NewNode(id, name) == [type |-> "NEW_NODE", id |-> id, name |-> name]
KillNode(id)      == [type |-> "KILL_NODE", id |-> id]
NewFunc(id, func) == [type |-> "NEW_FUNC", id |-> id, func |-> func]

LogEntry ==
       [type : {"NEW_NODE"}, id : Id, name : Name]
  \cup [type : {"KILL_NODE"}, id : Id]
  \cup [type : {"NEW_FUNC"}, id : Id, func : Func]

(* An item of a log delta: the entry with its version (get_logs). *)
LogItem == [version : Nat \ {0}, entry : LogEntry]

(* The data of the class.  An absent key of a std::map is NoName or NoId. *)
Directories ==
  [logs        : Seq(LogEntry),
   id_to_name  : [Id -> Name \cup {NoName}],
   name_to_id  : [Name -> Id \cup {NoId}],
   func_to_ids : [Func -> SUBSET Id],
   pivot       : [Func -> 0 .. MaxId]]

EmptyNameService ==
  [logs        |-> <<>>,
   id_to_name  |-> [i \in Id |-> NoName],
   name_to_id  |-> [n \in Name |-> NoId],
   func_to_ids |-> [f \in Func |-> {}],
   pivot       |-> [f \in Func |-> 0]]

(* get_version_helper: the log is the version. *)
Version(d) == Len(d.logs)

-----------------------------------------------------------------------------
(* The operations. *)

(* mutant: the log entry is forgotten *)
RegisterNameUnlogged(d, id, name) ==
  [d EXCEPT !.id_to_name = [@ EXCEPT ![id] = name],
            !.name_to_id = [@ EXCEPT ![name] = id]]

(* register_name_helper: std::map::insert leaves an existing key as it is. *)
RegisterName(d, id, name) ==
  [d EXCEPT
     !.id_to_name = IF @[id] = NoName THEN [@ EXCEPT ![id] = name] ELSE @,
     !.name_to_id = IF @[name] = NoId THEN [@ EXCEPT ![name] = id] ELSE @,
     !.logs       = Append(@, NewNode(id, name))]

(* mutant: the reverse entry of the bidirectional map is left behind *)
KillForgetsName(d, id) ==
  [d EXCEPT !.id_to_name = [@ EXCEPT ![id] = NoName],
            !.logs       = Append(@, KillNode(id))]

(* kill_helper: the id keeps its place in func_to_ids, where suggest finds *)
(* it unresolvable and drops it.                                           *)
Kill(d, id) ==
  [d EXCEPT
     !.name_to_id = [@ EXCEPT ![d.id_to_name[id]] = NoId],
     !.id_to_name = [@ EXCEPT ![id] = NoName],
     !.logs       = Append(@, KillNode(id))]

(* register_fn_helper *)
RegisterFn(d, id, func) ==
  [d EXCEPT
     !.func_to_ids = [d.func_to_ids EXCEPT ![func] = d.func_to_ids[func] \cup {id}],
     !.logs        = Append(@, NewFunc(id, func))]

(* mutant: the delta starts one entry too late *)
GetLogsSkipsOne(d, since) ==
  LET num_delta == IF Version(d) <= since + 1 THEN 0 ELSE Version(d) - since - 1
  IN  [i \in 1 .. num_delta |->
         [version |-> since + 1 + i, entry |-> d.logs[since + 1 + i]]]

(* get_logs: the entries after version since, each with its version. *)
GetLogs(d, since) ==
  LET num_delta == IF Version(d) <= since THEN 0 ELSE Version(d) - since
  IN  [i \in 1 .. num_delta |->
         [version |-> since + i, entry |-> d.logs[since + i]]]

(* The switch of apply_logs on the type of an entry. *)
ApplyEntry(d, e) ==
  CASE e.type = "NEW_NODE"  -> RegisterName(d, e.id, e.name)
    [] e.type = "KILL_NODE" -> Kill(d, e.id)
    [] e.type = "NEW_FUNC"  -> RegisterFn(d, e.id, e.func)

(* mutant: an entry this directory already has is applied once more *)
ApplyItemAgain(d, item) == ApplyEntry(d, item.entry)

(* One turn of the loop of apply_logs: versions already here are skipped. *)
ApplyItem(d, item) ==
  IF item.version <= Version(d) THEN d ELSE ApplyEntry(d, item.entry)

(* The assertions the loop runs into for this item: the version check of    *)
(* apply_logs, and those of register_name_helper and kill_helper.           *)
ItemAsserts(d, item) ==
  item.version > Version(d) =>
    /\ item.version = Version(d) + 1
    /\ item.entry.type = "NEW_NODE" => d.name_to_id[item.entry.name] = NoId
    /\ item.entry.type = "KILL_NODE" => d.id_to_name[item.entry.id] # NoName

-----------------------------------------------------------------------------
(* suggest_helper, one turn of its recursion at a time (see Directory). *)

(* The position the pivot moves to, and the ids at a position of the set. *)
NextPivot(d, func) == (d.pivot[func] + 1) % Cardinality(d.func_to_ids[func])

AtPosition(ids, id, k) == Cardinality({j \in ids : j < id}) = k

(* mutant: the candidate is passed over and kept *)
KeepCandidate(d, func, id) == d

EraseCandidate(d, func, id) ==
  [d EXCEPT
     !.func_to_ids = [d.func_to_ids EXCEPT ![func] = d.func_to_ids[func] \ {id}]]

(* mutant: the pivot is advanced without the modulo *)
MovePivotUnwrapped(d, func, next) ==
  [d EXCEPT !.pivot = [@ EXCEPT ![func] = @ + 1]]

(* mutant: the pivot stays where it is *)
StayAtPivot(d, func, next) == d

MovePivot(d, func, next) ==
  [d EXCEPT !.pivot = [@ EXCEPT ![func] = next]]

-----------------------------------------------------------------------------
(* What a log says of the names, as the set of its entries. *)
Entries(log) == {log[k] : k \in 1 .. Len(log)}

Named(entries, id, name) ==
  NewNode(id, name) \in entries /\ KillNode(id) \notin entries

(* The two maps of a directory are what its log says: an id has the name of *)
(* its NEW_NODE entry until a KILL_NODE entry, and that name alone maps     *)
(* back to the id.                                                          *)
Follows(d) ==
  \A id \in Id, name \in Name :
    /\ d.id_to_name[id] = name <=> Named(Entries(d.logs), id, name)
    /\ d.name_to_id[name] = id <=> d.id_to_name[id] = name

(* An entry that may come next in a log: an id is new when it is named, its *)
(* address is free, and an id is named when it is killed.                   *)
Legal(entries, e) ==
  /\ e.type = "NEW_NODE" =>
       /\ KillNode(e.id) \notin entries
       /\ \A name \in Name : NewNode(e.id, name) \notin entries
       /\ \A id \in Id : ~Named(entries, id, e.name)
  /\ e.type = "KILL_NODE" => \E name \in Name : Named(entries, e.id, name)

WellFormed(log) ==
  \A k \in 1 .. Len(log) : Legal(Entries(SubSeq(log, 1, k - 1)), log[k])

Prefix(l, m) == Len(l) <= Len(m) /\ \A k \in 1 .. Len(l) : l[k] = m[k]
==============================================================================
