--------------------------- MODULE NameServiceProofs ---------------------------
(***************************************************************************)
(* What the operations of NameService do to one directory, for every set   *)
(* of names, functions and every number of ids.                            *)
(***************************************************************************)
EXTENDS NameService, FiniteSetTheorems, TLAPS

-----------------------------------------------------------------------------
(* Types. *)

(* The entries the operations append are log entries. *)
LEMMA EntryTypes ==
  ASSUME NEW id \in Id
  PROVE  /\ KillNode(id) \in LogEntry
         /\ \A name \in Name : NewNode(id, name) \in LogEntry
         /\ \A func \in Func : NewFunc(id, func) \in LogEntry
BY DEF KillNode, NewNode, NewFunc, LogEntry

(* register_name keeps a directory a directory. *)
LEMMA RegisterNameType ==
  ASSUME NEW d \in Directories, NEW id \in Id, NEW name \in Name
  PROVE  RegisterName(d, id, name) \in Directories
<1> DEFINE names == IF d.id_to_name[id] = NoName
                    THEN [d.id_to_name EXCEPT ![id] = name] ELSE d.id_to_name
           ids == IF d.name_to_id[name] = NoId
                  THEN [d.name_to_id EXCEPT ![name] = id] ELSE d.name_to_id
           logs == Append(d.logs, NewNode(id, name))
<1>1. NewNode(id, name) \in LogEntry
  BY EntryTypes
<1>2. /\ logs \in Seq(LogEntry)
      /\ names \in [Id -> Name \cup {NoName}]
      /\ ids \in [Name -> Id \cup {NoId}]
  BY <1>1 DEF Directories
<1>3. RegisterName(d, id, name) =
        [d EXCEPT !.id_to_name = names, !.name_to_id = ids, !.logs = logs]
  BY DEF RegisterName
<1> HIDE DEF names, ids, logs
<1> QED
  BY <1>2, <1>3 DEF Directories

(* kill keeps a directory a directory. *)
LEMMA KillType ==
  ASSUME NEW d \in Directories, NEW id \in Id
  PROVE  Kill(d, id) \in Directories
<1> DEFINE names == [d.id_to_name EXCEPT ![id] = NoName]
           ids == [d.name_to_id EXCEPT ![d.id_to_name[id]] = NoId]
           logs == Append(d.logs, KillNode(id))
<1>1. KillNode(id) \in LogEntry
  BY EntryTypes
<1>2. /\ logs \in Seq(LogEntry)
      /\ names \in [Id -> Name \cup {NoName}]
      /\ ids \in [Name -> Id \cup {NoId}]
  <2>1. /\ d.logs \in Seq(LogEntry)
        /\ d.id_to_name \in [Id -> Name \cup {NoName}]
        /\ d.name_to_id \in [Name -> Id \cup {NoId}]
    BY DEF Directories
  <2>2. logs \in Seq(LogEntry)
    BY <1>1, <2>1
  <2>3. names \in [Id -> Name \cup {NoName}]
    BY <2>1
  <2>4. ids \in [Name -> Id \cup {NoId}]
    BY <2>1
  <2> QED
    BY <2>2, <2>3, <2>4
<1>3. Kill(d, id) =
        [d EXCEPT !.name_to_id = ids, !.id_to_name = names, !.logs = logs]
  BY DEF Kill
<1> HIDE DEF names, ids, logs
<1> QED
  BY <1>2, <1>3 DEF Directories

(* register_fn keeps a directory a directory. *)
LEMMA RegisterFnType ==
  ASSUME NEW d \in Directories, NEW id \in Id, NEW func \in Func
  PROVE  RegisterFn(d, id, func) \in Directories
<1> DEFINE funcs == [d.func_to_ids EXCEPT ![func] = d.func_to_ids[func] \cup {id}]
           logs == Append(d.logs, NewFunc(id, func))
<1>1. NewFunc(id, func) \in LogEntry
  BY EntryTypes
<1>2. d.func_to_ids \in [Func -> SUBSET Id] /\ logs \in Seq(LogEntry)
  BY <1>1 DEF Directories
<1>3. funcs \in [Func -> SUBSET Id]
  <2>1. d.func_to_ids[func] \cup {id} \in SUBSET Id
    BY <1>2
  <2> QED
    BY <1>2, <2>1
<1>4. RegisterFn(d, id, func) = [d EXCEPT !.func_to_ids = funcs, !.logs = logs]
  BY DEF RegisterFn
<1> HIDE DEF funcs, logs
<1> QED
  BY <1>2, <1>3, <1>4 DEF Directories

(* The two changes suggest makes keep a directory a directory. *)
LEMMA EraseCandidateType ==
  ASSUME NEW d \in Directories, NEW func \in Func, NEW id \in Id
  PROVE  EraseCandidate(d, func, id) \in Directories
<1> DEFINE funcs == [d.func_to_ids EXCEPT ![func] = d.func_to_ids[func] \ {id}]
<1>1. d.func_to_ids \in [Func -> SUBSET Id]
  BY DEF Directories
<1>2. funcs \in [Func -> SUBSET Id]
  <2>1. d.func_to_ids[func] \ {id} \in SUBSET Id
    BY <1>1
  <2> QED
    BY <1>1, <2>1
<1>3. EraseCandidate(d, func, id) = [d EXCEPT !.func_to_ids = funcs]
  BY DEF EraseCandidate
<1> HIDE DEF funcs
<1> QED
  BY <1>2, <1>3 DEF Directories

(* Advancing the pivot keeps a directory a directory. *)
LEMMA MovePivotType ==
  ASSUME NEW d \in Directories, NEW func \in Func, NEW next \in 0 .. MaxId
  PROVE  MovePivot(d, func, next) \in Directories
BY DEF MovePivot, Directories

(* apply_logs keeps a directory a directory. *)
LEMMA ApplyItemType ==
  ASSUME NEW d \in Directories, NEW item \in LogItem
  PROVE  ApplyItem(d, item) \in Directories
<1> DEFINE e == item.entry
<1>1. e \in LogEntry
  BY DEF LogItem
<1>2. CASE e.type = "NEW_NODE"
  <2>1. e.id \in Id /\ e.name \in Name
    BY <1>1, <1>2 DEF LogEntry
  <2> QED
    BY <1>2, <2>1, RegisterNameType DEF ApplyItem, ApplyEntry
<1>3. CASE e.type = "KILL_NODE"
  <2>1. e.id \in Id
    BY <1>1, <1>3 DEF LogEntry
  <2> QED
    BY <1>3, <2>1, KillType DEF ApplyItem, ApplyEntry
<1>4. CASE e.type = "NEW_FUNC"
  <2>1. e.id \in Id /\ e.func \in Func
    BY <1>1, <1>4 DEF LogEntry
  <2> QED
    BY <1>4, <2>1, RegisterFnType DEF ApplyItem, ApplyEntry
<1>5. e.type \in {"NEW_NODE", "KILL_NODE", "NEW_FUNC"}
  BY <1>1 DEF LogEntry
<1> QED
  BY <1>2, <1>3, <1>4, <1>5

(* A delta is a sequence of log items with the versions that follow since,  *)
(* each with the entry the log has at that version.                         *)
LEMMA GetLogsType ==
  ASSUME NEW d \in Directories, NEW since \in Nat
  PROVE  /\ GetLogs(d, since) \in Seq(LogItem)
         /\ \A i \in 1 .. Len(GetLogs(d, since)) :
              /\ GetLogs(d, since)[i].version = since + i
              /\ since + i <= Len(d.logs)
              /\ GetLogs(d, since)[i].entry = d.logs[since + i]
<1> DEFINE num_delta == IF Version(d) <= since THEN 0 ELSE Version(d) - since
           item(i) == [version |-> since + i, entry |-> d.logs[since + i]]
           delta == [i \in 1 .. num_delta |-> item(i)]
<1>1. d.logs \in Seq(LogEntry) /\ Version(d) \in Nat
  BY DEF Directories, Version
<1>2. num_delta \in Nat /\ \A i \in 1 .. num_delta : since + i \in 1 .. Len(d.logs)
  BY <1>1 DEF Version
<1>3. \A i \in 1 .. num_delta : item(i) \in LogItem
  BY <1>1, <1>2 DEF LogItem
<1>4. delta \in Seq(LogItem) /\ Len(delta) = num_delta
  BY <1>2, <1>3
<1>5. GetLogs(d, since) = delta
  BY DEF GetLogs
<1> QED
  BY <1>2, <1>4, <1>5

(* The next position of the pivot is a position of the candidate set. *)
LEMMA NextPivotType ==
  ASSUME NEW d \in Directories, NEW func \in Func, d.func_to_ids[func] # {}
  PROVE  NextPivot(d, func) \in 0 .. MaxId
<1> DEFINE ids == d.func_to_ids[func]
<1>1. ids \subseteq Id /\ d.pivot[func] \in Nat /\ MaxId \in Nat
  BY NameServiceAssumption DEF Directories
<1>2. IsFiniteSet(Id) /\ Cardinality(Id) = MaxId
  BY SMTT(30), <1>1, FS_Interval DEF Id
<1>3. IsFiniteSet(ids) /\ Cardinality(ids) <= MaxId
  BY <1>1, <1>2, FS_Subset
<1>4. Cardinality(ids) \in Nat /\ Cardinality(ids) # 0
  BY <1>3, FS_CardinalityType, FS_EmptySet
<1> HIDE DEF ids
<1>5. (d.pivot[func] + 1) % Cardinality(ids) \in 0 .. Cardinality(ids) - 1
  BY <1>1, <1>4
<1> QED
  BY <1>1, <1>3, <1>4, <1>5 DEF NextPivot, ids

-----------------------------------------------------------------------------
(* Names.  The operations are described by their effect on the log and on   *)
(* the two maps; the lemmas after these need no more than that.             *)

(* Entries of different kinds, or with different fields, differ. *)
LEMMA EntriesDiffer ==
  ASSUME NEW i \in Id, NEW j \in Id
  PROVE  /\ KillNode(i) = KillNode(j) => i = j
         /\ \A m \in Name, n \in Name :
              /\ NewNode(i, m) = NewNode(j, n) => i = j /\ m = n
              /\ NewNode(i, m) # KillNode(j)
         /\ \A f \in Func : /\ NewFunc(i, f) # KillNode(j)
                            /\ \A n \in Name : NewFunc(i, f) # NewNode(j, n)
BY DEF KillNode, NewNode, NewFunc

(* An entry appended to a log is the one entry more it has. *)
LEMMA EntriesAppend ==
  ASSUME NEW log \in Seq(LogEntry), NEW e \in LogEntry
  PROVE  Entries(Append(log, e)) = Entries(log) \cup {e}
<1>1. Len(Append(log, e)) = Len(log) + 1
  OBVIOUS
<1>2. \A k \in 1 .. Len(log) : Append(log, e)[k] = log[k]
  OBVIOUS
<1>3. Append(log, e)[Len(log) + 1] = e
  OBVIOUS
<1> QED
  BY <1>1, <1>2, <1>3 DEF Entries

(* register_name_helper always logs. *)
LEMMA RegisterNameLog ==
  ASSUME NEW d \in Directories, NEW id \in Id, NEW name \in Name
  PROVE  RegisterName(d, id, name).logs = Append(d.logs, NewNode(id, name))
BY DEF RegisterName, Directories

(* For a new id and a free address the two inserts take effect. *)
LEMMA RegisterNameEffect ==
  ASSUME NEW d \in Directories, NEW id \in Id, NEW name \in Name,
         d.id_to_name[id] = NoName, d.name_to_id[name] = NoId
  PROVE  /\ RegisterName(d, id, name).id_to_name = [d.id_to_name EXCEPT ![id] = name]
         /\ RegisterName(d, id, name).name_to_id = [d.name_to_id EXCEPT ![name] = id]
BY DEF RegisterName, Directories

(* kill_helper logs, and erases the pair from both maps. *)
LEMMA KillEffect ==
  ASSUME NEW d \in Directories, NEW id \in Id
  PROVE  /\ Kill(d, id).logs = Append(d.logs, KillNode(id))
         /\ Kill(d, id).id_to_name = [d.id_to_name EXCEPT ![id] = NoName]
         /\ Kill(d, id).name_to_id = [d.name_to_id EXCEPT ![d.id_to_name[id]] = NoId]
BY DEF Kill, Directories

(* register_fn_helper logs and leaves the names alone. *)
LEMMA RegisterFnEffect ==
  ASSUME NEW d \in Directories, NEW id \in Id, NEW func \in Func
  PROVE  /\ RegisterFn(d, id, func).logs = Append(d.logs, NewFunc(id, func))
         /\ RegisterFn(d, id, func).id_to_name = d.id_to_name
         /\ RegisterFn(d, id, func).name_to_id = d.name_to_id
BY DEF RegisterFn, Directories

(* suggest_helper logs nothing but a kill, and moves no name otherwise. *)
LEMMA SuggestEffect ==
  ASSUME NEW d \in Directories, NEW id \in Id, NEW func \in Func, NEW next
  PROVE  /\ EraseCandidate(d, func, id).logs = d.logs
         /\ EraseCandidate(d, func, id).id_to_name = d.id_to_name
         /\ EraseCandidate(d, func, id).name_to_id = d.name_to_id
         /\ MovePivot(d, func, next).logs = d.logs
         /\ MovePivot(d, func, next).id_to_name = d.id_to_name
         /\ MovePivot(d, func, next).name_to_id = d.name_to_id
BY DEF EraseCandidate, MovePivot, Directories

(* A directory that follows its log, and a legal entry: what the maps say. *)
LEMMA LegalNewNode ==
  ASSUME NEW d \in Directories, NEW id \in Id, NEW name \in Name, Follows(d),
         Legal(Entries(d.logs), NewNode(id, name))
  PROVE  d.id_to_name[id] = NoName /\ d.name_to_id[name] = NoId
<1>1. /\ d.id_to_name[id] \in Name \cup {NoName}
      /\ d.name_to_id[name] \in Id \cup {NoId}
  BY DEF Directories
<1>2. /\ \A n \in Name : NewNode(id, n) \notin Entries(d.logs)
      /\ \A i \in Id : ~Named(Entries(d.logs), i, name)
  BY DEF Legal, NewNode
<1>3. d.id_to_name[id] \notin Name
  BY <1>2 DEF Follows, Named
<1>4. d.name_to_id[name] \notin Id
  BY <1>2 DEF Follows
<1> QED
  BY <1>1, <1>3, <1>4

(* To kill is legal exactly while the id has a name. *)
LEMMA LegalKillNode ==
  ASSUME NEW d \in Directories, NEW id \in Id, Follows(d)
  PROVE  Legal(Entries(d.logs), KillNode(id)) <=> d.id_to_name[id] # NoName
<1>1. d.id_to_name[id] \in Name \cup {NoName}
  BY DEF Directories
<1>2. Legal(Entries(d.logs), KillNode(id))
        <=> \E name \in Name : Named(Entries(d.logs), id, name)
  BY DEF Legal, KillNode
<1>3. \A name \in Name :
        d.id_to_name[id] = name <=> Named(Entries(d.logs), id, name)
  BY DEF Follows
<1> QED
  BY <1>1, <1>2, <1>3, NameServiceAssumption

(* register_name of a legal entry keeps a directory what its log says. *)
LEMMA RegisterNameFollows ==
  ASSUME NEW d \in Directories, NEW id \in Id, NEW name \in Name, Follows(d),
         Legal(Entries(d.logs), NewNode(id, name))
  PROVE  Follows(RegisterName(d, id, name))
<1> DEFINE r == RegisterName(d, id, name)
           E == Entries(d.logs)
<1>1. d.id_to_name[id] = NoName /\ d.name_to_id[name] = NoId
  BY LegalNewNode
<1>2. /\ r.logs = Append(d.logs, NewNode(id, name))
      /\ r.id_to_name = [d.id_to_name EXCEPT ![id] = name]
      /\ r.name_to_id = [d.name_to_id EXCEPT ![name] = id]
  <2>1. r.logs = Append(d.logs, NewNode(id, name))
    BY RegisterNameLog
  <2>2. /\ r.id_to_name = [d.id_to_name EXCEPT ![id] = name]
        /\ r.name_to_id = [d.name_to_id EXCEPT ![name] = id]
    BY <1>1, RegisterNameEffect
  <2> QED
    BY <2>1, <2>2
<1>3. Entries(r.logs) = E \cup {NewNode(id, name)}
  BY <1>2, EntryTypes, EntriesAppend DEF Directories
<1>4. /\ KillNode(id) \notin E
      /\ \A n \in Name : NewNode(id, n) \notin E
  BY DEF Legal, NewNode
<1>5. /\ d.id_to_name \in [Id -> Name \cup {NoName}]
      /\ d.name_to_id \in [Name -> Id \cup {NoId}]
  BY DEF Directories
<1>6. ASSUME NEW i \in Id, NEW n \in Name
      PROVE  /\ r.id_to_name[i] = n <=> Named(Entries(r.logs), i, n)
             /\ r.name_to_id[n] = i <=> r.id_to_name[i] = n
  <2>1. /\ d.id_to_name[i] = n <=> Named(E, i, n)
        /\ d.name_to_id[n] = i <=> d.id_to_name[i] = n
    BY DEF Follows
  <2>2. d.id_to_name[i] = name => d.name_to_id[name] = i
    BY DEF Follows
  <2>3. NoName \notin Name /\ NoId \notin Id
    BY NameServiceAssumption DEF NoId, Id
  <2>4. r.id_to_name[i] = IF i = id THEN name ELSE d.id_to_name[i]
    BY <1>2, <1>5
  <2>5. r.name_to_id[n] = IF n = name THEN id ELSE d.name_to_id[n]
    BY <1>2, <1>5
  <2>6. Named(Entries(r.logs), i, n)
          <=> Named(E, i, n) \/ (i = id /\ n = name)
    BY <1>3, <1>4, EntriesDiffer DEF Named
  <2>7. i = id => ~Named(E, i, n)
    BY <1>4 DEF Named
  <2>8. r.id_to_name[i] = n <=> Named(Entries(r.logs), i, n)
    BY <2>1, <2>4, <2>6, <2>7
  <2>9. r.name_to_id[n] = i <=> r.id_to_name[i] = n
    BY <1>1, <2>1, <2>2, <2>3, <2>4, <2>5
  <2> QED
    BY <2>8, <2>9
<1> QED
  BY <1>6 DEF Follows

(* So does kill of an id that is in the directory. *)
LEMMA KillFollows ==
  ASSUME NEW d \in Directories, NEW id \in Id, Follows(d),
         d.id_to_name[id] # NoName
  PROVE  Follows(Kill(d, id))
<1> DEFINE r == Kill(d, id)
           E == Entries(d.logs)
<1>1. /\ d.id_to_name \in [Id -> Name \cup {NoName}]
      /\ d.name_to_id \in [Name -> Id \cup {NoId}]
  BY DEF Directories
<1>2. /\ r.logs = Append(d.logs, KillNode(id))
      /\ r.id_to_name = [d.id_to_name EXCEPT ![id] = NoName]
      /\ r.name_to_id = [d.name_to_id EXCEPT ![d.id_to_name[id]] = NoId]
  BY KillEffect
<1>3. Entries(r.logs) = E \cup {KillNode(id)}
  BY <1>2, EntryTypes, EntriesAppend DEF Directories
<1>4. NoName \notin Name /\ NoId \notin Id
  BY NameServiceAssumption DEF NoId, Id
<1>5. ASSUME NEW i \in Id, NEW n \in Name
      PROVE  /\ r.id_to_name[i] = n <=> Named(Entries(r.logs), i, n)
             /\ r.name_to_id[n] = i <=> r.id_to_name[i] = n
  <2>1. /\ d.id_to_name[i] = n <=> Named(E, i, n)
        /\ d.name_to_id[n] = i <=> d.id_to_name[i] = n
        /\ d.name_to_id[n] = id <=> d.id_to_name[id] = n
    BY DEF Follows
  <2>2. r.id_to_name[i] = IF i = id THEN NoName ELSE d.id_to_name[i]
    BY <1>1, <1>2
  <2>3. r.name_to_id[n] = IF n = d.id_to_name[id] THEN NoId ELSE d.name_to_id[n]
    BY <1>1, <1>2
  <2>4. Named(Entries(r.logs), i, n) <=> Named(E, i, n) /\ i # id
    BY <1>3, EntriesDiffer DEF Named
  <2>5. r.id_to_name[i] = n <=> Named(Entries(r.logs), i, n)
    BY <1>4, <2>1, <2>2, <2>4
  <2>6. r.name_to_id[n] = i <=> r.id_to_name[i] = n
    BY <1>4, <2>1, <2>2, <2>3
  <2> QED
    BY <2>5, <2>6
<1> QED
  BY <1>5 DEF Follows

(* A directory with the names of d, and a log that says the same of names. *)
LEMMA SameNamesFollow ==
  ASSUME NEW d \in Directories, NEW r, Follows(d),
         r.id_to_name = d.id_to_name, r.name_to_id = d.name_to_id,
         \A id \in Id, name \in Name :
           Named(Entries(r.logs), id, name) <=> Named(Entries(d.logs), id, name)
  PROVE  Follows(r)
BY DEF Follows

(* register_fn changes nothing a log says of names. *)
LEMMA RegisterFnFollows ==
  ASSUME NEW d \in Directories, NEW id \in Id, NEW func \in Func, Follows(d)
  PROVE  Follows(RegisterFn(d, id, func))
<1>1. Entries(RegisterFn(d, id, func).logs) = Entries(d.logs) \cup {NewFunc(id, func)}
  <2>1. d.logs \in Seq(LogEntry) /\ NewFunc(id, func) \in LogEntry
    BY EntryTypes DEF Directories
  <2>2. RegisterFn(d, id, func).logs = Append(d.logs, NewFunc(id, func))
    BY RegisterFnEffect
  <2> QED
    BY <2>1, <2>2, EntriesAppend
<1>2. \A i \in Id, n \in Name :
        Named(Entries(RegisterFn(d, id, func).logs), i, n)
          <=> Named(Entries(d.logs), i, n)
  BY <1>1, EntriesDiffer DEF Named
<1> QED
  BY <1>2, RegisterFnEffect, SameNamesFollow

(* Nor do the changes suggest makes. *)
LEMMA SuggestFollows ==
  ASSUME NEW d \in Directories, NEW id \in Id, NEW func \in Func, NEW next,
         Follows(d)
  PROVE  /\ Follows(EraseCandidate(d, func, id))
         /\ Follows(MovePivot(d, func, next))
BY SuggestEffect, SameNamesFollow

-----------------------------------------------------------------------------
(* Logs. *)

(* A prefix has the entries before its end. *)
LEMMA PrefixEntries ==
  ASSUME NEW l \in Seq(LogEntry), NEW m \in Seq(LogEntry), Prefix(l, m)
  PROVE  l = SubSeq(m, 1, Len(l)) /\ Entries(SubSeq(m, 1, Len(l))) = Entries(l)
<1>1. Len(l) \in Nat /\ Len(m) \in Nat /\ Len(l) <= Len(m)
  BY DEF Prefix
<1>2. \A k \in 1 .. Len(l) : l[k] = m[k]
  BY DEF Prefix
<1>3. SubSeq(m, 1, Len(l)) \in Seq(LogEntry) /\ Len(SubSeq(m, 1, Len(l))) = Len(l)
  BY <1>1
<1>4. \A k \in 1 .. Len(l) : SubSeq(m, 1, Len(l))[k] = l[k]
  BY <1>1, <1>2
<1>5. l = SubSeq(m, 1, Len(l))
  BY <1>3, <1>4
<1> QED
  BY <1>5

(* A prefix stays one when the longer log grows. *)
LEMMA PrefixAppend ==
  ASSUME NEW l \in Seq(LogEntry), NEW m \in Seq(LogEntry), NEW e \in LogEntry,
         Prefix(l, m)
  PROVE  Prefix(l, Append(m, e))
BY DEF Prefix

(* Appending a legal entry keeps a log well-formed. *)
LEMMA WellFormedAppend ==
  ASSUME NEW log \in Seq(LogEntry), NEW e \in LogEntry,
         WellFormed(log), Legal(Entries(log), e)
  PROVE  WellFormed(Append(log, e))
<1> DEFINE new == Append(log, e)
<1>1. /\ Len(new) = Len(log) + 1 /\ Len(log) \in Nat
      /\ \A k \in 1 .. Len(log) : new[k] = log[k]
      /\ new[Len(log) + 1] = e
  OBVIOUS
<1>2. \A k \in 1 .. Len(new) : SubSeq(new, 1, k - 1) = SubSeq(log, 1, k - 1)
  <2> TAKE k \in 1 .. Len(new)
  <2>1. k - 1 \in 0 .. Len(log)
    BY <1>1
  <2>2. \A i \in 1 .. k - 1 : new[i] = log[i]
    BY <1>1, <2>1
  <2> QED
    BY <1>1, <2>1, <2>2
<1>3. SubSeq(log, 1, Len(log)) = log
  BY <1>1
<1>4. ASSUME NEW k \in 1 .. Len(new)
      PROVE  Legal(Entries(SubSeq(new, 1, k - 1)), new[k])
  <2>1. CASE k \in 1 .. Len(log)
    <3>1. Legal(Entries(SubSeq(log, 1, k - 1)), log[k])
      BY <2>1 DEF WellFormed
    <3>2. new[k] = log[k] /\ SubSeq(new, 1, k - 1) = SubSeq(log, 1, k - 1)
      BY <1>1, <1>2, <2>1
    <3> QED
      BY <3>1, <3>2
  <2>2. CASE k = Len(log) + 1
    <3>1. k - 1 = Len(log) /\ SubSeq(new, 1, k - 1) = SubSeq(log, 1, k - 1)
      BY <1>1, <1>2, <2>2
    <3> QED
      BY <1>1, <1>3, <2>2, <3>1
  <2> QED
    BY <1>1, <2>1, <2>2
<1> QED
  BY <1>4 DEF WellFormed

(* An item of a delta that is not too new for a directory. *)
Fits(d, log, item) ==
  /\ item \in LogItem
  /\ item.version \in 1 .. Len(log)
  /\ item.version <= Len(d.logs) + 1
  /\ item.entry = log[item.version]

(* apply_logs: a replica that has a prefix of a well-formed log, and follows *)
(* it, has a prefix again after an item that fits, follows it, runs into no *)
(* assertion, and has the version of the item.                              *)
LEMMA ApplyItemFollows ==
  ASSUME NEW d \in Directories, NEW log \in Seq(LogEntry), NEW item,
         Follows(d), WellFormed(log), Prefix(d.logs, log), Fits(d, log, item)
  PROVE  LET r == ApplyItem(d, item) IN
         /\ Follows(r)
         /\ ItemAsserts(d, item)
         /\ \/ r = d
            \/ /\ Len(d.logs) < Len(log)
               /\ r.logs = Append(d.logs, log[Len(d.logs) + 1])
         /\ Prefix(r.logs, log)
         /\ item.version <= Len(r.logs) /\ Len(d.logs) <= Len(r.logs)
<1> DEFINE r == ApplyItem(d, item)
           e == item.entry
           E == Entries(d.logs)
<1>1. /\ d.logs \in Seq(LogEntry) /\ Len(d.logs) \in Nat /\ Len(log) \in Nat
      /\ item.version \in Nat
  BY DEF Directories, Fits
<1>2. CASE item.version <= Len(d.logs)
  <2>1. r = d
    BY <1>2 DEF ApplyItem, Version
  <2>2. ItemAsserts(d, item)
    BY <1>1, <1>2 DEF ItemAsserts, Version
  <2> QED
    BY <1>1, <1>2, <2>1, <2>2
<1>3. CASE item.version > Len(d.logs)
  <2>1. item.version = Len(d.logs) + 1 /\ Len(d.logs) < Len(log)
    BY <1>1, <1>3 DEF Fits
  <2>2. e \in LogEntry /\ e = log[Len(d.logs) + 1]
    BY <2>1 DEF Fits, LogItem
  <2>3. Legal(E, e)
    <3>1. Len(d.logs) + 1 \in 1 .. Len(log)
      BY <1>1, <2>1
    <3>2. Legal(Entries(SubSeq(log, 1, Len(d.logs) + 1 - 1)), log[Len(d.logs) + 1])
      BY <3>1 DEF WellFormed
    <3>3. Len(d.logs) + 1 - 1 = Len(d.logs)
      BY <1>1
    <3> QED
      BY <1>1, <2>2, <3>2, <3>3, PrefixEntries
  <2>4. r = ApplyEntry(d, e)
    BY <1>1, <1>3 DEF ApplyItem, Version
  <2>5. /\ Follows(r)
        /\ r.logs = Append(d.logs, e)
        /\ e.type = "NEW_NODE" => d.name_to_id[e.name] = NoId
        /\ e.type = "KILL_NODE" => d.id_to_name[e.id] # NoName
    <3>1. CASE e.type = "NEW_NODE"
      <4>1. PICK id \in Id, name \in Name : e = NewNode(id, name)
        BY <2>2, <3>1 DEF LogEntry, NewNode
      <4>2. e.id = id /\ e.name = name
        BY <4>1 DEF NewNode
      <4>3. r = RegisterName(d, id, name)
        BY <2>4, <3>1, <4>2 DEF ApplyEntry
      <4>4. Legal(E, NewNode(id, name))
        BY <2>3, <4>1
      <4>5. d.id_to_name[id] = NoName /\ d.name_to_id[name] = NoId
        BY <4>4, LegalNewNode
      <4>6. Follows(r)
        BY <4>3, <4>4, RegisterNameFollows
      <4>7. r.logs = Append(d.logs, e)
        <5>1. RegisterName(d, id, name).logs = Append(d.logs, NewNode(id, name))
          BY RegisterNameLog
        <5> QED
          BY <4>1, <4>3, <5>1
      <4> QED
        BY <3>1, <4>2, <4>5, <4>6, <4>7
    <3>2. CASE e.type = "KILL_NODE"
      <4>1. PICK id \in Id : e = KillNode(id)
        BY <2>2, <3>2 DEF LogEntry, KillNode
      <4>2. e.id = id
        BY <4>1 DEF KillNode
      <4>3. r = Kill(d, id)
        BY <2>4, <3>2, <4>2 DEF ApplyEntry
      <4>4. d.id_to_name[id] # NoName
        BY <2>3, <4>1, LegalKillNode
      <4>5. Follows(r)
        BY <4>3, <4>4, KillFollows
      <4>6. r.logs = Append(d.logs, e)
        BY <4>1, <4>3, KillEffect
      <4> QED
        BY <3>2, <4>2, <4>4, <4>5, <4>6
    <3>3. CASE e.type = "NEW_FUNC"
      <4>1. e.id \in Id /\ e.func \in Func /\ e = NewFunc(e.id, e.func)
        BY <2>2, <3>3 DEF LogEntry, NewFunc
      <4>2. r = RegisterFn(d, e.id, e.func)
        BY <2>4, <3>3 DEF ApplyEntry
      <4> QED
        BY <3>3, <4>1, <4>2, RegisterFnFollows, RegisterFnEffect
    <3> QED
      BY <2>2, <3>1, <3>2, <3>3 DEF LogEntry
  <2>6. ItemAsserts(d, item)
    BY <2>1, <2>5 DEF ItemAsserts, Version
  <2>7. Len(r.logs) = Len(d.logs) + 1 /\ Prefix(r.logs, log)
    <3>1. /\ Len(r.logs) = Len(d.logs) + 1
          /\ \A k \in 1 .. Len(d.logs) : r.logs[k] = d.logs[k]
          /\ r.logs[Len(d.logs) + 1] = log[Len(d.logs) + 1]
      BY <1>1, <2>2, <2>5
    <3>2. \A k \in 1 .. Len(d.logs) : d.logs[k] = log[k]
      BY DEF Prefix
    <3> QED
      BY SMTT(30), <1>1, <2>1, <3>1, <3>2 DEF Prefix
  <2> QED
    BY <1>1, <2>1, <2>2, <2>5, <2>6, <2>7
<1> QED
  BY <1>1, <1>2, <1>3

-----------------------------------------------------------------------------
(* What the binder writes, and what it sends. *)

(* delta is the part of a log that follows version since. *)
Slice(delta, since, log) ==
  \A i \in 1 .. Len(delta) : /\ delta[i].version = since + i
                             /\ since + i <= Len(log)
                             /\ delta[i].entry = log[since + i]

(* No entry names or kills an id from next on. *)
Fresh(log, next) ==
  \A id \in Id :
    next <= id => /\ KillNode(id) \notin Entries(log)
                  /\ \A name \in Name : NewNode(id, name) \notin Entries(log)

(* d is the binder's directory, e what a handler makes of it. *)
Writes(d, e) ==
  /\ e \in Directories
  /\ Follows(e)
  /\ WellFormed(e.logs)
  /\ Prefix(d.logs, e.logs)

(* kill of a known id writes a legal entry, and takes no fresh id. *)
LEMMA KillWrites ==
  ASSUME NEW d \in Directories, NEW id \in Id, NEW next \in Nat,
         Follows(d), WellFormed(d.logs), Fresh(d.logs, next), d.id_to_name[id] # NoName
  PROVE  Writes(d, Kill(d, id)) /\ Fresh(Kill(d, id).logs, next)
<1>1. d.logs \in Seq(LogEntry) /\ KillNode(id) \in LogEntry
  BY EntryTypes DEF Directories
<1>2. Kill(d, id).logs = Append(d.logs, KillNode(id))
  BY KillEffect
<1>3. Legal(Entries(d.logs), KillNode(id))
  BY LegalKillNode
<1>4. WellFormed(Append(d.logs, KillNode(id)))
  BY <1>1, <1>3, WellFormedAppend
<1>5. Prefix(d.logs, Append(d.logs, KillNode(id)))
  BY <1>1 DEF Prefix
<1>6. ~(next <= id)
  <2>1. PICK name \in Name : NewNode(id, name) \in Entries(d.logs)
    BY <1>3 DEF Legal, KillNode, Named
  <2> QED
    BY <2>1 DEF Fresh
<1>7. Fresh(Append(d.logs, KillNode(id)), next)
  BY <1>1, <1>6, EntriesAppend, EntriesDiffer DEF Fresh
<1> QED
  BY <1>2, <1>4, <1>5, <1>7, KillType, KillFollows DEF Writes

(* register_name of a fresh id at a free address writes a legal entry. *)
LEMMA RegisterNameWrites ==
  ASSUME NEW d \in Directories, NEW id \in Id, NEW name \in Name,
         Follows(d), WellFormed(d.logs), Fresh(d.logs, id), d.name_to_id[name] = NoId
  PROVE  /\ Writes(d, RegisterName(d, id, name))
         /\ Fresh(RegisterName(d, id, name).logs, id + 1)
<1> DEFINE e == NewNode(id, name)
           E == Entries(d.logs)
<1>1. d.logs \in Seq(LogEntry) /\ e \in LogEntry
  BY EntryTypes DEF Directories
<1>2. RegisterName(d, id, name).logs = Append(d.logs, e)
  BY RegisterNameLog
<1>3. id \in Nat /\ \A i \in Id : i \in Nat
  BY NameServiceAssumption DEF Id
<1>4. Legal(E, e)
  <2>1. KillNode(id) \notin E /\ \A n \in Name : NewNode(id, n) \notin E
    BY <1>3 DEF Fresh
  <2>2. \A i \in Id : ~Named(E, i, name)
    BY NameServiceAssumption DEF Follows, NoId, Id
  <2> QED
    BY <2>1, <2>2 DEF Legal, NewNode
<1>5. WellFormed(Append(d.logs, e))
  BY <1>1, <1>4, WellFormedAppend
<1>6. Prefix(d.logs, Append(d.logs, e))
  BY <1>1 DEF Prefix
<1>7. Fresh(Append(d.logs, e), id + 1)
  <2> SUFFICES ASSUME NEW i \in Id, id + 1 <= i
               PROVE  /\ KillNode(i) \notin Entries(Append(d.logs, e))
                      /\ \A n \in Name : NewNode(i, n) \notin Entries(Append(d.logs, e))
    BY DEF Fresh
  <2>1. id <= i /\ i # id
    BY <1>3
  <2>2. KillNode(i) \notin E /\ \A n \in Name : NewNode(i, n) \notin E
    BY <2>1 DEF Fresh
  <2> QED
    BY <1>1, <2>1, <2>2, EntriesAppend, EntriesDiffer
<1>8. Follows(RegisterName(d, id, name)) /\ RegisterName(d, id, name) \in Directories
  BY <1>4, RegisterNameFollows, RegisterNameType
<1> HIDE DEF e
<1> QED
  BY <1>2, <1>5, <1>6, <1>7, <1>8 DEF Writes

(* register_fn writes a legal entry. *)
LEMMA RegisterFnWrites ==
  ASSUME NEW d \in Directories, NEW id \in Id, NEW func \in Func, NEW next \in Nat,
         Follows(d), WellFormed(d.logs), Fresh(d.logs, next)
  PROVE  /\ Writes(d, RegisterFn(d, id, func))
         /\ Fresh(RegisterFn(d, id, func).logs, next)
<1> DEFINE e == NewFunc(id, func)
<1>1. d.logs \in Seq(LogEntry) /\ e \in LogEntry
  BY EntryTypes DEF Directories
<1>2. RegisterFn(d, id, func).logs = Append(d.logs, e)
  BY RegisterFnEffect
<1>3. Legal(Entries(d.logs), e)
  BY DEF Legal, NewFunc
<1>4. WellFormed(Append(d.logs, e))
  BY <1>1, <1>3, WellFormedAppend
<1>5. Prefix(d.logs, Append(d.logs, e))
  BY <1>1 DEF Prefix
<1>6. Fresh(Append(d.logs, e), next)
  BY <1>1, EntriesAppend, EntriesDiffer DEF Fresh
<1>7. Follows(RegisterFn(d, id, func)) /\ RegisterFn(d, id, func) \in Directories
  BY RegisterFnFollows, RegisterFnType
<1> HIDE DEF e
<1> QED
  BY <1>2, <1>4, <1>5, <1>6, <1>7 DEF Writes

(* What is written twice is written. *)
LEMMA WritesAgain ==
  ASSUME NEW d \in Directories, NEW e \in Directories, NEW g,
         Writes(d, e), Writes(e, g)
  PROVE  Writes(d, g)
<1>1. Len(d.logs) \in Nat /\ Len(e.logs) \in Nat /\ Len(g.logs) \in Nat
  BY DEF Writes, Directories
<1>2. Prefix(d.logs, g.logs)
  BY <1>1 DEF Writes, Prefix
<1> QED
  BY <1>2 DEF Writes

(* A handler that changes only candidates and pivots writes nothing. *)
LEMMA WritesNothing ==
  ASSUME NEW d \in Directories, NEW e \in Directories,
         Follows(e), WellFormed(d.logs), e.logs = d.logs
  PROVE  Writes(d, e)
<1>1. Len(d.logs) \in Nat
  BY DEF Directories
<1> QED
  BY <1>1 DEF Writes, Prefix
=============================================================================
