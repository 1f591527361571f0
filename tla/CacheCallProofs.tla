---------------------------- MODULE CacheCallProofs ----------------------------
(***************************************************************************)
(* Theorems about CacheCall, for any number of ids, addresses, functions   *)
(* and servers.                                                            *)
(***************************************************************************)
EXTENDS CacheCall, NameServiceProofs, TLAPS

-----------------------------------------------------------------------------
(* The invariant.  That a client keeps a running server as a candidate      *)
(* rests on what its log says of the server's name, since suggest drops     *)
(* what has none.                                                           *)

(* A function is registered for an id that has been named before.           *)
Introduced(log) ==
  \A k \in 1 .. Len(log), id \in Id, f \in Func :
    log[k] = NewFunc(id, f) =>
      \E j \in 1 .. k - 1, name \in Name : log[j] = NewNode(id, name)

BinderOK ==
  /\ Follows(binder)
  /\ WellFormed(binder.logs)
  /\ Fresh(binder.logs, next_u32)
  /\ Introduced(binder.logs)

(* A server with an id has been announced under its address, and so has one *)
(* that is to register.                                                     *)
Announced ==
  /\ \A name \in Name : server[name] \in Id =>
       NewNode(server[name], name) \in Entries(binder.logs)
  /\ \A id \in registering : \E name \in Name : NewNode(id, name) \in Entries(binder.logs)

(* What is still to be applied is a part of the binder's log that starts no *)
(* later than the client's log ends.                                        *)
DeltaFits == \E since \in 0 .. Len(ns.logs) : Slice(delta, since, binder.logs)

ClientOK == Follows(ns) /\ CachedLogIsPrefix /\ DeltaFits

(* suggest has returned an id. *)
Suggested == phase = "suggested" => server_id \in Id

Inv == TypeOK /\ Suggested /\ BinderOK /\ Announced /\ ClientOK /\ LiveCandidateKept

-----------------------------------------------------------------------------
(* Logs that introduce their ids. *)

(* An entry for a function may follow the one that names its id.            *)
LEMMA IntroducedAppend ==
  ASSUME NEW log \in Seq(LogEntry), NEW e \in LogEntry, Introduced(log),
         \A id \in Id, f \in Func :
           e = NewFunc(id, f) => \E name \in Name : NewNode(id, name) \in Entries(log)
  PROVE  Introduced(Append(log, e))
<1>1. /\ Len(log) \in Nat /\ Len(Append(log, e)) = Len(log) + 1
      /\ \A k \in 1 .. Len(log) : Append(log, e)[k] = log[k]
      /\ Append(log, e)[Len(log) + 1] = e
  OBVIOUS
<1> DEFINE more == Append(log, e)
<1> HIDE DEF more
<1> SUFFICES ASSUME NEW k \in 1 .. Len(more), NEW id \in Id, NEW f \in Func,
                    more[k] = NewFunc(id, f)
             PROVE  \E j \in 1 .. k - 1, name \in Name : more[j] = NewNode(id, name)
  BY DEF Introduced, more
<1>2. CASE k \in 1 .. Len(log)
  <2>1. PICK j \in 1 .. k - 1, name \in Name : log[j] = NewNode(id, name)
    BY <1>1, <1>2 DEF Introduced, more
  <2>2. j \in 1 .. Len(log)
    BY <1>1, <1>2, <2>1
  <2> QED
    BY <1>1, <2>1, <2>2 DEF more
<1>3. CASE k = Len(log) + 1
  <2>1. PICK name \in Name : NewNode(id, name) \in Entries(log)
    BY <1>1, <1>3 DEF more
  <2>2. PICK j \in 1 .. Len(log) : log[j] = NewNode(id, name)
    BY <2>1 DEF Entries
  <2> QED
    BY <1>1, <1>3, <2>2 DEF more
<1> QED
  BY <1>1, <1>2, <1>3 DEF more

(* What holds of a log holds of a prefix of it. *)
LEMMA IntroducedPrefix ==
  ASSUME NEW l \in Seq(LogEntry), NEW m \in Seq(LogEntry), Prefix(l, m), Introduced(m),
         NEW id \in Id, NEW f \in Func, NewFunc(id, f) \in Entries(l)
  PROVE  \E name \in Name : NewNode(id, name) \in Entries(l)
<1>1. PICK k \in 1 .. Len(l) : l[k] = NewFunc(id, f)
  BY DEF Entries
<1>2. k \in 1 .. Len(m) /\ m[k] = NewFunc(id, f) /\ Len(l) \in Nat
  BY <1>1 DEF Prefix
<1>3. PICK j \in 1 .. k - 1, name \in Name : m[j] = NewNode(id, name)
  BY <1>2 DEF Introduced
<1>4. j \in 1 .. Len(l) /\ l[j] = NewNode(id, name)
  BY <1>1, <1>2, <1>3 DEF Prefix
<1> QED
  BY <1>4 DEF Entries

(* The entries of a prefix are entries. *)
LEMMA PrefixSubset ==
  ASSUME NEW l \in Seq(LogEntry), NEW m \in Seq(LogEntry), Prefix(l, m)
  PROVE  Entries(l) \subseteq Entries(m)
BY DEF Prefix, Entries

(* apply_logs never takes a candidate away, and adds the one an entry names.*)
LEMMA ApplyKeepsCandidates ==
  ASSUME NEW d \in Directories, NEW item \in LogItem, NEW f \in Func, NEW id \in Id
  PROVE  LET r == ApplyItem(d, item) IN
         /\ d.func_to_ids[f] \subseteq r.func_to_ids[f]
         /\ NewFunc(id, f) \in Entries(r.logs) =>
              NewFunc(id, f) \in Entries(d.logs) \/ id \in r.func_to_ids[f]
<1> DEFINE e == item.entry
           r == ApplyItem(d, item)
<1>1. e \in LogEntry /\ d.logs \in Seq(LogEntry) /\ d.func_to_ids \in [Func -> SUBSET Id]
  BY DEF LogItem, Directories
<1>2. CASE r = d
  BY <1>2
<1>3. CASE r = ApplyEntry(d, e) /\ e.type = "NEW_NODE"
  <2>1. e.id \in Id /\ e.name \in Name
    BY <1>1, <1>3 DEF LogEntry
  <2>2. r.logs = Append(d.logs, NewNode(e.id, e.name)) /\ r.func_to_ids = d.func_to_ids
    <3>1. r = RegisterName(d, e.id, e.name)
      BY <1>3 DEF ApplyEntry
    <3>2. RegisterName(d, e.id, e.name).func_to_ids = d.func_to_ids
      BY DEF RegisterName, Directories
    <3> HIDE DEF r
    <3> QED
      BY <2>1, <3>1, <3>2, RegisterNameLog
  <2>3. Entries(r.logs) = Entries(d.logs) \cup {NewNode(e.id, e.name)}
    BY <1>1, <2>1, <2>2, EntryTypes, EntriesAppend
  <2> QED
    BY <2>1, <2>2, <2>3, EntriesDiffer
<1>4. CASE r = ApplyEntry(d, e) /\ e.type = "KILL_NODE"
  <2>1. e.id \in Id
    BY <1>1, <1>4 DEF LogEntry
  <2>2. r.logs = Append(d.logs, KillNode(e.id)) /\ r.func_to_ids = d.func_to_ids
    <3>1. r = Kill(d, e.id)
      BY <1>4 DEF ApplyEntry
    <3>2. Kill(d, e.id).func_to_ids = d.func_to_ids
      BY DEF Kill, Directories
    <3> HIDE DEF r
    <3> QED
      BY <2>1, <3>1, <3>2, KillEffect
  <2>3. Entries(r.logs) = Entries(d.logs) \cup {KillNode(e.id)}
    BY <1>1, <2>1, <2>2, EntryTypes, EntriesAppend
  <2> QED
    BY <2>1, <2>2, <2>3, EntriesDiffer
<1>5. CASE r = ApplyEntry(d, e) /\ e.type = "NEW_FUNC"
  <2>1. e.id \in Id /\ e.func \in Func
    BY <1>1, <1>5 DEF LogEntry
  <2>2. /\ r.logs = Append(d.logs, NewFunc(e.id, e.func))
        /\ r.func_to_ids = [d.func_to_ids EXCEPT ![e.func] = d.func_to_ids[e.func] \cup {e.id}]
    <3>1. r = RegisterFn(d, e.id, e.func)
      BY <1>5 DEF ApplyEntry
    <3>2. RegisterFn(d, e.id, e.func).func_to_ids =
            [d.func_to_ids EXCEPT ![e.func] = d.func_to_ids[e.func] \cup {e.id}]
      BY DEF RegisterFn, Directories
    <3> HIDE DEF r
    <3> QED
      BY <2>1, <3>1, <3>2, RegisterFnEffect
  <2>3. Entries(r.logs) = Entries(d.logs) \cup {NewFunc(e.id, e.func)}
    BY <1>1, <2>1, <2>2, EntryTypes, EntriesAppend
  <2>4. NewFunc(id, f) = NewFunc(e.id, e.func) => id = e.id /\ f = e.func
    BY DEF NewFunc
  <2> HIDE DEF r, e
  <2>5. /\ r.func_to_ids[e.func] = d.func_to_ids[e.func] \cup {e.id}
        /\ f # e.func => r.func_to_ids[f] = d.func_to_ids[f]
    BY <1>1, <2>1, <2>2
  <2>6. /\ d.func_to_ids[f] \subseteq r.func_to_ids[f]
        /\ NewFunc(id, f) \in Entries(r.logs) =>
             NewFunc(id, f) \in Entries(d.logs) \/ id \in r.func_to_ids[f]
    BY <2>3, <2>4, <2>5
  <2> QED
    BY <2>6 DEF r
<1> QED
  BY <1>1, <1>2, <1>3, <1>4, <1>5 DEF LogEntry, ApplyItem

(* apply_logs changes the candidates by one that is new, if at all. *)
LEMMA ApplyCandidates ==
  ASSUME NEW d \in Directories, NEW item \in LogItem, NEW f \in Func
  PROVE  LET r == ApplyItem(d, item) IN
         /\ r.pivot = d.pivot
         /\ Entries(d.logs) \subseteq Entries(r.logs)
         /\ \/ r.func_to_ids[f] = d.func_to_ids[f]
            \/ \E id \in Id : /\ r.func_to_ids[f] = d.func_to_ids[f] \cup {id}
                              /\ r.logs = Append(d.logs, NewFunc(id, f))
<1> DEFINE e == item.entry
           r == ApplyItem(d, item)
<1>1. e \in LogEntry /\ d.logs \in Seq(LogEntry) /\ d.func_to_ids \in [Func -> SUBSET Id]
  BY DEF LogItem, Directories
<1>2. CASE r = d
  BY <1>2
<1>3. CASE r = ApplyEntry(d, e) /\ e.type = "NEW_NODE"
  <2>1. e.id \in Id /\ e.name \in Name
    BY <1>1, <1>3 DEF LogEntry
  <2>2. r = RegisterName(d, e.id, e.name)
    BY <1>3 DEF ApplyEntry
  <2>3. /\ RegisterName(d, e.id, e.name).func_to_ids = d.func_to_ids
        /\ RegisterName(d, e.id, e.name).pivot = d.pivot
    BY DEF RegisterName, Directories
  <2>4. Entries(Append(d.logs, NewNode(e.id, e.name))) = Entries(d.logs) \cup {NewNode(e.id, e.name)}
    BY <1>1, <2>1, EntryTypes, EntriesAppend
  <2> HIDE DEF r, e
  <2>5. r.logs = Append(d.logs, NewNode(e.id, e.name))
    BY <2>1, <2>2, RegisterNameLog
  <2>6. r.pivot = d.pivot /\ r.func_to_ids = d.func_to_ids
    BY <2>2, <2>3
  <2> QED
    BY <2>4, <2>5, <2>6 DEF r
<1>4. CASE r = ApplyEntry(d, e) /\ e.type = "KILL_NODE"
  <2>1. e.id \in Id
    BY <1>1, <1>4 DEF LogEntry
  <2>2. r = Kill(d, e.id)
    BY <1>4 DEF ApplyEntry
  <2>3. /\ Kill(d, e.id).func_to_ids = d.func_to_ids
        /\ Kill(d, e.id).pivot = d.pivot
    BY DEF Kill, Directories
  <2>4. Entries(Append(d.logs, KillNode(e.id))) = Entries(d.logs) \cup {KillNode(e.id)}
    BY <1>1, <2>1, EntryTypes, EntriesAppend
  <2> HIDE DEF r, e
  <2>5. r.logs = Append(d.logs, KillNode(e.id))
    BY <2>1, <2>2, KillEffect
  <2>6. r.pivot = d.pivot /\ r.func_to_ids = d.func_to_ids
    BY <2>2, <2>3
  <2> QED
    BY <2>4, <2>5, <2>6 DEF r
<1>5. CASE r = ApplyEntry(d, e) /\ e.type = "NEW_FUNC"
  <2>1. e.id \in Id /\ e.func \in Func
    BY <1>1, <1>5 DEF LogEntry
  <2>2. r = RegisterFn(d, e.id, e.func)
    BY <1>5 DEF ApplyEntry
  <2>3. /\ RegisterFn(d, e.id, e.func).func_to_ids =
             [d.func_to_ids EXCEPT ![e.func] = d.func_to_ids[e.func] \cup {e.id}]
        /\ RegisterFn(d, e.id, e.func).pivot = d.pivot
    BY DEF RegisterFn, Directories
  <2>4. Entries(Append(d.logs, NewFunc(e.id, e.func))) = Entries(d.logs) \cup {NewFunc(e.id, e.func)}
    BY <1>1, <2>1, EntryTypes, EntriesAppend
  <2>5. r.logs = Append(d.logs, NewFunc(e.id, e.func))
    BY <2>1, <2>2, RegisterFnEffect
  <2> HIDE DEF r, e
  <2>6. /\ f = e.func => r.func_to_ids[f] = d.func_to_ids[f] \cup {e.id}
        /\ f # e.func => r.func_to_ids[f] = d.func_to_ids[f]
        /\ r.pivot = d.pivot
    BY <1>1, <2>1, <2>2, <2>3
  <2>7. Entries(d.logs) \subseteq Entries(r.logs)
    BY <2>4, <2>5
  <2> QED
    BY <2>1, <2>5, <2>6, <2>7 DEF r
<1> QED
  BY <1>1, <1>2, <1>3, <1>4, <1>5 DEF LogEntry, ApplyItem

(* An id has one name for good. *)
LEMMA OneName ==
  ASSUME NEW log \in Seq(LogEntry), WellFormed(log), NEW id \in Id, NEW m \in Name, NEW n \in Name,
         NewNode(id, m) \in Entries(log), NewNode(id, n) \in Entries(log)
  PROVE  m = n
<1>1. PICK j \in 1 .. Len(log), k \in 1 .. Len(log) :
        log[j] = NewNode(id, m) /\ log[k] = NewNode(id, n)
  BY DEF Entries
<1>2. ASSUME NEW a \in 1 .. Len(log), NEW b \in 1 .. Len(log), NEW x \in Name, NEW y \in Name,
             a < b, log[a] = NewNode(id, x), log[b] = NewNode(id, y)
      PROVE  FALSE
  <2> DEFINE before == SubSeq(log, 1, b - 1)
  <2>1. Len(log) \in Nat
    OBVIOUS
  <2>2. Len(before) = b - 1 /\ \A i \in 1 .. b - 1 : before[i] = log[i]
    BY <2>1
  <2> HIDE DEF before
  <2>3. a \in 1 .. b - 1
    BY <1>2, <2>1
  <2>4. NewNode(id, x) \in Entries(before)
    BY <1>2, <2>2, <2>3 DEF Entries
  <2>5. log[b].type = "NEW_NODE" /\ log[b].id = id
    BY <1>2 DEF NewNode
  <2>6. Legal(Entries(before), log[b])
    BY DEF WellFormed, before
  <2> QED
    BY <2>4, <2>5, <2>6 DEF Legal
<1>3. j = k
  <2>1. Len(log) \in Nat /\ j \in Int /\ k \in Int
    OBVIOUS
  <2> QED
    BY <1>1, <1>2, <2>1
<1> QED
  BY <1>1, <1>3 DEF NewNode

-----------------------------------------------------------------------------
(* Servers and the binder. *)

(* The client's part of the invariant outlasts what the binder writes, and  *)
(* a server with a new id.                                                  *)
LEMMA BinderStepKeeps ==
  ASSUME Inv, TypeOK', BinderOK', Announced',
         Prefix(binder.logs, binder'.logs),
         \A name \in Name : server'[name] \in {server[name], next_u32, NoId, Nobody},
         ns' = ns, delta' = delta, phase' = phase, server_id' = server_id
  PROVE  Inv'
<1>1. /\ binder \in Directories /\ ns \in Directories /\ binder' \in Directories
      /\ binder.logs \in Seq(LogEntry) /\ ns.logs \in Seq(LogEntry)
      /\ binder'.logs \in Seq(LogEntry)
      /\ Len(ns.logs) \in Nat /\ Len(binder.logs) \in Nat /\ Len(binder'.logs) \in Nat
  BY DEF Inv, TypeOK, Directories
<1>2. CachedLogIsPrefix'
  <2>1. Prefix(ns.logs, binder.logs)
    BY DEF Inv, ClientOK, CachedLogIsPrefix
  <2>2. Prefix(ns.logs, binder'.logs)
    BY <1>1, <2>1 DEF Prefix
  <2> QED
    BY <2>2 DEF CachedLogIsPrefix
<1>3. DeltaFits'
  <2>1. PICK since \in 0 .. Len(ns.logs) : Slice(delta, since, binder.logs)
    BY DEF Inv, ClientOK, DeltaFits
  <2>2. Slice(delta, since, binder'.logs)
    <3> SUFFICES ASSUME NEW i \in 1 .. Len(delta)
                 PROVE  /\ delta[i].version = since + i
                        /\ since + i <= Len(binder'.logs)
                        /\ delta[i].entry = binder'.logs[since + i]
      BY DEF Slice
    <3>1. delta \in Seq(LogItem)
      BY DEF Inv, TypeOK
    <3>2. /\ delta[i].version = since + i
          /\ since + i <= Len(binder.logs)
          /\ delta[i].entry = binder.logs[since + i]
      BY <2>1 DEF Slice
    <3>3. since + i \in 1 .. Len(binder.logs)
      BY <1>1, <2>1, <3>1, <3>2
    <3> QED
      BY <1>1, <3>2, <3>3 DEF Prefix
  <2> QED
    BY <2>1, <2>2 DEF DeltaFits
<1>4. LiveCandidateKept'
  <2> SUFFICES ASSUME NEW id \in Id, NEW at \in Name, server'[at] = id,
                      NewFunc(id, func) \in Entries(ns.logs),
                      KillNode(id) \notin Entries(ns.logs)
               PROVE  id \in ns.func_to_ids[func]
    BY DEF LiveCandidateKept
  <2>1. id \in Id /\ func \in Func
    BY CacheCallAssumption
  <2>2. id # next_u32
    <3> SUFFICES ASSUME id = next_u32 PROVE FALSE
      OBVIOUS
    <3>1. Prefix(ns.logs, binder.logs) /\ Introduced(binder.logs) /\ Fresh(binder.logs, next_u32)
      BY DEF Inv, ClientOK, CachedLogIsPrefix, BinderOK
    <3>2. PICK name \in Name : NewNode(id, name) \in Entries(ns.logs)
      BY <1>1, <2>1, <3>1, IntroducedPrefix
    <3>3. NewNode(id, name) \in Entries(binder.logs)
      BY <1>1, <3>1, <3>2, PrefixSubset
    <3>4. next_u32 <= id
      BY <2>1 DEF Inv, TypeOK
    <3> QED
      BY <2>1, <3>1, <3>2, <3>3, <3>4 DEF Fresh
  <2>3. server[at] = id
    BY <2>1, <2>2, NameServiceAssumption DEF Id, NoId, Nobody
  <2> QED
    BY <2>3 DEF Inv, LiveCandidateKept
<1> QED
  BY <1>2, <1>3, <1>4 DEF Inv, Suggested, ClientOK

(* The ids handed out are ids. *)
LEMMA NewIdType == ASSUME TypeOK, next_u32 < MaxId PROVE next_u32 \in Id /\ next_u32 + 1 \in 0 .. MaxId
BY NameServiceAssumption DEF TypeOK, Id

(* A server starts to listen. *)
LEMMA StartKeeps == ASSUME Inv, NEW name \in Name, ServerStarts(name) PROVE Inv'
<1>1. /\ server \in [Name -> Id \cup {NoId, Nobody}]
      /\ server' = [server EXCEPT ![name] = NoId]
      /\ UNCHANGED <<binder, next_u32, registering, ns, phase, callVars, server_id, callee, replyVars>>
  BY DEF Inv, TypeOK, ServerStarts, clientVars
<1>2. server' \in [Name -> Id \cup {NoId, Nobody}] /\ NoId \notin Id
  BY <1>1 DEF NoId, Id
<1>3. TypeOK'
  BY <1>1, <1>2 DEF Inv, TypeOK, callVars, replyVars
<1>4. BinderOK' /\ Announced'
  BY <1>1, <1>2 DEF Inv, BinderOK, Announced
<1>5. Prefix(binder.logs, binder'.logs)
  BY <1>1 DEF Inv, TypeOK, Directories, Prefix
<1>6. \A n \in Name : server'[n] \in {server[n], next_u32, NoId, Nobody}
  BY <1>1
<1> QED
  BY <1>1, <1>3, <1>4, <1>5, <1>6, BinderStepKeeps DEF replyVars

(* I_AM_SERVER: the one that had the address is killed, and the entry of    *)
(* its own is legal.                                                        *)
LEMMA AnnounceKeeps ==
  ASSUME Inv, NEW name \in Name, NEW alive \in BOOLEAN, ServerAnnounces(name, alive)
  PROVE  Inv'
<1> DEFINE old == binder.name_to_id[name]
           d == IF old = NoId THEN binder ELSE Kill(binder, old)
           id == next_u32
           e == RegisterName(d, id, name)
<1>1. /\ binder \in Directories /\ Follows(binder) /\ WellFormed(binder.logs)
      /\ Fresh(binder.logs, id) /\ Introduced(binder.logs)
      /\ id \in Id /\ id + 1 \in 0 .. MaxId /\ id \in Nat /\ func \in Func
  BY NewIdType, CacheCallAssumption DEF Inv, TypeOK, BinderOK, ServerAnnounces
<1>2. old \in Id \cup {NoId} /\ (old # NoId => binder.id_to_name[old] = name)
  <2>1. binder \in Directories /\ Follows(binder)
    BY <1>1
  <2> HIDE DEF d, e
  <2> QED
    BY <2>1 DEF Directories, Follows
<1>3. /\ Writes(binder, d) /\ Fresh(d.logs, id) /\ d \in Directories
      /\ d.name_to_id[name] = NoId
      /\ Introduced(d.logs)
      /\ \A i \in Id : i # old => d.id_to_name[i] = binder.id_to_name[i]
  <2>1. CASE old = NoId
    BY <1>1, <2>1, WritesNothing
  <2>2. CASE old # NoId
    <3>1. old \in Id /\ binder.id_to_name[old] = name /\ d = Kill(binder, old) /\ name # NoName
      BY <1>2, <2>2, NameServiceAssumption
    <3> HIDE DEF d
    <3>2. Writes(binder, d) /\ Fresh(d.logs, id) /\ d \in Directories
      BY <1>1, <3>1, KillWrites, KillType
    <3>3. /\ d.logs = Append(binder.logs, KillNode(old))
          /\ d.id_to_name = [binder.id_to_name EXCEPT ![old] = NoName]
          /\ d.name_to_id = [binder.name_to_id EXCEPT ![name] = NoId]
      BY <1>1, <3>1, KillEffect
    <3>4. Introduced(d.logs)
      <4>1. binder.logs \in Seq(LogEntry) /\ KillNode(old) \in LogEntry
        BY <1>1, <3>1, EntryTypes DEF Directories
      <4>2. \A i \in Id, f \in Func : KillNode(old) # NewFunc(i, f)
        BY DEF KillNode, NewFunc
      <4> QED
        BY <1>1, <3>3, <4>1, <4>2, IntroducedAppend
    <3> QED
      BY <1>1, <3>1, <3>2, <3>3, <3>4 DEF Directories
  <2> QED
    BY <2>1, <2>2
<1> HIDE DEF d
<1>4. Follows(d) /\ WellFormed(d.logs)
  BY <1>3 DEF Writes
<1>5. Writes(d, e) /\ Fresh(e.logs, id + 1) /\ e \in Directories
  BY <1>1, <1>3, <1>4, RegisterNameWrites, RegisterNameType
<1>6. /\ e.logs = Append(d.logs, NewNode(id, name))
      /\ e.id_to_name = [d.id_to_name EXCEPT ![id] = name]
  <2>1. \A n \in Name : NewNode(id, n) \notin Entries(d.logs)
    BY <1>1, <1>3 DEF Fresh
  <2>2. d.id_to_name[id] = NoName
    BY <1>1, <1>3, <1>4, <2>1 DEF Follows, Named, Directories
  <2>3. RegisterName(d, id, name).id_to_name = [d.id_to_name EXCEPT ![id] = name]
    <3>1. d \in Directories /\ id \in Id /\ d.name_to_id[name] = NoId
      BY <1>1, <1>3
    <3> QED
      BY <2>2, <3>1 DEF RegisterName, Directories
  <2> QED
    BY <1>1, <1>3, <2>3, RegisterNameLog
<1>7. d.logs \in Seq(LogEntry) /\ e.logs \in Seq(LogEntry)
  BY <1>3, <1>5 DEF Directories
<1>8. Introduced(e.logs) /\ NewNode(id, name) \in Entries(e.logs)
  <2>1. NewNode(id, name) \in LogEntry
    BY <1>1, EntryTypes
  <2> QED
    BY <1>1, <1>3, <1>6, <1>7, <2>1, IntroducedAppend, EntriesAppend, EntriesDiffer
<1> HIDE DEF e
<1>9. Follows(e) /\ WellFormed(e.logs) /\ id + 1 \in Nat
  BY <1>1, <1>5 DEF Writes
<1>10. Writes(binder, e)
  BY <1>1, <1>3, <1>5, WritesAgain
<1>11. /\ binder' = e /\ next_u32' = id + 1 /\ ns' = ns /\ delta' = delta
       /\ phase' = phase /\ server_id' = server_id
       /\ UNCHANGED <<callVars, callee, outcome>>
       /\ \/ server' = [server EXCEPT ![name] = id] /\ registering' = registering \cup {id}
          \/ server' = server /\ registering' = registering
  BY DEF ServerAnnounces, d, e, clientVars, replyVars
<1>12. server \in [Name -> Id \cup {NoId, Nobody}] /\ registering \subseteq Id
  BY DEF Inv, TypeOK
<1>13. TypeOK'
  BY <1>1, <1>5, <1>11, <1>12 DEF Inv, TypeOK, callVars
<1>14. BinderOK'
  BY <1>5, <1>8, <1>10, <1>11 DEF BinderOK, Writes
<1>15. Entries(binder.logs) \subseteq Entries(e.logs)
  <2>1. binder.logs \in Seq(LogEntry) /\ Prefix(binder.logs, e.logs)
    BY <1>1, <1>10 DEF Writes, Directories
  <2> QED
    BY <1>7, <2>1, PrefixSubset
<1>16. Announced'
  BY <1>8, <1>11, <1>12, <1>15 DEF Inv, Announced
<1>17. Prefix(binder.logs, binder'.logs)
  BY <1>10, <1>11 DEF Writes
<1>18. \A n \in Name : server'[n] \in {server[n], next_u32, NoId, Nobody}
  BY <1>11, <1>12
<1> QED
  BY <1>11, <1>13, <1>14, <1>16, <1>17, <1>18, BinderStepKeeps

(* REGISTER of an id that has been announced. *)
LEMMA RegisterKeeps == ASSUME Inv, NEW id \in Id, ServerRegisters(id) PROVE Inv'
<1> DEFINE g == RegisterFn(binder, id, func)
<1>1. /\ binder \in Directories /\ Follows(binder) /\ WellFormed(binder.logs)
      /\ Fresh(binder.logs, next_u32) /\ Introduced(binder.logs) /\ next_u32 \in Nat
      /\ binder.logs \in Seq(LogEntry) /\ func \in Func /\ id \in registering
  BY CacheCallAssumption DEF Inv, TypeOK, BinderOK, Directories, ServerRegisters
<1>2. /\ binder' = g /\ registering' = registering \ {id}
      /\ UNCHANGED <<next_u32, server, ns, phase, callVars, server_id, callee, replyVars>>
  BY DEF ServerRegisters, clientVars
<1> HIDE DEF g
<1>3. Writes(binder, g) /\ Fresh(g.logs, next_u32) /\ g \in Directories
  BY <1>1, RegisterFnWrites, RegisterFnType DEF g
<1>4. g.logs = Append(binder.logs, NewFunc(id, func))
  BY <1>1, RegisterFnEffect DEF g
<1>5. Introduced(g.logs)
  <2>1. NewFunc(id, func) \in LogEntry
    BY <1>1, EntryTypes
  <2>2. \A i \in Id, f \in Func : NewFunc(id, func) = NewFunc(i, f) => i = id
    BY DEF NewFunc
  <2>3. \E name \in Name : NewNode(id, name) \in Entries(binder.logs)
    BY <1>1 DEF Inv, Announced
  <2> QED
    BY <1>1, <1>4, <2>1, <2>2, <2>3, IntroducedAppend
<1>6. TypeOK'
  BY <1>2, <1>3 DEF Inv, TypeOK, callVars, replyVars
<1>7. BinderOK'
  BY <1>2, <1>3, <1>5 DEF BinderOK, Writes
<1>8. Prefix(binder.logs, g.logs) /\ Entries(binder.logs) \subseteq Entries(g.logs)
  BY <1>1, <1>3, PrefixSubset DEF Writes, Directories
<1>9. Announced'
  BY <1>2, <1>8 DEF Inv, Announced
<1>10. \A n \in Name : server'[n] \in {server[n], next_u32, NoId, Nobody}
  BY <1>2
<1> QED
  BY <1>2, <1>6, <1>7, <1>8, <1>9, <1>10, BinderStepKeeps DEF replyVars

(* The binder kills an id nobody answers for. *)
LEMMA KillKeeps == ASSUME Inv, NEW id \in Id, BinderKills(id) PROVE Inv'
<1>1. /\ binder \in Directories /\ Follows(binder) /\ WellFormed(binder.logs)
      /\ Fresh(binder.logs, next_u32) /\ Introduced(binder.logs) /\ next_u32 \in Nat
      /\ binder.logs \in Seq(LogEntry) /\ KillNode(id) \in LogEntry
  BY EntryTypes DEF Inv, TypeOK, BinderOK, Directories
<1>2. /\ binder.id_to_name[id] # NoName
      /\ binder' = Kill(binder, id)
      /\ UNCHANGED <<next_u32, server, registering, ns, phase, callVars, server_id, callee, replyVars>>
  BY DEF BinderKills, clientVars
<1>3. Writes(binder, binder') /\ Fresh(binder'.logs, next_u32)
  BY <1>1, <1>2, KillWrites
<1>4. /\ binder'.logs = Append(binder.logs, KillNode(id))
      /\ binder'.id_to_name = [binder.id_to_name EXCEPT ![id] = NoName]
  BY <1>1, <1>2, KillEffect
<1>5. Introduced(binder'.logs)
  BY <1>1, <1>4, IntroducedAppend, EntriesDiffer
<1>6. TypeOK'
  BY <1>2, <1>3 DEF Inv, TypeOK, callVars, replyVars, Writes
<1>7. BinderOK'
  BY <1>2, <1>3, <1>5 DEF BinderOK, Writes
<1>8. Prefix(binder.logs, binder'.logs)
  BY <1>3 DEF Writes
<1>9. Entries(binder.logs) \subseteq Entries(binder'.logs)
  BY <1>1, <1>3, <1>8, PrefixSubset DEF Writes, Directories
<1>10. Announced'
  BY <1>2, <1>9 DEF Inv, Announced
<1>11. \A n \in Name : server'[n] \in {server[n], next_u32, NoId, Nobody}
  BY <1>2
<1> QED
  BY <1>2, <1>6, <1>7, <1>8, <1>10, <1>11, BinderStepKeeps DEF replyVars

(* A server dies. *)
LEMMA DeathKeeps == ASSUME Inv, NEW name \in Name, ServerDies(name) PROVE Inv'
<1>1. /\ server \in [Name -> Id \cup {NoId, Nobody}]
      /\ server' = [server EXCEPT ![name] = Nobody]
      /\ callee' \in {callee, NoName}
      /\ UNCHANGED <<binder, next_u32, registering, ns, phase, callVars, server_id, replyVars>>
  BY DEF Inv, TypeOK, ServerDies
<1>2. server' \in [Name -> Id \cup {NoId, Nobody}] /\ Nobody \notin Id
  BY <1>1 DEF Nobody, Id
<1>3. TypeOK'
  BY <1>1, <1>2 DEF Inv, TypeOK, callVars, replyVars
<1>4. BinderOK' /\ Announced'
  BY <1>1, <1>2 DEF Inv, BinderOK, Announced
<1>5. Prefix(binder.logs, binder'.logs)
  BY <1>1 DEF Inv, TypeOK, Directories, Prefix
<1>6. \A n \in Name : server'[n] \in {server[n], next_u32, NoId, Nobody}
  BY <1>1
<1> QED
  BY <1>1, <1>3, <1>4, <1>5, <1>6, BinderStepKeeps DEF replyVars

-----------------------------------------------------------------------------
(* The client. *)

(* The steps that leave the logs alone, and what is to be applied. *)
LEMMA ClientStepKeeps ==
  ASSUME Inv, TypeOK', UNCHANGED serverVars,
         ns'.logs = ns.logs, Follows(ns'), DeltaFits', LiveCandidateKept', Suggested'
  PROVE  Inv'
BY DEF Inv, BinderOK, Announced, ClientOK, CachedLogIsPrefix, serverVars

(* A reply carries some of what the binder has more than the client. *)
LEMMA ReplyKeeps ==
  ASSUME Inv, NEW n \in 0 .. Len(GetLogs(binder, Version(ns))),
         NEW next \in {"idle", "suggesting"}, Reply(n, next)
  PROVE  delta' \in Seq(LogItem) /\ (ns' = ns /\ binder' = binder => DeltaFits')
<1> DEFINE all == GetLogs(binder, Version(ns))
           since == Len(ns.logs)
<1>1. /\ binder \in Directories /\ since \in Nat /\ Version(ns) = since
  BY DEF Inv, TypeOK, Directories, Version
<1>2. /\ all \in Seq(LogItem) /\ Len(all) \in Nat
      /\ \A i \in 1 .. Len(all) : /\ all[i].version = since + i
                                  /\ since + i <= Len(binder.logs)
                                  /\ all[i].entry = binder.logs[since + i]
  BY SMTT(30), <1>1, GetLogsType
<1>3. delta' = SubSeq(all, 1, n)
  BY DEF Reply
<1> HIDE DEF all
<1>4. /\ n \in 0 .. Len(all)
      /\ delta' \in Seq(LogItem) /\ Len(delta') = n
      /\ \A i \in 1 .. n : delta'[i] = all[i]
  <2>1. n \in 0 .. Len(all)
    BY DEF all
  <2> QED
    BY <1>2, <1>3, <2>1
<1>5. Slice(delta', since, binder.logs)
  <2> SUFFICES ASSUME NEW i \in 1 .. Len(delta')
               PROVE  /\ delta'[i].version = since + i
                      /\ since + i <= Len(binder.logs)
                      /\ delta'[i].entry = binder.logs[since + i]
    BY DEF Slice
  <2>1. i \in 1 .. n /\ i \in 1 .. Len(all)
    BY <1>2, <1>4
  <2> QED
    BY <1>2, <1>4, <2>1
<1> QED
  BY <1>1, <1>4, <1>5 DEF DeltaFits

(* apply_logs. *)
LEMMA ApplyKeeps == ASSUME Inv, ApplyLogs PROVE Inv'
<1>1. CASE delta = <<>>
  <2>1. /\ ns' = ns /\ delta' = delta /\ phase' = outcome /\ outcome' = "idle" /\ ordered' \in BOOLEAN
        /\ UNCHANGED <<serverVars, listed, duplicates, server_id, callee>>
    BY <1>1 DEF ApplyLogs
  <2>2. TypeOK'
    BY <2>1 DEF Inv, TypeOK, Phase, serverVars
  <2>3. Follows(ns') /\ DeltaFits' /\ LiveCandidateKept'
    BY <2>1 DEF Inv, ClientOK, DeltaFits, LiveCandidateKept, serverVars
  <2>4. Suggested'
    BY <2>1 DEF Inv, TypeOK, Suggested
  <2> QED
    BY <2>1, <2>2, <2>3, <2>4, ClientStepKeeps
<1>2. CASE delta # <<>>
  <2> DEFINE item == Head(delta)
             tail == Tail(delta)
             r == ApplyItem(ns, item)
  <2>1. /\ ns' = r /\ delta' = tail /\ ordered' \in BOOLEAN
        /\ UNCHANGED <<phase, serverVars, listed, duplicates, server_id, callee, outcome>>
    BY <1>2 DEF ApplyLogs
  <2>2. /\ ns \in Directories /\ binder.logs \in Seq(LogEntry) /\ Len(binder.logs) \in Nat
        /\ Len(ns.logs) \in Nat /\ delta \in Seq(LogItem)
        /\ Follows(ns) /\ WellFormed(binder.logs) /\ Prefix(ns.logs, binder.logs)
    BY DEF Inv, TypeOK, Directories, BinderOK, ClientOK, CachedLogIsPrefix
  <2>3. /\ item = delta[1] /\ 1 \in 1 .. Len(delta) /\ item \in LogItem
        /\ tail \in Seq(LogItem) /\ Len(tail) \in Nat /\ Len(tail) + 1 = Len(delta)
        /\ \A i \in 1 .. Len(tail) : tail[i] = delta[i + 1]
    BY <1>2, <2>2
  <2>4. PICK since \in 0 .. Len(ns.logs) : Slice(delta, since, binder.logs)
    BY DEF Inv, ClientOK, DeltaFits
  <2> HIDE DEF item, tail
  <2>5. /\ item.version = since + 1 /\ since + 1 <= Len(binder.logs)
        /\ item.entry = binder.logs[since + 1]
    BY <2>3, <2>4 DEF Slice
  <2>6. Fits(ns, binder.logs, item)
    BY <2>2, <2>3, <2>4, <2>5 DEF Fits
  <2>7. /\ Follows(r) /\ Prefix(r.logs, binder.logs)
        /\ item.version <= Len(r.logs) /\ Len(ns.logs) <= Len(r.logs)
        /\ r \in Directories
    BY <2>2, <2>3, <2>6, ApplyItemFollows, ApplyItemType
  <2>8. Len(r.logs) \in Nat
    BY <2>7 DEF Directories
  <2>9. Slice(tail, since + 1, binder.logs) /\ since + 1 \in 0 .. Len(r.logs)
    <3>1. since + 1 \in 0 .. Len(r.logs)
      BY <2>4, <2>5, <2>7, <2>8
    <3> SUFFICES ASSUME NEW i \in 1 .. Len(tail)
                 PROVE  /\ tail[i].version = since + 1 + i
                        /\ since + 1 + i <= Len(binder.logs)
                        /\ tail[i].entry = binder.logs[since + 1 + i]
      BY <3>1 DEF Slice
    <3>2. i + 1 \in 1 .. Len(delta) /\ since + (i + 1) = since + 1 + i
      BY <2>2, <2>3, <2>4
    <3>3. /\ delta[i + 1].version = since + (i + 1)
          /\ since + (i + 1) <= Len(binder.logs)
          /\ delta[i + 1].entry = binder.logs[since + (i + 1)]
      BY <2>4, <3>2 DEF Slice
    <3> QED
      BY <2>3, <3>2, <3>3
  <2>10. LiveCandidateKept'
    <3> SUFFICES ASSUME NEW id \in Id, NEW at \in Name, server[at] = id,
                        NewFunc(id, func) \in Entries(r.logs), KillNode(id) \notin Entries(r.logs)
                 PROVE  id \in r.func_to_ids[func]
      BY <2>1 DEF LiveCandidateKept, serverVars
    <3>1. id \in Id /\ func \in Func
      BY CacheCallAssumption
    <3>2. /\ ns.func_to_ids[func] \subseteq r.func_to_ids[func]
          /\ NewFunc(id, func) \in Entries(ns.logs) \/ id \in r.func_to_ids[func]
      BY <2>2, <2>3, <3>1, ApplyKeepsCandidates
    <3>3. Entries(ns.logs) \subseteq Entries(r.logs)
      BY <2>2, <2>3, <3>1, ApplyCandidates
    <3> QED
      BY <3>2, <3>3 DEF Inv, LiveCandidateKept
  <2> HIDE DEF r
  <2>11. TypeOK'
    BY <2>1, <2>3, <2>7 DEF Inv, TypeOK, serverVars
  <2>12. ClientOK'
    BY <2>1, <2>7, <2>9 DEF ClientOK, CachedLogIsPrefix, DeltaFits, serverVars
  <2>13. BinderOK' /\ Announced'
    BY <2>1 DEF Inv, BinderOK, Announced, serverVars
  <2>14. Suggested'
    BY <2>1 DEF Inv, Suggested
  <2> QED
    BY <2>10, <2>11, <2>12, <2>13, <2>14 DEF Inv
<1> QED
  BY <1>1, <1>2

(* Where the client knows a running server, it finds it listening: its      *)
(* suggest does not drop it.                                                *)
LEMMA RunningIsHeard ==
  ASSUME Inv, NEW id \in Id, NEW at \in Name, server[at] = id,
         NewFunc(id, func) \in Entries(ns.logs), KillNode(id) \notin Entries(ns.logs)
  PROVE  Listening(ns.id_to_name[id])
<1>1. /\ ns.logs \in Seq(LogEntry) /\ binder.logs \in Seq(LogEntry) /\ func \in Func
      /\ Prefix(ns.logs, binder.logs) /\ Introduced(binder.logs) /\ WellFormed(binder.logs)
      /\ Follows(ns) /\ NewNode(id, at) \in Entries(binder.logs)
  BY CacheCallAssumption
     DEF Inv, TypeOK, Directories, ClientOK, CachedLogIsPrefix, BinderOK, Announced
<1>2. PICK name \in Name : NewNode(id, name) \in Entries(ns.logs)
  BY <1>1, IntroducedPrefix
<1>3. Entries(ns.logs) \subseteq Entries(binder.logs)
  BY <1>1, PrefixSubset
<1>4. name = at
  BY <1>1, <1>2, <1>3, OneName
<1>5. ns.id_to_name[id] = at
  BY <1>1, <1>2, <1>4 DEF Follows, Named
<1>6. server[at] # Nobody
  BY DEF Nobody, Id
<1> QED
  BY <1>5, <1>6 DEF Listening

(* suggest drops what does not answer, and no candidate that runs. *)
LEMMA SkipKeeps == ASSUME Inv, NEW id \in Id, SkipCandidate(id) PROVE Inv'
<1>1. /\ ns \in Directories /\ Follows(ns) /\ func \in Func
      /\ ns' = EraseCandidate(ns, func, id) /\ ~Listening(ns.id_to_name[id])
      /\ UNCHANGED <<serverVars, phase, callVars, server_id, callee, replyVars>>
  BY CacheCallAssumption DEF Inv, TypeOK, ClientOK, SkipCandidate, EraseHere
<1>2. ns' \in Directories /\ ns'.logs = ns.logs /\ Follows(ns')
  BY <1>1, EraseCandidateType, SuggestEffect, SuggestFollows
<1>3. TypeOK'
  BY <1>1, <1>2 DEF Inv, TypeOK, serverVars, callVars, replyVars
<1>4. DeltaFits'
  BY <1>1, <1>2 DEF Inv, ClientOK, DeltaFits, serverVars, replyVars
<1>5. LiveCandidateKept'
  <2> SUFFICES ASSUME NEW i \in Id, NEW at \in Name, server[at] = i,
                      NewFunc(i, func) \in Entries(ns.logs), KillNode(i) \notin Entries(ns.logs)
               PROVE  i \in ns'.func_to_ids[func]
    BY <1>1, <1>2 DEF LiveCandidateKept, serverVars
  <2>1. i \in ns.func_to_ids[func]
    BY DEF Inv, LiveCandidateKept
  <2>2. i # id
    BY <1>1, RunningIsHeard
  <2>3. ns'.func_to_ids[func] = ns.func_to_ids[func] \ {id}
    BY <1>1 DEF EraseCandidate, Directories
  <2> QED
    BY <2>1, <2>2, <2>3
<1>6. Suggested'
  BY <1>1 DEF Inv, Suggested
<1> QED
  BY <1>1, <1>2, <1>3, <1>4, <1>5, <1>6, ClientStepKeeps

(* suggest returns an id. *)
LEMMA SuggestKeeps == ASSUME Inv, NEW id \in Id, Suggest(id) PROVE Inv'
<1> DEFINE next == NextPivot(ns, func)
<1>1. /\ ns \in Directories /\ Follows(ns) /\ func \in Func
      /\ ns' = MovePivot(ns, func, next) /\ ns.func_to_ids[func] # {}
      /\ server_id' = id /\ phase' = "suggested"
      /\ UNCHANGED <<serverVars, callVars, callee, replyVars>>
  BY CacheCallAssumption DEF Inv, TypeOK, ClientOK, Suggest, Candidate
<1>2. next \in 0 .. MaxId
  BY <1>1, NextPivotType
<1> HIDE DEF next
<1>3. ns' \in Directories /\ ns'.logs = ns.logs
  BY <1>1, <1>2, MovePivotType, SuggestEffect
<1>4. Follows(ns')
  BY <1>1, SuggestFollows
<1>5. TypeOK'
  BY <1>1, <1>3 DEF Inv, TypeOK, Phase, serverVars, callVars, replyVars
<1>6. DeltaFits'
  BY <1>1, <1>3 DEF Inv, ClientOK, DeltaFits, serverVars, replyVars
<1>7. LiveCandidateKept'
  <2>1. ns'.func_to_ids = ns.func_to_ids
    BY <1>1 DEF MovePivot, Directories
  <2> QED
    BY <1>1, <1>3, <2>1 DEF Inv, LiveCandidateKept, serverVars
<1>8. Suggested'
  BY <1>1 DEF Suggested
<1> QED
  BY <1>1, <1>3, <1>4, <1>5, <1>6, <1>7, <1>8, ClientStepKeeps

(* The client's other steps leave its directory alone. *)
LEMMA SameDirectoryKeeps ==
  ASSUME Inv, TypeOK', UNCHANGED <<serverVars, ns>>, DeltaFits', Suggested'
  PROVE  Inv'
<1>1. Follows(ns') /\ LiveCandidateKept'
  BY DEF Inv, ClientOK, LiveCandidateKept, serverVars
<1> QED
  BY <1>1, ClientStepKeeps

LEMMA LoopKeeps ==
  ASSUME Inv,
         \/ RpcCacheCall \/ Loop \/ RpcCall
         \/ \E n \in 0 .. MaxVersion, next \in {"idle", "suggesting"} : ExecuteReply(n, next)
  PROVE  Inv'
<1>1. ASSUME RpcCacheCall \/ NoSuggestion \/ ReachCycle \/ CannotConnect \/ RemoteDisconnected
             \/ SendExecute
      PROVE  Inv'
  <2>1. UNCHANGED <<serverVars, ns, replyVars>>
    BY <1>1 DEF RpcCacheCall, NoSuggestion, ReachCycle, CannotConnect, RemoteDisconnected,
                SendExecute
  <2>2. TypeOK'
    <3>1. ns.func_to_ids[func] \subseteq Id
      BY CacheCallAssumption DEF Inv, TypeOK, Directories
    <3>2. CASE RpcCacheCall
      BY <2>1, <3>1, <3>2 DEF RpcCacheCall, Inv, TypeOK, Phase, serverVars, replyVars
    <3>3. CASE NoSuggestion \/ ReachCycle \/ RemoteDisconnected
      BY <2>1, <3>3 DEF NoSuggestion, ReachCycle, RemoteDisconnected, Inv, TypeOK, Phase,
                        serverVars, callVars, replyVars
    <3>4. CASE CannotConnect
      BY <2>1, <3>4 DEF CannotConnect, Try, Inv, TypeOK, Suggested, Phase, serverVars, replyVars
    <3>5. CASE SendExecute
      BY <2>1, <3>5 DEF Listening, SendExecute, Try, Inv, TypeOK, Suggested, Phase, serverVars, replyVars
    <3> QED
      BY <1>1, <3>2, <3>3, <3>4, <3>5
  <2>3. DeltaFits'
    BY <2>1 DEF Inv, ClientOK, DeltaFits, serverVars, replyVars
  <2>4. Suggested'
    BY <1>1 DEF RpcCacheCall, NoSuggestion, ReachCycle, CannotConnect, RemoteDisconnected,
                SendExecute, Suggested
  <2> QED
    BY <2>1, <2>2, <2>3, <2>4, SameDirectoryKeeps
<1>2. ASSUME NEW n \in 0 .. MaxVersion, NEW next \in {"idle", "suggesting"}, ExecuteReply(n, next)
      PROVE  Inv'
  <2>1. /\ Reply(n, next) /\ callee' = NoName /\ UNCHANGED <<serverVars, ns>>
        /\ EndCall \/ UNCHANGED <<callVars, server_id>>
    BY <1>2 DEF ExecuteReply
  <2>2. n \in 0 .. Len(GetLogs(binder, Version(ns)))
    <3>1. binder \in Directories /\ Version(ns) \in Nat
      BY DEF Inv, TypeOK, Directories, Version
    <3>2. Len(GetLogs(binder, Version(ns))) \in Nat
      BY <3>1, GetLogsType
    <3>3. n \in Nat
      OBVIOUS
    <3> QED
      BY <2>1, <3>2, <3>3 DEF Reply
  <2>3. delta' \in Seq(LogItem) /\ DeltaFits'
    BY <2>1, <2>2, ReplyKeeps DEF serverVars
  <2>4. TypeOK'
    BY <2>1, <2>3 DEF Reply, EndCall, Inv, TypeOK, Phase, serverVars, callVars
  <2>5. Suggested'
    BY <2>1 DEF Reply, Suggested
  <2> QED
    BY <2>1, <2>3, <2>4, <2>5, SameDirectoryKeeps
<1>3. ASSUME RpcCall PROVE Inv'
  <2> DEFINE n == Len(GetLogs(binder, Version(ns)))
  <2>1. Reply(n, "idle") /\ EndCall /\ UNCHANGED <<serverVars, ns, callee>>
    BY <1>3 DEF RpcCall
  <2>2. n \in 0 .. n
    <3>1. binder \in Directories /\ Version(ns) \in Nat
      BY DEF Inv, TypeOK, Directories, Version
    <3> QED
      BY <3>1, GetLogsType
  <2>3. delta' \in Seq(LogItem) /\ DeltaFits'
    BY <2>1, <2>2, ReplyKeeps DEF serverVars
  <2> HIDE DEF n
  <2>4. TypeOK'
    BY <2>1, <2>3 DEF Reply, EndCall, Inv, TypeOK, Phase, serverVars
  <2>5. Suggested'
    BY <2>1 DEF Reply, Suggested
  <2> QED
    BY <2>1, <2>3, <2>4, <2>5, SameDirectoryKeeps
<1> QED
  BY <1>1, <1>2, <1>3, ApplyKeeps, SkipKeeps, SuggestKeeps DEF Loop

-----------------------------------------------------------------------------
(* The theorems. *)

LEMMA InvInit == Init => Inv
<1> SUFFICES ASSUME Init PROVE Inv
  OBVIOUS
<1>1. EmptyNameService \in Directories
  BY NameServiceAssumption DEF EmptyNameService, Directories
<1>2. EmptyNameService.logs = <<>> /\ Entries(<<>>) = {} /\ Len(<<>>) = 0
  BY DEF EmptyNameService, Entries
<1>3. Follows(EmptyNameService)
  BY <1>2, NameServiceAssumption DEF Follows, Named, EmptyNameService, NoId, Id
<1>4. /\ binder = EmptyNameService /\ ns = EmptyNameService /\ next_u32 = 0
      /\ delta = <<>> /\ registering = {}
      /\ \A name \in Name : server[name] = Nobody /\ Nobody \notin Id
  BY DEF Init, Nobody, Id
<1>5. TypeOK
  BY <1>1, <1>4, NameServiceAssumption DEF Init, TypeOK, Phase
<1> HIDE DEF EmptyNameService
<1>6. BinderOK
  BY <1>2, <1>3, <1>4 DEF BinderOK, WellFormed, Fresh, Introduced
<1>7. ClientOK
  BY <1>2, <1>3, <1>4 DEF ClientOK, CachedLogIsPrefix, Prefix, DeltaFits, Slice
<1> QED
  BY <1>4, <1>5, <1>6, <1>7 DEF Init, Inv, Suggested, Announced, LiveCandidateKept

LEMMA InvStep == Inv /\ [Next]_vars => Inv'
<1> SUFFICES ASSUME Inv, [Next]_vars PROVE Inv'
  OBVIOUS
<1>1. CASE UNCHANGED vars
  <2>1. TypeOK'
    BY <1>1 DEF vars, serverVars, callVars, replyVars, Inv, TypeOK
  <2>2. DeltaFits'
    BY <1>1 DEF vars, serverVars, replyVars, Inv, ClientOK, DeltaFits
  <2>3. Suggested'
    BY <1>1 DEF vars, Inv, Suggested
  <2> QED
    BY <1>1, <2>1, <2>2, <2>3, SameDirectoryKeeps DEF vars
<1>2. CASE Next
  BY <1>2, StartKeeps, AnnounceKeeps, RegisterKeeps, DeathKeeps, KillKeeps, LoopKeeps DEF Next
<1> QED
  BY <1>1, <1>2

LEMMA Invariance == Spec => []Inv
BY InvInit, InvStep, PTL DEF Spec

(* The variables of CacheCall have their types (TypeOK of CacheCall), for   *)
(* any number of ids, addresses and functions.                              *)
THEOREM CacheCallTypeCorrect == Spec => []TypeOK
<1>1. Inv => TypeOK
  BY DEF Inv
<1> QED
  BY <1>1, Invariance, PTL

(* A client that finds servers dead, and is sent part of the log by one     *)
(* process and all of it by another, has a prefix of the binder's log all   *)
(* the same (CachedLogIsPrefix of CacheCall).                               *)
THEOREM CacheFollowsBinder == Spec => []CachedLogIsPrefix
<1>1. Inv => CachedLogIsPrefix
  BY DEF Inv, ClientOK
<1> QED
  BY <1>1, Invariance, PTL

(* A client that knows of a running server's function never drops it from   *)
(* the candidates, unless the binder has killed the server's id             *)
(* (LiveCandidateKept of CacheCall).                                        *)
THEOREM LiveServerStaysCandidate == Spec => []LiveCandidateKept
<1>1. Inv => LiveCandidateKept
  BY DEF Inv
<1> QED
  BY <1>1, Invariance, PTL

-----------------------------------------------------------------------------
(* The round of suggest: the candidates that have been tried lie between    *)
(* the first one and the last one suggested, the end of the set being       *)
(* followed by its beginning.                                               *)

Around(first, at, id) ==
  IF first <= at THEN first <= id /\ id <= at ELSE id <= at \/ first <= id

(* Of those the round began with, the ones passed have been tried, and no   *)
(* candidate that has not been passed has.                                  *)
Ring(ids, at, began, tried) ==
  /\ at \in ids /\ at \in tried
  /\ \E first \in began :
       /\ \A id \in began : Around(first, at, id) => id \in tried
       /\ \A id \in ids : id \in tried => Around(first, at, id)

(* id comes after at in the set, or is the first where at is the last. *)
Follower(ids, at, id) ==
  \/ at < id /\ \A i \in ids : i <= at \/ id <= i
  \/ \A i \in ids : i <= at /\ id <= i

(* A position is a number, and grows with the id. *)
LEMMA Positions ==
  ASSUME NEW ids, ids \subseteq Id, NEW x \in ids
  PROVE  /\ Cardinality({j \in ids : j < x}) \in Nat
         /\ Cardinality(ids) \in Nat
         /\ Cardinality({j \in ids : j < x}) < Cardinality(ids)
         /\ \A y \in ids : x < y =>
              Cardinality({j \in ids : j < x}) < Cardinality({j \in ids : j < y})
<1> DEFINE Below(y) == {j \in ids : j < y}
<1>1. ids \subseteq Int /\ IsFiniteSet(ids)
  <2>1. IsFiniteSet(Id)
    BY SMTT(30), NameServiceAssumption, FS_Interval DEF Id
  <2>2. IsFiniteSet(ids)
    BY <2>1, FS_Subset
  <2> QED
    BY <2>2 DEF Id
<1>2. \A y : IsFiniteSet(Below(y)) /\ Cardinality(Below(y)) \in Nat
  BY <1>1, FS_Subset, FS_CardinalityType
<1>3. Cardinality(ids) \in Nat
  BY <1>1, FS_CardinalityType
<1>4. Cardinality(Below(x)) < Cardinality(ids)
  <2>1. Below(x) \subseteq ids /\ x \notin Below(x)
    BY <1>1
  <2> HIDE DEF Below
  <2>2. Cardinality(Below(x)) <= Cardinality(ids) /\ Cardinality(Below(x)) # Cardinality(ids)
    BY <1>1, <2>1, FS_Subset
  <2> QED
    BY <1>2, <1>3, <2>2
<1>5. ASSUME NEW y \in ids, x < y PROVE Cardinality(Below(x)) < Cardinality(Below(y))
  <2>1. Below(x) \subseteq Below(y) /\ x \notin Below(x) /\ x \in Below(y)
    <3>1. x \in Int /\ y \in Int /\ ~ (x < x)
      BY <1>1
    <3>2. ASSUME NEW j \in ids, j < x PROVE j < y
      BY <1>1, <1>5, <3>1, <3>2
    <3> QED
      BY <1>5, <3>1, <3>2
  <2>2. IsFiniteSet(Below(y))
    BY <1>2
  <2>3. Cardinality(Below(x)) <= Cardinality(Below(y)) /\ Cardinality(Below(x)) # Cardinality(Below(y))
    BY <2>1, <2>2, FS_Subset
  <2> HIDE DEF Below
  <2> QED
    BY <1>2, <2>3
<1> QED
  BY <1>2, <1>3, <1>4, <1>5

(* The pivot goes from a candidate to its follower. *)
LEMMA PivotGoesRound ==
  ASSUME NEW ids, ids \subseteq Id, NEW at \in ids, NEW id \in ids, NEW p \in Nat,
         AtPosition(ids, at, p), AtPosition(ids, id, (p + 1) % Cardinality(ids))
  PROVE  Follower(ids, at, id)
<1> DEFINE n == Cardinality(ids)
           Below(y) == Cardinality({j \in ids : j < y})
<1>1. ids \subseteq Int /\ at \in Int /\ id \in Int
  BY DEF Id
<1>2. \A y \in ids : Below(y) \in Nat /\ n \in Nat /\ Below(y) < n
  BY Positions
<1>3. \A x, y \in ids : x < y => Below(x) < Below(y)
  BY Positions
<1>4. Below(at) = p /\ Below(id) = (p + 1) % n
  BY DEF AtPosition
<1> HIDE DEF n, Below
<1>5. n \in Nat /\ p < n
  BY <1>2, <1>4
<1>6. CASE p + 1 < n
  <2>1. (p + 1) % n = p + 1
    BY <1>5, <1>6
  <2>2. Below(id) = Below(at) + 1
    BY <1>4, <2>1
  <2>3. at < id
    <3>1. ~ (id < at) /\ id # at
      BY <1>2, <1>3, <2>2
    <3> QED
      BY <1>1, <3>1
  <2>4. ASSUME NEW i \in ids PROVE i <= at \/ id <= i
    <3>1. ~ (at < i /\ i < id)
      BY <1>2, <1>3, <2>2
    <3> QED
      BY <1>1, <3>1
  <2> QED
    BY <2>3, <2>4 DEF Follower
<1>7. CASE p + 1 = n
  <2>1. (p + 1) % n = 0
    BY <1>5, <1>7
  <2>2. Below(id) = 0
    BY <1>4, <2>1
  <2>3. ASSUME NEW i \in ids PROVE i <= at /\ id <= i
    <3>1. ~ (at < i)
      BY <1>2, <1>3, <1>4, <1>5, <1>7
    <3>2. ~ (i < id)
      BY <1>2, <1>3, <2>2
    <3> QED
      BY <1>1, <3>1, <3>2
  <2> QED
    BY <2>3 DEF Follower
<1> QED
  BY <1>5, <1>6, <1>7

(* When the follower has been tried, so have all the round began with; and  *)
(* otherwise the ring grows.                                                *)
LEMMA RingAdvances ==
  ASSUME NEW ids, ids \subseteq Int, NEW at \in ids, NEW id \in ids,
         NEW began, began \subseteq ids, NEW tried,
         Ring(ids, at, began, tried), Follower(ids, at, id)
  PROVE  IF id \in tried THEN began \subseteq tried
         ELSE Ring(ids, id, began, tried \cup {id})
<1>1. PICK first \in began :
        /\ \A i \in began : Around(first, at, i) => i \in tried
        /\ \A i \in ids : i \in tried => Around(first, at, i)
  BY DEF Ring
<1>2. first \in ids /\ first \in Int /\ at \in Int /\ id \in Int /\ began \subseteq Int
  BY <1>1
<1>3. first \in tried /\ at \in tried
  BY <1>1, <1>2 DEF Around, Ring
<1>4. CASE id \in tried
  <2> SUFFICES ASSUME NEW i \in began PROVE Around(first, at, i)
    BY <1>1, <1>4
  <2>1. Around(first, at, id) /\ i \in Int /\ i \in ids
    BY <1>1, <1>2, <1>4
  <2> QED
    BY <1>2, <2>1 DEF Around, Follower
<1>5. CASE id \notin tried
  <2>1. \A i \in began : Around(first, id, i) => Around(first, at, i) \/ i = id
    BY <1>2, <1>3, <1>5 DEF Around, Follower
  <2>2. \A i \in ids : Around(first, at, i) => Around(first, id, i)
    BY <1>1, <1>2, <1>3, <1>5 DEF Around, Follower
  <2>3. Around(first, id, id)
    BY <1>2 DEF Around
  <2> QED
    BY <1>1, <1>5, <2>1, <2>2, <2>3 DEF Ring
<1> QED
  BY <1>4, <1>5

(* The ring loses a candidate the round did not begin with ... *)
LEMMA RingLoses ==
  ASSUME NEW ids, ids \subseteq Int, NEW at \in ids, NEW id \in ids,
         NEW began, began \subseteq ids \ {id}, NEW tried, NEW p,
         Ring(ids, at, began, tried), Follower(ids, at, id), AtPosition(ids, at, p),
         \A i \in began : i < id
  PROVE  Ring(ids \ {id}, at, began, tried) /\ AtPosition(ids \ {id}, at, p)
<1>1. at \in Int /\ id \in Int
  OBVIOUS
<1>2. at < id
  <2>1. PICK first \in began : TRUE
    BY DEF Ring
  <2>2. first \in ids /\ first \in Int /\ first < id
    BY <2>1
  <2> QED
    BY <2>2 DEF Follower
<1>3. {j \in ids \ {id} : j < at} = {j \in ids : j < at}
  BY <1>1, <1>2
<1>4. at \in ids \ {id}
  BY <1>1, <1>2
<1> QED
  BY <1>3, <1>4 DEF AtPosition, Ring

(* ... and gets one with a new id. *)
LEMMA RingGrows ==
  ASSUME NEW ids, ids \subseteq Int, NEW at \in ids, NEW id \in Int,
         NEW began, NEW tried, id \notin tried, NEW p,
         Ring(ids, at, began, tried), AtPosition(ids, at, p), \A i \in ids : i < id
  PROVE  Ring(ids \cup {id}, at, began, tried) /\ AtPosition(ids \cup {id}, at, p)
<1>1. at \in Int /\ at < id
  OBVIOUS
<1>2. {j \in ids \cup {id} : j < at} = {j \in ids : j < at}
  BY <1>1
<1> QED
  BY <1>2 DEF AtPosition, Ring

-----------------------------------------------------------------------------
(* The second invariant: the round of suggest, while candidates come in     *)
(* behind all others only.                                                  *)

Candidates == ns.func_to_ids[func]

(* Some have been tried, and suggest may be called again. *)
BetweenTries ==
  \/ phase = "suggesting" /\ duplicates # {}
  \/ phase = "calling"
  \/ phase = "applying" /\ outcome = "suggesting"

(* While the candidates the round began with are all there: where it is.    *)
Going ==
  /\ \A i \in listed, j \in Candidates \ listed : i < j
  /\ phase = "suggesting" /\ duplicates = {} => Candidates = listed
  /\ BetweenTries =>
       /\ AtPosition(Candidates, server_id, ns.pivot[func])
       /\ Ring(Candidates, server_id, listed, duplicates)
  /\ phase = "suggested" =>
       /\ server_id \in Candidates
       /\ AtPosition(Candidates, server_id, ns.pivot[func])
       /\ IF server_id \in duplicates THEN listed \subseteq duplicates
          ELSE Ring(Candidates, server_id, listed, duplicates \cup {server_id})
  /\ phase = "fallback" => listed \subseteq duplicates

Round == ordered /\ listed # {} /\ listed \subseteq Candidates => Going

RoundInv == Inv /\ Round

-----------------------------------------------------------------------------
(* The client's steps. *)

LEMMA ClientTypes ==
  ASSUME Inv
  PROVE  /\ ns \in Directories /\ func \in Func /\ ns.logs \in Seq(LogEntry)
         /\ binder.logs \in Seq(LogEntry)
         /\ Candidates \subseteq Id /\ Candidates \subseteq Int /\ ns.pivot[func] \in Nat
         /\ Id \subseteq Int /\ listed \subseteq Id /\ duplicates \subseteq Id
         /\ ordered \in BOOLEAN
  BY CacheCallAssumption DEF Inv, TypeOK, Directories, Candidates, Id

(* Where nothing moves but the phase. *)
LEMMA SameRound ==
  ASSUME RoundInv, UNCHANGED <<ns, phase, callVars, server_id, outcome>>
  PROVE  Round'
<1>1. /\ ns' = ns /\ phase' = phase /\ listed' = listed /\ duplicates' = duplicates
      /\ ordered' = ordered
      /\ server_id' = server_id /\ outcome' = outcome
  BY DEF callVars
<1> QED
  BY <1>1 DEF RoundInv, Candidates, Round, Going, BetweenTries

(* What comes in during a round comes in behind the others. *)
LEMMA ApplyGoesRound ==
  ASSUME RoundInv, ApplyLogs
  PROVE  Round'
<1>0. Inv /\ Round
  BY DEF RoundInv
<1>1. /\ listed' = listed /\ duplicates' = duplicates /\ server_id' = server_id
      /\ phase = "applying" /\ outcome \in {"idle", "suggesting"}
  BY <1>0 DEF ApplyLogs, Inv, TypeOK
<1>2. /\ ordered' => ordered
      /\ ordered' => \A id \in Candidates' \ Candidates : Behind(id)
  BY DEF ApplyLogs, Candidates
<1>3. CASE delta = <<>>
  <2>1. ns' = ns /\ phase' = outcome
    BY <1>3 DEF ApplyLogs
  <2>2. duplicates # {} \/ ~ (ordered /\ listed # {} /\ listed \subseteq Candidates) \/ outcome = "idle"
    BY <1>0, <1>1 DEF Round, Going, BetweenTries, Ring
  <2> QED
    BY <1>0, <1>1, <1>2, <2>1, <2>2 DEF Candidates, Round, Going, BetweenTries
<1>4. CASE delta # <<>>
  <2> DEFINE item == Head(delta)
             r == ApplyItem(ns, item)
  <2>1. ns' = r /\ phase' = phase /\ outcome' = outcome
    BY <1>4 DEF ApplyLogs
  <2>2. item \in LogItem
    BY <1>0, <1>4 DEF Inv, TypeOK
  <2>3. /\ ns \in Directories /\ func \in Func /\ ns.logs \in Seq(LogEntry)
        /\ Candidates \subseteq Int /\ listed \subseteq Int /\ duplicates \subseteq Int
    BY <1>0, ClientTypes
  <2>4. /\ r.pivot = ns.pivot
        /\ \/ r.func_to_ids[func] = ns.func_to_ids[func]
           \/ \E id \in Id : r.func_to_ids[func] = ns.func_to_ids[func] \cup {id}
    BY <2>2, <2>3, ApplyCandidates
  <2> HIDE DEF r, item
  <2>5. CASE Candidates' = Candidates
    <3>1. ns'.pivot = ns.pivot
      BY <2>1, <2>4
    <3> QED
      BY <1>0, <1>1, <1>2, <2>1, <2>5, <3>1 DEF Round, Going, BetweenTries
  <2>6. ASSUME NEW id \in Id, Candidates' = Candidates \cup {id}, id \notin Candidates
        PROVE  Round'
    <3>1. ns'.pivot = ns.pivot /\ id \in Int
      BY <2>1, <2>4 DEF Id
    <3> SUFFICES ASSUME ordered', listed # {}, listed \subseteq Candidates'
                 PROVE  Going'
      BY <1>1 DEF Round
    <3>2. ordered /\ \A i \in Candidates \cup listed \cup duplicates : i < id
      BY <1>2, <2>6 DEF Behind, Candidates
    <3>3. id \notin listed /\ id \notin duplicates
      BY <2>3, <3>1, <3>2
    <3>4. listed \subseteq Candidates /\ Going
      BY <1>0, <2>6, <3>2, <3>3 DEF Round
    <3>5. \A i \in listed, j \in Candidates' \ listed : i < j
      BY <2>6, <3>2, <3>4 DEF Going
    <3>6. CASE outcome = "suggesting"
      <4>1. /\ AtPosition(Candidates, server_id, ns.pivot[func])
            /\ Ring(Candidates, server_id, listed, duplicates)
        BY <1>1, <3>4, <3>6 DEF Going, BetweenTries
      <4>2. server_id \in Candidates
        BY <4>1 DEF Ring
      <4>3. /\ AtPosition(Candidates \cup {id}, server_id, ns.pivot[func])
            /\ Ring(Candidates \cup {id}, server_id, listed, duplicates)
        BY <2>3, <3>1, <3>2, <3>3, <4>1, <4>2, RingGrows
      <4> QED
        BY <1>1, <2>1, <2>6, <3>1, <3>5, <4>3 DEF Going, BetweenTries
    <3>7. CASE outcome = "idle"
      BY <1>1, <2>1, <3>5, <3>7 DEF Going, BetweenTries
    <3> QED
      BY <1>1, <3>6, <3>7
  <2>7. Candidates' = Candidates \/ \E id \in Id : Candidates' = Candidates \cup {id} /\ id \notin Candidates
    BY <2>1, <2>4 DEF Candidates
  <2> QED
    BY <2>5, <2>6, <2>7
<1> QED
  BY <1>3, <1>4

(* suggest passes over a candidate, or returns it. *)
LEMMA CandidateFollows ==
  ASSUME RoundInv, NEW id \in Id, Candidate(id)
  PROVE  /\ id \in Candidates
         /\ AtPosition(Candidates, id, NextPivot(ns, func))
         /\ \A at \in Candidates :
              AtPosition(Candidates, at, ns.pivot[func]) => Follower(Candidates, at, id)
<1>1. /\ Candidates \subseteq Id /\ ns.pivot[func] \in Nat
  BY ClientTypes DEF RoundInv
<1>2. id \in Candidates /\ AtPosition(Candidates, id, (ns.pivot[func] + 1) % Cardinality(Candidates))
  BY DEF Candidate, Candidates, NextPivot
<1> QED
  BY <1>1, <1>2, PivotGoesRound DEF Candidates, NextPivot

LEMMA SkipGoesRound ==
  ASSUME RoundInv, NEW id \in Id, SkipCandidate(id)
  PROVE  Round'
<1>1. /\ Candidate(id) /\ phase = "suggesting" /\ ns' = EraseCandidate(ns, func, id)
      /\ phase' = phase /\ listed' = listed /\ duplicates' = duplicates
      /\ server_id' = server_id /\ outcome' = outcome /\ ordered' = ordered
  BY DEF SkipCandidate, EraseHere, Candidate, callVars, replyVars
<1>2. /\ ns \in Directories /\ func \in Func /\ Candidates \subseteq Int
  BY ClientTypes DEF RoundInv
<1>3. Candidates' = Candidates \ {id} /\ ns'.logs = ns.logs /\ ns'.pivot = ns.pivot
  BY <1>1, <1>2 DEF EraseCandidate, Directories, Candidates
<1>4. Round'
  <2> SUFFICES ASSUME ordered, listed # {}, listed \subseteq Candidates \ {id} PROVE Going'
    BY <1>1, <1>3 DEF Round
  <2>1. Going /\ id \in Candidates \ listed
    BY <1>1, CandidateFollows DEF RoundInv, Round
  <2>2. duplicates # {}
    BY <1>1, <2>1 DEF Going, BetweenTries
  <2>3. /\ AtPosition(Candidates, server_id, ns.pivot[func])
        /\ Ring(Candidates, server_id, listed, duplicates)
    BY <1>1, <2>1, <2>2 DEF Going, BetweenTries
  <2>4. server_id \in Candidates
    BY <2>3 DEF Ring
  <2>5. Follower(Candidates, server_id, id)
    BY <1>1, <2>3, <2>4, CandidateFollows
  <2>6. \A i \in listed : i < id
    BY <2>1 DEF Going
  <2>7. /\ AtPosition(Candidates \ {id}, server_id, ns.pivot[func])
        /\ Ring(Candidates \ {id}, server_id, listed, duplicates)
    BY <1>2, <2>1, <2>3, <2>4, <2>5, <2>6, RingLoses
  <2> QED
    BY <1>1, <1>3, <2>1, <2>2, <2>7 DEF Going, BetweenTries
<1> QED
  BY <1>4

LEMMA SuggestGoesRound ==
  ASSUME RoundInv, NEW id \in Id, Suggest(id)
  PROVE  Round'
<1>1. /\ Candidate(id) /\ phase = "suggesting" /\ phase' = "suggested"
      /\ ns' = MovePivot(ns, func, NextPivot(ns, func))
      /\ listed' = listed /\ duplicates' = duplicates /\ server_id' = id
      /\ ordered' = ordered
  BY DEF Suggest, Candidate, callVars
<1>2. /\ ns \in Directories /\ func \in Func /\ Candidates \subseteq Int
  BY ClientTypes DEF RoundInv
<1>3. /\ Candidates' = Candidates /\ ns'.logs = ns.logs
      /\ ns'.pivot[func] = NextPivot(ns, func)
  BY <1>1, <1>2 DEF MovePivot, Directories, Candidates
<1>4. id \in Candidates /\ AtPosition(Candidates, id, NextPivot(ns, func))
  BY <1>1, CandidateFollows
<1>5. Round'
  <2> SUFFICES ASSUME ordered, listed # {}, listed \subseteq Candidates PROVE Going'
    BY <1>1, <1>3 DEF Round
  <2>1. Going
    BY DEF RoundInv, Round
  <2>2. IF id \in duplicates THEN listed \subseteq duplicates
        ELSE Ring(Candidates, id, listed, duplicates \cup {id})
    <3>1. CASE duplicates = {}
      <4>1. Candidates = listed
        BY <1>1, <2>1, <3>1 DEF Going
      <4>2. \A i \in Candidates : Around(id, id, i) => i = id
        BY <1>2, <1>4 DEF Around
      <4>3. Around(id, id, id)
        BY <1>2, <1>4 DEF Around
      <4> QED
        BY <1>4, <3>1, <4>1, <4>2, <4>3 DEF Ring
    <3>2. CASE duplicates # {}
      <4>1. /\ AtPosition(Candidates, server_id, ns.pivot[func])
            /\ Ring(Candidates, server_id, listed, duplicates)
        BY <1>1, <2>1, <3>2 DEF Going, BetweenTries
      <4>2. server_id \in Candidates
        BY <4>1 DEF Ring
      <4>3. Follower(Candidates, server_id, id)
        BY <1>1, <4>1, <4>2, CandidateFollows
      <4> QED
        BY <1>2, <1>4, <4>1, <4>2, <4>3, RingAdvances
    <3> QED
      BY <3>1, <3>2
  <2> QED
    BY <1>1, <1>3, <1>4, <2>1, <2>2 DEF Going, BetweenTries
<1> QED
  BY <1>5

(* The steps that leave the client's directory alone. *)
LEMMA CallGoesRound ==
  ASSUME RoundInv,
         \/ RpcCacheCall \/ NoSuggestion \/ ReachCycle \/ CannotConnect \/ RemoteDisconnected
         \/ RpcCall \/ SendExecute
         \/ \E n \in 0 .. MaxVersion, next \in {"idle", "suggesting"} : ExecuteReply(n, next)
  PROVE  Round'
<1>0. Round
  BY DEF RoundInv
<1>1. ns' = ns
  BY DEF RpcCacheCall, NoSuggestion, ReachCycle, CannotConnect, RemoteDisconnected, RpcCall,
         SendExecute, ExecuteReply
<1>2. Candidates' = Candidates
  BY <1>1 DEF Candidates
<1>3. CASE RpcCacheCall
  <2>1. /\ phase' = "suggesting" /\ duplicates' = {} /\ listed' = Candidates
    BY <1>3 DEF RpcCacheCall, Candidates
  <2> QED
    BY <1>0, <1>1, <1>2, <2>1 DEF Round, Going, BetweenTries
<1>4. CASE NoSuggestion
  <2>1. Candidates = {} /\ phase' = "fallback" /\ listed' = listed /\ ordered' = ordered /\ duplicates' = duplicates
    BY <1>4 DEF NoSuggestion, Candidates, callVars
  <2> QED
    BY <1>0, <1>1, <1>2, <2>1 DEF Round
<1>5. CASE ReachCycle
  <2>1. /\ phase = "suggested" /\ server_id \in duplicates /\ phase' = "fallback"
        /\ listed' = listed /\ ordered' = ordered /\ duplicates' = duplicates /\ server_id' = server_id
    BY <1>5 DEF ReachCycle, callVars
  <2> QED
    BY <1>0, <1>1, <1>2, <2>1 DEF Round, Going, BetweenTries
<1>6. CASE CannotConnect \/ SendExecute
  <2>1. /\ phase = "suggested" /\ server_id \notin duplicates
        /\ phase' \in {"suggesting", "calling"}
        /\ listed' = listed /\ ordered' = ordered /\ duplicates' = duplicates \cup {server_id}
        /\ server_id' = server_id
    BY <1>6 DEF CannotConnect, SendExecute, Try
  <2> QED
    BY <1>0, <1>1, <1>2, <2>1 DEF Round, Going
<1>7. CASE RemoteDisconnected
  <2>1. /\ phase = "calling" /\ phase' = "suggesting"
        /\ listed' = listed /\ ordered' = ordered /\ duplicates' = duplicates /\ server_id' = server_id
    BY <1>7 DEF RemoteDisconnected, callVars
  <2>2. duplicates # {} \/ ~ (ordered /\ listed # {} /\ listed \subseteq Candidates)
    BY <1>0, <2>1 DEF Round, Going, BetweenTries, Ring
  <2> QED
    BY <1>0, <1>1, <1>2, <2>1, <2>2 DEF Round, Going, BetweenTries
<1>8. CASE \E n \in 0 .. MaxVersion, next \in {"idle", "suggesting"} : ExecuteReply(n, next)
  <2>1. PICK n \in 0 .. MaxVersion, next \in {"idle", "suggesting"} : ExecuteReply(n, next)
    BY <1>8
  <2>2. CASE next = "idle"
    BY <2>1, <2>2 DEF ExecuteReply, EndCall, Round
  <2>3. CASE next = "suggesting"
    <3>1. /\ phase = "calling" /\ phase' = "applying" /\ ordered' = ordered
          /\ listed' = listed /\ duplicates' = duplicates /\ server_id' = server_id
      BY <2>1, <2>3 DEF ExecuteReply, Reply, callVars
    <3> QED
      BY <1>0, <1>1, <1>2, <3>1 DEF Round, Going, BetweenTries
  <2> QED
    BY <2>2, <2>3
<1>9. CASE RpcCall
  BY <1>9 DEF RpcCall, EndCall, Round
<1> QED
  BY <1>3, <1>4, <1>5, <1>6, <1>7, <1>8, <1>9

LEMMA RoundInit == Init => RoundInv
<1> SUFFICES ASSUME Init PROVE RoundInv
  OBVIOUS
<1>1. listed = {}
  BY DEF Init
<1> QED
  BY <1>1, InvInit DEF RoundInv, Round

LEMMA RoundStep == RoundInv /\ [Next]_vars => RoundInv'
<1> SUFFICES ASSUME RoundInv, [Next]_vars
             PROVE  Round'
  BY InvStep DEF RoundInv
<1>1. CASE \/ UNCHANGED vars
           \/ \E name \in Name : ServerStarts(name) \/ ServerDies(name)
           \/ \E name \in Name, alive \in BOOLEAN : ServerAnnounces(name, alive)
           \/ \E id \in Id : ServerRegisters(id) \/ BinderKills(id)
  <2>1. UNCHANGED <<ns, phase, callVars, server_id, outcome>>
    BY <1>1 DEF vars, ServerStarts, ServerDies, ServerAnnounces, ServerRegisters, BinderKills,
                clientVars, replyVars
  <2> QED
    BY <2>1, SameRound
<1>2. CASE \/ RpcCacheCall \/ Loop \/ RpcCall
           \/ \E n \in 0 .. MaxVersion, next \in {"idle", "suggesting"} : ExecuteReply(n, next)
  BY <1>2, ApplyGoesRound, SkipGoesRound, SuggestGoesRound, CallGoesRound DEF Loop
<1> QED
  BY <1>1, <1>2 DEF Next

(* A client that falls back to the binder has tried all the candidates it   *)
(* began with, unless it dropped one of them or another came in below the   *)
(* rest, although others came in while it went round (TriedAll).            *)
THEOREM AllCandidatesTried == Spec => []TriedAll
<1>1. RoundInv => TriedAll
  BY DEF RoundInv, TriedAll, Round, Going, Candidates
<1> QED
  BY <1>1, RoundInit, RoundStep, PTL DEF Spec
=============================================================================
