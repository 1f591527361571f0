# A verification of the a3 RPC system

The repository holds course work; its main program is `a3`, a remote procedure
call library in C++ with a central name server, the *binder*.  A smaller one,
`a2`, is a service that capitalises lines.  These modules model both, TLC checks
them on small instances, and TLAPS proves every safety property of the passing runs, and the
refinement, for instances of any size.

Unless a path says otherwise, the code referred to is under `src/a3/src`, and the
documents under `src/a3/doc`.  The build modelled is the one the Makefile makes, with
`-DNDEBUG`: the assertions of the code are properties here, not steps.

## 1. The system

| Component | State | Operations | Works with |
|---|---|---|---|
| Name directory (`name_service.cpp`) | the log of changes, `id_to_name` / `name_to_id`, `func_to_ids` with a round-robin pivot per function; one mutex | `register_name`, `register_fn`, `kill`, `suggest`, `get_logs`, `apply_logs`, `resolve` | every process has one; the binder's is the original |
| Binder (`binder.cpp`) | its directory, the next id | one handler per message, one request at a time; `terminate_servers` | servers and clients by messages; probes servers by connecting |
| Server library (`rpc.cpp`) | `server_id`, `function_map`, its directory, the stack of nested waits | `rpcInit`, `rpcRegister`, `rpcExecute`, `wait_for_desired` | the binder; hands calls to the pool |
| Client library (`rpc.cpp`) | its directory | `rpcCall`, `rpcCacheCall`, `rpcTerminate` | the binder for a location, a server for the call |
| Thread pool (`tasks.cpp`) | queue, semaphore, `num_tasks_avail`, `is_terminate`, 20 threads | `push`, `pop`, `run`, `terminate` | fed by `rpcExecute`; threads reply to clients |
| Postman and sockets (`postman.cpp`, `sockets.cpp`) | message queues, assembly buffers by descriptor; three mutexes | send, receive, connect, disconnect, `sync` | under everything |
| Marshalling (`common.cpp`, parts of `postman.cpp`, `tasks.cpp`) | none | push and pop of integers, floats, arrays, signatures | Postman, tasks |
| Termination protocol (`rpc.cpp`, `binder.cpp`) | `is_terminate`, the questions open at the binder | TERMINATE, CONFIRM_TERMINATE | client, binder, servers |
| String service (`src/a2`) | buffers at both ends, `num_pending`, the two threads of the client | `send`, `receive_any`, `sync`, `close` | a client and its server |

**How they interact.**  Every connection is a `ScopedConnection`: it carries one
request and at most one reply.  A request carries the version (log length) of the
sender's directory, and most replies carry the log entries the sender lacks, with
their versions; `apply_logs` skips the ones it has.  When a server starts
`rpcExecute` the binder tells every server to ask for an update, and a server asks
from *within* whatever it was waiting for.  The binder finds dead servers by
failing to connect to them, in `suggest` and when it broadcasts, and logs that they
were killed.

**What is hard here.**
- Updates reach a replica from the binder and from servers, for versions it had
  when it asked; servers die and restart, also at the same address, between any
  two steps.
- The nested waits read all messages of a process but expect one type.
- The pool's threads, its queue and its termination; replies that wait for a mutex the
  main thread holds while it waits for input.
- Messages cut anywhere by reads, buffers kept by descriptor number, and numbers that
  the system gives to another connection.
- Termination goes round the servers one by one, each asking back, while any of them may
  be dead, busy or not yet started, and other requests arrive at the binder.
- The round robin over a set that shrinks while it goes round.

The hazards, each at its line, are listed in `PROJECT.json`.

**What makes each component correct.**
- *Directory, replication*: maps and log agree; a replica's log is a prefix of the
  binder's, so that a version says exactly what a replica knows; the assertions in
  `apply_logs` hold; an id the binder suggests can be resolved; servers know
  themselves; the binder removes dead servers only; location requests are answered.
- *Pool*: no pop from an empty queue; each call is run once; termination reaches
  every thread.
- *Cached calls*: a client never writes entries of its own, never drops a live
  server, and its loop ends, after it has tried every candidate.
- *Postman and sockets*: a request is handled whole, once, and while its connection
  stands; replies leave, and reach the caller they are for.
- *Marshalling*: arguments arrive where they belong, although both ends use their own
  idea of the lengths of arrays.
- *Termination*: no server is passed over, none stops unasked, nobody waits for ever.
- *String service*: replies come back whole and in order, and the client ends when it
  has them all.

## 2. The modules

| Module | Models | Notes |
|---|---|---|
| `NameService` | class `NameService` | operators from a directory to the next one; no variables |
| `Directory` | binder, servers, clients and the messages between them | uses `NameService`; one `conn` record per connection |
| `ReplicatedLog` | what the directories promise | abstract: a log that grows, copies that catch up |
| `Tasks` | class `Tasks`, `run_thread`, the loop of `rpcExecute` | independent of `Directory`, where a worker's reply is one step |
| `CacheCall` | `rpcCacheCall` and `suggest` in a client | uses `NameService`; binder and servers are its environment |
| `Termination` | `rpcTerminate`, `terminate_servers`, the TERMINATE branch of `wait_for_desired` | messages about other things are counted |
| `Postman` | `Postman` and `TCP::Sockets` in a server, its clients and its pool | independent of what the messages mean |
| `Marshal` | what a call carries, from `send_execute` to `rpc_call_helper` | independent of how it is carried |
| `StringChannel` | the client and the server of `a2` | |
| `MCDirectory`, `MCTransport`, `MCStringChannel` | symmetry sets, small types and lines for TLC | `MCTransport` checks `Postman` and `Marshal` one after the other |
| `NameServiceProofs`, `DirectoryProofs`, `ServerProofs` | theorems about `Directory` | each extends the one before |
| `TasksProofs`, `CacheCallProofs`, `TerminationProofs`, `PostmanProofs` | theorems about the module of that name | |
| `StreamProofs` | theorems about `StringChannel` and `Marshal` | both are about what a reader finds at which place of a stream |

### NameService
A directory is a record with the fields of the class.  An absent key of a
`std::map` is `NoName` or `NoId`; `RegisterName` keeps an existing key, as
`std::map::insert` does.  `suggest_helper` is recursive; its turns (erase a
candidate, move the pivot) are operators, and the modules that use them make each
turn a step.  Log entries are records: serialisation keeps every field.  Functions
are model values, since `operator<` identifies signatures up to array length.

### Directory
State and code: `ns[p]` is the `NameService` of process p; `conn` the connections with
the one message that is on each; `serving` and `all_names` the handler the binder is
in, when it is one that loops; `phase[p]` the library call an application is in;
`waits[s]` the connections of the nested waits of `wait_for_desired`; `listen`,
`server_id`, `function_map` what their names say; `notices[s]` the unread
NEW_SERVER_EXECUTE messages of s.

Actions: the library calls are split where they wait (`RpcInit` / `RpcInitDone`, and
so on); each handler of the binder is one step, or, when it loops over probes of
servers, one step per turn, so that servers die and start between them.  `apply_logs`
is one step per entry: `ApplyLogs`.  `NewServerExecute`, `UpdateDone` and
`DropOtherRequest` are the branches of `wait_for_desired`.  A connection remembers
the process that waits for its reply (`src`); `Nobody` means that this end is closed.
The order in which a process reads different connections is free: `sync` reads by descriptor,
accepts one connection per call and leaves its loop at one that ended, so the I_AM_SERVER of
a dead server may be read after that of its successor at the same address.  `usurped`, a
history variable, are the live servers this has happened to.  `PeerUnknown` is the error path
of I_AM_SERVER.  Messages are not
lost while both ends live; a death leaves what was sent and turns what was not
answered into an end of file.

Assumptions about the outside:
- a server gets an address at which nobody listens, possibly that of a dead one;
- a connect fails only where nobody listens (`connect_remote` has other failures, `sockets.cpp`
  258-281: a name that cannot be resolved, no socket left);
- the binder does not die: every other process treats this as fatal.

### Tasks
Each critical section under `task_lock`, each semaphore operation and the test of
`is_terminate` is a step.  `Push` and `PushPost` are the two halves of `push`, `Refuse`
the return of `rpcExecute` for a function that is not registered, after which the
destructor has destroyed what the threads use and the model stops.  The write of
`is_terminate` is not synchronised with the threads that read it; the model takes
reads and writes of this bool as atomic.

### CacheCall
`RpcCacheCall` starts a call.  `SkipCandidate`, `Suggest` and `NoSuggestion` are the
turns of `suggest`; `ReachCycle`, `SendExecute`, `CannotConnect`, `ExecuteReply` and
`RemoteDisconnected` the loop; `RpcCall` the fallback.  A server listens (`ServerStarts`), gets
its id (`ServerAnnounces`) and registers the function (`ServerRegisters`) in three steps, with
anything between and in any order among servers; the binder may read the announcement of one that
is dead by then.  A server that is called may answer, die, or leave the call for ever:
it is in a nested wait, which drops an EXECUTE (`rpc.cpp` 701-704), or outside of `rpcExecute`.
A reply brings some first part of what
the binder has more than the client: that a server's log is a prefix of the binder's
is theorem `ReplicasCorrect`.  `listed`, the candidates the loop began with, and `ordered`,
whether those that came since came in behind the others, are history variables for `TriedAll`.

### Termination
`binder` says where the binder is: in the loop of `main`, at the top of the loop of
`terminate_servers` (`names` is what it has still to come to), in the wait in that loop.
`wire[s]` is what is under way on its connection to s, `stray[s]` a TERMINATE from
somebody else (`flow.tex` 45: from "anyone"), `question[s]` the connections on which s
has asked for a confirmation: a second TERMINATE is read within the wait for the answer
to the first.  `agreed`, `denied` and `passed` are history variables.

`SkipDeadServer`, `CannotSend` and `SendTerminate` are the three ways through the first half of
the loop: nobody listens; the write fails although the server runs, which is then taken for
dead (`binder.cpp` 38-45); TERMINATE is sent.  The write of `send_confirm_terminate` may fail
as well, and its result is not looked at (`Confirm`).  `passed` are the servers that run and
could not be written to.  A server's own write of its question is taken to succeed while the
binder runs (`rpc.cpp` 650-655 asserts it).

`WaitAnswered`, `WaitInterrupted` and `WaitBroken` are the ways the wait of
`terminate_servers` ends: with a question, with any other message, which is thrown away,
and with an error.  After an error the code tests a `Request` nobody has written:
`WaitBroken` takes either outcome, and `spinning` is a binder that tests it for ever.
`ReadWire` may return two messages of one read, of which the code keeps the first.
`Stop` is the code's answer to every answer; see `terminate_refused`.

### Postman
One server with clients that each make one call.  A message is some parts, the first of which is
its header; a read returns any number of them (`SyncRead`), and `read_avail` assembles them in
`asm_buf` by descriptor.  It takes the beginning of a read for a header whenever `str` is empty.
When it is not one, as after a short write, or after a read that ended with a header or within
it, the size is whatever twelve bytes of something else say: `HeaderSize` takes any of
`GarbageSize`, so that a piece of a message may count as a complete one, be dropped or be waited
behind.  `spoilt`, a history variable, are the descriptor numbers that have had a short write or
a cut header.  `sync` is one step for `select` and one for each turn of its loop
(`StartSync`, `SyncRead`, `SyncIdle`, `SyncDisconnect`); between these nobody else has the
mutex of the sockets, and a thread that replies waits for it (`ReplyExecute` queues,
`FlushReply` writes).  A new connection takes the lowest free number.  What is left in
`asm_buf` and `outgoing` stays when a connection ends, as in the code.

### Marshal
A value is a token that takes as many bytes as its type has, so an offset that is wrong
by a byte gives `Garbage`.  Cardinalities are the lower bits of an argument type, 0
standing for 1, and client and server may differ in the lengths of arrays.
`client_types` and `server_types` are the `argTypes` at either end; `MarshalCall`,
`UnmarshalCall`, `MarshalReply`, `UnmarshalReply` are the four conversions.

### StringChannel
Every method that holds the channel's lock is one step; `num_pending`, which is changed
outside of it by both threads of the client, is loaded and stored in two.  `Sync` is one
read and one write, with the test for room as the code makes it.  Lines are sequences of
spaces, lower and upper case letters; `cap_first_letter` is translated, and compared with
`Capitalised`.

## 3. The runs

| Run | Instance | Checks | States |
|---|---|---|---|
| `directory_safety` | 2 servers (both may die and restart), 1 client, 3 connections, 2 addresses, 1 function, 2 ids | `TypeOK` `NamesFollowLog` `ReplicaPrefix` `ApplyAsserts` `ReplyResolves` `ServerKnowsItself` `LiveServerListed` `UpdatesAreAwaited` | 482,000 |
| `directory_restart` | 1 server, 1 client, 2 connections, 1 address, 2 functions, 2 ids | `ImplementsReplicatedLog` | 256,000 |
| `directory_liveness` | 1 server, 1 client, both may die, 2 connections, 1 id | `LocRequestAnswered` | 49,000 |
| `tasks` | 3 threads, 4 calls | `TypeOK` `PopHasTask` `HeldOnce` `EveryTaskRuns` `TerminateReturns` | 216,000 |
| `cache_call` | 3 ids, 2 addresses, hence 3 candidates of which 2 live; 7 entries in the log; one id may go to a dead server | `TypeOK` `CachedLogIsPrefix` `LiveCandidateKept` `TriedAll` `LoopEnds` | 1,568,000 |
| `termination` | 2 servers, one may die, the binder may crash; a stray TERMINATE to each; 2 messages of clients | `TypeOK` `ExitTellsEveryone` `StoppedWasAnswered` `BinderComesToEnd` `AskingEnds` | 176,000 |
| `transport` | 2 connections, messages of 3 parts; the one client may die, the other's write may be short and its header cut; garbage sizes of 1, 2 and 9 parts; calls of up to 2 arguments | `TypeOK` `WholeCalls` `HandledWhileConnected` `TakenOnce` `OwnReply` `QueuedReplyLeaves` `CallAnswered`; `InputsArrive` `OutputsArrive` `ArgumentsKept` | 184,000 |
| `strings` | 2 lines out of three, buffers of 3 bytes | `TypeOK` `RepliesInOrder` `EndsComplete` `ClientEnds` | 36,000 |

Four runs show where the code does not do what it or its documents say; TLC finds the
violation in each:

| Run | Violated | What the code does |
|---|---|---|
| `other_request` | "unreachable -- cannot have other requests" (`rpc.cpp` 702) | a call that reaches a server before it has read REGISTER_DONE, or during a nested wait, is dropped |
| `refusal` | zombies "are not problematic" (`ns.tex` 82) | a call for a function the server lacks ends its `rpcExecute` |
| `tasks_reject` | no "free worker threads" (`errno.tex` 58) | after 20 calls in all, an idle pool rejects |
| `terminate_refused` | "If the binder agrees the confirmation" (`flow.tex` 46) | the server takes `is_terminate` from the TERMINATE message, which is empty, and stops when the binder says FALSE |

**What the properties except.**  Some passing properties hold only with an exception
that the code needs; the models show what happens otherwise.
- `LiveServerListed` and `ServerKnowsItself`, unless the announcement of a dead process at the
  server's address is read after its own.  The binder then removes the record of the live
  server, which applies the KILL of its own id with its next update, although "a server always
  has up-to-date information about itself" (`ns.tex` 25).  Only this order does such harm.
- `TriedAll`, unless a candidate was dropped, or one came in below another: erasing a dead
  candidate moves the others one position down under the pivot, and a live one is skipped,
  although the client should go on until "all candadates have been exhausted"
  (`optimization.tex` 4).  A reply may bring a candidate with a lower id, when servers register in
  another order than they announced themselves; it moves the others up, and the pivot comes to
  one that was tried before.
- `LiveCandidateKept`, unless the binder killed the server's id, for a late announcement.
- `LoopEnds`, unless the loop hangs on a server that runs and never answers.
- `ExitTellsEveryone`, unless a write to the server failed: "maybe the server is busy? assume
  it's dead" (`binder.cpp` 43).  The binder then exits, and the server runs on.
- `EveryTaskRuns`, unless the server stops: `terminate` throws queued calls away, where
  `flow.tex` 48 has "once all tasks end".  And when `rpcExecute` returns because it refused a
  call, the pool is destroyed with its threads waiting on it (`rpc.cpp` 531,
  `tasks.cpp` 155: "must call terminate() separately").
- `OwnReply`, unless some client died or failed to write with its call under way, or a header was cut: a reply
  written for a descriptor number that has changed hands goes to the next connection of
  that number, whose own reply then goes to the one after it, and so on.
- `WholeCalls`, on a number that is not spoilt, and `CallAnswered`, as long as none is and no
  client failed to write.  What a short write leaves in `asm_buf` is the beginning of the next connection's
  call; a header without a body leaves nothing, so that the body is read as a header
  (`postman.cpp` 353).  What the server then takes for a request depends on the bytes.
- `AskingEnds` and `BinderComesToEnd`, unless the binder loops on its unwritten `Request`.
- A server that has read CONFIRM_TERMINATE before it asks drops it; when its own question
  then finds the binder gone, it serves on.  No document says otherwise, so no property
  does.
- `EndsComplete` and `ClientEnds`, unless two updates of `num_pending` overlap: one is lost
  then, and the client ends too early or not at all, in spite of "all public methods are
  synchronized" (`src/a2/channel.hpp` 12).
- The read buffer of `a2` grows past SOCKET_BUF_SIZE, because the room left is a
  difference of unsigned numbers (`src/a2/sockets.cpp` 159); messages are not hurt.

**Bounds.**  `MaxId` bounds the ids, hence restarts: two ids are one restart of a
server, or two servers.  With two servers a broadcast meets a live and a dead one, and
notifications nest.  `Conn` bounds the connections open at a time; three let two nested
updates of a server overlap with a request of another process.  `Mortal` bounds who dies.
In `Tasks`, there is one call more than threads: every thread can be busy when a call is
refused, and calls can be queued, run at once, or anything between, while termination
wakes threads that have no call.  In `CacheCall` three candidates are the fewest
among which one can be skipped; a log of seven entries has all three named and registered and one
killed (`MaxVersion`); and `LateId` is the middle id, which may stand for a dead server from the
start.  In `Termination` one server of two may die, so that the
binder meets a dead one before, while and after it waits for it; a second client message
is what interrupts a wait.  In `Postman` two connections let a number change hands while
a reply to its former owner is on its way; three parts are a header and a body that can be cut;
garbage sizes of 1, 2 and 9 parts are a request without a body, one shorter than a message, and
one that no message completes; only one client's header is cut and its write short, so that the other may
inherit the number or be its neighbour; `MaxFd` only has to be as large as `Conn`.  In `Marshal` two arguments are enough for
one to be displaced by the other, two sizes for the displacement to be seen, and 3 values
of a cardinality for two different arrays and a scalar.  In `StringChannel` the buffer is
smaller than the longest message, so that messages span reads, and a read spans messages.
Ids, versions and pivots are unbounded integers in the
models: 32 bit overflow would take 2^32 registrations.

**Deadlock** is not checked: every instance stops by its bounds, and the system may
stop (clients that make no calls).

**Fairness.**  `Directory!Fairness` concerns the binder alone: it takes its requests from
a queue, so none waits for ever (strong fairness, because a client that gives up and
calls again disables and enables the handling of its connection), and a handler that
has begun goes on (weak).  Nothing is assumed of servers and clients.
`Tasks!Fairness`: the main thread goes on inside `push` and `terminate`, each thread runs,
a skeleton returns (`flow.tex` 47 says that otherwise `terminate` need not halt), and
a post wakes some waiting thread, not a particular one.  `CacheCall!FairSpec`: the
client's thread runs; nothing is assumed of a server that it has called.
`Termination!FairSpec`: the binder and the servers go on as long as they can; a server
comes to `rpcExecute`; nobody has to send anything or to die.  `Postman!Fairness`: the
main thread goes on, skeletons return, clients read what has come.  It is *not* assumed
that a thread ever gets the mutex it waits for: a mutex need not be fair, and the main thread
takes it again at once.  `StringChannel!FairSpec`: the threads run, and the input ends.

## 4. The proofs

`NameServiceProofs` has lemmas about the operators; the others have the theorems, 31 of
them, one of which only states the invariant of `Postman`.  All seven safety invariants of `Directory` that run `directory_safety` checks beside its
types are proved, for any number of servers, clients, connections, addresses, functions and
ids.  The only assumptions are the ASSUMEs on the constants.

**TypeCorrect** (`Directory`).  `TypeOK` is not inductive: that a REGISTER carries an id
rests on `rpcInit` having returned, which is what `ReadyHasId` and `MessagesOK` (the
fields of a message by its type and state) add.  One step per action.

**NamesCorrect, ReplicasCorrect, AssertsHold.**  The invariant is `LogInv`:
- every directory follows its log (`NamesFollowLog`), which alone does not say that
  the next entry may be applied;
- the binder's log is well-formed: an entry names a new id at a free address, or kills a
  named id, and no entry has an id not yet handed out (`Fresh`);
- each replica has a prefix of it, so what a replica has not applied is legal for it;
- each delta under way is a part of it that starts no later than the replica's version
  (`MessagesSent`), whichever version the request was made for.

Steps fall into four kinds (`StepKinds`): most leave all logs alone, the binder's handlers
write (`Writes`: the log grows, and remains well-formed), `ApplyLogs` catches up, a death
starts again.  The invariant is proved by kind, and the kinds once per action.

**DirectoriesAreReplicatedLog.**  From the same invariant: quiet steps stutter, the
binder's steps are `Extend`, `ApplyLogs` is a `CatchUp` or a stutter, a death a `Restart`.

**LiveServersListed, UpdatesAwaited** (`ServerProofs`).  The binder removes a record when it
cannot connect to its address, or when somebody announces itself at it.  So the
invariant `ServerInv` is about addresses and announcements:
- a server that is up listens, no two listen at the same address, and none has two
  announcements under way (`ServersListed`, `DistinctAddresses`, `OneAnnouncement`);
- from SERVER_OK on, and before the server has read it, its record is in the binder's
  directory, and from REGISTER_DONE on its functions are (`Listed`), unless it is `usurped`.

An I_AM_SERVER at the address of a server that has its id could only be its own, which has
been read, or that of a dead process: when the binder reads this one, the server becomes
`usurped`.  `KillDeadServer`, `KillCandidate` and `SkipUnresolvable`
concern addresses nobody listens at (`RecordsKept`).  For `UpdatesAwaited` the nested
waits of a server are for different questions of its own (`WaitsOwn`), and there are no more
open ones than waits (`AsksCounted`): `UpdateDone` ends one of each, even when the answer
it takes is not that of the innermost wait.

**ServersKnowThemselves, RepliesResolve** (`ServerProofs`).  Both say that a reply brings what
its reader is about to rely on.  `MessagesTold` says so of every reply, at every step of
`apply_logs`: an entry is in the reader's log or still in the delta (`Known`).  The
record of a server that is not `usurped` cannot have been killed, by the theorem above.  A suggested id can be: between the
reply and its reading the server may die and be removed.  What saves the lookup is
`AliveUntil`: the id was alive in the binder's log up to some version that neither the
client's log nor the delta goes beyond.  That needs a client to read one reply at a time
(`OneCall`); a second one could carry it past that version.

**TasksTypeCorrect, QueueNeverEmptyForPop, CallsHeldOnce** (`Tasks`).  `PopHasTask` rests
on a count: until `terminate`, the semaphore, the woken and the popping threads and the
post still to come stand for exactly the tasks in the queue; after it, no thread starts
popping.  `HeldOnce` counts places; `HeldInv`, which is inductive, says it without counting:
the queue has no call twice, no two threads hold the same, none is in both, and the calls
so held are the accepted ones.

**CacheCallTypeCorrect, CacheFollowsBinder, LiveServerStaysCandidate** (`CacheCall`).  The
client drops candidates by its own probes and shares nothing with the binder but entries.
`Inv` says that its maps of names follow its log, that its log is a prefix of the binder's,
that a delta under way is a part of that (`DeltaFits`), and that a server with an id was
announced under its address (`Announced`); in the binder's log an id comes in once, under one
name (`OneName`).  The crux is `RunningIsHeard`: when a server runs, the client's log has it,
and no kill of it, its address is still what
the log says, somebody listens there, and `SkipCandidate` does not drop it.

**AllCandidatesTried** (`CacheCall`).  The invariant is `RoundInv`.  As long as no
candidate was dropped, the candidates tried since the loop began stand next to one another on
the ring of candidates, from the first one suggested up to the last (`Ring`); so the
loop comes back to the first when it has tried the others.  A reply may bring newcomers in
the middle of a round.  Candidates are kept by id: those that come in behind all others
(`ordered`) are tried too before the pivot
returns, and do not move those it has passed (`RingGrows`); one the round did not begin with
may be dropped again (`RingLoses`).  The difficulty is that the pivot is a number
taken modulo the number of candidates, which has changed.

**TerminationTypeCorrect, EveryServerTold, StopsWereAnswered** (`Termination`).  For
`ExitTellsEveryone` the invariant is `Told`: while the binder goes round, a live server is
among the names to come, the one waited for, confirmed, or one the binder could not write to; after a
crash nothing is claimed.  For `StoppedWasAnswered` it is `Recorded`: a CONFIRM_TERMINATE on the wire and an
answer on a question are of a server in the history.  That a server has at most two
questions open is a count (`Counted`): its questions, the TERMINATE to come from the binder
and that of a stranger are two at most.

**PostmanTypes, CallsWhole, CallsConnected, CallsTakenOnce, RepliesOwn** (`Postman`), for any number of
connections and parts of a message.  `PostmanInv` follows each part of a message:
- what is under way on a connection is the rest of its message (`UpInOrder`), and no part
  is in two places (`PartsDiffer`);
- the buffer of a number that is not spoilt holds the first parts of the message of whoever is
  behind it, the rest of which is under way, and its size is the size of a message (`AllAssembled`);
- something of what a buffer waits for is always missing (`Sized`);
- the header of a call that waits in `incoming` or was taken is nowhere any more
  (`RequestsDiffer`);
- what is in `incoming` came from descriptors the loop of `sync` has passed (`Passed`).

A read hands a message over, keeps it in the buffer or, if it was a header and no more, forgets
it (`ReadSplit`); on a number that is not spoilt, only the whole message is handed over and
nothing forgotten, because every read there begins with the header or goes on in the body
(`ReadAssembles`).  On a spoilt number nothing is said of sizes; all the proof needs there is that
parts are moved and never copied.  When the connection of a number that is not spoilt ends, its
client had written all, all of it has been read, and the buffer is empty, so that the next
connection of the number begins with nothing.  That `sync` always finds a number for a new connection is counted too
(`FreeNumber`): no two numbers stand for the same connection.

For `RepliesOwn` the invariant is `ReplyInv`, which claims something as long as no client
has died or failed to write and no header was cut (`AllWell`).  A call that was taken is with a thread, or its
reply is queued, or under way, or read, and until it is read its client waits and is
behind the number the call came from (`Replies`); so `sync` finds nobody else there, and
ends a connection only after its client closed it (`Ready`).  That a client has one reply in
one of these places at a time rests on `TakenOnce`: a call in `incoming` has not been taken
(`Untaken`).

**StringTypesCorrect, RepliesComeInOrder, ClientEndsComplete** (`StringChannel`), for any lines
and any size of the buffers.  What an end has still to take is one stream: the part of a
message it has assembled, its read buffer, what is on the wire and the write buffer of the
other end, one behind the other.  The invariant `StringInv` says that there is a number k of
requests the server has taken such that (`InOrder`) the stream of the server is made of the
requests after the k-th (`Framed`: it can be cut into a size, the characters and NUL of each)
and that of the client of the replies up to the k-th that it has not printed.  Reads and
writes move bytes within a stream and leave it as it is (`SyncKeeps`), which does not depend
on the room in the buffers; a send adds one message behind it (`SendAppends`); and
`receive_any`, when it has a whole message, has the first of the stream
(`ReceiveTakesFirst`).  That the server's loop over the characters gives `Capitalised` is
`CapFirstLetter`.  For `EndsComplete`, `num_pending` is the lines sent less the replies printed,
but for an update that has begun (`Pending`), as long as no two updates overlapped.

**InputsReachTheSkeleton, OutputsReachTheClient, OtherArgumentsKept** (`Marshal`), for any
number of arguments and any types, widths and cardinalities.  The invariant `Carried` says
what the stream and the memories are at each stage; the work is in what the conversions
compute.  Pushing the arguments one after the other gives a stream in which the values of
argument i stand at the sum of the bytes of those before it (`ValuesPushed`, from `Flattened`
and `OffsetsSummed`); popping reads at the sum of the bytes by the types of the other end
(`PopFinds`); and the two sums are equal when the arguments before i are `Aligned`
(`SameOffsets`).

The functions these modules define by recursion, sums, `FlattenSeq` and the loop of
`cap_first_letter`, are reasoned about by a least counterexample: `LeastNumber`, that a set of
naturals that is not empty has a least element, comes from the well-foundedness of the order of
the naturals in the library, where induction itself cannot be cited for it takes an operator.

**Only model-checked** are the liveness properties: `LocRequestAnswered`, `EveryTaskRuns`,
`TerminateReturns`, `LoopEnds`, `BinderComesToEnd`, `AskingEnds`, `QueuedReplyLeaves`,
`CallAnswered` and `ClientEnds`.  They rest on fairness, hence on ENABLED, which TLAPS does not
reason about here.

## 5. Not modelled, and the plan

Not modelled, and why:
- What exactly the bytes of a garbage header say, and what type the request has then: any size
  of a few, and a request that is taken for a call or dropped.
- Failures of `connect` other than that nobody listens.
- In sockets: `select` interrupted by a signal, SIGPIPE, descriptors beyond FD_SETSIZE and
  `FD_SET` of -1 after a failed `accept`; the system's answers to these are not in the
  source.  The client's own postman has one connection at a time and reads one reply.
- The nesting of the NEW_SERVER_EXECUTE branch of `wait_for_desired` in its TERMINATE branch
  and the other way round: `Directory` and `Termination` have one each.
- Two nested waits for NS_UPDATE_SENT in which the inner one takes the outer one's reply,
  so that the outer one waits for good, are in `Directory` (`UpdateDone`); a cached call that
  runs twice is in `CacheCall` (`RemoteDisconnected`).  No document promises otherwise, so
  neither has a property.
- In marshalling, the order of the bytes in an integer and the conversion of strings and
  floats: both ends run the same code.
- In `a2`, the death of the server, after which the client's thread loops, and a second
  client, whose end erases an element from the container the loop of `sync` is in
  (`src/a2/sockets.cpp` 169; undefined behaviour).
- Debug output, the sample programs, course notes and essays: no state, or no program.

The plan:
- abstract specifications of the transport: a call that is handled once and answered to its
  caller for `Postman`, a service that replies in order for `StringChannel`, with theorems that
  these implement them, from the invariants above;
- the two branches of `wait_for_desired` nested into one another, with `Directory` and
  `Termination` composed.

## 6. Running it

    tlc -config directory_safety.cfg MCDirectory
    tlc -config termination.cfg Termination
    tlapm DirectoryProofs.tla
