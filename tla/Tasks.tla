--------------------------------- MODULE Tasks ---------------------------------
(***************************************************************************)
(* The thread pool of a server: class Tasks, the loop of rpcExecute that   *)
(* feeds it, and the worker threads that empty it.                         *)
(*                                                                         *)
(* A call is one EXECUTE request with a reply owed to it.  Every critical  *)
(* section under task_lock is one step; taking and giving the semaphore    *)
(* are steps of their own, so a thread may be held up between any two.     *)
(* The build modelled has -DNDEBUG: the assertions are properties here.    *)
(***************************************************************************)
EXTENDS Integers, Sequences, FiniteSets

CONSTANTS Worker,  \* the threads: MAX_THREADS of them
          Call,    \* bound: the calls that reach this server
          NoCall

ASSUME TasksAssumption == IsFiniteSet(Worker) /\ NoCall \notin Call

MAX_THREADS == Cardinality(Worker)

VARIABLES
  main,             \* where the main thread is
  posts,            \* the sem_post calls terminate still has to make
  tasks,            \* the queue
  task_sem,         \* the value of the semaphore
  num_tasks_avail,
  is_terminate,     \* Tasks::is_terminate
  thread,           \* where each worker is
  task,             \* the call a worker has popped
  status            \* what has become of each call

queueVars == <<tasks, num_tasks_avail>>
workerVars == <<thread, task>>
vars == <<main, posts, queueVars, task_sem, is_terminate, workerVars, status>>

(* running: in the loop of rpcExecute; pushed: a task is in the queue and   *)
(* the semaphore is next; closing and joining: the two loops of terminate;  *)
(* left: rpcExecute returned from within the loop.                          *)
Main == {"running", "pushed", "closing", "joining", "returned", "left"}

(* waiting: in sem_wait; woken: back from it; popping: saw no termination;  *)
(* running: in Task::run; leaving: saw termination; ended: joinable.        *)
Thread == {"waiting", "woken", "popping", "running", "leaving", "ended"}

Status == {"new", "accepted", "ran", "rejected", "refused"}

Init ==
  /\ main = "running"
  /\ posts = 0
  /\ tasks = <<>>
  /\ task_sem = 0
  /\ num_tasks_avail = 0
  /\ is_terminate = FALSE
  /\ thread = [w \in Worker |-> "waiting"]
  /\ task = [w \in Worker |-> NoCall]
  /\ status = [c \in Call |-> "new"]

-----------------------------------------------------------------------------
(* The main thread: the loop of rpcExecute and the methods it calls. *)

Receive(c) == main = "running" /\ status[c] = "new"

(* push up to the end of its critical section.  rpcCall forces the server   *)
(* to queue its calls, rpcCacheCall does not.                               *)
Push(c, is_force_queue_task) ==
  /\ Receive(c)
  /\ is_force_queue_task \/ num_tasks_avail < MAX_THREADS
  /\ tasks' = Append(tasks, c)
  /\ num_tasks_avail' = num_tasks_avail + 1
  /\ status' = [status EXCEPT ![c] = "accepted"]
  /\ main' = "pushed"
  /\ UNCHANGED <<posts, task_sem, is_terminate, workerVars>>

(* mutant: the threads are not told *)
TellNobody ==
  /\ main = "pushed"
  /\ main' = "running"
  /\ UNCHANGED <<posts, queueVars, task_sem, is_terminate, workerVars, status>>

(* The rest of push. *)
PushPost ==
  /\ main = "pushed"
  /\ task_sem' = task_sem + 1
  /\ main' = "running"
  /\ UNCHANGED <<posts, queueVars, is_terminate, workerVars, status>>

(* push returns false, and rpcExecute replies SERVER_HAS_NO_AVAIL_THREADS. *)
Reject(c) ==
  /\ Receive(c)
  /\ num_tasks_avail >= MAX_THREADS
  /\ status' = [status EXCEPT ![c] = "rejected"]
  /\ UNCHANGED <<main, posts, queueVars, task_sem, is_terminate, workerVars>>

(* The function is not registered: rpcExecute returns what the reply does,  *)
(* and the destructor of its Tasks destroys the lock, the semaphore and the *)
(* queue.  What the threads do from then on is undefined; the model ends.   *)
Refuse(c) ==
  /\ Receive(c)
  /\ status' = [status EXCEPT ![c] = "refused"]
  /\ main' = "left"
  /\ UNCHANGED <<posts, queueVars, task_sem, is_terminate, workerVars>>

(* mutant: one thread too few is woken *)
TerminateOneShort ==
  /\ main = "running"
  /\ is_terminate' = TRUE
  /\ posts' = MAX_THREADS - 1
  /\ main' = "closing"
  /\ UNCHANGED <<queueVars, task_sem, workerVars, status>>

(* terminate, once a confirmed TERMINATE has ended the loop ... *)
Terminate ==
  /\ main = "running"
  /\ is_terminate' = TRUE
  /\ posts' = MAX_THREADS
  /\ main' = "closing"
  /\ UNCHANGED <<queueVars, task_sem, workerVars, status>>

(* ... its loop of sem_post calls ... *)
TerminatePost ==
  /\ main = "closing"
  /\ IF posts > 0
     THEN posts' = posts - 1 /\ task_sem' = task_sem + 1 /\ UNCHANGED main
     ELSE main' = "joining" /\ UNCHANGED <<posts, task_sem>>
  /\ UNCHANGED <<queueVars, is_terminate, workerVars, status>>

(* ... and its loop of joins, after which rpcExecute returns. *)
Join ==
  /\ main = "joining"
  /\ \A w \in Worker : thread[w] = "ended"
  /\ main' = "returned"
  /\ UNCHANGED <<posts, queueVars, task_sem, is_terminate, workerVars, status>>

-----------------------------------------------------------------------------
(* A worker: run_thread. *)

At(w, place) == main # "left" /\ thread[w] = place

Move(w, place) == thread' = [thread EXCEPT ![w] = place]

(* mutant: the thread does not wait *)
WakeUnasked(w) ==
  /\ At(w, "waiting")
  /\ task_sem' = task_sem - 1
  /\ Move(w, "woken")
  /\ UNCHANGED <<main, posts, queueVars, is_terminate, task, status>>

(* sem_wait returns. *)
Wake(w) ==
  /\ At(w, "waiting")
  /\ task_sem > 0
  /\ task_sem' = task_sem - 1
  /\ Move(w, "woken")
  /\ UNCHANGED <<main, posts, queueVars, is_terminate, task, status>>

(* mutant: a woken thread does not ask why *)
CheckNothing(w) ==
  /\ At(w, "woken")
  /\ Move(w, "popping")
  /\ UNCHANGED <<main, posts, queueVars, task_sem, is_terminate, task, status>>

Check(w) ==
  /\ At(w, "woken")
  /\ Move(w, IF is_terminate THEN "leaving" ELSE "popping")
  /\ UNCHANGED <<main, posts, queueVars, task_sem, is_terminate, task, status>>

(* mutant: front without pop *)
PopNothing(w) ==
  /\ At(w, "popping")
  /\ tasks # <<>>
  /\ task' = [task EXCEPT ![w] = Head(tasks)]
  /\ Move(w, "running")
  /\ UNCHANGED <<main, posts, queueVars, task_sem, is_terminate, status>>

Pop(w) ==
  /\ At(w, "popping")
  /\ tasks # <<>>
  /\ tasks' = Tail(tasks)
  /\ task' = [task EXCEPT ![w] = Head(tasks)]
  /\ Move(w, "running")
  /\ UNCHANGED <<main, posts, num_tasks_avail, task_sem, is_terminate, status>>

(* Task::run returns: the reply is out.  num_tasks_avail stays as it is. *)
Run(w) ==
  /\ At(w, "running")
  /\ status' = [status EXCEPT ![task[w]] = "ran"]
  /\ task' = [task EXCEPT ![w] = NoCall]
  /\ Move(w, "waiting")
  /\ UNCHANGED <<main, posts, queueVars, task_sem, is_terminate>>

(* finished_a_task, where the thread ends. *)
FinishedATask(w) ==
  /\ At(w, "leaving")
  /\ num_tasks_avail' = num_tasks_avail - 1
  /\ Move(w, "ended")
  /\ UNCHANGED <<main, posts, tasks, task_sem, is_terminate, task, status>>

-----------------------------------------------------------------------------
Work(w) == Check(w) \/ Pop(w) \/ Run(w) \/ FinishedATask(w)

Next ==
  \/ \E c \in Call : Reject(c) \/ Refuse(c) \/ \E force \in BOOLEAN : Push(c, force)
  \/ PushPost \/ Terminate \/ TerminatePost \/ Join
  \/ \E w \in Worker : Wake(w) \/ Work(w)

Spec == Init /\ [][Next]_vars

(* Threads run, and skeletons return.  The semaphore wakes some thread, not *)
(* any one in particular.                                                   *)
Fairness ==
  /\ WF_vars(PushPost) /\ WF_vars(TerminatePost) /\ WF_vars(Join)
  /\ WF_vars(\E w \in Worker : Wake(w))
  /\ \A w \in Worker : WF_vars(Work(w))

FairSpec == Spec /\ Fairness

-----------------------------------------------------------------------------
(* The type invariant. *)
TypeOK ==
  /\ main \in Main
  /\ posts \in 0 .. MAX_THREADS
  /\ tasks \in Seq(Call)
  /\ task_sem \in Nat
  /\ num_tasks_avail \in Int
  /\ is_terminate \in BOOLEAN
  /\ thread \in [Worker -> Thread]
  /\ task \in [Worker -> Call \cup {NoCall}]
  /\ status \in [Call -> Status]

(* "assert(!tasks.tasks.empty())" (tasks.cpp 221, 201): the queue has a     *)
(* task for every thread that has got past the test of is_terminate, though *)
(* terminate posts for tasks that do not exist.                             *)
PopHasTask == Cardinality({w \in Worker : thread[w] = "popping"}) <= Len(tasks)

(* A call that was accepted and has no reply yet is in one place, in the    *)
(* queue or with one thread; any other is in none.                          *)
HeldOnce ==
  \A c \in Call :
    Cardinality({i \in 1 .. Len(tasks) : tasks[i] = c})
      + Cardinality({w \in Worker : task[w] = c})
        = IF status[c] = "accepted" THEN 1 ELSE 0

(* An accepted call is run, unless the server stops first. *)
EveryTaskRuns ==
  \A c \in Call :
    status[c] = "accepted" ~> status[c] = "ran" \/ is_terminate \/ main = "left"

(* terminate returns: its posts reach every thread, those that are running  *)
(* a task when it is called and those already woken for one included.       *)
TerminateReturns == is_terminate ~> main = "returned"

(* SERVER_HAS_NO_AVAIL_THREADS: "the server rejects a request because it    *)
(* doesn't have any free worker threads" (errno.tex 58), so never while the *)
(* queue is empty and every thread waits for work.                          *)
RejectsOnlyWhenBusy ==
  [][\A c \in Call :
       status[c] = "new" /\ status'[c] = "rejected"
         => tasks # <<>> \/ \E w \in Worker : thread[w] # "waiting"]_vars
==============================================================================
