------------------------------ MODULE TasksProofs ------------------------------
(***************************************************************************)
(* Theorems about Tasks, for any number of threads and calls.              *)
(***************************************************************************)
EXTENDS Tasks, FiniteSetTheorems, TLAPS

(* MAX_THREADS is a number. *)
LEMMA MaxThreadsType == MAX_THREADS \in Nat
BY TasksAssumption, FS_CardinalityType DEF MAX_THREADS

(* Every step keeps the types. *)
LEMMA TypeStep == TypeOK /\ [Next]_vars => TypeOK'
<1> SUFFICES ASSUME TypeOK, [Next]_vars PROVE TypeOK'
  OBVIOUS
<1> USE MaxThreadsType
<1>1. CASE UNCHANGED vars
  BY <1>1 DEF TypeOK, vars, queueVars, workerVars
<1>2. ASSUME NEW c \in Call, NEW force \in BOOLEAN, Push(c, force) PROVE TypeOK'
  BY <1>2 DEF Push, TypeOK, Main, Status, workerVars
<1>3. ASSUME NEW c \in Call, Reject(c) \/ Refuse(c) PROVE TypeOK'
  BY <1>3 DEF Reject, Refuse, TypeOK, Main, Status, queueVars, workerVars
<1>4. CASE PushPost
  BY <1>4 DEF PushPost, TypeOK, Main, queueVars, workerVars
<1>5. CASE Terminate
  BY <1>5 DEF Terminate, TypeOK, Main, queueVars, workerVars
<1>6. CASE TerminatePost
  BY <1>6 DEF TerminatePost, TypeOK, Main, queueVars, workerVars
<1>7. CASE Join
  BY <1>7 DEF Join, TypeOK, Main, queueVars, workerVars
<1>8. ASSUME NEW w \in Worker, Wake(w) PROVE TypeOK'
  BY <1>8 DEF Wake, Move, TypeOK, Thread, queueVars
<1>9. ASSUME NEW w \in Worker, Check(w) PROVE TypeOK'
  BY <1>9 DEF Check, Move, TypeOK, Thread, queueVars
<1>10. ASSUME NEW w \in Worker, Pop(w) PROVE TypeOK'
  <2>1. tasks \in Seq(Call) /\ tasks # <<>>
    BY <1>10 DEF Pop, TypeOK
  <2>2. Head(tasks) \in Call /\ Tail(tasks) \in Seq(Call)
    BY <2>1
  <2> QED
    BY <1>10, <2>2 DEF Pop, Move, TypeOK, Thread
<1>11. ASSUME NEW w \in Worker, Run(w) PROVE TypeOK'
  BY <1>11 DEF Run, Move, TypeOK, Thread, Status, queueVars
<1>12. ASSUME NEW w \in Worker, FinishedATask(w) PROVE TypeOK'
  BY <1>12 DEF FinishedATask, Move, TypeOK, Thread
<1> QED
  BY <1>1, <1>2, <1>3, <1>4, <1>5, <1>6, <1>7, <1>8, <1>9, <1>10, <1>11, <1>12
     DEF Next, Work

(* The pool starts with values of the right types. *)
LEMMA TypeInit == Init => TypeOK
<1> SUFFICES ASSUME Init PROVE TypeOK
  OBVIOUS
<1>1. posts \in 0 .. MAX_THREADS
  BY MaxThreadsType DEF Init
<1>2. tasks \in Seq(Call)
  BY DEF Init
<1>3. /\ thread \in [Worker -> Thread]
      /\ task \in [Worker -> Call \cup {NoCall}]
      /\ status \in [Call -> Status]
  BY DEF Init, Thread, Status
<1>4. main \in Main /\ task_sem \in Nat /\ num_tasks_avail \in Int
  BY DEF Init, Main
<1>5. is_terminate \in BOOLEAN
  BY Zenon DEF Init
<1> QED
  BY <1>1, <1>2, <1>3, <1>4, <1>5 DEF TypeOK

(* The variables of the pool have their types, for any number of threads. *)
THEOREM TasksTypeCorrect == Spec => []TypeOK
BY TypeInit, TypeStep, PTL DEF Spec

-----------------------------------------------------------------------------
(* The queue and the semaphore.  That every popping thread has a task rests *)
(* on the count of what the semaphore and the woken threads still stand for,*)
(* which is exact until terminate posts for more.                           *)

(* How many threads are at a place. *)
Count(at, place) == Cardinality({w \in Worker : at[w] = place})

(* Tasks in the queue whose post is still to come. *)
Unposted(at) == IF at = "pushed" THEN 1 ELSE 0

PoolInv ==
  /\ is_terminate <=> main \in {"closing", "joining", "returned"}
  /\ ~is_terminate =>
       task_sem + Count(thread, "woken") + Count(thread, "popping") + Unposted(main)
         = Len(tasks)
  /\ Count(thread, "popping") <= Len(tasks)

(* Threads can be counted. *)
LEMMA CountType ==
  \A at, place : /\ IsFiniteSet({w \in Worker : at[w] = place})
                 /\ Count(at, place) \in Nat
<1> TAKE at, place
<1>1. IsFiniteSet({w \in Worker : at[w] = place})
  BY TasksAssumption, FS_Subset
<1> QED
  BY <1>1, FS_CardinalityType DEF Count

(* One thread fewer at a place and one more at another. *)
OneMoved(at, moved, from, to) ==
  /\ Count(moved, from) = Count(at, from) - 1
  /\ Count(moved, to) = Count(at, to) + 1
  /\ \A place : place # from /\ place # to => Count(moved, place) = Count(at, place)

(* A thread that moves is counted at the new place and not at the old one. *)
LEMMA MoveCounts ==
  \A at \in [Worker -> Thread], w \in Worker, to \in Thread :
    at[w] # to => OneMoved(at, [at EXCEPT ![w] = to], at[w], to)
<1> SUFFICES ASSUME NEW at \in [Worker -> Thread], NEW w \in Worker, NEW to \in Thread,
                    NEW moved, at[w] # to, moved = [at EXCEPT ![w] = to]
             PROVE  OneMoved(at, moved, at[w], to)
  OBVIOUS
<1> DEFINE Threads(f, place) == {v \in Worker : f[v] = place}
<1>1. Threads(moved, at[w]) = Threads(at, at[w]) \ {w} /\ w \in Threads(at, at[w])
  OBVIOUS
<1>2. Threads(moved, to) = Threads(at, to) \cup {w} /\ w \notin Threads(at, to)
  OBVIOUS
<1>3. \A place : place # at[w] /\ place # to => Threads(moved, place) = Threads(at, place)
  OBVIOUS
<1>4. \A place : IsFiniteSet(Threads(at, place)) /\ Count(at, place) \in Nat
  BY CountType
<1>5. \A f, place : Count(f, place) = Cardinality(Threads(f, place))
  BY DEF Count
<1> HIDE DEF Threads
<1>6. Cardinality(Threads(at, at[w]) \ {w}) = Cardinality(Threads(at, at[w])) - 1
  BY <1>1, <1>4, FS_RemoveElement
<1>7. Cardinality(Threads(at, to) \cup {w}) = Cardinality(Threads(at, to)) + 1
  BY <1>2, <1>4, FS_AddElement
<1> QED
  BY <1>1, <1>2, <1>3, <1>5, <1>6, <1>7 DEF OneMoved

(* So for a step of a worker. *)
LEMMA StepCounts ==
  ASSUME TypeOK, NEW w \in Worker, NEW from \in Thread, NEW to \in Thread,
         from # to, thread[w] = from, Move(w, to)
  PROVE  OneMoved(thread, thread', from, to)
<1>1. thread \in [Worker -> Thread] /\ thread' = [thread EXCEPT ![w] = to]
  BY DEF TypeOK, Move
<1> QED
  BY <1>1, MoveCounts

(* Every step keeps the count. *)
LEMMA PoolStep == TypeOK /\ PoolInv /\ [Next]_vars => PoolInv'
<1> SUFFICES ASSUME TypeOK, PoolInv, [Next]_vars PROVE PoolInv'
  OBVIOUS
<1>1. /\ thread \in [Worker -> Thread] /\ task_sem \in Nat
      /\ tasks \in Seq(Call) /\ Len(tasks) \in Nat
      /\ Count(thread, "woken") \in Nat /\ Count(thread, "popping") \in Nat
      /\ Count(thread', "woken") \in Nat /\ Count(thread', "popping") \in Nat
  <2>1. \A at, place : Count(at, place) \in Nat
    BY CountType
  <2>2. /\ Count(thread, "woken") \in Nat /\ Count(thread, "popping") \in Nat
        /\ Count(thread', "woken") \in Nat /\ Count(thread', "popping") \in Nat
    BY <2>1
  <2> QED
    BY <2>2 DEF TypeOK
<1>2. ASSUME NEW c \in Call, NEW force \in BOOLEAN, Push(c, force) PROVE PoolInv'
  <2>1. Len(tasks') = Len(tasks) + 1 /\ thread' = thread
    BY <1>1, <1>2 DEF Push, workerVars
  <2> QED
    BY <1>1, <1>2, <2>1 DEF Push, Receive, PoolInv, Unposted
<1>3. ASSUME NEW c \in Call, Reject(c) \/ Refuse(c) PROVE PoolInv'
  BY <1>1, <1>3 DEF Reject, Refuse, Receive, PoolInv, Unposted, queueVars, workerVars
<1>4. CASE PushPost \/ Terminate \/ TerminatePost \/ Join \/ UNCHANGED vars
  BY <1>1, <1>4 DEF PushPost, Terminate, TerminatePost, Join, PoolInv, Unposted,
                    vars, queueVars, workerVars
<1>5. ASSUME NEW w \in Worker, Wake(w) PROVE PoolInv'
  <2>1. thread[w] = "waiting" /\ Move(w, "woken")
    BY <1>5 DEF Wake, At
  <2>2. /\ Count(thread', "woken") = Count(thread, "woken") + 1
        /\ Count(thread', "popping") = Count(thread, "popping")
    BY <1>1, <2>1, StepCounts DEF Thread, OneMoved
  <2> QED
    BY <1>1, <1>5, <2>2 DEF Wake, PoolInv, Unposted, queueVars
<1>6. ASSUME NEW w \in Worker, Check(w) PROVE PoolInv'
  <2>1. CASE is_terminate
    <3>1. thread[w] = "woken" /\ Move(w, "leaving")
      BY <1>6, <2>1 DEF Check, At
    <3>2. Count(thread', "popping") = Count(thread, "popping")
      BY <1>1, <3>1, StepCounts DEF Thread, OneMoved
    <3> QED
      BY <1>1, <1>6, <2>1, <3>2 DEF Check, PoolInv, Unposted, queueVars
  <2>2. CASE ~is_terminate
    <3>1. thread[w] = "woken" /\ Move(w, "popping")
      BY <1>6, <2>2 DEF Check, At
    <3>2. /\ Count(thread', "woken") = Count(thread, "woken") - 1
          /\ Count(thread', "popping") = Count(thread, "popping") + 1
      BY <1>1, <3>1, StepCounts DEF Thread, OneMoved
    <3>3. Unposted(main) \in Nat
      BY DEF Unposted
    <3> QED
      BY SMTT(30), <1>1, <1>6, <2>2, <3>2, <3>3 DEF Check, PoolInv, queueVars
  <2> QED
    BY <2>1, <2>2
<1>7. ASSUME NEW w \in Worker, Pop(w) PROVE PoolInv'
  <2>1. thread[w] = "popping" /\ Move(w, "running")
    BY <1>7 DEF Pop, At
  <2>2. /\ Count(thread', "woken") = Count(thread, "woken")
        /\ Count(thread', "popping") = Count(thread, "popping") - 1
    BY <1>1, <2>1, StepCounts DEF Thread, OneMoved
  <2>3. Len(tasks') = Len(tasks) - 1
    BY <1>1, <1>7 DEF Pop
  <2> QED
    BY <1>1, <1>7, <2>2, <2>3 DEF Pop, PoolInv, Unposted
<1>8. ASSUME NEW w \in Worker, Run(w) \/ FinishedATask(w) PROVE PoolInv'
  <2>1. PICK to \in {"waiting", "ended"} :
          thread[w] \in {"running", "leaving"} /\ Move(w, to)
    BY <1>8 DEF Run, FinishedATask, At
  <2>2. /\ Count(thread', "woken") = Count(thread, "woken")
        /\ Count(thread', "popping") = Count(thread, "popping")
    BY <1>1, <2>1, StepCounts DEF Thread, OneMoved
  <2> QED
    BY <1>1, <1>8, <2>2 DEF Run, FinishedATask, PoolInv, Unposted, queueVars
<1> QED
  BY <1>2, <1>3, <1>4, <1>5, <1>6, <1>7, <1>8 DEF Next, Work

(* No thread pops from an empty queue, however termination falls between a  *)
(* push, its post, the waking of a thread and its test.                     *)
THEOREM QueueNeverEmptyForPop == Spec => []PopHasTask
<1>1. Init => PoolInv
  <2> SUFFICES ASSUME Init PROVE PoolInv
    OBVIOUS
  <2>1. /\ {w \in Worker : thread[w] = "woken"} = {}
        /\ {w \in Worker : thread[w] = "popping"} = {}
    BY DEF Init
  <2>2. Count(thread, "woken") = 0 /\ Count(thread, "popping") = 0
    BY <2>1, FS_EmptySet DEF Count
  <2>3. Len(tasks) = 0
    BY DEF Init
  <2> QED
    BY <2>2, <2>3 DEF Init, PoolInv, Unposted
<1>2. Spec => [](TypeOK /\ PoolInv)
  BY <1>1, TypeInit, TypeStep, PoolStep, PTL DEF Spec
<1>3. PoolInv => PopHasTask
  BY DEF PoolInv, PopHasTask, Count
<1> QED
  BY <1>2, <1>3, PTL

-----------------------------------------------------------------------------
(* Where a call is held, without counting: the queue and the threads hold   *)
(* the accepted calls and no others, each of them in one place.             *)
HeldInv ==
  /\ \A w \in Worker : thread[w] = "running" <=> task[w] # NoCall
  /\ \A i \in 1 .. Len(tasks) : status[tasks[i]] = "accepted"
  /\ \A w \in Worker : task[w] # NoCall => status[task[w]] = "accepted"
  /\ \A c \in Call : status[c] = "accepted" =>
       (\E i \in 1 .. Len(tasks) : tasks[i] = c) \/ (\E w \in Worker : task[w] = c)
  /\ \A i, j \in 1 .. Len(tasks) : tasks[i] = tasks[j] => i = j
  /\ \A v, w \in Worker : task[v] = task[w] /\ task[v] # NoCall => v = w
  /\ \A i \in 1 .. Len(tasks), w \in Worker : tasks[i] # task[w]

(* push adds a call that is held nowhere yet. *)
LEMMA PushHolds ==
  ASSUME TypeOK, HeldInv, NEW c \in Call, NEW force \in BOOLEAN, Push(c, force)
  PROVE  HeldInv'
<1>1. /\ status[c] = "new" /\ status \in [Call -> Status]
      /\ status' = [status EXCEPT ![c] = "accepted"]
      /\ thread' = thread /\ task' = task /\ task \in [Worker -> Call \cup {NoCall}]
      /\ NoCall \notin Call
  BY TasksAssumption DEF Push, Receive, TypeOK, workerVars
<1>2. /\ Len(tasks) \in Nat /\ Len(tasks') = Len(tasks) + 1 /\ tasks'[Len(tasks) + 1] = c
      /\ \A i \in 1 .. Len(tasks) : tasks'[i] = tasks[i] /\ tasks[i] \in Call
  BY DEF Push, TypeOK
<1>3. \A i \in 1 .. Len(tasks) : tasks[i] # c
  BY <1>1 DEF HeldInv
<1>4. \A w \in Worker : task[w] # c
  BY <1>1 DEF HeldInv
<1>5. \A i \in 1 .. Len(tasks') : i \in 1 .. Len(tasks) \/ i = Len(tasks) + 1
  BY <1>2
<1>6. 1 .. Len(tasks) \subseteq 1 .. Len(tasks') /\ Len(tasks) + 1 \in 1 .. Len(tasks')
  BY <1>2
<1>7. \A i \in 1 .. Len(tasks') : status'[tasks'[i]] = "accepted"
  BY <1>1, <1>2, <1>3, <1>5 DEF HeldInv
<1>8. \A w \in Worker : task'[w] # NoCall => status'[task'[w]] = "accepted"
  BY <1>1, <1>4 DEF HeldInv
<1>9. \A d \in Call : status'[d] = "accepted" =>
        (\E i \in 1 .. Len(tasks') : tasks'[i] = d) \/ (\E w \in Worker : task'[w] = d)
  BY <1>1, <1>2, <1>6 DEF HeldInv
<1>10. \A i, j \in 1 .. Len(tasks') : tasks'[i] = tasks'[j] => i = j
  BY <1>2, <1>3, <1>5 DEF HeldInv
<1>11. \A i \in 1 .. Len(tasks'), w \in Worker : tasks'[i] # task'[w]
  BY <1>1, <1>2, <1>4, <1>5 DEF HeldInv
<1> QED
  BY <1>1, <1>7, <1>8, <1>9, <1>10, <1>11 DEF HeldInv

(* pop takes the first call of the queue to a thread that has none. *)
LEMMA PopHolds ==
  ASSUME TypeOK, HeldInv, NEW w \in Worker, Pop(w)
  PROVE  HeldInv'
<1> DEFINE c == Head(tasks)
<1>1. /\ thread[w] = "popping" /\ thread' = [thread EXCEPT ![w] = "running"]
      /\ task' = [task EXCEPT ![w] = c] /\ status' = status
      /\ thread \in [Worker -> Thread] /\ task \in [Worker -> Call \cup {NoCall}]
      /\ NoCall \notin Call
  BY TasksAssumption DEF Pop, At, Move, TypeOK
<1>2. /\ tasks \in Seq(Call) /\ tasks # <<>> /\ tasks' = Tail(tasks)
  BY DEF Pop, TypeOK
<1>3. /\ Len(tasks) \in Nat /\ Len(tasks') \in Nat /\ Len(tasks') + 1 = Len(tasks)
      /\ c = tasks[1] /\ c \in Call
      /\ \A i \in 1 .. Len(tasks') : tasks'[i] = tasks[i + 1]
  BY <1>2
<1> HIDE DEF c
<1>4. \A i \in 1 .. Len(tasks') : i + 1 \in 1 .. Len(tasks) /\ i + 1 # 1
  BY <1>3
<1>5. 1 \in 1 .. Len(tasks)
  BY <1>3
<1>6. task[w] = NoCall
  BY <1>1 DEF HeldInv
<1>7. \A v \in Worker : task[v] # c
  BY <1>3, <1>5 DEF HeldInv
<1>8. \A i \in 1 .. Len(tasks') : tasks'[i] # c
  BY <1>3, <1>4, <1>5 DEF HeldInv
<1>9. \A v \in Worker : thread'[v] = "running" <=> task'[v] # NoCall
  BY <1>1, <1>3 DEF HeldInv
<1>10. /\ \A i \in 1 .. Len(tasks') : status'[tasks'[i]] = "accepted"
       /\ \A v \in Worker : task'[v] # NoCall => status'[task'[v]] = "accepted"
  BY <1>1, <1>3, <1>4, <1>5 DEF HeldInv
<1>11. ASSUME NEW d \in Call, status'[d] = "accepted"
       PROVE  (\E i \in 1 .. Len(tasks') : tasks'[i] = d) \/ (\E v \in Worker : task'[v] = d)
  <2>1. CASE d = c
    BY <1>1, <2>1
  <2>2. CASE d # c /\ \E v \in Worker : task[v] = d
    BY <1>1, <1>6, <2>2
  <2>3. ASSUME d # c, NEW k \in 1 .. Len(tasks), tasks[k] = d
        PROVE  \E i \in 1 .. Len(tasks') : tasks'[i] = d
    <3>1. k - 1 \in 1 .. Len(tasks') /\ (k - 1) + 1 = k
      BY <1>3, <2>3
    <3> QED
      BY <1>3, <2>3, <3>1
  <2> QED
    BY <1>1, <1>11, <2>1, <2>2, <2>3 DEF HeldInv
<1>12. \A i, j \in 1 .. Len(tasks') : tasks'[i] = tasks'[j] => i = j
  <2> SUFFICES ASSUME NEW i \in 1 .. Len(tasks'), NEW j \in 1 .. Len(tasks'), tasks'[i] = tasks'[j]
               PROVE  i = j
    OBVIOUS
  <2>1. i + 1 = j + 1
    BY <1>3, <1>4 DEF HeldInv
  <2> QED
    BY <2>1
<1>13. \A v, u \in Worker : task'[v] = task'[u] /\ task'[v] # NoCall => v = u
  BY <1>1, <1>7 DEF HeldInv
<1>14. \A i \in 1 .. Len(tasks'), v \in Worker : tasks'[i] # task'[v]
  BY <1>1, <1>3, <1>4, <1>8 DEF HeldInv
<1> QED
  BY <1>9, <1>10, <1>11, <1>12, <1>13, <1>14 DEF HeldInv

(* A thread that has run its call holds it no longer. *)
LEMMA RunHolds ==
  ASSUME TypeOK, HeldInv, NEW w \in Worker, Run(w)
  PROVE  HeldInv'
<1>1. /\ thread[w] = "running" /\ thread' = [thread EXCEPT ![w] = "waiting"]
      /\ task' = [task EXCEPT ![w] = NoCall] /\ tasks' = tasks
      /\ status' = [status EXCEPT ![task[w]] = "ran"] /\ status \in [Call -> Status]
      /\ thread \in [Worker -> Thread] /\ task \in [Worker -> Call \cup {NoCall}]
      /\ \A i \in 1 .. Len(tasks) : tasks[i] \in Call
  BY DEF Run, At, Move, TypeOK, queueVars
<1>2. task[w] \in Call
  BY <1>1 DEF HeldInv
<1>3. \A v \in Worker : v # w => task[v] # task[w]
  BY <1>1 DEF HeldInv
<1>4. \A i \in 1 .. Len(tasks) : tasks[i] # task[w]
  BY DEF HeldInv
<1>5. \A v \in Worker : thread'[v] = "running" <=> task'[v] # NoCall
  BY <1>1 DEF HeldInv
<1>6. /\ \A i \in 1 .. Len(tasks) : status'[tasks[i]] = "accepted"
      /\ \A v \in Worker : task'[v] # NoCall => status'[task'[v]] = "accepted"
  BY <1>1, <1>2, <1>3, <1>4 DEF HeldInv
<1>7. \A c \in Call : status'[c] = "accepted" =>
        (\E i \in 1 .. Len(tasks) : tasks[i] = c) \/ (\E v \in Worker : task'[v] = c)
  BY <1>1, <1>2 DEF HeldInv
<1>8. /\ \A v, u \in Worker : task'[v] = task'[u] /\ task'[v] # NoCall => v = u
      /\ \A i \in 1 .. Len(tasks), v \in Worker : tasks[i] # task'[v]
  <2>1. NoCall \notin Call
    BY TasksAssumption
  <2> QED
    BY <1>1, <2>1 DEF HeldInv
<1> QED
  BY <1>1, <1>5, <1>6, <1>7, <1>8 DEF HeldInv

(* Every step keeps the calls where they are held. *)
LEMMA HeldStep == TypeOK /\ HeldInv /\ [Next]_vars => HeldInv'
<1> SUFFICES ASSUME TypeOK, HeldInv, [Next]_vars PROVE HeldInv'
  OBVIOUS
<1>1. ASSUME NEW c \in Call, Reject(c) \/ Refuse(c) PROVE HeldInv'
  <2>1. /\ status[c] = "new" /\ status \in [Call -> Status]
        /\ status' = [status EXCEPT ![c] = "rejected"] \/ status' = [status EXCEPT ![c] = "refused"]
        /\ thread' = thread /\ task' = task /\ tasks' = tasks
        /\ task \in [Worker -> Call \cup {NoCall}]
        /\ \A i \in 1 .. Len(tasks) : tasks[i] \in Call
    BY <1>1 DEF Reject, Refuse, Receive, TypeOK, queueVars, workerVars
  <2>2. \A d : status'[d] = "accepted" /\ d \in Call => status[d] = "accepted"
    BY <2>1
  <2>3. \A d \in Call : status[d] = "accepted" => status'[d] = "accepted"
    BY <2>1
  <2> QED
    BY <2>1, <2>2, <2>3 DEF HeldInv
<1>2. CASE PushPost \/ Terminate \/ TerminatePost \/ Join \/ UNCHANGED vars
  BY <1>2 DEF PushPost, Terminate, TerminatePost, Join, HeldInv, vars, queueVars, workerVars
<1>3. ASSUME NEW w \in Worker, Wake(w) \/ Check(w) \/ FinishedATask(w) PROVE HeldInv'
  <2>1. PICK to \in {"woken", "leaving", "popping", "ended"} :
          /\ thread[w] \in {"waiting", "woken", "leaving"}
          /\ thread' = [thread EXCEPT ![w] = to]
          /\ task' = task /\ tasks' = tasks /\ status' = status
    <3>1. CASE Wake(w)
      BY <3>1 DEF Wake, At, Move, queueVars
    <3>2. CASE Check(w) /\ is_terminate
      BY <3>2 DEF Check, At, Move, queueVars
    <3>3. CASE Check(w) /\ ~is_terminate
      BY <3>3 DEF Check, At, Move, queueVars
    <3>4. CASE FinishedATask(w)
      BY <3>4 DEF FinishedATask, At, Move
    <3> QED
      BY <1>3, <3>1, <3>2, <3>3, <3>4
  <2>2. \A v \in Worker : thread'[v] = "running" <=> thread[v] = "running"
    BY <2>1 DEF TypeOK
  <2> QED
    BY <2>1, <2>2 DEF HeldInv
<1> QED
  BY <1>1, <1>2, <1>3, PushHolds, PopHolds, RunHolds DEF Next, Work

(* A call that was accepted and has no reply yet is in one place, and any   *)
(* other in none, whatever the number of calls and threads (HeldOnce of     *)
(* Tasks).                                                                  *)
THEOREM CallsHeldOnce == Spec => []HeldOnce
<1>1. Init => HeldInv
  BY DEF Init, HeldInv
<1>2. Spec => [](TypeOK /\ HeldInv)
  BY <1>1, TypeInit, TypeStep, HeldStep, PTL DEF Spec
<1>3. TypeOK /\ HeldInv => HeldOnce
  <2> SUFFICES ASSUME TypeOK, HeldInv, NEW c \in Call
               PROVE  Cardinality({i \in 1 .. Len(tasks) : tasks[i] = c})
                        + Cardinality({w \in Worker : task[w] = c})
                          = IF status[c] = "accepted" THEN 1 ELSE 0
    BY DEF HeldOnce
  <2> DEFINE places == {i \in 1 .. Len(tasks) : tasks[i] = c}
             holders == {w \in Worker : task[w] = c}
  <2>1. c # NoCall
    BY TasksAssumption
  <2>2. ASSUME status[c] # "accepted"
        PROVE  Cardinality(places) = 0 /\ Cardinality(holders) = 0
    <3>1. places = {} /\ holders = {}
      BY <2>1, <2>2 DEF HeldInv
    <3> HIDE DEF places, holders
    <3> QED
      BY <3>1, FS_EmptySet
  <2>3. ASSUME status[c] = "accepted", NEW k \in 1 .. Len(tasks), tasks[k] = c
        PROVE  Cardinality(places) = 1 /\ Cardinality(holders) = 0
    <3>1. places = {k} /\ holders = {}
      BY <2>3 DEF HeldInv
    <3> HIDE DEF places, holders
    <3> QED
      BY <3>1, FS_EmptySet, FS_Singleton
  <2>4. ASSUME status[c] = "accepted", NEW w \in Worker, task[w] = c
        PROVE  Cardinality(places) = 0 /\ Cardinality(holders) = 1
    <3>1. places = {} /\ holders = {w}
      BY <2>1, <2>4 DEF HeldInv
    <3> HIDE DEF places, holders
    <3> QED
      BY <3>1, FS_EmptySet, FS_Singleton
  <2>5. status[c] = "accepted" =>
          \/ Cardinality(places) = 1 /\ Cardinality(holders) = 0
          \/ Cardinality(places) = 0 /\ Cardinality(holders) = 1
    <3> HIDE DEF places, holders
    <3> QED
      BY <2>3, <2>4 DEF HeldInv
  <2> QED
    BY <2>2, <2>5
<1> QED
  BY <1>2, <1>3, PTL
=============================================================================
