-------------------------- MODULE FLASH_Queue_exec --------------------------
(***************************************************************************)
(* The dispatcher of SuperMatrix: the parallel execution of the tasks of   *)
(* one region (src/base/flamec/supermatrix/main/FLASH_Queue_exec.c, built  *)
(* with FLA_ENABLE_MULTITHREADING and without GPU support).                *)
(*                                                                         *)
(* The task graph is what FLASH_Queue leaves behind (module FLASH_Queue).  *)
(* The main thread puts the tasks that wait for nothing on the waiting     *)
(* queues; then the worker threads dequeue a task, execute it, notify the  *)
(* tasks that depend on it and free it, until all tasks have committed.    *)
(*                                                                         *)
(* A waiting queue is the sequence of its tasks.  A thread reads the list  *)
(* when it has got a lock and writes the changed list when it releases the *)
(* lock: where that is not the lock of this queue, what other threads do   *)
(* to the list in between is lost.  Acquiring a lock is a step of its own  *)
(* for run_lock, dep_lock and war_lock, whose choice of index is part of   *)
(* the protocol; the critical sections of all_lock and cac_lock are one    *)
(* step.  Which waiting task finds an output block in the simulated cache  *)
(* is a nondeterministic choice.                                           *)
(***************************************************************************)
EXTENDS Integers, Sequences, FiniteSets

CONSTANTS
  Block,     \* the blocks of the matrices
  MaxTasks,  \* bound: tasks of one region
  NThreads,  \* flash_queue_n_threads
  Execution  \* what may be executed: task graphs, each with the user's settings

Task == 1..MaxTasks
Thread == 0..(NThreads - 1)
NULL == 0        \* no task
Free == -1       \* no thread: the holder of a free lock

Affinity == {"NONE", "2D", "1D_ROW", "1D_COLUMN", "ROUND_ROBIN"}

SettingType == [cores_per_queue : Nat, caching : BOOLEAN, work_stealing : BOOLEAN,
                sorting : BOOLEAN, data_affinity : Affinity]

(* The graph of a region: its number of tasks and, for each task, the      *)
(* dependence list, the count of dependences that FLASH_Queue_init_tasks   *)
(* computes, the input and output blocks, the queue number noted when it   *)
(* was pushed and whether it frees a buffer; for each block its read id,   *)
(* position in its matrix, last writer and list of readers.                *)
GraphType ==
  [n_tasks : Nat, dep_arg : [Task -> Seq(Task)], n_ready : [Task -> Nat],
   in : [Task -> Seq(Block)], out : [Task -> Seq(Block)], queue : [Task -> Nat],
   frees : [Task -> BOOLEAN], read_id : [Block -> Nat], m_index : [Block -> Nat],
   n_index : [Block -> Nat], write_task : [Block -> Task \cup {NULL}],
   read_task : [Block -> Seq(Task)]]

Graph == {x.graph : x \in Execution}
Setting == {x.setting : x \in Execution}

Nodes(g) == UNION {{i} \X (1..Len(g.dep_arg[i])) : i \in 1..g.n_tasks}
InEdges(g, j) == {e \in Nodes(g) : g.dep_arg[e[1]][e[2]] = j}

ASSUME ThreadsAssumption == NThreads \in Nat /\ NThreads > 0 /\ MaxTasks \in Nat

ASSUME SettingAssumption == \A s \in Setting : s \in SettingType

(* FLASH_Queue guarantees this of the graphs it builds: dependences point  *)
(* to later tasks, the count of dependences is the number of nodes that    *)
(* name the task, and what a block remembers has accessed it.              *)
ASSUME GraphAssumption ==
  \A g \in Graph :
    /\ g \in GraphType /\ 0 < g.n_tasks /\ g.n_tasks <= MaxTasks
    /\ \A i \in 1..g.n_tasks :
         /\ \A k \in 1..Len(g.dep_arg[i]) : i < g.dep_arg[i][k] /\ g.dep_arg[i][k] <= g.n_tasks
         /\ g.n_ready[i] = Cardinality(InEdges(g, i))
         /\ g.out[i] # <<>>
    /\ \A b \in Block :
         /\ g.write_task[b] # NULL =>
              /\ g.write_task[b] <= g.n_tasks
              /\ \E m \in 1..Len(g.out[g.write_task[b]]) : g.out[g.write_task[b]][m] = b
         /\ \A l \in 1..Len(g.read_task[b]) :
              /\ g.read_task[b][l] <= g.n_tasks
              /\ \E m \in 1..Len(g.in[g.read_task[b][l]]) : g.in[g.read_task[b][l]][m] = b

VARIABLES
  dag, conf,                       \* the graph and the settings in effect
  n_init,                          \* tasks seen by FLASH_Queue_init_tasks
  wait_queue, n_ready, queue, hit, \* waiting queues; fields of the tasks
  write_task, read_task,           \* fields of the blocks
  run_lock, dep_lock, war_lock,    \* holders of the locks
  n_committed,                     \* args->pc
  state,                           \* history: "waiting", "running", "done" of a task
  freed,                           \* history: the tasks that have been freed
  freed_nodes,                     \* history: reader nodes of a block freed so far
  pc, t, r, k, lq, cnt, enq, lock, nodes,  \* each thread's place and locals
  view                             \* per thread: the waiting queue it works on, as read

shared == <<wait_queue, n_ready, queue, hit, write_task, read_task, n_committed>>
locks  == <<run_lock, dep_lock, war_lock>>
ghosts == <<state, freed, freed_nodes>>
locals == <<pc, t, r, k, lq, cnt, enq, lock, nodes, view>>
vars == <<dag, conf, n_init, shared, locks, ghosts, locals>>

-----------------------------------------------------------------------------
(* The settings in effect, from the user's settings.                       *)

(* Number of queues and the settings FLASH_Queue_exec switches off or on.  *)
Configure(s) ==
  LET with(q, aff, steal) ==
        [n_queues |-> q, data_affinity |-> aff, work_stealing |-> steal,
         caching |-> s.caching, sorting |-> s.sorting]
      aff0   == IF s.caching THEN "NONE" ELSE s.data_affinity
      steal0 == s.work_stealing /\ ~s.caching /\ aff0 = "NONE"
      n      == NThreads \div s.cores_per_queue
  IN  IF s.cores_per_queue <= 0
      THEN with(IF aff0 = "NONE" /\ ~steal0 THEN 1 ELSE NThreads, aff0, steal0)
      ELSE IF n <= 1
           THEN with(1, "NONE", FALSE)
           ELSE with(n, IF s.data_affinity = "NONE" /\ ~s.work_stealing
                        THEN "2D" ELSE s.data_affinity, s.work_stealing)

(* The threads divide evenly among the queues; otherwise the last ones     *)
(* serve a queue that does not exist.                                      *)
ASSUME QueuesAssumption == \A s \in Setting : NThreads % Configure(s).n_queues = 0

ConfType == [n_queues : 1..NThreads, data_affinity : Affinity,
             work_stealing : BOOLEAN, caching : BOOLEAN, sorting : BOOLEAN]

Queue == 0..(conf.n_queues - 1)

(* The queue that thread i serves.                                         *)
MyQueue(i) == i \div (NThreads \div conf.n_queues)

(* The factorisation of the number of queues for 2D data affinity: the     *)
(* largest divisor that is at most its square root is the width.           *)
Width(n) == CHOOSE w \in 1..n :
              /\ w * w <= n /\ n % w = 0
              /\ \A v \in 1..n : v * v <= n /\ n % v = 0 => v <= w

(* The queue of task i by the data affinity of its first output block.     *)
QueueOf(g, c, i) ==
  LET b == g.out[i][1]
      w == Width(c.n_queues)
      l == c.n_queues \div w
  IN  CASE c.data_affinity = "NONE"        -> 0
        [] c.data_affinity = "2D"          -> (g.m_index[b] % l) + (g.n_index[b] % w) * l
        [] c.data_affinity = "1D_ROW"      -> g.m_index[b] % c.n_queues
        [] c.data_affinity = "1D_COLUMN"   -> g.n_index[b] % c.n_queues
        [] c.data_affinity = "ROUND_ROBIN" -> g.queue[i] % c.n_queues

(* The height of the tasks in the graph; freeing a buffer goes first.      *)
Height(g) ==
  LET h[i \in 1..g.n_tasks] ==
        LET below == {h[g.dep_arg[i][m]] : m \in 1..Len(g.dep_arg[i])}
            top   == IF below = {} THEN 0 ELSE CHOOSE x \in below : \A y \in below : y <= x
        IN  top + 1 + IF g.frees[i] THEN g.n_tasks ELSE 0
  IN  h

-----------------------------------------------------------------------------
(* Waiting queues.                                                         *)

\* Mutant: the waiting queue is never sorted.
KeepAll(s, x) == Len(s)

(* How many tasks of s stay in front of task x: all of them or, with       *)
(* sorting, those up to the last one that is at least as high.             *)
Keep(s, x) ==
  IF ~conf.sorting THEN Len(s)
  ELSE LET h == Height(dag)
           ge == {m \in 1..Len(s) : h[s[m]] >= h[x]}
       IN  IF ge = {} THEN 0 ELSE CHOOSE m \in ge : \A l \in ge : l <= m

InsertIndex(s, m, x) == SubSeq(s, 1, m) \o <<x>> \o SubSeq(s, m + 1, Len(s))
RemoveIndex(s, m) == SubSeq(s, 1, m - 1) \o SubSeq(s, m + 1, Len(s))

(* What a thread knows of waiting queue q when it starts to work on it.    *)
ViewOf(q) == [queue |-> q, list |-> wait_queue[q]]
NoView == [queue |-> 0, list |-> <<>>]

See(i, q) == view' = [view EXCEPT ![i] = ViewOf(q)]
Forget(i) == view' = [view EXCEPT ![i] = NoView]

(* FLASH_Queue_wait_enqueue: x goes on the queue of view v.                *)
Enqueue(v, x) ==
  wait_queue' = [wait_queue EXCEPT ![v.queue] = InsertIndex(v.list, Keep(v.list, x), x)]

\* Mutant: the head is unlinked although another task is returned.
DequeueUnlinksHead(v, m, found) ==
  /\ m \in 1..Len(v.list)
  /\ found => conf.caching /\ Len(v.list) > 1
  /\ ~found => m = 1
  /\ wait_queue' = [wait_queue EXCEPT ![v.queue] = Tail(v.list)]
  /\ hit' = IF found THEN [hit EXCEPT ![v.list[m]] = TRUE] ELSE hit

(* FLASH_Queue_wait_dequeue: the head or, with caching and more than one   *)
(* task, the first task with an output block in the cache.  found tells    *)
(* which of the two, m the place of the task taken.                        *)
Dequeue(v, m, found) ==
  /\ m \in 1..Len(v.list)
  /\ found => conf.caching /\ Len(v.list) > 1
  /\ ~found => m = 1
  /\ wait_queue' = [wait_queue EXCEPT ![v.queue] = RemoveIndex(v.list, m)]
  /\ hit' = IF found THEN [hit EXCEPT ![v.list[m]] = TRUE] ELSE hit

-----------------------------------------------------------------------------
(* Initialisation by the main thread.                                      *)

InitWith(g, s) ==
  /\ dag = g
  /\ conf = Configure(s)
  /\ n_init = 0
  /\ wait_queue = [q \in Queue |-> <<>>]
  /\ n_ready = g.n_ready
  /\ queue = [i \in Task |-> IF i <= g.n_tasks THEN QueueOf(g, conf, i) ELSE 0]
  /\ hit = [i \in Task |-> FALSE]
  /\ write_task = g.write_task /\ read_task = g.read_task
  /\ run_lock = [q \in Queue |-> Free]
  /\ dep_lock = [i \in Thread |-> Free]
  /\ war_lock = [i \in Thread |-> Free]
  /\ n_committed = 0
  /\ state = [i \in Task |-> "waiting"]
  /\ freed = {} /\ freed_nodes = [b \in Block |-> 0]
  /\ pc = [i \in Thread |-> "loop"]
  /\ t = [i \in Thread |-> NULL] /\ r = [i \in Thread |-> NULL]
  /\ k = [i \in Thread |-> 1]
  /\ lq = [i \in Thread |-> 0] /\ cnt = [i \in Thread |-> 0]
  /\ enq = [i \in Thread |-> NULL] /\ lock = [i \in Thread |-> 0]
  /\ nodes = [i \in Thread |-> <<>>] /\ view = [i \in Thread |-> NoView]

Init == \E x \in Execution : InitWith(x.graph, x.setting)

(* The second loop of FLASH_Queue_init_tasks, from head to tail.           *)
FLASH_Queue_init_tasks ==
  /\ n_init < dag.n_tasks
  /\ n_init' = n_init + 1
  /\ IF n_ready[n_init + 1] = 0
     THEN Enqueue(ViewOf(queue[n_init + 1]), n_init + 1)
     ELSE UNCHANGED wait_queue
  /\ UNCHANGED <<dag, conf, n_ready, queue, hit, write_task, read_task, n_committed,
                 locks, ghosts, locals>>

-----------------------------------------------------------------------------
(* FLASH_Queue_exec_parallel_function: the loop of worker thread i.        *)

(* The threads are created once the tasks are initialised.                 *)
At(i, label) == n_init = dag.n_tasks /\ pc[i] = label
Goto(i, label) == pc' = [pc EXCEPT ![i] = label]

\* Mutant: the lock is taken without waiting for its holder.
TakeRun(i, q) == run_lock' = [run_lock EXCEPT ![q] = i]

AcquireRun(i, q) == run_lock[q] = Free /\ run_lock' = [run_lock EXCEPT ![q] = i]
ReleaseRun(q) == run_lock' = [run_lock EXCEPT ![q] = Free]

(* Thread i starts to execute task x.                                      *)
Run(i, x) ==
  /\ t' = [t EXCEPT ![i] = x]
  /\ state' = [state EXCEPT ![x] = "running"]
  /\ Goto(i, "exec")

(* No task is bound to the thread: it locks its waiting queue.             *)
Loop(i) ==
  /\ At(i, "loop") /\ r[i] = NULL
  /\ AcquireRun(i, MyQueue(i)) /\ See(i, MyQueue(i))
  /\ Goto(i, "dequeue")
  /\ UNCHANGED <<dag, conf, n_init, shared, dep_lock, war_lock, ghosts,
                 t, r, k, lq, cnt, enq, lock, nodes>>

(* The bound task is next.                                                 *)
LoopBound(i) ==
  /\ At(i, "loop") /\ r[i] # NULL
  /\ Run(i, r[i])
  /\ r' = [r EXCEPT ![i] = NULL]
  /\ UNCHANGED <<dag, conf, n_init, shared, locks, freed, freed_nodes,
                 k, lq, cnt, enq, lock, nodes, view>>

DequeueTask(i) ==
  /\ At(i, "dequeue")
  /\ \E m \in 1..Len(view[i].list), found \in BOOLEAN :
       /\ Dequeue(view[i], m, found)
       /\ Run(i, view[i].list[m])
  /\ ReleaseRun(MyQueue(i)) /\ Forget(i)
  /\ UNCHANGED <<dag, conf, n_init, n_ready, queue, write_task, read_task, n_committed,
                 dep_lock, war_lock, freed, freed_nodes, r, k, lq, cnt, enq, lock, nodes>>

DequeueNone(i) ==
  /\ At(i, "dequeue") /\ view[i].list = <<>>
  /\ ReleaseRun(MyQueue(i)) /\ Forget(i)
  /\ t' = [t EXCEPT ![i] = NULL]
  /\ Goto(i, IF conf.work_stealing /\ conf.n_queues > 1 THEN "steal" ELSE "commit")
  /\ UNCHANGED <<dag, conf, n_init, shared, dep_lock, war_lock, ghosts,
                 r, k, lq, cnt, enq, lock, nodes>>

(* FLASH_Queue_exec_task returns.                                          *)
Exec(i) ==
  /\ At(i, "exec")
  /\ state' = [state EXCEPT ![t[i]] = "done"]
  /\ k' = [k EXCEPT ![i] = 1]
  /\ Goto(i, IF conf.caching THEN "bind" ELSE "dep")
  /\ UNCHANGED <<dag, conf, n_init, shared, locks, freed, freed_nodes,
                 t, r, lq, cnt, enq, lock, nodes, view>>

-----------------------------------------------------------------------------
(* FLASH_Task_update_dependencies and FLASH_Task_update_binding.           *)

(* With caching the thread first takes another task from the queue of the  *)
(* task it has executed.                                                   *)
Bind(i) ==
  /\ At(i, "bind")
  /\ AcquireRun(i, queue[t[i]]) /\ See(i, queue[t[i]])
  /\ lock' = [lock EXCEPT ![i] = queue[t[i]]]
  /\ Goto(i, "bind_dequeue")
  /\ UNCHANGED <<dag, conf, n_init, shared, dep_lock, war_lock, ghosts,
                 t, r, k, lq, cnt, enq, nodes>>

BindDequeue(i) ==
  /\ At(i, "bind_dequeue")
  /\ \/ \E m \in 1..Len(view[i].list), found \in BOOLEAN :
          /\ Dequeue(view[i], m, found)
          /\ r' = [r EXCEPT ![i] = view[i].list[m]]
     \/ /\ view[i].list = <<>>
        /\ UNCHANGED <<wait_queue, hit, r>>
  /\ ReleaseRun(lock[i]) /\ Forget(i)
  /\ Goto(i, "dep")
  /\ UNCHANGED <<dag, conf, n_init, n_ready, queue, write_task, read_task, n_committed,
                 dep_lock, war_lock, ghosts, t, k, lq, cnt, enq, lock, nodes>>

(* The task that the k-th node of the dependence list names.               *)
Dependent(i) == dag.dep_arg[t[i]][k[i]]

(* With work stealing a dependent task follows its predecessor's queue.    *)
(* The queue is written and then read without a lock.                      *)
DepQueue(i) ==
  /\ At(i, "dep") /\ k[i] <= Len(dag.dep_arg[t[i]])
  /\ queue' = IF conf.work_stealing THEN [queue EXCEPT ![Dependent(i)] = queue[t[i]]]
                                    ELSE queue
  /\ Goto(i, "dep_read")
  /\ UNCHANGED <<dag, conf, n_init, wait_queue, n_ready, hit, write_task, read_task,
                 n_committed, locks, ghosts, t, r, k, lq, cnt, enq, lock, nodes, view>>

DepRead(i) ==
  /\ At(i, "dep_read")
  /\ lq' = [lq EXCEPT ![i] = queue[Dependent(i)]]
  /\ Goto(i, "notify")
  /\ UNCHANGED <<dag, conf, n_init, shared, locks, ghosts,
                 t, r, k, cnt, enq, lock, nodes, view>>

DepDone(i) ==
  /\ At(i, "dep") /\ k[i] > Len(dag.dep_arg[t[i]])
  /\ Goto(i, "free")
  /\ UNCHANGED <<dag, conf, n_init, shared, locks, ghosts, t, r, k, lq, cnt, enq, lock, nodes, view>>

\* Mutant: the lock is chosen by the task that notifies.
DepLockOfNotifier(i) == (t[i] - 1) % NThreads

(* The lock of the dependent task's n_ready; the order field of a task is  *)
(* one less than its number here.                                          *)
DepLock(i) == (Dependent(i) - 1) % NThreads

\* Mutant: the last dependence is not waited for.
ReadyEarly(n) == n <= 1

IsReady(n) == n = 0

(* The decrement of n_ready under dep_lock: a read and a write.            *)
Notify(i) ==
  /\ At(i, "notify")
  /\ dep_lock[DepLock(i)] = Free
  /\ dep_lock' = [dep_lock EXCEPT ![DepLock(i)] = i]
  /\ cnt' = [cnt EXCEPT ![i] = n_ready[Dependent(i)]]
  /\ Goto(i, "notify_write")
  /\ UNCHANGED <<dag, conf, n_init, shared, run_lock, war_lock, ghosts,
                 t, r, k, lq, enq, lock, nodes, view>>

NotifyWrite(i) ==
  /\ At(i, "notify_write")
  /\ n_ready' = [n_ready EXCEPT ![Dependent(i)] = cnt[i] - 1]
  /\ dep_lock' = [dep_lock EXCEPT ![DepLock(i)] = Free]
  /\ IF IsReady(cnt[i] - 1)
     THEN Goto(i, "ready") /\ UNCHANGED k
     ELSE Goto(i, "dep") /\ k' = [k EXCEPT ![i] = @ + 1]
  /\ UNCHANGED <<dag, conf, n_init, wait_queue, queue, hit, write_task, read_task,
                 n_committed, run_lock, war_lock, ghosts, t, r, lq, cnt, enq, lock, nodes, view>>

(* The newly ready task may be bound to this thread.                       *)
Binding(i) == conf.caching /\ queue[t[i]] = lq[i]

BindFirst(i) ==
  /\ At(i, "ready") /\ Binding(i) /\ r[i] = NULL
  /\ r' = [r EXCEPT ![i] = Dependent(i)]
  /\ hit' = [hit EXCEPT ![Dependent(i)] = TRUE]
  /\ k' = [k EXCEPT ![i] = @ + 1]
  /\ Goto(i, "dep")
  /\ UNCHANGED <<dag, conf, n_init, wait_queue, n_ready, queue, write_task, read_task,
                 n_committed, locks, ghosts, t, lq, cnt, enq, lock, nodes, view>>

(* It replaces a bound task that has no block in the cache or is lower.    *)
Swap(i) == LET h == Height(dag)
           IN  ~hit[r[i]] \/ (conf.sorting /\ h[r[i]] < h[Dependent(i)])

BindSwap(i) ==
  /\ At(i, "ready") /\ Binding(i) /\ r[i] # NULL /\ Swap(i)
  /\ AcquireRun(i, queue[r[i]]) /\ See(i, queue[r[i]])
  /\ lock' = [lock EXCEPT ![i] = queue[r[i]]]
  /\ enq' = [enq EXCEPT ![i] = r[i]]
  /\ r' = [r EXCEPT ![i] = Dependent(i)]
  /\ hit' = [hit EXCEPT ![r[i]] = FALSE, ![Dependent(i)] = TRUE]
  /\ Goto(i, "enqueue")
  /\ UNCHANGED <<dag, conf, n_init, wait_queue, n_ready, queue, write_task, read_task,
                 n_committed, dep_lock, war_lock, ghosts, t, k, lq, cnt, nodes>>

(* Otherwise it goes on a waiting queue: update_binding locks the queue of *)
(* the task, update_dependencies the queue it read before the decrement;   *)
(* wait_enqueue changes the queue that the task's own field names now.     *)
Ready(i) ==
  /\ At(i, "ready") /\ (Binding(i) => r[i] # NULL /\ ~Swap(i))
  /\ LET q == IF Binding(i) THEN queue[Dependent(i)] ELSE lq[i]
     IN  AcquireRun(i, q) /\ lock' = [lock EXCEPT ![i] = q]
  /\ See(i, queue[Dependent(i)])
  /\ enq' = [enq EXCEPT ![i] = Dependent(i)]
  /\ Goto(i, "enqueue")
  /\ UNCHANGED <<dag, conf, n_init, shared, dep_lock, war_lock, ghosts,
                 t, r, k, lq, cnt, nodes>>

EnqueueTask(i) ==
  /\ At(i, "enqueue")
  /\ Enqueue(view[i], enq[i])
  /\ ReleaseRun(lock[i]) /\ Forget(i)
  /\ enq' = [enq EXCEPT ![i] = NULL]
  /\ k' = [k EXCEPT ![i] = @ + 1]
  /\ Goto(i, "dep")
  /\ UNCHANGED <<dag, conf, n_init, n_ready, queue, hit, write_task, read_task, n_committed,
                 dep_lock, war_lock, ghosts, t, r, lq, cnt, lock, nodes>>

-----------------------------------------------------------------------------
(* FLASH_Task_free_parallel.                                               *)

(* The output blocks forget their last writer; no lock is held.            *)
FreeWrites(i) ==
  /\ At(i, "free")
  /\ write_task' = [b \in Block |->
        IF \E m \in 1..Len(dag.out[t[i]]) : dag.out[t[i]][m] = b THEN NULL ELSE write_task[b]]
  /\ k' = [k EXCEPT ![i] = 1]
  /\ Goto(i, "free_reads")
  /\ UNCHANGED <<dag, conf, n_init, wait_queue, n_ready, queue, hit, read_task, n_committed,
                 locks, ghosts, t, r, lq, cnt, enq, lock, nodes, view>>

FreedBlock(i) == dag.in[t[i]][k[i]]

\* Mutant: the lock is chosen by the task that is freed.
WarLockOfTask(i) == (t[i] - 1) % NThreads

WarLock(i) == dag.read_id[FreedBlock(i)] % NThreads

(* Under war_lock the list of readers of an input block is read and        *)
(* emptied; its nodes are freed afterwards.                                *)
FreeReads(i) ==
  /\ At(i, "free_reads") /\ k[i] <= Len(dag.in[t[i]])
  /\ war_lock[WarLock(i)] = Free
  /\ war_lock' = [war_lock EXCEPT ![WarLock(i)] = i]
  /\ nodes' = [nodes EXCEPT ![i] = read_task[FreedBlock(i)]]
  /\ Goto(i, "free_clear")
  /\ UNCHANGED <<dag, conf, n_init, shared, run_lock, dep_lock, ghosts,
                 t, r, k, lq, cnt, enq, lock, view>>

FreeClear(i) ==
  /\ At(i, "free_clear")
  /\ read_task' = [read_task EXCEPT ![FreedBlock(i)] = <<>>]
  /\ war_lock' = [war_lock EXCEPT ![WarLock(i)] = Free]
  /\ freed_nodes' = [freed_nodes EXCEPT ![FreedBlock(i)] = @ + Len(nodes[i])]
  /\ nodes' = [nodes EXCEPT ![i] = <<>>]
  /\ k' = [k EXCEPT ![i] = @ + 1]
  /\ Goto(i, "free_reads")
  /\ UNCHANGED <<dag, conf, n_init, wait_queue, n_ready, queue, hit, write_task, n_committed,
                 run_lock, dep_lock, state, freed, t, r, lq, cnt, enq, lock, view>>

FreeTask(i) ==
  /\ At(i, "free_reads") /\ k[i] > Len(dag.in[t[i]])
  /\ freed' = freed \cup {t[i]}
  /\ Goto(i, "commit")
  /\ UNCHANGED <<dag, conf, n_init, shared, locks, state, freed_nodes,
                 t, r, k, lq, cnt, enq, lock, nodes, view>>

-----------------------------------------------------------------------------
(* FLASH_Queue_work_stealing: the last task of a random other queue.       *)

Steal(i) ==
  /\ At(i, "steal")
  /\ \E q \in Queue \ {MyQueue(i)} :
       /\ AcquireRun(i, q) /\ See(i, q)
       /\ lock' = [lock EXCEPT ![i] = q]
  /\ Goto(i, "steal_dequeue")
  /\ UNCHANGED <<dag, conf, n_init, shared, dep_lock, war_lock, ghosts,
                 t, r, k, lq, cnt, enq, nodes>>

\* Mutant: the stolen task stays in the queue.
UnlinkNothing(s) == s

UnlinkTail(s) == RemoveIndex(s, Len(s))

StealDequeue(i) ==
  /\ At(i, "steal_dequeue")
  /\ LET s == view[i].list
     IN  IF s = <<>>
         THEN UNCHANGED <<wait_queue, queue, r>>
         ELSE /\ wait_queue' = [wait_queue EXCEPT ![view[i].queue] = UnlinkTail(s)]
              /\ queue' = [queue EXCEPT ![s[Len(s)]] = MyQueue(i)]
              /\ r' = [r EXCEPT ![i] = s[Len(s)]]
  /\ ReleaseRun(lock[i]) /\ Forget(i)
  /\ Goto(i, "commit")
  /\ UNCHANGED <<dag, conf, n_init, n_ready, hit, write_task, read_task, n_committed,
                 dep_lock, war_lock, ghosts, t, k, lq, cnt, enq, lock, nodes>>

AllCommitted(n) == n >= dag.n_tasks

(* Under all_lock the executed task is counted; the thread leaves the loop *)
(* when all the tasks have been.                                           *)
Commit(i) ==
  /\ At(i, "commit")
  /\ n_committed' = IF t[i] # NULL THEN n_committed + 1 ELSE n_committed
  /\ Goto(i, IF AllCommitted(n_committed') THEN "exit" ELSE "loop")
  \* the locals are set again before they are read
  /\ t' = [t EXCEPT ![i] = NULL]
  /\ k' = [k EXCEPT ![i] = 1]
  /\ lq' = [lq EXCEPT ![i] = 0] /\ cnt' = [cnt EXCEPT ![i] = 0]
  /\ lock' = [lock EXCEPT ![i] = 0]
  /\ UNCHANGED <<dag, conf, n_init, wait_queue, n_ready, queue, hit, write_task, read_task,
                 locks, ghosts, r, enq, nodes, view>>

-----------------------------------------------------------------------------
Step(i) ==
  \/ Loop(i) \/ LoopBound(i) \/ DequeueTask(i) \/ DequeueNone(i) \/ Exec(i)
  \/ Bind(i) \/ BindDequeue(i) \/ DepQueue(i) \/ DepRead(i) \/ DepDone(i)
  \/ Notify(i) \/ NotifyWrite(i) \/ BindFirst(i) \/ BindSwap(i) \/ Ready(i) \/ EnqueueTask(i)
  \/ FreeWrites(i) \/ FreeReads(i) \/ FreeClear(i) \/ FreeTask(i)
  \/ Steal(i) \/ StealDequeue(i) \/ Commit(i)

(* The region has ended: the threads are joined.                           *)
Terminated == \A i \in Thread : pc[i] = "exit"

Next == FLASH_Queue_init_tasks \/ (\E i \in Thread : Step(i))
        \/ (Terminated /\ UNCHANGED vars)

Spec == Init /\ [][Next]_vars

(* Every thread keeps running, and a thread that waits for a lock which is *)
(* released again and again gets it at last.                               *)
FairSpec == Spec /\ WF_vars(FLASH_Queue_init_tasks) /\ \A i \in Thread : SF_vars(Step(i))

-----------------------------------------------------------------------------
(* Properties.                                                             *)

Label == {"loop", "dequeue", "exec", "bind", "bind_dequeue", "dep", "dep_read", "notify",
          "notify_write", "ready", "enqueue", "free", "free_reads", "free_clear",
          "steal", "steal_dequeue", "commit", "exit"}

TypeOK ==
  /\ dag \in Graph /\ conf \in ConfType /\ n_init \in 0..dag.n_tasks
  /\ wait_queue \in [Queue -> Seq(Task)]
  /\ n_ready \in [Task -> Int] /\ queue \in [Task -> Queue] /\ hit \in [Task -> BOOLEAN]
  /\ write_task \in [Block -> Task \cup {NULL}] /\ read_task \in [Block -> Seq(Task)]
  /\ run_lock \in [Queue -> Thread \cup {Free}]
  /\ dep_lock \in [Thread -> Thread \cup {Free}]
  /\ war_lock \in [Thread -> Thread \cup {Free}]
  /\ n_committed \in Nat
  /\ state \in [Task -> {"waiting", "running", "done"}]
  /\ freed \in SUBSET Task /\ freed_nodes \in [Block -> Nat]
  /\ pc \in [Thread -> Label] /\ k \in [Thread -> Nat]
  /\ t \in [Thread -> Task \cup {NULL}] /\ r \in [Thread -> Task \cup {NULL}]
  /\ enq \in [Thread -> Task \cup {NULL}]
  /\ lq \in [Thread -> Queue] /\ lock \in [Thread -> Queue] /\ cnt \in [Thread -> Int]
  /\ nodes \in [Thread -> Seq(Task)]
  /\ view \in [Thread -> [queue : Queue, list : Seq(Task)]]

Region == 1..dag.n_tasks

(* Whatever the interleaving, the region executes every task exactly once, *)
(* a task only when all the tasks it depends on are done, and no worker    *)
(* leaves before all tasks are done.                                       *)
Promise == INSTANCE TaskDAG WITH
  tasks <- Region,
  pred <- [i \in Task |-> {j \in Region : \E m \in 1..Len(dag.dep_arg[j]) : dag.dep_arg[j][m] = i}],
  ended <- \E i \in Thread : pc[i] = "exit"

ObservesDependences == Promise!Spec

(* Where a ready task can be: in a waiting queue, bound to a thread, just  *)
(* found ready by a thread, or about to be enqueued by one.                *)
QueuePlaces(x) ==
  {p \in UNION {{q} \X (1..Len(wait_queue[q])) : q \in Queue} : wait_queue[p[1]][p[2]] = x}
ThreadPlaces(x) ==
  {i \in Thread : r[i] = x} \X {"bound"}
    \cup {i \in Thread : pc[i] = "ready" /\ Dependent(i) = x} \X {"ready"}
    \cup {i \in Thread : enq[i] = x} \X {"enqueue"}
Places(x) == QueuePlaces(x) \cup ThreadPlaces(x)

(* No task is lost or duplicated on its way through dequeuing, binding,    *)
(* swapping, stealing and enqueuing: one that waits for nothing and has    *)
(* not started is in exactly one place, any other in none.                 *)
ReadyInOnePlace ==
  n_init = dag.n_tasks =>
    \A x \in Region :
      Cardinality(Places(x)) = IF state[x] = "waiting" /\ n_ready[x] = 0 THEN 1 ELSE 0

(* A freed task is never touched again: not by the threads that notify     *)
(* their dependents, nor through a waiting queue or a binding.             *)
NoUseAfterFree ==
  /\ \A x \in freed : Places(x) = {}
  /\ \A i \in Thread :
       /\ pc[i] \in {"exec", "bind", "bind_dequeue", "dep", "dep_read", "notify",
                     "notify_write", "ready", "enqueue", "free", "free_reads", "free_clear"} => t[i] \notin freed
       /\ pc[i] \in {"dep", "dep_read", "notify", "notify_write"} =>
            \A m \in k[i]..Len(dag.dep_arg[t[i]]) : dag.dep_arg[t[i]][m] \notin freed

(* When the threads have been joined nothing of the region is left: the    *)
(* blocks have forgotten its tasks, every task is freed and every reader   *)
(* node of a block is freed once, although each task that reads the block  *)
(* tries to free them; no task waits and no lock is held.  This is the     *)
(* effect that FLASH_Queue_exec has in module FLASH_Queue.                 *)
NothingLeft ==
  Terminated =>
    /\ \A b \in Block : /\ write_task[b] = NULL /\ read_task[b] = <<>>
                        /\ freed_nodes[b] = Len(dag.read_task[b])
    /\ freed = Region
    /\ \A q \in Queue : wait_queue[q] = <<>> /\ run_lock[q] = Free
    /\ \A i \in Thread : r[i] = NULL /\ dep_lock[i] = Free /\ war_lock[i] = Free

(* With sorting the tasks of a waiting queue are in order of height, so    *)
(* that the head is on the longest remaining path.                         *)
HighestFirst ==
  conf.sorting =>
    LET h == Height(dag)
    IN  \A q \in Queue : \A m \in 1..Len(wait_queue[q]) - 1 :
          h[wait_queue[q][m]] >= h[wait_queue[q][m + 1]]

(* A waiting queue changes only by a thread that holds its lock.           *)
WaitQueueLocked ==
  [][\A i \in Thread, q \in Queue :
       pc'[i] # pc[i] /\ wait_queue'[q] # wait_queue[q] => run_lock[q] = i]_vars

(* The region ends: every task is notified, found by some thread and       *)
(* counted, and every thread sees the count.                               *)
RegionEnds == <>Terminated

=============================================================================
