----------------------- MODULE FLASH_Queue_exec_proofs -----------------------
(***************************************************************************)
(* The parallel execution of a region is safe for every task graph that    *)
(* FLASH_Queue builds, every number of threads and all settings, but for   *)
(* one: with work stealing no task of the graph may have two predecessors. *)
(* Then a waiting queue is only changed under its lock, and a thread finds *)
(* the list as it has read it.  TLC shows what is lost otherwise.          *)
(*                                                                         *)
(* The count n_ready of a task is the number of nodes of the dependence    *)
(* lists that have not been counted down yet.  So a task becomes ready     *)
(* once, when the last of them is; from then on it is in one place, a      *)
(* waiting queue or a variable of one thread, until it starts.             *)
(***************************************************************************)
EXTENDS FLASH_Queue_exec, FLA_Threads_proofs, FiniteSetTheorems

-----------------------------------------------------------------------------
(* The invariant.                                                          *)

(* Where the locals of thread i may stand.                                 *)
Busy == {"exec", "bind", "bind_dequeue", "dep", "dep_read", "notify", "notify_write",
         "ready", "enqueue", "free", "free_reads", "free_clear"}

Local(i) ==
  /\ t[i] \in Region \cup {NULL} /\ r[i] \in Region \cup {NULL}
  /\ enq[i] \in Region \cup {NULL} /\ view[i].list \in Seq(Region)
  /\ pc[i] \in Busy => t[i] # NULL
  /\ pc[i] \in {"loop", "dequeue", "steal", "steal_dequeue", "exit"} => t[i] = NULL
  /\ pc[i] \in {"dequeue", "exec", "bind", "bind_dequeue", "steal", "steal_dequeue"} => r[i] = NULL
  /\ enq[i] # NULL <=> pc[i] = "enqueue"
  /\ k[i] >= 1
  /\ pc[i] \in {"bind", "bind_dequeue"} => k[i] = 1
  /\ pc[i] \in {"dep_read", "notify", "notify_write", "ready", "enqueue"} =>
       k[i] <= Len(dag.dep_arg[t[i]])
  /\ pc[i] = "free_clear" => k[i] <= Len(dag.in[t[i]])

Locals == \A i \in Thread : Local(i)

(* The waiting queues hold tasks of the region.                            *)
Listed == wait_queue \in [Queue -> Seq(Region)]

(* Nothing has started before all tasks are initialised; the task of a     *)
(* thread has been started, and it has one thread.                         *)
Owners ==
  /\ \A i \in Thread :
       t[i] # NULL => state[t[i]] = IF pc[i] = "exec" THEN "running" ELSE "done"
  /\ n_init < dag.n_tasks =>
       (\A x \in Region : state[x] = "waiting") /\ \A i \in Thread : pc[i] = "loop"
  /\ \A i, j \in Thread : t[i] # NULL /\ t[i] = t[j] => i = j

(* Who holds which lock.                                                   *)
HoldsRun(i, q) ==
  \/ pc[i] = "dequeue" /\ MyQueue(i) = q
  \/ pc[i] \in {"bind_dequeue", "steal_dequeue", "enqueue"} /\ lock[i] = q
HoldsDep(i, l) == pc[i] = "notify_write" /\ DepLock(i) = l
HoldsWar(i, l) == pc[i] = "free_clear" /\ WarLock(i) = l

Locks ==
  /\ \A i \in Thread, q \in Queue : run_lock[q] = i <=> HoldsRun(i, q)
  /\ \A i, l \in Thread : dep_lock[l] = i <=> HoldsDep(i, l)
  /\ \A i, l \in Thread : war_lock[l] = i <=> HoldsWar(i, l)

(* Task x is in place a of kind c.                                         *)
Kind == {"queue", "bound", "ready", "enqueue"}
Members(s) == {s[m] : m \in 1..Len(s)}
Waiting(q) == Members(wait_queue[q])

Has(c, a, x) ==
  \/ c = "queue" /\ a \in Queue /\ x \in Waiting(a)
  \/ c = "bound" /\ r[a] = x
  \/ c = "ready" /\ pc[a] = "ready" /\ Dependent(a) = x
  \/ c = "enqueue" /\ enq[a] = x

Available(x) == state[x] = "waiting" /\ n_ready[x] = 0 /\ x <= n_init

NoRepeat(s) == \A m, n \in 1..Len(s) : s[m] = s[n] => m = n

InQueues == \A q \in Queue : NoRepeat(wait_queue[q])

OnePlace(x) ==
  /\ \A c, d \in Kind : \A a, b \in Thread : Has(c, a, x) /\ Has(d, b, x) => c = d /\ a = b
  /\ Available(x) <=> \E c \in Kind : \E a \in Thread : Has(c, a, x)

InOnePlace == \A x \in Region : OnePlace(x)

(* The nodes of the dependence list of t[i] below this one are counted.    *)
Counted(i, m) ==
  \/ pc[i] \in {"free", "free_reads", "free_clear", "commit"}
  \/ pc[i] \in {"bind", "bind_dequeue", "dep", "dep_read", "notify", "notify_write"} /\ m < k[i]
  \/ pc[i] \in {"ready", "enqueue"} /\ m <= k[i]

Sent(j, m) == state[j] = "done" /\ \A i \in Thread : t[i] = j => Counted(i, m)

Pending(x) == {e \in InEdges(dag, x) : ~Sent(e[1], e[2])}

Counts ==
  /\ \A x \in Region : n_ready[x] = Cardinality(Pending(x))
  /\ \A x \in Region : state[x] # "waiting" => n_ready[x] = 0
  /\ \A i \in Thread : pc[i] = "notify_write" => cnt[i] = n_ready[Dependent(i)]

(* The threads divide evenly among the queues.                             *)
Types == TypeOK /\ NThreads % conf.n_queues = 0

IInv == Types /\ Locals /\ Listed /\ Owners /\ Locks /\ InQueues /\ InOnePlace /\ Counts

(* Task x is done, and the thread that still has it, if any, is in C.      *)
Beyond(x, C) == state[x] = "done" /\ \A i \in Thread : t[i] = x => pc[i] \in C

(* The tasks that have been counted under all_lock.                        *)
Committed == {x \in Region : Beyond(x, {})}

Commits ==
  /\ n_committed = Cardinality(Committed)
  /\ \A i \in Thread : pc[i] = "exit" => n_committed >= dag.n_tasks
  /\ freed = {x \in Region : Beyond(x, {"commit"})}

(* A block remembers its last writer until that is freed, and its readers  *)
(* until one of them is.                                                   *)
Unwritten(x) == Beyond(x, {"free_reads", "free_clear", "commit"})
Unread(x, m) ==
  /\ state[x] = "done"
  /\ \A i \in Thread : t[i] = x =>
       pc[i] = "commit" \/ (pc[i] \in {"free_reads", "free_clear"} /\ m < k[i])

Writer(b) ==
  write_task[b] # NULL => write_task[b] = dag.write_task[b] /\ ~Unwritten(dag.write_task[b])
Readers(b) ==
  read_task[b] # <<>> =>
    /\ read_task[b] = dag.read_task[b]
    /\ \A m \in 1..Len(dag.in[dag.read_task[b][1]]) :
         dag.in[dag.read_task[b][1]][m] = b => ~Unread(dag.read_task[b][1], m)
FreedOnce(b) == freed_nodes[b] = IF read_task[b] = <<>> THEN Len(dag.read_task[b]) ELSE 0

Memory ==
  /\ \A b \in Block : Writer(b) /\ Readers(b) /\ FreedOnce(b)
  /\ \A i \in Thread : pc[i] = "free_clear" => nodes[i] = read_task[FreedBlock(i)]

(* All the nodes that name a task are on the list of one task.             *)
OnePredecessor(g) ==
  \A i, j \in 1..g.n_tasks :
    \A m \in 1..Len(g.dep_arg[i]) : \A l \in 1..Len(g.dep_arg[j]) :
      g.dep_arg[i][m] = g.dep_arg[j][l] => i = j

(* The settings and graphs that the theorems below are about: with work    *)
(* stealing two predecessors of a task would write its queue number, each  *)
(* without a lock, and one of them enqueue it under another queue's lock.  *)
SinglePredecessors ==
  \A e \in Execution : e.setting.work_stealing => OnePredecessor(e.graph)

(* The queue number of a task that a thread is about to enqueue is the one *)
(* whose lock it takes.                                                    *)
SameQueue(i) ==
  /\ pc[i] \in {"notify", "notify_write", "ready"} => lq[i] = queue[Dependent(i)]
  /\ pc[i] = "enqueue" => lock[i] = queue[enq[i]]

(* The waiting queue that a thread works on is as it has read it.          *)
Fresh(i) ==
  /\ pc[i] = "dequeue" => view[i] = ViewOf(MyQueue(i))
  /\ pc[i] \in {"bind_dequeue", "steal_dequeue", "enqueue"} => view[i] = ViewOf(lock[i])

Steady ==
  /\ conf.work_stealing => OnePredecessor(dag)
  /\ \A i \in Thread : SameQueue(i) /\ Fresh(i)

-----------------------------------------------------------------------------
(* The settings.                                                           *)

(* A set of numbers with a bound has a greatest one.                       *)
LEMMA Greatest ==
  ASSUME NEW n \in Nat, NEW S \in SUBSET (0..n), S # {}
  PROVE  \E m \in S : \A l \in S : l <= m
<1> DEFINE Less == {e \in Nat \X Nat : e[1] < e[2]}
           D == {n - m : m \in S}
<1>1. IsWellFoundedOn(Less, Nat)
  BY NatLessThanWellFounded DEF OpToRel
<1>2. \A a \in Nat, b \in Nat : a < b => <<a, b>> \in Less
  OBVIOUS
<1>3. D \subseteq Nat /\ D # {}
  <2>1. \A m \in S : n - m \in Nat
    OBVIOUS
  <2>2. QED
    BY <2>1
<1> HIDE DEF Less
<1>4. PICK d \in D : \A e \in D : <<e, d>> \notin Less
  BY <1>1, <1>3, WFMin
<1>5. PICK m \in S : d = n - m
  OBVIOUS
<1>6. ASSUME NEW l \in S PROVE l <= m
  <2>1. n - l \in D /\ n - l \in Nat /\ n - m \in Nat
    OBVIOUS
  <2>2. ~(n - l < n - m)
    BY <1>2, <1>4, <1>5, <2>1
  <2>3. QED
    BY <2>2
<1>7. QED
  BY <1>6

(* With n queues, the number of threads per queue.                         *)
LEMMA Shares ==
  ASSUME NEW n \in 1..NThreads, NThreads % n = 0, NEW i \in Thread
  PROVE  i \div (NThreads \div n) \in 0..(n - 1)
<1>1. NThreads \in Nat /\ NThreads > 0 /\ n \in Nat /\ n > 0 /\ i \in Nat /\ i < NThreads
  BY ThreadsAssumption DEF Thread
<1>2. PICK w \in Nat : w = NThreads \div n /\ NThreads = w * n
  BY <1>1, Quotient
<1>3. w > 0
  <2>1. w # 0
    BY <1>1, <1>2
  <2>2. QED
    BY <1>2, <2>1
<1>4. PICK a \in Nat : a = i \div w /\ a * w <= i
  BY <1>1, <1>2, <1>3, Quotient
<1>5. ~(n <= a)
  <2>1. ASSUME n <= a PROVE FALSE
    <3>1. n * w <= a * w
      BY <1>1, <1>2, <1>4, <2>1, Monotone
    <3>2. n * w = w * n
      BY <1>1, <1>2, Z3
    <3>3. QED
      BY <1>1, <1>2, <1>4, <3>1, <3>2
  <2>2. QED
    BY <2>1
<1>6. QED
  BY <1>1, <1>2, <1>4, <1>5

(* The settings in effect.                                                 *)
LEMMA Configured ==
  ASSUME NEW s \in Setting
  PROVE  /\ Configure(s) \in ConfType
         /\ NThreads % Configure(s).n_queues = 0
         /\ ~s.work_stealing => ~Configure(s).work_stealing
         /\ Configure(s).data_affinity = "NONE" \/ Configure(s).data_affinity # "NONE"
<1>1. s \in SettingType /\ NThreads \in Nat /\ NThreads > 0
  BY SettingAssumption, ThreadsAssumption
<1>2. s.cores_per_queue \in Nat
  BY <1>1 DEF SettingType
<1>3. s.cores_per_queue > 0 =>
        NThreads \div s.cores_per_queue \in Nat /\ NThreads \div s.cores_per_queue <= NThreads
  <2> SUFFICES ASSUME s.cores_per_queue > 0
               PROVE  /\ NThreads \div s.cores_per_queue \in Nat
                      /\ NThreads \div s.cores_per_queue <= NThreads
    OBVIOUS
  <2>1. PICK q \in Nat : q = NThreads \div s.cores_per_queue /\ q * s.cores_per_queue <= NThreads
    BY <1>1, <1>2, Quotient
  <2>2. PICK g \in Nat : s.cores_per_queue = g + 1
    BY <1>2
  <2>3. q * s.cores_per_queue = q * g + q /\ q * g \in Nat
    BY <2>2, Successor
  <2>4. QED
    BY <1>1, <2>1, <2>3
<1>4. Configure(s) \in ConfType
  BY <1>1, <1>2, <1>3 DEF Configure, ConfType, SettingType, Affinity
<1>5. ~s.work_stealing => ~Configure(s).work_stealing
  BY <1>1 DEF Configure, SettingType
<1>6. QED
  BY <1>4, <1>5, QueuesAssumption

(* The queue of a task exists.                                             *)
LEMMA QueueExists ==
  ASSUME NEW g \in Graph, NEW c \in ConfType, NEW x \in 1..g.n_tasks
  PROVE  QueueOf(g, c, x) \in 0..(c.n_queues - 1)
<1> DEFINE n == c.n_queues
           b == g.out[x][1]
           w == Width(n)
<1>1. /\ g \in GraphType /\ g.n_tasks \in Nat /\ g.n_tasks <= MaxTasks /\ g.out[x] # <<>>
  BY GraphAssumption DEF GraphType
<1>2. n \in Nat /\ n > 0 /\ c.data_affinity \in Affinity
  BY ThreadsAssumption DEF ConfType
<1>3. x \in Task
  BY <1>1, ThreadsAssumption DEF Task
<1>4. /\ b \in Block /\ g.m_index[b] \in Nat /\ g.n_index[b] \in Nat /\ g.queue[x] \in Nat
  <2>1. g.out[x] \in Seq(Block)
    BY <1>1, <1>3 DEF GraphType
  <2>2. g.out[x][1] \in Block
    BY <1>1, <2>1
  <2>3. QED
    BY <1>1, <1>3, <2>2 DEF GraphType
<1>5. w \in 1..n /\ n % w = 0
  <2> DEFINE S == {v \in 1..n : v * v <= n /\ n % v = 0}
  <2>1. 1 \in S
    BY <1>2
  <2>2. n \in Nat /\ S \in SUBSET (0..n) /\ S # {}
    BY <1>2, <2>1
  <2> HIDE DEF S
  <2>3. PICK m \in S : \A l \in S : l <= m
    BY <2>2, Greatest
  <2>4. QED
    BY <2>3 DEF Width, S
<1>6. PICK l \in Nat : l = n \div w /\ n = l * w
  BY <1>2, <1>5, Quotient
<1>7. l > 0
  BY <1>2, <1>5, <1>6
<1>8. (g.m_index[b] % l) + (g.n_index[b] % w) * l \in 0..(n - 1)
  <2>1. PICK p \in Nat, q \in Nat : p = g.m_index[b] % l /\ p < l /\ q = g.n_index[b] % w /\ q < w
    BY <1>4, <1>5, <1>6, <1>7, Quotient
  <2>2. (q + 1) * l <= w * l /\ (q + 1) * l = q * l + l /\ q * l \in Nat
    BY <1>5, <1>6, <2>1, Monotone, Successor
  <2>3. w * l = l * w
    BY <1>5, <1>6, Z3
  <2>4. p + q * l < n /\ p + q * l \in Nat
    BY <1>2, <1>6, <1>7, <2>1, <2>2, <2>3
  <2>5. QED
    BY <1>2, <2>1, <2>4
<1>9. \A v \in Nat : v % n \in 0..(n - 1)
  BY <1>2
<1> HIDE DEF n, b, w
<1>10. \/ QueueOf(g, c, x) = 0
       \/ QueueOf(g, c, x) = (g.m_index[b] % (n \div w)) + (g.n_index[b] % w) * (n \div w)
       \/ \E v \in {g.m_index[b], g.n_index[b], g.queue[x]} : QueueOf(g, c, x) = v % n
  BY <1>2 DEF QueueOf, Affinity, n, b, w
<1>11. QueueOf(g, c, x) \in 0..(n - 1)
  <2>1. CASE QueueOf(g, c, x) = 0
    BY <1>2, <2>1
  <2>2. CASE QueueOf(g, c, x) = (g.m_index[b] % (n \div w)) + (g.n_index[b] % w) * (n \div w)
    BY <1>6, <1>8, <2>2
  <2>3. CASE \E v \in {g.m_index[b], g.n_index[b], g.queue[x]} : QueueOf(g, c, x) = v % n
    BY <1>4, <1>9, <2>3
  <2>4. QED
    BY <1>10, <2>1, <2>2, <2>3
<1>12. QED
  BY <1>11 DEF n

-----------------------------------------------------------------------------
(* What the types say of the graph and of the queues.                      *)

LEMMA Dag ==
  ASSUME Types
  PROVE  /\ dag \in Graph /\ dag.n_tasks \in Nat /\ dag.n_tasks > 0 /\ Region \subseteq Task
         /\ dag.dep_arg \in [Task -> Seq(Task)]
         /\ dag.in \in [Task -> Seq(Block)] /\ dag.out \in [Task -> Seq(Block)]
         /\ dag.read_id \in [Block -> Nat] /\ NULL \notin Task
<1>1. dag \in Graph
  BY DEF Types, TypeOK
<1>2. dag \in GraphType /\ dag.n_tasks > 0 /\ dag.n_tasks <= MaxTasks /\ MaxTasks \in Nat
  BY <1>1, GraphAssumption, ThreadsAssumption
<1>3. QED
  BY <1>1, <1>2 DEF GraphType, Region, Task, NULL

LEMMA RegionFinite ==
  ASSUME Types
  PROVE  IsFiniteSet(Region) /\ Cardinality(Region) = dag.n_tasks
<1>1. PICK n \in Nat : n = dag.n_tasks /\ n > 0
  BY Dag
<1>2. IsFiniteSet(1..n) /\ Cardinality(1..n) = IF 1 > n THEN 0 ELSE n - 1 + 1
  BY FS_Interval
<1>3. QED
  BY <1>1, <1>2 DEF Region

(* The nodes of a task's dependence list name later tasks.                 *)
LEMMA Nodes1 ==
  ASSUME Types, NEW x \in Region, NEW m \in 1..Len(dag.dep_arg[x])
  PROVE  dag.dep_arg[x][m] \in Region /\ x < dag.dep_arg[x][m]
<1>1. /\ x < dag.dep_arg[x][m] /\ dag.dep_arg[x][m] <= dag.n_tasks
      /\ dag \in Graph
  BY Dag, GraphAssumption DEF Region
<1>2. x \in Task /\ dag.dep_arg[x] \in Seq(Task)
  BY Dag
<1>3. dag.dep_arg[x][m] \in Task
  BY <1>2
<1>4. QED
  BY <1>1, <1>3 DEF Task, Region

LEMMA Teams ==
  ASSUME Types
  PROVE  /\ NThreads \in Nat /\ NThreads > 0 /\ conf.n_queues \in 1..NThreads
         /\ Queue \subseteq Thread /\ Free \notin Thread /\ 0 \in Queue
         /\ \A i \in Thread : MyQueue(i) \in Queue
         /\ \A m \in Nat : m % NThreads \in Thread
<1>1. NThreads \in Nat /\ NThreads > 0 /\ conf.n_queues \in 1..NThreads
  BY ThreadsAssumption DEF Types, TypeOK, ConfType
<1>2. \A i \in Thread : MyQueue(i) \in Queue
  BY <1>1, Shares DEF Types, MyQueue, Queue
<1>3. \A m \in Nat : m % NThreads \in Thread
  BY <1>1 DEF Thread
<1>4. QED
  BY <1>1, <1>2, <1>3 DEF Queue, Thread, Free

-----------------------------------------------------------------------------
(* Putting a task into a waiting queue and taking one out.                 *)

LEMMA Joined ==
  ASSUME NEW S, NEW u \in Seq(S), NEW v \in Seq(S)
  PROVE  /\ u \o v \in Seq(S) /\ Len(u \o v) = Len(u) + Len(v)
         /\ \A n \in 1..Len(u) : (u \o v)[n] = u[n]
         /\ \A n \in 1..Len(v) : (u \o v)[Len(u) + n] = v[n]
OBVIOUS

LEMMA Inserted ==
  ASSUME NEW S, NEW s \in Seq(S), NEW x \in S, NEW m \in 0..Len(s)
  PROVE  /\ InsertIndex(s, m, x) \in Seq(S) /\ Len(InsertIndex(s, m, x)) = Len(s) + 1
         /\ \A n \in 1..m : InsertIndex(s, m, x)[n] = s[n]
         /\ InsertIndex(s, m, x)[m + 1] = x
         /\ \A n \in (m + 1)..Len(s) : InsertIndex(s, m, x)[n + 1] = s[n]
<1> DEFINE u == SubSeq(s, 1, m)
           v == SubSeq(s, m + 1, Len(s))
           y == u \o <<x>>
<1>1. Len(s) \in Nat /\ m \in Nat /\ m <= Len(s)
  OBVIOUS
<1>2. u \in Seq(S) /\ Len(u) = m /\ \A n \in 1..m : u[n] = s[n]
  OBVIOUS
<1>3. v \in Seq(S) /\ Len(v) = Len(s) - m /\ \A n \in 1..(Len(s) - m) : v[n] = s[m + n]
  OBVIOUS
<1>4. InsertIndex(s, m, x) = y \o v
  BY DEF InsertIndex
<1> HIDE DEF u, v
<1>5. /\ y \in Seq(S) /\ Len(y) = m + 1
      /\ \A n \in 1..m : y[n] = s[n]
      /\ y[m + 1] = x
  BY <1>1, <1>2
<1> HIDE DEF y
<1>6. /\ y \o v \in Seq(S) /\ Len(y \o v) = Len(y) + Len(v)
      /\ \A n \in 1..Len(y) : (y \o v)[n] = y[n]
      /\ \A n \in 1..Len(v) : (y \o v)[Len(y) + n] = v[n]
  <2>1. y \in Seq(S) /\ v \in Seq(S)
    BY <1>3, <1>5
  <2>2. QED
    BY <2>1, Joined
<1> DEFINE z == y \o v
<1>7. /\ z \in Seq(S) /\ Len(z) = Len(s) + 1
      /\ \A n \in 1..(m + 1) : z[n] = y[n]
      /\ \A n \in 1..(Len(s) - m) : z[m + 1 + n] = v[n]
  BY <1>1, <1>3, <1>5, <1>6
<1> HIDE DEF z
<1>8. ASSUME NEW n \in (m + 1)..Len(s) PROVE z[n + 1] = s[n]
  <2>1. n - m \in 1..(Len(s) - m) /\ m + 1 + (n - m) = n + 1 /\ m + (n - m) = n
    BY <1>1
  <2>2. z[m + 1 + (n - m)] = v[n - m] /\ v[n - m] = s[m + (n - m)]
    BY <1>3, <1>7, <2>1
  <2>3. QED
    BY <2>1, <2>2
<1>9. (\A n \in 1..m : z[n] = s[n]) /\ z[m + 1] = x
  BY <1>1, <1>5, <1>7
<1>10. QED
  BY <1>4, <1>7, <1>8, <1>9 DEF z

LEMMA InsertedSet ==
  ASSUME NEW s \in Seq(Task), NEW x \in Task, NEW m \in 0..Len(s)
  PROVE  /\ Members(InsertIndex(s, m, x)) = Members(s) \cup {x}
         /\ NoRepeat(s) /\ x \notin Members(s) => NoRepeat(InsertIndex(s, m, x))
<1> DEFINE z == InsertIndex(s, m, x)
<1>1. /\ Len(s) \in Nat /\ m \in Nat /\ m <= Len(s) /\ Len(z) = Len(s) + 1
      /\ \A n \in 1..m : z[n] = s[n]
      /\ z[m + 1] = x
      /\ \A n \in (m + 1)..Len(s) : z[n + 1] = s[n]
  <2>1. Len(s) \in Nat /\ m \in Nat /\ m <= Len(s)
    OBVIOUS
  <2>2. QED
    BY <2>1, Inserted, SMTT(30)
<1> HIDE DEF z
<1>2. ASSUME NEW n \in 1..Len(s)
      PROVE  \E l \in 1..Len(z) : z[l] = s[n]
  <2>1. CASE n <= m
    BY <1>1, <2>1
  <2>2. CASE n > m
    <3>1. n + 1 \in 1..Len(z) /\ z[n + 1] = s[n]
      BY <1>1, <2>2
    <3>2. QED
      BY <3>1
  <2>3. QED
    BY <1>1, <2>1, <2>2
<1>3. ASSUME NEW n \in 1..Len(z)
      PROVE  \/ n = m + 1 /\ z[n] = x
             \/ n <= m /\ n \in 1..Len(s) /\ z[n] = s[n]
             \/ n > m + 1 /\ n - 1 \in 1..Len(s) /\ z[n] = s[n - 1]
  <2>1. CASE n <= m
    BY <1>1, <2>1
  <2>2. CASE n > m + 1
    <3>1. n - 1 \in (m + 1)..Len(s) /\ (n - 1) + 1 = n /\ n - 1 \in 1..Len(s)
      BY <1>1, <2>2
    <3>2. z[(n - 1) + 1] = s[n - 1]
      BY <1>1, <3>1
    <3>3. QED
      BY <2>2, <3>1, <3>2
  <2>3. QED
    BY <1>1, <2>1, <2>2
<1>4. ASSUME NoRepeat(s), x \notin Members(s) PROVE NoRepeat(z)
  <2> SUFFICES ASSUME NEW n \in 1..Len(z), NEW l \in 1..Len(z), z[n] = z[l]
               PROVE  n = l
    BY DEF NoRepeat
  <2>1. \A a \in 1..Len(s) : s[a] # x
    BY <1>4 DEF Members
  <2>2. \A a, b \in 1..Len(s) : s[a] = s[b] => a = b
    BY <1>4 DEF NoRepeat
  <2>3. CASE n = m + 1
    BY <1>1, <1>3, <2>1, <2>3
  <2>4. CASE l = m + 1
    BY <1>1, <1>3, <2>1, <2>4
  <2>5. CASE n # m + 1 /\ l # m + 1
    <3>1. \/ n <= m /\ n \in 1..Len(s) /\ z[n] = s[n]
          \/ n > m + 1 /\ n - 1 \in 1..Len(s) /\ z[n] = s[n - 1]
      BY <1>3, <2>5
    <3>2. \/ l <= m /\ l \in 1..Len(s) /\ z[l] = s[l]
          \/ l > m + 1 /\ l - 1 \in 1..Len(s) /\ z[l] = s[l - 1]
      BY <1>3, <2>5
    <3>3. QED
      BY <1>1, <2>2, <3>1, <3>2
  <2>6. QED
    BY <2>3, <2>4, <2>5
<1>5. m + 1 \in 1..Len(z)
  BY <1>1
<1>6. Members(z) \subseteq Members(s) \cup {x}
  BY <1>3 DEF Members
<1>7. Members(s) \cup {x} \subseteq Members(z)
  BY <1>1, <1>2, <1>5 DEF Members
<1>8. QED
  BY <1>4, <1>6, <1>7 DEF z

LEMMA Removed ==
  ASSUME NEW S, NEW s \in Seq(S), NEW m \in 1..Len(s)
  PROVE  /\ RemoveIndex(s, m) \in Seq(S) /\ Len(RemoveIndex(s, m)) = Len(s) - 1
         /\ \A n \in 1..(Len(s) - 1) : RemoveIndex(s, m)[n] = IF n < m THEN s[n] ELSE s[n + 1]
<1> DEFINE u == SubSeq(s, 1, m - 1)
           v == SubSeq(s, m + 1, Len(s))
<1>0. Len(s) \in Nat /\ m \in Nat /\ m <= Len(s)
  OBVIOUS
<1>1. u \in Seq(S) /\ Len(u) = m - 1 /\ \A n \in 1..(m - 1) : u[n] = s[n]
  OBVIOUS
<1>2. v \in Seq(S) /\ Len(v) = Len(s) - m /\ \A n \in 1..(Len(s) - m) : v[n] = s[m + n]
  OBVIOUS
<1>3. RemoveIndex(s, m) = u \o v
  BY DEF RemoveIndex
<1> HIDE DEF u, v
<1>4. u \o v \in Seq(S) /\ Len(u \o v) = Len(s) - 1
  BY <1>1, <1>2
<1> DEFINE z == u \o v
<1>5. /\ \A n \in 1..(m - 1) : z[n] = u[n]
      /\ \A n \in 1..(Len(s) - m) : z[(m - 1) + n] = v[n]
  <2>1. /\ \A n \in 1..Len(u) : (u \o v)[n] = u[n]
        /\ \A n \in 1..Len(v) : (u \o v)[Len(u) + n] = v[n]
    <3>1. u \in Seq(S) /\ v \in Seq(S)
      BY <1>1, <1>2
    <3>2. QED
      BY <3>1, Joined
  <2>2. QED
    BY <1>1, <1>2, <2>1
<1> HIDE DEF z
<1>6. ASSUME NEW n \in 1..(Len(s) - 1)
      PROVE  z[n] = IF n < m THEN s[n] ELSE s[n + 1]
  <2>1. CASE n < m
    BY <1>0, <1>1, <1>5, <2>1
  <2>2. CASE n >= m
    <3>1. /\ n - (m - 1) \in 1..(Len(s) - m) /\ (m - 1) + (n - (m - 1)) = n
          /\ m + (n - (m - 1)) = n + 1
      BY <1>0, <2>2
    <3>2. z[(m - 1) + (n - (m - 1))] = v[n - (m - 1)] /\ v[n - (m - 1)] = s[m + (n - (m - 1))]
      BY <1>2, <1>5, <3>1
    <3>3. z[n] = s[n + 1]
      BY <3>1, <3>2
    <3>4. ~(n < m)
      BY <1>0, <2>2
    <3>5. QED
      BY <3>3, <3>4
  <2>3. n < m \/ n >= m
    BY <1>0
  <2>4. QED
    BY <2>1, <2>2, <2>3
<1>7. QED
  BY <1>3, <1>4, <1>6 DEF z

LEMMA RemovedSet ==
  ASSUME NEW s \in Seq(Task), NEW m \in 1..Len(s), NoRepeat(s)
  PROVE  /\ Members(RemoveIndex(s, m)) = Members(s) \ {s[m]}
         /\ NoRepeat(RemoveIndex(s, m))
<1> DEFINE z == RemoveIndex(s, m)
<1>0. Len(s) \in Nat /\ m \in Nat /\ m >= 1 /\ m <= Len(s)
  OBVIOUS
<1>1. /\ Len(z) = Len(s) - 1
      /\ \A n \in 1..(Len(s) - 1) : z[n] = IF n < m THEN s[n] ELSE s[n + 1]
  BY Removed
<1> HIDE DEF z
<1>2. \A a, b \in 1..Len(s) : s[a] = s[b] => a = b
  BY DEF NoRepeat
<1>3. ASSUME NEW n \in 1..Len(s), n # m
      PROVE  \E l \in 1..Len(z) : z[l] = s[n]
  <2>1. CASE n < m
    BY <1>0, <1>1, <2>1
  <2>2. CASE n > m
    <3>1. n - 1 \in 1..Len(z) /\ z[n - 1] = s[n]
      BY <1>0, <1>1, <2>2
    <3>2. QED
      BY <3>1
  <2>3. QED
    BY <1>0, <1>3, <2>1, <2>2
<1>4. ASSUME NEW n \in 1..Len(z)
      PROVE  \E l \in 1..Len(s) : l # m /\ z[n] = s[l]
  <2>1. CASE n < m
    BY <1>0, <1>1, <2>1
  <2>2. CASE n >= m
    <3>1. n + 1 \in 1..Len(s) /\ n + 1 # m /\ z[n] = s[n + 1]
      BY <1>0, <1>1, <2>2
    <3>2. QED
      BY <3>1
  <2>3. QED
    BY <1>0, <1>1, <2>1, <2>2
<1>5. NoRepeat(z)
  <2> SUFFICES ASSUME NEW n \in 1..Len(z), NEW l \in 1..Len(z), z[n] = z[l]
               PROVE  n = l
    BY DEF NoRepeat
  <2>1. (n < m /\ n \in 1..Len(s)) \/ (n >= m /\ n + 1 \in 1..Len(s))
    BY <1>0, <1>1
  <2>2. (l < m /\ l \in 1..Len(s)) \/ (l >= m /\ l + 1 \in 1..Len(s))
    BY <1>0, <1>1
  <2>3. QED
    BY <1>0, <1>1, <1>2, <2>1, <2>2
<1>6. Members(z) \subseteq Members(s) \ {s[m]}
  BY <1>2, <1>4 DEF Members
<1>7. Members(s) \ {s[m]} \subseteq Members(z)
  BY <1>3 DEF Members
<1>8. QED
  BY <1>5, <1>6, <1>7 DEF z

(* The place that sorting gives a task lies in the queue.                  *)
LEMMA KeepInQueue ==
  ASSUME NEW S, NEW s \in Seq(S), NEW x
  PROVE  Keep(s, x) \in 0..Len(s)
<1> DEFINE h == Height(dag)
           ge == {m \in 1..Len(s) : h[s[m]] >= h[x]}
<1>1. Len(s) \in Nat /\ ge \in SUBSET (0..Len(s))
  OBVIOUS
<1> HIDE DEF h
<1>2. ge # {} => (CHOOSE m \in ge : \A l \in ge : l <= m) \in ge
  BY <1>1, Greatest
<1>3. QED
  BY <1>1, <1>2 DEF Keep, h

-----------------------------------------------------------------------------
(* Types.                                                                  *)

LEMMA TypesInit == Init => Types
<1> SUFFICES ASSUME NEW x \in Execution, InitWith(x.graph, x.setting) PROVE Types
  BY DEF Init
<1> DEFINE g == x.graph
           c == Configure(x.setting)
<1>1. g \in Graph /\ x.setting \in Setting
  BY DEF Graph, Setting
<1>2. c \in ConfType /\ NThreads % c.n_queues = 0
  BY <1>1, Configured
<1>3. /\ g \in GraphType /\ g.n_tasks \in Nat /\ g.n_tasks <= MaxTasks
      /\ NThreads \in Nat /\ NThreads > 0
  BY <1>1, GraphAssumption, ThreadsAssumption DEF GraphType
<1>4. \A i \in 1..g.n_tasks : QueueOf(g, c, i) \in 0..(c.n_queues - 1)
  BY <1>1, <1>2, QueueExists
<1>5. dag = g /\ conf = c
  BY DEF InitWith
<1>6. 0 \in 0..(c.n_queues - 1)
  BY <1>2, <1>3 DEF ConfType
<1>7. queue \in [Task -> Queue]
  BY <1>3, <1>4, <1>5, <1>6 DEF InitWith, Queue, Task
<1> HIDE DEF g, c
<1>8. /\ g.n_ready \in [Task -> Nat] /\ g.write_task \in [Block -> Task \cup {NULL}]
      /\ g.read_task \in [Block -> Seq(Task)]
  BY <1>3 DEF GraphType
<1>9. TypeOK
  BY <1>1, <1>2, <1>3, <1>5, <1>6, <1>7, <1>8, SMTT(30)
  DEF InitWith, TypeOK, Queue, Label, Free, NULL, NoView, g
<1>10. QED
  BY <1>2, <1>5, <1>9 DEF Types

(* What is inserted into a waiting queue and taken out of one.             *)
LEMMA EnqueueTypes ==
  ASSUME NEW S, wait_queue \in [Queue -> Seq(S)], NEW v, v.list \in Seq(S), NEW x \in S,
         Enqueue(v, x)
  PROVE  wait_queue' \in [Queue -> Seq(S)]
<1>1. Keep(v.list, x) \in 0..Len(v.list)
  BY KeepInQueue
<1>2. InsertIndex(v.list, Keep(v.list, x), x) \in Seq(S)
  BY <1>1, Inserted
<1>3. QED
  BY <1>2 DEF Enqueue

LEMMA DequeueTypes ==
  ASSUME NEW S, wait_queue \in [Queue -> Seq(S)], NEW v, v.list \in Seq(S),
         NEW m, NEW found, Dequeue(v, m, found)
  PROVE  wait_queue' \in [Queue -> Seq(S)] /\ v.list[m] \in S
<1>1. m \in 1..Len(v.list)
  BY DEF Dequeue
<1>2. RemoveIndex(v.list, m) \in Seq(S) /\ v.list[m] \in S
  BY <1>1, Removed
<1>3. QED
  BY <1>2 DEF Dequeue

LEMMA StealTypes ==
  ASSUME NEW S, wait_queue \in [Queue -> Seq(S)], NEW s \in Seq(S), s # <<>>, NEW q,
         wait_queue' = [wait_queue EXCEPT ![q] = UnlinkTail(s)]
  PROVE  wait_queue' \in [Queue -> Seq(S)] /\ s[Len(s)] \in S
<1>1. Len(s) \in 1..Len(s)
  OBVIOUS
<1>2. RemoveIndex(s, Len(s)) \in Seq(S) /\ s[Len(s)] \in S
  BY <1>1, Removed
<1>3. QED
  BY <1>2 DEF UnlinkTail

(* The task that a thread works on.                                        *)
LEMMA Working ==
  ASSUME Types, Locals, NEW i \in Thread, pc[i] \in Busy
  PROVE  t[i] \in Region /\ t[i] \in Task /\ t[i] # NULL
BY Dag DEF Locals, Local, NULL

(* The task that it notifies.                                              *)
LEMMA Notifying ==
  ASSUME Types, Locals, NEW i \in Thread, pc[i] \in Busy, k[i] <= Len(dag.dep_arg[t[i]])
  PROVE  /\ k[i] \in 1..Len(dag.dep_arg[t[i]])
         /\ Dependent(i) \in Region /\ Dependent(i) \in Task /\ t[i] < Dependent(i)
         /\ DepLock(i) \in Thread
<1>1. t[i] \in Region /\ dag.dep_arg[t[i]] \in Seq(Task)
  BY Working, Dag
<1>2. k[i] \in 1..Len(dag.dep_arg[t[i]])
  BY <1>1 DEF Types, TypeOK, Locals, Local
<1>3. Dependent(i) \in Region /\ t[i] < Dependent(i)
  BY <1>1, <1>2, Nodes1 DEF Dependent
<1>4. Dependent(i) \in Task
  BY <1>3, Dag
<1>5. Dependent(i) - 1 \in Nat
  BY <1>4, ThreadsAssumption DEF Task
<1>6. QED
  BY <1>2, <1>3, <1>4, <1>5, Teams DEF DepLock

(* The block whose readers it frees.                                       *)
LEMMA Freeing ==
  ASSUME Types, Locals, NEW i \in Thread, pc[i] \in Busy, k[i] <= Len(dag.in[t[i]])
  PROVE  /\ k[i] \in 1..Len(dag.in[t[i]])
         /\ FreedBlock(i) \in Block /\ WarLock(i) \in Thread
<1>1. t[i] \in Task /\ dag.in[t[i]] \in Seq(Block)
  BY Working, Dag
<1>2. k[i] \in 1..Len(dag.in[t[i]])
  BY <1>1 DEF Types, TypeOK, Locals, Local
<1>3. FreedBlock(i) \in Block
  BY <1>1, <1>2 DEF FreedBlock
<1>4. QED
  BY <1>2, <1>3, Dag, Teams DEF WarLock

(* A thread takes notice of a waiting queue that exists, or forgets it.    *)
LEMMA ViewTypes ==
  ASSUME Types, NEW i \in Thread
  PROVE  /\ \A q \in Queue : See(i, q) => view' \in [Thread -> [queue : Queue, list : Seq(Task)]]
         /\ Forget(i) => view' \in [Thread -> [queue : Queue, list : Seq(Task)]]
         /\ view[i].queue \in Queue /\ view[i].list \in Seq(Task)
<1>1. 0 \in Queue /\ view \in [Thread -> [queue : Queue, list : Seq(Task)]]
      /\ wait_queue \in [Queue -> Seq(Task)]
  BY Teams DEF Types, TypeOK
<1>2. \A q \in Queue : ViewOf(q) \in [queue : Queue, list : Seq(Task)]
  BY <1>1 DEF ViewOf
<1>3. NoView \in [queue : Queue, list : Seq(Task)]
  BY <1>1 DEF NoView
<1>4. QED
  BY <1>1, <1>2, <1>3 DEF See, Forget

(* The types, after a step of a thread.                                    *)
LEMMA TypesStep ==
  ASSUME Types, Locals, NEW i \in Thread, Step(i)
  PROVE  Types'
<1> USE DEF Types, TypeOK, At, Goto, Label, shared, locks, ghosts, locals, Queue
<1>1. CASE Loop(i)
  <2>1. MyQueue(i) \in Queue
    BY Teams
  <2>2. view' \in [Thread -> [queue : Queue, list : Seq(Task)]]
    BY <1>1, <2>1, ViewTypes DEF Loop
  <2>3. QED
    BY <1>1, <2>1, <2>2 DEF Loop, AcquireRun
<1>2. CASE LoopBound(i)
  BY <1>2, Dag DEF LoopBound, Run, Locals, Local, NULL
<1>3. CASE DequeueTask(i)
  <2>1. MyQueue(i) \in Queue /\ view[i].list \in Seq(Task)
        /\ view' \in [Thread -> [queue : Queue, list : Seq(Task)]]
    BY <1>3, Teams, ViewTypes DEF DequeueTask
  <2>2. PICK m, found : Dequeue(view[i], m, found) /\ Run(i, view[i].list[m])
    BY <1>3 DEF DequeueTask
  <2>3. wait_queue' \in [Queue -> Seq(Task)] /\ view[i].list[m] \in Task
    BY <2>1, <2>2, DequeueTypes
  <2>4. hit' \in [Task -> BOOLEAN]
    BY <2>2 DEF Dequeue
  <2>5. t' \in [Thread -> Task \cup {NULL}] /\ state' \in [Task -> {"waiting", "running", "done"}]
        /\ pc' \in [Thread -> Label]
    BY <2>2, <2>3 DEF Run
  <2>6. run_lock' \in [Queue -> Thread \cup {Free}]
    BY <1>3 DEF DequeueTask, ReleaseRun
  <2>7. QED
    BY <1>3, <2>1, <2>3, <2>4, <2>5, <2>6 DEF DequeueTask
<1>4. CASE DequeueNone(i)
  <2>1. view' \in [Thread -> [queue : Queue, list : Seq(Task)]]
    BY <1>4, ViewTypes DEF DequeueNone
  <2>2. QED
    BY <1>4, <2>1 DEF DequeueNone, ReleaseRun
<1>5. CASE Exec(i)
  BY <1>5 DEF Exec
<1>6. CASE Bind(i)
  <2>1. queue[t[i]] \in Queue
    BY <1>6, Working DEF Bind, Busy
  <2>2. view' \in [Thread -> [queue : Queue, list : Seq(Task)]]
    BY <1>6, <2>1, ViewTypes DEF Bind
  <2>3. QED
    BY <1>6, <2>1, <2>2 DEF Bind, AcquireRun
<1>7. CASE BindDequeue(i)
  <2>1. view[i].list \in Seq(Task)
        /\ view' \in [Thread -> [queue : Queue, list : Seq(Task)]]
    BY <1>7, ViewTypes DEF BindDequeue
  <2>2. /\ wait_queue' \in [Queue -> Seq(Task)] /\ hit' \in [Task -> BOOLEAN]
        /\ r' \in [Thread -> Task \cup {NULL}]
    <3>1. CASE UNCHANGED <<wait_queue, hit, r>>
      BY <3>1
    <3>2. CASE \E m, found : Dequeue(view[i], m, found) /\ r' = [r EXCEPT ![i] = view[i].list[m]]
      <4>1. PICK m, found : Dequeue(view[i], m, found) /\ r' = [r EXCEPT ![i] = view[i].list[m]]
        BY <3>2
      <4>2. wait_queue' \in [Queue -> Seq(Task)] /\ view[i].list[m] \in Task
        BY <2>1, <4>1, DequeueTypes
      <4>3. hit' \in [Task -> BOOLEAN]
        BY <4>1 DEF Dequeue
      <4>4. QED
        BY <4>1, <4>2, <4>3
    <3>3. QED
      BY <1>7, <3>1, <3>2 DEF BindDequeue
  <2>3. QED
    BY <1>7, <2>1, <2>2 DEF BindDequeue, ReleaseRun
<1>8. CASE DepQueue(i)
  <2>1. queue[t[i]] \in Queue
    BY <1>8, Working DEF DepQueue, Busy
  <2>2. QED
    BY <1>8, <2>1 DEF DepQueue
<1>23. CASE DepRead(i)
  BY <1>23, Notifying DEF DepRead, Busy, Locals, Local
<1>9. CASE DepDone(i)
  BY <1>9 DEF DepDone
<1>10. CASE Notify(i)
  BY <1>10, Notifying DEF Notify, Busy, Locals, Local
<1>11. CASE NotifyWrite(i)
  <2>1. Dependent(i) \in Task /\ DepLock(i) \in Thread
    BY <1>11, Notifying DEF NotifyWrite, Busy, Locals, Local
  <2>2. cnt[i] - 1 \in Int /\ k[i] + 1 \in Nat
    OBVIOUS
  <2>3. n_ready' \in [Task -> Int] /\ dep_lock' \in [Thread -> Thread \cup {Free}]
    BY <1>11, <2>1, <2>2 DEF NotifyWrite
  <2>4. pc' \in [Thread -> Label] /\ k' \in [Thread -> Nat]
    BY <1>11, <2>2, ZenonT(60) DEF NotifyWrite
  <2>5. QED
    BY <1>11, <2>3, <2>4 DEF NotifyWrite
<1>12. CASE BindFirst(i)
  <2>1. Dependent(i) \in Task
    BY <1>12, Notifying DEF BindFirst, Busy, Locals, Local
  <2>2. k[i] + 1 \in Nat
    OBVIOUS
  <2>3. QED
    BY <1>12, <2>1, <2>2 DEF BindFirst
<1>13. CASE BindSwap(i)
  <2>1. Dependent(i) \in Task /\ r[i] \in Task
    BY <1>13, Notifying, Dag DEF BindSwap, Busy, Locals, Local
  <2>2. queue[r[i]] \in Queue
    BY <2>1
  <2>3. view' \in [Thread -> [queue : Queue, list : Seq(Task)]]
    BY <1>13, <2>2, ViewTypes DEF BindSwap
  <2>4. QED
    BY <1>13, <2>1, <2>2, <2>3 DEF BindSwap, AcquireRun
<1>14. CASE Ready(i)
  <2>1. Dependent(i) \in Task
    BY <1>14, Notifying DEF Ready, Busy, Locals, Local
  <2>2. queue[Dependent(i)] \in Queue
    BY <2>1
  <2>3. view' \in [Thread -> [queue : Queue, list : Seq(Task)]]
    BY <1>14, <2>2, ViewTypes DEF Ready
  <2>4. PICK q \in Queue : AcquireRun(i, q) /\ lock' = [lock EXCEPT ![i] = q]
    BY <1>14, <2>2 DEF Ready
  <2>5. /\ run_lock' \in [Queue -> Thread \cup {Free}] /\ lock' \in [Thread -> Queue]
    BY <2>4 DEF AcquireRun
  <2>6. enq' \in [Thread -> Task \cup {NULL}] /\ pc' \in [Thread -> Label]
    BY <1>14, <2>1 DEF Ready
  <2>7. QED
    BY <1>14, <2>3, <2>5, <2>6 DEF Ready
<1>15. CASE EnqueueTask(i)
  <2>1. enq[i] \in Task
    BY <1>15, Dag DEF EnqueueTask, Locals, Local, NULL
  <2>0. k[i] + 1 \in Nat
    OBVIOUS
  <2>2. view[i].list \in Seq(Task) /\ view' \in [Thread -> [queue : Queue, list : Seq(Task)]]
    BY <1>15, ViewTypes DEF EnqueueTask
  <2>3. wait_queue' \in [Queue -> Seq(Task)]
    BY <1>15, <2>1, <2>2, EnqueueTypes DEF EnqueueTask
  <2>4. QED
    BY <1>15, <2>0, <2>1, <2>2, <2>3 DEF EnqueueTask, ReleaseRun
<1>16. CASE FreeWrites(i)
  BY <1>16 DEF FreeWrites
<1>17. CASE FreeReads(i)
  BY <1>17, Freeing DEF FreeReads, Busy
<1>18. CASE FreeClear(i)
  <2>1. FreedBlock(i) \in Block /\ WarLock(i) \in Thread
    BY <1>18, Freeing DEF FreeClear, Busy, Locals, Local
  <2>2. nodes[i] \in Seq(Task) /\ <<>> \in Seq(Task)
    OBVIOUS
  <2>3. Len(nodes[i]) \in Nat /\ k[i] + 1 \in Nat
    BY <2>2
  <2>4. read_task' \in [Block -> Seq(Task)] /\ nodes' \in [Thread -> Seq(Task)]
    BY <1>18, <2>1, <2>2 DEF FreeClear
  <2>5. freed_nodes' \in [Block -> Nat] /\ k' \in [Thread -> Nat]
    <3>0. freed_nodes[FreedBlock(i)] \in Nat
      BY <2>1
    <3>1. \A a, b \in Nat : a + b \in Nat
      OBVIOUS
    <3>2. QED
      BY <1>18, <2>1, <2>3, <3>0, <3>1 DEF FreeClear
  <2>6. war_lock' \in [Thread -> Thread \cup {Free}] /\ pc' \in [Thread -> Label]
    BY <1>18, <2>1 DEF FreeClear
  <2>7. QED
    BY <1>18, <2>4, <2>5, <2>6 DEF FreeClear
<1>19. CASE FreeTask(i)
  BY <1>19, Working DEF FreeTask, Busy
<1>20. CASE Steal(i)
  <2>1. PICK q \in Queue : AcquireRun(i, q) /\ See(i, q) /\ lock' = [lock EXCEPT ![i] = q]
    BY <1>20 DEF Steal
  <2>2. view' \in [Thread -> [queue : Queue, list : Seq(Task)]]
    BY <2>1, ViewTypes
  <2>3. QED
    BY <1>20, <2>1, <2>2 DEF Steal, AcquireRun
<1>21. CASE StealDequeue(i)
  <2> DEFINE s == view[i].list
  <2>1. s \in Seq(Task) /\ MyQueue(i) \in Queue
        /\ view' \in [Thread -> [queue : Queue, list : Seq(Task)]]
    BY <1>21, Teams, ViewTypes DEF StealDequeue
  <2>2. wait_queue' \in [Queue -> Seq(Task)] /\ queue' \in [Task -> Queue]
        /\ r' \in [Thread -> Task \cup {NULL}]
    <3>1. CASE s = <<>>
      BY <1>21, <3>1 DEF StealDequeue
    <3>2. CASE s # <<>>
      <4>1. /\ wait_queue' = [wait_queue EXCEPT ![view[i].queue] = UnlinkTail(s)]
            /\ queue' = [queue EXCEPT ![s[Len(s)]] = MyQueue(i)]
            /\ r' = [r EXCEPT ![i] = s[Len(s)]]
        BY <1>21, <3>2 DEF StealDequeue
      <4> HIDE DEF s
      <4>2. wait_queue' \in [Queue -> Seq(Task)] /\ s[Len(s)] \in Task
        BY <2>1, <3>2, <4>1, StealTypes
      <4>3. QED
        BY <2>1, <4>1, <4>2
    <3>3. QED
      BY <3>1, <3>2
  <2>3. QED
    BY <1>21, <2>1, <2>2 DEF StealDequeue, ReleaseRun
<1>22. CASE Commit(i)
  <2>1. n_committed' \in Nat
    BY <1>22 DEF Commit
  <2>2. 0 \in Queue
    BY Teams, Zenon
  <2>3. pc' \in [Thread -> Label]
    BY <1>22 DEF Commit
  <2>4. lq' \in [Thread -> Queue] /\ lock' \in [Thread -> Queue]
    BY <1>22, <2>2 DEF Commit
  <2>5. k' \in [Thread -> Nat] /\ cnt' \in [Thread -> Int] /\ t' \in [Thread -> Task \cup {NULL}]
    BY <1>22 DEF Commit
  <2>6. QED
    BY <1>22, <2>1, <2>3, <2>4, <2>5 DEF Commit
<1>24. QED
  BY <1>1, <1>2, <1>3, <1>4, <1>5, <1>6, <1>7, <1>8, <1>9, <1>10, <1>11, <1>12, <1>13,
     <1>14, <1>15, <1>16, <1>17, <1>18, <1>19, <1>20, <1>21, <1>22, <1>23 DEF Step

LEMMA TypesNext ==
  ASSUME Types, Locals, [Next]_vars
  PROVE  Types'
<1> USE DEF Types, TypeOK, shared, locks, ghosts, locals, Queue
<1>1. CASE FLASH_Queue_init_tasks
  <2>1. n_init \in Nat /\ dag.n_tasks \in Nat
    BY Dag
  <2>2. n_init + 1 \in Task /\ n_init + 1 \in 0..dag.n_tasks
    <3>1. n_init + 1 \in 1..dag.n_tasks
      BY <1>1, <2>1 DEF FLASH_Queue_init_tasks
    <3>2. n_init + 1 \in Region /\ Region \subseteq Task
      BY <3>1, Dag, Zenon DEF Region
    <3>3. QED
      BY <2>1, <3>1, <3>2
  <2>3. wait_queue' \in [Queue -> Seq(Task)]
    <3>1. n_ready[n_init + 1] = 0 => Enqueue(ViewOf(queue[n_init + 1]), n_init + 1)
      BY <1>1 DEF FLASH_Queue_init_tasks
    <3>2. ViewOf(queue[n_init + 1]).list \in Seq(Task)
      BY <2>2 DEF ViewOf
    <3>3. QED
      BY <1>1, <2>2, <3>1, <3>2, EnqueueTypes DEF FLASH_Queue_init_tasks
  <2>4. QED
    BY <1>1, <2>2, <2>3 DEF FLASH_Queue_init_tasks
<1>2. CASE \E i \in Thread : Step(i)
  BY <1>2, TypesStep
<1>3. CASE UNCHANGED vars
  BY <1>3 DEF vars
<1>4. QED
  BY <1>1, <1>2, <1>3 DEF Next

-----------------------------------------------------------------------------
(* What a step of thread i leaves alone.                                   *)

LEMMA Alone ==
  ASSUME Types, NEW i \in Thread, Step(i)
  PROVE  /\ n_init = dag.n_tasks /\ UNCHANGED <<dag, conf, n_init>>
         /\ \A a \in Thread \ {i} :
              /\ pc'[a] = pc[a] /\ t'[a] = t[a] /\ r'[a] = r[a] /\ k'[a] = k[a]
              /\ lq'[a] = lq[a] /\ cnt'[a] = cnt[a] /\ enq'[a] = enq[a]
              /\ lock'[a] = lock[a] /\ nodes'[a] = nodes[a]
              /\ view'[a] = view[a]
<1> USE DEF Types, TypeOK, At, Goto, See, Forget, shared, locks, ghosts, locals
<1>1. CASE Loop(i) \/ LoopBound(i) \/ DequeueNone(i) \/ Exec(i) \/ Bind(i)
  BY <1>1, SMTT(60) DEF Loop, LoopBound, DequeueNone, Exec, Bind, Run
<1>2. CASE DequeueTask(i)
  BY <1>2 DEF DequeueTask, Run
<1>3. CASE BindDequeue(i)
  BY <1>3 DEF BindDequeue
<1>4. CASE DepQueue(i) \/ DepRead(i) \/ DepDone(i) \/ Notify(i) \/ NotifyWrite(i)
  BY <1>4 DEF DepQueue, DepRead, DepDone, Notify, NotifyWrite
<1>5. CASE BindFirst(i) \/ BindSwap(i) \/ Ready(i) \/ EnqueueTask(i)
  BY <1>5 DEF BindFirst, BindSwap, Ready, EnqueueTask
<1>6. CASE FreeWrites(i) \/ FreeReads(i) \/ FreeClear(i) \/ FreeTask(i)
  BY <1>6 DEF FreeWrites, FreeReads, FreeClear, FreeTask
<1>7. CASE Steal(i)
  BY <1>7 DEF Steal
<1>8. CASE StealDequeue(i)
  BY <1>8 DEF StealDequeue
<1>9. CASE Commit(i)
  BY <1>9 DEF Commit
<1>10. QED
  BY <1>1, <1>2, <1>3, <1>4, <1>5, <1>6, <1>7, <1>8, <1>9 DEF Step

-----------------------------------------------------------------------------
(* The locals stay in the region, whatever a thread finds in the queues.   *)

LEMMA LocalsOthers ==
  ASSUME Types, Types', Locals, NEW i \in Thread, Step(i), NEW a \in Thread, a # i
  PROVE  Local(a)'
<1>1. /\ pc'[a] = pc[a] /\ t'[a] = t[a] /\ r'[a] = r[a] /\ k'[a] = k[a] /\ enq'[a] = enq[a]
      /\ view'[a] = view[a] /\ dag' = dag /\ Region' = Region
  BY Alone DEF Region
<1>2. Local(a)
  BY DEF Locals
<1>3. QED
  BY <1>1, <1>2 DEF Local

(* What a thread sees and puts into the waiting queues.                    *)
LEMMA ListsStep ==
  ASSUME Types, Locals, Listed, NEW i \in Thread, Step(i)
  PROVE  /\ wait_queue' \in [Queue -> Seq(Region)] /\ view'[i].list \in Seq(Region)
         /\ DequeueTask(i) => t'[i] \in Region
         /\ BindDequeue(i) \/ StealDequeue(i) => r'[i] \in Region \cup {NULL}
<1>0. /\ wait_queue \in [Queue -> Seq(Region)] /\ view[i].list \in Seq(Region)
      /\ t \in [Thread -> Task \cup {NULL}] /\ r \in [Thread -> Task \cup {NULL}]
      /\ r[i] \in Region \cup {NULL}
      /\ view \in [Thread -> [queue : Queue, list : Seq(Task)]]
  BY DEF Listed, Locals, Local, Types, TypeOK
<1>1. \A q \in Queue : See(i, q) => view'[i].list \in Seq(Region)
  BY <1>0 DEF See, ViewOf
<1>2. Forget(i) => view'[i].list \in Seq(Region)
  <2>1. <<>> \in Seq(Region)
    OBVIOUS
  <2>2. QED
    BY <1>0, <2>1 DEF Forget, NoView
<1>3. view' = view => view'[i].list \in Seq(Region)
  BY <1>0
<1> USE DEF At, Goto, shared, locks, ghosts, locals
<1>4. CASE Loop(i)
  BY <1>0, <1>1, <1>4, Teams DEF Loop, DequeueTask, BindDequeue, StealDequeue
<1>5. CASE LoopBound(i) \/ Exec(i) \/ DepQueue(i) \/ DepRead(i) \/ DepDone(i)
  BY <1>0, <1>3, <1>5 DEF LoopBound, Exec, DepQueue, DepRead, DepDone, DequeueTask, BindDequeue,
     StealDequeue
<1>6. CASE Notify(i) \/ NotifyWrite(i) \/ BindFirst(i) \/ Commit(i)
  BY <1>0, <1>3, <1>6 DEF Notify, NotifyWrite, BindFirst, Commit, DequeueTask, BindDequeue,
     StealDequeue
<1>7. CASE FreeWrites(i) \/ FreeReads(i) \/ FreeClear(i) \/ FreeTask(i)
  BY <1>0, <1>3, <1>7 DEF FreeWrites, FreeReads, FreeClear, FreeTask, DequeueTask, BindDequeue,
     StealDequeue
<1>8. CASE DequeueNone(i)
  BY <1>0, <1>2, <1>8 DEF DequeueNone, DequeueTask, BindDequeue, StealDequeue
<1>9. CASE Bind(i)
  <2>1. queue[t[i]] \in Queue
    BY <1>9, Working DEF Bind, Busy, Types, TypeOK
  <2>2. QED
    BY <1>0, <1>1, <1>9, <2>1 DEF Bind, DequeueTask, BindDequeue, StealDequeue
<1>10. CASE BindSwap(i)
  <2>1. r[i] \in Task
    BY <1>0, <1>10, Dag DEF BindSwap
  <2>2. queue[r[i]] \in Queue
    BY <2>1 DEF Types, TypeOK
  <2>3. QED
    BY <1>0, <1>1, <1>10, <2>2 DEF BindSwap, DequeueTask, BindDequeue, StealDequeue
<1>11. CASE Ready(i)
  <2>1. Dependent(i) \in Task
    BY <1>11, Notifying DEF Ready, Busy, Locals, Local
  <2>2. queue[Dependent(i)] \in Queue
    BY <2>1 DEF Types, TypeOK
  <2>3. QED
    BY <1>0, <1>1, <1>11, <2>2 DEF Ready, DequeueTask, BindDequeue, StealDequeue
<1>12. CASE Steal(i)
  <2>1. PICK q \in Queue : See(i, q)
    BY <1>12 DEF Steal
  <2>2. QED
    BY <1>0, <1>1, <1>12, <2>1 DEF Steal, DequeueTask, BindDequeue, StealDequeue
<1>13. CASE DequeueTask(i)
  <2>1. PICK m, found : Dequeue(view[i], m, found) /\ Run(i, view[i].list[m])
    BY <1>13 DEF DequeueTask
  <2>2. wait_queue' \in [Queue -> Seq(Region)] /\ view[i].list[m] \in Region
    BY <1>0, <2>1, DequeueTypes
  <2>3. t'[i] \in Region
    BY <1>0, <2>1, <2>2 DEF Run
  <2>4. Forget(i) /\ pc[i] = "dequeue"
    BY <1>13 DEF DequeueTask
  <2>5. QED
    BY <1>2, <2>2, <2>3, <2>4 DEF BindDequeue, StealDequeue
<1>14. CASE BindDequeue(i)
  <2>1. Forget(i) /\ pc[i] = "bind_dequeue"
    BY <1>14 DEF BindDequeue
  <2>2. wait_queue' \in [Queue -> Seq(Region)] /\ r'[i] \in Region \cup {NULL}
    <3>1. CASE UNCHANGED <<wait_queue, hit, r>>
      BY <1>0, <3>1
    <3>2. CASE \E m, found : Dequeue(view[i], m, found) /\ r' = [r EXCEPT ![i] = view[i].list[m]]
      <4>1. PICK m, found : Dequeue(view[i], m, found) /\ r' = [r EXCEPT ![i] = view[i].list[m]]
        BY <3>2
      <4>2. wait_queue' \in [Queue -> Seq(Region)] /\ view[i].list[m] \in Region
        BY <1>0, <4>1, DequeueTypes
      <4>3. QED
        BY <1>0, <4>1, <4>2
    <3>3. QED
      BY <1>14, <3>1, <3>2 DEF BindDequeue
  <2>3. QED
    BY <1>2, <2>1, <2>2 DEF DequeueTask
<1>15. CASE EnqueueTask(i)
  <2>1. enq[i] \in Region /\ Enqueue(view[i], enq[i]) /\ Forget(i) /\ pc[i] = "enqueue"
    BY <1>15 DEF EnqueueTask, Locals, Local
  <2>2. wait_queue' \in [Queue -> Seq(Region)]
    BY <1>0, <2>1, EnqueueTypes
  <2>3. QED
    BY <1>2, <2>1, <2>2 DEF DequeueTask, BindDequeue, StealDequeue
<1>16. CASE StealDequeue(i)
  <2> DEFINE z == view[i].list
  <2>1. Forget(i) /\ pc[i] = "steal_dequeue"
    BY <1>16 DEF StealDequeue
  <2>2. wait_queue' \in [Queue -> Seq(Region)] /\ r'[i] \in Region \cup {NULL}
    <3>1. CASE z = <<>>
      BY <1>0, <1>16, <3>1 DEF StealDequeue
    <3>2. CASE z # <<>>
      <4>1. /\ wait_queue' = [wait_queue EXCEPT ![view[i].queue] = UnlinkTail(z)]
            /\ r' = [r EXCEPT ![i] = z[Len(z)]]
        BY <1>16, <3>2 DEF StealDequeue
      <4>2. wait_queue' \in [Queue -> Seq(Region)] /\ z[Len(z)] \in Region
        BY <1>0, <3>2, <4>1, StealTypes
      <4> HIDE DEF z
      <4>3. QED
        BY <1>0, <4>1, <4>2
    <3>3. QED
      BY <3>1, <3>2
  <2>3. QED
    BY <1>2, <2>1, <2>2 DEF DequeueTask
<1>17. QED
  BY <1>4, <1>5, <1>6, <1>7, <1>8, <1>9, <1>10, <1>11, <1>12, <1>13, <1>14, <1>15, <1>16 DEF Step

LEMMA LocalsStep ==
  ASSUME Types, Types', Locals, Listed, NEW i \in Thread, Step(i)
  PROVE  Locals' /\ Listed'
<1>0. /\ Local(i) /\ dag' = dag /\ Region' = Region /\ Queue' = Queue
      /\ \A a \in Thread : t[a] # NULL => t[a] \in Task /\ t[a] \in Region
  BY Alone, Dag DEF Locals, Local, Region, Queue
<1>1. /\ wait_queue' \in [Queue -> Seq(Region)] /\ view'[i].list \in Seq(Region)
      /\ DequeueTask(i) => t'[i] \in Region
      /\ BindDequeue(i) \/ StealDequeue(i) => r'[i] \in Region \cup {NULL}
  BY ListsStep
<1>2. Local(i)'
  <2> USE DEF Types, TypeOK, At, Goto, shared, locks, ghosts, locals
  <2>1. CASE Loop(i) \/ DequeueNone(i)
    <3>1. CASE Loop(i)
      BY <1>0, <1>1, <3>1 DEF Loop, Local, Busy
    <3>2. CASE DequeueNone(i)
      BY <1>0, <1>1, <3>2 DEF DequeueNone, Local, Busy
    <3>3. QED
      BY <2>1, <3>1, <3>2
  <2>2. CASE LoopBound(i)
    BY <1>0, <1>1, <2>2 DEF LoopBound, Run, Local
  <2>3. CASE DequeueTask(i)
    <3>1. /\ pc[i] = "dequeue" /\ pc'[i] = "exec" /\ r' = r /\ enq' = enq /\ k' = k
      BY <2>3 DEF DequeueTask, Run
    <3>2. t'[i] \in Region /\ t'[i] # NULL
      BY <1>0, <1>1, <2>3, Dag
    <3>3. QED
      BY <1>0, <1>1, <3>1, <3>2 DEF Local, Busy
  <2>4. CASE Exec(i)
    BY <1>0, <1>1, <2>4 DEF Exec, Local, Busy
  <2>5. CASE Bind(i)
    BY <1>0, <1>1, <2>5 DEF Bind, Local, Busy
  <2>6. CASE BindDequeue(i)
    BY <1>0, <1>1, <2>6 DEF BindDequeue, Local, Busy
  <2>7. CASE DepQueue(i) \/ DepRead(i) \/ DepDone(i) \/ Notify(i)
    <3>1. CASE DepQueue(i) \/ DepRead(i)
      BY <1>0, <1>1, <3>1, SMTT(60) DEF DepQueue, DepRead, Local, Busy
    <3>2. CASE DepDone(i)
      BY <1>0, <1>1, <3>2 DEF DepDone, Local, Busy
    <3>3. CASE Notify(i)
      BY <1>0, <1>1, <3>3 DEF Notify, Local, Busy
    <3>4. QED
      BY <2>7, <3>1, <3>2, <3>3
  <2>8. CASE NotifyWrite(i)
    <3>1. /\ pc[i] = "notify_write" /\ pc'[i] \in {"ready", "dep"}
          /\ pc'[i] = "ready" => k'[i] = k[i]
          /\ k'[i] \in {k[i], k[i] + 1}
          /\ t' = t /\ r' = r /\ enq' = enq
      BY <1>0, <2>8, SMTT(30) DEF NotifyWrite
    <3>2. k[i] + 1 >= 1
      BY <1>0
    <3>3. QED
      BY <1>0, <1>1, <3>1, <3>2 DEF Local, Busy
  <2>9. CASE BindFirst(i) \/ BindSwap(i) \/ Ready(i)
    <3>1. Dependent(i) \in Region /\ Dependent(i) \in Task
      BY <1>0, <2>9, Notifying DEF BindFirst, BindSwap, Ready, Local, Busy
    <3>2. CASE BindFirst(i)
      BY <1>0, <1>1, <3>1, <3>2 DEF BindFirst, Local, Busy
    <3>3. CASE BindSwap(i)
      BY <1>0, <1>1, <3>1, <3>3, Dag DEF BindSwap, Local, Busy
    <3>4. CASE Ready(i)
      BY <1>0, <1>1, <3>1, <3>4, Dag, ZenonT(60) DEF Ready, Local, Busy
    <3>5. QED
      BY <2>9, <3>2, <3>3, <3>4
  <2>10. CASE EnqueueTask(i)
    BY <1>0, <1>1, <2>10 DEF EnqueueTask, Local, Busy
  <2>11. CASE FreeWrites(i) \/ FreeTask(i)
    BY <1>0, <1>1, <2>11, SMTT(30) DEF FreeWrites, FreeTask, Local, Busy
  <2>12. CASE FreeReads(i)
    BY <1>0, <1>1, <2>12 DEF FreeReads, Local, Busy
  <2>13. CASE FreeClear(i)
    BY <1>0, <1>1, <2>13, SMTT(30) DEF FreeClear, Local, Busy
  <2>14. CASE Steal(i)
    BY <1>0, <1>1, <2>14 DEF Steal, Local, Busy
  <2>15. CASE StealDequeue(i)
    BY <1>0, <1>1, <2>15 DEF StealDequeue, Local, Busy
  <2>16. CASE Commit(i)
    BY <1>0, <1>1, <2>16 DEF Commit, Local, Busy, NULL
  <2>17. QED
    BY <2>1, <2>2, <2>3, <2>4, <2>5, <2>6, <2>7, <2>8, <2>9, <2>10, <2>11, <2>12, <2>13,
       <2>14, <2>15, <2>16 DEF Step
<1>3. QED
  BY <1>0, <1>1, <1>2, LocalsOthers DEF Locals, Listed

LEMMA LocalsSetup ==
  ASSUME Types, Locals, Listed, FLASH_Queue_init_tasks
  PROVE  Locals' /\ Listed'
<1>1. /\ UNCHANGED <<dag, conf, pc, t, r, k, enq, view>>
      /\ Region' = Region /\ Queue' = Queue
  BY DEF FLASH_Queue_init_tasks, locals, Region, Queue
<1>2. Locals'
  BY <1>1 DEF Locals, Local
<1>3. n_init + 1 \in Region
  BY Dag DEF FLASH_Queue_init_tasks, Region, Types, TypeOK
<1>4. queue[n_init + 1] \in Queue
  BY <1>3, Dag DEF Types, TypeOK
<1>5. ViewOf(queue[n_init + 1]).list \in Seq(Region)
  BY <1>4 DEF ViewOf, Listed
<1>6. CASE Enqueue(ViewOf(queue[n_init + 1]), n_init + 1)
  BY <1>1, <1>2, <1>3, <1>5, <1>6, EnqueueTypes DEF Listed
<1>7. CASE wait_queue' = wait_queue
  BY <1>1, <1>2, <1>7 DEF Listed
<1>8. QED
  BY <1>6, <1>7 DEF FLASH_Queue_init_tasks

LEMMA LocalsNext == Types /\ Locals /\ Listed /\ [Next]_vars => Types' /\ Locals' /\ Listed'
<1> SUFFICES ASSUME Types, Locals, Listed, [Next]_vars PROVE Types' /\ Locals' /\ Listed'
  OBVIOUS
<1>1. Types'
  BY TypesNext
<1>2. CASE UNCHANGED vars
  BY <1>1, <1>2 DEF vars, shared, locals, Locals, Local, Listed, Region, Queue
<1>3. QED
  BY <1>1, <1>2, LocalsStep, LocalsSetup DEF Next

LEMMA LocalsInit == Init => Types /\ Locals /\ Listed
<1> SUFFICES ASSUME NEW e \in Execution, InitWith(e.graph, e.setting)
             PROVE  Types /\ Locals /\ Listed
  BY DEF Init
<1>1. Types
  BY TypesInit DEF Init
<1>2. /\ pc = [i \in Thread |-> "loop"]
      /\ t = [i \in Thread |-> NULL] /\ r = [i \in Thread |-> NULL] /\ enq = [i \in Thread |-> NULL]
      /\ k = [i \in Thread |-> 1] /\ view = [i \in Thread |-> NoView]
      /\ wait_queue = [q \in Queue |-> <<>>]
  BY DEF InitWith
<1>3. <<>> \in Seq(Region) /\ \A i \in Thread : view[i].list = <<>>
  BY <1>2 DEF NoView
<1>4. \A i \in Thread : /\ pc[i] = "loop" /\ t[i] = NULL /\ r[i] = NULL /\ enq[i] = NULL
                       /\ k[i] = 1 /\ view[i].list \in Seq(Region)
  BY <1>2, <1>3
<1>5. Locals
  BY <1>4 DEF Locals, Local, Busy
<1>6. QED
  BY <1>1, <1>2, <1>3, <1>5 DEF Listed

(* Types are never violated, whatever the settings: a thread finds only    *)
(* tasks of the region in the waiting queues and in its own variables,     *)
(* even where lists are overwritten under the lock of another queue.       *)
THEOREM TypeCorrect == Spec => []TypeOK
<1>1. Types /\ Locals /\ Listed => TypeOK
  BY DEF Types
<1>2. QED
  BY LocalsInit, LocalsNext, <1>1, PTL DEF Spec

-----------------------------------------------------------------------------
(* Under Steady the list that a thread has read is the waiting queue when  *)
(* it writes the changed list: the change is made at once.                 *)

EnqueueNow(x) ==
  LET s == wait_queue[queue[x]]
  IN  wait_queue' = [wait_queue EXCEPT ![queue[x]] = InsertIndex(s, Keep(s, x), x)]

DequeueNow(q, m, found) ==
  /\ m \in 1..Len(wait_queue[q])
  /\ found => conf.caching /\ Len(wait_queue[q]) > 1
  /\ ~found => m = 1
  /\ wait_queue' = [wait_queue EXCEPT ![q] = RemoveIndex(wait_queue[q], m)]
  /\ hit' = IF found THEN [hit EXCEPT ![wait_queue[q][m]] = TRUE] ELSE hit

DequeueTaskNow(i) ==
  /\ At(i, "dequeue")
  /\ \E m \in 1..Len(wait_queue[MyQueue(i)]), found \in BOOLEAN :
       /\ DequeueNow(MyQueue(i), m, found)
       /\ Run(i, wait_queue[MyQueue(i)][m])
  /\ ReleaseRun(MyQueue(i))
  /\ UNCHANGED <<dag, conf, n_init, n_ready, queue, write_task, read_task, n_committed,
                 dep_lock, war_lock, freed, freed_nodes, r, k, lq, cnt, enq, lock, nodes>>

BindDequeueNow(i) ==
  /\ At(i, "bind_dequeue")
  /\ \/ \E m \in 1..Len(wait_queue[lock[i]]), found \in BOOLEAN :
          /\ DequeueNow(lock[i], m, found)
          /\ r' = [r EXCEPT ![i] = wait_queue[lock[i]][m]]
     \/ /\ wait_queue[lock[i]] = <<>>
        /\ UNCHANGED <<wait_queue, hit, r>>
  /\ ReleaseRun(lock[i])
  /\ Goto(i, "dep")
  /\ UNCHANGED <<dag, conf, n_init, n_ready, queue, write_task, read_task, n_committed,
                 dep_lock, war_lock, ghosts, t, k, lq, cnt, enq, lock, nodes>>

EnqueueTaskNow(i) ==
  /\ At(i, "enqueue")
  /\ EnqueueNow(enq[i])
  /\ ReleaseRun(lock[i])
  /\ enq' = [enq EXCEPT ![i] = NULL]
  /\ k' = [k EXCEPT ![i] = @ + 1]
  /\ Goto(i, "dep")
  /\ UNCHANGED <<dag, conf, n_init, n_ready, queue, hit, write_task, read_task, n_committed,
                 dep_lock, war_lock, ghosts, t, r, lq, cnt, lock, nodes>>

StealDequeueNow(i) ==
  /\ At(i, "steal_dequeue")
  /\ LET s == wait_queue[lock[i]]
     IN  IF s = <<>>
         THEN UNCHANGED <<wait_queue, queue, r>>
         ELSE /\ wait_queue' = [wait_queue EXCEPT ![lock[i]] = UnlinkTail(s)]
              /\ queue' = [queue EXCEPT ![s[Len(s)]] = MyQueue(i)]
              /\ r' = [r EXCEPT ![i] = s[Len(s)]]
  /\ ReleaseRun(lock[i])
  /\ Goto(i, "commit")
  /\ UNCHANGED <<dag, conf, n_init, n_ready, hit, write_task, read_task, n_committed,
                 dep_lock, war_lock, ghosts, t, k, lq, cnt, enq, lock, nodes>>

StepNow(i) ==
  \/ Loop(i) \/ LoopBound(i) \/ DequeueTaskNow(i) \/ DequeueNone(i) \/ Exec(i)
  \/ Bind(i) \/ BindDequeueNow(i) \/ DepQueue(i) \/ DepRead(i) \/ DepDone(i)
  \/ Notify(i) \/ NotifyWrite(i) \/ BindFirst(i) \/ BindSwap(i) \/ Ready(i) \/ EnqueueTaskNow(i)
  \/ FreeWrites(i) \/ FreeReads(i) \/ FreeClear(i) \/ FreeTask(i)
  \/ Steal(i) \/ StealDequeueNow(i) \/ Commit(i)

LEMMA StepIsNow ==
  ASSUME Steady, NEW i \in Thread, Step(i)
  PROVE  StepNow(i)
<1>0. SameQueue(i) /\ Fresh(i)
  BY DEF Steady
<1>1. CASE DequeueTask(i)
  <2>1. view[i].list = wait_queue[MyQueue(i)] /\ view[i].queue = MyQueue(i)
    BY <1>0, <1>1 DEF DequeueTask, At, Fresh, ViewOf
  <2>2. DequeueTaskNow(i)
    BY <1>1, <2>1 DEF DequeueTask, DequeueTaskNow, Dequeue, DequeueNow
  <2>3. QED
    BY <2>2 DEF StepNow
<1>2. CASE BindDequeue(i)
  <2>1. view[i].list = wait_queue[lock[i]] /\ view[i].queue = lock[i]
    BY <1>0, <1>2 DEF BindDequeue, At, Fresh, ViewOf
  <2>2. BindDequeueNow(i)
    BY <1>2, <2>1 DEF BindDequeue, BindDequeueNow, Dequeue, DequeueNow
  <2>3. QED
    BY <2>2 DEF StepNow
<1>3. CASE EnqueueTask(i)
  <2>1. /\ view[i].list = wait_queue[queue[enq[i]]] /\ view[i].queue = queue[enq[i]]
    BY <1>0, <1>3 DEF EnqueueTask, At, Fresh, SameQueue, ViewOf
  <2>2. EnqueueTaskNow(i)
    BY <1>3, <2>1 DEF EnqueueTask, EnqueueTaskNow, Enqueue, EnqueueNow
  <2>3. QED
    BY <2>2 DEF StepNow
<1>4. CASE StealDequeue(i)
  <2>1. view[i].list = wait_queue[lock[i]] /\ view[i].queue = lock[i]
    BY <1>0, <1>4 DEF StealDequeue, At, Fresh, ViewOf
  <2>2. StealDequeueNow(i)
    BY <1>4, <2>1 DEF StealDequeue, StealDequeueNow
  <2>3. QED
    BY <2>2 DEF StepNow
<1>5. QED
  BY <1>1, <1>2, <1>3, <1>4 DEF Step, StepNow

-----------------------------------------------------------------------------
(* Which task a thread has.                                                *)

(* A task in a place is available.                                         *)
LEMMA Placed ==
  ASSUME IInv, NEW x \in Region, NEW c \in Kind, NEW a \in Thread, Has(c, a, x)
  PROVE  Available(x)
BY DEF IInv, InOnePlace, OnePlace

LEMMA Queued ==
  ASSUME IInv, NEW q \in Queue, NEW m \in 1..Len(wait_queue[q])
  PROVE  wait_queue[q][m] \in Region /\ Available(wait_queue[q][m])
<1>1. wait_queue[q][m] \in Region /\ wait_queue[q][m] \in Waiting(q)
  BY DEF IInv, Listed, Waiting, Members
<1>2. q \in Thread
  BY Teams DEF IInv
<1>3. Has("queue", q, wait_queue[q][m])
  BY <1>1 DEF Has
<1>4. QED
  BY <1>1, <1>2, <1>3, Placed DEF Kind

(* Thread i starts task x, or finishes its task, or is done with it, or    *)
(* does something else for it.                                             *)
Starts(i, x) ==
  /\ Available(x) /\ pc[i] \in {"loop", "dequeue"} /\ t[i] = NULL
  /\ pc'[i] = "exec" /\ t'[i] = x /\ state' = [state EXCEPT ![x] = "running"]
Finishes(i) ==
  /\ pc[i] = "exec" /\ t'[i] = t[i] /\ pc'[i] \in {"bind", "dep"} /\ k'[i] = 1
  /\ state' = [state EXCEPT ![t[i]] = "done"]
Leaves(i) ==
  /\ pc[i] = "commit" /\ t'[i] = NULL /\ pc'[i] \in {"loop", "exit"} /\ k'[i] = 1
  /\ state' = state
Continues(i) ==
  /\ pc[i] \notin {"exec", "commit"} /\ pc'[i] # "exec" /\ t'[i] = t[i] /\ state' = state

LEMMA Moves ==
  ASSUME IInv, NEW i \in Thread, Step(i), StepNow(i)
  PROVE  (\E x \in Region : Starts(i, x)) \/ Finishes(i) \/ Leaves(i) \/ Continues(i)
<1>0. Types /\ Local(i)
  BY DEF IInv, Locals
<1> USE DEF Types, TypeOK, At, Goto, shared, locks, ghosts, locals
<1>1. CASE Loop(i) \/ DequeueNone(i) \/ Bind(i) \/ BindDequeueNow(i)
  BY <1>0, <1>1 DEF Loop, DequeueNone, Bind, BindDequeueNow, Continues, Local
<1>2. CASE DepQueue(i) \/ DepRead(i) \/ DepDone(i) \/ Notify(i) \/ NotifyWrite(i)
  BY <1>0, <1>2 DEF DepQueue, DepRead, DepDone, Notify, NotifyWrite, Continues
<1>3. CASE BindFirst(i) \/ BindSwap(i) \/ Ready(i) \/ EnqueueTaskNow(i)
  BY <1>0, <1>3 DEF BindFirst, BindSwap, Ready, EnqueueTaskNow, Continues
<1>4. CASE FreeWrites(i) \/ FreeReads(i) \/ FreeClear(i) \/ FreeTask(i)
  BY <1>0, <1>4 DEF FreeWrites, FreeReads, FreeClear, FreeTask, Continues
<1>5. CASE Steal(i) \/ StealDequeueNow(i)
  BY <1>0, <1>5 DEF Steal, StealDequeueNow, Continues
<1>6. CASE Exec(i)
  BY <1>0, <1>6 DEF Exec, Finishes
<1>7. CASE Commit(i)
  BY <1>0, <1>7 DEF Commit, Leaves
<1>8. CASE LoopBound(i)
  <2>1. r[i] \in Region
    BY <1>0, <1>8 DEF LoopBound, Local
  <2>2. Available(r[i])
    BY <2>1, Placed DEF Has, Kind
  <2>3. Starts(i, r[i])
    BY <1>0, <1>8, <2>2 DEF LoopBound, Run, Starts, Local
  <2>4. QED
    BY <2>1, <2>3
<1>9. CASE DequeueTaskNow(i)
  <2>1. MyQueue(i) \in Queue
    BY <1>0, Teams
  <2>2. PICK m \in 1..Len(wait_queue[MyQueue(i)]) : Run(i, wait_queue[MyQueue(i)][m])
    BY <1>9 DEF DequeueTaskNow
  <2> DEFINE x == wait_queue[MyQueue(i)][m]
  <2>3. x \in Region /\ Available(x)
    BY <2>1, Queued
  <2>4. Run(i, x)
    BY <2>2
  <2> HIDE DEF x
  <2>5. Starts(i, x)
    BY <1>0, <1>9, <2>3, <2>4 DEF DequeueTaskNow, Run, Starts, Local
  <2>6. QED
    BY <2>3, <2>5
<1>10. QED
  BY <1>1, <1>2, <1>3, <1>4, <1>5, <1>6, <1>7, <1>8, <1>9 DEF StepNow

LEMMA OwnersStep ==
  ASSUME IInv, NEW i \in Thread, Step(i), StepNow(i)
  PROVE  Owners'
<1>0. /\ Types /\ Owners /\ Locals /\ n_init = dag.n_tasks /\ n_init' = n_init /\ dag' = dag
      /\ \A a \in Thread : t[a] # NULL => t[a] \in Task
  BY Alone DEF IInv, Types, TypeOK
<1>1. \A a \in Thread \ {i} : t'[a] = t[a] /\ pc'[a] = pc[a]
  BY <1>0, Alone
<1>2. \A x \in Region, a \in Thread : Available(x) => t[a] # x
  BY <1>0 DEF Available, Owners, NULL, Region
<1>3. \A a, b \in Thread : t'[a] # NULL /\ t'[a] = t'[b] => a = b
  <2>1. CASE \E x \in Region : Starts(i, x)
    BY <1>0, <1>1, <1>2, <2>1 DEF Starts, Owners
  <2>2. CASE Finishes(i) \/ Leaves(i) \/ Continues(i)
    BY <1>0, <1>1, <2>2 DEF Finishes, Leaves, Continues, Owners
  <2>3. QED
    BY <2>1, <2>2, Moves
<1>4. ASSUME NEW a \in Thread, t'[a] # NULL
      PROVE  state'[t'[a]] = IF pc'[a] = "exec" THEN "running" ELSE "done"
  <2>1. CASE \E x \in Region : Starts(i, x)
    <3>1. PICK x \in Region : Starts(i, x)
      BY <2>1
    <3>2. x \in Task /\ t[a] # x
      BY <1>0, <1>2, <3>1, Dag DEF Starts
    <3>3. state'[x] = "running" /\ \A y \in Task : y # x => state'[y] = state[y]
      BY <1>0, <3>1, <3>2 DEF Starts, Types, TypeOK
    <3>4. CASE a = i
      BY <3>1, <3>3, <3>4 DEF Starts
    <3>5. CASE a # i
      BY <1>0, <1>1, <1>4, <3>2, <3>3, <3>5 DEF Owners
    <3>6. QED
      BY <3>4, <3>5
  <2>2. CASE Finishes(i)
    <3>1. pc[i] = "exec" /\ t'[i] = t[i] /\ pc'[i] # "exec" /\ state' = [state EXCEPT ![t[i]] = "done"]
      BY <2>2 DEF Finishes
    <3>2. a # i => t[a] # t[i]
      BY <1>0, <1>1, <1>4 DEF Owners
    <3>3. CASE a = i
      BY <1>0, <1>4, <3>1, <3>3 DEF Types, TypeOK
    <3>4. CASE a # i
      <4>1. state'[t[a]] = state[t[a]]
        BY <1>0, <1>1, <1>4, <3>1, <3>2, <3>4 DEF Types, TypeOK
      <4>2. QED
        BY <1>0, <1>1, <1>4, <3>4, <4>1 DEF Owners
    <3>5. QED
      BY <3>3, <3>4
  <2>3. CASE Leaves(i)
    BY <1>0, <1>1, <1>4, <2>3 DEF Leaves, Owners
  <2>4. CASE Continues(i)
    BY <1>0, <1>1, <1>4, <2>4 DEF Continues, Owners
  <2>5. QED
    BY <2>1, <2>2, <2>3, <2>4, Moves
<1>5. ~(n_init' < dag'.n_tasks)
  BY <1>0, Dag
<1>6. QED
  BY <1>3, <1>4, <1>5 DEF Owners

-----------------------------------------------------------------------------
(* The locks.                                                              *)

(* Thread i takes run_lock q, gives it back, or neither.                   *)
Takes(i, q) ==
  /\ run_lock[q] = Free /\ run_lock' = [run_lock EXCEPT ![q] = i]
  /\ \A p \in Queue : ~HoldsRun(i, p) /\ (HoldsRun(i, p)' <=> p = q)
Gives(i, q) ==
  /\ run_lock' = [run_lock EXCEPT ![q] = Free]
  /\ \A p \in Queue : (HoldsRun(i, p) <=> p = q) /\ ~HoldsRun(i, p)'
Keeps(i) ==
  run_lock' = run_lock /\ \A p \in Queue : ~HoldsRun(i, p) /\ ~HoldsRun(i, p)'

LEMMA RunLock ==
  ASSUME IInv, NEW i \in Thread, Step(i), StepNow(i)
  PROVE  (\E q \in Queue : Takes(i, q) \/ Gives(i, q)) \/ Keeps(i)
<1>0. Types /\ Locals /\ Local(i) /\ conf' = conf /\ \A a \in Thread : MyQueue(a) \in Queue
  BY Alone, Teams DEF IInv, Locals
<1>1. MyQueue(i)' = MyQueue(i)
  BY <1>0 DEF MyQueue
<1> USE DEF Types, TypeOK, At, Goto, shared, locks, ghosts, locals
<1>2. CASE Loop(i)
  <2>1. Takes(i, MyQueue(i))
    BY <1>0, <1>1, <1>2 DEF Loop, AcquireRun, Takes, HoldsRun
  <2>2. QED
    BY <1>0, <2>1
<1>3. CASE DequeueTaskNow(i) \/ DequeueNone(i)
  <2>1. /\ pc[i] = "dequeue" /\ run_lock' = [run_lock EXCEPT ![MyQueue(i)] = Free]
        /\ pc'[i] \in {"exec", "steal", "commit"}
    BY <1>0, <1>3 DEF DequeueTaskNow, DequeueNone, ReleaseRun, Run
  <2>2. Gives(i, MyQueue(i))
    BY <1>0, <1>1, <2>1 DEF Gives, HoldsRun
  <2>3. QED
    BY <1>0, <2>2
<1>4. CASE Bind(i)
  <2>1. queue[t[i]] \in Queue
    BY <1>0, <1>4, Working DEF Bind, Busy
  <2>2. Takes(i, queue[t[i]])
    BY <1>0, <1>4, <2>1 DEF Bind, AcquireRun, Takes, HoldsRun
  <2>3. QED
    BY <2>1, <2>2
<1>5. CASE BindDequeueNow(i) \/ EnqueueTaskNow(i) \/ StealDequeueNow(i)
  <2>1. /\ pc[i] \in {"bind_dequeue", "enqueue", "steal_dequeue"} /\ pc'[i] \in {"dep", "commit"}
        /\ run_lock' = [run_lock EXCEPT ![lock[i]] = Free] /\ lock[i] \in Queue
    BY <1>0, <1>5 DEF BindDequeueNow, EnqueueTaskNow, StealDequeueNow, ReleaseRun
  <2>2. Gives(i, lock[i])
    BY <1>0, <2>1 DEF Gives, HoldsRun
  <2>3. QED
    BY <2>1, <2>2
<1>6. CASE BindSwap(i)
  <2>1. r[i] \in Task
    BY <1>0, <1>6, Dag DEF BindSwap, Local
  <2>2. queue[r[i]] \in Queue
    BY <1>0, <2>1
  <2>3. Takes(i, queue[r[i]])
    BY <1>0, <1>6, <2>2 DEF BindSwap, AcquireRun, Takes, HoldsRun
  <2>4. QED
    BY <2>2, <2>3
<1>7. CASE Ready(i)
  <2>1. Dependent(i) \in Task
    BY <1>0, <1>7, Notifying DEF Ready, Busy, Local
  <2>2. PICK q \in Queue : AcquireRun(i, q) /\ lock' = [lock EXCEPT ![i] = q]
    BY <1>0, <1>7, <2>1 DEF Ready
  <2>3. Takes(i, q)
    BY <1>0, <1>7, <2>2 DEF Ready, AcquireRun, Takes, HoldsRun
  <2>4. QED
    BY <2>3
<1>8. CASE Steal(i)
  <2>1. PICK q \in Queue : AcquireRun(i, q) /\ lock' = [lock EXCEPT ![i] = q]
    BY <1>0, <1>8 DEF Steal
  <2>2. Takes(i, q)
    BY <1>0, <1>8, <2>1 DEF Steal, AcquireRun, Takes, HoldsRun
  <2>3. QED
    BY <2>2
<1>9. CASE LoopBound(i) \/ Exec(i) \/ DepQueue(i) \/ DepRead(i) \/ DepDone(i) \/ Notify(i) \/ NotifyWrite(i)
  <2>1. CASE LoopBound(i) \/ Exec(i) \/ DepQueue(i) \/ DepRead(i)
    BY <1>0, <2>1, SMTT(30) DEF LoopBound, Run, Exec, DepQueue, DepRead, Keeps, HoldsRun
  <2>2. CASE DepDone(i) \/ Notify(i) \/ NotifyWrite(i)
    BY <1>0, <2>2, SMTT(30) DEF DepDone, Notify, NotifyWrite, Keeps, HoldsRun
  <2>3. QED
    BY <1>9, <2>1, <2>2
<1>10. CASE BindFirst(i) \/ FreeWrites(i) \/ FreeReads(i) \/ FreeClear(i) \/ FreeTask(i) \/ Commit(i)
  BY <1>0, <1>10, SMTT(30) DEF BindFirst, FreeWrites, FreeReads, FreeClear, FreeTask, Commit, Keeps, HoldsRun
<1>11. QED
  BY <1>2, <1>3, <1>4, <1>5, <1>6, <1>7, <1>8, <1>9, <1>10 DEF StepNow

LEMMA LocksStep ==
  ASSUME IInv, Types', NEW i \in Thread, Step(i), StepNow(i)
  PROVE  Locks'
<1>0. /\ Types /\ Locals /\ Local(i) /\ dag' = dag /\ conf' = conf /\ Queue' = Queue
      /\ \A a \in Thread : a # Free
      /\ \A a \in Thread \ {i} : pc'[a] = pc[a] /\ t'[a] = t[a] /\ k'[a] = k[a] /\ lock'[a] = lock[a]
  BY Alone, Teams DEF IInv, Locals, Queue
<1>1. /\ \A a \in Thread \ {i}, q \in Queue : HoldsRun(a, q)' <=> HoldsRun(a, q)
      /\ \A a \in Thread \ {i}, l \in Thread : HoldsDep(a, l)' <=> HoldsDep(a, l)
      /\ \A a \in Thread \ {i}, l \in Thread : HoldsWar(a, l)' <=> HoldsWar(a, l)
  BY <1>0 DEF HoldsRun, HoldsDep, HoldsWar, MyQueue, DepLock, WarLock, Dependent, FreedBlock
<1>2. \A a \in Thread, q \in Queue : run_lock'[q] = a <=> HoldsRun(a, q)'
  <2>1. \A a \in Thread, q \in Queue : run_lock[q] = a <=> HoldsRun(a, q)
    BY DEF IInv, Locks
  <2>0. \A a \in Thread, q \in Queue : a # i => (HoldsRun(a, q)' <=> run_lock[q] = a)
    BY <1>1, <2>1
  <2>2. CASE \E q \in Queue : Takes(i, q)
    <3>1. PICK p \in Queue : Takes(i, p)
      BY <2>2
    <3>2. \A q \in Queue : run_lock[q] # i /\ (HoldsRun(i, q)' <=> q = p)
      BY <2>1, <3>1 DEF Takes
    <3>3. /\ run_lock[p] = Free /\ run_lock'[p] = i
          /\ \A q \in Queue : q # p => run_lock'[q] = run_lock[q]
      BY <1>0, <3>1 DEF Takes, Types, TypeOK
    <3>4. QED
      BY <1>0, <2>0, <3>2, <3>3
  <2>3. CASE \E q \in Queue : Gives(i, q)
    <3>1. PICK p \in Queue : Gives(i, p)
      BY <2>3
    <3>2. \A q \in Queue : (run_lock[q] = i <=> q = p) /\ ~HoldsRun(i, q)'
      BY <2>1, <3>1 DEF Gives
    <3>3. /\ run_lock[p] = i /\ run_lock'[p] = Free
          /\ \A q \in Queue : q # p => run_lock'[q] = run_lock[q]
      BY <1>0, <3>1, <3>2 DEF Gives, Types, TypeOK
    <3>4. QED
      BY <1>0, <2>0, <3>2, <3>3
  <2>4. CASE Keeps(i)
    BY <1>1, <2>1, <2>4 DEF Keeps
  <2>5. QED
    BY <2>2, <2>3, <2>4, RunLock
<1> USE DEF Types, TypeOK, At, Goto, shared, locks, ghosts, locals
<1>3. \A a, l \in Thread : dep_lock'[l] = a <=> HoldsDep(a, l)'
  <2>1. \A a, l \in Thread : dep_lock[l] = a <=> HoldsDep(a, l)
    BY DEF IInv, Locks
  <2>0. \A a, l \in Thread : a # i => (HoldsDep(a, l)' <=> dep_lock[l] = a)
    BY <1>1, <2>1
  <2>2. CASE Notify(i)
    <3>1. DepLock(i) \in Thread /\ DepLock(i)' = DepLock(i)
      <4>1. dag' = dag /\ t' = t /\ k' = k
        BY <2>2 DEF Notify
      <4>2. pc[i] = "notify"
        BY <2>2 DEF Notify
      <4>3. DepLock(i) \in Thread
        BY <1>0, <4>2, Notifying DEF Busy, Local
      <4> HIDE DEF Types, TypeOK
      <4>4. QED
        BY <4>1, <4>3 DEF DepLock, Dependent
    <3>2. /\ dep_lock[DepLock(i)] = Free /\ dep_lock' = [dep_lock EXCEPT ![DepLock(i)] = i]
          /\ \A l \in Thread : ~HoldsDep(i, l) /\ (HoldsDep(i, l)' <=> l = DepLock(i))
      BY <1>0, <2>2, <3>1 DEF Notify, HoldsDep
    <3>3. \A l \in Thread : dep_lock[l] # i
      BY <2>1, <3>2
    <3>4. /\ dep_lock[DepLock(i)] = Free /\ dep_lock'[DepLock(i)] = i
          /\ \A l \in Thread : l # DepLock(i) => dep_lock'[l] = dep_lock[l]
      BY <1>0, <3>1, <3>2
    <3> HIDE DEF Types, TypeOK
    <3>5. QED
      BY <1>0, <2>0, <3>2, <3>3, <3>4
  <2>3. CASE NotifyWrite(i)
    <3>1. DepLock(i) \in Thread
      BY <1>0, <2>3, Notifying DEF NotifyWrite, Busy, Local
    <3>2. /\ dep_lock' = [dep_lock EXCEPT ![DepLock(i)] = Free]
          /\ \A l \in Thread : (HoldsDep(i, l) <=> l = DepLock(i)) /\ ~HoldsDep(i, l)'
      <4>1. /\ dep_lock' = [dep_lock EXCEPT ![DepLock(i)] = Free]
            /\ pc[i] = "notify_write" /\ pc'[i] # "notify_write"
        BY <1>0, <2>3, SMTT(60) DEF NotifyWrite
      <4>2. QED
        BY <4>1 DEF HoldsDep
    <3>3. \A l \in Thread : dep_lock[l] = i <=> l = DepLock(i)
      BY <2>1, <3>2
    <3>4. /\ dep_lock[DepLock(i)] = i /\ dep_lock'[DepLock(i)] = Free
          /\ \A l \in Thread : l # DepLock(i) => dep_lock'[l] = dep_lock[l]
      BY <1>0, <3>1, <3>2, <3>3
    <3> HIDE DEF Types, TypeOK
    <3>5. QED
      BY <1>0, <2>0, <3>2, <3>3, <3>4
  <2>4. CASE ~Notify(i) /\ ~NotifyWrite(i)
    <3>1. dep_lock' = dep_lock /\ pc[i] # "notify_write" /\ pc'[i] # "notify_write"
      <4>1. CASE Loop(i) \/ LoopBound(i) \/ DequeueTaskNow(i) \/ DequeueNone(i) \/ Exec(i)
        BY <1>0, <4>1, ZenonT(60) DEF Loop, LoopBound, DequeueTaskNow, DequeueNone, Exec, Run
      <4>2. CASE Bind(i) \/ BindDequeueNow(i) \/ DepQueue(i) \/ DepRead(i) \/ DepDone(i)
        BY <1>0, <4>2 DEF Bind, BindDequeueNow, DepQueue, DepRead, DepDone
      <4>3. CASE BindFirst(i) \/ BindSwap(i) \/ Ready(i) \/ EnqueueTaskNow(i)
        BY <1>0, <4>3 DEF BindFirst, BindSwap, Ready, EnqueueTaskNow
      <4>4. CASE FreeWrites(i) \/ FreeReads(i) \/ FreeClear(i) \/ FreeTask(i)
        BY <1>0, <4>4 DEF FreeWrites, FreeReads, FreeClear, FreeTask
      <4>5. CASE Steal(i) \/ StealDequeueNow(i) \/ Commit(i)
        BY <1>0, <4>5, ZenonT(60) DEF Steal, StealDequeueNow, Commit
      <4>6. QED
        BY <2>4, <4>1, <4>2, <4>3, <4>4, <4>5 DEF StepNow
    <3>2. \A l \in Thread : ~HoldsDep(i, l) /\ ~HoldsDep(i, l)'
      BY <3>1 DEF HoldsDep
    <3>3. QED
      BY <2>0, <2>1, <3>1, <3>2, SMTT(60)
  <2>5. QED
    BY <2>2, <2>3, <2>4
<1>4. \A a, l \in Thread : war_lock'[l] = a <=> HoldsWar(a, l)'
  <2>1. \A a, l \in Thread : war_lock[l] = a <=> HoldsWar(a, l)
    BY DEF IInv, Locks
  <2>0. \A a, l \in Thread : a # i => (HoldsWar(a, l)' <=> war_lock[l] = a)
    BY <1>1, <2>1
  <2>2. CASE FreeReads(i)
    <3>1. WarLock(i) \in Thread /\ WarLock(i)' = WarLock(i)
      BY <1>0, <2>2, Freeing DEF FreeReads, Busy, WarLock, FreedBlock
    <3>2. /\ war_lock[WarLock(i)] = Free /\ war_lock' = [war_lock EXCEPT ![WarLock(i)] = i]
          /\ \A l \in Thread : ~HoldsWar(i, l) /\ (HoldsWar(i, l)' <=> l = WarLock(i))
      BY <1>0, <2>2, <3>1 DEF FreeReads, HoldsWar
    <3>3. \A l \in Thread : war_lock[l] # i
      BY <2>1, <3>2
    <3>4. /\ war_lock[WarLock(i)] = Free /\ war_lock'[WarLock(i)] = i
          /\ \A l \in Thread : l # WarLock(i) => war_lock'[l] = war_lock[l]
      BY <1>0, <3>1, <3>2
    <3> HIDE DEF Types, TypeOK
    <3>5. QED
      BY <1>0, <2>0, <3>2, <3>3, <3>4
  <2>3. CASE FreeClear(i)
    <3>1. WarLock(i) \in Thread
      BY <1>0, <2>3, Freeing DEF FreeClear, Busy, Local
    <3>2. /\ war_lock' = [war_lock EXCEPT ![WarLock(i)] = Free]
          /\ \A l \in Thread : (HoldsWar(i, l) <=> l = WarLock(i)) /\ ~HoldsWar(i, l)'
      BY <1>0, <2>3, <3>1 DEF FreeClear, HoldsWar
    <3>3. \A l \in Thread : war_lock[l] = i <=> l = WarLock(i)
      BY <2>1, <3>2
    <3>4. /\ war_lock[WarLock(i)] = i /\ war_lock'[WarLock(i)] = Free
          /\ \A l \in Thread : l # WarLock(i) => war_lock'[l] = war_lock[l]
      BY <1>0, <3>1, <3>2, <3>3
    <3> HIDE DEF Types, TypeOK
    <3>5. QED
      BY <1>0, <2>0, <3>2, <3>3, <3>4
  <2>4. CASE ~FreeReads(i) /\ ~FreeClear(i)
    <3>1. war_lock' = war_lock /\ pc[i] # "free_clear" /\ pc'[i] # "free_clear"
      <4>1. CASE Loop(i) \/ LoopBound(i) \/ DequeueTaskNow(i) \/ DequeueNone(i) \/ Exec(i)
        BY <1>0, <4>1, ZenonT(60) DEF Loop, LoopBound, DequeueTaskNow, DequeueNone, Exec, Run
      <4>2. CASE Bind(i) \/ BindDequeueNow(i) \/ DepQueue(i) \/ DepRead(i)
        BY <1>0, <4>2, SMTT(60) DEF Bind, BindDequeueNow, DepQueue, DepRead
      <4>6. CASE DepDone(i) \/ Notify(i) \/ NotifyWrite(i)
        BY <1>0, <4>6, SMTT(60) DEF DepDone, Notify, NotifyWrite
      <4>3. CASE BindFirst(i) \/ BindSwap(i) \/ Ready(i) \/ EnqueueTaskNow(i)
        BY <1>0, <4>3 DEF BindFirst, BindSwap, Ready, EnqueueTaskNow
      <4>4. CASE FreeWrites(i) \/ FreeTask(i) \/ Steal(i) \/ StealDequeueNow(i) \/ Commit(i)
        BY <1>0, <4>4, SMTT(60) DEF FreeWrites, FreeTask, Steal, StealDequeueNow, Commit
      <4>5. QED
        BY <2>4, <4>1, <4>2, <4>3, <4>4, <4>6 DEF StepNow
    <3>2. \A l \in Thread : ~HoldsWar(i, l) /\ ~HoldsWar(i, l)'
      BY <3>1 DEF HoldsWar
    <3>3. QED
      BY <2>0, <2>1, <3>1, <3>2, SMTT(60)
  <2>5. QED
    BY <2>2, <2>3, <2>4
<1>5. QED
  BY <1>0, <1>2, <1>3, <1>4 DEF Locks

-----------------------------------------------------------------------------
(* The counts of dependences.                                              *)

LEMMA EdgesFinite ==
  ASSUME Types, NEW x \in Region
  PROVE  IsFiniteSet(InEdges(dag, x)) /\ IsFiniteSet(Pending(x))
<1> DEFINE F == {{i} \X (1..Len(dag.dep_arg[i])) : i \in Region}
<1>1. \A T \in F : IsFiniteSet(T)
  <2> SUFFICES ASSUME NEW i \in Region PROVE IsFiniteSet({i} \X (1..Len(dag.dep_arg[i])))
    OBVIOUS
  <2>1. dag.dep_arg[i] \in Seq(Task)
    BY Dag
  <2>2. PICK n \in Nat : n = Len(dag.dep_arg[i])
    BY <2>1
  <2>3. IsFiniteSet(1..Len(dag.dep_arg[i]))
    BY <2>2, FS_Interval
  <2>4. IsFiniteSet({i})
    BY FS_Singleton
  <2>5. QED
    BY <2>3, <2>4, FS_Product
<1>2. IsFiniteSet(F)
  <2> DEFINE f == [i \in Region |-> {i} \X (1..Len(dag.dep_arg[i]))]
  <2>1. f \in Surjection(Region, F)
    BY DEF Surjection
  <2>2. QED
    BY <2>1, RegionFinite, FS_Surjection
<1>3. IsFiniteSet(UNION F)
  BY <1>1, <1>2, FS_UNION
<1>4. UNION F = Nodes(dag)
  BY DEF Nodes, Region
<1>5. InEdges(dag, x) \subseteq Nodes(dag) /\ Pending(x) \subseteq Nodes(dag)
  BY DEF InEdges, Pending
<1>6. QED
  BY <1>3, <1>4, <1>5, FS_Subset

(* The m-th node of task j names task x.                                   *)
LEMMA IsEdge ==
  ASSUME Types, NEW x \in Region
  PROVE  \A e : e \in InEdges(dag, x) <=>
           \E j \in Region : \E m \in 1..Len(dag.dep_arg[j]) : e = <<j, m>> /\ dag.dep_arg[j][m] = x
BY DEF InEdges, Nodes, Region

(* A task with a node that is not counted yet waits, and its count is not  *)
(* zero.                                                                   *)
LEMMA NotCounted ==
  ASSUME IInv, NEW j \in Region, NEW m \in 1..Len(dag.dep_arg[j]), ~Sent(j, m)
  PROVE  /\ dag.dep_arg[j][m] \in Region
         /\ <<j, m>> \in Pending(dag.dep_arg[j][m])
         /\ n_ready[dag.dep_arg[j][m]] # 0 /\ state[dag.dep_arg[j][m]] = "waiting"
<1> DEFINE x == dag.dep_arg[j][m]
<1>1. x \in Region
  BY Nodes1 DEF IInv
<1>2. <<j, m>> \in InEdges(dag, x)
  BY <1>1, IsEdge DEF IInv
<1>3. <<j, m>> \in Pending(x)
  BY <1>2 DEF Pending
<1>4. Cardinality(Pending(x)) # 0
  BY <1>1, <1>3, EdgesFinite, FS_EmptySet DEF IInv
<1>5. n_ready[x] # 0
  BY <1>1, <1>4 DEF IInv, Counts
<1>6. state[x] = "waiting"
  BY <1>1, <1>5 DEF IInv, Counts
<1>7. QED
  BY <1>1, <1>3, <1>5, <1>6

LEMMA Ahead ==
  ASSUME IInv, NEW i \in Thread, pc[i] \in Busy, NEW m \in 1..Len(dag.dep_arg[t[i]]),
         ~Counted(i, m)
  PROVE  t[i] \in Region /\ ~Sent(t[i], m)
BY Working DEF IInv, Sent

(* Only the decrement of a count counts a node.                            *)
LEMMA CountedStep ==
  ASSUME IInv, NEW i \in Thread, Step(i), StepNow(i), ~NotifyWrite(i), pc[i] \notin {"exec", "commit"},
         t[i] \in Region, NEW m \in 1..Len(dag.dep_arg[t[i]])
  PROVE  Counted(i, m)' <=> Counted(i, m)
<1>0. /\ Types /\ Local(i) /\ t[i] # NULL /\ k[i] \in Nat /\ Len(dag.dep_arg[t[i]]) \in Nat /\ m \in Nat
      /\ m <= Len(dag.dep_arg[t[i]])
  <2>1. Types /\ Local(i) /\ t[i] # NULL /\ k[i] \in Nat /\ dag.dep_arg[t[i]] \in Seq(Task)
    BY Dag DEF IInv, Locals, Types, TypeOK
  <2>2. QED
    BY <2>1
<1>1. pc[i] \notin {"loop", "dequeue", "steal", "steal_dequeue", "exit"}
  BY <1>0 DEF Local
<1> USE DEF Types, TypeOK, At, Goto, shared, locks, ghosts, locals
<1>2. CASE Bind(i) \/ BindDequeueNow(i) \/ DepQueue(i) \/ DepRead(i) \/ Notify(i)
  <2>1. /\ pc[i] \in {"bind", "bind_dequeue", "dep", "dep_read", "notify", "notify_write"}
        /\ pc'[i] \in {"bind", "bind_dequeue", "dep", "dep_read", "notify", "notify_write"}
        /\ k'[i] = k[i]
    BY <1>0, <1>2 DEF Bind, BindDequeueNow, DepQueue, DepRead, Notify
  <2>2. QED
    BY <2>1 DEF Counted
<1>3. CASE DepDone(i)
  <2>1. pc[i] = "dep" /\ pc'[i] = "free" /\ k[i] > Len(dag.dep_arg[t[i]])
    BY <1>0, <1>3 DEF DepDone
  <2>2. m < k[i]
    BY <1>0, <2>1
  <2>3. QED
    BY <2>1, <2>2 DEF Counted
<1>4. CASE BindSwap(i) \/ Ready(i)
  <2>1. pc[i] = "ready" /\ pc'[i] = "enqueue" /\ k'[i] = k[i]
    BY <1>0, <1>4 DEF BindSwap, Ready
  <2>2. QED
    BY <2>1 DEF Counted
<1>5. CASE BindFirst(i) \/ EnqueueTaskNow(i)
  <2>1. pc[i] \in {"ready", "enqueue"} /\ pc'[i] = "dep" /\ k'[i] = k[i] + 1
    BY <1>0, <1>5 DEF BindFirst, EnqueueTaskNow
  <2>2. m < k[i] + 1 <=> m <= k[i]
    BY <1>0
  <2>3. QED
    BY <2>1, <2>2 DEF Counted
<1>6. CASE FreeWrites(i) \/ FreeReads(i) \/ FreeClear(i) \/ FreeTask(i)
  <2>1. /\ pc[i] \in {"free", "free_reads", "free_clear", "commit"}
        /\ pc'[i] \in {"free", "free_reads", "free_clear", "commit"}
    BY <1>0, <1>6 DEF FreeWrites, FreeReads, FreeClear, FreeTask
  <2>2. QED
    BY <2>1 DEF Counted
<1>7. QED
  BY <1>1, <1>2, <1>3, <1>4, <1>5, <1>6
  DEF StepNow, Loop, LoopBound, DequeueTaskNow, DequeueNone, Exec, Steal, StealDequeueNow, Commit

LEMMA CountedAlone ==
  ASSUME IInv, NEW i \in Thread, Step(i), StepNow(i), NEW a \in Thread, a # i, NEW m
  PROVE  t'[a] = t[a] /\ (Counted(a, m)' <=> Counted(a, m))
<1>1. pc'[a] = pc[a] /\ k'[a] = k[a] /\ t'[a] = t[a]
  BY Alone DEF IInv
<1>2. QED
  BY <1>1 DEF Counted

LEMMA SentStep ==
  ASSUME IInv, NEW i \in Thread, Step(i), StepNow(i), ~NotifyWrite(i),
         NEW j \in Region, NEW m \in 1..Len(dag.dep_arg[j])
  PROVE  Sent(j, m)' <=> Sent(j, m)
<1>0. Types /\ Local(i) /\ j \in Task /\ j # NULL
  BY Dag DEF IInv, Locals
<1>1. \A a \in Thread : a # i => t'[a] = t[a] /\ (Counted(a, m)' <=> Counted(a, m))
  BY CountedAlone
<1>2. CASE \E x \in Region : Starts(i, x)
  <2>1. PICK x \in Region : Starts(i, x)
    BY <1>2
  <2>2. CASE j = x
    <3>1. state[j] = "waiting" /\ state'[j] = "running"
      BY <1>0, <2>1, <2>2 DEF Starts, Available, Types, TypeOK
    <3>2. QED
      BY <3>1 DEF Sent
  <2>3. CASE j # x
    <3>1. state'[j] = state[j] /\ t[i] # j /\ t'[i] # j
      BY <1>0, <2>1, <2>3 DEF Starts, Types, TypeOK
    <3>2. QED
      BY <1>1, <3>1 DEF Sent
  <2>4. QED
    BY <2>2, <2>3
<1>3. CASE Finishes(i)
  <2>1. CASE j = t[i]
    <3>1. state[j] = "running" /\ t'[i] = j
      BY <1>0, <1>3, <2>1 DEF Finishes, IInv, Owners
    <3>2. ~Counted(i, m)'
      <4>1. pc'[i] \in {"bind", "dep"} /\ k'[i] = 1 /\ ~(m < 1)
        BY <1>3 DEF Finishes
      <4>2. QED
        BY <4>1 DEF Counted
    <3>3. QED
      BY <3>1, <3>2 DEF Sent
  <2>2. CASE j # t[i]
    <3>1. state'[j] = state[j] /\ t'[i] # j
      BY <1>0, <1>3, <2>2 DEF Finishes, Types, TypeOK
    <3>2. QED
      BY <1>1, <2>2, <3>1 DEF Sent
  <2>3. QED
    BY <2>1, <2>2
<1>4. CASE Leaves(i)
  <2>1. Counted(i, m) /\ state' = state /\ t'[i] # j
    BY <1>0, <1>4 DEF Leaves, Counted
  <2>2. QED
    BY <1>1, <2>1 DEF Sent
<1>5. CASE Continues(i)
  <2>1. state' = state /\ t'[i] = t[i] /\ pc[i] \notin {"exec", "commit"}
    BY <1>5 DEF Continues
  <2>2. t[i] = j => (Counted(i, m)' <=> Counted(i, m))
    BY <2>1, CountedStep
  <2>3. QED
    BY <1>1, <2>1, <2>2 DEF Sent
<1>6. QED
  BY <1>2, <1>3, <1>4, <1>5, Moves

(* The decrement counts the node that it is for.                           *)
LEMMA SentNotify ==
  ASSUME IInv, NEW i \in Thread, NotifyWrite(i),
         NEW j \in Region, NEW m \in 1..Len(dag.dep_arg[j])
  PROVE  Sent(j, m)' <=> Sent(j, m) \/ (j = t[i] /\ m = k[i])
<1>0. /\ Types /\ Local(i) /\ Step(i) /\ StepNow(i) /\ k[i] \in Nat /\ m \in Nat /\ t[i] # NULL
      /\ \A a \in Thread : a # i => t'[a] = t[a] /\ (Counted(a, m)' <=> Counted(a, m))
  <2>1. Types /\ Local(i) /\ Step(i) /\ StepNow(i) /\ k[i] \in Nat /\ m \in Nat
    <3>1. Types /\ Local(i) /\ Step(i) /\ StepNow(i)
      BY DEF IInv, Locals, Step, StepNow
    <3>2. QED
      BY <3>1, SMTT(60) DEF Types, TypeOK
  <2>2. t[i] # NULL
    BY <2>1 DEF NotifyWrite, At, Local, Busy
  <2>3. QED
    BY <2>1, <2>2, CountedAlone
<1>1. /\ pc[i] = "notify_write" /\ state' = state /\ t' = t
      /\ \/ pc'[i] = "ready" /\ k'[i] = k[i]
         \/ pc'[i] = "dep" /\ k'[i] = k[i] + 1
  BY <1>0 DEF NotifyWrite, At, Goto, ghosts, Types, TypeOK
<1>2. Counted(i, m)' <=> Counted(i, m) \/ m = k[i]
  <2>1. (m < k[i] + 1 <=> m < k[i] \/ m = k[i]) /\ (m <= k[i] <=> m < k[i] \/ m = k[i])
    BY <1>0
  <2>2. QED
    BY <1>1, <2>1 DEF Counted
<1>3. t[i] = j => state[j] = "done" /\ \A a \in Thread : t[a] = j => a = i
  BY <1>0, <1>1 DEF IInv, Owners
<1>4. QED
  BY <1>0, <1>1, <1>2, <1>3 DEF Sent

LEMMA CountsStep ==
  ASSUME IInv, Types', NEW i \in Thread, Step(i), StepNow(i)
  PROVE  Counts'
<1>0. /\ Types /\ Local(i) /\ Region' = Region /\ dag' = dag
      /\ \A a \in Thread : a # i => pc'[a] = pc[a] /\ t'[a] = t[a] /\ k'[a] = k[a] /\ cnt'[a] = cnt[a]
      /\ \A x \in Region : x \in Task
  BY Alone, Dag DEF IInv, Locals, Region
<1>1. /\ \A x \in Region : n_ready[x] = Cardinality(Pending(x))
      /\ \A x \in Region : state[x] # "waiting" => n_ready[x] = 0
      /\ \A a \in Thread : pc[a] = "notify_write" => cnt[a] = n_ready[Dependent(a)]
  BY DEF IInv, Counts
<1>2. CASE ~NotifyWrite(i)
  <2>1. n_ready' = n_ready
    BY <1>2 DEF StepNow, shared, Loop, LoopBound, DequeueTaskNow, DequeueNone, Exec, Bind, BindDequeueNow,
       DepQueue, DepRead, DepDone, Notify, BindFirst, BindSwap, Ready, EnqueueTaskNow, FreeWrites, FreeReads,
       FreeClear, FreeTask, Steal, StealDequeueNow, Commit
  <2>2. ASSUME NEW x \in Region PROVE Pending(x)' = Pending(x)
    <3>1. InEdges(dag, x)' = InEdges(dag, x)
      BY <1>0
    <3>2. ASSUME NEW e \in InEdges(dag, x) PROVE Sent(e[1], e[2])' <=> Sent(e[1], e[2])
      <4>0. PICK j \in Region : \E m \in 1..Len(dag.dep_arg[j]) : e = <<j, m>>
        BY <1>0, IsEdge
      <4>1. PICK m \in 1..Len(dag.dep_arg[j]) : e = <<j, m>>
        BY <4>0
      <4>2. Sent(j, m)' <=> Sent(j, m)
        BY <1>2, SentStep
      <4>3. QED
        BY <4>1, <4>2
    <3>3. QED
      BY <3>1, <3>2 DEF Pending
  <2>3. ASSUME NEW x \in Region, state'[x] # "waiting" PROVE n_ready'[x] = 0
    <3>1. CASE \E y \in Region : Starts(i, y)
      BY <1>0, <1>1, <2>1, <2>3, <3>1 DEF Starts, Available, Types, TypeOK
    <3>2. CASE Finishes(i)
      <4>1. t[i] \in Region /\ state[t[i]] = "running"
        BY <1>0, <3>2 DEF Finishes, Local, Busy, IInv, Owners
      <4>2. state[x] # "waiting"
        BY <1>0, <2>3, <3>2, <4>1 DEF Finishes, Types, TypeOK
      <4>3. QED
        BY <1>1, <2>1, <4>2
    <3>3. CASE Leaves(i) \/ Continues(i)
      BY <1>0, <1>1, <2>1, <2>3, <3>3 DEF Leaves, Continues
    <3>4. QED
      BY <3>1, <3>2, <3>3, Moves
  <2>4. ASSUME NEW a \in Thread, pc'[a] = "notify_write" PROVE cnt'[a] = n_ready'[Dependent(a)']
    <3>1. CASE a # i
      BY <1>0, <1>1, <2>1, <2>4, <3>1 DEF Dependent
    <3>2. CASE Notify(i) /\ a = i
      <4>1. cnt'[i] = n_ready[Dependent(i)] /\ t' = t /\ k' = k
        BY <1>0, <3>2 DEF Notify, Types, TypeOK
      <4>2. QED
        BY <1>0, <2>1, <3>2, <4>1 DEF Dependent
    <3>3. CASE ~Notify(i) /\ a = i
      <4>1. pc'[i] # "notify_write"
        <5> USE DEF Types, TypeOK, At, Goto, shared, locks, ghosts, locals
        <5>1. CASE Loop(i) \/ LoopBound(i) \/ DequeueTaskNow(i) \/ DequeueNone(i) \/ Exec(i)
          BY <1>0, <5>1, ZenonT(60) DEF Loop, LoopBound, DequeueTaskNow, DequeueNone, Exec, Run
        <5>2. CASE Bind(i) \/ BindDequeueNow(i) \/ DepQueue(i) \/ DepRead(i) \/ DepDone(i)
          BY <1>0, <5>2 DEF Bind, BindDequeueNow, DepQueue, DepRead, DepDone
        <5>3. CASE BindFirst(i) \/ BindSwap(i) \/ Ready(i) \/ EnqueueTaskNow(i)
          BY <1>0, <5>3 DEF BindFirst, BindSwap, Ready, EnqueueTaskNow
        <5>4. CASE FreeWrites(i) \/ FreeReads(i) \/ FreeClear(i) \/ FreeTask(i)
          BY <1>0, <5>4 DEF FreeWrites, FreeReads, FreeClear, FreeTask
        <5>5. CASE Steal(i)
          BY <1>0, <5>5 DEF Steal
        <5>6. CASE StealDequeueNow(i)
          BY <1>0, <5>6 DEF StealDequeueNow
        <5>7. CASE Commit(i)
          BY <1>0, <5>7 DEF Commit
        <5> HIDE DEF Types, TypeOK, At, Goto, shared, locks, ghosts, locals
        <5>8. QED
          BY <1>2, <3>3, <5>1, <5>2, <5>3, <5>4, <5>5, <5>6, <5>7 DEF StepNow
      <4>2. QED
        BY <2>4, <3>3, <4>1
    <3>4. QED
      BY <3>1, <3>2, <3>3
  <2>5. QED
    BY <1>0, <1>1, <2>1, <2>2, <2>3, <2>4 DEF Counts
<1>3. CASE NotifyWrite(i)
  <2> DEFINE d == Dependent(i)
             e0 == <<t[i], k[i]>>
  <2>1. /\ pc[i] = "notify_write" /\ t[i] \in Region /\ k[i] \in 1..Len(dag.dep_arg[t[i]])
        /\ d \in Region /\ d = dag.dep_arg[t[i]][k[i]] /\ DepLock(i) \in Thread
    <3>1. pc[i] = "notify_write" /\ pc[i] \in Busy /\ k[i] <= Len(dag.dep_arg[t[i]])
      BY <1>0, <1>3 DEF NotifyWrite, At, Busy, Local
    <3>2. QED
      BY <1>0, <3>1, Notifying, Working DEF IInv, Dependent
  <2>2. ~Sent(t[i], k[i])
    <3>1. ~Counted(i, k[i])
      <4>1. ~(k[i] < k[i])
        BY <2>1
      <4>2. QED
        BY <2>1, <4>1 DEF Counted
    <3>2. QED
      BY <2>1, <3>1 DEF Sent
  <2>3. e0 \in Pending(d) /\ n_ready[d] # 0 /\ state[d] = "waiting"
    BY <2>1, <2>2, NotCounted
  <2>4. ASSUME NEW x \in Region PROVE Pending(x)' = Pending(x) \ {e0}
    <3>1. InEdges(dag, x)' = InEdges(dag, x)
      BY <1>0
    <3>2. ASSUME NEW e \in InEdges(dag, x)
          PROVE  Sent(e[1], e[2])' <=> Sent(e[1], e[2]) \/ e = e0
      <4>0. PICK j \in Region : \E m \in 1..Len(dag.dep_arg[j]) : e = <<j, m>>
        BY <1>0, IsEdge
      <4>1. PICK m \in 1..Len(dag.dep_arg[j]) : e = <<j, m>>
        BY <4>0
      <4>2. Sent(j, m)' <=> Sent(j, m) \/ (j = t[i] /\ m = k[i])
        BY <1>3, SentNotify
      <4>3. QED
        BY <4>1, <4>2
    <3> HIDE DEF e0
    <3>3. QED
      BY <3>1, <3>2 DEF Pending
  <2>5. \A x \in Region : x # d => e0 \notin Pending(x)
    BY <1>0, <2>1, IsEdge DEF Pending
  <2>6. /\ n_ready' = [n_ready EXCEPT ![d] = n_ready[d] - 1]
        /\ state' = state
    BY <1>1, <1>3, <2>1 DEF NotifyWrite, ghosts
  <2> HIDE DEF e0, d
  <2>7. ASSUME NEW x \in Region PROVE n_ready'[x] = Cardinality(Pending(x)')
    <3>1. CASE x = d
      <4>1. IsFiniteSet(Pending(x)) /\ Pending(x)' = Pending(x) \ {e0} /\ e0 \in Pending(x)
        BY <1>0, <2>3, <2>4, <3>1, EdgesFinite
      <4>2. Cardinality(Pending(x) \ {e0}) = Cardinality(Pending(x)) - 1
        BY <4>1, FS_RemoveElement
      <4>3. n_ready[x] = Cardinality(Pending(x)) /\ n_ready'[x] = n_ready[x] - 1
        BY <1>0, <1>1, <2>6, <3>1 DEF Types, TypeOK
      <4>4. QED
        BY <3>1, <4>1, <4>2, <4>3
    <3>2. CASE x # d
      <4>1. Pending(x)' = Pending(x)
        BY <2>4, <2>5, <3>2
      <4>2. n_ready'[x] = n_ready[x]
        BY <1>0, <2>6, <3>2 DEF Types, TypeOK
      <4>3. QED
        BY <1>1, <4>1, <4>2
    <3>3. QED
      BY <3>1, <3>2
  <2>8. ASSUME NEW x \in Region, state'[x] # "waiting" PROVE n_ready'[x] = 0
    <3>1. x # d
      BY <2>3, <2>6, <2>8
    <3>2. QED
      BY <1>0, <1>1, <2>6, <2>8, <3>1 DEF Types, TypeOK
  <2>9. ASSUME NEW a \in Thread, pc'[a] = "notify_write" PROVE cnt'[a] = n_ready'[Dependent(a)']
    <3>1. a # i
      BY <1>0, <1>3, <2>9, SMTT(30) DEF NotifyWrite, Goto, Types, TypeOK
    <3>2. pc[a] = "notify_write" /\ Dependent(a)' = Dependent(a) /\ cnt'[a] = n_ready[Dependent(a)]
      BY <1>0, <1>1, <2>9, <3>1 DEF Dependent
    <3>3. Dependent(a) \in Task /\ DepLock(a) \in Thread
      BY <1>0, <3>2, Notifying DEF IInv, Locals, Local, Busy
    <3>4. Dependent(a) # d
      <4>1. dep_lock[DepLock(a)] = a /\ dep_lock[DepLock(i)] = i
        BY <2>1, <3>2, <3>3 DEF IInv, Locks, HoldsDep
      <4>2. DepLock(a) # DepLock(i)
        BY <3>1, <4>1
      <4>3. QED
        BY <4>2 DEF DepLock, d
    <3>5. QED
      BY <1>0, <2>6, <3>2, <3>3, <3>4 DEF Types, TypeOK
  <2>10. QED
    BY <1>0, <2>7, <2>8, <2>9 DEF Counts
<1>4. QED
  BY <1>2, <1>3

-----------------------------------------------------------------------------
(* The places of a task.                                                   *)

(* Task x leaves waiting queue q.                                          *)
Pulls(q, x) ==
  /\ x \in Waiting(q)
  /\ \A p \in Queue : /\ NoRepeat(wait_queue'[p])
                      /\ Waiting(p)' = IF p = q THEN Waiting(p) \ {x} ELSE Waiting(p)

(* Task x joins waiting queue q.                                           *)
Puts(q, x) ==
  \A p \in Queue : /\ NoRepeat(wait_queue'[p])
                   /\ Waiting(p)' = IF p = q THEN Waiting(p) \cup {x} ELSE Waiting(p)

LEMMA Pulled ==
  ASSUME IInv, NEW q \in Queue, NEW m \in 1..Len(wait_queue[q]),
         wait_queue' = [wait_queue EXCEPT ![q] = RemoveIndex(wait_queue[q], m)]
  PROVE  Pulls(q, wait_queue[q][m])
<1>1. /\ wait_queue \in [Queue -> Seq(Task)] /\ wait_queue[q] \in Seq(Task)
      /\ \A p \in Queue : NoRepeat(wait_queue[p])
  BY DEF IInv, Types, TypeOK, InQueues
<1>2. /\ wait_queue'[q] = RemoveIndex(wait_queue[q], m)
      /\ \A p \in Queue : p # q => wait_queue'[p] = wait_queue[p]
  BY <1>1
<1>3. /\ NoRepeat(wait_queue'[q])
      /\ Members(wait_queue'[q]) = Members(wait_queue[q]) \ {wait_queue[q][m]}
  BY <1>1, <1>2, RemovedSet
<1>4. ASSUME NEW p \in Queue
      PROVE  /\ NoRepeat(wait_queue'[p])
             /\ Waiting(p)' = IF p = q THEN Waiting(p) \ {wait_queue[q][m]} ELSE Waiting(p)
  BY <1>1, <1>2, <1>3 DEF Waiting
<1>5. QED
  BY <1>4 DEF Pulls, Waiting, Members

LEMMA Put ==
  ASSUME IInv, NEW x \in Region, \A p \in Queue : x \notin Waiting(p), EnqueueNow(x)
  PROVE  queue[x] \in Queue /\ Puts(queue[x], x)
<1> DEFINE q == queue[x]
           s == wait_queue[q]
           z == InsertIndex(s, Keep(s, x), x)
<1>1. /\ x \in Task /\ q \in Queue /\ wait_queue \in [Queue -> Seq(Task)] /\ s \in Seq(Task)
      /\ \A p \in Queue : NoRepeat(wait_queue[p])
  BY Dag DEF IInv, Types, TypeOK, InQueues
<1>2. Keep(s, x) \in 0..Len(s)
  BY <1>1, KeepInQueue
<1>3. wait_queue' = [wait_queue EXCEPT ![q] = z]
  BY DEF EnqueueNow
<1>4. x \notin Members(s) /\ NoRepeat(s)
  BY <1>1 DEF Waiting
<1> HIDE DEF q, s
<1>5. /\ NoRepeat(z)
      /\ Members(z) = Members(s) \cup {x}
  BY <1>1, <1>2, <1>4, InsertedSet
<1> HIDE DEF z
<1>6. /\ wait_queue'[q] = z /\ wait_queue[q] = s
      /\ \A p \in Queue : p # q => wait_queue'[p] = wait_queue[p]
  BY <1>1, <1>3 DEF s
<1>7. ASSUME NEW p \in Queue
      PROVE  /\ NoRepeat(wait_queue'[p])
             /\ Waiting(p)' = IF p = q THEN Waiting(p) \cup {x} ELSE Waiting(p)
  BY <1>1, <1>5, <1>6 DEF Waiting
<1>8. Puts(q, x)
  BY <1>7 DEF Puts
<1>9. QED
  BY <1>1, <1>8 DEF q

(* A step of a thread pulls a task out of one queue, puts one into a       *)
(* queue, or leaves the queues alone.                                      *)
LEMMA QueueStep ==
  ASSUME IInv, NEW i \in Thread, Step(i), StepNow(i)
  PROVE  \/ wait_queue' = wait_queue
         \/ /\ pc[i] = "dequeue" /\ DequeueTaskNow(i)
            /\ \E x \in Region : Pulls(MyQueue(i), x) /\ Run(i, x)
         \/ /\ pc[i] \in {"bind_dequeue", "steal_dequeue"} /\ (BindDequeueNow(i) \/ StealDequeueNow(i))
            /\ \E x \in Region : Pulls(lock[i], x) /\ r' = [r EXCEPT ![i] = x]
         \/ /\ pc[i] = "enqueue" /\ EnqueueTaskNow(i) /\ Puts(queue[enq[i]], enq[i])
            /\ enq[i] \in Region /\ queue[enq[i]] \in Queue
<1>0. Types /\ Local(i)
  BY DEF IInv, Locals
<1> USE DEF Types, TypeOK, At, shared
<1>1. CASE DequeueTaskNow(i)
  <2>1. MyQueue(i) \in Queue
    BY <1>0, Teams
  <2>2. PICK m \in 1..Len(wait_queue[MyQueue(i)]), found \in BOOLEAN :
          DequeueNow(MyQueue(i), m, found) /\ Run(i, wait_queue[MyQueue(i)][m])
    BY <1>1 DEF DequeueTaskNow
  <2>3. Pulls(MyQueue(i), wait_queue[MyQueue(i)][m])
    BY <2>1, <2>2, Pulled DEF DequeueNow
  <2>4. wait_queue[MyQueue(i)][m] \in Region
    BY <2>1, Queued
  <2>5. QED
    BY <1>1, <2>2, <2>3, <2>4 DEF DequeueTaskNow
<1>2. CASE BindDequeueNow(i)
  <2>1. CASE wait_queue[lock[i]] = <<>> /\ wait_queue' = wait_queue
    BY <2>1
  <2>2. CASE \E m \in 1..Len(wait_queue[lock[i]]), found \in BOOLEAN :
               DequeueNow(lock[i], m, found) /\ r' = [r EXCEPT ![i] = wait_queue[lock[i]][m]]
    <3>1. PICK m \in 1..Len(wait_queue[lock[i]]), found \in BOOLEAN :
               DequeueNow(lock[i], m, found) /\ r' = [r EXCEPT ![i] = wait_queue[lock[i]][m]]
      BY <2>2
    <3>2. lock[i] \in Queue
      BY <1>0
    <3>3. Pulls(lock[i], wait_queue[lock[i]][m])
      BY <3>1, <3>2, Pulled DEF DequeueNow
    <3>4. wait_queue[lock[i]][m] \in Region
      BY <3>2, Queued
    <3>5. QED
      BY <1>2, <3>1, <3>3, <3>4 DEF BindDequeueNow
  <2>3. QED
    BY <1>2, <2>1, <2>2 DEF BindDequeueNow
<1>3. CASE StealDequeueNow(i)
  <2> DEFINE s == wait_queue[lock[i]]
  <2>1. CASE s = <<>>
    BY <1>3, <2>1 DEF StealDequeueNow
  <2>2. CASE s # <<>>
    <3>1. lock[i] \in Queue /\ s \in Seq(Task)
      BY <1>0
    <3>2. Len(s) \in 1..Len(s)
      BY <2>2, <3>1
    <3>3. /\ wait_queue' = [wait_queue EXCEPT ![lock[i]] = RemoveIndex(s, Len(s))]
          /\ r' = [r EXCEPT ![i] = s[Len(s)]]
      BY <1>3, <2>2 DEF StealDequeueNow, UnlinkTail
    <3>4. Pulls(lock[i], s[Len(s)])
      BY <3>1, <3>2, <3>3, Pulled
    <3>5. s[Len(s)] \in Region
      BY <3>1, <3>2, Queued
    <3>6. QED
      BY <1>3, <3>3, <3>4, <3>5 DEF StealDequeueNow
  <2>3. QED
    BY <2>1, <2>2
<1>4. CASE EnqueueTaskNow(i)
  <2>1. pc[i] = "enqueue" /\ enq[i] \in Region /\ EnqueueNow(enq[i])
    BY <1>0, <1>4 DEF EnqueueTaskNow, Local
  <2>2. \A p \in Queue : enq[i] \notin Waiting(p)
    <3> SUFFICES ASSUME NEW p \in Queue, enq[i] \in Waiting(p) PROVE FALSE
      OBVIOUS
    <3>1. p \in Thread
      BY <1>0, Teams
    <3>2. Has("queue", p, enq[i]) /\ Has("enqueue", i, enq[i])
      BY DEF Has
    <3>3. QED
      BY <2>1, <3>1, <3>2 DEF IInv, InOnePlace, OnePlace, Kind
  <2>3. QED
    BY <1>4, <2>1, <2>2, Put
<1>5. QED
  BY <1>1, <1>2, <1>3, <1>4
  DEF StepNow, Loop, LoopBound, DequeueNone, Exec, Bind, DepQueue, DepRead, DepDone, Notify, NotifyWrite,
      BindFirst, BindSwap, Ready, FreeWrites, FreeReads, FreeClear, FreeTask, Steal, Commit

LEMMA InQueuesStep ==
  ASSUME IInv, NEW i \in Thread, Step(i), StepNow(i)
  PROVE  InQueues'
<1>0. Queue' = Queue
  BY Alone DEF IInv, Queue
<1>1. \A q \in Queue : NoRepeat(wait_queue[q])
  BY DEF IInv, InQueues
<1>2. CASE wait_queue' = wait_queue
  BY <1>0, <1>1, <1>2 DEF InQueues
<1>3. CASE \E q, x : Pulls(q, x)
  BY <1>0, <1>3 DEF InQueues, Pulls
<1>4. CASE \E q \in Queue, x \in Region : Puts(q, x)
  BY <1>0, <1>4 DEF InQueues, Puts
<1>5. QED
  BY <1>2, <1>3, <1>4, QueueStep

(* The places of task x that a step of thread i leaves alone.              *)
LEMMA HasAlone ==
  ASSUME IInv, NEW i \in Thread, Step(i), StepNow(i), NEW x \in Region
  PROVE  /\ \A c \in {"bound", "ready", "enqueue"} : \A a \in Thread :
              a # i => (Has(c, a, x)' <=> Has(c, a, x))
         /\ Has("bound", i, x)' <=> r'[i] = x
         /\ Has("enqueue", i, x)' <=> enq'[i] = x
         /\ Has("ready", i, x)' <=> pc'[i] = "ready" /\ Dependent(i)' = x
<1>1. ASSUME NEW c \in {"bound", "ready", "enqueue"}, NEW a \in Thread, a # i
      PROVE  Has(c, a, x)' <=> Has(c, a, x)
  <2>1. /\ r'[a] = r[a] /\ pc'[a] = pc[a] /\ t'[a] = t[a] /\ k'[a] = k[a] /\ enq'[a] = enq[a]
        /\ dag' = dag
    BY <1>1, Alone DEF IInv
  <2>2. Dependent(a)' = Dependent(a)
    BY <2>1 DEF Dependent
  <2>3. QED
    BY <2>1, <2>2 DEF Has
<1>2. /\ Has("bound", i, x)' <=> r'[i] = x
      /\ Has("enqueue", i, x)' <=> enq'[i] = x
      /\ Has("ready", i, x)' <=> pc'[i] = "ready" /\ Dependent(i)' = x
  BY DEF Has
<1>3. QED
  BY <1>1, <1>2

LEMMA HasQueue ==
  ASSUME IInv, NEW i \in Thread, Step(i), StepNow(i), NEW x \in Region, NEW a \in Thread
  PROVE  /\ wait_queue' = wait_queue => (Has("queue", a, x)' <=> Has("queue", a, x))
         /\ \A q \in Queue, y \in Region :
              /\ Pulls(q, y) => /\ Has("queue", a, x)' <=> Has("queue", a, x) /\ ~(a = q /\ x = y)
                                /\ Has("queue", q, y)
              /\ Puts(q, y) => (Has("queue", a, x)' <=> Has("queue", a, x) \/ (a = q /\ x = y))
<1>1. Queue' = Queue
  BY Alone DEF IInv, Queue
<1>2. wait_queue' = wait_queue => (Has("queue", a, x)' <=> Has("queue", a, x))
  BY <1>1 DEF Has, Waiting
<1>3. ASSUME NEW q \in Queue, NEW y \in Region, Pulls(q, y)
      PROVE  /\ Has("queue", a, x)' <=> Has("queue", a, x) /\ ~(a = q /\ x = y)
             /\ Has("queue", q, y)
  BY <1>1, <1>3 DEF Has, Pulls
<1>4. ASSUME NEW q \in Queue, NEW y \in Region, Puts(q, y)
      PROVE  Has("queue", a, x)' <=> Has("queue", a, x) \/ (a = q /\ x = y)
  BY <1>1, <1>4 DEF Has, Puts
<1>5. QED
  BY <1>2, <1>3, <1>4

(* A task in one place is in no other.                                     *)
LEMMA Only ==
  ASSUME IInv, NEW x \in Region, NEW d \in Kind, NEW b \in Thread, Has(d, b, x)
  PROVE  /\ \A c \in Kind : \A a \in Thread : Has(c, a, x) <=> c = d /\ a = b
         /\ Available(x)
BY DEF IInv, InOnePlace, OnePlace

LEMMA Nowhere ==
  ASSUME IInv, NEW x \in Region, ~Available(x)
  PROVE  \A c \in Kind : \A a \in Thread : ~Has(c, a, x)
BY DEF IInv, InOnePlace, OnePlace

(* Three ways in which a task stays in one place at most.                  *)
LEMMA Stays ==
  ASSUME IInv, NEW x \in Region, Available(x)' <=> Available(x),
         \A c \in Kind : \A a \in Thread : Has(c, a, x)' <=> Has(c, a, x)
  PROVE  OnePlace(x)'
BY DEF IInv, InOnePlace, OnePlace

LEMMA Arrives ==
  ASSUME NEW x \in Region, Available(x)', NEW d \in Kind, NEW b \in Thread,
         \A c \in Kind : \A a \in Thread : Has(c, a, x)' <=> c = d /\ a = b
  PROVE  OnePlace(x)'
BY DEF OnePlace

LEMMA Departs ==
  ASSUME NEW x \in Region, ~Available(x)',
         \A c \in Kind : \A a \in Thread : ~Has(c, a, x)'
  PROVE  OnePlace(x)'
BY DEF OnePlace

(* Only its start and the last decrement of its count change whether a     *)
(* task is available.                                                      *)
LEMMA AvailableStep ==
  ASSUME IInv, NEW i \in Thread, Step(i), StepNow(i), NEW x \in Region
  PROVE  /\ Starts(i, x) => ~Available(x)'
         /\ n_ready'[x] = n_ready[x] /\ ~Starts(i, x) => (Available(x)' <=> Available(x))
         /\ state'[x] = "waiting" <=> state[x] = "waiting" /\ ~Starts(i, x)
<1>0. n_init' = n_init /\ state \in [Task -> {"waiting", "running", "done"}] /\ x \in Task /\ Local(i)
  BY Alone, Dag DEF IInv, Types, TypeOK, Locals
<1>1. Starts(i, x) => state'[x] = "running"
  BY <1>0 DEF Starts
<1>2. ~Starts(i, x) => (state'[x] = "waiting" <=> state[x] = "waiting")
  <2>1. CASE \E y \in Region : Starts(i, y)
    BY <1>0, <2>1 DEF Starts
  <2>2. CASE Finishes(i)
    BY <1>0, <2>2 DEF Finishes, Local, Busy, IInv, Owners
  <2>3. CASE Leaves(i) \/ Continues(i)
    BY <2>3 DEF Leaves, Continues
  <2>4. QED
    BY <2>1, <2>2, <2>3, Moves
<1>3. QED
  BY <1>0, <1>1, <1>2 DEF Available

(* The step moves task y from one place to another.                        *)
LEMMA Moved ==
  ASSUME IInv, NEW i \in Thread, Step(i), StepNow(i), n_ready' = n_ready, \A x \in Region : ~Starts(i, x),
         NEW y \in Region, NEW c0 \in Kind, NEW a0 \in Thread, NEW c1 \in Kind, NEW a1 \in Thread,
         Has(c0, a0, y), c0 # c1,
         \A x \in Region : \A c \in Kind : \A a \in Thread :
           Has(c, a, x)' <=> IF c = c1 /\ a = a1 THEN x = y ELSE Has(c, a, x) /\ ~(c = c0 /\ a = a0 /\ x = y),
         \A x \in Region : ~Has(c1, a1, x)
  PROVE  \A x \in Region : OnePlace(x)'
<1> SUFFICES ASSUME NEW x \in Region PROVE OnePlace(x)'
  OBVIOUS
<1>1. Available(x)' <=> Available(x)
  BY AvailableStep
<1>2. CASE x = y
  <2>1. /\ \A c \in Kind : \A a \in Thread : Has(c, a, x) <=> c = c0 /\ a = a0
        /\ Available(x)
    BY <1>2, Only
  <2>2. \A c \in Kind : \A a \in Thread : Has(c, a, x)' <=> c = c1 /\ a = a1
    BY <1>2, <2>1
  <2>3. Available(x)'
    BY <1>1, <2>1
  <2>4. QED
    BY <2>2, <2>3, Arrives
<1>3. CASE x # y
  <2>1. \A c \in Kind : \A a \in Thread : Has(c, a, x)' <=> Has(c, a, x)
    BY <1>3
  <2>2. QED
    BY <1>1, <2>1, Stays
<1>4. QED
  BY <1>2, <1>3

(* A step that moves no task.                                              *)
LEMMA Unmoved ==
  ASSUME IInv, NEW i \in Thread, Step(i), StepNow(i), \A x \in Region : ~Starts(i, x), n_ready' = n_ready,
         wait_queue' = wait_queue, r'[i] = r[i], enq'[i] = enq[i],
         pc[i] # "ready", pc'[i] # "ready"
  PROVE  \A x \in Region : OnePlace(x)'
<1> SUFFICES ASSUME NEW x \in Region PROVE OnePlace(x)'
  OBVIOUS
<1>1. Available(x)' <=> Available(x)
  BY AvailableStep
<1>2. ASSUME NEW c \in Kind, NEW a \in Thread PROVE Has(c, a, x)' <=> Has(c, a, x)
  <2>1. c = "queue" => (Has(c, a, x)' <=> Has(c, a, x))
    BY HasQueue
  <2>2. c # "queue" /\ a # i => (Has(c, a, x)' <=> Has(c, a, x))
    BY HasAlone DEF Kind
  <2>3. c # "queue" /\ a = i => (Has(c, a, x)' <=> Has(c, a, x))
    <3>1. /\ Has("bound", i, x)' <=> r[i] = x
          /\ Has("enqueue", i, x)' <=> enq[i] = x
          /\ ~Has("ready", i, x)'
      BY HasAlone
    <3>2. /\ Has("bound", i, x) <=> r[i] = x
          /\ Has("enqueue", i, x) <=> enq[i] = x
          /\ ~Has("ready", i, x)
      BY DEF Has
    <3>3. QED
      BY <3>1, <3>2 DEF Kind
  <2>4. QED
    BY <2>1, <2>2, <2>3
<1>3. QED
  BY <1>1, <1>2, Stays

(* A task that starts leaves its place.                                    *)
LEMMA Started ==
  ASSUME IInv, NEW i \in Thread, Step(i), StepNow(i), n_ready' = n_ready,
         NEW y \in Region, NEW d \in Kind, NEW b \in Thread, Starts(i, y), Has(d, b, y),
         \A x \in Region : \A c \in Kind : \A a \in Thread :
           Has(c, a, x)' <=> Has(c, a, x) /\ ~(c = d /\ a = b /\ x = y)
  PROVE  \A x \in Region : OnePlace(x)'
<1> SUFFICES ASSUME NEW x \in Region PROVE OnePlace(x)'
  OBVIOUS
<1>1. CASE x = y
  <2>1. ~Available(x)'
    BY <1>1, AvailableStep
  <2>2. \A c \in Kind : \A a \in Thread : Has(c, a, x) <=> c = d /\ a = b
    BY <1>1, Only
  <2>3. \A c \in Kind : \A a \in Thread : ~Has(c, a, x)'
    BY <1>1, <2>2
  <2>4. QED
    BY <2>1, <2>3, Departs
<1>2. CASE x # y
  <2>0. state[x] = "waiting" => state'[x] = "waiting"
    BY <1>2, Dag DEF Starts, IInv, Types, TypeOK
  <2>1. ~Starts(i, x)
    BY <1>2 DEF Starts
  <2>2. Available(x)' <=> Available(x)
    BY <2>1, AvailableStep
  <2>3. \A c \in Kind : \A a \in Thread : Has(c, a, x)' <=> Has(c, a, x)
    BY <1>2
  <2>4. QED
    BY <2>2, <2>3, Stays
<1>3. QED
  BY <1>1, <1>2

LEMMA OnePlaceStep ==
  ASSUME IInv, Types', NEW i \in Thread, Step(i), StepNow(i)
  PROVE  \A x \in Region : OnePlace(x)'
<1>0. /\ Types /\ Local(i) /\ dag' = dag /\ Thread # {} /\ i \in Thread
      /\ \A x \in Region : x \in Task /\ x # NULL
  BY Alone, Dag DEF IInv, Locals
<1> USE DEF Types, TypeOK, At, Goto, shared, locks, ghosts, locals
<1>1. CASE Loop(i) \/ DequeueNone(i) \/ Exec(i) \/ Bind(i)
  <2>1. /\ n_ready' = n_ready /\ wait_queue' = wait_queue /\ r' = r /\ enq' = enq
        /\ pc[i] # "ready" /\ pc'[i] \notin {"ready", "exec"}
    <3>1. CASE Loop(i)
      BY <1>0, <3>1 DEF Loop
    <3>2. CASE DequeueNone(i)
      BY <1>0, <3>2 DEF DequeueNone
    <3>3. CASE Exec(i)
      BY <1>0, <3>3 DEF Exec
    <3>4. CASE Bind(i)
      BY <1>0, <3>4 DEF Bind
    <3>5. QED
      BY <1>1, <3>1, <3>2, <3>3, <3>4
  <2>2. \A x \in Region : ~Starts(i, x)
    BY <2>1 DEF Starts
  <2>3. QED
    BY <2>1, <2>2, Unmoved
<1>2. CASE DepQueue(i) \/ DepRead(i) \/ DepDone(i) \/ Notify(i)
  <2>1. /\ n_ready' = n_ready /\ wait_queue' = wait_queue /\ r' = r /\ enq' = enq
        /\ pc[i] # "ready" /\ pc'[i] \notin {"ready", "exec"}
    <3>1. CASE DepQueue(i)
      BY <1>0, <3>1 DEF DepQueue
    <3>2. CASE DepRead(i)
      BY <1>0, <3>2 DEF DepRead
    <3>3. CASE DepDone(i)
      BY <1>0, <3>3 DEF DepDone
    <3>4. CASE Notify(i)
      BY <1>0, <3>4 DEF Notify
    <3>5. QED
      BY <1>2, <3>1, <3>2, <3>3, <3>4
  <2>2. \A x \in Region : ~Starts(i, x)
    BY <2>1 DEF Starts
  <2>3. QED
    BY <2>1, <2>2, Unmoved
<1>3. CASE FreeWrites(i) \/ FreeReads(i) \/ FreeClear(i) \/ FreeTask(i) \/ Steal(i) \/ Commit(i)
  <2>1. /\ n_ready' = n_ready /\ wait_queue' = wait_queue /\ r' = r /\ enq' = enq
        /\ pc[i] # "ready" /\ pc'[i] \notin {"ready", "exec"}
    <3>1. CASE FreeWrites(i)
      BY <1>0, <3>1 DEF FreeWrites
    <3>2. CASE FreeReads(i)
      BY <1>0, <3>2 DEF FreeReads
    <3>3. CASE FreeClear(i)
      BY <1>0, <3>3 DEF FreeClear
    <3>4. CASE FreeTask(i)
      BY <1>0, <3>4 DEF FreeTask
    <3>5. CASE Steal(i)
      BY <1>0, <3>5 DEF Steal
    <3>6. CASE Commit(i)
      BY <1>0, <3>6 DEF Commit
    <3>7. QED
      BY <1>3, <3>1, <3>2, <3>3, <3>4, <3>5, <3>6
  <2>2. \A x \in Region : ~Starts(i, x)
    BY <2>1 DEF Starts
  <2>3. QED
    BY <2>1, <2>2, Unmoved
<1>4. CASE LoopBound(i)
  <2> DEFINE y == r[i]
  <2>1. /\ pc[i] = "loop" /\ pc'[i] = "exec" /\ y \in Region /\ r'[i] = NULL /\ enq'[i] = enq[i]
        /\ n_ready' = n_ready /\ wait_queue' = wait_queue /\ t'[i] = y
    BY <1>0, <1>4 DEF LoopBound, Run, Local
  <2>2. Starts(i, y)
    <3>1. \E x \in Region : Starts(i, x)
      BY <2>1, Moves DEF Finishes, Leaves, Continues
    <3>2. QED
      BY <2>1, <3>1 DEF Starts
  <2>3. Has("bound", i, y)
    BY DEF Has
  <2>4. ASSUME NEW x \in Region, NEW c \in Kind, NEW a \in Thread
        PROVE  Has(c, a, x)' <=> Has(c, a, x) /\ ~(c = "bound" /\ a = i /\ x = y)
    <3>1. c = "queue" => (Has(c, a, x)' <=> Has(c, a, x))
      BY <2>1, HasQueue
    <3>2. c # "queue" /\ a # i => (Has(c, a, x)' <=> Has(c, a, x))
      BY HasAlone DEF Kind
    <3>3. /\ ~Has("bound", i, x)' /\ ~Has("ready", i, x)'
          /\ Has("enqueue", i, x)' <=> enq[i] = x
      BY <1>0, <2>1, HasAlone
    <3>4. /\ Has("bound", i, x) <=> x = y
          /\ ~Has("ready", i, x)
          /\ Has("enqueue", i, x) <=> enq[i] = x
      BY <2>1 DEF Has
    <3>5. QED
      BY <3>1, <3>2, <3>3, <3>4 DEF Kind
  <2> HIDE DEF y
  <2>5. QED
    BY <2>1, <2>2, <2>3, <2>4, Started, ZenonT(60) DEF Kind
<1>5. CASE DequeueTaskNow(i)
  <2>1. /\ pc[i] = "dequeue" /\ r'[i] = r[i] /\ enq'[i] = enq[i] /\ n_ready' = n_ready
        /\ pc'[i] = "exec" /\ MyQueue(i) \in Queue /\ MyQueue(i) \in Thread
    BY <1>0, <1>5, Teams DEF DequeueTaskNow, Run
  <2>2. CASE wait_queue' = wait_queue
    <3>1. PICK m \in 1..Len(wait_queue[MyQueue(i)]) :
            wait_queue' = [wait_queue EXCEPT ![MyQueue(i)] = RemoveIndex(wait_queue[MyQueue(i)], m)]
      BY <1>5 DEF DequeueTaskNow, DequeueNow
    <3>2. RemoveIndex(wait_queue[MyQueue(i)], m) = wait_queue[MyQueue(i)]
      BY <1>0, <2>1, <2>2, <3>1
    <3>3. wait_queue[MyQueue(i)] \in Seq(Task)
      BY <1>0, <2>1
    <3>4. Len(RemoveIndex(wait_queue[MyQueue(i)], m)) = Len(wait_queue[MyQueue(i)]) - 1
      BY <3>3, Removed
    <3>5. Len(wait_queue[MyQueue(i)]) \in Nat
      BY <3>3
    <3>6. QED
      BY <3>2, <3>4, <3>5
  <2>3. CASE \E y \in Region : Pulls(MyQueue(i), y) /\ Run(i, y)
    <3>1. PICK y \in Region : Pulls(MyQueue(i), y) /\ Run(i, y)
      BY <2>3
    <3>2. t'[i] = y
      BY <1>0, <3>1 DEF Run
    <3>3. Starts(i, y)
      <4>1. \E x \in Region : Starts(i, x)
        BY <2>1, Moves DEF Finishes, Leaves, Continues
      <4>2. QED
        BY <3>2, <4>1 DEF Starts
    <3>4. Has("queue", MyQueue(i), y)
      BY <2>1, <3>1, HasQueue
    <3>5. ASSUME NEW x \in Region, NEW c \in Kind, NEW a \in Thread
          PROVE  Has(c, a, x)' <=> Has(c, a, x) /\ ~(c = "queue" /\ a = MyQueue(i) /\ x = y)
      <4>1. c = "queue" => (Has(c, a, x)' <=> Has(c, a, x) /\ ~(a = MyQueue(i) /\ x = y))
        BY <2>1, <3>1, HasQueue, SMTT(60)
      <4>2. c # "queue" /\ a # i => (Has(c, a, x)' <=> Has(c, a, x))
        BY HasAlone, SMTT(60) DEF Kind
      <4>3. /\ Has("bound", i, x)' <=> r[i] = x
            /\ ~Has("ready", i, x)'
            /\ Has("enqueue", i, x)' <=> enq[i] = x
        BY <2>1, HasAlone
      <4>4. /\ Has("bound", i, x) <=> r[i] = x
            /\ ~Has("ready", i, x)
            /\ Has("enqueue", i, x) <=> enq[i] = x
        BY <2>1 DEF Has
      <4>5. QED
        BY <4>1, <4>2, <4>3, <4>4 DEF Kind
    <3>6. QED
      BY <2>1, <3>3, <3>4, <3>5, Started, ZenonT(60) DEF Kind
  <2>4. QED
    BY <2>1, <2>2, <2>3, QueueStep
<1>6. CASE BindDequeueNow(i) \/ StealDequeueNow(i)
  <2>1. /\ pc[i] \in {"bind_dequeue", "steal_dequeue"} /\ r[i] = NULL /\ enq'[i] = enq[i]
        /\ n_ready' = n_ready /\ pc'[i] \notin {"exec", "ready"} /\ lock[i] \in Queue /\ lock[i] \in Thread
    BY <1>0, <1>6, Teams DEF BindDequeueNow, StealDequeueNow, Local
  <2>2. \A x \in Region : ~Starts(i, x)
    BY <2>1 DEF Starts
  <2>3. CASE wait_queue' = wait_queue
    <3>1. r' = r
      <4>1. \A m \in 1..Len(wait_queue[lock[i]]) :
              wait_queue' # [wait_queue EXCEPT ![lock[i]] = RemoveIndex(wait_queue[lock[i]], m)]
        <5> SUFFICES ASSUME NEW m \in 1..Len(wait_queue[lock[i]]),
                            wait_queue' = [wait_queue EXCEPT ![lock[i]] = RemoveIndex(wait_queue[lock[i]], m)]
                     PROVE  FALSE
          OBVIOUS
        <5>1. RemoveIndex(wait_queue[lock[i]], m) = wait_queue[lock[i]]
          BY <1>0, <2>1, <2>3
        <5>2. wait_queue[lock[i]] \in Seq(Task)
          BY <1>0, <2>1
        <5>3. Len(RemoveIndex(wait_queue[lock[i]], m)) = Len(wait_queue[lock[i]]) - 1
          BY <5>2, Removed
        <5>4. Len(wait_queue[lock[i]]) \in Nat
          BY <5>2
        <5>5. QED
          BY <5>1, <5>3, <5>4
      <4>2. CASE BindDequeueNow(i)
        BY <4>1, <4>2 DEF BindDequeueNow, DequeueNow
      <4>3. CASE StealDequeueNow(i)
        <5>1. CASE wait_queue[lock[i]] = <<>>
          BY <4>3, <5>1 DEF StealDequeueNow
        <5>2. CASE wait_queue[lock[i]] # <<>>
          <6>1. wait_queue[lock[i]] \in Seq(Task)
            BY <1>0, <2>1
          <6>2. Len(wait_queue[lock[i]]) \in 1..Len(wait_queue[lock[i]])
            BY <5>2, <6>1
          <6>3. QED
            BY <4>1, <4>3, <5>2, <6>2 DEF StealDequeueNow, UnlinkTail
        <5>3. QED
          BY <5>1, <5>2
      <4>4. QED
        BY <1>6, <4>2, <4>3
    <3>2. QED
      BY <2>1, <2>2, <2>3, <3>1, Unmoved
  <2>4. CASE \E y \in Region : Pulls(lock[i], y) /\ r' = [r EXCEPT ![i] = y]
    <3>1. PICK y \in Region : Pulls(lock[i], y) /\ r' = [r EXCEPT ![i] = y]
      BY <2>4
    <3>2. r'[i] = y
      BY <1>0, <3>1
    <3>3. Has("queue", lock[i], y)
      BY <2>1, <3>1, HasQueue
    <3>4. ASSUME NEW x \in Region, NEW c \in Kind, NEW a \in Thread
          PROVE  /\ Has(c, a, x)' <=> IF c = "bound" /\ a = i THEN x = y
                                      ELSE Has(c, a, x) /\ ~(c = "queue" /\ a = lock[i] /\ x = y)
                 /\ ~Has("bound", i, x)
      <4>0. Has("queue", a, x)' <=> Has("queue", a, x) /\ ~(a = lock[i] /\ x = y)
        BY <2>1, <3>1, HasQueue
      <4>1. c = "queue" => (Has(c, a, x)' <=> Has(c, a, x) /\ ~(a = lock[i] /\ x = y))
        BY <4>0
      <4>2. c # "queue" /\ a # i => (Has(c, a, x)' <=> Has(c, a, x))
        BY HasAlone, SMTT(60) DEF Kind
      <4>3. /\ Has("bound", i, x)' <=> x = y
            /\ ~Has("ready", i, x)'
            /\ Has("enqueue", i, x)' <=> enq[i] = x
        BY <2>1, <3>2, HasAlone
      <4>4. /\ ~Has("bound", i, x)
            /\ ~Has("ready", i, x)
            /\ Has("enqueue", i, x) <=> enq[i] = x
        BY <1>0, <2>1 DEF Has
      <4>5. QED
        BY <4>1, <4>2, <4>3, <4>4 DEF Kind
    <3>5. "queue" \in Kind /\ "bound" \in Kind /\ "queue" # "bound"
      BY DEF Kind
    <3> HIDE DEF Types, TypeOK, At, Goto, shared, locks, ghosts, locals
    <3>6. \A x \in Region : \A c \in Kind : \A a \in Thread :
            Has(c, a, x)' <=> IF c = "bound" /\ a = i THEN x = y
                              ELSE Has(c, a, x) /\ ~(c = "queue" /\ a = lock[i] /\ x = y)
      BY <3>4
    <3>7. \A x \in Region : ~Has("bound", i, x)
      BY <3>4, <3>5
    <3>8. QED
      BY <2>1, <2>2, <3>3, <3>5, <3>6, <3>7, Moved, SMTT(30)
  <2>5. QED
    BY <2>1, <2>3, <2>4, QueueStep
<1>7. CASE BindFirst(i)
  <2> DEFINE y == Dependent(i)
  <2>1. /\ pc[i] = "ready" /\ pc'[i] = "dep" /\ r[i] = NULL /\ r'[i] = y /\ enq'[i] = enq[i]
        /\ n_ready' = n_ready /\ wait_queue' = wait_queue
    BY <1>0, <1>7 DEF BindFirst
  <2>2. y \in Region
    BY <1>0, <2>1, Notifying DEF IInv, Local, Busy
  <2>3. \A x \in Region : ~Starts(i, x)
    BY <2>1 DEF Starts
  <2>4. Has("ready", i, y)
    BY <2>1 DEF Has
  <2> HIDE DEF y
  <2>5. ASSUME NEW x \in Region, NEW c \in Kind, NEW a \in Thread
        PROVE  /\ Has(c, a, x)' <=> IF c = "bound" /\ a = i THEN x = y
                                    ELSE Has(c, a, x) /\ ~(c = "ready" /\ a = i /\ x = y)
               /\ ~Has("bound", i, x)
    <3>1. c = "queue" => (Has(c, a, x)' <=> Has(c, a, x))
      BY <2>1, HasQueue
    <3>2. c # "queue" /\ a # i => (Has(c, a, x)' <=> Has(c, a, x))
      BY HasAlone DEF Kind
    <3>3. /\ Has("bound", i, x)' <=> x = y
          /\ ~Has("ready", i, x)'
          /\ Has("enqueue", i, x)' <=> enq[i] = x
      BY <2>1, HasAlone
    <3>4. /\ ~Has("bound", i, x)
          /\ Has("ready", i, x) <=> x = y
          /\ Has("enqueue", i, x) <=> enq[i] = x
      BY <1>0, <2>1 DEF Has, y
    <3>5. QED
      BY <3>1, <3>2, <3>3, <3>4 DEF Kind
  <2>6. "ready" \in Kind /\ "bound" \in Kind /\ "ready" # "bound"
    BY DEF Kind
  <2> HIDE DEF Types, TypeOK, At, Goto, shared, locks, ghosts, locals
  <2>7. \A x \in Region : \A c \in Kind : \A a \in Thread :
          Has(c, a, x)' <=> IF c = "bound" /\ a = i THEN x = y
                            ELSE Has(c, a, x) /\ ~(c = "ready" /\ a = i /\ x = y)
    BY <2>5
  <2>8. \A x \in Region : ~Has("bound", i, x)
    BY <2>5, <2>6
  <2>9. QED
    BY <2>1, <2>2, <2>3, <2>4, <2>6, <2>7, <2>8, Moved
<1>8. CASE Ready(i)
  <2> DEFINE y == Dependent(i)
  <2>1. /\ pc[i] = "ready" /\ pc'[i] = "enqueue" /\ enq[i] = NULL /\ enq'[i] = y /\ r'[i] = r[i]
        /\ n_ready' = n_ready /\ wait_queue' = wait_queue
    BY <1>0, <1>8 DEF Ready, Local
  <2>2. y \in Region
    BY <1>0, <2>1, Notifying DEF IInv, Local, Busy
  <2>3. \A x \in Region : ~Starts(i, x)
    BY <2>1 DEF Starts
  <2>4. Has("ready", i, y)
    BY <2>1 DEF Has
  <2> HIDE DEF y
  <2>5. ASSUME NEW x \in Region, NEW c \in Kind, NEW a \in Thread
        PROVE  /\ Has(c, a, x)' <=> IF c = "enqueue" /\ a = i THEN x = y
                                    ELSE Has(c, a, x) /\ ~(c = "ready" /\ a = i /\ x = y)
               /\ ~Has("enqueue", i, x)
    <3>1. c = "queue" => (Has(c, a, x)' <=> Has(c, a, x))
      BY <2>1, HasQueue
    <3>2. c # "queue" /\ a # i => (Has(c, a, x)' <=> Has(c, a, x))
      BY HasAlone DEF Kind
    <3>3. /\ Has("bound", i, x)' <=> r[i] = x
          /\ ~Has("ready", i, x)'
          /\ Has("enqueue", i, x)' <=> x = y
      BY <2>1, HasAlone
    <3>4. /\ Has("bound", i, x) <=> r[i] = x
          /\ Has("ready", i, x) <=> x = y
          /\ ~Has("enqueue", i, x)
      BY <1>0, <2>1 DEF Has, y
    <3>5. QED
      BY <3>1, <3>2, <3>3, <3>4 DEF Kind
  <2>6. "ready" \in Kind /\ "enqueue" \in Kind /\ "ready" # "enqueue"
    BY DEF Kind
  <2> HIDE DEF Types, TypeOK, At, Goto, shared, locks, ghosts, locals
  <2>7. \A x \in Region : \A c \in Kind : \A a \in Thread :
          Has(c, a, x)' <=> IF c = "enqueue" /\ a = i THEN x = y
                            ELSE Has(c, a, x) /\ ~(c = "ready" /\ a = i /\ x = y)
    BY <2>5
  <2>8. \A x \in Region : ~Has("enqueue", i, x)
    BY <2>5, <2>6
  <2>9. QED
    BY <2>1, <2>2, <2>3, <2>4, <2>6, <2>7, <2>8, Moved
<1>9. CASE EnqueueTaskNow(i)
  <2> DEFINE y == enq[i]
             q == queue[enq[i]]
  <2>1. /\ pc[i] = "enqueue" /\ pc'[i] = "dep" /\ enq'[i] = NULL /\ r'[i] = r[i] /\ n_ready' = n_ready
    BY <1>0, <1>9 DEF EnqueueTaskNow
  <2>2. y \in Region
    BY <1>0, <2>1 DEF Local
  <2>3. \A x \in Region : ~Starts(i, x)
    BY <2>1 DEF Starts
  <2>4. Has("enqueue", i, y)
    BY DEF Has
  <2>5. q \in Queue /\ q \in Thread /\ Puts(q, y)
    <3>1. wait_queue' # wait_queue
      <4> DEFINE s == wait_queue[q]
                 n == Keep(s, y)
      <4>1. q \in Queue /\ y \in Task /\ s \in Seq(Task)
        BY <1>0, <2>2
      <4>2. n \in 0..Len(s)
        BY <4>1, KeepInQueue
      <4>3. wait_queue' = [wait_queue EXCEPT ![q] = InsertIndex(s, n, y)]
        BY <1>9 DEF EnqueueTaskNow, EnqueueNow
      <4> HIDE DEF n, s, q, y
      <4>4. Len(s) \in Nat
        BY <4>1
      <4>5. Len(InsertIndex(s, n, y)) = Len(s) + 1
        BY <4>1, <4>2, Inserted
      <4>6. wait_queue'[q] = InsertIndex(s, n, y) /\ wait_queue[q] = s
        BY <1>0, <4>1, <4>3 DEF s
      <4>7. QED
        BY <4>4, <4>5, <4>6
    <3>2. q \in Queue /\ Puts(q, y)
      BY <2>1, <3>1, QueueStep
    <3>3. QED
      BY <1>0, <3>2, Teams
  <2> HIDE DEF y, q
  <2>6. ASSUME NEW x \in Region, NEW c \in Kind, NEW a \in Thread
        PROVE  /\ Has(c, a, x)' <=> IF c = "queue" /\ a = q THEN Has(c, a, x) \/ x = y
                                    ELSE Has(c, a, x) /\ ~(c = "enqueue" /\ a = i /\ x = y)
    <3>1. c = "queue" => (Has(c, a, x)' <=> Has(c, a, x) \/ (a = q /\ x = y))
      BY <2>2, <2>5, HasQueue, SMTT(60)
    <3>2. c # "queue" /\ a # i => (Has(c, a, x)' <=> Has(c, a, x))
      BY HasAlone DEF Kind
    <3>3. /\ Has("bound", i, x)' <=> r[i] = x
          /\ ~Has("ready", i, x)'
          /\ ~Has("enqueue", i, x)'
      BY <1>0, <2>1, HasAlone
    <3>4. /\ Has("bound", i, x) <=> r[i] = x
          /\ ~Has("ready", i, x)
          /\ Has("enqueue", i, x) <=> x = y
      BY <2>1 DEF Has, y
    <3>5. QED
      BY <3>1, <3>2, <3>3, <3>4 DEF Kind
  <2>7. ASSUME NEW x \in Region PROVE OnePlace(x)'
    <3>1. Available(x)' <=> Available(x)
      BY <2>1, <2>3, AvailableStep
    <3>2. CASE x = y
      <4>1. /\ \A c \in Kind : \A a \in Thread : Has(c, a, x) <=> c = "enqueue" /\ a = i
            /\ Available(x)
        BY <2>4, <3>2, Only, SMTT(60) DEF Kind
      <4>2. \A c \in Kind : \A a \in Thread : Has(c, a, x)' <=> c = "queue" /\ a = q
        BY <2>6, <3>2, <4>1, SMTT(60)
      <4>3. Available(x)' /\ "queue" \in Kind
        BY <3>1, <4>1 DEF Kind
      <4>4. QED
        BY <2>5, <4>2, <4>3, Arrives
    <3>3. CASE x # y
      <4>1. \A c \in Kind : \A a \in Thread : Has(c, a, x)' <=> Has(c, a, x)
        BY <2>6, <3>3
      <4>2. QED
        BY <3>1, <4>1, Stays
    <3>4. QED
      BY <3>2, <3>3
  <2>8. QED
    BY <2>7
<1>10. CASE BindSwap(i)
  <2> DEFINE y == Dependent(i)
             z == r[i]
  <2>1. /\ pc[i] = "ready" /\ pc'[i] = "enqueue" /\ enq[i] = NULL /\ enq'[i] = z /\ r'[i] = y
        /\ n_ready' = n_ready /\ wait_queue' = wait_queue /\ z \in Region
    BY <1>0, <1>10 DEF BindSwap, Local
  <2>2. y \in Region
    BY <1>0, <2>1, Notifying DEF IInv, Local, Busy
  <2>3. \A x \in Region : ~Starts(i, x)
    BY <2>1 DEF Starts
  <2>4. Has("ready", i, y) /\ Has("bound", i, z)
    BY <2>1 DEF Has
  <2> HIDE DEF y, z
  <2>5. ASSUME NEW x \in Region, NEW c \in Kind, NEW a \in Thread
        PROVE  /\ Has(c, a, x)' <=> IF a = i /\ c # "queue"
                                    THEN (c = "bound" /\ x = y) \/ (c = "enqueue" /\ x = z)
                                    ELSE Has(c, a, x)
               /\ ~Has("enqueue", i, x)
               /\ Has("ready", i, x) <=> x = y
               /\ Has("bound", i, x) <=> x = z
    <3>1. c = "queue" => (Has(c, a, x)' <=> Has(c, a, x))
      BY <2>1, HasQueue
    <3>2. c # "queue" /\ a # i => (Has(c, a, x)' <=> Has(c, a, x))
      BY HasAlone DEF Kind
    <3>3. /\ Has("bound", i, x)' <=> x = y
          /\ ~Has("ready", i, x)'
          /\ Has("enqueue", i, x)' <=> x = z
      BY <2>1, HasAlone
    <3>4. /\ Has("bound", i, x) <=> x = z
          /\ Has("ready", i, x) <=> x = y
          /\ ~Has("enqueue", i, x)
      BY <1>0, <2>1 DEF Has, y, z
    <3>5. QED
      BY <3>1, <3>2, <3>3, <3>4 DEF Kind
  <2>6. y # z
    BY <2>1, <2>2, <2>4, Only DEF Kind
  <2>7. ASSUME NEW x \in Region PROVE OnePlace(x)'
    <3>1. Available(x)' <=> Available(x)
      BY <2>1, <2>3, AvailableStep
    <3>2. CASE x = y
      <4>1. /\ \A c \in Kind : \A a \in Thread : Has(c, a, x) <=> c = "ready" /\ a = i
            /\ Available(x)
        BY <2>4, <3>2, Only, SMTT(60) DEF Kind
      <4>2. \A c \in Kind : \A a \in Thread : Has(c, a, x)' <=> c = "bound" /\ a = i
        BY <2>5, <2>6, <3>2, <4>1
      <4>3. Available(x)' /\ "bound" \in Kind
        BY <3>1, <4>1 DEF Kind
      <4>4. QED
        BY <4>2, <4>3, Arrives, ZenonT(60)
    <3>3. CASE x = z
      <4>1. /\ \A c \in Kind : \A a \in Thread : Has(c, a, x) <=> c = "bound" /\ a = i
            /\ Available(x)
        BY <2>4, <3>3, Only, SMTT(60) DEF Kind
      <4>2. \A c \in Kind : \A a \in Thread : Has(c, a, x)' <=> c = "enqueue" /\ a = i
        BY <2>5, <2>6, <3>3, <4>1
      <4>3. Available(x)' /\ "enqueue" \in Kind
        BY <3>1, <4>1 DEF Kind
      <4>4. QED
        BY <4>2, <4>3, Arrives, ZenonT(60)
    <3>4. CASE x # y /\ x # z
      <4>1. \A c \in Kind : \A a \in Thread : Has(c, a, x)' <=> Has(c, a, x)
        BY <2>5, <3>4 DEF Kind
      <4>2. QED
        BY <3>1, <4>1, Stays
    <3>5. QED
      BY <3>2, <3>3, <3>4
  <2>8. QED
    BY <2>7
<1>11. CASE NotifyWrite(i)
  <2> DEFINE y == Dependent(i)
  <2>1. /\ pc[i] = "notify_write" /\ r'[i] = r[i] /\ enq'[i] = enq[i] /\ wait_queue' = wait_queue
        /\ pc'[i] # "exec" /\ t' = t
        /\ pc'[i] = "ready" => cnt[i] - 1 = 0 /\ k' = k
        /\ pc'[i] # "ready" => cnt[i] - 1 # 0
        /\ n_ready' = [n_ready EXCEPT ![y] = cnt[i] - 1]
    <3>1. /\ pc[i] = "notify_write" /\ r' = r /\ enq' = enq /\ wait_queue' = wait_queue /\ t' = t
      BY <1>11 DEF NotifyWrite
    <3>2. n_ready' = [n_ready EXCEPT ![y] = cnt[i] - 1]
      BY <1>11 DEF NotifyWrite
    <3>3. CASE IsReady(cnt[i] - 1)
      <4>1. pc'[i] = "ready" /\ k' = k /\ cnt[i] - 1 = 0
        BY <1>0, <1>11, <3>3 DEF NotifyWrite, IsReady
      <4>2. QED
        BY <3>1, <3>2, <4>1
    <3>4. CASE ~IsReady(cnt[i] - 1)
      <4>1. pc'[i] = "dep" /\ cnt[i] - 1 # 0
        BY <1>0, <1>11, <3>4 DEF NotifyWrite, IsReady
      <4>2. QED
        BY <3>1, <3>2, <4>1
    <3>5. QED
      BY <3>3, <3>4
  <2>2. t[i] \in Region /\ k[i] \in 1..Len(dag.dep_arg[t[i]]) /\ y \in Region /\ pc[i] \in Busy
    <3>1. pc[i] = "notify_write" /\ pc[i] \in Busy /\ k[i] <= Len(dag.dep_arg[t[i]])
      BY <1>0, <2>1 DEF Busy, Local
    <3>2. QED
      BY <1>0, <3>1, Notifying, Working DEF IInv
  <2>3. \A x \in Region : ~Starts(i, x)
    BY <2>1 DEF Starts
  <2>4. n_ready[y] # 0 /\ state[y] = "waiting" /\ cnt[i] = n_ready[y]
    <3>1. ~Counted(i, k[i])
      <4>1. ~(k[i] < k[i])
        BY <2>2
      <4>2. QED
        BY <2>1, <4>1 DEF Counted
    <3>2. cnt[i] = n_ready[y]
      BY <2>1 DEF IInv, Counts
    <3>3. ~Sent(t[i], k[i])
      BY <2>2, <3>1, Ahead
    <3>4. n_ready[y] # 0 /\ state[y] = "waiting"
      BY <2>2, <3>3, NotCounted DEF Dependent
    <3>5. QED
      BY <3>2, <3>4
  <2>5. pc'[i] = "ready" => Dependent(i)' = y
    BY <1>0, <2>1 DEF Dependent
  <2>6. \A x \in Region : x # y => n_ready'[x] = n_ready[x]
    BY <1>0, <2>1
  <2>7. n_ready'[y] = cnt[i] - 1
    BY <1>0, <2>1, <2>2
  <2>8. n_init' = n_init /\ n_init = dag.n_tasks
    BY <1>0, Alone
  <2>9. y <= n_init
    BY <2>2, <2>8 DEF Region
  <2> HIDE DEF y
  <2>10. ASSUME NEW x \in Region, NEW c \in Kind, NEW a \in Thread
         PROVE  Has(c, a, x)' <=> IF c = "ready" /\ a = i THEN pc'[i] = "ready" /\ x = y ELSE Has(c, a, x)
    <3>1. c = "queue" => (Has(c, a, x)' <=> Has(c, a, x))
      BY <2>1, HasQueue
    <3>2. c # "queue" /\ a # i => (Has(c, a, x)' <=> Has(c, a, x))
      BY HasAlone DEF Kind
    <3>3. /\ Has("bound", i, x)' <=> r[i] = x
          /\ Has("ready", i, x)' <=> pc'[i] = "ready" /\ x = y
          /\ Has("enqueue", i, x)' <=> enq[i] = x
      BY <2>1, <2>5, HasAlone
    <3>4. /\ Has("bound", i, x) <=> r[i] = x
          /\ Has("enqueue", i, x) <=> enq[i] = x
      BY DEF Has
    <3>5. QED
      BY <3>1, <3>2, <3>3, <3>4 DEF Kind
  <2>11. \A x \in Region : ~Has("ready", i, x)
    BY <2>1 DEF Has
  <2>12. ASSUME NEW x \in Region PROVE OnePlace(x)'
    <3>1. CASE x = y /\ pc'[i] = "ready"
      <4>1. ~Available(x)
        BY <2>4, <3>1 DEF Available
      <4>2. Available(x)'
        <5>1. state'[x] = "waiting"
          BY <2>3, <2>4, <3>1, AvailableStep
        <5>2. n_ready'[x] = 0
          BY <2>1, <2>7, <3>1
        <5>3. QED
          BY <2>8, <2>9, <3>1, <5>1, <5>2 DEF Available
      <4>3. \A c \in Kind : \A a \in Thread : ~Has(c, a, x)
        BY <4>1, Nowhere
      <4>4. \A c \in Kind : \A a \in Thread : Has(c, a, x)' <=> c = "ready" /\ a = i
        BY <2>10, <3>1, <4>3
      <4>5. "ready" \in Kind
        BY DEF Kind
      <4>6. QED
        BY <4>2, <4>4, <4>5, Arrives
    <3>2. CASE x = y /\ pc'[i] # "ready"
      <4>1. ~Available(x)
        BY <2>4, <3>2 DEF Available
      <4>2. ~Available(x)'
        BY <2>1, <2>7, <3>2 DEF Available
      <4>3. \A c \in Kind : \A a \in Thread : ~Has(c, a, x)
        BY <4>1, Nowhere
      <4>4. \A c \in Kind : \A a \in Thread : ~Has(c, a, x)'
        BY <2>10, <3>2, <4>3
      <4>5. QED
        BY <4>2, <4>4, Departs
    <3>3. CASE x # y
      <4>1. Available(x)' <=> Available(x)
        BY <2>3, <2>6, <3>3, AvailableStep
      <4>2. \A c \in Kind : \A a \in Thread : Has(c, a, x)' <=> Has(c, a, x)
        BY <2>10, <2>11, <3>3
      <4>3. QED
        BY <4>1, <4>2, Stays
    <3>4. QED
      BY <3>1, <3>2, <3>3
  <2>13. QED
    BY <2>12
<1>12. QED
  BY <1>1, <1>2, <1>3, <1>4, <1>5, <1>6, <1>7, <1>8, <1>9, <1>10, <1>11 DEF StepNow

-----------------------------------------------------------------------------
(* The invariant.                                                          *)

(* Initialisation puts a task that waits for nothing into a queue.         *)
LEMMA InvariantSetup ==
  ASSUME IInv, FLASH_Queue_init_tasks
  PROVE  IInv'
<1> DEFINE x == n_init + 1
<1>0. /\ UNCHANGED <<dag, conf, n_ready, queue, hit, write_task, read_task, n_committed,
                     run_lock, dep_lock, war_lock, state, freed, freed_nodes,
                     pc, t, r, k, lq, cnt, enq, lock, nodes, view>>
      /\ n_init' = x /\ n_init < dag.n_tasks
  BY DEF FLASH_Queue_init_tasks, locks, ghosts, locals
<1>1. Types /\ Locals /\ Listed /\ Owners /\ Locks /\ InQueues /\ InOnePlace /\ Counts
  BY DEF IInv
<1>2. Types' /\ Locals' /\ Listed'
  BY <1>1, LocalsNext DEF Next
<1>3. Queue' = Queue /\ Region' = Region /\ n_init \in Nat /\ dag.n_tasks \in Nat
  BY <1>0, <1>1, Dag DEF Queue, Region, Types, TypeOK
<1>4. x \in Region /\ x > n_init /\ n_init \in Nat
  BY <1>0, <1>3 DEF Region
<1>5. state[x] = "waiting" /\ ~Available(x)
  BY <1>0, <1>1, <1>3, <1>4 DEF Owners, Available
<1>6. \A c \in Kind : \A a \in Thread : ~Has(c, a, x)
  BY <1>4, <1>5, Nowhere
<1>7. \A q \in Queue : x \notin Waiting(q)
  <2> SUFFICES ASSUME NEW q \in Queue, x \in Waiting(q) PROVE FALSE
    OBVIOUS
  <2>1. q \in Thread /\ Has("queue", q, x)
    BY <1>1, Teams DEF Has
  <2>2. QED
    BY <1>6, <2>1 DEF Kind
<1>8. IF n_ready[x] = 0 THEN EnqueueNow(x) ELSE wait_queue' = wait_queue
  BY DEF FLASH_Queue_init_tasks, Enqueue, EnqueueNow, ViewOf
<1> HIDE DEF x
<1>10. Owners'
  <2>1. n_init' < dag'.n_tasks => n_init < dag.n_tasks
    BY <1>0
  <2>2. QED
    BY <1>0, <1>1, <1>3, <2>1 DEF Owners
<1>11. Locks'
  <2>1. \A a \in Thread, q \in Queue : HoldsRun(a, q)' <=> HoldsRun(a, q)
    BY <1>0, <1>3 DEF HoldsRun, MyQueue
  <2>2. \A a, l \in Thread : HoldsDep(a, l)' <=> HoldsDep(a, l)
    BY <1>0, <1>3 DEF HoldsDep, DepLock, Dependent
  <2>3. \A a, l \in Thread : HoldsWar(a, l)' <=> HoldsWar(a, l)
    BY <1>0, <1>3 DEF HoldsWar, WarLock, FreedBlock
  <2>4. QED
    BY <1>0, <1>1, <1>3, <2>1, <2>2, <2>3 DEF Locks
<1>12. \A q \in Queue : NoRepeat(wait_queue[q])
  BY <1>1 DEF InQueues
<1>13. InQueues'
  <2>1. CASE n_ready[x] = 0
    <3>1. queue[x] \in Queue /\ Puts(queue[x], x)
      BY <1>4, <1>7, <1>8, <2>1, Put
    <3>2. QED
      BY <1>3, <1>4, <1>12, <3>1 DEF Puts, InQueues
  <2>2. CASE n_ready[x] # 0
    BY <1>3, <1>8, <1>12, <2>2 DEF InQueues, Waiting
  <2>3. QED
    BY <2>1, <2>2
<1>14. ASSUME NEW y \in Region PROVE OnePlace(y)'
  <2>1. \A c \in {"bound", "ready", "enqueue"} : \A a \in Thread : Has(c, a, y)' <=> Has(c, a, y)
    BY <1>0 DEF Has, Dependent
  <2>2. CASE n_ready[x] = 0
    <3>1. queue[x] \in Queue /\ Puts(queue[x], x) /\ queue[x] \in Thread
      BY <1>1, <1>4, <1>7, <1>8, <2>2, Put, Teams
    <3>2. \A a \in Thread : Has("queue", a, y)' <=> Has("queue", a, y) \/ (a = queue[x] /\ y = x)
      BY <1>3, <3>1 DEF Has, Puts
    <3>3. CASE y = x
      <4>1. \A c \in Kind : \A a \in Thread : Has(c, a, y)' <=> c = "queue" /\ a = queue[x]
        BY <1>6, <2>1, <3>2, <3>3 DEF Kind
      <4>0. x \in Nat /\ x <= x
        BY <1>3 DEF x
      <4>2. Available(y)' /\ "queue" \in Kind
        BY <1>0, <1>5, <2>2, <3>3, <4>0 DEF Available, Kind
      <4>3. QED
        BY <3>1, <4>1, <4>2, Arrives
    <3>4. CASE y # x
      <4>1. \A c \in Kind : \A a \in Thread : Has(c, a, y)' <=> Has(c, a, y)
        BY <2>1, <3>2, <3>4 DEF Kind
      <4>2. y <= n_init + 1 <=> y <= n_init
        BY <1>3, <3>4 DEF x, Region
      <4>3. Available(y)' <=> Available(y)
        BY <1>0, <4>2 DEF Available, x
      <4>4. QED
        BY <4>1, <4>3, Stays
    <3>5. QED
      BY <3>3, <3>4
  <2>3. CASE n_ready[x] # 0
    <3>1. \A a \in Thread : Has("queue", a, y)' <=> Has("queue", a, y)
      BY <1>3, <1>8, <2>3 DEF Has, Waiting
    <3>2. \A c \in Kind : \A a \in Thread : Has(c, a, y)' <=> Has(c, a, y)
      BY <2>1, <3>1 DEF Kind
    <3>3. y # x => (y <= n_init + 1 <=> y <= n_init)
      BY <1>3 DEF x, Region
    <3>4. Available(y)' <=> Available(y)
      BY <1>0, <2>3, <3>3 DEF Available, x
    <3>5. QED
      BY <3>2, <3>4, Stays
  <2>4. QED
    BY <2>2, <2>3
<1>15. InOnePlace'
  BY <1>3, <1>14 DEF InOnePlace
<1>16. Counts'
  <2>1. \A j, m : Sent(j, m)' <=> Sent(j, m)
    BY <1>0 DEF Sent, Counted
  <2>2. ASSUME NEW y \in Region PROVE Pending(y)' = Pending(y)
    <3>1. InEdges(dag, y)' = InEdges(dag, y)
      BY <1>0
    <3>2. QED
      BY <2>1, <3>1 DEF Pending
  <2>3. \A i \in Thread : Dependent(i)' = Dependent(i)
    BY <1>0 DEF Dependent
  <2>4. QED
    BY <1>0, <1>1, <1>3, <2>2, <2>3 DEF Counts
<1>17. QED
  BY <1>2, <1>10, <1>11, <1>13, <1>15, <1>16 DEF IInv

LEMMA InvariantInit == Init => IInv
<1> SUFFICES ASSUME NEW e \in Execution, InitWith(e.graph, e.setting) PROVE IInv
  BY TypesInit DEF Init
<1>1. Types /\ dag \in Graph
  BY TypesInit, Dag DEF Init
<1>2. /\ dag.n_tasks \in Nat /\ Region \subseteq Task /\ n_ready = dag.n_ready /\ n_init = 0
      /\ state = [x \in Task |-> "waiting"] /\ pc = [i \in Thread |-> "loop"]
      /\ t = [i \in Thread |-> NULL] /\ r = [i \in Thread |-> NULL] /\ enq = [i \in Thread |-> NULL]
      /\ k = [i \in Thread |-> 1] /\ run_lock = [q \in Queue |-> Free]
      /\ dep_lock = [i \in Thread |-> Free] /\ war_lock = [i \in Thread |-> Free]
      /\ wait_queue = [q \in Queue |-> <<>>] /\ view = [i \in Thread |-> NoView]
  BY <1>1, Dag DEF InitWith
<1>3. Locals /\ Listed
  BY LocalsInit DEF Init
<1>4. Owners
  BY <1>2 DEF Owners
<1>5. \A i \in Thread : i # Free
  BY <1>1, Teams
<1>6. Locks
  BY <1>2, <1>5 DEF Locks, HoldsRun, HoldsDep, HoldsWar
<1>7. \A q \in Queue : wait_queue[q] = <<>>
  BY <1>2
<1>8. \A q \in Queue : Waiting(q) = {} /\ NoRepeat(wait_queue[q])
  <2>1. Members(<<>>) = {} /\ NoRepeat(<<>>)
    BY DEF Members, NoRepeat
  <2>2. QED
    BY <1>7, <2>1 DEF Waiting
<1>9. InQueues
  BY <1>8 DEF InQueues
<1>10. InOnePlace
  <2> SUFFICES ASSUME NEW x \in Region PROVE OnePlace(x)
    BY DEF InOnePlace
  <2>1. \A c \in Kind : \A a \in Thread : ~Has(c, a, x)
    BY <1>1, <1>2, <1>8, Dag DEF Has, Kind
  <2>2. ~Available(x)
    BY <1>2 DEF Available, Region
  <2>3. QED
    BY <2>1, <2>2 DEF OnePlace
<1>11. Counts
  <2>1. ASSUME NEW x \in Region
        PROVE  n_ready[x] = Cardinality(Pending(x)) /\ state[x] = "waiting"
    <3>1. n_ready[x] = Cardinality(InEdges(dag, x))
      BY <1>1, <1>2, GraphAssumption DEF Region
    <3>2. ASSUME NEW f \in InEdges(dag, x) PROVE ~Sent(f[1], f[2])
      <4>1. PICK j \in Region : f[1] = j
        BY <1>1, IsEdge
      <4>2. QED
        BY <1>2, <4>1 DEF Sent
    <3>3. Pending(x) = InEdges(dag, x)
      BY <3>2 DEF Pending
    <3>4. QED
      BY <1>2, <3>1, <3>3
  <2>2. QED
    BY <1>2, <2>1 DEF Counts
<1>12. QED
  BY <1>1, <1>3, <1>4, <1>6, <1>9, <1>10, <1>11 DEF IInv

LEMMA InvariantStep ==
  ASSUME IInv, NEW i \in Thread, Step(i), StepNow(i)
  PROVE  IInv'
<1>1. Types' /\ Locals' /\ Listed'
  BY TypesStep, LocalsStep DEF IInv
<1>2. Region' = Region
  BY Alone DEF IInv, Region
<1>3. InOnePlace'
  BY <1>1, <1>2, OnePlaceStep DEF InOnePlace
<1>4. QED
  BY <1>1, <1>3, OwnersStep, LocksStep, InQueuesStep, CountsStep DEF IInv

LEMMA InvariantSame ==
  ASSUME IInv, UNCHANGED vars
  PROVE  IInv'
<1>1. UNCHANGED <<dag, conf, n_init, wait_queue, n_ready, queue, hit, write_task, read_task, n_committed,
                  run_lock, dep_lock, war_lock, state, freed, freed_nodes,
                  pc, t, r, k, lq, cnt, enq, lock, nodes>>
  BY DEF vars, shared, locks, ghosts, locals
<1>2. Types' /\ Locals' /\ Listed'
  BY LocalsNext DEF IInv
<1>3. Owners'
  BY <1>1 DEF IInv, Owners, Region
<1>4. Locks'
  <2>1. \A a \in Thread, q \in Queue : HoldsRun(a, q)' <=> HoldsRun(a, q)
    BY <1>1 DEF HoldsRun, MyQueue, Queue
  <2>2. \A a, l \in Thread : HoldsDep(a, l)' <=> HoldsDep(a, l)
    BY <1>1 DEF HoldsDep, DepLock, Dependent
  <2>3. \A a, l \in Thread : HoldsWar(a, l)' <=> HoldsWar(a, l)
    BY <1>1 DEF HoldsWar, WarLock, FreedBlock
  <2>4. QED
    BY <1>1, <2>1, <2>2, <2>3 DEF IInv, Locks, Queue
<1>5. InQueues' /\ InOnePlace'
  BY <1>1 DEF IInv, InQueues, InOnePlace, OnePlace, Has, Available, Waiting, Dependent, Queue, Region
<1>6. Counts'
  BY <1>1 DEF IInv, Counts, Pending, InEdges, Nodes, Sent, Counted, Dependent, Region
<1>7. QED
  BY <1>2, <1>3, <1>4, <1>5, <1>6 DEF IInv

-----------------------------------------------------------------------------
(* The waiting queues and their locks.                                     *)

LEMMA QueueNumbers ==
  ASSUME IInv, NEW i \in Thread, Step(i), StepNow(i)
  PROVE  \/ queue' = queue
         \/ /\ pc[i] = "dep" /\ k[i] <= Len(dag.dep_arg[t[i]]) /\ conf.work_stealing
            /\ queue' = [queue EXCEPT ![Dependent(i)] = queue[t[i]]]
         \/ \E q \in Queue, x \in Region :
              Has("queue", q, x) /\ queue' = [queue EXCEPT ![x] = MyQueue(i)]
<1>0. Types
  BY DEF IInv
<1> USE DEF At, shared
<1>1. CASE DepQueue(i)
  BY <1>1 DEF DepQueue
<1>2. CASE StealDequeueNow(i)
  <2>1. CASE wait_queue[lock[i]] = <<>>
    BY <1>2, <2>1 DEF StealDequeueNow
  <2>2. CASE wait_queue[lock[i]] # <<>>
    <3> DEFINE s == wait_queue[lock[i]]
    <3>1. lock[i] \in Queue /\ s \in Seq(Task)
      BY <1>0 DEF Types, TypeOK
    <3>2. Len(s) \in 1..Len(s)
      BY <2>2, <3>1
    <3>3. s[Len(s)] \in Region /\ s[Len(s)] \in Waiting(lock[i])
      BY <3>1, <3>2, Queued DEF Waiting, Members
    <3>4. Has("queue", lock[i], s[Len(s)])
      BY <3>1, <3>3 DEF Has
    <3>5. queue' = [queue EXCEPT ![s[Len(s)]] = MyQueue(i)]
      BY <1>2, <2>2 DEF StealDequeueNow
    <3>6. QED
      BY <3>1, <3>3, <3>4, <3>5
  <2>3. QED
    BY <2>1, <2>2
<1>3. CASE ~DepQueue(i) /\ ~StealDequeueNow(i)
  BY <1>3 DEF StepNow, Loop, LoopBound, DequeueTaskNow, DequeueNone, Exec, Bind, BindDequeueNow,
     DepRead, DepDone, Notify, NotifyWrite, BindFirst, BindSwap, Ready, EnqueueTaskNow,
     FreeWrites, FreeReads, FreeClear, FreeTask, Steal, Commit
<1>4. QED
  BY <1>1, <1>2, <1>3

(* Another thread's step leaves alone the queue number that thread a uses. *)
LEMMA SameQueueOthers ==
  ASSUME IInv, Steady, NEW i \in Thread, Step(i), StepNow(i), NEW a \in Thread, a # i
  PROVE  SameQueue(a)'
<1>0. /\ Types /\ Locals /\ Local(a) /\ dag' = dag
      /\ pc'[a] = pc[a] /\ t'[a] = t[a] /\ k'[a] = k[a] /\ lq'[a] = lq[a] /\ enq'[a] = enq[a]
      /\ lock'[a] = lock[a] /\ SameQueue(a)
  BY Alone DEF IInv, Locals, Steady
<1>1. ASSUME pc[a] \in {"notify", "notify_write", "ready"}
      PROVE  queue'[Dependent(a)] = queue[Dependent(a)]
  <2>1. /\ pc[a] \in Busy /\ t[a] \in Region /\ k[a] \in 1..Len(dag.dep_arg[t[a]])
        /\ Dependent(a) \in Region /\ Dependent(a) \in Task
    BY <1>0, <1>1, Working, Notifying DEF Busy, Local
  <2>2. CASE queue' = queue
    BY <2>2
  <2>3. CASE /\ pc[i] = "dep" /\ k[i] <= Len(dag.dep_arg[t[i]]) /\ conf.work_stealing
             /\ queue' = [queue EXCEPT ![Dependent(i)] = queue[t[i]]]
    <3>1. t[i] \in Region /\ k[i] \in 1..Len(dag.dep_arg[t[i]]) /\ t[i] # NULL
      BY <1>0, <2>3, Working, Notifying DEF Busy
    <3>2. t[i] # t[a]
      BY <3>1 DEF IInv, Owners
    <3>3. Dependent(i) # Dependent(a)
      BY <2>1, <2>3, <3>1, <3>2, SMTT(30) DEF Steady, OnePredecessor, Dependent, Region
    <3>4. QED
      BY <1>0, <2>1, <2>3, <3>3 DEF Types, TypeOK
  <2>4. CASE \E q \in Queue, x \in Region :
               Has("queue", q, x) /\ queue' = [queue EXCEPT ![x] = MyQueue(i)]
    <3>1. PICK q \in Queue, x \in Region :
            Has("queue", q, x) /\ queue' = [queue EXCEPT ![x] = MyQueue(i)]
      BY <2>4
    <3>2. q \in Thread /\ "queue" \in Kind
      BY <1>0, Teams DEF Kind
    <3>3. x # Dependent(a)
      <4>1. CASE pc[a] = "ready"
        <5>1. Has("ready", a, Dependent(a)) /\ "ready" \in Kind
          BY <4>1 DEF Has, Kind
        <5>2. ~Has("queue", q, Dependent(a))
          BY <2>1, <3>2, <5>1, Only
        <5>3. QED
          BY <3>1, <5>2
      <4>2. CASE pc[a] # "ready"
        <5>1. ~Counted(a, k[a])
          BY <1>0, <1>1, <4>2, SMTT(60) DEF Counted, Types, TypeOK
        <5>2. ~Sent(t[a], k[a])
          BY <2>1, <5>1, Ahead
        <5>3. n_ready[Dependent(a)] # 0
          BY <2>1, <5>2, NotCounted DEF Dependent
        <5>4. Available(x)
          BY <3>1, <3>2, Placed
        <5>5. QED
          BY <5>3, <5>4 DEF Available
      <4>3. QED
        BY <4>1, <4>2
    <3>4. QED
      BY <1>0, <2>1, <3>1, <3>3 DEF Types, TypeOK
  <2>5. QED
    BY <2>2, <2>3, <2>4, QueueNumbers
<1>2. ASSUME pc[a] = "enqueue" PROVE queue'[enq[a]] = queue[enq[a]]
  <2>1. enq[a] \in Region /\ Has("enqueue", a, enq[a]) /\ "enqueue" \in Kind /\ enq[a] \in Task
    BY <1>0, <1>2, Dag DEF Local, Has, Kind
  <2>2. CASE queue' = queue
    BY <2>2
  <2>3. CASE /\ pc[i] = "dep" /\ k[i] <= Len(dag.dep_arg[t[i]]) /\ conf.work_stealing
             /\ queue' = [queue EXCEPT ![Dependent(i)] = queue[t[i]]]
    <3>1. t[i] \in Region /\ k[i] \in 1..Len(dag.dep_arg[t[i]]) /\ pc[i] \in Busy /\ k[i] \in Nat
      BY <1>0, <2>3, Working, Notifying DEF Busy
    <3>2. ~Counted(i, k[i])
      BY <2>3, <3>1 DEF Counted
    <3>3. n_ready[Dependent(i)] # 0
      BY <3>1, <3>2, Ahead, NotCounted DEF Dependent
    <3>4. Available(enq[a])
      BY <2>1, Placed
    <3>5. QED
      BY <1>0, <2>1, <2>3, <3>3, <3>4 DEF Available, Types, TypeOK
  <2>4. CASE \E q \in Queue, x \in Region :
               Has("queue", q, x) /\ queue' = [queue EXCEPT ![x] = MyQueue(i)]
    <3>1. PICK q \in Queue, x \in Region :
            Has("queue", q, x) /\ queue' = [queue EXCEPT ![x] = MyQueue(i)]
      BY <2>4
    <3>2. q \in Thread /\ "queue" \in Kind
      BY <1>0, Teams DEF Kind
    <3>3. ~Has("queue", q, enq[a])
      BY <2>1, <3>2, Only
    <3>4. QED
      BY <1>0, <2>1, <3>1, <3>3 DEF Types, TypeOK
  <2>5. QED
    BY <2>2, <2>3, <2>4, QueueNumbers
<1>3. Dependent(a)' = Dependent(a)
  BY <1>0 DEF Dependent
<1>4. QED
  BY <1>0, <1>1, <1>2, <1>3 DEF SameQueue

LEMMA SameQueueOwn ==
  ASSUME IInv, Steady, NEW i \in Thread, Step(i), StepNow(i)
  PROVE  SameQueue(i)'
<1>0. Types /\ Locals /\ Local(i) /\ dag' = dag /\ SameQueue(i)
  BY Alone DEF IInv, Locals, Steady
<1> USE DEF Types, TypeOK, At, Goto, shared, locks, ghosts, locals
<1>1. CASE DepRead(i)
  BY <1>0, <1>1 DEF DepRead, SameQueue, Dependent
<1>2. CASE Notify(i)
  BY <1>0, <1>2 DEF Notify, SameQueue, Dependent
<1>3. CASE NotifyWrite(i)
  BY <1>0, <1>3 DEF NotifyWrite, SameQueue, Dependent
<1>4. CASE BindSwap(i)
  BY <1>0, <1>4 DEF BindSwap, SameQueue
<1>5. CASE Ready(i)
  BY <1>0, <1>5 DEF Ready, SameQueue
<1>6. CASE Loop(i) \/ LoopBound(i) \/ DequeueTaskNow(i) \/ DequeueNone(i) \/ Exec(i)
  <2>1. pc'[i] \notin {"notify", "notify_write", "ready", "enqueue"}
    BY <1>0, <1>6, SMTT(60) DEF Loop, LoopBound, DequeueTaskNow, DequeueNone, Exec, Run
  <2>2. QED
    BY <2>1 DEF SameQueue
<1>7. CASE Bind(i) \/ BindDequeueNow(i) \/ DepQueue(i) \/ DepDone(i) \/ BindFirst(i) \/ EnqueueTaskNow(i)
  <2>1. pc'[i] \notin {"notify", "notify_write", "ready", "enqueue"}
    BY <1>0, <1>7 DEF Bind, BindDequeueNow, DepQueue, DepDone, BindFirst, EnqueueTaskNow
  <2>2. QED
    BY <2>1 DEF SameQueue
<1>8. CASE FreeWrites(i) \/ FreeReads(i) \/ FreeClear(i) \/ FreeTask(i)
  <2>1. pc'[i] \notin {"notify", "notify_write", "ready", "enqueue"}
    BY <1>0, <1>8 DEF FreeWrites, FreeReads, FreeClear, FreeTask
  <2>2. QED
    BY <2>1 DEF SameQueue
<1>9. CASE Steal(i) \/ StealDequeueNow(i) \/ Commit(i)
  <2>1. pc'[i] \notin {"notify", "notify_write", "ready", "enqueue"}
    BY <1>0, <1>9 DEF Steal, StealDequeueNow, Commit
  <2>2. QED
    BY <2>1 DEF SameQueue
<1>10. QED
  BY <1>1, <1>2, <1>3, <1>4, <1>5, <1>6, <1>7, <1>8, <1>9 DEF StepNow

LEMMA LockedStep ==
  ASSUME IInv, Steady, NEW i \in Thread, Step(i), StepNow(i), NEW q \in Queue,
         wait_queue'[q] # wait_queue[q]
  PROVE  run_lock[q] = i
<1>0. HoldsRun(i, q) => run_lock[q] = i
  BY DEF IInv, Locks
<1>1. Types /\ SameQueue(i) /\ wait_queue \in [Queue -> Seq(Task)]
  BY DEF IInv, Steady, Types, TypeOK
<1>2. CASE pc[i] = "dequeue" /\ DequeueTaskNow(i)
  <2>1. MyQueue(i) = q
    BY <1>1, <1>2 DEF DequeueTaskNow, DequeueNow
  <2>2. QED
    BY <1>0, <1>1, <1>2, <2>1 DEF HoldsRun
<1>3. CASE pc[i] \in {"bind_dequeue", "steal_dequeue"} /\ (BindDequeueNow(i) \/ StealDequeueNow(i))
  <2>1. lock[i] = q
    BY <1>1, <1>3 DEF BindDequeueNow, StealDequeueNow, DequeueNow
  <2>2. QED
    BY <1>0, <1>1, <1>3, <2>1 DEF HoldsRun
<1>4. CASE pc[i] = "enqueue" /\ EnqueueTaskNow(i)
  <2>1. queue[enq[i]] = q
    BY <1>1, <1>4 DEF EnqueueTaskNow, EnqueueNow
  <2>2. lock[i] = q
    BY <1>1, <1>4, <2>1 DEF SameQueue
  <2>3. QED
    BY <1>0, <1>1, <1>4, <2>2 DEF HoldsRun
<1>5. QED
  BY <1>2, <1>3, <1>4, QueueStep

(* A thread that reads a waiting queue has its lock, so that no other      *)
(* thread changes the list before it is written.                           *)
LEMMA FreshOthers ==
  ASSUME IInv, Steady, NEW i \in Thread, Step(i), StepNow(i), NEW a \in Thread, a # i
  PROVE  Fresh(a)'
<1>1. /\ pc'[a] = pc[a] /\ lock'[a] = lock[a] /\ view'[a] = view[a] /\ MyQueue(a)' = MyQueue(a)
      /\ Types /\ Fresh(a) /\ MyQueue(a) \in Queue /\ lock[a] \in Queue
  BY Alone, Teams, ZenonT(60) DEF IInv, Steady, MyQueue, Types, TypeOK
<1>2. ASSUME NEW q \in Queue, HoldsRun(a, q) PROVE wait_queue'[q] = wait_queue[q]
  <2>1. run_lock[q] # i
    BY <1>2 DEF IInv, Locks
  <2>2. QED
    BY <2>1, LockedStep
<1>3. CASE pc[a] = "dequeue"
  <2>1. wait_queue'[MyQueue(a)] = wait_queue[MyQueue(a)]
    BY <1>1, <1>2, <1>3 DEF HoldsRun
  <2>2. QED
    BY <1>1, <1>3, <2>1 DEF Fresh, ViewOf
<1>4. CASE pc[a] \in {"bind_dequeue", "steal_dequeue", "enqueue"}
  <2>1. wait_queue'[lock[a]] = wait_queue[lock[a]]
    BY <1>1, <1>2, <1>4 DEF HoldsRun
  <2>2. QED
    BY <1>1, <1>4, <2>1 DEF Fresh, ViewOf
<1>5. QED
  BY <1>1, <1>3, <1>4 DEF Fresh

LEMMA FreshOwn ==
  ASSUME IInv, Steady, NEW i \in Thread, Step(i), StepNow(i)
  PROVE  Fresh(i)'
<1>0. Types /\ SameQueue(i) /\ conf' = conf /\ MyQueue(i)' = MyQueue(i)
  BY Alone DEF IInv, Steady, MyQueue
<1>1. ASSUME NEW q, See(i, q), wait_queue' = wait_queue
      PROVE  view'[i] = [queue |-> q, list |-> wait_queue'[q]]
  BY <1>0, <1>1 DEF See, ViewOf, Types, TypeOK
<1> USE DEF Types, TypeOK, At, Goto, shared, locks, ghosts, locals
<1>2. CASE Loop(i)
  <2>1. pc'[i] = "dequeue" /\ See(i, MyQueue(i)) /\ wait_queue' = wait_queue
    BY <1>0, <1>2 DEF Loop
  <2>2. QED
    BY <1>0, <1>1, <2>1 DEF Fresh, ViewOf
<1>3. CASE Bind(i) \/ BindSwap(i) \/ Steal(i)
  <2>1. PICK q : See(i, q) /\ lock'[i] = q
    BY <1>0, <1>3 DEF Bind, BindSwap, Steal
  <2>2. pc'[i] # "dequeue" /\ wait_queue' = wait_queue
    BY <1>0, <1>3 DEF Bind, BindSwap, Steal
  <2>3. QED
    BY <1>1, <2>1, <2>2 DEF Fresh, ViewOf
<1>4. CASE Ready(i)
  <2>1. pc'[i] = "enqueue" /\ See(i, queue[Dependent(i)]) /\ wait_queue' = wait_queue
    BY <1>0, <1>4 DEF Ready
  <2>2. lock'[i] = queue[Dependent(i)]
    BY <1>0, <1>4 DEF Ready, SameQueue
  <2>3. QED
    BY <1>1, <2>1, <2>2 DEF Fresh, ViewOf
<1>5. CASE LoopBound(i) \/ DequeueTaskNow(i) \/ DequeueNone(i) \/ Exec(i) \/ BindDequeueNow(i)
  <2>1. pc'[i] \notin {"dequeue", "bind_dequeue", "steal_dequeue", "enqueue"}
    BY <1>0, <1>5, SMTT(60) DEF LoopBound, DequeueTaskNow, DequeueNone, Exec, BindDequeueNow, Run
  <2>2. QED
    BY <2>1 DEF Fresh
<1>6. CASE \/ DepQueue(i) \/ DepRead(i) \/ DepDone(i) \/ Notify(i) \/ NotifyWrite(i) \/ BindFirst(i)
           \/ EnqueueTaskNow(i)
  <2>1. pc'[i] \notin {"dequeue", "bind_dequeue", "steal_dequeue", "enqueue"}
    BY <1>0, <1>6 DEF DepQueue, DepRead, DepDone, Notify, NotifyWrite, BindFirst, EnqueueTaskNow
  <2>2. QED
    BY <2>1 DEF Fresh
<1>7. CASE \/ FreeWrites(i) \/ FreeReads(i) \/ FreeClear(i) \/ FreeTask(i) \/ StealDequeueNow(i)
           \/ Commit(i)
  <2>1. pc'[i] \notin {"dequeue", "bind_dequeue", "steal_dequeue", "enqueue"}
    BY <1>0, <1>7 DEF FreeWrites, FreeReads, FreeClear, FreeTask, StealDequeueNow, Commit
  <2>2. QED
    BY <2>1 DEF Fresh
<1>8. QED
  BY <1>2, <1>3, <1>4, <1>5, <1>6, <1>7 DEF StepNow

(* Initialisation changes the waiting queues before the threads exist.     *)
LEMMA SteadyNext == IInv /\ Steady /\ [Next]_vars => Steady'
<1> SUFFICES ASSUME IInv, Steady, [Next]_vars PROVE Steady'
  OBVIOUS
<1>1. CASE \E i \in Thread : Step(i)
  <2>1. PICK i \in Thread : Step(i) /\ StepNow(i)
    BY <1>1, StepIsNow
  <2>2. dag' = dag /\ conf' = conf
    BY <2>1, Alone DEF IInv
  <2>3. \A a \in Thread : SameQueue(a)' /\ Fresh(a)'
    BY <2>1, SameQueueOwn, SameQueueOthers, FreshOwn, FreshOthers
  <2>4. QED
    BY <2>2, <2>3 DEF Steady
<1>2. CASE FLASH_Queue_init_tasks
  <2>1. UNCHANGED <<dag, conf, pc>> /\ n_init < dag.n_tasks
    BY <1>2 DEF FLASH_Queue_init_tasks, locals
  <2>2. \A i \in Thread : pc[i] = "loop"
    BY <2>1 DEF IInv, Owners
  <2>3. QED
    BY <2>1, <2>2 DEF Steady, SameQueue, Fresh
<1>3. CASE UNCHANGED vars
  <2>1. UNCHANGED <<dag, conf, queue, wait_queue, pc, t, k, lq, enq, lock, view>>
    BY <1>3 DEF vars, shared, locals
  <2>2. QED
    BY <2>1 DEF Steady, SameQueue, Fresh, Dependent, ViewOf, MyQueue
<1>4. QED
  BY <1>1, <1>2, <1>3 DEF Next

LEMMA SteadyInit ==
  ASSUME SinglePredecessors
  PROVE  Init => Steady
<1> SUFFICES ASSUME NEW e \in Execution, InitWith(e.graph, e.setting) PROVE Steady
  BY DEF Init
<1>1. dag = e.graph /\ conf = Configure(e.setting) /\ pc = [i \in Thread |-> "loop"]
      /\ e.setting \in Setting
  BY DEF InitWith, Setting
<1>2. conf.work_stealing => e.setting.work_stealing
  <2>1. conf.work_stealing \in BOOLEAN /\ e.setting.work_stealing \in BOOLEAN
    BY <1>1, Configured, SettingAssumption DEF ConfType, SettingType
  <2>2. QED
    BY <1>1, <2>1, Configured
<1>3. QED
  BY <1>1, <1>2 DEF SinglePredecessors, Steady, SameQueue, Fresh

LEMMA InvariantNext == IInv /\ Steady /\ [Next]_vars => IInv' /\ Steady'
BY InvariantSetup, InvariantStep, InvariantSame, SteadyNext, StepIsNow DEF Next

(* A waiting queue changes only by a thread that holds its lock, provided  *)
(* that work stealing is used on graphs in which no task has two           *)
(* predecessors; two of them write the queue number of a task without a    *)
(* lock.                                                                   *)
THEOREM QueuesLocked ==
  ASSUME SinglePredecessors
  PROVE  Spec => WaitQueueLocked
<1>1. IInv /\ Steady /\ [Next]_vars =>
        [\A i \in Thread, q \in Queue :
           pc'[i] # pc[i] /\ wait_queue'[q] # wait_queue[q] => run_lock[q] = i]_vars
  <2> SUFFICES ASSUME IInv, Steady, [Next]_vars, NEW i \in Thread, NEW q \in Queue,
                      pc'[i] # pc[i], wait_queue'[q] # wait_queue[q]
               PROVE  run_lock[q] = i
    OBVIOUS
  <2>1. CASE \E a \in Thread : Step(a)
    <3>1. PICK a \in Thread : Step(a)
      BY <2>1
    <3>2. a = i
      BY <3>1, Alone DEF IInv
    <3>3. QED
      BY <3>1, <3>2, StepIsNow, LockedStep
  <2>2. CASE FLASH_Queue_init_tasks \/ UNCHANGED vars
    BY <2>2 DEF FLASH_Queue_init_tasks, vars, locals
  <2>3. QED
    BY <2>1, <2>2 DEF Next
<1>2. Init => IInv /\ Steady
  BY InvariantInit, SteadyInit
<1>3. QED
  BY InvariantNext, <1>1, <1>2, PTL DEF Spec, WaitQueueLocked

-----------------------------------------------------------------------------
(* A ready task is in one place.                                           *)

LEMMA PlaceOf ==
  ASSUME IInv, NEW x \in Region, NEW p
  PROVE  p \in Places(x) <=>
           \/ \E q \in Queue : \E m \in 1..Len(wait_queue[q]) : p = <<q, m>> /\ wait_queue[q][m] = x
           \/ \E i \in Thread : p = <<i, "bound">> /\ Has("bound", i, x)
           \/ \E i \in Thread : p = <<i, "ready">> /\ Has("ready", i, x)
           \/ \E i \in Thread : p = <<i, "enqueue">> /\ Has("enqueue", i, x)
<1>1. p \in QueuePlaces(x) <=>
        \E q \in Queue : \E m \in 1..Len(wait_queue[q]) : p = <<q, m>> /\ wait_queue[q][m] = x
  BY DEF QueuePlaces
<1>2. p \in ThreadPlaces(x) <=>
        \/ \E i \in Thread : p = <<i, "bound">> /\ Has("bound", i, x)
        \/ \E i \in Thread : p = <<i, "ready">> /\ Has("ready", i, x)
        \/ \E i \in Thread : p = <<i, "enqueue">> /\ Has("enqueue", i, x)
  BY DEF ThreadPlaces, Has
<1>3. QED
  BY <1>1, <1>2 DEF Places

LEMMA PlaceHas ==
  ASSUME IInv, NEW x \in Region, NEW p \in Places(x)
  PROVE  \E c \in Kind : \E a \in Thread : Has(c, a, x)
<1>1. Queue \subseteq Thread
  BY Teams DEF IInv
<1>2. CASE \E q \in Queue : \E m \in 1..Len(wait_queue[q]) : p = <<q, m>> /\ wait_queue[q][m] = x
  <2>1. PICK q \in Queue : x \in Waiting(q)
    BY <1>2 DEF Waiting, Members
  <2>2. Has("queue", q, x)
    BY <2>1 DEF Has
  <2>3. QED
    BY <1>1, <2>2 DEF Kind
<1>3. CASE \E i \in Thread : Has("bound", i, x) \/ Has("ready", i, x) \/ Has("enqueue", i, x)
  BY <1>3 DEF Kind
<1>4. QED
  BY <1>2, <1>3, PlaceOf

LEMMA OneOfPlaces ==
  ASSUME IInv, NEW x \in Region, Available(x)
  PROVE  \E p : Places(x) = {p}
<1>1. PICK d \in Kind, b \in Thread : Has(d, b, x)
  BY DEF IInv, InOnePlace, OnePlace
<1>2. \A c \in Kind : \A a \in Thread : Has(c, a, x) <=> c = d /\ a = b
  BY <1>1, Only
<1>3. \A q \in Queue : q \in Thread /\ (x \in Waiting(q) <=> d = "queue" /\ b = q)
  <2> SUFFICES ASSUME NEW q \in Queue PROVE q \in Thread /\ (x \in Waiting(q) <=> d = "queue" /\ b = q)
    OBVIOUS
  <2>1. q \in Thread
    BY Teams DEF IInv
  <2>2. Has("queue", q, x) <=> x \in Waiting(q)
    BY DEF Has
  <2>3. QED
    BY <1>2, <2>1, <2>2 DEF Kind
<1>4. CASE d = "queue"
  <2>1. b \in Queue /\ x \in Waiting(b)
    BY <1>1, <1>4 DEF Has
  <2>2. PICK m \in 1..Len(wait_queue[b]) : wait_queue[b][m] = x
    BY <2>1 DEF Waiting, Members
  <2>3. \A n \in 1..Len(wait_queue[b]) : wait_queue[b][n] = x => n = m
    BY <2>1, <2>2 DEF IInv, InQueues, NoRepeat
  <2>4. <<b, m>> \in Places(x)
    BY <2>1, <2>2, PlaceOf
  <2>5. ASSUME NEW p \in Places(x) PROVE p = <<b, m>>
    <3>1. \A i \in Thread : ~Has("bound", i, x) /\ ~Has("ready", i, x) /\ ~Has("enqueue", i, x)
      BY <1>2, <1>4 DEF Kind
    <3>2. PICK q \in Queue : \E n \in 1..Len(wait_queue[q]) : p = <<q, n>> /\ wait_queue[q][n] = x
      BY <3>1, PlaceOf
    <3>3. x \in Waiting(q)
      BY <3>2 DEF Waiting, Members
    <3>4. q = b
      BY <1>3, <3>3
    <3>5. QED
      BY <2>3, <3>2, <3>4
  <2>6. Places(x) = {<<b, m>>}
    BY <2>4, <2>5
  <2>7. QED
    BY <2>6
<1>5. CASE d # "queue"
  <2>1. d \in {"bound", "ready", "enqueue"}
    BY <1>5 DEF Kind
  <2>2. <<b, d>> \in Places(x)
    BY <1>1, <2>1, PlaceOf
  <2>3. ASSUME NEW p \in Places(x) PROVE p = <<b, d>>
    <3>1. ~\E q \in Queue : \E n \in 1..Len(wait_queue[q]) : p = <<q, n>> /\ wait_queue[q][n] = x
      BY <1>3, <1>5 DEF Waiting, Members
    <3>2. PICK i \in Thread, c \in {"bound", "ready", "enqueue"} : p = <<i, c>> /\ Has(c, i, x)
      BY <3>1, PlaceOf
    <3>3. c = d /\ i = b
      BY <1>2, <3>2 DEF Kind
    <3>4. QED
      BY <3>2, <3>3
  <2>4. Places(x) = {<<b, d>>}
    BY <2>2, <2>3
  <2>5. QED
    BY <2>4
<1>6. QED
  BY <1>4, <1>5

LEMMA NoPlace ==
  ASSUME IInv, NEW x \in Region, ~Available(x)
  PROVE  Places(x) = {}
BY Nowhere, PlaceHas

(* Whatever the interleaving, a task that is ready and has not started is  *)
(* in exactly one waiting queue or variable of a thread, once: dequeuing,  *)
(* binding, swapping, stealing and enqueuing lose and duplicate nothing.   *)
(* Provided, as for QueuesLocked, that work stealing is used on graphs in  *)
(* which no task has two predecessors.                                     *)
THEOREM ReadyOnce ==
  ASSUME SinglePredecessors
  PROVE  Spec => []ReadyInOnePlace
<1>1. IInv => ReadyInOnePlace
  <2> SUFFICES ASSUME IInv, n_init = dag.n_tasks, NEW x \in Region
               PROVE  Cardinality(Places(x)) = IF state[x] = "waiting" /\ n_ready[x] = 0 THEN 1 ELSE 0
    BY DEF ReadyInOnePlace
  <2>1. Available(x) <=> state[x] = "waiting" /\ n_ready[x] = 0
    BY Dag DEF Available, Region, IInv
  <2>2. CASE Available(x)
    BY <2>1, <2>2, OneOfPlaces, FS_Singleton
  <2>3. CASE ~Available(x)
    BY <2>1, <2>3, NoPlace, FS_EmptySet
  <2>4. QED
    BY <2>2, <2>3
<1>2. Init => IInv /\ Steady
  BY InvariantInit, SteadyInit
<1>3. QED
  BY InvariantNext, <1>1, <1>2, PTL DEF Spec

-----------------------------------------------------------------------------
(* What has become of a task that is done.                                 *)

LEMMA BeyondNow ==
  ASSUME IInv, NEW i \in Thread, t[i] \in Region, NEW C \in SUBSET Label
  PROVE  Beyond(t[i], C) <=> pc[i] # "exec" /\ pc[i] \in C
<1>1. /\ t[i] # NULL /\ \A a \in Thread : t[a] = t[i] => a = i
      /\ state[t[i]] = IF pc[i] = "exec" THEN "running" ELSE "done"
  BY Dag DEF IInv, Owners
<1>2. QED
  BY <1>1 DEF Beyond

LEMMA BeyondStep ==
  ASSUME IInv, NEW i \in Thread, Step(i), StepNow(i), NEW x \in Region, NEW C \in SUBSET Label,
         "bind" \notin C, "dep" \notin C
  PROVE  Beyond(x, C)' <=> IF x = t[i]
                           THEN pc[i] # "exec" /\ (pc[i] = "commit" \/ pc'[i] \in C)
                           ELSE Beyond(x, C)
<1>0. /\ Types /\ Local(i) /\ x \in Task /\ x # NULL
      /\ \A a \in Thread : a # i => pc'[a] = pc[a] /\ t'[a] = t[a]
      /\ \A a \in Thread : t[i] = x /\ t[a] = x => a = i
  BY Alone, Dag DEF IInv, Locals, Owners
<1>1. CASE \E y \in Region : Starts(i, y)
  <2>1. PICK y \in Region : Starts(i, y)
    BY <1>1
  <2>2. CASE x = y
    <3>1. state[x] = "waiting" /\ state'[x] = "running" /\ t[i] # x
      BY <1>0, <2>1, <2>2 DEF Starts, Available, Types, TypeOK
    <3>2. QED
      BY <3>1 DEF Beyond
  <2>3. CASE x # y
    <3>1. state'[x] = state[x] /\ t[i] # x /\ t'[i] # x
      BY <1>0, <2>1, <2>3 DEF Starts, Types, TypeOK
    <3>2. QED
      BY <1>0, <3>1 DEF Beyond
  <2>4. QED
    BY <2>2, <2>3
<1>2. CASE Finishes(i)
  <2>1. CASE x = t[i]
    <3>1. pc[i] = "exec" /\ t'[i] = x /\ pc'[i] \notin C
      BY <1>2, <2>1 DEF Finishes
    <3>2. QED
      BY <2>1, <3>1 DEF Beyond
  <2>2. CASE x # t[i]
    <3>1. state'[x] = state[x] /\ t'[i] # x
      BY <1>0, <1>2, <2>2 DEF Finishes, Types, TypeOK
    <3>2. QED
      BY <1>0, <2>2, <3>1 DEF Beyond
  <2>3. QED
    BY <2>1, <2>2
<1>3. CASE Leaves(i)
  <2>1. state' = state /\ t'[i] # x /\ pc[i] = "commit"
    BY <1>0, <1>3 DEF Leaves
  <2>2. x = t[i] => state[x] = "done"
    BY <1>0, <2>1 DEF IInv, Owners
  <2>3. QED
    BY <1>0, <2>1, <2>2 DEF Beyond
<1>4. CASE Continues(i)
  <2>1. state' = state /\ t'[i] = t[i] /\ pc[i] \notin {"exec", "commit"}
    BY <1>4 DEF Continues
  <2>2. x = t[i] => state[x] = "done"
    BY <1>0, <2>1 DEF IInv, Owners
  <2>3. QED
    BY <1>0, <2>1, <2>2 DEF Beyond
<1>5. QED
  BY <1>1, <1>2, <1>3, <1>4, Moves

(* Where the thread of a task passes the points at which it is freed.      *)
LEMMA PassesPoints ==
  ASSUME IInv, NEW i \in Thread, Step(i), StepNow(i)
  PROVE  /\ Commit(i) <=> pc[i] = "commit"
         /\ ~Commit(i) => n_committed' = n_committed /\ pc'[i] # "exit"
         /\ ~FreeTask(i) => freed' = freed
         /\ ~FreeWrites(i) => write_task' = write_task
         /\ t[i] # NULL => /\ FreeTask(i) <=> pc[i] # "commit" /\ pc'[i] = "commit"
                           /\ FreeWrites(i) <=>
                                /\ pc[i] \notin {"free_reads", "free_clear", "commit"}
                                /\ pc'[i] \in {"free_reads", "free_clear", "commit"}
                           /\ pc[i] \in {"free_reads", "free_clear"} =>
                                pc'[i] \in {"free_reads", "free_clear", "commit"}
<1>0. Types /\ Local(i)
  BY DEF IInv, Locals
<1> USE DEF Types, TypeOK, At, Goto, shared, locks, ghosts, locals
<1>1. CASE Loop(i) \/ DequeueNone(i) \/ Steal(i) \/ StealDequeueNow(i)
  <2>1. /\ pc[i] \in {"loop", "dequeue", "steal", "steal_dequeue"} /\ t[i] = NULL
        /\ n_committed' = n_committed /\ freed' = freed /\ write_task' = write_task
        /\ pc'[i] # "exit"
    BY <1>0, <1>1 DEF Loop, DequeueNone, Steal, StealDequeueNow, Local
  <2>2. QED
    BY <2>1 DEF Commit, FreeTask, FreeWrites
<1>2. CASE LoopBound(i) \/ DequeueTaskNow(i)
  <2>1. /\ pc[i] \in {"loop", "dequeue"} /\ t[i] = NULL /\ pc'[i] = "exec"
        /\ n_committed' = n_committed /\ freed' = freed /\ write_task' = write_task
    BY <1>0, <1>2 DEF LoopBound, DequeueTaskNow, Run, Local
  <2>2. QED
    BY <2>1 DEF Commit, FreeTask, FreeWrites
<1>3. CASE Exec(i) \/ Bind(i) \/ BindDequeueNow(i) \/ DepQueue(i) \/ DepRead(i) \/ DepDone(i)
  <2>1. /\ pc[i] \in {"exec", "bind", "bind_dequeue", "dep", "dep_read"}
        /\ pc'[i] \in {"bind", "bind_dequeue", "dep", "dep_read", "notify", "free"}
        /\ n_committed' = n_committed /\ freed' = freed /\ write_task' = write_task
    BY <1>0, <1>3 DEF Exec, Bind, BindDequeueNow, DepQueue, DepRead, DepDone
  <2>2. QED
    BY <2>1 DEF Commit, FreeTask, FreeWrites
<1>4. CASE Notify(i) \/ NotifyWrite(i) \/ BindFirst(i) \/ BindSwap(i) \/ Ready(i) \/ EnqueueTaskNow(i)
  <2>1. /\ pc[i] \in {"notify", "notify_write", "ready", "enqueue"}
        /\ pc'[i] \in {"notify_write", "dep", "ready", "enqueue"}
        /\ n_committed' = n_committed /\ freed' = freed /\ write_task' = write_task
    BY <1>0, <1>4 DEF Notify, NotifyWrite, BindFirst, BindSwap, Ready, EnqueueTaskNow
  <2>2. QED
    BY <2>1 DEF Commit, FreeTask, FreeWrites
<1>5. CASE FreeWrites(i)
  <2>1. /\ pc[i] = "free" /\ pc'[i] = "free_reads"
        /\ n_committed' = n_committed /\ freed' = freed
    BY <1>0, <1>5 DEF FreeWrites
  <2>2. QED
    BY <1>5, <2>1 DEF Commit, FreeTask
<1>6. CASE FreeReads(i) \/ FreeClear(i)
  <2>1. /\ pc[i] \in {"free_reads", "free_clear"} /\ pc'[i] \in {"free_reads", "free_clear"}
        /\ n_committed' = n_committed /\ freed' = freed /\ write_task' = write_task
    BY <1>0, <1>6 DEF FreeReads, FreeClear
  <2>2. ~FreeTask(i)
    BY <1>0, <2>1 DEF FreeTask
  <2>3. QED
    BY <2>1, <2>2 DEF Commit, FreeWrites
<1>7. CASE FreeTask(i)
  <2>1. /\ pc[i] = "free_reads" /\ pc'[i] = "commit"
        /\ n_committed' = n_committed /\ write_task' = write_task
    BY <1>0, <1>7 DEF FreeTask
  <2>2. QED
    BY <1>7, <2>1 DEF Commit, FreeWrites
<1>8. CASE Commit(i)
  <2>1. pc[i] = "commit" /\ freed' = freed /\ write_task' = write_task
    BY <1>0, <1>8 DEF Commit
  <2>2. QED
    BY <1>8, <2>1 DEF FreeTask, FreeWrites
<1>9. QED
  BY <1>1, <1>2, <1>3, <1>4, <1>5, <1>6, <1>7, <1>8 DEF StepNow

LEMMA CommitsStep ==
  ASSUME IInv, Commits, NEW i \in Thread, Step(i), StepNow(i)
  PROVE  Commits'
<1>0. /\ Types /\ Local(i) /\ dag' = dag /\ Region' = Region /\ n_committed \in Nat
      /\ \A a \in Thread : a # i => pc'[a] = pc[a]
      /\ dag.n_tasks \in Nat /\ IsFiniteSet(Committed)
  <2>1. IsFiniteSet(Committed)
    BY RegionFinite, FS_Subset DEF IInv, Committed
  <2>2. QED
    BY <2>1, Alone, Dag DEF IInv, Locals, Types, TypeOK, Region
<1>1. freed' = {x \in Region : Beyond(x, {"commit"})'}
  <2>1. \A x \in Region : Beyond(x, {"commit"})' <=>
          IF x = t[i] THEN pc[i] # "exec" /\ (pc[i] = "commit" \/ pc'[i] = "commit")
          ELSE Beyond(x, {"commit"})
    BY BeyondStep DEF Label
  <2>2. t[i] \in Region => (Beyond(t[i], {"commit"}) <=> pc[i] = "commit")
    BY BeyondNow DEF Label
  <2>3. CASE FreeTask(i)
    <3>1. t[i] # NULL
      BY <1>0, <2>3 DEF FreeTask, At, Local, Busy
    <3>2. t[i] \in Region /\ pc'[i] = "commit" /\ pc[i] # "exec" /\ freed' = freed \cup {t[i]}
      BY <1>0, <2>3, <3>1, PassesPoints DEF FreeTask, At, Local
    <3>3. QED
      BY <2>1, <3>2 DEF Commits
  <2>4. CASE ~FreeTask(i)
    <3>1. freed' = freed
      BY <2>4, PassesPoints
    <3>2. t[i] \in Region => (pc[i] # "commit" => pc'[i] # "commit")
      BY <1>0, <2>4, PassesPoints, Dag
    <3>3. QED
      BY <2>1, <2>2, <3>1, <3>2 DEF Commits
  <2>5. QED
    BY <2>3, <2>4
<1>2. \A x \in Region : Beyond(x, {})' <=>
        IF x = t[i] THEN pc[i] = "commit" ELSE Beyond(x, {})
  BY BeyondStep
<1>3. t[i] \in Region => ~Beyond(t[i], {})
  BY BeyondNow
<1>4. n_committed' = Cardinality(Committed') /\ n_committed' >= n_committed
  <2>1. CASE Commit(i) /\ t[i] # NULL
    <3>1. t[i] \in Region /\ pc[i] = "commit" /\ n_committed' = n_committed + 1
      BY <1>0, <2>1 DEF Commit, At, Local
    <3>2. Committed' = Committed \cup {t[i]} /\ t[i] \notin Committed
      BY <1>0, <1>2, <1>3, <3>1 DEF Committed
    <3>3. Cardinality(Committed \cup {t[i]}) = Cardinality(Committed) + 1
      BY <1>0, <3>2, FS_AddElement
    <3>4. QED
      BY <1>0, <3>1, <3>2, <3>3 DEF Commits
  <2>2. CASE ~Commit(i) \/ t[i] = NULL
    <3>1. n_committed' = n_committed
      BY <2>2, PassesPoints DEF Commit
    <3>2. \A x \in Region : Beyond(x, {})' <=> Beyond(x, {})
      BY <1>0, <1>2, <1>3, <2>2, PassesPoints, Dag
    <3>3. Committed' = Committed
      BY <1>0, <3>2 DEF Committed
    <3>4. QED
      BY <1>0, <3>1, <3>3 DEF Commits
  <2>3. QED
    BY <2>1, <2>2
<1>5. ASSUME NEW a \in Thread, pc'[a] = "exit" PROVE n_committed' >= dag'.n_tasks
  <2>1. n_committed' \in Nat
    BY TypesStep DEF IInv, Types, TypeOK
  <2>2. CASE a # i
    BY <1>0, <1>4, <1>5, <2>1, <2>2 DEF Commits
  <2>3. CASE a = i
    <3>1. Commit(i)
      BY <1>5, <2>3, PassesPoints
    <3>2. pc'[i] = IF AllCommitted(n_committed') THEN "exit" ELSE "loop"
      BY <1>0, <3>1 DEF Commit, Goto, Types, TypeOK
    <3>3. QED
      BY <1>0, <1>5, <2>3, <3>2 DEF AllCommitted
  <2>4. QED
    BY <2>2, <2>3
<1>6. QED
  BY <1>0, <1>1, <1>4, <1>5 DEF Commits

-----------------------------------------------------------------------------
(* What the blocks remember.                                               *)

(* Thread i has emptied the list of readers of the m-th input block.       *)
Emptied(i, m) ==
  pc[i] = "commit" \/ (pc[i] \in {"free_reads", "free_clear"} /\ m < k[i])

LEMMA EmptiedStep ==
  ASSUME IInv, NEW i \in Thread, Step(i), StepNow(i), pc[i] \notin {"exec", "commit"}, t[i] \in Region,
         NEW m \in 1..Len(dag.in[t[i]])
  PROVE  Emptied(i, m)' <=> Emptied(i, m) \/ (FreeClear(i) /\ m = k[i])
<1>0. /\ Types /\ Local(i) /\ t[i] # NULL /\ k[i] \in Nat /\ m \in Nat /\ m >= 1
      /\ Len(dag.in[t[i]]) \in Nat /\ m <= Len(dag.in[t[i]])
  <2>1. Types /\ Local(i) /\ t[i] # NULL /\ k[i] \in Nat /\ dag.in[t[i]] \in Seq(Block)
    BY Dag DEF IInv, Locals, Types, TypeOK
  <2>2. QED
    BY <2>1
<1> USE DEF Types, TypeOK, At, Goto, shared, locks, ghosts, locals
<1>1. CASE FreeWrites(i)
  <2>1. pc[i] = "free" /\ pc'[i] = "free_reads" /\ k'[i] = 1
    BY <1>0, <1>1 DEF FreeWrites
  <2>2. ~(m < 1)
    BY <1>0
  <2>3. QED
    BY <2>1, <2>2 DEF Emptied, FreeClear
<1>2. CASE FreeReads(i)
  <2>1. pc[i] = "free_reads" /\ pc'[i] = "free_clear" /\ k'[i] = k[i]
    BY <1>0, <1>2 DEF FreeReads
  <2>2. QED
    BY <2>1 DEF Emptied, FreeClear
<1>3. CASE FreeClear(i)
  <2>1. pc[i] = "free_clear" /\ pc'[i] = "free_reads" /\ k'[i] = k[i] + 1
    BY <1>0, <1>3 DEF FreeClear
  <2>2. m < k[i] + 1 <=> m < k[i] \/ m = k[i]
    BY <1>0
  <2>3. QED
    BY <1>3, <2>1, <2>2 DEF Emptied
<1>4. CASE FreeTask(i)
  <2>1. pc[i] = "free_reads" /\ pc'[i] = "commit" /\ k[i] > Len(dag.in[t[i]])
    BY <1>0, <1>4 DEF FreeTask
  <2>2. m < k[i]
    BY <1>0, <2>1
  <2>3. QED
    BY <2>1, <2>2 DEF Emptied
<1>5. CASE ~FreeWrites(i) /\ ~FreeReads(i) /\ ~FreeClear(i) /\ ~FreeTask(i)
  <2>1. pc[i] \notin {"free_reads", "free_clear"}
    BY <1>5 DEF StepNow, Loop, LoopBound, DequeueTaskNow, DequeueNone, Exec, Bind, BindDequeueNow,
       DepQueue, DepRead, DepDone, Notify, NotifyWrite, BindFirst, BindSwap, Ready, EnqueueTaskNow, Steal,
       StealDequeueNow, Commit
  <2>2. pc'[i] \notin {"free_reads", "free_clear", "commit"}
    BY <1>0, <1>5, <2>1, PassesPoints
  <2>3. QED
    BY <1>5, <2>1, <2>2 DEF Emptied
<1>6. QED
  BY <1>1, <1>2, <1>3, <1>4, <1>5

LEMMA UnreadStep ==
  ASSUME IInv, NEW i \in Thread, Step(i), StepNow(i), NEW x \in Region, NEW m \in 1..Len(dag.in[x])
  PROVE  Unread(x, m)' <=> Unread(x, m) \/ (FreeClear(i) /\ x = t[i] /\ m = k[i])
<1>0. /\ Types /\ Local(i) /\ x \in Task /\ x # NULL
      /\ \A a \in Thread : a # i => pc'[a] = pc[a] /\ t'[a] = t[a] /\ k'[a] = k[a]
      /\ \A a \in Thread : t[i] = x /\ t[a] = x => a = i
  BY Alone, Dag DEF IInv, Locals, Owners
<1>1. Unread(x, m) <=> state[x] = "done" /\ \A a \in Thread : t[a] = x => Emptied(a, m)
  BY DEF Unread, Emptied
<1>2. Unread(x, m)' <=> state'[x] = "done" /\ \A a \in Thread : t'[a] = x => Emptied(a, m)'
  BY DEF Unread, Emptied
<1>3. \A a \in Thread : a # i => t'[a] = t[a] /\ (Emptied(a, m)' <=> Emptied(a, m))
  BY <1>0 DEF Emptied
<1>4. FreeClear(i) => pc[i] = "free_clear"
  BY DEF FreeClear, At
<1>5. CASE \E y \in Region : Starts(i, y)
  <2>1. PICK y \in Region : Starts(i, y)
    BY <1>5
  <2>2. CASE x = y
    <3>1. state[x] = "waiting" /\ state'[x] = "running" /\ t[i] # x
      BY <1>0, <2>1, <2>2 DEF Starts, Available, Types, TypeOK
    <3>2. QED
      BY <1>1, <1>2, <3>1
  <2>3. CASE x # y
    <3>1. state'[x] = state[x] /\ t[i] # x /\ t'[i] # x
      BY <1>0, <2>1, <2>3 DEF Starts, Types, TypeOK
    <3>2. QED
      BY <1>1, <1>2, <1>3, <3>1
  <2>4. QED
    BY <2>2, <2>3
<1>6. CASE Finishes(i)
  <2>1. CASE x = t[i]
    <3>1. state[x] = "running" /\ t'[i] = x /\ ~Emptied(i, m)' /\ pc[i] = "exec"
      BY <1>0, <1>6, <2>1 DEF Finishes, Emptied, IInv, Owners
    <3>2. QED
      BY <1>1, <1>2, <1>4, <3>1
  <2>2. CASE x # t[i]
    <3>1. state'[x] = state[x] /\ t'[i] # x
      BY <1>0, <1>6, <2>2 DEF Finishes, Types, TypeOK
    <3>2. QED
      BY <1>1, <1>2, <1>3, <2>2, <3>1
  <2>3. QED
    BY <2>1, <2>2
<1>7. CASE Leaves(i)
  <2>1. state' = state /\ t'[i] # x /\ pc[i] = "commit" /\ Emptied(i, m)
    BY <1>0, <1>7 DEF Leaves, Emptied
  <2>2. QED
    BY <1>1, <1>2, <1>3, <1>4, <2>1
<1>8. CASE Continues(i)
  <2>1. state' = state /\ t'[i] = t[i] /\ pc[i] \notin {"exec", "commit"}
    BY <1>8 DEF Continues
  <2>2. CASE x = t[i]
    <3>1. state[x] = "done"
      BY <1>0, <2>1, <2>2 DEF IInv, Owners
    <3>2. Emptied(i, m)' <=> Emptied(i, m) \/ (FreeClear(i) /\ m = k[i])
      BY <2>1, <2>2, EmptiedStep
    <3>3. QED
      BY <1>0, <1>1, <1>2, <1>3, <2>1, <2>2, <3>1, <3>2
  <2>3. CASE x # t[i]
    BY <1>1, <1>2, <1>3, <2>1, <2>3
  <2>4. QED
    BY <2>2, <2>3
<1>9. QED
  BY <1>5, <1>6, <1>7, <1>8, Moves

(* What a block remembers has accessed it.                                 *)
LEMMA Remembered ==
  ASSUME Types, NEW b \in Block
  PROVE  /\ dag.write_task[b] # NULL =>
              /\ dag.write_task[b] \in Region
              /\ \E m \in 1..Len(dag.out[dag.write_task[b]]) : dag.out[dag.write_task[b]][m] = b
         /\ dag.read_task[b] \in Seq(Task)
         /\ dag.read_task[b] # <<>> =>
              /\ dag.read_task[b][1] \in Region
              /\ \E m \in 1..Len(dag.in[dag.read_task[b][1]]) : dag.in[dag.read_task[b][1]][m] = b
<1>1. dag \in Graph /\ dag.n_tasks \in Nat
  BY Dag
<1>2. dag.write_task[b] \in Task \cup {NULL} /\ dag.read_task[b] \in Seq(Task)
  BY <1>1, GraphAssumption DEF GraphType
<1>3. ASSUME dag.write_task[b] # NULL
      PROVE  /\ dag.write_task[b] \in Region
             /\ \E m \in 1..Len(dag.out[dag.write_task[b]]) : dag.out[dag.write_task[b]][m] = b
  <2>1. /\ dag.write_task[b] <= dag.n_tasks
        /\ \E m \in 1..Len(dag.out[dag.write_task[b]]) : dag.out[dag.write_task[b]][m] = b
    BY <1>1, <1>3, GraphAssumption
  <2>2. dag.write_task[b] \in Task
    BY <1>2, <1>3
  <2>3. QED
    BY <1>1, <2>1, <2>2 DEF Task, Region
<1>4. ASSUME dag.read_task[b] # <<>>
      PROVE  /\ dag.read_task[b][1] \in Region
             /\ \E m \in 1..Len(dag.in[dag.read_task[b][1]]) : dag.in[dag.read_task[b][1]][m] = b
  <2>1. 1 \in 1..Len(dag.read_task[b]) /\ dag.read_task[b][1] \in Task
    BY <1>2, <1>4
  <2>2. /\ dag.read_task[b][1] <= dag.n_tasks
        /\ \E m \in 1..Len(dag.in[dag.read_task[b][1]]) : dag.in[dag.read_task[b][1]][m] = b
    BY <1>1, <2>1, GraphAssumption
  <2>3. QED
    BY <1>1, <2>1, <2>2 DEF Task, Region
<1>5. QED
  BY <1>2, <1>3, <1>4

LEMMA WriterStep ==
  ASSUME IInv, Memory, NEW i \in Thread, Step(i), StepNow(i), NEW b \in Block
  PROVE  Writer(b)'
<1> DEFINE C == {"free_reads", "free_clear", "commit"}
<1>0. Types /\ Local(i) /\ dag' = dag /\ Writer(b)
  BY Alone DEF IInv, Locals, Memory
<1>1. C \in SUBSET Label /\ "bind" \notin C /\ "dep" \notin C
  BY DEF Label
<1> SUFFICES ASSUME write_task'[b] # NULL
             PROVE  write_task'[b] = dag.write_task[b] /\ ~Beyond(dag.write_task[b], C)'
  BY <1>0 DEF Writer, Unwritten
<1>2. /\ write_task[b] # NULL /\ write_task'[b] = dag.write_task[b]
      /\ FreeWrites(i) => ~\E m \in 1..Len(dag.out[t[i]]) : dag.out[t[i]][m] = b
  <2>1. CASE ~FreeWrites(i)
    BY <1>0, <2>1, PassesPoints DEF Writer
  <2>2. CASE FreeWrites(i)
    <3>1. /\ write_task'[b] = write_task[b]
          /\ ~\E m \in 1..Len(dag.out[t[i]]) : dag.out[t[i]][m] = b
      BY <1>0, <2>2 DEF FreeWrites
    <3>2. QED
      BY <1>0, <3>1 DEF Writer
  <2>3. QED
    BY <2>1, <2>2
<1>3. PICK x \in Region : x = dag.write_task[b]
  BY <1>0, <1>2, Remembered DEF Writer
<1>4. FreeWrites(i) => x # t[i]
  BY <1>0, <1>2, <1>3, Remembered
<1>5. ~Beyond(x, C)
  BY <1>0, <1>2, <1>3 DEF Writer, Unwritten
<1> HIDE DEF C
<1>6. ~Beyond(x, C)'
  <2>1. CASE x # t[i]
    BY <1>1, <1>5, <2>1, BeyondStep
  <2>2. CASE x = t[i]
    <3>1. Beyond(x, C)' <=> pc[i] # "exec" /\ (pc[i] = "commit" \/ pc'[i] \in C)
      BY <1>1, <2>2, BeyondStep
    <3>2. pc[i] = "exec" \/ pc[i] \notin C
      BY <1>1, <1>5, <2>2, BeyondNow
    <3>3. t[i] # NULL
      BY <1>0, <2>2, Dag
    <3>4. pc[i] # "exec" => pc'[i] \notin C
      BY <1>4, <2>2, <3>2, <3>3, PassesPoints DEF C
    <3>5. "commit" \in C
      BY DEF C
    <3>6. QED
      BY <3>1, <3>2, <3>4, <3>5
  <2>3. QED
    BY <2>1, <2>2
<1>7. Beyond(dag.write_task[b], C)' <=> Beyond(x, C)'
  BY <1>0, <1>3
<1>8. QED
  BY <1>2, <1>6, <1>7

(* The reader nodes of a block are emptied under war_lock.                 *)
LEMMA ClearEffect ==
  ASSUME IInv, NEW i \in Thread, FreeClear(i)
  PROVE  /\ pc[i] = "free_clear" /\ t[i] \in Region /\ k[i] \in 1..Len(dag.in[t[i]])
         /\ FreedBlock(i) \in Block /\ FreedBlock(i) = dag.in[t[i]][k[i]] /\ WarLock(i) \in Thread
         /\ pc'[i] = "free_reads" /\ read_task'[FreedBlock(i)] = <<>>
         /\ freed_nodes'[FreedBlock(i)] = freed_nodes[FreedBlock(i)] + Len(nodes[i])
         /\ \A b \in Block : b # FreedBlock(i) =>
              read_task'[b] = read_task[b] /\ freed_nodes'[b] = freed_nodes[b]
<1>1. pc[i] = "free_clear" /\ pc[i] \in Busy /\ k[i] <= Len(dag.in[t[i]]) /\ Types /\ Locals
  BY DEF FreeClear, At, Local, Locals, Busy, IInv
<1>2. /\ t[i] \in Region /\ k[i] \in 1..Len(dag.in[t[i]])
      /\ FreedBlock(i) \in Block /\ FreedBlock(i) = dag.in[t[i]][k[i]] /\ WarLock(i) \in Thread
  BY <1>1, Freeing, Working DEF FreedBlock
<1>3. QED
  BY <1>1, <1>2 DEF FreeClear, Goto, Types, TypeOK

LEMMA NotClear ==
  ASSUME NEW i \in Thread, Step(i), StepNow(i), ~FreeClear(i)
  PROVE  read_task' = read_task /\ freed_nodes' = freed_nodes
BY DEF StepNow, shared, ghosts, Loop, LoopBound, DequeueTaskNow, DequeueNone, Exec, Bind, BindDequeueNow,
   DepQueue, DepRead, DepDone, Notify, NotifyWrite, BindFirst, BindSwap, Ready, EnqueueTaskNow, FreeWrites,
   FreeReads, FreeTask, Steal, StealDequeueNow, Commit

LEMMA ReadersStep ==
  ASSUME IInv, Memory, NEW i \in Thread, Step(i), StepNow(i), NEW b \in Block
  PROVE  Readers(b)'
<1>0. Types /\ dag' = dag /\ Readers(b)
  BY Alone DEF IInv, Memory
<1> SUFFICES ASSUME read_task'[b] # <<>>
             PROVE  /\ read_task'[b] = dag.read_task[b]
                    /\ \A m \in 1..Len(dag.in[dag.read_task[b][1]]) :
                         dag.in[dag.read_task[b][1]][m] = b => ~Unread(dag.read_task[b][1], m)'
  BY <1>0 DEF Readers
<1>1. read_task'[b] = read_task[b] /\ (FreeClear(i) => b # dag.in[t[i]][k[i]])
  BY ClearEffect, NotClear
<1>2. PICK x \in Region : x = dag.read_task[b][1]
  BY <1>0, <1>1, Remembered DEF Readers
<1>3. /\ read_task'[b] = dag.read_task[b]
      /\ \A m \in 1..Len(dag.in[x]) : dag.in[x][m] = b => ~Unread(x, m)
  BY <1>0, <1>1, <1>2 DEF Readers
<1>4. ASSUME NEW m \in 1..Len(dag.in[x]), dag.in[x][m] = b PROVE ~Unread(x, m)'
  <2>1. Unread(x, m)' <=> Unread(x, m) \/ (FreeClear(i) /\ x = t[i] /\ m = k[i])
    BY UnreadStep
  <2>2. QED
    BY <1>1, <1>3, <1>4, <2>1
<1>5. \A m : Unread(dag.read_task[b][1], m)' <=> Unread(x, m)'
  BY <1>0, <1>2
<1>6. QED
  BY <1>2, <1>3, <1>4, <1>5

LEMMA BecomesClear ==
  ASSUME TypeOK, NEW i \in Thread, Step(i), StepNow(i), pc'[i] = "free_clear"
  PROVE  FreeReads(i)
<1> SUFFICES ASSUME ~FreeReads(i) PROVE pc'[i] # "free_clear"
  OBVIOUS
<1> USE DEF TypeOK, Goto
<1>1. CASE Loop(i) \/ LoopBound(i) \/ DequeueTaskNow(i) \/ DequeueNone(i) \/ Exec(i)
  BY <1>1 DEF Loop, LoopBound, DequeueTaskNow, DequeueNone, Exec, Run
<1>2. CASE Bind(i) \/ BindDequeueNow(i) \/ DepQueue(i) \/ DepRead(i) \/ DepDone(i) \/ Notify(i) \/ NotifyWrite(i)
  BY <1>2 DEF Bind, BindDequeueNow, DepQueue, DepRead, DepDone, Notify, NotifyWrite
<1>3. CASE BindFirst(i) \/ BindSwap(i) \/ Ready(i) \/ EnqueueTaskNow(i)
  BY <1>3 DEF BindFirst, BindSwap, Ready, EnqueueTaskNow
<1>4. CASE FreeWrites(i) \/ FreeClear(i) \/ FreeTask(i)
  BY <1>4 DEF FreeWrites, FreeClear, FreeTask
<1>5. CASE Steal(i) \/ StealDequeueNow(i) \/ Commit(i)
  BY <1>5 DEF Steal, StealDequeueNow, Commit
<1>6. QED
  BY <1>1, <1>2, <1>3, <1>4, <1>5 DEF StepNow

LEMMA MemoryStep ==
  ASSUME IInv, Memory, NEW i \in Thread, Step(i), StepNow(i)
  PROVE  Memory'
<1>0. /\ Types /\ Locals /\ Local(i) /\ dag' = dag
      /\ \A a \in Thread : a # i => /\ pc'[a] = pc[a] /\ t'[a] = t[a] /\ k'[a] = k[a]
                                    /\ nodes'[a] = nodes[a]
  BY Alone DEF IInv, Locals
<1>1. \A a \in Thread : pc[a] = "free_clear" => nodes[a] = read_task[FreedBlock(a)]
  BY DEF Memory
<1>2. ASSUME NEW b \in Block PROVE FreedOnce(b)'
  <2>1. FreedOnce(b)
    BY DEF Memory
  <2>2. CASE FreeClear(i) /\ b = FreedBlock(i)
    <3>1. nodes[i] = read_task[b] /\ read_task[b] \in Seq(Task)
      BY <1>0, <1>1, <2>2, ClearEffect DEF Types, TypeOK
    <3>2. read_task'[b] = <<>> /\ freed_nodes'[b] = freed_nodes[b] + Len(read_task[b])
      BY <2>2, <3>1, ClearEffect
    <3>3. dag.read_task[b] \in Seq(Task)
      BY <1>0, Remembered
    <3>4. Len(dag.read_task[b]) \in Nat
      BY <3>3
    <3>5. freed_nodes[b] + Len(read_task[b]) = Len(dag.read_task[b])
      <4>1. CASE read_task[b] = <<>>
        BY <2>1, <3>4, <4>1 DEF FreedOnce
      <4>2. CASE read_task[b] # <<>>
        BY <2>1, <3>4, <4>2 DEF FreedOnce, Memory, Readers
      <4>3. QED
        BY <4>1, <4>2
    <3>6. QED
      BY <1>0, <3>2, <3>5 DEF FreedOnce
  <2>3. CASE ~(FreeClear(i) /\ b = FreedBlock(i))
    <3>1. read_task'[b] = read_task[b] /\ freed_nodes'[b] = freed_nodes[b]
      BY <2>3, ClearEffect, NotClear
    <3>2. QED
      BY <1>0, <2>1, <3>1 DEF FreedOnce
  <2>4. QED
    BY <2>2, <2>3
<1>3. ASSUME NEW a \in Thread, pc'[a] = "free_clear"
      PROVE  nodes'[a] = read_task'[FreedBlock(a)']
  <2>1. CASE a # i
    <3>1. pc[a] = "free_clear" /\ FreedBlock(a)' = FreedBlock(a) /\ nodes'[a] = read_task[FreedBlock(a)]
      BY <1>0, <1>1, <1>3, <2>1 DEF FreedBlock
    <3>2. FreedBlock(a) \in Block /\ WarLock(a) \in Thread
      BY <1>0, <3>1, Freeing DEF Busy, Local, Locals
    <3>3. FreeClear(i) => FreedBlock(a) # FreedBlock(i)
      <4> SUFFICES ASSUME FreeClear(i), FreedBlock(a) = FreedBlock(i) PROVE FALSE
        OBVIOUS
      <4>1. pc[i] = "free_clear" /\ WarLock(i) = WarLock(a)
        BY ClearEffect DEF WarLock
      <4>2. war_lock[WarLock(a)] = a /\ war_lock[WarLock(a)] = i
        BY <3>1, <3>2, <4>1 DEF IInv, Locks, HoldsWar
      <4>3. QED
        BY <2>1, <4>2
    <3>4. read_task'[FreedBlock(a)] = read_task[FreedBlock(a)]
      BY <3>2, <3>3, ClearEffect, NotClear
    <3>5. QED
      BY <3>1, <3>4
  <2>2. CASE a = i
    <3>1. FreeReads(i)
      <4>1. pc'[i] = "free_clear"
        BY <1>3, <2>2
      <4>2. QED
        BY <1>0, <4>1, BecomesClear DEF Types
    <3>2. t' = t /\ k' = k /\ read_task' = read_task /\ nodes'[i] = read_task[FreedBlock(i)]
      BY <1>0, <3>1 DEF FreeReads, shared, Types, TypeOK
    <3>3. QED
      BY <1>0, <2>2, <3>2 DEF FreedBlock
  <2>3. QED
    BY <2>1, <2>2
<1>4. QED
  BY <1>2, <1>3, WriterStep, ReadersStep DEF Memory

-----------------------------------------------------------------------------
(* The whole invariant.                                                    *)

Full == IInv /\ Steady /\ Commits /\ Memory

LEMMA FullInit ==
  ASSUME SinglePredecessors
  PROVE  Init => Full
<1> SUFFICES ASSUME NEW e \in Execution, InitWith(e.graph, e.setting) PROVE Full
  BY DEF Init
<1>1. IInv /\ Steady /\ Types
  BY InvariantInit, SteadyInit DEF Init, IInv
<1>2. /\ dag.n_tasks \in Nat /\ Region \subseteq Task /\ n_committed = 0 /\ freed = {}
      /\ state = [x \in Task |-> "waiting"] /\ pc = [i \in Thread |-> "loop"]
      /\ write_task = dag.write_task /\ read_task = dag.read_task
      /\ freed_nodes = [b \in Block |-> 0]
  BY <1>1, Dag DEF InitWith
<1>3. \A x \in Region : state[x] = "waiting"
  BY <1>2
<1>4. Commits
  <2>1. Committed = {} /\ freed = {x \in Region : Beyond(x, {"commit"})}
    BY <1>2, <1>3 DEF Committed, Beyond
  <2>2. QED
    BY <1>2, <2>1, FS_EmptySet DEF Commits
<1>5. ASSUME NEW b \in Block PROVE Writer(b) /\ Readers(b) /\ FreedOnce(b)
  <2>1. Writer(b)
    BY <1>1, <1>2, <1>3, Remembered DEF Writer, Unwritten, Beyond
  <2>2. Readers(b)
    BY <1>1, <1>2, <1>3, Remembered DEF Readers, Unread
  <2>3. Len(<<>>) = 0
    OBVIOUS
  <2>4. FreedOnce(b)
    BY <1>2, <2>3 DEF FreedOnce
  <2>5. QED
    BY <2>1, <2>2, <2>4
<1>6. Memory
  BY <1>2, <1>5 DEF Memory
<1>7. QED
  BY <1>1, <1>4, <1>6 DEF Full

LEMMA FullStill ==
  ASSUME Full, UNCHANGED <<dag, write_task, read_task, n_committed, state, freed, freed_nodes,
                           pc, t, k, nodes>>
  PROVE  Commits' /\ Memory'
<1>1. \A x, C : Beyond(x, C)' <=> Beyond(x, C)
  BY DEF Beyond
<1>2. Commits'
  <2>1. Committed' = Committed
    BY <1>1 DEF Committed, Region
  <2>2. {x \in Region : Beyond(x, {"commit"})}' = {x \in Region : Beyond(x, {"commit"})}
    BY <1>1 DEF Region
  <2>3. QED
    BY <2>1, <2>2 DEF Full, Commits
<1>3. \A x, m : Unread(x, m)' <=> Unread(x, m)
  BY DEF Unread
<1>4. \A b \in Block : Writer(b)' /\ Readers(b)' /\ FreedOnce(b)'
  BY <1>1, <1>3 DEF Full, Memory, Writer, Readers, FreedOnce, Unwritten
<1>5. Memory'
  BY <1>4 DEF Full, Memory, FreedBlock
<1>6. QED
  BY <1>2, <1>5

LEMMA FullNext == Full /\ [Next]_vars => Full'
<1> SUFFICES ASSUME Full, [Next]_vars PROVE Full'
  OBVIOUS
<1>1. IInv' /\ Steady' /\ IInv
  BY InvariantNext DEF Full
<1>2. CASE \E i \in Thread : Step(i)
  BY <1>1, <1>2, StepIsNow, CommitsStep, MemoryStep DEF Full
<1>3. CASE FLASH_Queue_init_tasks \/ UNCHANGED vars
  <2>1. UNCHANGED <<dag, write_task, read_task, n_committed, state, freed, freed_nodes,
                    pc, t, k, nodes>>
    BY <1>3 DEF FLASH_Queue_init_tasks, vars, shared, locks, ghosts, locals
  <2>2. QED
    BY <1>1, <2>1, FullStill DEF Full
<1>4. QED
  BY <1>2, <1>3 DEF Next

-----------------------------------------------------------------------------
(* A task is not touched once it is freed.                                 *)

LEMMA FreedIsDone ==
  ASSUME Full, NEW x \in freed
  PROVE  x \in Region /\ state[x] = "done" /\ \A i \in Thread : t[i] = x => pc[i] = "commit"
BY DEF Full, Commits, Beyond

(* A worker never executes, notifies for, looks up or frees a task that    *)
(* has been freed, and no waiting queue, binding or dependence list that   *)
(* is still to be gone through names one. Provided, as for QueuesLocked,   *)
(* that work stealing is used on graphs in which no task has two           *)
(* predecessors.                                                           *)
THEOREM SafeFree ==
  ASSUME SinglePredecessors
  PROVE  Spec => []NoUseAfterFree
<1>1. Full => NoUseAfterFree
  <2> SUFFICES ASSUME Full PROVE NoUseAfterFree
    OBVIOUS
  <2>0. IInv /\ Types /\ Locals
    BY DEF Full, IInv
  <2>1. ASSUME NEW x \in freed PROVE Places(x) = {}
    <3>1. x \in Region /\ ~Available(x)
      BY FreedIsDone DEF Available
    <3>2. QED
      BY <2>0, <3>1, NoPlace
  <2>2. ASSUME NEW i \in Thread, pc[i] \in Busy PROVE t[i] \notin freed
    <3>1. pc[i] # "commit"
      BY <2>2 DEF Busy
    <3>2. QED
      BY <3>1, FreedIsDone
  <2>3. ASSUME NEW i \in Thread, pc[i] \in {"dep", "dep_read", "notify", "notify_write"},
               NEW m \in k[i]..Len(dag.dep_arg[t[i]])
        PROVE  dag.dep_arg[t[i]][m] \notin freed
    <3>1. pc[i] \in Busy /\ k[i] \in Nat /\ k[i] >= 1
      BY <2>0, <2>3 DEF Busy, Types, TypeOK, Locals, Local
    <3>2. t[i] \in Region /\ dag.dep_arg[t[i]] \in Seq(Task)
      BY <2>0, <3>1, Working, Dag
    <3>3. Len(dag.dep_arg[t[i]]) \in Nat
      BY <3>2
    <3>4. m \in 1..Len(dag.dep_arg[t[i]]) /\ ~(m < k[i])
      BY <2>3, <3>1, <3>3
    <3>5. ~Counted(i, m)
      BY <2>3, <3>4 DEF Counted
    <3>6. ~Sent(t[i], m)
      BY <2>0, <3>1, <3>4, <3>5, Ahead
    <3>7. state[dag.dep_arg[t[i]][m]] = "waiting"
      BY <2>0, <3>2, <3>4, <3>6, NotCounted
    <3>8. QED
      BY <3>7, FreedIsDone
  <2>4. QED
    BY <2>1, <2>2, <2>3 DEF NoUseAfterFree, Busy
<1>2. QED
  BY FullInit, FullNext, <1>1, PTL DEF Spec

-----------------------------------------------------------------------------
(* What is left when the threads have been joined.                         *)

LEMMA AllAreCommitted ==
  ASSUME Full, NEW a \in Thread, pc[a] = "exit"
  PROVE  Committed = Region
<1>1. /\ IsFiniteSet(Region) /\ Cardinality(Region) = dag.n_tasks /\ dag.n_tasks \in Nat
      /\ Committed \subseteq Region
  BY RegionFinite, Dag DEF Full, IInv, Committed
<1>2. IsFiniteSet(Committed) /\ Cardinality(Committed) <= Cardinality(Region)
      /\ (Cardinality(Committed) = Cardinality(Region) => Committed = Region)
  BY <1>1, FS_Subset
<1>3. Cardinality(Committed) >= dag.n_tasks /\ Cardinality(Committed) \in Nat
  BY <1>2, FS_CardinalityType DEF Full, Commits
<1>4. Cardinality(Committed) = Cardinality(Region)
  BY <1>1, <1>2, <1>3
<1>5. QED
  BY <1>2, <1>4

(* At the end no block remembers a task, all tasks and reader nodes have   *)
(* been freed once, no task waits and every lock is free. Provided, as for *)
(* QueuesLocked, that work stealing is used on graphs in which no task has *)
(* two predecessors.                                                       *)
THEOREM RegionLeavesNothing ==
  ASSUME SinglePredecessors
  PROVE  Spec => []NothingLeft
<1>1. Full => NothingLeft
  <2> SUFFICES ASSUME Full, Terminated
               PROVE  /\ \A b \in Block : /\ write_task[b] = NULL /\ read_task[b] = <<>>
                                          /\ freed_nodes[b] = Len(dag.read_task[b])
                      /\ freed = Region
                      /\ \A q \in Queue : wait_queue[q] = <<>> /\ run_lock[q] = Free
                      /\ \A i \in Thread : r[i] = NULL /\ dep_lock[i] = Free /\ war_lock[i] = Free
    BY DEF NothingLeft
  <2>0. IInv /\ Types /\ TypeOK /\ Locals /\ Locks /\ InQueues
    BY DEF Full, IInv, Types
  <2>1. \A i \in Thread : pc[i] = "exit" /\ t[i] = NULL
    BY <2>0 DEF Terminated, Locals, Local
  <2>2. 0 \in Thread /\ NULL \notin Region /\ Queue \subseteq Thread
    BY <2>0, Teams, Dag
  <2>3. \A x \in Region : state[x] = "done"
    BY <2>1, <2>2, AllAreCommitted DEF Committed, Beyond
  <2>4. \A x \in Region : \A C : Beyond(x, C)
    BY <2>1, <2>2, <2>3 DEF Beyond
  <2>5. freed = Region
    BY <2>4 DEF Full, Commits
  <2>6. ASSUME NEW b \in Block
        PROVE  /\ write_task[b] = NULL /\ read_task[b] = <<>>
               /\ freed_nodes[b] = Len(dag.read_task[b])
    <3>0. Writer(b) /\ Readers(b) /\ FreedOnce(b)
      BY DEF Full, Memory
    <3>1. write_task[b] = NULL
      BY <2>0, <2>4, <3>0, Remembered DEF Writer, Unwritten
    <3>2. read_task[b] = <<>>
      BY <2>0, <2>1, <2>2, <2>3, <3>0, Remembered DEF Readers, Unread
    <3>3. QED
      BY <3>0, <3>1, <3>2 DEF FreedOnce
  <2>7. \A x \in Region : ~Available(x)
    BY <2>3 DEF Available
  <2>8. ASSUME NEW q \in Queue PROVE wait_queue[q] = <<>> /\ run_lock[q] = Free
    <3>1. wait_queue[q] \in Seq(Task)
      BY <2>0 DEF TypeOK
    <3>2. wait_queue[q] # <<>> => 1 \in 1..Len(wait_queue[q])
      BY <3>1
    <3>3. wait_queue[q] = <<>>
      BY <2>0, <2>7, <3>2, Queued
    <3>4. run_lock[q] \in Thread \cup {Free}
      BY <2>0 DEF TypeOK
    <3>5. \A i \in Thread : run_lock[q] # i
      BY <2>0, <2>1 DEF Locks, HoldsRun
    <3>6. QED
      BY <3>3, <3>4, <3>5
  <2>9. ASSUME NEW i \in Thread PROVE r[i] = NULL /\ dep_lock[i] = Free /\ war_lock[i] = Free
    <3>1. r[i] \in Region \cup {NULL}
      BY <2>0 DEF Locals, Local
    <3>2. r[i] \in Region => Has("bound", i, r[i]) /\ "bound" \in Kind
      BY DEF Has, Kind
    <3>3. r[i] = NULL
      BY <2>0, <2>7, <3>1, <3>2, Placed
    <3>4. dep_lock[i] \in Thread \cup {Free} /\ war_lock[i] \in Thread \cup {Free}
      BY <2>0 DEF TypeOK
    <3>5. \A a \in Thread : dep_lock[i] # a /\ war_lock[i] # a
      BY <2>0, <2>1 DEF Locks, HoldsDep, HoldsWar
    <3>6. QED
      BY <3>3, <3>4, <3>5
  <2>10. QED
    BY <2>5, <2>6, <2>8, <2>9
<1>2. QED
  BY FullInit, FullNext, <1>1, PTL DEF Spec

-----------------------------------------------------------------------------
(* The dependences are observed.                                           *)

LEMMA DependencesDone ==
  ASSUME IInv, NEW x \in Region, Available(x), NEW j \in Region,
         NEW m \in 1..Len(dag.dep_arg[j]), dag.dep_arg[j][m] = x
  PROVE  state[j] = "done"
<1>1. n_ready[x] = 0
  BY DEF Available
<1>2. Sent(j, m)
  BY <1>1, NotCounted
<1>3. QED
  BY <1>2 DEF Sent

(* Every behaviour of the workers is one of the abstract region: a task    *)
(* starts when the tasks it depends on are done, runs once, and no worker  *)
(* leaves before all tasks are done. Provided, as for QueuesLocked, that   *)
(* work stealing is used on graphs in which no task has two predecessors.  *)
THEOREM ImplementsTaskDAG ==
  ASSUME SinglePredecessors
  PROVE  Spec => ObservesDependences
<1> DEFINE pred == [x \in Task |->
             {j \in Region : \E m \in 1..Len(dag.dep_arg[j]) : dag.dep_arg[j][m] = x}]
           ended == \E i \in Thread : pc[i] = "exit"
           AllDone == ended => \A x \in Region : state[x] = "done"
<1>1. Init => Promise!Init
  <2> SUFFICES ASSUME NEW e \in Execution, InitWith(e.graph, e.setting) PROVE Promise!Init
    BY DEF Init
  <2>1. Types
    BY TypesInit DEF Init
  <2>2. Region \in SUBSET Task
    BY <2>1, Dag
  <2>3. pred \in [Task -> SUBSET Region]
    OBVIOUS
  <2>4. state = [x \in Task |-> "waiting"] /\ ended = FALSE
    BY DEF InitWith
  <2>5. QED
    BY <2>2, <2>3, <2>4 DEF Promise!Init
<1>2. Full => AllDone
  BY AllAreCommitted DEF Committed, Beyond
<1>3. Full /\ AllDone' /\ [Next]_vars => [Promise!Next]_(Promise!dagVars)
  <2> SUFFICES ASSUME Full, AllDone', [Next]_vars PROVE Promise!Next \/ UNCHANGED Promise!dagVars
    OBVIOUS
  <2>0. IInv /\ Types /\ Locals
    BY DEF Full, IInv
  <2>1. CASE FLASH_Queue_init_tasks \/ UNCHANGED vars
    <3>1. UNCHANGED <<dag, state, pc>>
      BY <2>1 DEF FLASH_Queue_init_tasks, vars, ghosts, locals
    <3>2. Region' = Region /\ pred' = pred /\ ended' = ended
      BY <3>1 DEF Region
    <3>3. QED
      BY <3>1, <3>2 DEF Promise!dagVars
  <2>2. CASE \E i \in Thread : Step(i)
    <3>1. PICK i \in Thread : Step(i) /\ StepNow(i)
      BY <2>2, StepIsNow DEF Full
    <3>2. dag' = dag /\ (\A a \in Thread : a # i => pc'[a] = pc[a]) /\ Local(i)
      BY <2>0, <3>1, Alone DEF Locals
    <3>3. Region' = Region /\ pred' = pred
      BY <3>2 DEF Region
    <3>4. CASE \E x \in Region : Starts(i, x)
      <4>1. PICK x \in Region : Starts(i, x)
        BY <3>4
      <4>2. x \in Task /\ state[x] = "waiting" /\ state' = [state EXCEPT ![x] = "running"]
        BY <2>0, <4>1, Dag DEF Starts, Available
      <4>3. \A j \in pred[x] : state[j] = "done"
        BY <2>0, <4>1, <4>2, DependencesDone DEF Starts
      <4>4. ended' = ended
        BY <3>2, <4>1 DEF Starts
      <4>5. Promise!Start(x)
        BY <3>3, <4>2, <4>3, <4>4 DEF Promise!Start
      <4>6. QED
        BY <4>5 DEF Promise!Next
    <3>5. CASE Finishes(i)
      <4>1. t[i] \in Region /\ state[t[i]] = "running"
        BY <2>0, <3>2, <3>5 DEF Finishes, Local, Busy, IInv, Owners
      <4>2. ended' = ended /\ state' = [state EXCEPT ![t[i]] = "done"]
        BY <3>2, <3>5 DEF Finishes
      <4>3. Promise!Finish(t[i])
        BY <3>3, <4>1, <4>2 DEF Promise!Finish
      <4>4. QED
        BY <4>1, <4>3 DEF Promise!Next
    <3>6. CASE Leaves(i) \/ Continues(i)
      <4>1. state' = state
        BY <3>6 DEF Leaves, Continues
      <4>2. CASE pc'[i] = "exit"
        <5>1. \A x \in Region : state[x] = "done"
          BY <3>3, <4>1, <4>2
        <5>2. Promise!End
          BY <3>3, <4>1, <4>2, <5>1 DEF Promise!End
        <5>3. QED
          BY <5>2 DEF Promise!Next
      <4>3. CASE pc'[i] # "exit"
        <5>1. pc[i] # "exit"
          BY <3>1 DEF StepNow, At, Loop, LoopBound, DequeueTaskNow, DequeueNone, Exec, Bind, BindDequeueNow,
             DepQueue, DepRead, DepDone, Notify, NotifyWrite, BindFirst, BindSwap, Ready, EnqueueTaskNow,
             FreeWrites, FreeReads, FreeClear, FreeTask, Steal, StealDequeueNow, Commit
        <5>2. ended' = ended
          BY <3>2, <4>3, <5>1
        <5>3. QED
          BY <3>3, <4>1, <5>2 DEF Promise!dagVars
      <4>4. QED
        BY <4>2, <4>3
    <3>7. QED
      BY <2>0, <3>1, <3>4, <3>5, <3>6, Moves
  <2>3. QED
    BY <2>1, <2>2 DEF Next
<1> HIDE DEF AllDone
<1>4. QED
  BY FullInit, FullNext, <1>1, <1>2, <1>3, PTL DEF Spec, ObservesDependences, Promise!Spec

-----------------------------------------------------------------------------
(* The heights of the tasks.                                               *)

(* A set of numbers has a least one.                                       *)
LEMMA Least ==
  ASSUME NEW S \in SUBSET Nat, S # {}
  PROVE  \E m \in S : \A l \in S : m <= l
<1> DEFINE Less == {e \in Nat \X Nat : e[1] < e[2]}
<1>1. IsWellFoundedOn(Less, Nat)
  BY NatLessThanWellFounded DEF OpToRel
<1>2. \A a \in Nat, b \in Nat : a < b => <<a, b>> \in Less
  OBVIOUS
<1> HIDE DEF Less
<1>3. PICK m \in S : \A l \in S : <<l, m>> \notin Less
  BY <1>1, WFMin
<1>4. ASSUME NEW l \in S PROVE m <= l
  <2>1. ~(l < m)
    BY <1>2, <1>3
  <2>2. QED
    BY <2>1
<1>5. QED
  BY <1>4

(* One of finitely many numbers is the greatest.                           *)
LEMMA GreatestOf ==
  ASSUME NEW n \in Nat, n > 0, NEW f \in [1..n -> Nat]
  PROVE  \E m \in 1..n : \A l \in 1..n : f[l] <= f[m]
<1> DEFINE S == {l \in 1..n : \A m \in 1..l : \E j \in 1..l : ~(f[j] <= f[m])}
<1> SUFFICES ASSUME n \in S PROVE FALSE
  OBVIOUS
<1>1. S \subseteq 1..n /\ S # {}
  OBVIOUS
<1>2. \A l \in S : l \in 1..n /\ \A m \in 1..l : \E j \in 1..l : ~(f[j] <= f[m])
  OBVIOUS
<1>3. \A l \in 1..n : l \notin S => \E m \in 1..l : \A j \in 1..l : f[j] <= f[m]
  OBVIOUS
<1> HIDE DEF S
<1>4. PICK l \in S : \A m \in S : l <= m
  <2>1. S \subseteq Nat
    BY <1>1
  <2>2. QED
    BY <1>1, <2>1, Least
<1>5. l \in Nat /\ l >= 1 /\ l <= n /\ \A m \in 1..l : \E j \in 1..l : ~(f[j] <= f[m])
  <2>1. l \in 1..n /\ \A m \in 1..l : \E j \in 1..l : ~(f[j] <= f[m])
    BY <1>2, <1>4, Zenon
  <2>2. l \in Nat /\ l >= 1 /\ l <= n
    BY <2>1
  <2>3. QED
    BY <2>1, <2>2
<1>6. \A j \in 1..l : f[j] \in Nat
  BY <1>5
<1>7. l # 1
  <2>1. f[1] \in Nat
    BY <1>5
  <2>2. f[1] <= f[1]
    BY <2>1
  <2>3. QED
    BY <1>5, <2>2
<1>8. l - 1 \in 1..n /\ ~(l <= l - 1)
  BY <1>5, <1>7
<1>9. PICK m \in 1..(l - 1) : \A j \in 1..(l - 1) : f[j] <= f[m]
  BY <1>3, <1>4, <1>8
<1>10. f[m] \in Nat /\ f[l] \in Nat /\ m \in 1..l /\ l \in 1..l
  BY <1>5, <1>6
<1>11. \A j \in 1..l : j \in 1..(l - 1) \/ j = l
  BY <1>5
<1>12. CASE f[l] <= f[m]
  <2>1. \A j \in 1..l : f[j] <= f[m]
    BY <1>9, <1>11, <1>12
  <2>2. QED
    BY <1>5, <1>10, <2>1
<1>13. CASE ~(f[l] <= f[m])
  <2>1. \A j \in 1..(l - 1) : f[j] <= f[m] /\ f[j] \in Nat
    BY <1>5, <1>6, <1>9
  <2>2. \A j \in 1..(l - 1) : f[j] <= f[l]
    BY <1>10, <1>13, <2>1
  <2>3. f[l] <= f[l]
    BY <1>10
  <2>4. \A j \in 1..l : f[j] <= f[l]
    BY <1>11, <2>2, <2>3
  <2>5. QED
    BY <1>5, <1>10, <2>4
<1>14. QED
  BY <1>12, <1>13

(* The height of task x, from the heights h of the tasks that depend on it.*)
Below(g, h, x) == {h[g.dep_arg[x][m]] : m \in 1..Len(g.dep_arg[x])}
Above(g, below, x) ==
  (IF below = {} THEN 0 ELSE CHOOSE y \in below : \A z \in below : z <= y)
    + 1 + IF g.frees[x] THEN g.n_tasks ELSE 0

LEMMA Later ==
  ASSUME NEW g \in Graph, NEW x \in 1..g.n_tasks, NEW m \in 1..Len(g.dep_arg[x])
  PROVE  g.dep_arg[x][m] \in (x + 1)..g.n_tasks /\ g.n_tasks \in Nat
<1>1. g \in GraphType /\ g.n_tasks \in Nat /\ g.n_tasks <= MaxTasks /\ MaxTasks \in Nat
  BY GraphAssumption, ThreadsAssumption DEF GraphType
<1>2. x \in Task
  BY <1>1 DEF Task
<1>3. g.dep_arg[x] \in Seq(Task)
  BY <1>1, <1>2 DEF GraphType
<1>4. g.dep_arg[x][m] \in Nat
  <2>1. g.dep_arg[x][m] \in Task
    BY <1>3
  <2>2. QED
    BY <2>1 DEF Task
<1>5. x < g.dep_arg[x][m] /\ g.dep_arg[x][m] <= g.n_tasks
  BY GraphAssumption
<1>6. QED
  BY <1>1, <1>4, <1>5

(* Dependences point to later tasks, so that the heights are defined, from *)
(* the last task to the first.                                             *)
LEMMA HeightsExist ==
  ASSUME NEW g \in Graph
  PROVE  \E f : f = [x \in 1..g.n_tasks |-> Above(g, Below(g, f, x), x)]
<1>1. PICK n \in Nat : n = g.n_tasks
  BY GraphAssumption DEF GraphType
<1> DEFINE From(m) == (n - m + 1)..n
           Some(m) == \E f : f = [x \in From(m) |-> Above(g, Below(g, f, x), x)]
           S == {m \in 0..n : ~Some(m)}
<1>2. From(n) = 1..n
  OBVIOUS
<1> SUFFICES ASSUME ~Some(n) PROVE FALSE
  BY <1>1, <1>2
<1>3. n \in S /\ S \subseteq Nat
  OBVIOUS
<1>4. PICK m \in S : \A l \in S : m <= l
  BY <1>3, Least
<1>5. m \in 0..n /\ ~Some(m)
  OBVIOUS
<1>6. m # 0
  <2>1. From(0) = {}
    OBVIOUS
  <2>2. [x \in {} |-> 0] = [x \in {} |-> Above(g, Below(g, [y \in {} |-> 0], x), x)]
    OBVIOUS
  <2>3. Some(0)
    BY <2>1, <2>2
  <2>4. QED
    BY <1>5, <2>3
<1>7. \A l \in 0..n : l \notin S => Some(l)
  OBVIOUS
<1> HIDE DEF S, Some
<1>8. Some(m - 1)
  <2>1. m - 1 \in 0..n /\ ~(m <= m - 1)
    BY <1>5, <1>6
  <2>2. QED
    BY <1>4, <1>7, <2>1
<1>0. PICK f : f = [x \in From(m - 1) |-> Above(g, Below(g, f, x), x)]
  BY <1>8 DEF Some
<1> DEFINE e == [x \in From(m) |-> IF x = n - m + 1 THEN Above(g, Below(g, f, x), x) ELSE f[x]]
<1>9. ASSUME NEW x \in From(m) PROVE e[x] = Above(g, Below(g, e, x), x)
  <2>1. x \in 1..g.n_tasks /\ x >= n - m + 1 /\ x \in Nat
    BY <1>1, <1>5
  <2>2. ASSUME NEW j \in 1..Len(g.dep_arg[x]) PROVE e[g.dep_arg[x][j]] = f[g.dep_arg[x][j]]
    <3>0. g.dep_arg[x][j] \in (x + 1)..g.n_tasks
      BY <2>1, Later
    <3>1. PICK y \in Nat : y = g.dep_arg[x][j] /\ y >= x + 1 /\ y <= n
      BY <1>1, <2>1, <3>0
    <3>2. y \in From(m) /\ y # n - m + 1
      BY <1>5, <2>1, <3>1
    <3>3. QED
      BY <3>1, <3>2
  <2>3. Below(g, e, x) = Below(g, f, x)
    <3> HIDE DEF e
    <3>1. QED
      BY <2>2 DEF Below
  <2>4. CASE x = n - m + 1
    BY <2>3, <2>4
  <2>5. CASE x # n - m + 1
    <3>1. x \in From(m - 1)
      BY <1>5, <2>1, <2>5
    <3>2. f[x] = Above(g, Below(g, f, x), x)
      BY <1>0, <3>1
    <3>3. QED
      BY <2>3, <2>5, <3>2
  <2>6. QED
    BY <2>4, <2>5
<1>10. e = [x \in From(m) |-> Above(g, Below(g, e, x), x)]
  <2>1. [x \in From(m) |-> e[x]] = [x \in From(m) |-> Above(g, Below(g, e, x), x)]
    BY <1>9
  <2>2. e = [x \in From(m) |-> e[x]]
    OBVIOUS
  <2>3. QED
    BY <2>1, <2>2
<1>11. QED
  BY <1>5, <1>10 DEF Some

LEMMA HeightEquation ==
  ASSUME NEW g \in Graph
  PROVE  Height(g) = [x \in 1..g.n_tasks |-> Above(g, Below(g, Height(g), x), x)]
<1>1. PICK f : f = [x \in 1..g.n_tasks |-> Above(g, Below(g, f, x), x)]
  BY HeightsExist
<1>2. QED
  BY <1>1, Zenon DEF Height, Above, Below

(* Every height is a number.                                               *)
LEMMA HeightIsNat ==
  ASSUME NEW g \in Graph, NEW x \in 1..g.n_tasks
  PROVE  Height(g)[x] \in Nat
<1> DEFINE h == Height(g)
           n == g.n_tasks
           S == {y \in 1..n : h[y] \notin Nat}
<1> SUFFICES ASSUME h[x] \notin Nat PROVE FALSE
  OBVIOUS
<1>1. n \in Nat /\ g \in GraphType /\ n <= MaxTasks
  BY GraphAssumption DEF GraphType
<1>2. S \in SUBSET (0..n) /\ S # {}
  BY <1>1
<1>3. PICK y \in S : \A z \in S : z <= y
  BY <1>1, <1>2, Greatest
<1>4. y \in 1..n /\ h[y] \notin Nat
  OBVIOUS
<1>5. h[y] = Above(g, Below(g, h, y), y)
  BY <1>4, HeightEquation
<1>6. PICK l \in Nat : l = Len(g.dep_arg[y])
  <2>1. y \in Task
    BY <1>1, <1>4, ThreadsAssumption DEF Task
  <2>2. g.dep_arg[y] \in Seq(Task)
    BY <1>1, <2>1 DEF GraphType
  <2>3. QED
    BY <2>2
<1> HIDE DEF h
<1>7. \A m \in 1..l : h[g.dep_arg[y][m]] \in Nat
  <2> SUFFICES ASSUME NEW m \in 1..l PROVE h[g.dep_arg[y][m]] \in Nat
    OBVIOUS
  <2>1. PICK z \in Nat : z = g.dep_arg[y][m] /\ z \in (y + 1)..n
    BY <1>1, <1>4, <1>6, Later, SMTT(30)
  <2>2. z \in 1..n /\ ~(z <= y)
    BY <1>4, <2>1
  <2>3. z \notin S
    BY <1>3, <2>2
  <2>4. QED
    BY <2>1, <2>2, <2>3
<1> DEFINE B == Below(g, h, y)
<1>8. B # {} => (CHOOSE z \in B : \A w \in B : w <= z) \in Nat
  <2> SUFFICES ASSUME B # {} PROVE (CHOOSE z \in B : \A w \in B : w <= z) \in Nat
    OBVIOUS
  <2> DEFINE f == [m \in 1..l |-> h[g.dep_arg[y][m]]]
  <2>1. f \in [1..l -> Nat] /\ B = {f[m] : m \in 1..l}
    BY <1>6, <1>7 DEF Below
  <2>2. l > 0
    BY <2>1
  <2> HIDE DEF f, B
  <2>3. PICK m \in 1..l : \A j \in 1..l : f[j] <= f[m]
    BY <2>1, <2>2, GreatestOf
  <2>4. f[m] \in B /\ \A w \in B : w <= f[m]
    BY <2>1, <2>3
  <2>5. (CHOOSE z \in B : \A w \in B : w <= z) \in B
    BY <2>4
  <2>6. B \subseteq Nat
    BY <2>1
  <2>7. QED
    BY <2>5, <2>6
<1>9. (IF g.frees[y] THEN n ELSE 0) \in Nat
  BY <1>1
<1> HIDE DEF n, B
<1>10. PICK top \in Nat : top = IF B = {} THEN 0 ELSE CHOOSE z \in B : \A w \in B : w <= z
  BY <1>8
<1>11. PICK w \in Nat : w = IF g.frees[y] THEN g.n_tasks ELSE 0
  BY <1>9 DEF n
<1>12. h[y] = top + 1 + w
  BY <1>5, <1>10, <1>11 DEF Above, B
<1>13. QED
  BY <1>4, <1>12

-----------------------------------------------------------------------------
(* The waiting queues are sorted.                                          *)

Sorted(s, h) == \A m \in 1..(Len(s) - 1) : h[s[m]] >= h[s[m + 1]]

LEMMA InsertedSorted ==
  ASSUME NEW s \in Seq(Task), NEW x \in Task, NEW m \in 0..Len(s), NEW h,
         h[x] \in Nat, \A n \in 1..Len(s) : h[s[n]] \in Nat, Sorted(s, h),
         m > 0 => h[s[m]] >= h[x], m < Len(s) => h[x] >= h[s[m + 1]]
  PROVE  Sorted(InsertIndex(s, m, x), h)
<1> DEFINE z == InsertIndex(s, m, x)
<1>0. Len(s) \in Nat /\ m \in Nat /\ m <= Len(s)
  OBVIOUS
<1>1. /\ Len(z) = Len(s) + 1
      /\ \A n \in 1..m : z[n] = s[n]
      /\ z[m + 1] = x
      /\ \A n \in (m + 1)..Len(s) : z[n + 1] = s[n]
  <2>1. /\ Len(InsertIndex(s, m, x)) = Len(s) + 1
        /\ \A n \in 1..m : InsertIndex(s, m, x)[n] = s[n]
        /\ InsertIndex(s, m, x)[m + 1] = x
        /\ \A n \in (m + 1)..Len(s) : InsertIndex(s, m, x)[n + 1] = s[n]
    BY Inserted
  <2>2. QED
    BY <2>1
<1>2. \A n \in 1..(Len(s) - 1) : h[s[n]] >= h[s[n + 1]]
  BY DEF Sorted
<1> HIDE DEF z
<1>3. ASSUME NEW n \in 1..(Len(z) - 1) PROVE h[z[n]] >= h[z[n + 1]]
  <2>0. n \in 1..Len(s)
    BY <1>0, <1>1
  <2>1. CASE n < m
    <3>1. n \in 1..m /\ n + 1 \in 1..m /\ n \in 1..(Len(s) - 1)
      BY <1>0, <2>0, <2>1
    <3>2. z[n] = s[n] /\ z[n + 1] = s[n + 1]
      BY <1>1, <3>1
    <3>3. QED
      BY <1>2, <3>1, <3>2
  <2>2. CASE n = m
    <3>1. z[n] = s[m] /\ z[n + 1] = x /\ m > 0
      BY <1>0, <1>1, <2>0, <2>2
    <3>2. QED
      BY <3>1
  <2>3. CASE n = m + 1
    <3>1. z[n] = x /\ z[n + 1] = s[m + 1] /\ m < Len(s)
      BY <1>0, <1>1, <2>0, <2>3
    <3>2. QED
      BY <3>1
  <2>4. CASE n > m + 1
    <3>1. n - 1 \in (m + 1)..Len(s) /\ n \in (m + 1)..Len(s) /\ (n - 1) + 1 = n
          /\ n - 1 \in 1..(Len(s) - 1)
      BY <1>0, <2>0, <2>4
    <3>2. z[(n - 1) + 1] = s[n - 1] /\ z[n + 1] = s[n] /\ h[s[n - 1]] >= h[s[(n - 1) + 1]]
      BY <1>1, <1>2, <3>1
    <3>3. QED
      BY <3>1, <3>2
  <2>5. n < m \/ n = m \/ n = m + 1 \/ n > m + 1
    BY <1>0, <2>0
  <2>6. QED
    BY <2>1, <2>2, <2>3, <2>4, <2>5
<1>4. QED
  BY <1>3 DEF Sorted, z

LEMMA RemovedSorted ==
  ASSUME NEW s \in Seq(Task), NEW m \in 1..Len(s), NEW h,
         \A n \in 1..Len(s) : h[s[n]] \in Nat, Sorted(s, h)
  PROVE  Sorted(RemoveIndex(s, m), h)
<1> DEFINE z == RemoveIndex(s, m)
<1>0. Len(s) \in Nat /\ m \in Nat /\ m >= 1 /\ m <= Len(s)
  OBVIOUS
<1>1. /\ Len(z) = Len(s) - 1
      /\ \A n \in 1..(Len(s) - 1) : z[n] = IF n < m THEN s[n] ELSE s[n + 1]
  BY Removed
<1>2. \A n \in 1..(Len(s) - 1) : h[s[n]] >= h[s[n + 1]]
  BY DEF Sorted
<1> HIDE DEF z
<1>3. ASSUME NEW n \in 1..(Len(z) - 1) PROVE h[z[n]] >= h[z[n + 1]]
  <2>0. /\ n \in Nat /\ n + 1 \in Nat /\ n \in 1..(Len(s) - 1) /\ n + 1 \in 1..(Len(s) - 1)
        /\ (n + 1) + 1 = n + 2 /\ n + 2 \in 1..Len(s) /\ n + 1 \in 1..Len(s) /\ n \in 1..Len(s)
    BY <1>0, <1>1
  <2>1. /\ z[n] = IF n < m THEN s[n] ELSE s[n + 1]
        /\ z[n + 1] = IF n + 1 < m THEN s[n + 1] ELSE s[n + 2]
    BY <1>1, <2>0
  <2>2. h[s[n]] >= h[s[n + 1]] /\ h[s[n + 1]] >= h[s[n + 2]]
    BY <1>2, <2>0
  <2>3. h[s[n]] \in Nat /\ h[s[n + 1]] \in Nat /\ h[s[n + 2]] \in Nat
    BY <2>0
  <2>4. CASE n + 1 < m
    <3>1. z[n] = s[n] /\ z[n + 1] = s[n + 1]
      BY <1>0, <2>0, <2>1, <2>4
    <3>2. QED
      BY <2>2, <3>1
  <2>5. CASE n + 1 = m
    <3>1. z[n] = s[n] /\ z[n + 1] = s[n + 2]
      BY <1>0, <2>0, <2>1, <2>5
    <3>2. QED
      BY <2>2, <2>3, <3>1, SMTT(30)
  <2>6. CASE n + 1 > m
    <3>1. z[n] = s[n + 1] /\ z[n + 1] = s[n + 2]
      BY <1>0, <2>0, <2>1, <2>6
    <3>2. QED
      BY <2>2, <3>1
  <2>7. n + 1 < m \/ n + 1 = m \/ n + 1 > m
    BY <1>0, <2>0
  <2>8. QED
    BY <2>4, <2>5, <2>6, <2>7
<1>4. QED
  BY <1>3 DEF Sorted, z

(* Sorting keeps the tasks in front that are at least as high.             *)
LEMMA KeepSorted ==
  ASSUME conf.sorting, NEW s \in Seq(Task), NEW x,
         NEW h, h = Height(dag), h[x] \in Nat, \A n \in 1..Len(s) : h[s[n]] \in Nat
  PROVE  /\ Keep(s, x) \in 0..Len(s)
         /\ Keep(s, x) > 0 => h[s[Keep(s, x)]] >= h[x]
         /\ Keep(s, x) < Len(s) => h[x] >= h[s[Keep(s, x) + 1]]
<1> DEFINE ge == {m \in 1..Len(s) : h[s[m]] >= h[x]}
<1>0. Len(s) \in Nat
  OBVIOUS
<1>1. Keep(s, x) = IF ge = {} THEN 0 ELSE CHOOSE m \in ge : \A l \in ge : l <= m
  BY DEF Keep
<1>2. ge \in SUBSET (0..Len(s))
  OBVIOUS
<1>3. CASE ge = {}
  <2>1. Keep(s, x) = 0 /\ \A m \in 1..Len(s) : ~(h[s[m]] >= h[x])
    BY <1>1, <1>3
  <2>2. 0 < Len(s) => 1 \in 1..Len(s)
    BY <1>0
  <2>3. 0 < Len(s) => h[x] >= h[s[1]]
    BY <2>1, <2>2
  <2>4. QED
    BY <1>0, <2>1, <2>3
<1>4. CASE ge # {}
  <2>0. Keep(s, x) = CHOOSE m \in ge : \A l \in ge : l <= m
    BY <1>1, <1>4
  <2>1. Keep(s, x) \in ge /\ \A l \in ge : l <= Keep(s, x)
    <3> HIDE DEF ge
    <3>1. \E m \in ge : \A l \in ge : l <= m
      BY <1>0, <1>2, <1>4, Greatest
    <3>2. QED
      BY <2>0, <3>1
  <2>2. PICK m \in Nat : m = Keep(s, x) /\ m \in 1..Len(s) /\ h[s[m]] >= h[x]
    BY <2>1
  <2>3. m < Len(s) => m + 1 \in 1..Len(s) /\ ~(m + 1 <= m)
    BY <1>0, <2>2
  <2>4. m < Len(s) => m + 1 \notin ge
    BY <2>1, <2>2, <2>3
  <2>5. m < Len(s) => h[x] >= h[s[m + 1]]
    BY <2>3, <2>4
  <2>6. QED
    BY <1>0, <2>2, <2>5
<1>5. QED
  BY <1>3, <1>4

(* A task leaves one waiting queue, or joins one, or the waiting queues    *)
(* stay as they are.                                                       *)
Leaving ==
  \E q \in Queue : \E m \in 1..Len(wait_queue[q]) :
    wait_queue' = [wait_queue EXCEPT ![q] = RemoveIndex(wait_queue[q], m)]

Joining == \E x \in Region : EnqueueNow(x)

LEMMA QueueChange ==
  ASSUME IInv, Steady, [Next]_vars
  PROVE  /\ dag' = dag /\ conf' = conf
         /\ wait_queue' = wait_queue \/ Leaving \/ Joining
<1>0. Types /\ Locals
  BY DEF IInv
<1> USE DEF Types, TypeOK, At, shared
<1>1. CASE FLASH_Queue_init_tasks
  <2>1. n_init + 1 \in Region
    BY <1>0, <1>1, Dag DEF FLASH_Queue_init_tasks, Region
  <2>2. QED
    BY <1>1, <2>1 DEF FLASH_Queue_init_tasks, Joining, Enqueue, EnqueueNow, ViewOf
<1>2. ASSUME NEW i \in Thread, Step(i), StepNow(i)
      PROVE  /\ dag' = dag /\ conf' = conf
             /\ wait_queue' = wait_queue \/ Leaving \/ Joining
  <2>0. dag' = dag /\ conf' = conf
    BY <1>0, <1>2, Alone
  <2>1. CASE DequeueTaskNow(i)
    <3>1. MyQueue(i) \in Queue
      BY <1>0, Teams
    <3>2. Leaving
      BY <2>1, <3>1 DEF DequeueTaskNow, DequeueNow, Leaving
    <3>3. QED
      BY <2>0, <3>2
  <2>2. CASE BindDequeueNow(i)
    <3>1. lock[i] \in Queue
      BY <1>0
    <3>2. wait_queue' = wait_queue \/ Leaving
      BY <2>2, <3>1 DEF BindDequeueNow, DequeueNow, Leaving
    <3>3. QED
      BY <2>0, <3>2
  <2>3. CASE StealDequeueNow(i)
    <3> DEFINE s == wait_queue[lock[i]]
    <3>1. lock[i] \in Queue /\ s \in Seq(Task)
      BY <1>0
    <3>2. s # <<>> => Len(s) \in 1..Len(s)
      BY <3>1
    <3>3. wait_queue' = wait_queue
          \/ (s # <<>> /\ wait_queue' = [wait_queue EXCEPT ![lock[i]] = RemoveIndex(s, Len(s))])
      BY <2>3 DEF StealDequeueNow, UnlinkTail
    <3>4. wait_queue' = wait_queue \/ Leaving
      BY <3>1, <3>2, <3>3 DEF Leaving
    <3>5. QED
      BY <2>0, <3>4
  <2>4. CASE EnqueueTaskNow(i)
    <3>1. enq[i] \in Region /\ EnqueueNow(enq[i])
      BY <1>0, <2>4 DEF EnqueueTaskNow, Locals, Local
    <3>2. QED
      BY <2>0, <3>1 DEF Joining
  <2>5. QED
    BY <1>2, <2>0, <2>1, <2>2, <2>3, <2>4
    DEF StepNow, Loop, LoopBound, DequeueNone, Exec, Bind, DepQueue, DepRead, DepDone, Notify, NotifyWrite,
        BindFirst, BindSwap, Ready, FreeWrites, FreeReads, FreeClear, FreeTask, Steal, Commit
<1>3. CASE UNCHANGED vars
  BY <1>3 DEF vars
<1>4. QED
  BY <1>1, <1>2, <1>3, StepIsNow DEF Next

LEMMA HighestFirstStep ==
  ASSUME IInv, Steady, HighestFirst, [Next]_vars
  PROVE  HighestFirst'
<1> DEFINE h == Height(dag)
<1>1. /\ dag' = dag /\ conf' = conf
      /\ wait_queue' = wait_queue \/ Leaving \/ Joining
  BY QueueChange
<1>2. Queue' = Queue /\ Height(dag)' = h
  BY <1>1 DEF Queue
<1> SUFFICES ASSUME conf.sorting, NEW p \in Queue PROVE Sorted(wait_queue'[p], h)
  <2>1. \A p \in Queue : conf'.sorting => Sorted(wait_queue'[p], h)
    BY <1>1
  <2>2. QED
    BY <1>1, <1>2, <2>1 DEF HighestFirst, Sorted
<1>3. /\ dag \in Graph /\ wait_queue \in [Queue -> Seq(Task)]
  BY DEF IInv, Types, TypeOK
<1>4. \A q \in Queue : Sorted(wait_queue[q], h)
  BY DEF HighestFirst, Sorted
<1>5. \A x \in Region : h[x] \in Nat
  BY <1>3, HeightIsNat DEF Region
<1>6. \A q \in Queue : \A m \in 1..Len(wait_queue[q]) : h[wait_queue[q][m]] \in Nat
  BY <1>5, Queued
<1>7. CASE Leaving
  <2>0. PICK q \in Queue : \E m \in 1..Len(wait_queue[q]) :
          wait_queue' = [wait_queue EXCEPT ![q] = RemoveIndex(wait_queue[q], m)]
    BY <1>7 DEF Leaving
  <2>1. PICK m \in 1..Len(wait_queue[q]) :
          wait_queue' = [wait_queue EXCEPT ![q] = RemoveIndex(wait_queue[q], m)]
    BY <2>0
  <2>2. wait_queue'[p] = IF p = q THEN RemoveIndex(wait_queue[q], m) ELSE wait_queue[p]
    BY <1>3, <2>1
  <2>3. Sorted(RemoveIndex(wait_queue[q], m), h)
    <3>1. wait_queue[q] \in Seq(Task)
      BY <1>3
    <3> HIDE DEF h
    <3>2. QED
      BY <1>4, <1>6, <3>1, RemovedSorted
  <2>4. QED
    BY <1>4, <2>2, <2>3
<1>8. CASE Joining
  <2>1. PICK x \in Region : EnqueueNow(x)
    BY <1>8 DEF Joining
  <2>2. x \in Task /\ queue[x] \in Queue
    BY Dag DEF IInv, Types, TypeOK
  <2>3. PICK q \in Queue : q = queue[x]
    BY <2>2
  <2>4. PICK s \in Seq(Task) : s = wait_queue[q]
    BY <1>3
  <2>5. wait_queue' = [wait_queue EXCEPT ![q] = InsertIndex(s, Keep(s, x), x)]
    BY <2>1, <2>3, <2>4 DEF EnqueueNow
  <2>6. wait_queue'[p] = IF p = q THEN InsertIndex(s, Keep(s, x), x) ELSE wait_queue[p]
    BY <1>3, <2>5
  <2>7. h[x] \in Nat /\ (\A n \in 1..Len(s) : h[s[n]] \in Nat) /\ Sorted(s, h)
    BY <1>4, <1>5, <1>6, <2>4
  <2>8. /\ Keep(s, x) \in 0..Len(s)
        /\ Keep(s, x) > 0 => h[s[Keep(s, x)]] >= h[x]
        /\ Keep(s, x) < Len(s) => h[x] >= h[s[Keep(s, x) + 1]]
    BY <2>7, KeepSorted
  <2>9. Sorted(InsertIndex(s, Keep(s, x), x), h)
    <3>1. PICK m \in 0..Len(s) : m = Keep(s, x)
      BY <2>8
    <3> HIDE DEF h
    <3>2. QED
      BY <2>2, <2>7, <2>8, <3>1, InsertedSorted
  <2>10. QED
    BY <1>4, <2>6, <2>9
<1>9. QED
  BY <1>1, <1>4, <1>7, <1>8

LEMMA HighestFirstInit == Init => HighestFirst
<1> SUFFICES ASSUME NEW e \in Execution, InitWith(e.graph, e.setting), NEW q \in Queue,
                    NEW m \in 1..(Len(wait_queue[q]) - 1)
             PROVE  FALSE
  BY DEF Init, HighestFirst
<1>1. wait_queue[q] = <<>>
  BY DEF InitWith
<1>2. QED
  BY <1>1

(* Whatever the order in which tasks become ready, are taken and stolen,   *)
(* with sorting every waiting queue is in order of height: what            *)
(* FLASH_Queue_wait_enqueue does on one queue under its lock is never      *)
(* undone. Provided, as for QueuesLocked, that work stealing is used on    *)
(* graphs in which no task has two predecessors.                           *)
THEOREM LongestPathFirst ==
  ASSUME SinglePredecessors
  PROVE  Spec => []HighestFirst
<1>1. (IInv /\ Steady /\ HighestFirst) /\ [Next]_vars => (IInv /\ Steady /\ HighestFirst)'
  BY InvariantNext, HighestFirstStep
<1>2. Init => IInv /\ Steady /\ HighestFirst
  BY InvariantInit, SteadyInit, HighestFirstInit
<1>3. QED
  BY <1>1, <1>2, PTL DEF Spec

=============================================================================
