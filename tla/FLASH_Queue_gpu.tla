-------------------------- MODULE FLASH_Queue_gpu --------------------------
(***************************************************************************)
(* The execution of a region on GPUs, one for each worker thread           *)
(* (src/base/flamec/supermatrix/main/FLASH_Queue_exec.c and                *)
(* gpu/main/FLASH_Queue_gpu.c, built with FLA_ENABLE_GPU).                 *)
(*                                                                         *)
(* Each GPU keeps the blocks used last in its own memory and the output    *)
(* blocks of its tasks only there, until another thread requests them, they*)
(* are evicted, or the region ends.  A task whose blocks are not all up to *)
(* date goes back to the waiting queue.                                    *)
(*                                                                         *)
(* The contents of a block are its name and the number of tasks that have  *)
(* written it, so that a stale copy is told from a current one.  A section *)
(* under gpu_lock is one step, a transfer takes effect in the step that    *)
(* ends it.  A loop over the arguments of a task is the set todo of its    *)
(* remaining steps, which are taken in the loop's order; it is through     *)
(* when the set is empty.  Dependences are those that FLASH_Queue          *)
(* guarantees.                                                             *)
(***************************************************************************)
EXTENDS Integers, SequencesExt

CONSTANTS
  Block,     \* the blocks of the matrices
  NULL,      \* no block
  NThreads,  \* threads, and GPUs
  NBlocks,   \* flash_queue_gpu_n_blocks, the blocks that a GPU can store
  Program    \* the sequences of tasks to execute

Worker == 0..(NThreads - 1)
Buffer == 1..NBlocks

(* The arguments of a task and whether it can execute on a GPU.            *)
OpType == [in : Seq(Block), out : Seq(Block), gpu : BOOLEAN]

Operands(o) == ToSet(o.in) \cup ToSet(o.out)

(* A GPU stores all blocks of a task at the same time (there are 128).     *)
ASSUME GpuAssumption ==
  /\ NULL \notin Block /\ NThreads \in Nat \ {0} /\ NBlocks \in Nat
  /\ \A p \in Program : p \in Seq(OpType) /\ p # <<>>
       /\ \A x \in 1..Len(p) : p[x].gpu => Cardinality(Operands(p[x])) <= NBlocks

VARIABLES
  op,           \* the tasks of the region
  state,        \* of each task: "waiting", "taken" or "done"
  n_committed,  \* args->pc
  gpu,          \* the stored blocks of each GPU, the one used last first
  victim,       \* of each GPU: the block being evicted, or NULL
  gpu_log,      \* of each GPU: the slots to be flushed
  reads,        \* of each thread: those it has still to read
  place, todo,     \* of each thread: where it is, the rest of the loop there
  t, ok,        \* of each thread: its task, whether the task's blocks are ready
  obj,          \* of each thread: the block being brought to its GPU, or NULL
  arg,          \* of each thread: input_arg and output_arg
  device,       \* the contents of the buffers of each GPU
  main,         \* the contents of main memory
  written       \* history: the number of tasks that have written a block

gpuVars == <<op, state, n_committed, gpu, victim, gpu_log, reads, place, todo, t, ok, obj, arg,
             device, main, written>>

tasks == <<op, state, n_committed, t, ok>>
cache == <<gpu, victim>>
log == <<gpu_log, reads>>
memory == <<device, main, written>>

-----------------------------------------------------------------------------
(* The steps of the loops over the arguments.  A block that occurs several *)
(* times is treated once, where it occurs first, and as an output if it is *)
(* input and output.                                                       *)

Inputs(x) == ToSet(op[x].in)
Outputs(x) == ToSet(op[x].out)
Blocks(x) == Inputs(x) \cup Outputs(x)

(* The place of a block in loops that go up the inputs, then the outputs,  *)
(* and in loops that go down the inputs, then the outputs.                 *)
Index(s, b) == CHOOSE n \in DOMAIN s : s[n] = b /\ \A m \in 1..(n - 1) : s[m] # b
Up(x, b) ==
  IF b \in Outputs(x) THEN Len(op[x].in) + Index(op[x].out, b) ELSE Index(op[x].in, b)
Down(x, b) ==
  IF b \in Outputs(x) THEN -Index(op[x].out, b) ELSE -Len(op[x].out) - Index(op[x].in, b)

(* What to do with which block on which GPU, and when in the loop.         *)
Step(what, b, k, when) == [what |-> what, block |-> b, at |-> k, when |-> when]
Before(s, r) ==
  \E n \in 1..3 : s.when[n] < r.when[n] /\ \A m \in 1..(n - 1) : s.when[m] = r.when[m]

(* Step s is the next one of thread i's loop.                              *)
Due(i, s) == s \in todo[i] /\ \A r \in todo[i] \ {s} : Before(s, r)
Continue(i, s) == todo' = [todo EXCEPT ![i] = @ \ {s}]
Enter(i, label) == place' = [place EXCEPT ![i] = label]

CheckPlan(i, x) ==
  {Step("check", b, k, <<Up(x, b), k, 0>>) : b \in Blocks(x), k \in Worker \ {i}}

\* Mutant: the other GPUs keep their copies of the output blocks.
UpdateOnly(i, x) == {Step("fetch", b, i, <<Down(x, b), -1, 0>>) : b \in Blocks(x)}

(* FLASH_Queue_update_gpu.                                                 *)
UpdatePlan(i, x) ==
  {Step("fetch", b, i, <<Down(x, b), -1, 0>>) : b \in Blocks(x)}
    \cup {Step("invalidate", b, k, <<Down(x, b), k, 0>>) : b \in Outputs(x), k \in Worker \ {i}}

MarkPlan(i, x) == {Step("mark", b, i, <<Down(x, b), 0, 0>>) : b \in Outputs(x)}

(* Before a task that cannot execute on a GPU: the thread's own GPU is     *)
(* flushed, the output blocks are invalidated on all.                      *)
ClearPlan(i, x) ==
  {Step("flush", b, i, <<i, Up(x, b), 0>>) : b \in Blocks(x)}
    \cup {Step("invalidate", b, k, <<k, Up(x, b), 1>>) : b \in Outputs(x), k \in Worker}

-----------------------------------------------------------------------------
(* Tasks.                                                                  *)

Conflict(x, y) == \/ Outputs(x) \cap Blocks(y) # {}
                  \/ Outputs(y) \cap Blocks(x) # {}

(* On the waiting queue.                                                   *)
Available(x) ==
  state[x] = "waiting" /\ \A y \in 1..(x - 1) : Conflict(x, y) => state[y] = "done"

Slot == [block : Block \cup {NULL}, clean : BOOLEAN, request : BOOLEAN, buf : Buffer]

GpuInit ==
  /\ op \in Program
  /\ state = [x \in DOMAIN op |-> "waiting"] /\ n_committed = 0
  /\ gpu = [i \in Worker |-> [n \in Buffer |->
             [block |-> NULL, clean |-> TRUE, request |-> FALSE, buf |-> n]]]
  /\ victim = [i \in Worker |-> NULL]
  /\ gpu_log = [i \in Worker |-> <<>>] /\ reads = [i \in Worker |-> {}]
  /\ place = [i \in Worker |-> "loop"] /\ todo = [i \in Worker |-> {}]
  /\ t = [i \in Worker |-> 0] /\ ok = [i \in Worker |-> TRUE]
  /\ obj = [i \in Worker |-> NULL] /\ arg = [i \in Worker |-> [b \in Block |-> 0]]
  /\ device = [i \in Worker |-> [n \in Buffer |-> <<NULL, 0>>]]
  /\ main = [b \in Block |-> <<b, 0>>]
  /\ written = [b \in Block |-> 0]

(* FLASH_Queue_wait_dequeue; without a task the thread goes on.            *)
Dequeue(i) ==
  /\ place[i] = "dequeue"
  /\ \/ \E x \in DOMAIN op :
          /\ Available(x)
          /\ t' = [t EXCEPT ![i] = x]
          /\ ok' = [ok EXCEPT ![i] = TRUE]
          /\ state' = [state EXCEPT ![x] = "taken"]
          /\ todo' = [todo EXCEPT ![i] = CheckPlan(i, x)]
          /\ Enter(i, "check")
     \/ /\ \A x \in DOMAIN op : ~Available(x)
        /\ Enter(i, "commit")
        /\ UNCHANGED <<t, ok, state, todo>>
  /\ UNCHANGED <<op, n_committed, cache, log, obj, arg, memory>>

(* FLASH_Queue_exec_gpu: the task executes, or is enqueued again.          *)
Verdict(i) ==
  /\ place[i] = "check" /\ todo[i] = {}
  /\ IF ok[i]
     THEN /\ IF op[t[i]].gpu
             THEN Enter(i, "update") /\ todo' = [todo EXCEPT ![i] = UpdatePlan(i, t[i])]
             ELSE Enter(i, "clear") /\ todo' = [todo EXCEPT ![i] = ClearPlan(i, t[i])]
          /\ UNCHANGED <<state, t>>
     ELSE /\ Enter(i, "commit")
          /\ state' = [state EXCEPT ![t[i]] = "waiting"]
          /\ t' = [t EXCEPT ![i] = 0]
          /\ UNCHANGED todo
  /\ UNCHANGED <<op, n_committed, ok, cache, log, obj, arg, memory>>

(* The dependent tasks are notified when the outputs have been marked.     *)
Release(i) ==
  /\ place[i] = "mark" /\ todo[i] = {}
  /\ state' = [state EXCEPT ![t[i]] = "done"]
  /\ Enter(i, "commit")
  /\ UNCHANGED <<op, n_committed, t, ok, cache, log, todo, obj, arg, memory>>

(* The end of an iteration, under all_lock.                                *)
Commit(i) ==
  /\ place[i] = "commit"
  /\ n_committed' = n_committed + IF t[i] # 0 THEN 1 ELSE 0
  /\ t' = [t EXCEPT ![i] = 0]
  /\ Enter(i, IF n_committed' >= Len(op) THEN "destroy" ELSE "loop")
  /\ UNCHANGED <<op, state, ok, cache, log, todo, obj, arg, memory>>

-----------------------------------------------------------------------------
(* The blocks stored on GPUs.                                              *)

Located(k, b) == {n \in Buffer : gpu[k][n].block = b}
First(s) == CHOOSE n \in s : \A l \in s : n <= l
Dirty(slot) == slot.block # NULL /\ ~slot.clean

Requesting(k, b) == [gpu EXCEPT ![k] = [n \in Buffer |->
  IF @[n].block = b /\ Dirty(@[n]) THEN [@[n] EXCEPT !.request = TRUE] ELSE @[n]]]

\* Mutant: the block being evicted is not looked at.
CheckSlotsOnly(i) ==
  /\ place[i] = "check"
  /\ \E s \in todo[i] :
       /\ Due(i, s)
       /\ gpu' = Requesting(s.at, s.block)
       /\ IF \E n \in Located(s.at, s.block) : Dirty(gpu[s.at][n])
          THEN /\ ok' = [ok EXCEPT ![i] = FALSE]
               /\ todo' = [todo EXCEPT ![i] = {r \in @ : r.block # s.block}]
          ELSE Continue(i, s) /\ UNCHANGED ok
  /\ UNCHANGED <<op, state, n_committed, t, place, victim, log, obj, arg, memory>>

(* FLASH_Queue_check_block_gpu: a block that is dirty on another GPU is    *)
(* requested.  A failed check ends those of its block.                     *)
Check(i) ==
  /\ place[i] = "check"
  /\ \E s \in todo[i] :
       /\ Due(i, s)
       /\ gpu' = Requesting(s.at, s.block)
       /\ IF \/ \E n \in Located(s.at, s.block) : Dirty(gpu[s.at][n])
             \/ victim[s.at] = s.block
          THEN /\ ok' = [ok EXCEPT ![i] = FALSE]
               /\ todo' = [todo EXCEPT ![i] = {r \in @ : r.block # s.block}]
          ELSE Continue(i, s) /\ UNCHANGED ok
  /\ UNCHANGED <<op, state, n_committed, t, place, victim, log, obj, arg, memory>>

(* Where a fetched block is or will be: at a hit or at the last place.     *)
PlaceFor(i, b) ==
  LET hit == Located(i, b) \ {NBlocks} IN IF hit # {} THEN First(hit) ELSE NBlocks

(* The slots s after the one at place k has become first, as e.            *)
UsedLast(s, k, e) ==
  [n \in Buffer |-> IF n = 1 THEN e ELSE IF n <= k THEN s[n - 1] ELSE s[n]]

(* FLASH_Queue_update_block_gpu.                                           *)
Fetch(i) ==
  /\ place[i] = "update"
  /\ \E s \in todo[i] :
       LET b     == s.block
           k     == PlaceFor(i, b)
           old   == gpu[i][k]
           miss  == old.block # b
           evict == miss /\ Dirty(old)
           new   == IF miss THEN [old EXCEPT !.block = b, !.clean = TRUE, !.request = FALSE]
                            ELSE old
       IN  /\ Due(i, s) /\ s.what = "fetch" /\ Continue(i, s)
           /\ arg' = [arg EXCEPT ![i][b] = old.buf]
           /\ gpu' = [gpu EXCEPT ![i] = UsedLast(@, k, new)]
           /\ victim' = IF evict THEN [victim EXCEPT ![i] = old.block] ELSE victim
           /\ obj' = IF miss THEN [obj EXCEPT ![i] = b] ELSE obj
           /\ Enter(i, IF evict THEN "evict" ELSE IF miss THEN "write" ELSE "update")
  /\ UNCHANGED <<tasks, log, memory>>

Evicted(i) ==
  /\ place[i] = "evicted"
  /\ victim' = [victim EXCEPT ![i] = NULL]
  /\ Enter(i, "write")
  /\ UNCHANGED <<tasks, gpu, log, todo, obj, arg, memory>>

Empty(slot) == [slot EXCEPT !.block = NULL, !.clean = TRUE, !.request = FALSE]

(* The slot at place k is the next to be used.                             *)
Freed(s, k) ==
  [n \in Buffer |-> IF n < k THEN s[n] ELSE IF n < NBlocks THEN s[n + 1] ELSE Empty(s[k])]

(* FLASH_Queue_invalidate_block_gpu.                                       *)
Invalidate(i) ==
  /\ place[i] \in {"update", "clear"}
  /\ \E s \in todo[i] :
       LET n == Located(s.at, s.block)
       IN  /\ Due(i, s) /\ s.what = "invalidate" /\ Continue(i, s)
           /\ gpu' = IF n = {} THEN gpu ELSE [gpu EXCEPT ![s.at] = Freed(@, First(n))]
  /\ UNCHANGED <<tasks, victim, log, place, obj, arg, memory>>

\* Mutant: an output block keeps its mark as clean.
MarkNothing(i) ==
  /\ place[i] = "mark"
  /\ \E s \in todo[i] : Due(i, s) /\ Continue(i, s)
  /\ UNCHANGED <<tasks, cache, log, place, obj, arg, memory>>

(* FLASH_Queue_mark_gpu.                                                   *)
MarkBlock(i) ==
  /\ place[i] = "mark"
  /\ \E s \in todo[i] :
       /\ Due(i, s) /\ Continue(i, s)
       /\ gpu' = [gpu EXCEPT ![i] = [n \in Buffer |->
                    IF @[n].block = s.block THEN [@[n] EXCEPT !.clean = FALSE, !.request = FALSE]
                                            ELSE @[n]]]
  /\ UNCHANGED <<tasks, victim, log, place, obj, arg, memory>>

\* Mutant: no block is ever flushed on request.
FlushLater(slot) == FALSE

Requested(slot) == Dirty(slot) /\ slot.request

(* The slots of the set s are to be flushed.                               *)
LogSlots(i, s) ==
  /\ gpu_log' = [gpu_log EXCEPT ![i] = [n \in s |-> gpu[i][n]]]
  /\ reads' = [reads EXCEPT ![i] = s]

(* FLASH_Queue_flush_gpu: the dirty blocks that others have requested.     *)
FlushGpu(i) ==
  /\ place[i] = "loop"
  /\ LET s == {n \in Buffer : Requested(gpu[i][n])}
     IN  LogSlots(i, s) /\ Enter(i, IF s = {} THEN "dequeue" ELSE "flush")
  /\ UNCHANGED <<tasks, cache, todo, obj, arg, memory>>

(* FLASH_Queue_flush_block_gpu, which keeps its block in a local variable. *)
FlushBlock(i) ==
  /\ place[i] = "clear"
  /\ \E s \in todo[i] :
       LET dirty == {n \in Located(i, s.block) : Dirty(gpu[i][n])}
       IN  /\ Due(i, s) /\ s.what = "flush" /\ Continue(i, s)
           /\ LogSlots(i, dirty) /\ Enter(i, IF dirty = {} THEN "clear" ELSE "flush")
  /\ UNCHANGED <<tasks, cache, obj, arg, memory>>

Logged(i) == {gpu_log[i][n].block : n \in DOMAIN gpu_log[i]}

(* The second critical section of both.                                    *)
Clean(i) ==
  /\ place[i] = "flush" /\ reads[i] = {}
  /\ gpu' = [gpu EXCEPT ![i] = [n \in Buffer |->
               IF @[n].block \in Logged(i) THEN [@[n] EXCEPT !.clean = TRUE, !.request = FALSE]
                                           ELSE @[n]]]
  /\ gpu_log' = [gpu_log EXCEPT ![i] = <<>>]
  /\ Enter(i, IF t[i] = 0 THEN "dequeue" ELSE "clear")
  /\ UNCHANGED <<tasks, victim, reads, todo, obj, arg, memory>>

(* FLASH_Queue_destroy_gpu flushes what is dirty at the end.               *)
Destroy(i) ==
  /\ place[i] = "destroy"
  /\ LogSlots(i, {n \in Buffer : Dirty(gpu[i][n])})
  /\ Enter(i, "exit")
  /\ UNCHANGED <<tasks, cache, todo, obj, arg, memory>>

-----------------------------------------------------------------------------
(* Transfers and computations, which hold no lock.                         *)

NextRead(i, n) == n \in reads[i] /\ \A m \in reads[i] : n <= m

(* FLASH_Queue_read_gpu, of logged slots ...                               *)
Read(i) ==
  /\ place[i] \in {"flush", "exit"}
  /\ \E n \in reads[i] :
       /\ NextRead(i, n)
       /\ main' = [main EXCEPT ![gpu_log[i][n].block] = device[i][gpu_log[i][n].buf]]
       /\ reads' = [reads EXCEPT ![i] = @ \ {n}]
  /\ UNCHANGED <<tasks, cache, gpu_log, place, todo, obj, arg, device, written>>

(* ... and of the block being evicted, whose buffer the next one gets.     *)
ReadVictim(i) ==
  /\ place[i] = "evict"
  /\ main' = [main EXCEPT ![victim[i]] = device[i][arg[i][obj[i]]]]
  /\ Enter(i, "evicted")
  /\ UNCHANGED <<tasks, cache, log, todo, obj, arg, device, written>>

(* FLASH_Queue_write_gpu.                                                  *)
Write(i) ==
  /\ place[i] = "write"
  /\ device' = [device EXCEPT ![i][arg[i][obj[i]]] = main[obj[i]]]
  /\ obj' = [obj EXCEPT ![i] = NULL]
  /\ Enter(i, "update")
  /\ UNCHANGED <<tasks, cache, log, todo, arg, main, written>>

Computing(i) == place[i] = "update" /\ todo[i] = {}
ComputingOnCpu(i) == place[i] = "clear" /\ todo[i] = {}

Overwrite(x) ==
  written' = [b \in Block |-> IF b \in Outputs(x) THEN written[b] + 1 ELSE written[b]]

(* FLASH_Queue_exec_task_gpu: the task writes the buffers of its outputs.  *)
Compute(i) ==
  /\ Computing(i)
  /\ Overwrite(t[i])
  /\ device' = [device EXCEPT ![i] = [k \in Buffer |->
       LET b == {c \in Outputs(t[i]) : arg[i][c] = k}
       IN  IF b = {} THEN @[k] ELSE LET c == CHOOSE c \in b : TRUE IN <<c, written[c] + 1>>]]
  /\ todo' = [todo EXCEPT ![i] = MarkPlan(i, t[i])]
  /\ Enter(i, "mark")
  /\ UNCHANGED <<tasks, cache, log, obj, arg, main>>

(* FLASH_Queue_exec_task, after which there is nothing to mark.            *)
ComputeOnCpu(i) ==
  /\ ComputingOnCpu(i)
  /\ Overwrite(t[i])
  /\ main' = [b \in Block |-> IF b \in Outputs(t[i]) THEN <<b, written[b] + 1>> ELSE main[b]]
  /\ Enter(i, "mark")
  /\ UNCHANGED <<tasks, cache, log, todo, obj, arg, device>>

Terminated == \A i \in Worker : place[i] = "exit" /\ reads[i] = {}

WorkOn(i) ==
  \/ FlushGpu(i) \/ Dequeue(i) \/ Check(i) \/ Verdict(i) \/ Fetch(i) \/ Evicted(i)
  \/ Invalidate(i) \/ MarkBlock(i) \/ FlushBlock(i) \/ Clean(i) \/ Read(i) \/ ReadVictim(i)
  \/ Write(i) \/ Compute(i) \/ ComputeOnCpu(i) \/ Release(i) \/ Commit(i) \/ Destroy(i)

GpuNext == (\E i \in Worker : WorkOn(i)) \/ (Terminated /\ UNCHANGED gpuVars)

GpuSpec == GpuInit /\ [][GpuNext]_gpuVars

(* Every thread keeps running.                                             *)
GpuFairSpec == GpuSpec /\ \A i \in Worker : WF_gpuVars(WorkOn(i))

-----------------------------------------------------------------------------
(* Properties.                                                             *)

Label == {"loop", "dequeue", "check", "update", "evict", "evicted", "write", "clear", "flush",
          "mark", "commit", "destroy", "exit"}

Value == (Block \cup {NULL}) \X Nat

GpuTypeOK ==
  /\ op \in Program /\ state \in [DOMAIN op -> {"waiting", "taken", "done"}]
  /\ n_committed \in 0..Len(op)
  /\ gpu \in [Worker -> [Buffer -> Slot]]
  /\ victim \in [Worker -> Block \cup {NULL}]
  /\ reads \in [Worker -> SUBSET Buffer] /\ DOMAIN gpu_log = Worker
  /\ \A i \in Worker : /\ DOMAIN gpu_log[i] \subseteq Buffer
                       /\ gpu_log[i] \in [DOMAIN gpu_log[i] -> Slot]
  /\ place \in [Worker -> Label] /\ DOMAIN todo = Worker
  /\ t \in [Worker -> {0} \cup DOMAIN op] /\ ok \in [Worker -> BOOLEAN]
  /\ obj \in [Worker -> Block \cup {NULL}] /\ arg \in [Worker -> [Block -> {0} \cup Buffer]]
  /\ device \in [Worker -> [Buffer -> Value]] /\ main \in [Block -> Value]
  /\ written \in [Block -> Nat]

(* A task computes, on the GPU or on the CPU, with what the tasks before   *)
(* it have written, although every copy of a block but one is stale then.  *)
OperandsCurrent ==
  \A i \in Worker :
    /\ Computing(i) => \A b \in Blocks(t[i]) : device[i][arg[i][b]] = <<b, written[b]>>
    /\ ComputingOnCpu(i) => \A b \in Blocks(t[i]) : main[b] = <<b, written[b]>>

(* The blocks in main memory that the present step of thread i writes, and *)
(* those that it reads.                                                    *)
MainWrites(i) ==
  CASE place[i] \in {"flush", "exit"} ->
         {gpu_log[i][n].block : n \in {m \in reads[i] : NextRead(i, m)}}
    [] place[i] = "evict" -> {victim[i]}
    [] ComputingOnCpu(i)  -> Outputs(t[i])
    [] OTHER              -> {}
MainReads(i) ==
  CASE place[i] = "write" -> {obj[i]}
    [] ComputingOnCpu(i) -> Blocks(t[i])
    [] OTHER             -> {}

(* While a block is transferred from a GPU to main memory, without a lock, *)
(* no other thread uses it there.                                          *)
TransfersApart ==
  \A i, k \in Worker :
    i # k => MainWrites(i) \cap (MainReads(k) \cup MainWrites(k)) = {}

(* When the region has ended main memory holds all results, and no task    *)
(* was lost while it went back to the queue.                               *)
ResultsInMain ==
  Terminated => \A b \in Block :
    main[b] = <<b, written[b]>>
      /\ written[b] = Cardinality({x \in DOMAIN op : b \in Outputs(x)})

(* The region ends: a request is answered, and a task that waits for it is *)
(* not enqueued forever.                                                   *)
RegionEnds == <>Terminated

=============================================================================
