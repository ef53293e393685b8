# A verification development for libflame

libflame is a library of dense linear algebra (factorisations, solvers,
eigenvalue problems) in C, with an object-oriented interface (FLAME), matrices
stored by blocks (FLASH), a translated LAPACK interface and, in this tree,
multithreaded LAPACK kernels. Most of its lines are numerical: what they compute
is a matter of linear algebra and rounding, and is tested against residuals.
What a test hardly reaches is the logic that decides *in which order and by which
thread* the numerical work is done. That logic is small, shared by every routine,
and is what this development models, checks and proves:

* **SuperMatrix**, the run-time system that turns a sequence of block operations
  into a graph of tasks and executes it out of order on several threads;
* the **multithreaded kernels** of the LAPACK interface (LU with look-ahead, tile
  Cholesky, bidiagonal and tridiagonal reduction) and what they rest on: the spin
  barrier, the partitioning of ranges, the library's thread counts.

All paths below are relative to the repository. Every definition that stands for
code is listed with its file and lines in `PROJECT.json` ("map").

## 1. Inventory

| Component | Source | State it keeps | Operations | What makes it correct |
|---|---|---|---|---|
| SuperMatrix, dependence analysis | `src/base/flamec/supermatrix/main/FLASH_Queue.c`, `include/FLASH_Queue_macro_defs.h` | nesting of parallel regions, the task queue, per task its dependence list and counts, per block its last writer, its readers since and its ids | begin, end, enable, disable, init, finalize, push (allocation, one analysis per operand, append) | the lists order every two tasks that conflict; the counts equal the notifications a task gets; a block forgets the tasks of a region when they are freed |
| SuperMatrix, execution | `supermatrix/main/FLASH_Queue_exec.c` | waiting queues, task fields `n_ready`, `queue`, `hit`, three families of locks, the count of committed tasks, each worker's place | initialise tasks, dequeue, execute, notify dependents, bind, enqueue, steal, free, commit | every task runs once and after its predecessors; none is lost; nothing is used after it is freed; the region ends; the queues stay sorted |
| SuperMatrix on GPUs | the same file, `supermatrix/gpu/main/FLASH_Queue_gpu.c` | per GPU the stored blocks in order of use, with clean and request marks, the block being evicted, the blocks being flushed | check, update (fetch, evict, invalidate), mark, flush, enqueue again, destroy | no task computes with a stale copy; transfers without a lock meet no other access; results reach main memory; requests are answered |
| SuperMatrix on the single chip cloud computer, simulated | the same file | message buffers; simulated threads | as in the executor | as in the executor |
| Spin barrier, atomic maximum | `include/FLA_Threads.h` | arrival counter, epoch, gate | init, wait | nobody leaves early; no arrival is lost when the barrier is reused; everybody gets through |
| Thread partitioning | `main/FLA_Threads.c` | none | two functions | the parts of a team are disjoint, cover the range, and (by cache lines) share no line |
| Multithreaded LU | `src/lapack/dec/lu/piv/front/flamec/FLA_LU_piv_d.c` (and `_s`, `_z`) | the matrix, the pivots, each thread's iteration | two parallel regions with a barrier per iteration | no data race; every column gets the operations of the sequential factorisation |
| Multithreaded LABRD | `src/map/lapack2flamec/f2c/c/dlabrd_var1.c` | the matrix, the vectors X and Y, one row buffer, all shared by the team | sections of calls between barriers, one of them a single section without one | no data race; every element written as by one thread; the buffer holds what its reader expects; all get through |
| Tile Cholesky | `src/map/lapack2flamec/f2c/c/dpotrf_var2.c` | a step counter per tile, counts of finalised tiles and columns, the first error | scan, readiness test, claim by compare-and-swap, operation, publication, error record | no two threads meet at a tile; the operations run once in the order of the sequential algorithm; the first failure is reported; no thread scans for ever |
| Band to tridiagonal reduction | `src/map/lapack2flamec/f2c/c/dsytrd_sb2st.c`, `dsb2st_kernels.c`, `iparam2stage.c` | the band with its bulges, two alternating places of reflectors, the OpenMP tasks | generation of tasks with depend clauses, three kernels, the workspace query | the clauses order all conflicting kernels; reflectors are current; the result is tridiagonal; the workspace has room for every thread |
| Run-time context | `main/FLA_Context.c` | global and per-thread thread counts, one-time initialisation | query, set | the context is complete before it is read; a query returns what the thread, the environment or OpenMP has set |
| Initialisation, memory, locks | `main/FLA_Init.c`, `FLA_Memory.c`, `FLA_Lock.c` | flags, leak counter | init, finalize, allocate, free, lock, unlock | balanced calls restore the state |
| Objects, views, partitioning, blocking | `main/FLA_Obj.c`, `FLA_View.c`, `FLA_Blocksize.c`, `hierarchy/main/*` | views: base, offsets, sizes | part, repart, cont-with, hierarchy creation | no row or column is lost or repeated |
| Algorithmic variants, control trees | `src/lapack`, `src/blas` | none of their own | numerical | linear algebra |
| Translated LAPACK, C and C++ interfaces, `netlib-test` | `src/map`, `src/lapacke`, `src/src_cpp` | none of their own | numerical, argument conversion | tests against residuals |

How they interact. A FLASH routine walks its matrices with views and, for each
block operation, expands an `ENQUEUE_` macro: with SuperMatrix disabled it
computes at once, otherwise it calls `FLASH_Queue_push`. `FLASH_Queue_end` of the
outermost region calls `FLASH_Queue_exec`, which initialises the tasks and starts
the workers (OpenMP or POSIX threads, through `FLA_Lock.c`). Analysis and
execution share the fields of tasks and blocks; nothing else. The multithreaded
LAPACK kernels do not use SuperMatrix: they ask `FLA_Context.c` for a number of
threads and open an OpenMP region. LU and LABRD divide the work with
`FLA_Threads.c` and meet at barriers, LABRD at the spin barrier of
`FLA_Threads.h`; the tile Cholesky has neither locks nor barriers, only atomic step
counters; the band reduction leaves the order to the depend clauses of OpenMP.

What is hard. Interleavings of the workers (each lock protects one thing, and its
index is chosen by a rule of its own); ordering (dependences on the last writer
and the readers since stand for all earlier conflicts); counts that must match
exactly (one notification too few and the region hangs); pointers into tasks that
free themselves; a barrier that is reused before everybody has left it;
look-ahead, where a panel is factored while its predecessor is still applied;
counters that are read, acted upon and by then have changed; depend clauses that
name a few addresses in place of all that a kernel touches; scratch space that is
used again within an iteration. There is no persistence and no network, so no crash recovery and no message loss.
`PROJECT.json` lists the hazards at their lines with the properties that cover
them; hazards of code that is not modelled yet are named in section 7.

## 2. Modules

| Module | Models | Role |
|---|---|---|
| `FLASH_Queue` | regions and dependence analysis | state machine, actions named after the functions |
| `FLASH_Queue_proofs` | | theorems about it |
| `TaskDAG` | what a region promises its caller | abstract specification |
| `FLASH_Queue_exec` | the parallel executor | implements `TaskDAG` |
| `FLASH_Queue_exec_proofs` | | theorems about it |
| `FLASH_Queue_gpu` | workers with a GPU each | one step per critical section and transfer |
| `FLA_Barrier` | the spin barrier | one step per atomic access |
| `FLA_Threads` | the partitioning functions | operators |
| `FLA_Team` | a team that divides a range | properties of the operators |
| `FLA_Threads_proofs` | | lemmas on the operators: the parts of a range tile it |
| `FLA_LU_piv_parallel` | the look-ahead LU factorisation | uses `FLA_Threads` |
| `FLA_LU_piv_parallel_proofs` | | theorems about it, with `FLA_Threads_proofs` |
| `FLA_Context` | initialisation and thread counts | one step per shared access |
| `Workers_proofs` | | theorems about the team, the context and the workers with GPUs |
| `dlabrd_var1` | the bidiagonal reduction of a panel | extends `FLA_Barrier` and `FLA_Threads`: the threads' calls between the barrier's own steps |
| `dlabrd_var1_proofs` | | theorems about the barrier, and about its user with the lemmas of `FLA_Threads_proofs` |
| `dpotrf_var2` | the tile Cholesky factorisation | one step per atomic access; implements `TaskDAG` |
| `dpotrf_var2_proofs` | | theorems about it |
| `dsytrd_sb2st` | bulge chasing with OpenMP tasks | generation, dependences, kernels, workspace |
| `dsytrd_sb2st_proofs` | | theorems about it |
| `MC_*` | | instances and configurations; `MC_FLA_Team` puts the team and the context, which share no variable, in one instance and lets one move after the other |

### FLASH_Queue

A task is named by its place in the queue, a block (base object) is a model
value. An operation is its list of input blocks, its list of output blocks and
the numbers of arguments these make up: several blocks may belong to one
macroblock argument, which counts as one argument. The fields of `FLASH_Task` and
of `FLA_Base_obj` are functions on tasks and blocks with the same names; the
linked lists `dep_arg_head` and `read_task_head` are sequences. `FLASH_Queue_push` is split
into its allocation, one action per operand block (`push_input`, `push_output`)
and the append, because the body of each is what the dependence rules are about;
a single thread pushes, and no other action is enabled in between. Executing the
queue is, seen from here, one step that frees all tasks (`FLASH_Task_free` clears
the last writers and the lists of readers); that the parallel executor has just
this effect is the invariant `NothingLeft` of `FLASH_Queue_exec`.

Abstracted: task functions and argument lists (only which blocks they touch),
names, verbosity, timing, getters and setters.

### FLASH_Queue_exec and TaskDAG

The graph of a region (dependence lists, counts, blocks) and the user's settings
are chosen in the initial state; `Configure` computes the settings in effect as
`FLASH_Queue_exec` does, and `QueueOf` the queue of a task by its data affinity.
Each worker has a program counter and the locals of
`FLASH_Queue_exec_parallel_function` and the functions it calls. Every acquisition
of `run_lock`, `dep_lock` and `war_lock` is a step, with the index the code
computes; so is every access to `n_ready`, to `queue` (which the code writes
without a lock and reads back in a step of its own, `DepQueue` and `DepRead`) and to the lists of
readers. A waiting queue is a sequence. A worker reads it when it has got a `run_lock` (`view`, of
the queue it is going to work on) and writes the changed sequence when it releases the
lock: with the right lock these two steps are as good as one, with the lock of another
queue (`exec_race`) what others have done to the list in between is
overwritten. That stands for the many
steps of the code, where links, ends and length are read and written one by one; which
mixture of the two lists comes of it is not told apart. The sections under `all_lock` and
`cac_lock` are one step, since one lock protects all of what they touch. Whether
the block of a waiting task is found in the simulated cache is a
nondeterministic choice; `hit` and `binding` follow from it as in the code.

`TaskDAG` says what the user's guide promises: tasks start after their
predecessors, run once, and the region ends after all have run. `Promise` maps
the executor's `state`, graph and program counters to it, and
`ObservesDependences` (the abstract `Spec` as a property) is the refinement.

### FLASH_Queue_gpu

The contents of a block are the block and the number of tasks that have written
it, in main memory and in every buffer of every GPU, so that stale copies, lost
results and swapped buffers are all visible. `gpu` is the array of stored blocks,
the one used last first; each entry keeps its buffer when it moves, as in the
code. A critical
section under `gpu_lock` is one step, and so is a transfer or a computation,
which happen outside the lock; between two steps any other worker may act. The
functions that loop over the operands of a task (`FLASH_Queue_check_gpu`,
`_update_gpu`, `_mark_gpu`, and the flushes and invalidations before a task for the
CPU) are the sets `CheckPlan`, `UpdatePlan`, `MarkPlan` and `ClearPlan` of the steps
they consist of, each with its moment in the loop; a block that occurs more than
once is treated once, as in the code. `todo` is the set of the steps a worker has
still to take in its loop, and only the one that is first in the loop's order is `Due`.
`FLASH_Queue_flush_block_gpu` and `FLASH_Queue_flush_gpu` share
the logging of slots (`LogSlots`) and their second section (`Clean`); the former keeps its block in
a local variable.

Abstracted: which task a worker dequeues (any that is on the waiting queue;
cache affinity and the task bound to a worker only narrow this choice), the
dependences (those that `FLASH_Queue` guarantees), macroblocks (which GPUs do not
execute), device allocation. The numbers of the GPU's arguments are the buffers in
`arg`. A worker whose task is not ready does nothing else
with it than enqueue it again, so `ok` is the result of `FLASH_Queue_check_gpu`.

### FLA_Barrier

Every atomic load, store and fetch-and-add of `FLA_BARRIER_WAIT` is a step; a spin
loop is a step that is enabled when its condition holds. `passed` counts, for the
properties, how often a thread has left. In every reachable state the first spin
loop (`Sync`) finds its condition true at once: the gate is opened after the
epoch is advanced, but only a thread that is not waiting can enter, and none
exists in between. The comment on `release_flag` ("set to 1 once all threads arrive; reset
to 0 by last thread leaving") describes an earlier barrier: the code, like the comment
above `FLA_BARRIER_WAIT`, counts epochs.

### FLA_Threads, FLA_Team

The two functions as operators, and a team whose threads evaluate them one by
one for every combination of team size, range and element size in the bounds.

### FLA_LU_piv_parallel

A column is the sequence of operations it has undergone, each with its panel; a
pivot index is unset, relative to its panel or absolute. A call of a BLAS or
LAPACK routine is the state of a thread between two steps: `Writes`, `Reads`,
`PivotWrites` and `PivotReads` say what it touches while it lasts, so that two
threads standing at conflicting calls are a data race. Rows are only modelled
where the code tests them. `team` is the number of threads OpenMP provides.

### FLA_Context

One step per access to `fla_context_initialized`, `once_init`, the global context
and the thread-local copy. OpenMP's answers change between calls as a program may
change them. The mutex is modelled as declared, with thread-local
storage, so that each thread locks its own and none excludes another, against the
comment on `fla_global_thread_mutex`. This is harmless because nobody writes the
context after its initialisation, which is what `SettledBeforeUse` says.

### dlabrd_var1

The composition of three components: the steps of `FLA_Barrier` (one per atomic
access) are steps here, and the parts of the threads come from `FLA_Threads`.
Between the barriers a thread makes the calls of its section, whose reads and
writes of A, X, Y, tauq, taup and the row buffer are sets of elements; a thread stands at a call
until the step that ends it. The tall case has ten barriers per column and one
single section without an implied barrier, the wide case four (`dgebrd.c` calls the routine only
with `m >= n`, so that the wide case is that of another caller). `SerialColumn` is
the reference: the calls of one thread in their order, written from the algorithm
and not from the sections. `SerialResult` compares, element by element, the calls that the team
records with the calls of the reference that write the element (`SerialWriters`): the same
ones, each once, in the same order. The row buffer, allocated by `dgebrd.c` (lines 420-430)
with a length that is modelled, holds up to three vectors at a time in parts that
are used again within a column. Scalars `d` and `e` are left out; consecutive calls
of one thread on one part are one call. The rule of one thread in eight for the
smaller teams is a constant (`PerGroup`, `Few`), so that small instances have two teams.

### dpotrf_var2

The upper and the lower triangle are folded onto one layout, as in the code. Every atomic load,
compare-and-swap, store and fetch-and-add is a step of its own, and so is the end of an
operation, so that whatever a thread has loaded may be stale when it uses it. The
data of a tile is the sequence of the operations it has undergone; an
operation whose inputs are not what the sequential algorithm has there is `WRONG`,
and so is POTRF on a tile of `bad`, the panels that are not positive definite. The
accesses with acquire and release order are modelled as sequentially consistent. The error position is the panel and not the row within
it. `Promise` maps the counters to `TaskDAG`: the executions of the tiles'
operations are those of a scheduler that knows the dependences of the sequential
algorithm.

### dsytrd_sb2st

The master generates the tasks one by one, with the loop bounds and the end of a
sweep as the code computes them; a task may start when the tasks generated before
with a matching depend clause are done, which is OpenMP's rule. A kernel is the set of
elements it reads and writes, the places of the reflectors it uses and makes, and
what it fills and annihilates, so that the bulges are visible. `lwmin` follows the workspace
query to `fla_thread_get_num_threads`, at the nesting level at which it is asked.
The state graph has no cycles and deadlock is checked, so the region ends without
an assumption of fairness.

## 3. Runs

| Run | Instance | Shows |
|---|---|---|
| `analysis` | 2 blocks, 3 tasks, 30 operations, nesting 2; 313 000 states | dependences complete, counts exact, nothing survives a region |
| `exec_parallel` | 2 workers, 2 graphs of 4 tasks, 7 settings, and 3 with work stealing on the graph without two predecessors; 52 000 states | refinement, no loss, no use after free, sorted queues, queues changed only under their lock, termination |
| `exec_race` | 2 workers, stealing, two predecessors | finding: the queue of a task is written without a lock |
| `gpu` | 2 workers with GPUs of 2 blocks, 3 blocks, 4 programs of 4 tasks; 45 000 states | current operands, transfers apart, results in main memory, termination |
| `lu` | 8 shapes up to 6 x 7, panels of 1 to 3, 2 to 4 threads, zero pivots | no race, ready panels, the sequential result, termination |
| `lu_short_team` | 6 x 6, 4 threads asked for, 1 provided | finding: columns stay without their updates |
| `context` | parts: up to 4 threads, 18 elements, 4 sizes; context: 2 threads; 157 000 states | partition, balance, cache lines; settled before use, justified counts, every call returns |
| `context_early_set` | the context, 2 threads | finding: a count set before the first query is overwritten |
| `tile_cholesky` | 3 x 3 tiles, 2 threads, every set of bad panels; 81 000 states | no race, refinement, the factor, the first failure, termination |
| `sb2st` | orders 1 to 9 with 2 subdiagonals and 1 to 3 threads, 4 to 11 with 3, 12 with 4 | clauses suffice, current reflectors, tridiagonal at the end |
| `sb2st_workspace` | order 5, 2 threads, number of threads left to OpenMP | finding: the query counts one thread, the reduction uses more |
| `labrd` | 5 x 4 and 3 x 4, 2 columns, 4 threads of which some steps use 2; 289 000 states | no race, the serial result, current buffer, and the barrier's properties in use: nobody early, no arrival lost, all get through |

The barrier is checked in the company of its user: `labrd` passes it up to twenty
times, with threads that arrive in every order. The type invariants stand in the
modules, and all of them are theorems.

Why the bounds are enough. Dependences relate one block, its last writer, and the
readers since: three tasks are a writer, a reader and a writer in any roles, and
two blocks let one task meet the same predecessor twice and through different
kinds of dependence; the theorems lift the bounds for the properties they cover.
The graphs of the executor contain what the analysis produces on a 2 x 2 matrix:
two dependences between the same two tasks, two predecessors that finish at once,
two readers of one block, a task that is ready from the start. Two workers
suffice for the races of two predecessors. On the GPUs, two blocks
for three make a task evict what another has made dirty, and the programs contain a
block that is written again after the other GPU has read it, tasks for the CPU before, between
and after those for the GPU, and repeated operands. The shapes of
the LU run include one panel, a narrow last panel, more rows than columns and
fewer, and more threads than columns. Three by three tiles have every kind of
operation, a trailing update with two producers, a second panel that depends on
the first, and two panels that may fail; four by four with two threads (1.6
million states) and three by three with three threads (10 million) were checked
once and hold as well. The bands have orders that are and are not multiples of the
bandwidth, sweeps of one task and of many, three threads for the two alternating
places. Four threads of which two form the smaller team are the least with threads that have
no part of a section, and with two divisions of the same vector; two columns make the second
meet what the first has left in the buffer.

Fairness. `FLASH_Queue_exec` assumes strong fairness of each worker's steps: the
code waits for locks in a spinning or blocking lock that is released again and
again, and terminates only if a waiting worker gets it some day. `dlabrd_var1`,
`dpotrf_var2`, `FLA_Context` and `FLASH_Queue_gpu` assume weak fairness of each thread (OpenMP's
or the program's threads keep running; their waits are for conditions that stay true, or are scans that go on), `FLA_LU_piv_parallel` only that some
thread of the team keeps running. Calls of the user (`FLASH_Queue_begin`, queries) are never assumed to
happen. `FLASH_Queue` and `dsytrd_sb2st` state no liveness.

## 4. Findings

* `exec_race`: with work stealing, two predecessors of a task both write
  `task->queue` without a lock. The last to decrement `n_ready` locks the queue it
  read earlier, and `FLASH_Queue_wait_enqueue` appends to the queue the field names
  by then: a waiting queue is changed without its lock.
  What comes of it is shown by the instance with `Execution <- StolenJoin` in the place of `StolenDiamond`: an insertion has
  seen the queue with a task that the owner of its lock takes before the insertion is
  finished, and the newly ready task is linked behind a task that no longer waits. TLC then finds
  `ReadyInOnePlace`, `NoUseAfterFree`, `NothingLeft`, `ObservesDependences` and `RegionEnds` violated.
* `lu_short_team`: the work is divided by the number of threads asked for. If
  OpenMP provides fewer, the columns of the missing threads are not updated. This
  happens when `FLA_NUM_THREADS` is set, since `fla_thread_get_num_threads` then
  does not look at the nesting, and the routine is called inside a parallel region.
* `sb2st_workspace`: the workspace query asks for the number of threads inside a
  parallel region, the reduction outside. With `FLA_NUM_THREADS` unset and nested
  parallelism off the query has room for one thread, and the others' elements lie
  behind the array. Callers that pass through `DSYTRD_2STAGE` have more room than
  the query asks for.
* `context_early_set`: `fla_thread_set_num_threads` before the thread's first query has no
  effect. The query takes the count from the global context (`FLA_Context.c:311`), although the
  comment at lines 464-465 excepts a thread that has set its own (`RequestHonoured`). What does
  hold is `CountJustified`: a count set after the first query is kept, and a thread that has set none is
  told the environment's or OpenMP's.

One more disagreement was met and is described here without a run of its own.
`FLASH_Queue_push_output` (`FLASH_Queue.c:708-713`) gives a task the queue of the
last writer of its *first* output block, so other blocks move between queues,
against `docs/libflame/40-user-api.tex:5745-5746`; this is placement, not
correctness.

## 5. Proofs

All theorems hold for every value of the constants that satisfies the named
assumptions, and all proofs are complete.

**FLASH_Queue_proofs.** `TypeCorrect`, `QueueEnabled` (no task is queued while
SuperMatrix is disabled), `DependencesComplete` (`ConflictsOrdered`: an execution
that observes the lists never reaches a task before an earlier one it conflicts
with) and `BlocksForget` (`NoStaleTasks`). `ConflictsOrdered` speaks of tasks in
the queue, but the edges of a task are made before it gets there, one block at a
time, from what its blocks remember; so it is not inductive. The invariant adds
what the blocks remember about the operands analysed so far: `LastWriter` (the
last writer has written the block and every other writer is earlier),
`ReadersSince` (the list holds all readers after the last writer, and only
readers), and `ClashesOrdered` (any two clashing accesses analysed so far are
ordered by the lists). The step of `push_output` is the heart: an earlier reader
or writer of the block is either in the list of readers, and gets an edge to the
new task, or it is before the last writer, which gets one; the order is then
transitive, by the definition through closed sets of tasks.
`IdsAreDense` (`BlockIdsDense`): the numbers handed out are those of the blocks that have been
touched or written, each one once (`Numbers`). `CountIsInDegree` (`NReadyIsInDegree`): the nodes
that name the task being pushed are compared with its count operand by operand; a written block
adds as many nodes as it has readers and a last writer to notify, whatever lists they go to
(`MoreCount`), and no later operand touches the count of an earlier task.

**FLASH_Queue_exec_proofs.** `TypeCorrect`, `ReadyOnce` (`ReadyInOnePlace`), `SafeFree`
(`NoUseAfterFree`), `RegionLeavesNothing` (`NothingLeft`), `LongestPathFirst` (`HighestFirst`),
`QueuesLocked` (`WaitQueueLocked`) and `ImplementsTaskDAG` (`ObservesDependences`), for any number of
workers and queues, for every graph that `GraphAssumption` admits and every setting that
`QueuesAssumption` does. The invariant says, of every task and worker,

* what `n_ready` still counts: the notifications its predecessors owe it, and
  who owes them, so that the decrement that reaches zero is the last one;
* where a task is: not yet ready, in the hands of one worker, in one
  waiting queue, or done, and never at two of these places;
* who holds which lock, at each program counter, and with which index;
* which tasks have been freed, and what a block still remembers: its last
  writer until that is freed, its readers until one of them is;
* the waiting queues are sorted by height, each insertion being one into a
  sorted sequence. That the recursively defined heights exist and are numbers is shown
  with a least counterexample.

All of them but `TypeCorrect` carry the hypothesis `SinglePredecessors`: work is stolen only in
graphs whose tasks have one predecessor at most. It cannot be dropped: the run `exec_race` and
the instance `StolenJoin` show what happens without it. `TypeCorrect` holds without it (`LocalsNext`), since a list that is
written back under the wrong lock is still a list of tasks of the region.
With the hypothesis the queue number of a task has one writer at a time, so the lock
a worker holds is that of the queue it works on and its `view` is what the queue holds (`Fresh`,
`Steady`). Then each change of a waiting queue can be read as one on the queue's present list
(`StepNow`, `StepIsNow`), and the invariant is proved for these steps.
`ImplementsTaskDAG` shows that `Promise` maps the initial states and every
step to those of `TaskDAG` or to a stutter.

**FLA_Threads_proofs, Workers_proofs.** `TypeCorrect`, `PartsPartition`, `PartsBalanced` and
`PartsOnLines`: the parts of `FLA_Thread_get_subrange` and of
`FLA_Thread_get_subrange_chunks` are disjoint and cover the range, the former are
balanced and the latter share no cache line, for every team, range and element
size. Both are shown to follow one another without a gap (`SubrangeTiles`, `ChunkTiles`),
from facts about quotients; by cache lines the step that is not obvious is
that there are threads enough for all shares (`ChunkFacts`). The invariant of the
team only says that a part, once computed, is the one of its thread.

The same module proves three theorems about `FLA_Context`. `ContextTypeCorrect` is its type
invariant. `ContextSettled`
(`SettledBeforeUse`): the global context is complete before any thread copies it and
constant afterwards, for any number of threads. The invariant adds that one thread at
most is inside the one-time initialisation and how far `once` and the context have
got there. `CountIsJustified` (`CountJustified`): a count returned is the one
this thread has set, if it has set one after its first query, and otherwise that of the environment or
of OpenMP. What the thread's copy holds is either the global settings or
the last request (`Copy`), and no step of another thread changes it (`OthersKept`).

And it proves of `FLASH_Queue_gpu`, for any number of GPUs, of blocks and of slots and for every
program that `GpuAssumption` admits, `GpuTypeCorrect`, `OperandsAreCurrent` (`OperandsCurrent`),
`TransfersStayApart` (`TransfersApart`) and `ResultsReachMain` (`ResultsInMain`). The invariant `GpuInv` is
about ownership. A GPU owns a block whose current contents only it has: a dirty one, one that
it is evicting, or one that its task has computed and not yet marked. A block has at most one owner, and is
stored nowhere else (`OwnerInv`). A task whose check of a block on another GPU has gone well keeps
the other from owning it, since tasks that conflict are not available at the
same time (`OrderInv`, `CheckInv`); this is why the check, a section of its own, is still
true when the blocks are fetched. What has been invalidated stays so (`AloneInv`), and what has been flushed for a task
on the CPU stays clean (`ClearInv`). The fetched blocks of a task are the first of
its GPU, so that the one that is evicted, the last, is none of them: otherwise all slots held
blocks of the task, and one more had to be fetched than `GpuAssumption` lets it have (`FetchInv`). From these
it follows that every stored copy is current (`CopyInv`), main memory too unless the block has an owner
(`MainInv`), and that a logged slot is still the one to be flushed (`LogInv`). At the end nobody
is left who owns a block; that all tasks have run, once each, is a matter of the counts of committed
tasks (`CountInv`) and of those that have written a block (`WrittenInv`).

**FLA_LU_piv_parallel_proofs.** `TypeCorrect`, `RaceFree` (`NoDataRace`) and `PanelsReady`
(`PanelReady`), for every matrix, block size, number of threads asked for and team
that OpenMP provides. The invariant `PInv` adds to the types that all threads are at
the same panel (`InStep`) and where each may be in each region (`Places`): only
thread 0 factors panels, and only when there is a next one, so that the present panel
then has all of its nb columns. Columns of the present panel, of the next one and those that
the other threads share follow one another (`UpdatedApart`), and these shares are
disjoint by the lemmas on `FLA_Thread_get_subrange`. For `PanelsReady` the
panels are numbered 1 + k nb: those up to the present one are ready, the next one is when thread 0
waits at the barrier, and all are in the second region (`ReadySoFar`). That `info` is in range uses
that a set of columns has a least one (`LeastElement`, from the well-foundedness of the
natural numbers).
`FactorIsRight` (`Factored`) is shown for teams of as many threads as were asked for; the run
`lu_short_team` shows that it is false for smaller ones. A column is at every moment a prefix of
its history in the sequential factorisation: the first p panels, and of the present one what the
thread that has the column has done (`Written`). Since the parts of the threads cover the
columns to be updated, all columns have reached the same panel when the team moves on
(`AtPanel`). The history of a column is a recursive function; that there is one, and that
it grows by the next panel, follows from a least panel where it would not. Pivots and `info` are
those of the panels factored so far (`Results`).

**dlabrd_var1_proofs.** First the barrier by itself: `TypeCorrect`, `BarrierHolds` and `ResetIsSafe`. The
invariant divides the threads, between two releases, into those that still look at
the gate of the round before (`Leaving`) and those of the present round
(`Present`); `wait_count` is the number of arrivals of the present round until the
last thread resets it (`Counted`), and while a thread acts as the last, all others wait
(`Alone`). That the last arrival means *all* have arrived is an argument on
cardinalities (`LastToArrive`).

Then its user: `UsesBarrier` (the composed specification implements that of
`FLA_Barrier`) and `LabrdRaceFree` (`NoDataRace`), for every team, matrix and size of an element. By
`UsesBarrier` the barrier's invariant holds here too; hence two threads that make calls have passed
it equally often and are in the same section of the same column. What is left
is one lemma per section (`FinishXIndependent` to `WideYIndependent`): the parts of two threads
in a range are disjoint, also when the optimal team is smaller than the team and
some threads have none (`LinesApart`), and what a call reads outside its thread's
part no thread writes in that section. In the sections of a single thread there is only that one
(`OnlyThread0`), and the single section has one thread by the flag of OpenMP.
`BufferHolds` (`BufferCurrent`) is about the past of a cell of the row buffer. Every section fills a range of
cells that is disjoint from, or later than, what the sections after it still read (`TallOrderly`): a
call that reads a cell finds an earlier section of its column that fills it, and none in between does.
`Tidy` says that a cell holds what was last put there until some thread comes to the next section
that fills it, that a thread that waits at the barrier has its calls behind it, and that nobody leaves a single
section behind that nobody has entered. The barrier's invariant then does the rest: who reads in a section
knows that all threads have the earlier ones behind them and that none is in a later one; and some
thread has the cell, since the parts cover the range (`Somebody`).
`SerialResultHolds` (`SerialResult`) is shown for both shapes. `Turn` maps the n-th call of a section to
the call of the serial reduction that it stands for. The calls of the threads at one place
write together what that serial call writes, each element by one thread only
(`Serves`, `TallServes`, `WideServes`), because the parts of a range tile it, also when
a step is divided among fewer threads than the team has; and every serial call has its place (`TallDone`,
`WideDone`). Places follow one another as the calls of the reference do (`TurnGrows`). The invariant
(`Traced`) says of the history of every element that each entry is the record of a call made by its one
thread (`Explained`), that each call made is recorded (`Recorded`), and that the
entries are in the order of the reference (`InTurn`). A new entry is the last in that order: within a section
two calls on an element are by the same thread (`SectionIndependent`), which
makes them one after the other, and between sections lies the barrier.

**dpotrf_var2_proofs.** `TypeCorrect`, `TileRaceFree` and `FirstFailureReported`, for
every number of tiles and threads. That no two threads meet at a tile rests on what
a thread knows of a counter it read earlier: a claimed tile has one owner
(`OwnerInv`), since the compare-and-swap succeeds only on an unclaimed step; and the producers a
thread has found final are so still when it executes (`ReadyInv`), since no claim
succeeds on a final tile (`FinalStays`). What is read is final, what is written is claimed, so they
differ. The theorem about failures needs the past as well: every operation published had final
inputs (`HistoryInv`), so when a POTRF fails all tiles in front of its panel are
final (`FrontIsFinal`); a bad panel among them would have been recorded before it
was published (`ErrorInv`); and an operation in front of the first bad panel goes
right (`ContentInv`, `LengthInv`). Each action is first reduced to what it does to its
thread and tile (`WorkDoes`), and the invariants are shown for these few effects.
`FactorIsRight` (`Factored`) adds that a thread leaves without an error only when all tiles are
final. The count of finalised tiles and the threads that are about to count one make up the
number of final tiles (`CountInv`); that the count reaches NT (NT + 1) / 2 only with all tiles is the cardinality of a
triangle (`TriangleCount`), shown with a least triangle of another size. On this rests the last
step of `ImplementsTaskDAG` (`ObservesDependences`): every operation that starts has its producers done,
and the abstract region ends only when all of its tasks have run.

**dsytrd_sb2st_proofs.** `TypeCorrect`, `DependClausesSuffice` (`ConflictsInOrder`), `ReflectorsLast`
(`ReflectorsCurrent`) and `BulgesChasedOff` (`Tridiagonal`), for every order, bandwidth of at least two
and number of threads. A task is known by its sweep s and its number k in the sweep: the
loops generate it at the moment k + 3s, the sweeps of one moment from the first to the
last, and a sweep comes to its end only when those before it have (`EndsInOrder`), so that no
task is missing in between (`GenInv`). The clauses make two tasks depend on each other
when their numbers differ by two at most, whatever their sweeps. Hence, step by step,
a task that has been taken up has behind it all tasks of earlier sweeps that are no more than two numbers per
sweep ahead (`Trails`, `TrailsDone`); where a sweep has ended before that number, its last task takes
the place (`EndedTrails`). This is enough, since a task that is farther ahead works on columns behind
everything the later one touches (`FarApart`, `ConflictsTrail`). The place of a reflector holds
what the last of the tasks that make one there has made, in the order of their generation
(`ReflectorInv`), and between the maker and the user of a reflector there is no other.
For the matrix (`MatrixInv`): a column that a sweep has cleared stays clear, because a task that
would fill it again comes before (`FinishClear`); and an element outside of the band lies in the block of an even task,
right of the column annihilated there, as long as the same task of the next sweep has not been executed,
which then has the element in its own block (`FinishBulge`). When the loops end all sweeps have
ended (`AllSweepsEnd`); a column with more than one element below the diagonal would then have
a bulge, which waits for a task that has been executed.

Only model-checked: the liveness properties (`RegionEnds` of the executor and of the GPUs,
`Completes`, `CallsReturn`, `Returns`), which are out of the prover's reach, as is `ENABLED`, and hence
the absence of deadlock. All other properties of the passing runs are theorems, those of the
executor and `FactorIsRight` of LU with a hypothesis that a finding shows to be needed.
`BufferCurrent` speaks of the tall case, the only one with a row buffer.

## 6. Not modelled

Numerical kernels, algorithmic variants and control trees; the translated LAPACK
and its interfaces; tests, examples and build files; verbose output and timing.
Of the modelled files: the contents of the caches and prefetching, the SCC
and simulation paths of the executor; enabling GPUs and choosing tasks by what a GPU
stores; a GPU that stores fewer blocks than a task has operands (`GpuAssumption`: the
default is 128); the complex and single precision
variants of LU, LABRD, Cholesky and the band reduction, which are the same but for
the type; the choice of tile size and of thread counts in `dpotrf_var2.c`, and its
return to the sequential routine when the step counters cannot be allocated; the
early returns for narrow bands in `dsytrd_sb2st.c`; processor detection in the
context. `FLA_Lock.c` is represented by the locks of `FLASH_Queue_exec`. Of other
multithreaded kernels: `dpotrf` variant 1, `dormqr`, `dormlq`, `dlaswp`, the task
group in `dsytrd`, the spin flags of the large `dgeqrf`, `zhgeqz`.

## 7. Plan

1. `SuperMatrix`: analysis and executor composed; the graphs the executor runs are
   then those the analysis builds, and no two running tasks conflict on a block.
2. The other multithreaded kernels of section 6, `dormqr` first.
3. The least recently used caches of the executor (`FLASH_Queue_update_cache`) and
   prefetching, which writes a cache without its lock; the simulation mode, which
   prefetches with an index bounded by the task count it was called with; settings in
   which the cores per queue do not divide the threads.
4. Views: partitioning and repartitioning; blocking of a hierarchy.
5. Initialisation and memory accounting.
