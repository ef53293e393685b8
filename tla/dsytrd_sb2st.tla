---------------------------- MODULE dsytrd_sb2st ----------------------------
(***************************************************************************)
(* The reduction of a symmetric band matrix to tridiagonal form by bulge   *)
(* chasing (src/map/lapack2flamec/f2c/c/dsytrd_sb2st.c, its kernels in     *)
(* dsb2st_kernels.c, built with FLA_OPENMP_MULTITHREADING; the routines    *)
(* for the other data types are the same).                                 *)
(*                                                                         *)
(* The master thread generates one OpenMP task per kernel call; the depend *)
(* clauses are all that orders them.  Sweep s annihilates column s of the  *)
(* band and chases the bulge that arises down the matrix: its task 1 makes *)
(* the reflector, its even tasks apply it to the block below, which makes  *)
(* the next one, its odd tasks apply that to the next diagonal block.      *)
(*                                                                         *)
(* The matrix is the set of its elements in the lower triangle that may be *)
(* different from zero (the upper variant works on the transposed ones).   *)
(* A kernel takes effect in the step that ends it.  THGRSIZ is N and GRSIZ *)
(* is 1 in the code, so there is one group and no loop over its tasks.     *)
(***************************************************************************)
EXTENDS Integers, Sequences, FiniteSets

CONSTANT Problem   \* the reductions: order, bandwidth, threads, threading

(* mt says that FLA_NUM_THREADS or fla_thread_set_num_threads gives the    *)
(* number of threads, else OpenMP does; levels is max-active-levels-var.   *)
ProblemType == [n : Nat, kd : Nat, threads : Nat, mt : BOOLEAN, levels : Nat]

(* KD < 2 returns before the reduction starts.                             *)
ASSUME ProblemAssumption ==
  \A p \in Problem : p \in ProblemType /\ p.n > 0 /\ p.kd > 1 /\ p.threads > 0

VARIABLES
  prob,       \* the reduction
  next,       \* the master's place in its loops, or Finished
  stt,        \* the first sweep that has not been generated to its end
  tasks,      \* the tasks generated so far, in their order
  done,       \* the numbers of those that have been executed
  on,         \* the number of the task that each thread executes, or 0
  ended,      \* the parallel region has ended
  nonzero,    \* the elements of the matrix that may be different from zero
  v           \* the reflector that each element of hous belongs to

vars == <<prob, next, stt, tasks, done, on, ended, nonzero, v>>

N  == prob.n
KD == prob.kd
Thread == 0..(prob.threads - 1)
shift == 3
Min2(a, b) == IF a <= b THEN a ELSE b

Lower(low, high) == {x \in (low..high) \X (low..high) : x[1] >= x[2]}
Band(width) == {x \in Lower(1, N) : x[1] - x[2] <= width}

-----------------------------------------------------------------------------
(* The task at a place of the loops: its number within the sweep, its type *)
(* and the columns st..ed that it works on.                                *)
Myid(p) == (p.i - p.sweep) * shift + p.m

Kernel(p) ==
  LET myid  == Myid(p)
      ttype == IF myid = 1 THEN 1 ELSE (myid % 2) + 2
      colpt == (IF ttype = 2 THEN myid \div 2 ELSE (myid + 1) \div 2) * KD + p.sweep
  IN  [myid |-> myid, sweep |-> p.sweep, ttype |-> ttype,
       st |-> colpt - KD + 1, ed |-> Min2(colpt, N), colpt |-> colpt]

\* Mutant: a sweep ends as soon as an odd task is less than a bandwidth away
\* from the end of the matrix.
EndsSweepEarly(x) ==
  IF x.ttype = 2 THEN x.colpt >= N - 1 ELSE x.ed > N - KD

(* blklastind tells that the sweep has reached the end of the matrix.      *)
EndsSweep(x) ==
  IF x.ttype = 2 THEN x.colpt >= N - 1 ELSE x.st >= x.ed - 1 /\ x.ed = N

Finished == [i |-> 0, m |-> 0, sweep |-> 0]

(* The loops: over i, the last sweep that has been started, over the       *)
(* stepercol = shift steps m, over the sweeps from st up to i.             *)
NextI(i, first) ==
  IF i > N - 1 \/ first > i THEN Finished ELSE [i |-> i, m |-> 1, sweep |-> first]
NextM(i, m, first) ==
  IF m < shift /\ first <= i
  THEN [i |-> i, m |-> m + 1, sweep |-> first] ELSE NextI(i + 1, first)
Following(p, first) ==
  IF p.sweep < p.i THEN [p EXCEPT !.sweep = @ + 1] ELSE NextM(p.i, p.m, first)

-----------------------------------------------------------------------------
(* The depend clauses of a task, by the index of the element of work.      *)

\* Mutant: a task does not wait for the sweep before it to be far enough.
DependsInSweepOnly(x) == IF x.ttype # 1 THEN {x.myid - 1} ELSE {}

DependsIn(x) ==
  {x.myid + shift - 1} \cup IF x.ttype # 1 THEN {x.myid - 1} ELSE {}
DependsOut(x) == {x.myid}

(* OpenMP: a task with an in dependence waits for the tasks generated      *)
(* before it with an out dependence on the same location, one with an out  *)
(* dependence for those with any dependence on it.                         *)
Dependent(x, y) ==
  \/ DependsOut(x) \cap (DependsIn(y) \cup DependsOut(y)) # {}
  \/ DependsIn(x) \cap DependsOut(y) # {}

Startable(q) == \A p \in 1..(q - 1) : Dependent(tasks[p], tasks[q]) => p \in done

-----------------------------------------------------------------------------
(* The kernels.                                                            *)

(* The rows of the block below the columns of an even task.                *)
Below(x) == (x.ed + 1)..Min2(x.ed + KD, N)
Columns(x) == x.st..x.ed

\* Mutant: all sweeps keep their reflectors in the same place.
SlotsOfOne(sweep, positions) == {0} \X positions

(* The places of a sweep's reflectors: two sweeps alternate.               *)
Slots(sweep, positions) == {(sweep - 1) % 2} \X positions

(* What a task reads and writes of the matrix and of the reflectors.       *)
Elements(x) ==
  CASE x.ttype = 1 -> Lower(x.st, x.ed) \cup (Columns(x) \X {x.st - 1})
    [] x.ttype = 2 -> Below(x) \X Columns(x)
    [] x.ttype = 3 -> Lower(x.st, x.ed)
Uses(x) == IF x.ttype = 1 \/ (x.ttype = 2 /\ Below(x) = {}) THEN {} ELSE Slots(x.sweep, Columns(x))
Makes(x) ==
  CASE x.ttype = 1 -> Slots(x.sweep, Columns(x))
    [] x.ttype = 2 -> Slots(x.sweep, Below(x))
    [] x.ttype = 3 -> {}

(* The reflector made for the columns st..ed of a sweep.                   *)
Reflector(sweep, st) == <<sweep, st>>
NoReflector == <<0, 0>>
Made(x) == Reflector(x.sweep, IF x.ttype = 1 THEN x.st ELSE x.ed + 1)

(* DLARFG keeps one element of a column and annihilates the others.        *)
Annihilated(x) ==
  CASE x.ttype = 1 -> ((x.st + 1)..x.ed) \X {x.st - 1}
    [] x.ttype = 2 -> ((x.ed + 2)..Min2(x.ed + KD, N)) \X {x.st}
    [] x.ttype = 3 -> {}

(* DLARFY fills a diagonal block.  DLARFX from the right fills the rows of *)
(* the block below, from the left its columns, in which there is anything. *)
Filled(x) ==
  IF x.ttype # 2 THEN Lower(x.st, x.ed)
  ELSE IF \A e \in Elements(x) : e \notin nonzero THEN {} ELSE Elements(x)

After(x) ==
  LET kept == IF x.ttype = 1 /\ \E e \in Columns(x) \X {x.st - 1} : e \in nonzero
              THEN {<<x.st, x.st - 1>>} ELSE {}
  IN  ((nonzero \cup Filled(x)) \ Annihilated(x)) \cup kept

-----------------------------------------------------------------------------
Init ==
  /\ prob \in Problem
  /\ next = NextI(1, 1) /\ stt = 1
  /\ tasks = <<>> /\ done = {} /\ ended = FALSE
  /\ on = [t \in Thread |-> 0]
  /\ nonzero = Band(KD)
  /\ v = [s \in {0, 1} \X (1..N) |-> NoReflector]

(* The master generates the next task.                                     *)
Generate ==
  /\ next # Finished /\ on[0] = 0
  /\ LET x     == Kernel(next)
         first == IF EndsSweep(x) THEN stt + 1 ELSE stt
     IN  /\ tasks' = Append(tasks, x)
         /\ stt' = first
         /\ next' = Following(next, first)
  /\ UNCHANGED <<prob, done, on, ended, nonzero, v>>

(* A thread of the team, the master too, takes up a task that may run.     *)
Start(t) ==
  /\ on[t] = 0
  /\ \E q \in 1..Len(tasks) :
       /\ q \notin done /\ \A u \in Thread : on[u] # q
       /\ Startable(q)
       /\ on' = [on EXCEPT ![t] = q]
  /\ UNCHANGED <<prob, next, stt, tasks, done, ended, nonzero, v>>

Finish(t) ==
  /\ on[t] # 0
  /\ LET x == tasks[on[t]]
     IN  /\ nonzero' = After(x)
         /\ v' = [s \in DOMAIN v |-> IF s \in Makes(x) THEN Made(x) ELSE v[s]]
  /\ done' = done \cup {on[t]}
  /\ on' = [on EXCEPT ![t] = 0]
  /\ UNCHANGED <<prob, next, stt, tasks, ended>>

(* The barrier at the end of the region waits for all tasks.               *)
EndRegion ==
  /\ ~ended /\ next = Finished /\ done = 1..Len(tasks)
  /\ ended' = TRUE
  /\ UNCHANGED <<prob, next, stt, tasks, done, on, nonzero, v>>

Next ==
  \/ Generate \/ EndRegion
  \/ \E t \in Thread : Start(t) \/ Finish(t)
  \/ ended /\ UNCHANGED vars

Spec == Init /\ [][Next]_vars

-----------------------------------------------------------------------------
(* The array work: the band and its bulges, then KD elements per thread.   *)
indw == 1 + (2 * KD + 1) * N
Workspace(t) == (indw + t * KD)..(indw + t * KD + KD - 1)

(* fla_thread_get_num_threads, called at nesting level active.             *)
fla_thread_get_num_threads(active) ==
  IF prob.mt \/ active < prob.levels THEN prob.threads ELSE 1

(* The minimal LWORK, lwmin, comes from ILAENV2STAGE.  iparam2stage asks   *)
(* for the number of threads inside a parallel region, which is active     *)
(* when it has more than one thread.                                       *)
lwmin ==
  (2 * KD + 1) * N + KD * fla_thread_get_num_threads(IF prob.threads > 1 THEN 1 ELSE 0)

-----------------------------------------------------------------------------
(* Properties.                                                             *)

TaskType == [myid : Nat, sweep : 1..N, ttype : 1..3, st : 1..(N + 1), ed : 1..N, colpt : Nat]

(* The tasks have columns of the matrix, a thread executes a task that has *)
(* been generated, and every element stays in the band of 2 KD + 1 rows    *)
(* for which work has room.                                                *)
TypeOK ==
  /\ prob \in Problem /\ ended \in BOOLEAN /\ stt \in 1..N
  /\ \A q \in 1..Len(tasks) : tasks[q] \in TaskType
  /\ done \subseteq 1..Len(tasks)
  /\ on \in [Thread -> 0..Len(tasks)]
  /\ nonzero \subseteq Band(2 * KD)

Conflict(x, y) ==
  \/ Elements(x) \cap Elements(y) # {}
  \/ Makes(x) \cap (Makes(y) \cup Uses(y)) # {}
  \/ Uses(x) \cap Makes(y) # {}

(* Tasks that touch the same elements of the matrix, or of which one makes *)
(* a reflector where another makes or uses one, run one after the other in *)
(* the order in which they were generated: the depend clauses suffice, and *)
(* the parallel reduction does what the sequential one does.               *)
ConflictsInOrder ==
  \A t \in Thread : on[t] # 0 =>
    \A p \in 1..(on[t] - 1) : Conflict(tasks[p], tasks[on[t]]) => p \in done

(* A kernel applies the reflector that its own sweep made for its columns, *)
(* although two sweeps later the same place is used again.                 *)
ReflectorsCurrent ==
  \A t \in Thread : on[t] # 0 =>
    LET x == tasks[on[t]]
    IN  \A s \in Uses(x) : v[s] = Reflector(x.sweep, x.st)

(* At the end of the region all bulges have been chased off the matrix,    *)
(* which is tridiagonal, and similar to what it was: each reflector that   *)
(* an even task made from the block below the diagonal, and applied there, *)
(* has been applied to the diagonal block from both sides (one of a single *)
(* element is the identity).                                               *)
Tridiagonal ==
  ended =>
    /\ nonzero \subseteq Band(1)
    /\ \A q \in done : tasks[q].ttype = 2 /\ Cardinality(Below(tasks[q])) > 1 =>
         \E p \in done : tasks[p].ttype = 3 /\ Reflector(tasks[p].sweep, tasks[p].st) = Made(tasks[q])

(* LWORK is at least KD elements for each thread beside the band: "LWORK = *)
(* MAX(1, dimension) where dimension = (2KD+1)*N + KD*NTHREADS where ...   *)
(* NTHREADS is the number of threads used" (dsytrd_sb2st.c).               *)
WorkspaceSuffices == \A t \in Thread : on[t] # 0 => Workspace(t) \subseteq 1..lwmin

=============================================================================
