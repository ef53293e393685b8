---------------------------- MODULE FLASH_Queue ----------------------------
(***************************************************************************)
(* The analyser of SuperMatrix: parallel regions and the dependence        *)
(* analysis of the tasks that are enqueued in them                         *)
(* (src/base/flamec/supermatrix/main/FLASH_Queue.c).                       *)
(*                                                                         *)
(* A FLASH routine called between FLASH_Queue_begin and FLASH_Queue_end    *)
(* does not compute: it pushes tasks on the task queue _tq.  Pushing task  *)
(* t hangs t in the dependence lists of the earlier tasks it must wait     *)
(* for, and FLASH_Queue_end of the outermost region executes the queue.    *)
(*                                                                         *)
(* A task is named by its place in _tq (its order field plus one).  A      *)
(* block is a FLA_Base_obj: every view of it shares the bookkeeping.  The  *)
(* arguments of a task are the blocks its input (output) arguments are     *)
(* made of, in the order they are analysed, and the number of arguments: a *)
(* regular argument is one block, a macroblock is m * n of them.           *)
(* FLASH_Queue_push is one action for the allocation, one per call of      *)
(* FLASH_Queue_push_input or FLASH_Queue_push_output and one for the       *)
(* insertion into _tq; the single thread that pushes does nothing else in  *)
(* between.                                                                *)
(***************************************************************************)
EXTENDS Integers, Sequences, FiniteSets

CONSTANTS
  Block,     \* the blocks (base objects) of the matrices
  Op,        \* the operations a region may enqueue
  MaxTasks,  \* bound: tasks of one region
  MaxStack   \* bound: nesting of parallel regions

Task == 1..MaxTasks
NULL == 0

ASSUME BoundsAssumption == MaxTasks \in Nat /\ MaxStack \in Nat /\ MaxStack > 0

(* Blocks read and blocks written, and how many input and output arguments *)
(* they make up.  Every ENQUEUE macro passes at least one output.          *)
OpType == [in : Seq(Block), out : Seq(Block), n_in : Nat, n_out : Nat]

ASSUME OpAssumption ==
  \A o \in Op : o \in OpType /\ o.n_in <= Len(o.in) /\ 1 <= o.n_out /\ o.n_out <= Len(o.out)

VARIABLES
  initialized, enabled, stack,      \* flash_queue_initialized, _enabled, _stack
  n_tasks,                          \* _tq.n_tasks
  op,                               \* the input_arg and output_arg of a task
  n_ready, n_macro_args, n_war_args, dep_arg, queue,       \* fields of a task
  write_task, read_task, read_id, write_id,                \* fields of a block
  n_read_blocks, n_write_blocks,    \* flash_queue_n_read_blocks, _n_write_blocks
  pushing,                          \* FLASH_Queue_push is running
  i_in, i_out                       \* blocks of its arguments analysed so far

apiVars   == <<initialized, enabled, stack>>
taskVars  == <<n_ready, n_macro_args, n_war_args, dep_arg, queue>>
blockVars == <<write_task, read_task, read_id, write_id, n_read_blocks, n_write_blocks>>
pushVars  == <<pushing, i_in, i_out>>
vars == <<apiVars, n_tasks, op, taskVars, blockVars, pushVars>>

NoOp == [in |-> <<>>, out |-> <<>>, n_in |-> 0, n_out |-> 0]

-----------------------------------------------------------------------------
Reads(i)  == {op[i].in[k] : k \in 1..Len(op[i].in)}
Writes(i) == {op[i].out[k] : k \in 1..Len(op[i].out)}

\* The task that FLASH_Queue_push is building.
cur == n_tasks + 1

-----------------------------------------------------------------------------
(* Parallel regions.                                                       *)

Init ==
  /\ initialized = FALSE /\ enabled = TRUE /\ stack = 0
  /\ n_tasks = 0
  /\ op = [i \in Task |-> NoOp]
  /\ n_ready = [i \in Task |-> 0]
  /\ n_macro_args = [i \in Task |-> 0]
  /\ n_war_args = [i \in Task |-> 0]
  /\ dep_arg = [i \in Task |-> <<>>]
  /\ queue = [i \in Task |-> 0]
  /\ write_task = [b \in Block |-> NULL]
  /\ read_task = [b \in Block |-> <<>>]
  /\ read_id = [b \in Block |-> 0]
  /\ write_id = [b \in Block |-> 0]
  /\ n_read_blocks = 0 /\ n_write_blocks = 0
  /\ pushing = FALSE /\ i_in = 0 /\ i_out = 0

FLASH_Queue_reset ==
  /\ n_tasks' = 0
  /\ n_read_blocks' = 0 /\ n_write_blocks' = 0

(* FLA_Init; the early return of an initialised queue changes nothing.     *)
FLASH_Queue_init ==
  /\ ~initialized
  /\ FLASH_Queue_reset
  /\ initialized' = TRUE
  /\ UNCHANGED <<enabled, stack, op, taskVars, write_task, read_task, read_id,
                 write_id, pushVars>>

(* FLA_Finalize, which a program calls outside of its parallel regions.    *)
FLASH_Queue_finalize ==
  /\ initialized /\ stack = 0
  /\ initialized' = FALSE
  /\ UNCHANGED <<enabled, stack, n_tasks, op, taskVars, blockVars, pushVars>>

FLASH_Queue_begin ==
  /\ initialized /\ ~pushing /\ stack < MaxStack
  /\ stack' = stack + 1
  /\ UNCHANGED <<initialized, enabled, n_tasks, op, taskVars, blockVars, pushVars>>

(* Enabling and disabling fail, and change nothing, inside a region.       *)
FLASH_Queue_enable ==
  /\ initialized /\ ~pushing
  /\ stack = 0
  /\ enabled' = TRUE
  /\ UNCHANGED <<initialized, stack, n_tasks, op, taskVars, blockVars, pushVars>>

\* Mutant: disabling is not refused inside a region.
DisableAnywhere ==
  /\ initialized /\ ~pushing
  /\ enabled' = FALSE
  /\ UNCHANGED <<initialized, stack, n_tasks, op, taskVars, blockVars, pushVars>>

FLASH_Queue_disable ==
  /\ initialized /\ ~pushing
  /\ stack = 0
  /\ enabled' = FALSE
  /\ UNCHANGED <<initialized, stack, n_tasks, op, taskVars, blockVars, pushVars>>

\* Mutant: the readers of the output blocks are cleared.
WrittenBySome(b) == \E i \in 1..n_tasks : b \in Writes(i)

(* The blocks whose list of readers is cleared when all tasks are freed.   *)
ReadBySome(b) == \E i \in 1..n_tasks : b \in Reads(i)

(* What executing the queue leaves behind: every task is run and freed,    *)
(* which clears write_task of its output blocks and the readers of its     *)
(* input blocks (FLASH_Task_free), and then the queue is reset.  An empty  *)
(* queue returns early.                                                    *)
FLASH_Queue_exec ==
  IF n_tasks = 0
  THEN UNCHANGED <<n_tasks, op, taskVars, blockVars>>
  ELSE /\ write_task' = [b \in Block |->
              IF \E i \in 1..n_tasks : b \in Writes(i) THEN NULL ELSE write_task[b]]
       /\ read_task' = [b \in Block |->
              IF ReadBySome(b) THEN <<>> ELSE read_task[b]]
       /\ op' = [i \in Task |-> NoOp]
       /\ n_ready' = [i \in Task |-> 0]
       /\ n_macro_args' = [i \in Task |-> 0]
       /\ n_war_args' = [i \in Task |-> 0]
       /\ dep_arg' = [i \in Task |-> <<>>]
       /\ queue' = [i \in Task |-> 0]
       /\ FLASH_Queue_reset
       /\ UNCHANGED <<read_id, write_id>>

FLASH_Queue_end ==
  /\ initialized /\ ~pushing /\ stack > 0
  /\ stack' = stack - 1
  /\ IF stack = 1
     THEN FLASH_Queue_exec
     ELSE UNCHANGED <<n_tasks, op, taskVars, blockVars>>
  /\ UNCHANGED <<initialized, enabled, pushVars>>

-----------------------------------------------------------------------------
(* FLASH_Queue_push: allocation of the task, analysis of its arguments.    *)

(* The blocks beyond the first of each macroblock argument.                *)
ExtraBlocks(o) == (Len(o.in) - o.n_in) + (Len(o.out) - o.n_out)

FLASH_Task_alloc(o) ==
  /\ initialized /\ enabled /\ stack > 0 /\ ~pushing /\ n_tasks < MaxTasks
  /\ pushing' = TRUE
  /\ i_in' = 0 /\ i_out' = 0
  /\ op' = [op EXCEPT ![cur] = o]
  /\ n_macro_args' = [n_macro_args EXCEPT ![cur] = ExtraBlocks(o)]
  /\ UNCHANGED <<apiVars, n_tasks, n_ready, n_war_args, dep_arg, queue, blockVars>>

\* Mutant: a block that was only read before gets a second id.
Unwritten(b) == write_task[b] = NULL

(* A block neither written nor read before in this region gets its ids.    *)
Untouched(b) == write_task[b] = NULL /\ read_task[b] = <<>>

FLASH_Queue_push_input ==
  /\ pushing /\ i_in < Len(op[cur].in)
  /\ LET b == op[cur].in[i_in + 1]
         w == write_task[b]
     IN  /\ i_in' = i_in + 1
         /\ IF w = NULL
            THEN /\ n_ready' = [n_ready EXCEPT ![cur] = @ - 1]
                 /\ UNCHANGED dep_arg
            ELSE /\ dep_arg' = [dep_arg EXCEPT ![w] = Append(@, cur)]
                 /\ UNCHANGED n_ready
         /\ IF Untouched(b)
            THEN /\ read_id' = [read_id EXCEPT ![b] = n_read_blocks]
                 /\ n_read_blocks' = n_read_blocks + 1
            ELSE UNCHANGED <<read_id, n_read_blocks>>
         /\ read_task' =
              IF read_task[b] = <<>> \/ read_task[b][Len(read_task[b])] # cur
              THEN [read_task EXCEPT ![b] = Append(@, cur)]
              ELSE read_task
  /\ UNCHANGED <<apiVars, n_tasks, op, n_macro_args, n_war_args, queue,
                 write_task, write_id, n_write_blocks, pushing, i_out>>

\* Mutant: the last reader in the list is overlooked.
AllButLastReadNode(b) == {k \in 1..Len(read_task[b]) - 1 : read_task[b][k] # cur}

(* The nodes in b's list of readers since its last write that belong to    *)
(* another task, and those of them that belong to task i.                  *)
ReadNodes(b) == {k \in 1..Len(read_task[b]) : read_task[b][k] # cur}
ReadNodesOf(b, i) == {k \in ReadNodes(b) : read_task[b][k] = i}

\* Mutant: a block that the task writes twice counts as a dependence.
NeverWritten(w) == w = NULL

(* Given the last writer w of an output block, no task will notify cur.    *)
NoWriterBefore(w) == w \in {NULL, cur}

FLASH_Queue_push_output ==
  /\ pushing /\ i_in = Len(op[cur].in) /\ i_out < Len(op[cur].out)
  /\ LET b == op[cur].out[i_out + 1]
         w == write_task[b]
         \* the flow dependence on the last writer
         flow == IF w \in {NULL, cur}
                 THEN dep_arg
                 ELSE [dep_arg EXCEPT ![w] = Append(@, cur)]
     IN  /\ i_out' = i_out + 1
         /\ queue' = IF i_out = 0   \* data affinity follows the first output block
                     THEN [queue EXCEPT ![cur] = IF w = NULL THEN n_write_blocks
                                                           ELSE queue[w]]
                     ELSE queue
         /\ n_ready' = IF NoWriterBefore(w) THEN [n_ready EXCEPT ![cur] = @ - 1]
                                           ELSE n_ready
         /\ IF w = NULL
            THEN /\ write_id' = [write_id EXCEPT ![b] = n_write_blocks]
                 /\ n_write_blocks' = n_write_blocks + 1
            ELSE UNCHANGED <<write_id, n_write_blocks>>
         /\ IF Untouched(b)
            THEN /\ read_id' = [read_id EXCEPT ![b] = n_read_blocks]
                 /\ n_read_blocks' = n_read_blocks + 1
            ELSE UNCHANGED <<read_id, n_read_blocks>>
         \* each of those nodes moves to its task's dependence list
         /\ dep_arg' = [i \in Task |->
                flow[i] \o [k \in 1..Cardinality(ReadNodesOf(b, i)) |-> cur]]
         /\ n_war_args' = [n_war_args EXCEPT ![cur] = @ + Cardinality(ReadNodes(b))]
         /\ read_task' = [read_task EXCEPT ![b] = <<>>]
         /\ write_task' = [write_task EXCEPT ![b] = cur]
  /\ UNCHANGED <<apiVars, n_tasks, op, n_macro_args, pushing, i_in>>

(* The task becomes the tail of _tq, its order one more than its           *)
(* predecessor's.                                                          *)
FLASH_Queue_push_tail ==
  /\ pushing /\ i_in = Len(op[cur].in) /\ i_out = Len(op[cur].out)
  /\ n_tasks' = n_tasks + 1
  /\ pushing' = FALSE /\ i_in' = 0 /\ i_out' = 0
  /\ UNCHANGED <<apiVars, op, taskVars, blockVars>>

Next ==
  \/ FLASH_Queue_init
  \/ FLASH_Queue_finalize
  \/ FLASH_Queue_begin
  \/ FLASH_Queue_end
  \/ FLASH_Queue_enable
  \/ FLASH_Queue_disable
  \/ \E o \in Op : FLASH_Task_alloc(o)
  \/ FLASH_Queue_push_input
  \/ FLASH_Queue_push_output
  \/ FLASH_Queue_push_tail

Spec == Init /\ [][Next]_vars

-----------------------------------------------------------------------------
(* Properties.                                                             *)

TypeOK ==
  /\ initialized \in BOOLEAN /\ enabled \in BOOLEAN /\ pushing \in BOOLEAN
  /\ stack \in 0..MaxStack /\ n_tasks \in 0..MaxTasks
  /\ op \in [Task -> OpType]
  /\ n_ready \in [Task -> Int]
  /\ n_macro_args \in [Task -> Nat] /\ n_war_args \in [Task -> Nat]
  /\ dep_arg \in [Task -> Seq(Task)]
  /\ queue \in [Task -> Nat]
  /\ write_task \in [Block -> Task \cup {NULL}]
  /\ read_task \in [Block -> Seq(Task)]
  /\ read_id \in [Block -> Nat] /\ write_id \in [Block -> Nat]
  /\ n_read_blocks \in Nat /\ n_write_blocks \in Nat
  /\ i_in \in Nat /\ i_out \in Nat
  /\ pushing => /\ n_tasks < MaxTasks
                /\ i_in <= Len(op[cur].in) /\ i_out <= Len(op[cur].out)

(* Two tasks conflict when one of them writes a block that the other reads *)
(* or writes.                                                              *)
Conflict(i, j) ==
  \/ Writes(i) \cap (Reads(j) \cup Writes(j)) # {}
  \/ Reads(i) \cap Writes(j) # {}

(* A set of tasks that contains, with a task, everything that task waits   *)
(* for: the tasks some execution of the graph has started at some moment.  *)
Closed(S) ==
  \A i \in Task : \A k \in 1..Len(dep_arg[i]) : dep_arg[i][k] \in S => i \in S

(* The dependence analysis is complete: an execution that observes the     *)
(* dependence lists cannot reach a task before the earlier tasks it        *)
(* conflicts with, although the lists only name the last writer of a block *)
(* and the readers since (flow, anti- and output dependences).             *)
ConflictsOrdered ==
  \A i, j \in 1..n_tasks :
    i < j /\ Conflict(i, j) => \A S \in SUBSET Task : Closed(S) /\ j \in S => i \in S

(* The nodes of the dependence lists that will notify task i.              *)
Nodes == UNION {{j} \X (1..Len(dep_arg[j])) : j \in Task}
InEdges(i) == {e \in Nodes : dep_arg[e[1]][e[2]] = i}

(* The count of dependences that FLASH_Queue_init_tasks computes from the  *)
(* partial counts kept during the analysis (n_ready is decremented for an  *)
(* operand without a predecessor) is the number of notifications the task  *)
(* will get: a larger count never reaches zero and the region hangs, a     *)
(* smaller one starts the task early.                                      *)
NReadyIsInDegree ==
  \A i \in 1..n_tasks :
    n_ready[i] + op[i].n_in + op[i].n_out + n_macro_args[i] + n_war_args[i]
      = Cardinality(InEdges(i))

(* Between parallel regions no block remembers a task: tasks are freed by  *)
(* then, so a pointer left in write_task or in a list of readers would be  *)
(* followed into freed memory by the first push of the next region.        *)
NoStaleTasks ==
  stack = 0 => \A b \in Block : write_task[b] = NULL /\ read_task[b] = <<>>

(* The read ids of the blocks of a region are distinct and dense, and the  *)
(* write ids of the written ones too: they index the war locks and the     *)
(* prefetch list.                                                          *)
BlockIdsDense ==
  LET touched == {b \in Block : write_task[b] # NULL \/ read_task[b] # <<>>}
      written == {b \in Block : write_task[b] # NULL}
  IN  /\ {read_id[b] : b \in touched} = 0..(n_read_blocks - 1)
      /\ n_read_blocks = Cardinality(touched)
      /\ {write_id[b] : b \in written} = 0..(n_write_blocks - 1)
      /\ n_write_blocks = Cardinality(written)

(* Tasks wait in the queue only while SuperMatrix is enabled: a routine    *)
(* called when it is disabled computes at once, and would overtake them.   *)
QueuedOnlyIfEnabled == n_tasks > 0 \/ pushing => enabled

=============================================================================
